--------------------------------- MODULE Memos ----------------------------------
(***************************************************************************)
(* The memos of one nick group or channel (src/memoserv.c): users who send *)
(* and cancel them, and the users that may read them, of whom there can be *)
(* several.  A memo has a number, which is what everybody calls it by.     *)
(*                                                                         *)
(* Left out: texts, dates and notices of new memos.  Groups other than the *)
(* one modelled are like it: STAFF and SENDALL send to each of them what   *)
(* SEND sends to one.                                                      *)
(***************************************************************************)
EXTENDS Naturals, Integers, Sequences, FiniteSets, SequencesExt

CONSTANTS
    MmSender,
    MmAdmin,        \* the senders that are services admins
    MmWidth,        \* memo numbers are unsigned: 2^32
    MSMaxMemos,     \* the setting
    MmMaxMemos      \* bound on the memos of an unlimited group

ASSUME MmAdminAssumption == MmAdmin \subseteq MmSender
ASSUME MmWidthAssumption ==
    {MmWidth, MmMaxMemos} \subseteq Nat /\ MmWidth > MmMaxMemos + 1

VARIABLES
    mmMemos,        \* mi->memos
    mmMax,          \* mi->memomax, -1 is no limit
    mmHard,         \* NI_MEMO_HARDMAX: only services admins change the limit
    mmWait,         \* who has sent, or tried to, within MSSendDelay
    mmNotify        \* NI_MEMO_SIGNON and NI_MEMO_RECEIVE

mmVars == <<mmMemos, mmMax, mmHard, mmWait, mmNotify>>

MemoRecords == [num: 1..(MmWidth - 1), from: MmSender, unread: BOOLEAN]

MemosTypeOK ==
    /\ mmMemos \in Seq(MemoRecords)
    /\ mmMax \in Int /\ mmHard \in BOOLEAN
    /\ mmWait \subseteq MmSender
    /\ mmNotify \subseteq {"signon", "receive"}

MemosInit ==
    /\ mmMemos = <<>> /\ mmMax = MSMaxMemos /\ mmHard = FALSE
    /\ mmWait = {} /\ mmNotify \in SUBSET {"signon", "receive"}

MmSame == UNCHANGED <<mmMax, mmHard, mmNotify>>

-----------------------------------------------------------------------------
(* Sending.                                                                *)

Renumbered(memos) == [i \in DOMAIN memos |-> [memos[i] EXCEPT !.num = i]]

\* Mutant of Numbered: the overflow of the numbers is not seen.
NumberedOn(memos, from) ==
    Append(memos, [num |-> IF memos = <<>> THEN 1 ELSE (Last(memos).num + 1) % MmWidth,
                   from |-> from, unread |-> TRUE])

\* The number of a new memo: the one after the last, or, when that overflows,
\* all numbers start again.
Numbered(memos, from) ==
    LET num == IF memos = <<>> THEN 1 ELSE (Last(memos).num + 1) % MmWidth
        all == Append(memos, [num |-> num, from |-> from, unread |-> TRUE])
    IN  IF num < 1 THEN Renumbered(all) ELSE all

\* memo_send(), also for STAFF and SENDALL, which go on when one group has
\* refused.  With delay, an attempt in the time starts the time again.
MemoSend(s, delay) ==
    LET tooSoon == delay /\ s \in mmWait /\ s \notin MmAdmin
        refused == (mmMax = 0 \/ (mmMax > 0 /\ Len(mmMemos) >= mmMax)) /\ s \notin MmAdmin
    IN  /\ tooSoon \/ refused \/ Len(mmMemos) < MmMaxMemos
        /\ mmMemos' = IF tooSoon \/ refused THEN mmMemos ELSE Numbered(mmMemos, s)
        /\ mmWait' = IF tooSoon \/ ~refused THEN mmWait \cup {s} ELSE mmWait
        /\ MmSame

\* SEND, and a memo that services send themselves.
MmSend(s) == MemoSend(s, TRUE)
MmStaff(s) == MemoSend(s, TRUE)
MmSendall(s) == s \in MmAdmin /\ MemoSend(s, TRUE)

\* MSSendDelay passes.
MmDelayOver(s) == s \in mmWait /\ mmWait' = mmWait \ {s} /\ UNCHANGED mmMemos /\ MmSame

\* delmemo(): the first memo with the number.
Delmemo(memos, num) ==
    LET I == {i \in DOMAIN memos : memos[i].num = num}
    IN  IF I = {} THEN memos ELSE RemoveAt(memos, CHOOSE i \in I : \A j \in I : i <= j)

\* CANCEL: the latest unread memo of the sender, by its number.
Cancel(s) ==
    LET I == {i \in DOMAIN mmMemos : mmMemos[i].unread /\ mmMemos[i].from = s} IN
    /\ I # {}
    /\ mmMemos' = Delmemo(mmMemos, mmMemos[CHOOSE i \in I : \A j \in I : j <= i].num)
    /\ UNCHANGED mmWait /\ MmSame

-----------------------------------------------------------------------------
(* Reading and deleting.                                                   *)

\* LIST: the numbers shown, of a list of numbers, of the new ones or of all.
Listed(numbers) == {mmMemos[i].num : i \in {i \in DOMAIN mmMemos : mmMemos[i].num \in numbers}}
ListNew == {mmMemos[i].num : i \in {i \in DOMAIN mmMemos : mmMemos[i].unread}}

\* check_memos() names the number of the only new memo.
NewMemoNamed == IF Cardinality(ListNew) = 1 THEN ListNew ELSE {}

ReadMemo(memos, i) == [memos EXCEPT ![i].unread = FALSE]
ReadAll(I) ==
    /\ mmMemos # <<>>
    /\ mmMemos' = FoldLeft(ReadMemo, mmMemos, SetToSeq(I))
    /\ UNCHANGED mmWait /\ MmSame

\* READ with numbers, NEW and LAST.
ReadNumbers(numbers) == ReadAll({i \in DOMAIN mmMemos : mmMemos[i].num \in numbers})
ReadNew == ReadAll({i \in DOMAIN mmMemos : mmMemos[i].unread})
ReadLast == ReadAll({Len(mmMemos)} \cap DOMAIN mmMemos)

\* DEL with numbers, which may come in any order as each takes another memo,
\* LAST and ALL: the rest is numbered again at the end.
Deleted(memos) == mmMemos' = Renumbered(memos) /\ UNCHANGED mmWait /\ MmSame
DelNumbers(numbers) ==
    mmMemos # <<>> /\ Deleted(FoldLeft(Delmemo, mmMemos, SetToSeq(numbers)))
DelLast == mmMemos # <<>> /\ Deleted(Delmemo(mmMemos, Last(mmMemos).num))
DelAll == mmMemos # <<>> /\ Deleted(<<>>)

-----------------------------------------------------------------------------
(* Settings.                                                               *)

\* SET NOTIFY.
SetNotify(flags) == mmNotify' = flags /\ UNCHANGED <<mmMemos, mmMax, mmHard, mmWait>>

\* SET LIMIT of the owner, and of services admins, who can make it hard.
SetLimit(limit) ==
    /\ ~mmHard /\ limit >= 0 /\ ~(MSMaxMemos > 0 /\ limit > MSMaxMemos)
    /\ mmMax' = limit /\ UNCHANGED <<mmMemos, mmHard, mmWait, mmNotify>>
AdminSetLimit(limit, hard) ==
    /\ mmMax' = limit /\ mmHard' = hard /\ UNCHANGED <<mmMemos, mmWait, mmNotify>>

MemosNext ==
    \/ \E s \in MmSender : \/ MmSend(s) \/ MmStaff(s) \/ MmSendall(s)
                           \/ MmDelayOver(s) \/ Cancel(s)
    \/ \E numbers \in {{1}, {2}, {1, 3}} : ReadNumbers(numbers) \/ DelNumbers(numbers)
    \/ ReadNew \/ ReadLast \/ DelLast \/ DelAll
    \/ \E flags \in SUBSET {"signon", "receive"} : SetNotify(flags)
    \/ \E limit \in {-1, 0, 1, 2} :
          SetLimit(limit) \/ \E hard \in BOOLEAN : AdminSetLimit(limit, hard)

MemosSpec == MemosInit /\ [][MemosNext]_mmVars
-----------------------------------------------------------------------------
(* Safety.                                                                 *)

\* Numbers go up along the list and start at 1 or more, also when they
\* overflow, so that a number always means one memo, and the memo that SEND
\* announced is the one that READ shows.
NumbersGoUp ==
    /\ \A i \in DOMAIN mmMemos : mmMemos[i].num >= 1
    /\ \A i, j \in DOMAIN mmMemos : i < j => mmMemos[i].num < mmMemos[j].num

\* CANCEL, which looks for the memo by number a second time, never takes away
\* a memo that was read or that somebody else sent, and leaves the others the
\* numbers that LIST has shown.
MmNums(memos, P(_)) == {memos[i].num : i \in {i \in DOMAIN memos : P(memos[i])}}
CancelsOwnUnread ==
    [][Len(mmMemos') < Len(mmMemos) =>
          \A s \in MmSender : Cancel(s) =>
             \A t \in MmSender, unread \in BOOLEAN :
                LET Kind(m) == m.from = t /\ m.unread = unread
                IN  (t = s /\ unread) \/ MmNums(mmMemos', Kind) = MmNums(mmMemos, Kind)]_mmVars
================================================================================
