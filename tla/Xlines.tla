-------------------------------- MODULE Xlines --------------------------------
(***************************************************************************)
(* The AKILL, SGLINE, SQLINE and SZLINE lists of OperServ                  *)
(* (src/operserv.c) as a Bahamut build has them: masks that keep users off *)
(* the network until a time, 0 being never.  Services keep the list, and   *)
(* the network keeps the bans it was sent.                                 *)
(*                                                                         *)
(* The four lists share no state and each is a copy of the same code with  *)
(* differences of its own, so a behaviour has one list: xKind says which.  *)
(*                                                                         *)
(* A mask is an element of XMask, XHits says what it matches.  One mask    *)
(* matches another when all that the other matches it matches too.         *)
(* Left out: who set an entry, reasons, notices to opers, and the kicks    *)
(* from its channels that come with the SQLINE of a mask of channels.      *)
(***************************************************************************)
EXTENDS Naturals, Sequences, FiniteSets, SequencesExt, SList

CONSTANTS
    XKinds,         \* of "akill", "sgline", "sqline", "szline"
    XMask, XTarget,
    XHits,          \* [XMask -> SUBSET XTarget]
    XChanMask,      \* the masks that begin with #
    XTooWide,       \* masks of nothing but wildcards
    XExpiries,      \* what ADD may ask for, in seconds from now; 0 is never
    AkillOnAdd,     \* the setting: AKILLs go to the network when they are added
    XLimit,         \* bound: SLIST_DEFAULT_LIMIT is 32767
    XMaxTime        \* bound of the clock

ASSUME XHitsAssumption ==
    /\ XHits \in [XMask -> SUBSET XTarget]
    /\ XChanMask \subseteq XMask /\ XTooWide \subseteq XMask
ASSUME XLimitAssumption == XLimit \in Nat /\ XExpiries \subseteq Nat
ASSUME XSettingAssumption == AkillOnAdd \in BOOLEAN
ASSUME XKindsAssumption == XKinds \subseteq {"akill", "sgline", "sqline", "szline"}

VARIABLES
    xKind,          \* which of the lists this behaviour is about
    xList,          \* the list: records of a mask and when it expires
    xBans,          \* the masks the network keeps users out by
    xFile,          \* the list as last saved
    xNow

xlineVars == <<xKind, xList, xBans, xFile, xNow>>

Entries == [mask: XMask, expires: Nat]

XlineTypeOK ==
    /\ xKind \in XKinds
    /\ xList \in Seq(Entries) /\ xFile \in Seq(Entries)
    /\ xBans \subseteq XMask
    /\ xNow \in Nat

XlineInit ==
    /\ xKind \in XKinds
    /\ xList = <<>> /\ xFile = <<>>
    /\ xBans = {}
    /\ xNow = 0

\* What the routines change, and the step from one to the next.
X == [list |-> xList, bans |-> xBans]
XBecomes(S) ==
    /\ xList' = S.list /\ xBans' = S.bans
    /\ UNCHANGED <<xKind, xFile, xNow>>

-----------------------------------------------------------------------------
(* Entries.                                                                *)

XCovers(wide, narrow) == XHits[narrow] \subseteq XHits[wide]
Outlasts(e, expires) == e.expires >= expires \/ e.expires = 0
Outlasted(e, expires) == e.expires <= expires \/ expires = 0

Send(S, mask) == [S EXCEPT !.bans = @ \cup {mask}]

\* Mutant of FreeEntry: the ban stays.
FreeEntryOnly(S, e) == S

\* free_akill_entry() and its three copies take the ban off the network.
FreeEntry(S, e) == [S EXCEPT !.bans = @ \ {e.mask}]
DeleteEntry(S, i) == [FreeEntry(S, S.list[i]) EXCEPT !.list = SlistDelete(S.list, i)]

\* The loop the four routines begin with.  From the end of the list, of the
\* entries at the positions seen: one with the mask takes the later expiry, a
\* longer one that covers it refuses it, a shorter one that it covers goes.
Scan(S, mask, expires, seen, longer, shorter) ==
    LET Visit(R, i) ==
            LET e == R.S.list[i] IN
            IF R.res # "go" \/ i \notin seen THEN R
            ELSE IF e.mask = mask THEN
                IF Outlasts(e, expires) THEN [R EXCEPT !.res = "refused"]
                ELSE [R EXCEPT !.res = "changed", !.S.list[i].expires = expires]
            ELSE IF XCovers(e.mask, mask) /\ i \in longer THEN [R EXCEPT !.res = "refused"]
            ELSE IF XCovers(mask, e.mask) /\ i \in shorter THEN [R EXCEPT !.S = DeleteEntry(R.S, i)]
            ELSE R
        n == Len(S.list)
    IN  FoldLeft(Visit, [S |-> S, res |-> "go"], [i \in 1..n |-> n + 1 - i])

\* The rest of the four routines.
Enter(R, mask, expires, sent) ==
    LET Added == [R.S EXCEPT !.list =
                     SlistAdd(@, XLimit, [mask |-> mask, expires |-> expires])]
    IN  IF R.res # "go" \/ SlistFull(R.S.list, XLimit) THEN R.S
        ELSE IF sent THEN Send(Added, mask) ELSE Added

Longer(S, expires) == {i \in DOMAIN S.list : Outlasts(S.list[i], expires)}
Shorter(S, expires) == {i \in DOMAIN S.list : Outlasted(S.list[i], expires)}

AddAkill(S, mask, expires) ==
    Enter(Scan(S, mask, expires, DOMAIN S.list, Longer(S, expires), Shorter(S, expires)),
          mask, expires, AkillOnAdd)

AddSgline(S, mask, expires) ==
    Enter(Scan(S, mask, expires, DOMAIN S.list, Longer(S, expires), Shorter(S, expires)),
          mask, expires, TRUE)

\* Masks of nicks and masks of channels are not compared.
AddSqline(S, mask, expires) ==
    Enter(Scan(S, mask, expires,
               {i \in DOMAIN S.list : (S.list[i].mask \in XChanMask) = (mask \in XChanMask)},
               Longer(S, expires), Shorter(S, expires)),
          mask, expires, TRUE)

\* The expiry times of different masks are not compared.
AddSzline(S, mask, expires) ==
    Enter(Scan(S, mask, expires, DOMAIN S.list, DOMAIN S.list, DOMAIN S.list),
          mask, expires, TRUE)

\* check_akill() and its copies: the first entry that matches is sent again.
SendMatching(S, target, masks) ==
    LET i == SlistIndexOf({j \in DOMAIN S.list : target \in XHits[S.list[j].mask]
                                                 /\ S.list[j].mask \in masks})
    IN  IF i = 0 THEN S ELSE Send(S, S.list[i].mask)

CheckAkill(S, target) == SendMatching(S, target, XMask)
CheckSgline(S, target) == SendMatching(S, target, XMask)
CheckSqline(S, target) == SendMatching(S, target, XMask \ XChanMask)
CheckChanSqline(S, target) == SendMatching(S, target, XChanMask)

-----------------------------------------------------------------------------
(* Commands.                                                               *)

Until(expiry) == IF expiry = 0 THEN 0 ELSE xNow + expiry

\* What the routine of the list makes of a new mask.
Entered(mask, expiry) ==
    CASE xKind = "akill" -> AddAkill(X, mask, Until(expiry))
      [] xKind = "sgline" -> AddSgline(X, mask, Until(expiry))
      [] xKind = "sqline" -> AddSqline(X, mask, Until(expiry))
      [] xKind = "szline" -> AddSzline(X, mask, Until(expiry))

AddTo(kind, mask, expiry) == xKind = kind /\ XBecomes(Entered(mask, expiry))
AkillAdd(mask, expiry) == mask \notin XTooWide \cup XChanMask /\ AddTo("akill", mask, expiry)
SglineAdd(mask, expiry) == mask \notin XTooWide \cup XChanMask /\ AddTo("sgline", mask, expiry)
SqlineAdd(mask, expiry) == mask \notin XTooWide /\ AddTo("sqline", mask, expiry)
SzlineAdd(mask, expiry) == mask \notin XTooWide \cup XChanMask /\ AddTo("szline", mask, expiry)

\* slist_delete_range() with the routine that frees an entry.
DeleteRange(S, range) ==
    LET gone == {S.list[i].mask : i \in SlistEnum(S.list, range)}
    IN  [list |-> SlistDeleteRange(S.list, range), bans |-> S.bans \ gone]

\* slist_indexof() with the routine that compares masks, then slist_delete().
DeleteMask(S, mask) ==
    LET i == SlistIndexOf({j \in DOMAIN S.list : S.list[j].mask = mask})
    IN  IF i = 0 THEN S ELSE DeleteEntry(S, i)

DelRange(k, range) == xKind = k /\ xList # <<>> /\ XBecomes(DeleteRange(X, range))
DelMask(k, mask) == xKind = k /\ xList # <<>> /\ XBecomes(DeleteMask(X, mask))

\* What DEL may be given as a range.
XRanges == {<<p>> : p \in (0..XLimit) \X (1..XLimit)} \cup
           {<<<<i, i>>, <<i + 1, i + 1>>>> : i \in 1..(XLimit - 1)}

DelAny(k) == (\E r \in XRanges : DelRange(k, r)) \/ (\E mask \in XMask : DelMask(k, mask))

AkillDel == DelAny("akill")
SglineDel == DelAny("sgline")
SqlineDel == DelAny("sqline")
SzlineDel == DelAny("szline")

\* CLEAR: slist_clear() frees every entry.
XlineClear == XBecomes([list |-> <<>>, bans |-> xBans \ {xList[i].mask : i \in DOMAIN xList}])

\* LIST and VIEW with numbers, and with a mask.
AkillShown(range) == SlistEnum(xList, range)
SglineShown(range) == SlistEnum(xList, range)
SqlineShown(range) == SlistEnum(xList, range)
SzlineShown(range) == SlistEnum(xList, range)
ShownByMask(mask) == {i \in DOMAIN xList : XCovers(mask, xList[i].mask)}

ShownNumbers(range) ==
    CASE xKind = "akill" -> AkillShown(range)
      [] xKind = "sgline" -> SglineShown(range)
      [] xKind = "sqline" -> SqlineShown(range)
      [] xKind = "szline" -> SzlineShown(range)

\* KILLCLONES: an AKILL on the host of the nick.
KillClones(host, expiry) ==
    /\ xKind = "akill"
    /\ XBecomes(AddAkill(X, host, Until(expiry)))

\* CHANKILL: an AKILL on the host of every user of the channel, and the check.
ChanKill(hosts, expiry) ==
    LET One(S, h) == CheckAkill(AddAkill(S, h, Until(expiry)),
                                CHOOSE t \in XHits[h] : TRUE)
    IN  xKind = "akill" /\ XBecomes(FoldLeft(One, X, hosts))

-----------------------------------------------------------------------------
(* Users, time and files.                                                  *)

\* do_nick(), and do_join() for the channel masks.  The AKILL that DEFCON
\* adds for every user who connects is KillClones' and its check.
Arrive(target) ==
    \/ xKind = "akill" /\ XBecomes(CheckAkill(X, target))
    \/ xKind = "sgline" /\ XBecomes(CheckSgline(X, target))
    \/ /\ xKind = "sqline"
       /\ XBecomes(CheckSqline(X, target)) \/ XBecomes(CheckChanSqline(X, target))

\* expire_akills() and its copies run from the end of the list.
Expired(S) ==
    LET Visit(R, i) ==
            IF R.list[i].expires # 0 /\ R.list[i].expires <= xNow THEN DeleteEntry(R, i) ELSE R
        n == Len(S.list)
    IN  FoldLeft(Visit, S, [i \in 1..n |-> n + 1 - i])

ExpireAkills == xKind = "akill" /\ XBecomes(Expired(X))
ExpireSglines == xKind = "sgline" /\ XBecomes(Expired(X))
ExpireSqlines == xKind = "sqline" /\ XBecomes(Expired(X))
ExpireSzlines == xKind = "szline" /\ XBecomes(Expired(X))

XlineTick ==
    /\ xNow < XMaxTime
    /\ xNow' = xNow + 1
    /\ UNCHANGED <<xKind, xList, xBans, xFile>>

\* save_os_dbase().
XlineSave ==
    /\ xFile' = xList
    /\ UNCHANGED <<xKind, xList, xBans, xNow>>

\* Services stop without saving and start again: load_os_dbase().  The
\* network keeps its bans.
XlineCrash ==
    /\ xList' = xFile
    /\ UNCHANGED <<xKind, xBans, xFile, xNow>>

XlineAdd(mask, expiry) ==
    \/ AkillAdd(mask, expiry) \/ SglineAdd(mask, expiry)
    \/ SqlineAdd(mask, expiry) \/ SzlineAdd(mask, expiry)
XlineDel == AkillDel \/ SglineDel \/ SqlineDel \/ SzlineDel
XlineExpire == ExpireAkills \/ ExpireSglines \/ ExpireSqlines \/ ExpireSzlines

Hosts1 == {k \in XMask : k \notin XTooWide \cup XChanMask /\ Cardinality(XHits[k]) = 1}

XlineNext ==
    \/ \E k \in XMask, e \in XExpiries : XlineAdd(k, e)
    \/ XlineDel \/ XlineClear
    \/ \E k \in Hosts1, e \in XExpiries : KillClones(k, e)
    \/ \E k1, k2 \in Hosts1, e \in XExpiries : ChanKill(<<k1, k2>>, e)
    \/ \E t \in XTarget : Arrive(t)
    \/ XlineExpire \/ XlineTick \/ XlineSave \/ XlineCrash

XlineSpec == XlineInit /\ [][XlineNext]_xlineVars
-----------------------------------------------------------------------------
(* Safety.                                                                 *)

\* 0 is never.
EndsNoSooner(e, f) == e.expires = 0 \/ (f.expires # 0 /\ e.expires >= f.expires)

\* The list keeps the target out at least as long as now.
StillKeptOut(list, target) ==
    \A i \in DOMAIN xList : target \in XHits[xList[i].mask] =>
        \E j \in DOMAIN list :
            target \in XHits[list[j].mask] /\ EndsNoSooner(list[j], xList[i])

\* The case in which it does not hold: 0 compares as the earliest time of
\* all, so a permanent entry goes when a wider mask is added for a while, and
\* a permanent mask is refused by a temporary entry, when it has already
\* replaced others.
ZeroIsEarliest(mask, expiry) ==
    \E i \in DOMAIN xList :
        IF expiry = 0 THEN xList[i].expires # 0 /\ XCovers(xList[i].mask, mask)
        ELSE xList[i].expires = 0 /\ XCovers(mask, xList[i].mask)

\* Adding a mask never shortens the time any target is kept out: entries are
\* only cleaned up, or refused, when another does their work at least as long
\* (the comment at operserv.c:1832).  SZLINEs ignore the times and are left
\* out.
AddKeepsProtection ==
    xKind # "szline" =>
        \A k \in XMask, e \in XExpiries :
            ZeroIsEarliest(k, e) \/ \A t \in XTarget : StillKeptOut(Entered(k, e).list, t)

ListMasks == {xList[i].mask : i \in DOMAIN xList}

\* The network keeps nobody out by a mask services have no entry for, and has
\* every entry of a list that is sent when it is added.
ListInForce ==
    /\ xBans \subseteq ListMasks
    /\ xKind # "akill" => ListMasks \subseteq xBans

\* Every command, arrival and expiry keeps it: only a crash loses entries
\* whose bans stay, or brings entries back whose bans are gone.
OnlyCrashesDiverge == [][ListInForce => (ListInForce' \/ XlineCrash)]_xlineVars

\* DEL with numbers, which nulls entries and packs the list at the end,
\* removes exactly those that LIST shows under the same numbers, and leaves
\* the others in order: of those that stay, the n-th is the n-th of the list.
DelMatchesList ==
    \A r \in XRanges :
        LET left == DeleteRange(X, r).list
            kept == DOMAIN xList \ ShownNumbers(r)
        IN  /\ Len(left) = Cardinality(kept)
            /\ \A i \in kept : left[Cardinality({j \in kept : j <= i})] = xList[i]
================================================================================
