------------------------------- MODULE ChanNotes -------------------------------
(***************************************************************************)
(* What the people on the access list of one channel keep there            *)
(* (src/chanserv.c): the comment and the AUTOOP option of their entries,   *)
(* the description and the greetings of the channel; and what comes of     *)
(* them, the greetings and modes of somebody who joins (src/channels.c)    *)
(* and the status of somebody who identifies (do_setmodes() of             *)
(* src/nickserv.c).                                                        *)
(***************************************************************************)
EXTENDS Naturals, Sequences, SequencesExt, FiniteSets

CONSTANTS
    CnCore,         \* groups
    CnVisitor,      \* those whose user joins the channel
    CnLevel,        \* [CnCore -> SUBSET {"o", "v"}]: what a level entitles to
    CnText,         \* texts
    CnNone,         \* no text
    CnLiteral,      \* the empty string of the program, not an allocated one
    CnSlots,        \* greetings: 5
    CnMax           \* CSAccessMax

ASSUME CnApart == CnNone \notin CnText \cup CnCore /\ CnLiteral \notin CnText \cup {CnNone}
ASSUME CnVisitors == CnVisitor \subseteq CnCore
ASSUME CnNumbers == CnSlots \in Nat \ {0} /\ CnMax \in Nat

VARIABLES
    cnAccess,       \* ci->access: group, or CnNone if not in use, option, comment
    cnDesc,         \* ci->desc
    cnEntry,        \* ci->entry_message ... ci->entry_message5
    cnOn,           \* who is on the channel
    cnStatus,       \* uc->status: what Services think he has
    cnServer,       \* what he has
    cnWish,         \* the last AUTOOP of each group since it was put on the list
    cnUp            \* Services run

cnVars == <<cnAccess, cnDesc, cnEntry, cnOn, cnStatus, cnServer, cnWish, cnUp>>
CnOptions == {"T", "V", "F"}
CnEntries == [nc : CnCore \cup {CnNone}, auto : CnOptions, comment : CnText \cup {CnLiteral}]

ChanNotesTypeOK ==
    /\ cnAccess \in Seq(CnEntries) /\ Len(cnAccess) <= CnMax
    /\ cnDesc \in CnText \cup {CnLiteral, CnNone}
    /\ cnEntry \in [1 .. CnSlots -> CnText \cup {CnNone}]
    /\ cnOn \subseteq CnCore
    /\ cnStatus \in [CnCore -> SUBSET {"o", "v"}] /\ cnServer \in [CnCore -> SUBSET {"o", "v"}]
    /\ cnWish \in [CnCore -> CnOptions] /\ cnUp \in BOOLEAN

ChanNotesInit ==
    /\ cnAccess = << >> /\ cnDesc \in CnText /\ cnEntry = [i \in 1 .. CnSlots |-> CnNone]
    /\ cnOn = {} /\ cnStatus = [c \in CnCore |-> {}] /\ cnServer = [c \in CnCore |-> {}]
    /\ cnWish = [c \in CnCore |-> "F"] /\ cnUp = TRUE

\* The entries of a group: the loops take the last one.
CnOwn(c) == {i \in DOMAIN cnAccess : cnAccess[i].nc = c}
CnEntryOf(c) == CHOOSE i \in CnOwn(c) : \A j \in CnOwn(c) : j <= i

-----------------------------------------------------------------------------
(* The access list.                                                        *)

\* Mutant of NewEntry: it keeps what stood in an entry that was in use before.
NewEntryKeeping(i, c) ==
    IF i > Len(cnAccess) THEN [nc |-> c, auto |-> "F", comment |-> CnLiteral]
    ELSE [cnAccess[i] EXCEPT !.nc = c]

\* do_adduser(): the option and the comment are those of a new entry.
NewEntry(i, c) == [nc |-> c, auto |-> "F", comment |-> CnLiteral]

CnAddUser(c) ==
    LET free == {i \in DOMAIN cnAccess : cnAccess[i].nc = CnNone}
        i == IF free = {} THEN Len(cnAccess) + 1
             ELSE CHOOSE k \in free : \A j \in free : k <= j
    IN
    /\ cnUp /\ CnOwn(c) = {} /\ i <= CnMax
    /\ cnAccess' = IF free = {} THEN Append(cnAccess, NewEntry(i, c))
                   ELSE [cnAccess EXCEPT ![i] = NewEntry(i, c)]
    /\ cnWish' = [cnWish EXCEPT ![c] = "F"]
    /\ UNCHANGED <<cnDesc, cnEntry, cnOn, cnStatus, cnServer, cnUp>>

\* do_remuser(): the entry stays, without its group.
CnRemUser(c) ==
    /\ cnUp /\ CnOwn(c) # {}
    /\ cnAccess' = [cnAccess EXCEPT ![CnEntryOf(c)].nc = CnNone]
    /\ UNCHANGED <<cnDesc, cnEntry, cnOn, cnStatus, cnServer, cnWish, cnUp>>

\* do_autoop() and do_comment(), for one's own entry.
DoAutoop(c, what) ==
    /\ cnUp /\ CnOwn(c) # {}
    /\ cnAccess' = [cnAccess EXCEPT ![CnEntryOf(c)].auto = what]
    /\ cnWish' = [cnWish EXCEPT ![c] = what]
    /\ UNCHANGED <<cnDesc, cnEntry, cnOn, cnStatus, cnServer, cnUp>>

DoComment(c, text) ==
    /\ cnUp /\ CnOwn(c) # {}
    /\ cnAccess' = [cnAccess EXCEPT ![CnEntryOf(c)].comment = text]
    /\ UNCHANGED <<cnDesc, cnEntry, cnOn, cnStatus, cnServer, cnWish, cnUp>>

-----------------------------------------------------------------------------
(* The description and the greetings.                                      *)

\* do_set_desc(): the old one is freed, and without a text the new one is a
\* string of the program, which must not be freed: the next DESC fails.
DoSetDesc(text) ==
    /\ cnUp
    /\ IF cnDesc = CnLiteral THEN cnUp' = FALSE /\ UNCHANGED cnDesc
       ELSE cnDesc' = (IF text = CnNone THEN CnLiteral ELSE text) /\ UNCHANGED cnUp
    /\ UNCHANGED <<cnAccess, cnEntry, cnOn, cnStatus, cnServer, cnWish>>

\* do_set_entrymsg(): ADD takes the first free place, or the last of all.
EntryAdd(text) ==
    LET free == {i \in 1 .. CnSlots : cnEntry[i] = CnNone}
        place == IF free = {} THEN CnSlots ELSE CHOOSE i \in free : \A j \in free : i <= j
    IN
    /\ cnUp /\ cnEntry' = [cnEntry EXCEPT ![place] = text]
    /\ UNCHANGED <<cnAccess, cnDesc, cnOn, cnStatus, cnServer, cnWish, cnUp>>

\* CLEAR with a number clears one, without a number all.
EntryClear(S) ==
    /\ cnUp
    /\ cnEntry' = [i \in 1 .. CnSlots |-> IF i \in S THEN CnNone ELSE cnEntry[i]]
    /\ UNCHANGED <<cnAccess, cnDesc, cnOn, cnStatus, cnServer, cnWish, cnUp>>

-----------------------------------------------------------------------------
(* On the channel.                                                         *)

\* chan_adduser2(): who has identified is given what his entry says.  The mode
\* is sent and not recorded.
CnJoin(c, identified) ==
    LET auto == IF identified /\ CnOwn(c) # {} THEN cnAccess[CnEntryOf(c)].auto ELSE "F" IN
    /\ cnUp /\ c \notin cnOn /\ cnOn' = cnOn \cup {c}
    /\ cnServer' = [cnServer EXCEPT
          ![c] = CASE auto = "T" -> {"o"} [] auto = "V" -> {"v"} [] auto = "F" -> {}]
    /\ UNCHANGED <<cnAccess, cnDesc, cnEntry, cnStatus, cnWish, cnUp>>

CnPart(c) ==
    /\ c \in cnOn /\ cnOn' = cnOn \ {c}
    /\ cnStatus' = [cnStatus EXCEPT ![c] = {}] /\ cnServer' = [cnServer EXCEPT ![c] = {}]
    /\ UNCHANGED <<cnAccess, cnDesc, cnEntry, cnWish, cnUp>>

\* should_mode_change(): no op for an op, no voice for an op or a voice.
ShouldModeChange(status, m) == m \notin status /\ "o" \notin status

\* check_should_op(), check_should_voice(): by the level of his entry.
CheckShould(c, m) == CnOwn(c) # {} /\ m \in CnLevel[c]

\* do_setmodes(), when he identifies: the status is recorded and nothing sent.
DoSetmodes(c) ==
    LET due == {m \in {"o", "v"} : ShouldModeChange(cnStatus[c], m) /\ CheckShould(c, m)} IN
    /\ cnUp /\ c \in cnOn
    /\ cnStatus' = [cnStatus EXCEPT ![c] = @ \cup (IF "o" \in due THEN {"o"} ELSE due)]
    /\ UNCHANGED <<cnAccess, cnDesc, cnEntry, cnOn, cnServer, cnWish, cnUp>>

\* A MODE of somebody on the channel: it is so, and Services hear of it.
CnMode(c, m, on) ==
    /\ cnUp /\ c \in cnOn
    /\ cnStatus' = [cnStatus EXCEPT ![c] = IF on THEN @ \cup {m} ELSE @ \ {m}]
    /\ cnServer' = [cnServer EXCEPT ![c] = IF on THEN @ \cup {m} ELSE @ \ {m}]
    /\ UNCHANGED <<cnAccess, cnDesc, cnEntry, cnOn, cnWish, cnUp>>

\* Services come back, with all that was set (what is saved and when is
\* ChanFile's and Databases' matter): every string is an allocated one now.
CnRestart(text) ==
    /\ ~cnUp /\ cnUp' = TRUE
    /\ cnDesc' = IF cnDesc = CnLiteral THEN text ELSE cnDesc
    /\ cnOn' = {} /\ cnStatus' = [c \in CnCore |-> {}] /\ cnServer' = [c \in CnCore |-> {}]
    /\ UNCHANGED <<cnAccess, cnEntry, cnWish>>

ChanNotesNext ==
    \/ \E c \in CnCore :
          \/ CnAddUser(c) \/ CnRemUser(c)
          \/ \E what \in CnOptions : DoAutoop(c, what)
          \/ \E text \in CnText \cup {CnLiteral} : DoComment(c, text)
    \/ \E c \in CnVisitor :
          \/ CnPart(c) \/ DoSetmodes(c)
          \/ \E identified \in BOOLEAN : CnJoin(c, identified)
          \/ \E m \in {"o", "v"}, on \in BOOLEAN : CnMode(c, m, on)
    \/ \E text \in CnText \cup {CnNone} : DoSetDesc(text)
    \/ \E text \in CnText : EntryAdd(text) \/ CnRestart(text)
    \/ EntryClear(1 .. CnSlots) \/ \E i \in 1 .. CnSlots : EntryClear({i})

ChanNotesSpec == ChanNotesInit /\ [][ChanNotesNext]_cnVars
-----------------------------------------------------------------------------
(* Safety.                                                                 *)

\* Whoever joins is given what he himself asked for since he was put on the
\* list: no group inherits the option of one that had its entry before, and
\* none has two entries.
AutoopOwn ==
    \A c \in CnCore : /\ Cardinality(CnOwn(c)) <= 1
                      /\ \A i \in CnOwn(c) : cnAccess[i].auto = cnWish[c]
================================================================================
