-------------------------------- MODULE ModeLock --------------------------------
(***************************************************************************)
(* The modes of one channel and its mode lock (src/channels.c,             *)
(* src/chanserv.c), as a Bahamut build has them: what services remember    *)
(* of the modes, what the founder locked, and check_modes(), which puts    *)
(* the locked modes back until a server and ChanServ seem to be at war.    *)
(*                                                                         *)
(* Services make their record of the channel when its name is first used   *)
(* and keep it: the call of chan_delete() is commented out.  The network's *)
(* channel ends when nobody is on it.  ChanServ stays on a registered one  *)
(* until PART or a kick, which services do not look at, takes it off; a    *)
(* channel opened after that is taken for the one of the record.           *)
(*                                                                         *)
(* A change is a record [mode, add, arg]; status modes and bans, which     *)
(* chan_set_modes() handles too, are in modules Channels and ChanBans.     *)
(* The clock is abstracted to whether a counter's second is this one.      *)
(***************************************************************************)
EXTENDS Naturals, Sequences, FiniteSets, SequencesExt

CONSTANTS
    MlFlags,        \* lockable modes without a value, as n
    MlOnRegister,   \* those that REGISTER locks on: n and t
    MlValued,       \* lockable modes with a value, as k and l
    MlMinusNoArg,   \* those of them whose removal takes no argument: l
    MlValues,       \* the values a mode can have
    MlBadValues,    \* those a lock refuses: a key with a comma, limit 0
    MlStatus,       \* modes that give status, as o
    MlBounce,       \* how many modes in a second are a war: 3
    MlNone

ASSUME MlModesAreDistinct ==
    /\ MlFlags \cap MlValued = {} /\ "r" \notin MlFlags \cup MlValued
    /\ MlOnRegister \subseteq MlFlags /\ MlMinusNoArg \subseteq MlValued
    /\ MlBadValues \subseteq MlValues /\ MlNone \notin MlValues
ASSUME MlModesAreFinite == IsFiniteSet(MlFlags) /\ IsFiniteSet(MlValued)
ASSUME MlBounceIsPositive == MlBounce \in Nat \ {0}

VARIABLES
    mlChan,         \* the Channel, or MlNone before its name is first used
    mlUsers,        \* somebody is on it
    mlStays,        \* ChanServ is on it
    mlStale,        \* modes of the record that the network's channel lacks,
                    \* because they were those of one that ended
    mlLock,         \* mlock_on, mlock_off and the locked values
    mlReg,          \* the channel is registered
    mlNoChange      \* the DEFCON level denies changes of mode locks

mlVars == <<mlChan, mlUsers, mlStays, mlStale, mlLock, mlReg, mlNoChange>>

MlModes == MlFlags \cup MlValued \cup {"r"}
MlOption == MlValues \cup {MlNone}

ModeLockTypeOK ==
    /\ mlChan \in [modes: SUBSET MlModes, val: [MlValued -> MlOption],
                   sc: 0..MlBounce, sNow: BOOLEAN,
                   cc: 0..MlBounce, cNow: BOOLEAN, bouncy: BOOLEAN] \cup {MlNone}
    /\ mlLock \in [on: SUBSET MlModes, off: SUBSET MlModes, val: [MlValued -> MlOption]]
    /\ mlReg \in BOOLEAN /\ mlNoChange \in BOOLEAN
    /\ mlUsers \in BOOLEAN /\ mlStays \in BOOLEAN /\ mlStale \subseteq MlModes

NoValues == [v \in MlValued |-> MlNone]
NoLock == [on |-> {"r"}, off |-> {}, val |-> NoValues]
NewChannel == [modes |-> {}, val |-> NoValues, sc |-> 0, sNow |-> FALSE,
               cc |-> 0, cNow |-> FALSE, bouncy |-> FALSE]

ModeLockInit ==
    /\ mlChan = MlNone /\ mlLock = NoLock
    /\ mlReg = FALSE /\ mlNoChange = FALSE
    /\ mlUsers = FALSE /\ mlStays = FALSE /\ mlStale = {}

\* The network has the channel.
MlOpen == mlUsers \/ mlStays

\* A count of this second, up to the number that matters.
Counted(n, now) == IF ~now THEN 1 ELSE IF n < MlBounce THEN n + 1 ELSE n

-----------------------------------------------------------------------------
(* The lock.                                                               *)

\* What check_modes() does to the modes of a registered channel.  A mode that
\* is set, but whose value services do not know, is left alone.
Enforce(c, lock) ==
    LET off == (c.modes \cup lock.on) \cap lock.off
        wrong == {v \in lock.on \cap c.modes \cap MlValued :
                     c.val[v] # MlNone /\ lock.val[v] # MlNone}
    IN  [c EXCEPT !.modes = (@ \cup lock.on) \ lock.off,
                  !.val = [v \in MlValued |-> IF v \in off THEN MlNone
                                              ELSE IF v \in wrong \cup (lock.on \ c.modes) THEN lock.val[v]
                                              ELSE @[v]]]

\* check_modes().
CheckModes(c, reg, lock) ==
    LET counting == [c EXCEPT !.cc = Counted(@, c.cNow), !.cNow = TRUE]
    IN  IF c.bouncy THEN c
        ELSE IF c.sc >= MlBounce /\ c.cc >= MlBounce THEN [c EXCEPT !.bouncy = TRUE]
        ELSE IF reg THEN Enforce(counting, lock)
        ELSE [counting EXCEPT !.modes = @ \ {"r"}]

-----------------------------------------------------------------------------
(* Changes of the modes.                                                   *)

NeedsArg(ch) == ch.mode \in MlValued /\ (ch.add \/ ch.mode \notin MlMinusNoArg)

\* set_key(), set_limit() and the like, called with what follows the mode
\* when it is set and with NULL when it is removed.
SetValue(c, ch) == [c EXCEPT !.val[ch.mode] = IF ch.add THEN ch.arg ELSE MlNone]

\* chan_set_modes() without its checks: a mode whose argument is missing has
\* its flag changed and its value kept.
ApplyChange(c, ch) ==
    LET flagged == [c EXCEPT !.modes = IF ch.add THEN @ \cup {ch.mode} ELSE @ \ {ch.mode}]
    IN  IF ch.mode \in MlStatus THEN c
        ELSE IF ch.mode \notin MlValued \/ (NeedsArg(ch) /\ ch.arg = MlNone) THEN flagged
        ELSE SetValue(flagged, ch)

ChanSetModes(c, changes, check) ==
    LET d == FoldLeft(ApplyChange, c, changes)
    IN  IF check THEN CheckModes(d, mlReg, mlLock) ELSE d

\* The modes that the network changes too: those that have what they need.
Told(changes) ==
    {changes[i].mode : i \in {i \in DOMAIN changes : NeedsArg(changes[i]) => changes[i].arg # MlNone}}

\* What is left of the stale modes when the record becomes d: a mode that is
\* changed, or whose value is corrected, is the network's again.
StaleAfter(stale, d, told) ==
    {m \in (stale \cap d.modes) \ told : m \in MlValued => d.val[m] = mlChan.val[m]}

\* What is stale once somebody is on the channel: all of the record, when the
\* network's channel is a new one.
StaleOnOpening == IF MlOpen THEN mlStale ELSE mlChan.modes

\* The last one leaves: the network's channel ends.
StaleOnLeaving(open) == mlStale' = IF open THEN mlStale ELSE {}

MlHere == UNCHANGED <<mlUsers, mlStays>>
MlSettings == UNCHANGED <<mlLock, mlReg, mlNoChange>>

\* do_cmode(): modes of a server that give no status are counted.
MlCmode(server, changes) ==
    /\ mlChan # MlNone /\ MlOpen
    /\ LET counts == server /\ \A i \in DOMAIN changes : changes[i].mode \notin MlStatus
           c == IF counts THEN [mlChan EXCEPT !.sc = Counted(@, mlChan.sNow), !.sNow = TRUE]
                ELSE mlChan
           d == ChanSetModes(c, changes, TRUE)
       IN  mlChan' = d /\ mlStale' = StaleAfter(mlStale, d, Told(changes))
    /\ MlHere /\ MlSettings

\* What do_sjoin() makes of the record: the status of the one who joins and
\* the modes are set by two calls, and neither is counted.
SjoinModes(c, op, changes) ==
    ChanSetModes(IF op THEN CheckModes(c, mlReg, mlLock) ELSE c, changes, TRUE)

\* do_sjoin() of a name that is not known: chan_create(), with the lock and
\* with ChanServ if the channel is registered.
MlCreate(op, changes) ==
    /\ mlChan = MlNone
    /\ LET new == IF mlReg THEN CheckModes(NewChannel, TRUE, mlLock) ELSE NewChannel
       IN  mlChan' = SjoinModes(new, op, changes)
    /\ mlUsers' = TRUE /\ mlStays' = (mlStays \/ mlReg) /\ UNCHANGED mlStale
    /\ MlSettings

\* do_sjoin() of one that is: its record is taken, also when the network's
\* channel is a new one.
MlSjoin(op, changes) ==
    /\ mlChan # MlNone
    /\ LET d == SjoinModes(mlChan, op, changes)
       IN  mlChan' = d /\ mlStale' = StaleAfter(StaleOnOpening, d, Told(changes))
    /\ mlUsers' = TRUE /\ UNCHANGED mlStays
    /\ MlSettings

\* do_sjoin() of somebody who joins a channel that the network has.
MlJoin ==
    /\ mlChan # MlNone /\ mlStays /\ ~mlUsers /\ mlUsers' = TRUE
    /\ UNCHANGED <<mlChan, mlStays, mlStale>> /\ MlSettings

\* The last user leaves: chan_deluser() keeps the record.
MlPart ==
    /\ mlUsers /\ mlUsers' = FALSE
    /\ StaleOnLeaving(mlStays)
    /\ UNCHANGED <<mlChan, mlStays>> /\ MlSettings

\* cs_join() by JOIN, and by check_kick() when nobody is there; cs_part() by
\* PART, and a kick of ChanServ, which do_kick() does not find.
MlCsJoin ==
    /\ mlReg /\ mlChan # MlNone /\ mlStays' = TRUE
    /\ mlStale' = StaleOnOpening
    /\ UNCHANGED <<mlChan, mlUsers>> /\ MlSettings
MlCsPart ==
    /\ mlStays /\ mlStays' = FALSE
    /\ StaleOnLeaving(mlUsers)
    /\ UNCHANGED <<mlChan, mlUsers>> /\ MlSettings

\* Services start again: users who stayed come with the servers' do_sjoin().
MlRestart ==
    /\ mlChan' = MlNone /\ mlUsers' = FALSE /\ mlStays' = FALSE /\ mlStale' = {}
    /\ mlNoChange' = FALSE /\ UNCHANGED <<mlLock, mlReg>>

\* MODE of ChanServ and of OperServ, which do not ask whether somebody is there.
ByMode(changes) ==
    /\ mlChan # MlNone /\ ~mlChan.bouncy
    /\ LET d == ChanSetModes(mlChan, changes, FALSE)
       IN  mlChan' = d /\ mlStale' = StaleAfter(mlStale, d, Told(changes))
    /\ MlHere /\ MlSettings
CsMode(changes) == ByMode(changes)
OsMode(changes) == ByMode(changes)

\* CLEARMODES of OperServ: MODESTOREMOVE with the key as its only argument.
Clearmodes ==
    /\ mlChan # MlNone
    /\ ByMode(SetToSeq({[mode |-> m, add |-> FALSE, arg |-> MlNone] : m \in MlFlags} \cup
                       {[mode |-> v, add |-> FALSE, arg |-> mlChan.val[v]] : v \in MlValued}))

-----------------------------------------------------------------------------
(* Changes of the lock.                                                    *)

\* cs_set_key(), cs_set_limit(): a value that will not do takes the lock away.
CsSetValue(lock, v, value) ==
    IF value = MlNone \/ value \in MlBadValues
    THEN [lock EXCEPT !.on = @ \ {v}, !.val[v] = MlNone]
    ELSE [lock EXCEPT !.val[v] = value]

\* One letter of GUARDM.
LockChange(lock, ch) ==
    IF ch.add
    THEN LET locked == [lock EXCEPT !.on = @ \cup {ch.mode}, !.off = @ \ {ch.mode}]
         IN  IF ch.mode \in MlValued THEN CsSetValue(locked, ch.mode, ch.arg) ELSE locked
    ELSE LET off == [lock EXCEPT !.off = @ \cup {ch.mode}, !.on = @ \ {ch.mode}]
         IN  IF ch.mode \in lock.on \cap MlValued THEN CsSetValue(off, ch.mode, MlNone) ELSE off

\* GUARDM: the lock starts again from +r, r itself cannot be given.
SetMlock(changes) ==
    /\ mlReg /\ ~mlNoChange
    /\ LET lock == FoldLeft(LockChange, NoLock, changes)
           d == IF mlChan = MlNone THEN MlNone ELSE CheckModes(mlChan, TRUE, lock)
       IN  /\ mlLock' = lock /\ mlChan' = d
           /\ mlStale' = IF mlChan = MlNone THEN mlStale ELSE StaleAfter(mlStale, d, {})
    /\ MlHere /\ UNCHANGED <<mlReg, mlNoChange>>

\* REGISTER by a user on the channel, which ChanServ joins.
MlRegister ==
    /\ ~mlReg /\ mlChan # MlNone /\ mlUsers
    /\ LET lock == [NoLock EXCEPT !.on = @ \cup MlOnRegister]
           d == CheckModes(mlChan, TRUE, lock)
       IN  /\ mlReg' = TRUE /\ mlLock' = lock /\ mlChan' = d
           /\ mlStale' = StaleAfter(mlStale, d, {})
    /\ mlStays' = TRUE /\ UNCHANGED <<mlUsers, mlNoChange>>

\* DROP: the r is taken from the channel, which ChanServ leaves.
MlDrop ==
    /\ mlReg /\ mlReg' = FALSE /\ mlLock' = NoLock
    /\ mlChan' = IF mlChan = MlNone THEN MlNone ELSE [mlChan EXCEPT !.modes = @ \ {"r"}]
    /\ mlStays' = FALSE /\ mlStale' = IF mlUsers THEN mlStale \ {"r"} ELSE {}
    /\ UNCHANGED <<mlUsers, mlNoChange>>

\* checkDefCon(DEFCON_NO_MLOCK_CHANGE) changes.
MlDefCon ==
    /\ mlNoChange' = ~mlNoChange
    /\ MlHere /\ UNCHANGED <<mlChan, mlStale, mlLock, mlReg>>

\* A second passes.
MlTick ==
    /\ mlChan # MlNone /\ mlChan' = [mlChan EXCEPT !.sNow = FALSE, !.cNow = FALSE]
    /\ MlHere /\ UNCHANGED mlStale /\ MlSettings

\* What others may send: modes with the arguments they need.
WellFormed ==
    [mode: MlFlags \cup MlStatus, add: BOOLEAN, arg: {MlNone}] \cup
    [mode: MlValued, add: {TRUE}, arg: MlValues] \cup
    [mode: MlValued, add: {FALSE}, arg: {CHOOSE v \in MlValues : TRUE}]
\* What people type into MODE and GUARDM.
Typed == WellFormed \cup [mode: MlValued, add: BOOLEAN, arg: {MlNone}]
\* The modes that come with a SJOIN: those that are set, none of them status.
SjoinChanges ==
    {<<>>} \cup {<<ch>> : ch \in {ch \in WellFormed : ch.add /\ ch.mode \notin MlStatus}}
Lockable(changes) == \A i \in DOMAIN changes : changes[i].mode \notin MlStatus

ModeLockNext ==
    \/ \E ch \in WellFormed, server \in BOOLEAN : MlCmode(server, <<ch>>)
    \/ \E op \in BOOLEAN, changes \in SjoinChanges : MlCreate(op, changes) \/ MlSjoin(op, changes)
    \/ MlJoin \/ MlPart \/ MlCsJoin \/ MlCsPart \/ MlRestart
    \/ Clearmodes \/ MlRegister \/ MlDrop \/ MlDefCon \/ MlTick
    \/ \E ch \in Typed : CsMode(<<ch>>) \/ OsMode(<<ch>>)
    \/ \E ch1, ch2 \in Typed : Lockable(<<ch1, ch2>>) /\ SetMlock(<<ch1, ch2>>)

ModeLockSpec == ModeLockInit /\ [][ModeLockNext]_mlVars
-----------------------------------------------------------------------------
(* Safety.                                                                 *)

\* No mode is locked both ways, and a valued mode that is locked on has the
\* value it is locked to: check_modes() would set it without one.
LockSound ==
    /\ mlLock.on \cap mlLock.off = {}
    /\ \A v \in mlLock.on \cap MlValued : mlLock.val[v] \in MlValues \ MlBadValues

\* The modes are those of the lock, as far as services know their values.
LockHolds ==
    mlChan # MlNone /\ mlReg =>
        /\ mlLock.on \subseteq mlChan.modes
        /\ mlLock.off \cap mlChan.modes = {}
        /\ \A v \in mlLock.on \cap MlValued : mlChan.val[v] \in {MlNone, mlLock.val[v]}

\* Only MODE and CLEARMODES of services themselves are let through.
ByServices == (\E ch \in Typed : CsMode(<<ch>>)) \/ Clearmodes

\* Whatever servers, users and founders do, in whatever order, the lock is in
\* force in services' record when they have dealt with it, also when it was not
\* before, unless services have given the channel up as bouncing.
LockEnforced ==
    [][mlChan' # mlChan \/ mlLock' # mlLock =>
          (LockHolds' \/ mlChan'.bouncy \/ ByServices \/ MlTick)]_mlVars

\* "If creating the channel, restore mode lock and topic as necessary"
\* (channels.c:1220): a channel that opens has the locked modes.
LockRestored ==
    [][~MlOpen /\ MlOpen' /\ mlReg => mlStale' \cap mlLock.on = {}]_mlVars
================================================================================
