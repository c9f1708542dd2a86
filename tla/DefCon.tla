--------------------------------- MODULE DefCon ---------------------------------
(***************************************************************************)
(* The modes that a DEFCON level forces on every channel (src/operserv.c,  *)
(* do_mass_mode() of src/channels.c), and how they are lifted: by DEFCON,  *)
(* or by the timeout that the main loop looks at.                          *)
(*                                                                         *)
(* Channels are abstracted to the modes that matter and to the mode lock,  *)
(* which wins over a forced mode; whether check_modes() finds a channel    *)
(* bouncing is any outcome (module ModeLock has its counters).  A channel  *)
(* stays in the table, with its modes, once it was used.                   *)
(***************************************************************************)
EXTENDS Naturals, Sequences, FiniteSets, SequencesExt

CONSTANTS
    DcOrder,        \* the channels, in the order of the hash table
    DcMode,         \* channel modes
    DcForcing,      \* the levels that force modes (DefCon1 to DefCon4)
    DcConfs,        \* what DefConChanModes may be: sets of modes to be set
    DcLevels,       \* bound: the levels that DEFCON is given, of 1 to 5
    DcNormal        \* DefConLevel of the configuration

ASSUME DcForcingAssumption ==
    DcForcing \subseteq 1..4 /\ DcNormal \in 1..5 /\ DcLevels \subseteq 1..5
ASSUME DcOrderAssumption == DcOrder \in Seq(ToSet(DcOrder))
ASSUME DcConfsAssumption == DcConfs \subseteq SUBSET DcMode

VARIABLES
    dcLevel,        \* DefConLevel
    dcTimed,        \* DefContimer is set
    dcConf,         \* DefConChanModes
    dcModesSet,     \* DefConModesSet
    dcChan,         \* the channels: records
    dcForced        \* history: modes that channels have because of a DEFCON

dcVars == <<dcLevel, dcTimed, dcConf, dcModesSet, dcChan, dcForced>>

DcChannels == ToSet(DcOrder)

DefConTypeOK ==
    /\ dcLevel \in 1..5 /\ dcTimed \in BOOLEAN
    /\ dcConf \in DcConfs /\ dcModesSet \in BOOLEAN
    /\ dcChan \in [DcChannels -> [modes: SUBSET DcMode, on: SUBSET DcMode,
                                  off: SUBSET DcMode, bouncy: BOOLEAN]]
    /\ dcForced \in [DcChannels -> SUBSET DcMode]

DefConInit ==
    /\ dcLevel = DcNormal /\ dcTimed = FALSE
    /\ dcConf \in DcConfs /\ dcModesSet = FALSE
    /\ dcChan \in [DcChannels -> [modes: {{}}, on: {{}}, off: {{}} \cup {{m} : m \in DcMode},
                                  bouncy: {FALSE}]]
    /\ dcForced = [c \in DcChannels |-> {}]

CheckDefCon(level) == level \in DcForcing

-----------------------------------------------------------------------------
(* Mass modes.                                                             *)

\* chan_set_modes() with its check: the lock is put back, unless the channel
\* is found bouncing.
Forced(ch, add, modes, bounces) ==
    LET set == [ch EXCEPT !.modes = IF add THEN @ \cup modes ELSE @ \ modes]
    IN  IF bounces THEN [set EXCEPT !.bouncy = TRUE]
        ELSE [set EXCEPT !.modes = (@ \cup ch.on) \ ch.off]

\* do_mass_mode() ends at the first channel that is known to bounce.
Reached(chans) ==
    LET stops == {i \in DOMAIN DcOrder : chans[DcOrder[i]].bouncy}
    IN  {DcOrder[i] : i \in {i \in DOMAIN DcOrder : \A j \in stops : i < j}}

DoMassMode(chans, add, modes, bounces) ==
    [c \in DcChannels |-> IF c \in Reached(chans) THEN Forced(chans[c], add, modes, c \in bounces)
                          ELSE chans[c]]

\* defconReverseModes(), and the call of do_mass_mode() with its result.
DefconReverseModes(chans, modes, bounces) == DoMassMode(chans, FALSE, modes, bounces)

\* runDefCon().
RunDefCon(level, bounces) ==
    LET force == CheckDefCon(level) /\ ~dcModesSet
        lift == ~CheckDefCon(level) /\ dcModesSet
        chans == IF force THEN DoMassMode(dcChan, TRUE, dcConf, bounces)
                 ELSE IF lift THEN DefconReverseModes(dcChan, dcConf, bounces) ELSE dcChan
    IN  /\ dcModesSet' = (force \/ (dcModesSet /\ ~lift))
        /\ dcChan' = chans
        /\ dcForced' = [c \in DcChannels |->
               (dcForced[c] \cup (IF force THEN chans[c].modes \ dcChan[c].modes ELSE {}))
                   \cap chans[c].modes]

\* DEFCON with a level.
SetDefCon(level) ==
    /\ dcLevel' = level /\ dcTimed' = TRUE
    /\ \E bounces \in SUBSET DcChannels : RunDefCon(level, bounces)
    /\ UNCHANGED dcConf

\* resetDefCon(5) of the main loop, when DefConTimeOut is over.
ResetDefCon ==
    /\ dcLevel # 5 /\ dcTimed
    /\ dcLevel' = 5
    /\ \E bounces \in SUBSET DcChannels : RunDefCon(5, bounces)
    /\ UNCHANGED <<dcTimed, dcConf>>

\* RELOAD reads the directives again, DefConLevel among them, and does not
\* run what a change of the level would.
DcReload ==
    /\ dcLevel' = DcNormal
    /\ dcConf' \in DcConfs
    /\ UNCHANGED <<dcTimed, dcModesSet, dcChan, dcForced>>

\* Somebody on the channel changes a mode, and the lock is put back.
DcUserMode(c, add, m, bounces) ==
    /\ LET ch == dcChan[c]
           set == [ch EXCEPT !.modes = IF add THEN @ \cup {m} ELSE @ \ {m}]
       IN  dcChan' = [dcChan EXCEPT ![c] = IF ch.bouncy THEN set ELSE Forced(ch, add, {m}, bounces)]
    /\ dcForced' = [dcForced EXCEPT ![c] = @ \ {m}]
    /\ UNCHANGED <<dcLevel, dcTimed, dcConf, dcModesSet>>

\* GUARDM locks a mode on.
DcLock(c, m) ==
    /\ ~dcChan[c].bouncy
    /\ dcChan' = [dcChan EXCEPT ![c].on = {m}, ![c].off = {}, ![c].modes = @ \cup {m}]
    /\ dcForced' = [dcForced EXCEPT ![c] = @ \ {m}]
    /\ UNCHANGED <<dcLevel, dcTimed, dcConf, dcModesSet>>

DefConNext ==
    \/ \E level \in DcLevels : SetDefCon(level)
    \/ ResetDefCon \/ DcReload
    \/ \E c \in DcChannels, m \in DcMode :
          DcLock(c, m) \/ \E add, bounces \in BOOLEAN : DcUserMode(c, add, m, bounces)

DefConSpec == DefConInit /\ [][DefConNext]_dcVars
-----------------------------------------------------------------------------
(* Safety.                                                                 *)

\* "Services will set the reverse on all channel's" (data/example.conf:1253):
\* they do, unless a channel is bouncing, which ends the loop over the
\* channels, or RELOAD has brought other modes.
LiftReachesAll ==
    [][(dcModesSet /\ ~dcModesSet') =>
          \/ \A c \in DcChannels : dcForced'[c] = {}
          \/ \E c \in DcChannels : dcChan[c].bouncy
          \/ \E c \in DcChannels : ~(dcForced[c] \subseteq dcConf)]_dcVars
================================================================================
