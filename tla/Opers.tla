---------------------------------- MODULE Opers ----------------------------------
(***************************************************************************)
(* Users as the network sees them (src/users.c, src/actions.c): their      *)
(* modes, the counts STATS shows, superadmins, and wrong passwords.  The   *)
(* build is that of sysconf.h, for Bahamut.                                *)
(***************************************************************************)
EXTENDS Integers, Sequences, FiniteSets, SequencesExt, Folds

CONSTANTS
    OpNick,         \* nicks
    OpIdentified,   \* those whose users have identified
    OpModes,        \* the mode strings: sequences of characters
    SuperAdmin,     \* services.conf allows superadmins
    BadPassLimit, BadPassTimeout,
    OpMaxCount      \* bound of opcnt

ASSUME OpersConstants ==
    /\ OpIdentified \subseteq OpNick /\ SuperAdmin \in BOOLEAN
    /\ {BadPassLimit, BadPassTimeout, OpMaxCount} \subseteq Nat
    /\ OpModes \subseteq Seq({"+", "-", "o", "r"})

VARIABLES
    opUsers,        \* userlist
    opUsercnt, opOpcnt, opMaxusercnt,
    opIsOper,       \* the users who are opers for their servers
    opDrift         \* services have been told an oper is one, or a user is none

opVars == <<opUsers, opUsercnt, opOpcnt, opMaxusercnt, opIsOper, opDrift>>

OpUser == [mode : SUBSET {"o", "r"}, super : BOOLEAN, count : Nat]
OpOnline == DOMAIN opUsers
IsOper(n) == "o" \in opUsers[n].mode

OpersTypeOK ==
    /\ OpOnline \subseteq OpNick /\ \A n \in OpOnline : opUsers[n] \in OpUser
    /\ {opUsercnt, opMaxusercnt} \subseteq Nat /\ opOpcnt \in Int
    /\ opIsOper \subseteq OpOnline /\ opDrift \in BOOLEAN

OpersInit ==
    /\ opUsers = << >> /\ opUsercnt = 0 /\ opOpcnt = 0 /\ opMaxusercnt = 0
    /\ opIsOper = {} /\ opDrift = FALSE
-----------------------------------------------------------------------------
(* Coming and going.                                                       *)

\* new_user().
NewUser(n) ==
    /\ n \notin OpOnline
    /\ opUsers' = [x \in OpOnline \cup {n} |->
                     IF x = n THEN [mode |-> {}, super |-> FALSE, count |-> 0]
                     ELSE opUsers[x]]
    /\ opUsercnt' = opUsercnt + 1
    /\ opMaxusercnt' = IF opUsercnt' > opMaxusercnt THEN opUsercnt' ELSE opMaxusercnt
    /\ UNCHANGED <<opOpcnt, opIsOper, opDrift>>

\* delete_user(), for QUIT and KILL.
OpDeleteUser(n) ==
    /\ n \in OpOnline
    /\ opUsercnt' = opUsercnt - 1
    /\ opOpcnt' = IF IsOper(n) THEN opOpcnt - 1 ELSE opOpcnt
    /\ opUsers' = [x \in OpOnline \ {n} |-> opUsers[x]]
    /\ opIsOper' = opIsOper \ {n}
    /\ UNCHANGED <<opMaxusercnt, opDrift>>

\* change_user_nick() and do_nick(): a superadmin is one no more.  The server
\* takes mode r away and does not say so.
ChangeUserNick(n, m) ==
    /\ n \in OpOnline /\ m \notin OpOnline
    /\ LET Of(x) == IF x = m THEN n ELSE x
           rest == (OpOnline \ {n}) \cup {m}
       IN  /\ opUsers' = [x \in rest |-> IF x = m THEN [opUsers[n] EXCEPT !.super = FALSE]
                                         ELSE opUsers[x]]
           /\ opIsOper' = {x \in rest : Of(x) \in opIsOper}
    /\ UNCHANGED <<opUsercnt, opOpcnt, opMaxusercnt, opDrift>>
-----------------------------------------------------------------------------
(* Modes.                                                                  *)

\* set_umode(): the mode string from left to right.  +r is taken from a user
\* who has not identified, and opcnt follows every o.
SetUmode(n, modes) ==
    LET Step(S, ch) ==
            IF ch \in {"+", "-"} THEN [S EXCEPT !.add = (ch = "+")]
            ELSE [S EXCEPT
                    !.mode = IF S.add /\ (ch = "r" => n \in OpIdentified) THEN @ \cup {ch}
                             ELSE @ \ {ch},
                    !.opcnt = IF ch # "o" THEN @ ELSE IF S.add THEN @ + 1 ELSE @ - 1]
        done == FoldLeft(Step, [add |-> TRUE, mode |-> opUsers[n].mode, opcnt |-> opOpcnt], modes)
    IN  /\ opUsers' = [opUsers EXCEPT ![n].mode = done.mode]
        /\ opOpcnt' = done.opcnt

\* What the mode string leaves of the mode o, and whether it changes it once.
OperAfter(was, modes) ==
    LET signs(i) == {j \in 1..i : modes[j] \in {"+", "-"}}
        Sign(i) == IF signs(i) = {} THEN "+" ELSE modes[CHOOSE j \in signs(i) : \A k \in signs(i) : k <= j]
        os == {i \in DOMAIN modes : modes[i] = "o"}
    IN  IF os = {} THEN was ELSE Sign(CHOOSE i \in os : \A k \in os : k <= i) = "+"
Once(was, modes) ==
    LET os == {i \in DOMAIN modes : modes[i] = "o"}
    IN  os = {} \/ (Cardinality(os) = 1 /\ OperAfter(was, modes) # was)

\* do_umode(): a server says what has changed of a user, as it has it.
DoUmode(n, modes) ==
    /\ n \in OpOnline
    /\ Once(n \in opIsOper, modes)
    /\ SetUmode(n, modes)
    /\ opIsOper' = IF OperAfter(n \in opIsOper, modes) THEN opIsOper \cup {n} ELSE opIsOper \ {n}
    /\ opDrift' = (opDrift \/ ~Once(IsOper(n), modes))
    /\ opOpcnt' <= OpMaxCount
    /\ UNCHANGED <<opUsercnt, opMaxusercnt>>

\* UMODE of OperServ: services take it as done; the server may not obey.
DoOperumodes(by, n, modes, obeyed) ==
    /\ {by, n} \subseteq OpOnline /\ opUsers[by].super
    /\ SetUmode(n, modes)
    /\ opIsOper' = IF ~obeyed THEN opIsOper
                   ELSE IF OperAfter(n \in opIsOper, modes) THEN opIsOper \cup {n}
                   ELSE opIsOper \ {n}
    /\ opDrift' = (opDrift \/ ~Once(IsOper(n), modes))
    /\ opOpcnt' \in (-OpMaxCount)..OpMaxCount
    /\ UNCHANGED <<opUsercnt, opMaxusercnt>>

\* SET SUPERADMIN of OperServ.
SetSuperadmin(n, on) ==
    /\ n \in OpOnline /\ SuperAdmin
    /\ opUsers' = [opUsers EXCEPT ![n].super = on]
    /\ UNCHANGED <<opUsercnt, opOpcnt, opMaxusercnt, opIsOper, opDrift>>

\* SVSNICK of OperServ: what it asks the server for.
DoSvsnick(by, n, m) == opUsers[by].super /\ n \in OpOnline /\ m \notin OpOnline
-----------------------------------------------------------------------------
(* Passwords, statistics.                                                  *)

\* bad_password(), perhaps long after the last one: the server is asked to
\* throw the user off, and a QUIT will say that it has.
BadPassword(n, late) ==
    /\ n \in OpOnline /\ BadPassLimit > 0
    /\ late => BadPassTimeout > 0 /\ opUsers[n].count > 0
    /\ opUsers[n].count <= BadPassLimit
    /\ opUsers' = [opUsers EXCEPT ![n].count = IF late THEN 1 ELSE @ + 1]
    /\ UNCHANGED <<opUsercnt, opOpcnt, opMaxusercnt, opIsOper, opDrift>>
ThrownOff(n) == opUsers[n].count >= BadPassLimit

\* STATS, and get_user_stats(); STATS RESET.
DoStats == [users |-> opUsercnt, opers |-> opOpcnt, most |-> opMaxusercnt]
GetUserStats == Cardinality(OpOnline)
StatsReset ==
    /\ opMaxusercnt' = opUsercnt
    /\ UNCHANGED <<opUsers, opUsercnt, opOpcnt, opIsOper, opDrift>>

OpersNext ==
    \/ \E n \in OpNick : NewUser(n) \/ OpDeleteUser(n)
    \/ \E n \in OpNick, late \in BOOLEAN : BadPassword(n, late)
    \/ \E n, m \in OpNick : ChangeUserNick(n, m)
    \/ \E n \in OpNick, modes \in OpModes : DoUmode(n, modes)
    \/ \E by, n \in OpNick, modes \in OpModes, obeyed \in BOOLEAN :
            DoOperumodes(by, n, modes, obeyed)
    \/ \E n \in OpNick, on \in BOOLEAN : SetSuperadmin(n, on)
    \/ StatsReset

OpersSpec == OpersInit /\ [][OpersNext]_opVars
-----------------------------------------------------------------------------
(* Safety.                                                                 *)

\* usercnt is what get_user_stats() counts.  opcnt is the number of opers
\* services know until services hear that an oper becomes one, or that a user
\* who is none ceases to be one, as UMODE lets a superadmin say.
OpersCounted ==
    /\ DoStats.users = GetUserStats /\ DoStats.most >= DoStats.users
    /\ ~opDrift => DoStats.opers = Cardinality({n \in OpOnline : IsOper(n)})
================================================================================
