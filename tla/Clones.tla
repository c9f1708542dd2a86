--------------------------------- MODULE Clones ---------------------------------
(***************************************************************************)
(* Clone detection (check_clones() of src/operserv.c): the last users who  *)
(* connected and the last hosts that were warned of, each in a table of a  *)
(* fixed size whose oldest element gives way.                              *)
(***************************************************************************)
EXTENDS Integers, Sequences, FiniteSets

CONSTANTS
    ClHost,             \* hosts
    ClSize,             \* CLONE_DETECT_SIZE: 16
    CloneMinUsers, CloneMaxDelay, CloneWarningDelay,
    ClKill,             \* KillClones
    ClMaxTime           \* bound: the clock

ASSUME ClNumbers ==
    /\ {ClSize, CloneMinUsers} \subseteq Nat \ {0}
    /\ {CloneMaxDelay, CloneWarningDelay, ClMaxTime} \subseteq Nat

VARIABLES
    clList,             \* clonelist: host and time, the last one is the newest
    clWarnings,         \* warnings
    clNow,              \* time()
    clUp                \* Services run

clVars == <<clList, clWarnings, clNow, clUp>>
ClEntry == [host : ClHost, time : 0 .. ClMaxTime]

ClonesTypeOK ==
    /\ \A s \in {clList, clWarnings} : s \in Seq(ClEntry) /\ Len(s) <= ClSize
    /\ clNow \in 0 .. ClMaxTime /\ clUp \in BOOLEAN

ClonesInit == clList = << >> /\ clWarnings = << >> /\ clNow = 0 /\ clUp = TRUE

\* The memmove() and the new last element.
Pushed(s, e) == Append(IF Len(s) < ClSize THEN s ELSE Tail(s), e)

\* The loop: back from the newest, until a user is too far from the last one of
\* the same host.
CloneCount(s) ==
    LET host == s[Len(s)].host
        f[i \in 0 .. Len(s)] ==     \* users and the time of the oldest, from i on
            IF i = 0 THEN [count |-> 1, time |-> s[Len(s)].time, done |-> FALSE]
            ELSE LET was == f[i - 1]
                     k == Len(s) - i
                 IN  IF was.done \/ k < 1 THEN was
                     ELSE IF s[k].time < was.time - CloneMaxDelay
                          THEN [was EXCEPT !.done = TRUE]
                          ELSE IF s[k].host = host
                               THEN [was EXCEPT !.count = @ + 1, !.time = s[k].time,
                                                !.done = was.count + 1 >= CloneMinUsers]
                               ELSE was
    IN f[Len(s)].count

\* Is there no warning of the host that is young enough: the newest counts.
ToWarn(host) ==
    LET of == {i \in DOMAIN clWarnings : clWarnings[i].host = host} IN
    of # {} => \A i \in of : (\A j \in of : j <= i) =>
        clWarnings[i].time < clNow - CloneWarningDelay

\* check_clones(), for a user who connects.  With KillClones his record is
\* freed, and do_nick(), which goes on with it, may fail.
CheckClones(host) ==
    LET list == Pushed(clList, [host |-> host, time |-> clNow])
        warn == CloneCount(list) >= CloneMinUsers /\ ToWarn(host)
    IN
    /\ clUp
    /\ clList' = list
    /\ clWarnings' = IF warn THEN Pushed(clWarnings, [host |-> host, time |-> clNow]) ELSE clWarnings
    /\ clUp' \in (IF warn /\ ClKill THEN BOOLEAN ELSE {TRUE})
    /\ UNCHANGED clNow

ClTick == clNow < ClMaxTime /\ clNow' = clNow + 1 /\ UNCHANGED <<clList, clWarnings, clUp>>

ClonesNext == ClTick \/ \E host \in ClHost : CheckClones(host)

ClonesSpec == ClonesInit /\ [][ClonesNext]_clVars
-----------------------------------------------------------------------------
(* Safety.                                                                 *)

\* Users of one host who came one after the other, each at most CloneMaxDelay
\* after the one before: a burst that ends with the newest user.
Burst(s) == \E S \in SUBSET DOMAIN s :
    /\ Cardinality(S) = CloneMinUsers /\ Len(s) \in S
    /\ \A i \in S : s[i].host = s[Len(s)].host
    /\ \A i \in S \ {Len(s)} : \E j \in S : j > i /\ s[j].time <= s[i].time + CloneMaxDelay

\* Every burst that the table remembers has been warned of, when its last user
\* came or at most CloneWarningDelay before.
BurstsReported ==
    clList # << >> /\ Burst(clList) =>
        \E i \in DOMAIN clWarnings :
            /\ clWarnings[i].host = clList[Len(clList)].host
            /\ clWarnings[i].time >= clList[Len(clList)].time - CloneWarningDelay
=================================================================================
