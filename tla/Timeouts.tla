------------------------------- MODULE Timeouts -------------------------------
(***************************************************************************)
(* src/timeout.c: the queue of time-delayed actions.                       *)
(*                                                                         *)
(* The queue is a doubly linked list of Timeout records, newest first.     *)
(* check_timeouts() walks it with a cursor and calls the routine of every  *)
(* record that is due; the routine may itself add and delete records while *)
(* the cursor stays on the record that is running.  A freed record goes    *)
(* back to the allocator and its address may be handed out again, also in  *)
(* the middle of a walk.                                                   *)
(*                                                                         *)
(* The routines are the environment: between the call of a routine and its *)
(* return any sequence of add_timeout and del_timeout may happen, except   *)
(* that a routine does not delete the record it is running for (every      *)
(* caller unlinks its own bookkeeping of that record first, see            *)
(* nickserv.c rem_ns_timeout and module NickServ).                         *)
(***************************************************************************)
EXTENDS Naturals

CONSTANTS
    Timer,      \* addresses the allocator can hand out for a Timeout record
    NULL,       \* the null pointer
    Delay,      \* the delays callers pass to add_timeout
    MaxTime,    \* bound: time(NULL) stops here
    MaxStamp    \* bound: number of add_timeout calls

ASSUME NullIsNoTimer == NULL \notin Timer
ASSUME DelaysAreNat == Delay \subseteq Nat
ASSUME BoundsAreNat == MaxTime \in Nat /\ MaxStamp \in Nat

VARIABLES
    now,        \* time(NULL)
    timeouts,   \* head of the list
    live,       \* records that are allocated
    next, prev, \* links of the records
    due,        \* Timeout.timeout
    repeat,     \* Timeout.repeat
    pc,         \* "idle", "scan" (cursor moving) or "call" (in to->code)
    to,         \* the cursor of check_timeouts
    t,          \* the time check_timeouts read when it started
    stamp,      \* ghost: number of add_timeout calls so far
    born,       \* ghost: the stamp each record was added with
    passStamp,  \* ghost: stamp when the current walk started
    fired       \* ghost: live records whose routine ran in the last walk

vars == <<now, timeouts, live, next, prev, due, repeat, pc, to, t,
          stamp, born, passStamp, fired>>
list == <<timeouts, live, next, prev, due, repeat, stamp, born>>
walk == <<pc, to, t, passStamp, fired>>

TypeOK ==
    /\ now \in Nat /\ t \in Nat /\ stamp \in Nat /\ passStamp \in Nat
    /\ live \subseteq Timer
    /\ fired \subseteq live
    /\ timeouts \in live \cup {NULL}
    /\ to \in live \cup {NULL}
    /\ next \in [Timer -> Timer \cup {NULL}]
    /\ prev \in [Timer -> Timer \cup {NULL}]
    /\ due \in [Timer -> Nat]
    /\ repeat \in [Timer -> BOOLEAN]
    /\ born \in [Timer -> Nat]
    /\ pc \in {"idle", "scan", "call"}

Init ==
    /\ now = 0 /\ t = 0 /\ stamp = 0 /\ passStamp = 0
    /\ timeouts = NULL /\ to = NULL
    /\ live = {} /\ fired = {}
    /\ next = [x \in Timer |-> NULL]
    /\ prev = [x \in Timer |-> NULL]
    /\ due = [x \in Timer |-> 0]
    /\ repeat = [x \in Timer |-> FALSE]
    /\ born = [x \in Timer |-> 0]
    /\ pc = "idle"

-----------------------------------------------------------------------------
(* The walk of check_timeouts, a transition per case of its loop body.     *)

StartPass ==
    /\ pc = "idle"
    /\ pc' = "scan"
    /\ t' = now
    /\ to' = timeouts
    /\ passStamp' = stamp
    /\ fired' = {}
    /\ UNCHANGED <<now, list>>

\* Mutant of SkipNotDue: take the list for sorted and stop at a timeout that
\* is not due.
StopAtNotDue ==
    /\ pc = "scan" /\ to # NULL
    /\ t < due[to]
    /\ to' = NULL
    /\ UNCHANGED <<now, list, pc, t, passStamp, fired>>

SkipNotDue ==
    /\ pc = "scan" /\ to # NULL
    /\ t < due[to]
    /\ to' = next[to]
    /\ UNCHANGED <<now, list, pc, t, passStamp, fired>>

\* Mutant of CallCode: forget to compare the times.
CallCodeEarly ==
    /\ pc = "scan" /\ to # NULL
    /\ pc' = "call"
    /\ fired' = fired \cup {to}
    /\ UNCHANGED <<now, list, to, t, passStamp>>

CallCode ==
    /\ pc = "scan" /\ to # NULL
    /\ due[to] <= t
    /\ pc' = "call"
    /\ fired' = fired \cup {to}
    /\ UNCHANGED <<now, list, to, t, passStamp>>

\* Mutant of KeepRepeating: keep one-shot timeouts.
KeepAny ==
    /\ pc = "call"
    /\ pc' = "scan"
    /\ to' = next[to]
    /\ UNCHANGED <<now, list, t, passStamp, fired>>

KeepRepeating ==
    /\ pc = "call" /\ repeat[to]
    /\ pc' = "scan"
    /\ to' = next[to]
    /\ UNCHANGED <<now, list, t, passStamp, fired>>

\* Mutant of Unlink: the back link of the successor is left.
UnlinkKeepsPrev(x) ==
    /\ next' = IF prev[x] # NULL THEN [next EXCEPT ![prev[x]] = next[x]] ELSE next
    /\ timeouts' = IF prev[x] # NULL THEN timeouts ELSE next[x]
    /\ live' = live \ {x}
    /\ UNCHANGED <<prev, due, repeat, stamp, born>>

\* The pointer surgery shared by check_timeouts and del_timeout.
Unlink(x) ==
    /\ next' = IF prev[x] # NULL THEN [next EXCEPT ![prev[x]] = next[x]] ELSE next
    /\ prev' = IF next[x] # NULL THEN [prev EXCEPT ![next[x]] = prev[x]] ELSE prev
    /\ timeouts' = IF prev[x] # NULL THEN timeouts ELSE next[x]
    /\ live' = live \ {x}
    /\ UNCHANGED <<due, repeat, stamp, born>>

FreeFired ==
    /\ pc = "call" /\ ~repeat[to]
    /\ pc' = "scan"
    /\ to' = next[to]
    /\ Unlink(to)
    /\ fired' = fired \ {to}
    /\ UNCHANGED <<now, t, passStamp>>

EndPass ==
    /\ pc = "scan" /\ to = NULL
    /\ pc' = "idle"
    /\ UNCHANGED <<now, list, to, t, passStamp, fired>>

-----------------------------------------------------------------------------
(* Entry points, called by message handlers between two walks and by the   *)
(* routines of the timeouts during one.                                    *)

AddTimeout(x, delay, rep) ==
    /\ pc \in {"idle", "call"}
    /\ x \notin live
    /\ stamp < MaxStamp
    /\ stamp' = stamp + 1
    /\ born' = [born EXCEPT ![x] = stamp + 1]
    /\ due' = [due EXCEPT ![x] = now + delay]
    /\ repeat' = [repeat EXCEPT ![x] = rep]
    /\ next' = [next EXCEPT ![x] = timeouts]
    /\ prev' = IF timeouts # NULL
                 THEN [prev EXCEPT ![x] = NULL, ![timeouts] = x]
                 ELSE [prev EXCEPT ![x] = NULL]
    /\ timeouts' = x
    /\ live' = live \cup {x}
    /\ UNCHANGED <<now, walk>>

\* del_timeout looks the pointer up first: a pointer not in the list is
\* ignored, so only the calls that find it change anything.
DelTimeout(x) ==
    /\ pc \in {"idle", "call"}
    /\ x \in live
    /\ ~(pc = "call" /\ x = to)
    /\ Unlink(x)
    /\ fired' = fired \ {x}
    /\ UNCHANGED <<now, pc, to, t, passStamp>>

Tick ==
    /\ now < MaxTime
    /\ now' = now + 1
    /\ UNCHANGED <<list, walk>>

Add == \E x \in Timer, delay \in Delay, rep \in BOOLEAN : AddTimeout(x, delay, rep)
Del == \E x \in Timer : DelTimeout(x)

Pass == StartPass \/ SkipNotDue \/ CallCode \/ KeepRepeating \/ FreeFired \/ EndPass

Next == Pass \/ Add \/ Del \/ Tick

Spec == Init /\ [][Next]_vars

\* The main loop calls check_timeouts again and again (sgets2 returns after
\* its read timeout when the server is silent), and every routine returns.
FairSpec == Spec /\ WF_vars(Pass)

-----------------------------------------------------------------------------
(* Safety.                                                                 *)

\* The doubly linked list is well formed and ordered: both links of a live
\* record lead to its neighbours in the order of add_timeout calls, newest
\* first, and never to a freed record - whatever the routines add and delete
\* during the walk.  (timeout.c: the pointer updates of all three functions.)
ListWellFormed ==
    /\ \A x \in live : born[x] \in 1..stamp
    /\ \A x, y \in live : born[x] = born[y] => x = y
    /\ timeouts = NULL <=> live = {}
    /\ \A x \in live :
         /\ next[x] # NULL => next[x] \in live /\ born[next[x]] < born[x]
         /\ prev[x] # NULL => prev[x] \in live /\ born[x] < born[prev[x]]
         /\ \A y \in live :
              /\ born[y] < born[x] => next[x] # NULL /\ born[y] <= born[next[x]]
              /\ born[y] > born[x] => prev[x] # NULL /\ born[prev[x]] <= born[y]
    /\ timeouts # NULL => \A y \in live : born[y] <= born[timeouts]

\* A record whose routine is called is allocated, due, and was in the list
\* when the walk started: "timeouts added from within a timeout routine do
\* not get checked during that run" (timeout.c:88-92), even when the
\* allocator hands out an address freed earlier in the same walk.
NoNewTimerChecked ==
    to # NULL =>
        /\ to \in live
        /\ born[to] <= passStamp
        /\ pc = "call" => due[to] <= t

\* The walk skips nobody: every record older than the walk that the cursor
\* has passed was either not due or is a repeating one that has run.
DueTimersRun ==
    pc # "idle" =>
        \A x \in live :
            /\ born[x] <= passStamp
            /\ due[x] <= t
            /\ to # NULL => born[x] > born[to]
            => repeat[x] /\ x \in fired

\* No routine runs twice in a walk: the records ahead of the cursor have not
\* run yet.
RunsOncePerPass ==
    (pc = "scan" /\ to # NULL) =>
        \A x \in live : born[x] <= born[to] => x \notin fired

-----------------------------------------------------------------------------
(* Liveness: a one-shot timeout that is due does not stay in the list.     *)
DueIsServed ==
    \A x \in Timer :
        (x \in live /\ ~repeat[x] /\ due[x] <= now) ~> (x \notin live)

-----------------------------------------------------------------------------
(* The abstract queue this list implements: module TimerSet.               *)

ToVisit ==
    CASE pc = "idle" -> {}
      [] pc = "scan" -> IF to = NULL THEN {} ELSE {x \in live : born[x] <= born[to]}
      [] pc = "call" -> {x \in live : born[x] < born[to]}

Abs == INSTANCE TimerSet WITH
          pending <- live,
          visit   <- ToVisit,
          running <- IF pc = "call" THEN to ELSE NULL,
          walking <- pc # "idle"

AbsSpec == Abs!Spec
===============================================================================
