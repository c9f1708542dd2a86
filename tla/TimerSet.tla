------------------------------- MODULE TimerSet -------------------------------
(***************************************************************************)
(* What the queue of timeouts promises its users, without the list: a set  *)
(* of pending timeouts, and walks over it.  A walk takes a snapshot of the *)
(* set, visits every member of the snapshot that is still pending exactly  *)
(* once, each either skipped (not due) or run, and runs one at a time.     *)
(* The order of the visits is left open.                                   *)
(***************************************************************************)
EXTENDS Naturals

CONSTANTS Timer, NULL, Delay

VARIABLES
    now,
    pending,    \* timeouts somebody waits for
    due,        \* when each becomes due
    repeat,     \* whether it stays pending after it ran
    walking,    \* a walk is going on
    visit,      \* members of the snapshot still to be visited
    running,    \* the timeout whose routine is running, or NULL
    t           \* the time the walk goes by

absVars == <<now, pending, due, repeat, walking, visit, running, t>>

Init ==
    /\ now = 0 /\ t = 0
    /\ pending = {} /\ visit = {} /\ running = NULL /\ walking = FALSE
    /\ due = [x \in Timer |-> 0]
    /\ repeat = [x \in Timer |-> FALSE]

Begin ==
    /\ ~walking
    /\ walking' = TRUE /\ t' = now /\ visit' = pending
    /\ UNCHANGED <<now, pending, due, repeat, running>>

Skip(x) ==
    /\ walking /\ running = NULL /\ x \in visit
    /\ t < due[x]
    /\ visit' = visit \ {x}
    /\ UNCHANGED <<now, pending, due, repeat, walking, running, t>>

Run(x) ==
    /\ walking /\ running = NULL /\ x \in visit
    /\ due[x] <= t
    /\ running' = x
    /\ visit' = visit \ {x}
    /\ UNCHANGED <<now, pending, due, repeat, walking, t>>

Done ==
    /\ running # NULL
    /\ running' = NULL
    /\ pending' = IF repeat[running] THEN pending ELSE pending \ {running}
    /\ UNCHANGED <<now, due, repeat, walking, visit, t>>

End ==
    /\ walking /\ running = NULL /\ visit = {}
    /\ walking' = FALSE
    /\ UNCHANGED <<now, pending, due, repeat, visit, running, t>>

\* Callers act between walks and from the routine that is running.
CallerActs == ~walking \/ running # NULL

Schedule(x) ==
    /\ CallerActs
    /\ x \notin pending
    /\ pending' = pending \cup {x}
    /\ \E delay \in Delay : due' = [due EXCEPT ![x] = now + delay]
    /\ \E rep \in BOOLEAN : repeat' = [repeat EXCEPT ![x] = rep]
    /\ UNCHANGED <<now, walking, visit, running, t>>

Cancel(x) ==
    /\ CallerActs
    /\ x \in pending \ {running}
    /\ pending' = pending \ {x}
    /\ visit' = visit \ {x}
    /\ UNCHANGED <<now, due, repeat, walking, running, t>>

Tick == now' = now + 1 /\ UNCHANGED <<pending, due, repeat, walking, visit, running, t>>

Next ==
    \/ Begin \/ Done \/ End \/ Tick
    \/ \E x \in Timer : Skip(x) \/ Run(x) \/ Schedule(x) \/ Cancel(x)

Spec == Init /\ [][Next]_absVars
===============================================================================
