---------------------------- MODULE TimeoutsProofs ----------------------------
(***************************************************************************)
(* Proofs about Timeouts, for any set of addresses and delays: the list    *)
(* stays well formed under every interleaving of the walk with the         *)
(* routines it calls, and it implements the abstract queue TimerSet.       *)
(***************************************************************************)
EXTENDS Timeouts, TLAPS

\* Where the cursor is: nowhere between walks, on the running record during
\* a call; and the records the cursor has not reached yet have not run.
CursorInv ==
    /\ pc = "idle" => to = NULL
    /\ pc = "call" => to # NULL /\ to \in fired
    /\ passStamp <= stamp
    /\ pc = "call" => \A x \in live : born[x] < born[to] => x \notin fired

\* The inductive invariant.
IInv ==
    /\ TypeOK /\ ListWellFormed /\ CursorInv
    /\ NoNewTimerChecked /\ DueTimersRun /\ RunsOncePerPass

LEMMA InitIInv == Init => IInv
  BY NullIsNoTimer DEF Init, IInv, TypeOK, ListWellFormed, CursorInv,
     NoNewTimerChecked, DueTimersRun, RunsOncePerPass

\* Unlinking any live record keeps the list well formed, and changes neither
\* the order nor the payload of the others.
LEMMA UnlinkOK ==
  ASSUME TypeOK, ListWellFormed, NEW x \in live, Unlink(x)
  PROVE  /\ ListWellFormed'
         /\ timeouts' \in (live \ {x}) \cup {NULL}
         /\ next' \in [Timer -> Timer \cup {NULL}]
         /\ prev' \in [Timer -> Timer \cup {NULL}]
         /\ live' = live \ {x}
         /\ UNCHANGED <<due, repeat, stamp, born>>
<1> USE NullIsNoTimer
<1>1. live' = live \ {x} /\ UNCHANGED <<due, repeat, stamp, born>>
  BY DEF Unlink
<1>2. /\ next' \in [Timer -> Timer \cup {NULL}]
      /\ prev' \in [Timer -> Timer \cup {NULL}]
  BY DEF TypeOK, Unlink, ListWellFormed
<1>3. /\ \A y \in live' : born'[y] \in 1..stamp'
      /\ \A y, z \in live' : born'[y] = born'[z] => y = z
  BY <1>1 DEF ListWellFormed
<1>4. timeouts' \in live' \cup {NULL}
  BY <1>1 DEF TypeOK, Unlink, ListWellFormed
<1>5. /\ timeouts' = NULL <=> live' = {}
      /\ timeouts' # NULL => \A y \in live' : born'[y] <= born'[timeouts']
  <2>1. CASE prev[x] # NULL
    BY <2>1, <1>1 DEF TypeOK, Unlink, ListWellFormed
  <2>2. CASE prev[x] = NULL
    <3>1. \A y \in live' : next[x] # NULL /\ born[y] <= born[next[x]]
      BY <2>2, <1>1 DEF TypeOK, ListWellFormed
    <3> QED
      BY <3>1, <2>2, <1>1 DEF TypeOK, Unlink, ListWellFormed
  <2> QED BY <2>1, <2>2
<1>6. ASSUME NEW y \in live', next'[y] # NULL
      PROVE  next'[y] \in live' /\ born[next'[y]] < born[y]
  BY <1>1, <1>6 DEF TypeOK, Unlink, ListWellFormed
<1>7. ASSUME NEW y \in live', prev'[y] # NULL
      PROVE  prev'[y] \in live' /\ born[y] < born[prev'[y]]
  BY <1>1, <1>7 DEF TypeOK, Unlink, ListWellFormed
<1>8. ASSUME NEW y \in live', NEW z \in live', born[z] < born[y]
      PROVE  next'[y] # NULL /\ born[z] <= born[next'[y]]
  BY <1>1, <1>8 DEF TypeOK, Unlink, ListWellFormed
<1>9. ASSUME NEW y \in live', NEW z \in live', born[z] > born[y]
      PROVE  prev'[y] # NULL /\ born[prev'[y]] <= born[z]
  <2>1. y \in live /\ z \in live /\ y # x /\ z # x
    BY <1>1
  <2>2. prev[y] # NULL /\ prev[y] \in live /\ born[prev[y]] <= born[z]
    BY <2>1, <1>9 DEF ListWellFormed
  <2>3. CASE next[x] = y
    <3>1. prev'[y] = prev[x]
      BY <2>1, <2>3 DEF Unlink, TypeOK
    <3>2. born[x] \in Nat /\ born[y] \in Nat /\ born[z] \in Nat
      BY <2>1 DEF TypeOK
    <3>3. born[y] < born[x] /\ born[z] # born[x]
      BY <2>1, <2>3 DEF ListWellFormed
    <3>4. ~(born[z] < born[x])
      BY <2>1, <2>3, <3>2, <1>9 DEF ListWellFormed
    <3>5. born[z] > born[x]
      BY <3>2, <3>3, <3>4
    <3> QED BY <3>1, <3>5, <2>1 DEF ListWellFormed
  <2>4. CASE next[x] # y
    <3>1. prev'[y] = prev[y]
      BY <2>1, <2>4 DEF Unlink, TypeOK
    <3> QED BY <3>1, <2>2
  <2> QED BY <2>3, <2>4
<1> QED
  BY <1>1, <1>2, <1>3, <1>4, <1>5, <1>6, <1>7, <1>8, <1>9 DEF ListWellFormed

LEMMA NextIInv == IInv /\ [Next]_vars => IInv'
<1> SUFFICES ASSUME IInv, [Next]_vars PROVE IInv'
  OBVIOUS
<1> USE NullIsNoTimer, DelaysAreNat, BoundsAreNat
<1>t. TypeOK /\ ListWellFormed
  BY DEF IInv
<1>1. CASE StartPass
  BY <1>1 DEF IInv, TypeOK, ListWellFormed, CursorInv, NoNewTimerChecked,
     DueTimersRun, RunsOncePerPass, StartPass, list
<1>2. CASE SkipNotDue
  BY <1>2 DEF IInv, TypeOK, ListWellFormed, CursorInv, NoNewTimerChecked,
     DueTimersRun, RunsOncePerPass, SkipNotDue, list
<1>3. CASE CallCode
  BY <1>3 DEF IInv, TypeOK, ListWellFormed, CursorInv, NoNewTimerChecked,
     DueTimersRun, RunsOncePerPass, CallCode, list
<1>p. ASSUME to # NULL, NEW x \in live,
             next[to] # NULL => born[x] > born[next[to]]
      PROVE  x = to \/ born[x] > born[to]
  <2>1. to \in live
    BY <1>p DEF IInv, TypeOK
  <2>2. born[x] \in Nat /\ born[to] \in Nat /\ (next[to] # NULL => born[next[to]] \in Nat)
    BY <2>1 DEF IInv, TypeOK
  <2>3. ~(born[x] < born[to])
    BY <2>1, <2>2, <1>p DEF IInv, ListWellFormed
  <2>4. born[x] = born[to] => x = to
    BY <2>1 DEF IInv, ListWellFormed
  <2> QED BY <2>2, <2>3, <2>4
<1>4. CASE KeepRepeating
  <2>1. to # NULL /\ to \in live
    BY <1>4 DEF KeepRepeating, IInv, TypeOK, CursorInv
  <2>2. TypeOK' /\ ListWellFormed' /\ CursorInv'
    BY <1>4, <2>1 DEF KeepRepeating, list, IInv, TypeOK, ListWellFormed, CursorInv
  <2>3. NoNewTimerChecked' /\ RunsOncePerPass'
    BY <1>4, <2>1 DEF KeepRepeating, list, IInv, TypeOK, ListWellFormed, CursorInv,
       NoNewTimerChecked, RunsOncePerPass
  <2>4. DueTimersRun'
    BY <1>4, <2>1, <1>p DEF KeepRepeating, list, IInv, CursorInv, DueTimersRun
  <2> QED BY <2>2, <2>3, <2>4 DEF IInv
<1>5. CASE FreeFired
  <2>1. to \in live /\ Unlink(to)
    BY <1>5 DEF FreeFired, IInv, TypeOK, CursorInv
  <2>2. /\ ListWellFormed'
        /\ timeouts' \in (live \ {to}) \cup {NULL}
        /\ next' \in [Timer -> Timer \cup {NULL}]
        /\ prev' \in [Timer -> Timer \cup {NULL}]
        /\ live' = live \ {to}
        /\ UNCHANGED <<due, repeat, stamp, born>>
    BY <2>1, <1>t, UnlinkOK
  <2>3. TypeOK'
    BY <1>5, <2>1, <2>2 DEF FreeFired, IInv, TypeOK, ListWellFormed
  <2>4. CursorInv' /\ RunsOncePerPass'
    BY <1>5, <2>1, <2>2 DEF FreeFired, IInv, TypeOK, ListWellFormed,
       CursorInv, RunsOncePerPass
  <2>5. NoNewTimerChecked'
    BY <1>5, <2>1, <2>2 DEF FreeFired, IInv, TypeOK, ListWellFormed,
       NoNewTimerChecked
  <2>6. DueTimersRun'
    BY <1>5, <2>1, <2>2, <1>p DEF FreeFired, IInv, CursorInv, DueTimersRun
  <2> QED BY <2>2, <2>3, <2>4, <2>5, <2>6 DEF IInv
<1>6. CASE EndPass
  BY <1>6 DEF IInv, TypeOK, ListWellFormed, CursorInv, NoNewTimerChecked,
     DueTimersRun, RunsOncePerPass, EndPass, list
<1>7. ASSUME NEW x \in Timer, NEW delay \in Delay, NEW rep \in BOOLEAN,
             AddTimeout(x, delay, rep)
      PROVE  IInv'
  <2>1. TypeOK'
    BY <1>7 DEF AddTimeout, walk, IInv, TypeOK
  <2>2. ListWellFormed'
    BY <1>7 DEF AddTimeout, IInv, TypeOK, ListWellFormed
  <2>3. CursorInv' /\ RunsOncePerPass'
    BY <1>7 DEF AddTimeout, walk, IInv, TypeOK, ListWellFormed, CursorInv,
       NoNewTimerChecked, RunsOncePerPass
  <2>4. NoNewTimerChecked' /\ DueTimersRun'
    BY <1>7 DEF AddTimeout, walk, IInv, TypeOK, ListWellFormed, CursorInv,
       NoNewTimerChecked, DueTimersRun
  <2> QED BY <2>1, <2>2, <2>3, <2>4 DEF IInv
<1>8. ASSUME NEW x \in Timer, DelTimeout(x)
      PROVE  IInv'
  <2>1. x \in live /\ Unlink(x)
    BY <1>8 DEF DelTimeout
  <2>2. /\ ListWellFormed'
        /\ timeouts' \in (live \ {x}) \cup {NULL}
        /\ next' \in [Timer -> Timer \cup {NULL}]
        /\ prev' \in [Timer -> Timer \cup {NULL}]
        /\ live' = live \ {x}
        /\ UNCHANGED <<due, repeat, stamp, born>>
    BY <2>1, <1>t, UnlinkOK
  <2>3. TypeOK'
    BY <1>8, <2>2 DEF DelTimeout, IInv, TypeOK, CursorInv
  <2>4. CursorInv' /\ RunsOncePerPass' /\ NoNewTimerChecked' /\ DueTimersRun'
    BY <1>8, <2>2 DEF DelTimeout, IInv, TypeOK, CursorInv, RunsOncePerPass,
       NoNewTimerChecked, DueTimersRun
  <2> QED BY <2>2, <2>3, <2>4 DEF IInv
<1>9. CASE Tick
  BY <1>9 DEF IInv, TypeOK, ListWellFormed, CursorInv, NoNewTimerChecked,
     DueTimersRun, RunsOncePerPass, Tick, list, walk
<1>10. CASE UNCHANGED vars
  BY <1>10 DEF IInv, TypeOK, ListWellFormed, CursorInv, NoNewTimerChecked,
     DueTimersRun, RunsOncePerPass, vars
<1> QED
  BY <1>1, <1>2, <1>3, <1>4, <1>5, <1>6, <1>7, <1>8, <1>9, <1>10
  DEF Next, Pass, Add, Del

LEMMA Invariance == Spec => []IInv
  BY InitIInv, NextIInv, PTL DEF Spec

\* Type correctness of the queue.
THEOREM TypeCorrect == Spec => []TypeOK
  BY Invariance, PTL DEF IInv

\* The list of timeout.c is a well-formed doubly linked list in the order of
\* the add_timeout calls, in every reachable state.
THEOREM ListIsWellFormed == Spec => []ListWellFormed
  BY Invariance, PTL DEF IInv

\* Whatever the routines do, the record check_timeouts is at is allocated,
\* was in the list before the walk started, and is due when it is called.
THEOREM AddedTimersWait == Spec => []NoNewTimerChecked
  BY Invariance, PTL DEF IInv

\* A walk leaves no due record behind and runs none twice.
THEOREM WalkIsComplete == Spec => [](DueTimersRun /\ RunsOncePerPass)
  BY Invariance, PTL DEF IInv
-----------------------------------------------------------------------------
(* The list implements the abstract queue.                                 *)

LEMMA RefineInit == Init => Abs!Init
  BY DEF Init, Abs!Init, ToVisit

\* The records behind one are those from its successor on.
LEMMA Behind ==
  ASSUME TypeOK, ListWellFormed, NEW y \in live
  PROVE  \A x \in live :
            born[x] < born[y] <=> (next[y] # NULL /\ born[x] <= born[next[y]])
<1> SUFFICES ASSUME NEW x \in live
             PROVE  born[x] < born[y] <=> (next[y] # NULL /\ born[x] <= born[next[y]])
  OBVIOUS
<1>1. born[x] \in Nat /\ born[y] \in Nat
  BY DEF TypeOK
<1>2. born[x] < born[y] => next[y] # NULL /\ born[x] <= born[next[y]]
  BY DEF ListWellFormed
<1>3. next[y] # NULL => born[next[y]] \in Nat /\ born[next[y]] < born[y]
  BY DEF ListWellFormed, TypeOK
<1> QED BY <1>1, <1>2, <1>3

\* No other record was added together with y.
LEMMA NotOther ==
  ASSUME TypeOK, ListWellFormed, NEW y \in live
  PROVE  \A x \in live : (born[x] <= born[y] /\ x # y) <=> born[x] < born[y]
<1> SUFFICES ASSUME NEW x \in live
             PROVE  (born[x] <= born[y] /\ x # y) <=> born[x] < born[y]
  OBVIOUS
<1>1. born[x] \in Nat /\ born[y] \in Nat
  BY DEF TypeOK
<1>2. born[x] = born[y] => x = y
  BY DEF ListWellFormed
<1> QED BY <1>1, <1>2

LEMMA RefineNext == IInv /\ IInv' /\ [Next]_vars => [Abs!Next]_(Abs!absVars)
<1> SUFFICES ASSUME IInv, IInv', [Next]_vars
             PROVE  Abs!Next \/ UNCHANGED Abs!absVars
  OBVIOUS
<1> USE NullIsNoTimer, DelaysAreNat, BoundsAreNat
<1>1. CASE StartPass
  <2>1. ToVisit' = live
    BY <1>1 DEF StartPass, list, ToVisit, IInv, ListWellFormed
  <2> QED BY <1>1, <2>1 DEF StartPass, list, Abs!Begin, Abs!Next
<1>2. CASE SkipNotDue
  <2>1. to \in live /\ to \in Timer
    BY <1>2 DEF SkipNotDue, IInv, TypeOK
  <2>2. ToVisit = {x \in live : born[x] <= born[to]}
    BY <1>2 DEF SkipNotDue, ToVisit
  <2>3. ToVisit' = ToVisit \ {to}
    <3>1. live' = live /\ born' = born /\ to' = next[to] /\ pc' = "scan"
      BY <1>2 DEF SkipNotDue, list
    <3>2. ToVisit' = {x \in live : next[to] # NULL /\ born[x] <= born[next[to]]}
      BY <3>1 DEF ToVisit
    <3>3. \A x \in live : (born[x] <= born[to] /\ x # to)
                            <=> (next[to] # NULL /\ born[x] <= born[next[to]])
      BY <2>1, Behind, NotOther DEF IInv
    <3> QED BY <2>2, <3>2, <3>3
  <2>4. to \in ToVisit
    BY <2>1, <2>2 DEF IInv, TypeOK
  <2>5. Abs!Skip(to)
    BY <1>2, <2>3, <2>4 DEF SkipNotDue, list, Abs!Skip
  <2> QED BY <2>1, <2>5 DEF Abs!Next
<1>3. CASE CallCode
  <2>1. to \in live /\ to \in Timer
    BY <1>3 DEF CallCode, IInv, TypeOK
  <2>2. ToVisit = {x \in live : born[x] <= born[to]}
    BY <1>3 DEF CallCode, ToVisit
  <2>3. ToVisit' = ToVisit \ {to}
    <3>1. live' = live /\ born' = born /\ to' = to /\ pc' = "call"
      BY <1>3 DEF CallCode, list
    <3>2. ToVisit' = {x \in live : born[x] < born[to]}
      BY <3>1 DEF ToVisit
    <3> QED BY <2>1, <2>2, <3>2, NotOther DEF IInv
  <2>4. to \in ToVisit
    BY <2>1, <2>2 DEF IInv, TypeOK
  <2>5. Abs!Run(to)
    BY <1>3, <2>3, <2>4 DEF CallCode, list, Abs!Run
  <2> QED BY <2>1, <2>5 DEF Abs!Next
<1>4. CASE KeepRepeating
  <2>1. to \in live /\ to # NULL
    BY <1>4 DEF KeepRepeating, IInv, TypeOK, CursorInv
  <2>2. ToVisit' = ToVisit
    <3>1. live' = live /\ born' = born /\ to' = next[to] /\ pc' = "scan" /\ pc = "call"
      BY <1>4 DEF KeepRepeating, list
    <3>2. ToVisit' = {x \in live : next[to] # NULL /\ born[x] <= born[next[to]]}
      BY <3>1 DEF ToVisit
    <3>3. ToVisit = {x \in live : born[x] < born[to]}
      BY <3>1 DEF ToVisit
    <3> QED BY <2>1, <3>2, <3>3, Behind DEF IInv
  <2> QED BY <1>4, <2>1, <2>2 DEF KeepRepeating, list, Abs!Done, Abs!Next
<1>5. CASE FreeFired
  <2>1. to \in live /\ to # NULL
    BY <1>5 DEF FreeFired, IInv, TypeOK, CursorInv
  <2>2. ToVisit' = ToVisit
    <3>1. live' = live \ {to} /\ born' = born /\ to' = next[to] /\ pc' = "scan"
          /\ pc = "call"
      BY <1>5 DEF FreeFired, Unlink
    <3>2. ToVisit' = {x \in live \ {to} : next[to] # NULL /\ born[x] <= born[next[to]]}
      BY <3>1 DEF ToVisit
    <3>3. ToVisit = {x \in live : born[x] < born[to]}
      BY <3>1 DEF ToVisit
    <3>4. \A x \in live : born[x] < born[to] => x # to
      BY DEF IInv, TypeOK
    <3> QED BY <2>1, <3>2, <3>3, <3>4, Behind DEF IInv
  <2> QED BY <1>5, <2>1, <2>2 DEF FreeFired, Unlink, Abs!Done, Abs!Next
<1>6. CASE EndPass
  <2>1. ToVisit' = {} /\ ToVisit = {}
    BY <1>6 DEF EndPass, ToVisit
  <2> QED BY <1>6, <2>1 DEF EndPass, list, Abs!End, Abs!Next
<1>7. ASSUME NEW x \in Timer, NEW delay \in Delay, NEW rep \in BOOLEAN,
             AddTimeout(x, delay, rep)
      PROVE  Abs!Next
  <2>1. ToVisit' = ToVisit
    BY <1>7 DEF AddTimeout, walk, ToVisit, IInv, TypeOK, CursorInv
  <2>2. Abs!Schedule(x)
    BY <1>7, <2>1 DEF AddTimeout, walk, Abs!Schedule, Abs!CallerActs, IInv, CursorInv
  <2> QED BY <2>2 DEF Abs!Next
<1>8. ASSUME NEW x \in Timer, DelTimeout(x)
      PROVE  Abs!Next
  <2>1. ToVisit' = ToVisit \ {x}
    BY <1>8 DEF DelTimeout, Unlink, ToVisit, IInv, TypeOK, CursorInv
  <2>2. Abs!Cancel(x)
    BY <1>8, <2>1 DEF DelTimeout, Unlink, Abs!Cancel, Abs!CallerActs, IInv, CursorInv
  <2> QED BY <2>2 DEF Abs!Next
<1>9. CASE Tick
  <2>1. ToVisit' = ToVisit
    BY <1>9 DEF Tick, list, walk, ToVisit
  <2> QED BY <1>9, <2>1 DEF Tick, list, walk, Abs!Tick, Abs!Next
<1>10. CASE UNCHANGED vars
  <2>1. ToVisit' = ToVisit
    BY <1>10 DEF vars, ToVisit
  <2> QED BY <1>10, <2>1 DEF vars, Abs!absVars
<1> QED
  BY <1>1, <1>2, <1>3, <1>4, <1>5, <1>6, <1>7, <1>8, <1>9, <1>10
  DEF Next, Pass, Add, Del

\* timeout.c implements the abstract queue: every behaviour of the linked
\* list, seen through the set of its records, is one of TimerSet.
THEOREM ImplementsTimerSet == Spec => AbsSpec
<1>1. Init => Abs!Init
  BY RefineInit
<1>2. IInv /\ IInv' /\ [Next]_vars => [Abs!Next]_(Abs!absVars)
  BY RefineNext
<1> QED
  BY <1>1, <1>2, Invariance, PTL DEF Spec, AbsSpec, Abs!Spec
===============================================================================
