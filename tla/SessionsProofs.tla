---------------------------- MODULE SessionsProofs ----------------------------
(***************************************************************************)
(* Proofs about Sessions for any users, hosts, masks and limits.  Counting *)
(* does not depend on what the exception list holds, so the invariant says *)
(* nothing of it.                                                          *)
(***************************************************************************)
EXTENDS Sessions, FiniteSetTheorems, SequenceTheorems, TLAPS

\* Users and sessions have their types, and each session counts its users.
IInv ==
    /\ host \in [User -> Host \cup {NULL}]
    /\ session \in [Host -> SessionRec \cup {NULL}]
    /\ SessionsCountUsers

-----------------------------------------------------------------------------
LEMMA UsersFinite ==
  ASSUME NEW h
  PROVE  IsFiniteSet(UsersOf(h)) /\ IsFiniteSet(UsersOf(h)')
<1>1. UsersOf(h) \subseteq User /\ UsersOf(h)' \subseteq User
  BY DEF UsersOf
<1> QED BY <1>1, UsersAreFinite, FS_Subset

\* A session that counts one more, or one less, is a session.
LEMMA CountUpType ==
  ASSUME NEW s \in SessionRec
  PROVE  /\ CountUp(s) \in SessionRec
         /\ CountUp(s).count = s.count + 1 /\ CountUp(s).hits = s.hits
  BY DEF SessionRec, CountUp

LEMMA CountDownType ==
  ASSUME NEW s \in SessionRec, s.count > 1
  PROVE  /\ CountDown(s) \in SessionRec
         /\ CountDown(s).count = s.count - 1 /\ CountDown(s).hits = s.hits
  BY DEF SessionRec, CountDown

LEMMA HitsUpType ==
  ASSUME NEW s \in SessionRec
  PROVE  HitsUp(s) \in SessionRec /\ HitsUp(s).count = s.count
  BY DEF SessionRec, HitsUp

\* A step that touches the user u, who comes from g or goes to g, leaves the
\* users of every other host alone.
LEMMA OtherHosts ==
  ASSUME NEW u \in User, NEW g, NEW v, NEW h,
         host \in [User -> Host \cup {NULL}],
         host' = [host EXCEPT ![u] = v],
         h # v, h # host[u]
  PROVE  UsersOf(h)' = UsersOf(h)
  BY DEF UsersOf

-----------------------------------------------------------------------------
LEMMA InitIInv == Init => IInv
<1> SUFFICES ASSUME Init PROVE IInv
  OBVIOUS
<1>1. \A h \in Host : session[h] = NULL /\ UsersOf(h) = {}
  BY NullIsNoHost DEF Init, UsersOf
<1> QED BY <1>1 DEF IInv, Init, SessionsCountUsers

LEMMA ConnectIInv ==
  ASSUME IInv, NEW u \in User, NEW g \in Host, Connect(u, g)
  PROVE  /\ IInv'
         /\ UsersOf(g)' = UsersOf(g) \cup {u}
         /\ Cardinality(UsersOf(g)') = Cardinality(UsersOf(g)) + 1
         /\ \A h \in Host \ {g} : UsersOf(h)' = UsersOf(h)
         /\ \A h \in Host : session[h] # NULL /\ session'[h] # NULL =>
               session'[h].hits = session[h].hits
<1> DEFINE new == IF session[g] = NULL THEN [count |-> 1, hits |-> 0]
                  ELSE CountUp(session[g])
<1>1. /\ host[u] = NULL
      /\ host' = [host EXCEPT ![u] = g]
      /\ session' = [session EXCEPT ![g] = new]
  BY DEF Connect, AddSession
<1>2. /\ new \in SessionRec
      /\ new.count = IF session[g] = NULL THEN 1 ELSE session[g].count + 1
      /\ session[g] # NULL => new.hits = session[g].hits
  <2>1. CASE session[g] = NULL
    BY <2>1 DEF SessionRec
  <2>2. CASE session[g] # NULL
    BY <2>2, CountUpType DEF IInv
  <2> QED BY <2>1, <2>2
<1>3. UsersOf(g)' = UsersOf(g) \cup {u} /\ u \notin UsersOf(g)
  BY <1>1, NullIsNoHost DEF UsersOf, IInv
<1>4. Cardinality(UsersOf(g)') = Cardinality(UsersOf(g)) + 1
  BY <1>3, UsersFinite, FS_AddElement
<1>5. \A h \in Host \ {g} : UsersOf(h)' = UsersOf(h)
  BY <1>1, NullIsNoHost, OtherHosts DEF IInv
<1> HIDE DEF new
<1>6. session'[g] = new /\ \A h \in Host \ {g} : session'[h] = session[h]
  BY <1>1 DEF IInv
<1>7. new # NULL
  BY <1>2, NullIsNoSession
<1>8. Cardinality(UsersOf(g)') = new.count
  <2>1. CASE session[g] = NULL
    <3>1. Cardinality(UsersOf(g)) = 0
      BY <2>1, FS_EmptySet DEF IInv, SessionsCountUsers
    <3> QED BY <3>1, <1>4, <1>2, <2>1
  <2>2. CASE session[g] # NULL
    BY <2>2, <1>2, <1>4 DEF IInv, SessionsCountUsers
  <2> QED BY <2>1, <2>2
<1>9. SessionsCountUsers'
  BY <1>5, <1>6, <1>7, <1>8 DEF IInv, SessionsCountUsers
<1>10. /\ host' \in [User -> Host \cup {NULL}]
       /\ session' \in [Host -> SessionRec \cup {NULL}]
  BY <1>1, <1>2 DEF IInv
<1> QED BY <1>2, <1>3, <1>4, <1>5, <1>6, <1>9, <1>10 DEF IInv

LEMMA LeaveIInv ==
  ASSUME IInv, NEW u \in User, Leave(u)
  PROVE  /\ IInv'
         /\ \A h \in Host : UsersOf(h)' \subseteq UsersOf(h)
         /\ \A h \in Host : session[h] # NULL /\ session'[h] # NULL =>
               session'[h].hits = session[h].hits
<1>0. PICK g \in Host : g = host[u]
  BY DEF Leave, IInv
<1> DEFINE new == IF session[g] # NULL /\ session[g].count > 1
                    THEN CountDown(session[g]) ELSE NULL
<1>1. /\ host' = [host EXCEPT ![u] = NULL]
      /\ session' = [session EXCEPT ![g] = new]
  BY <1>0 DEF Leave, DelSession, IInv
<1>2. UsersOf(g)' = UsersOf(g) \ {u} /\ u \in UsersOf(g)
  BY <1>0, <1>1, NullIsNoHost DEF UsersOf, IInv
<1>3. Cardinality(UsersOf(g)') = Cardinality(UsersOf(g)) - 1
  BY <1>2, UsersFinite, FS_RemoveElement
<1>4. \A h \in Host \ {g} : UsersOf(h)' = UsersOf(h)
  BY <1>0, <1>1, NullIsNoHost, OtherHosts DEF IInv
<1>5. session[g] # NULL /\ session[g] \in SessionRec
  BY <1>1, <1>2 DEF IInv, SessionsCountUsers
<1>6. Cardinality(UsersOf(g)) = session[g].count
  BY <1>1, <1>5 DEF IInv, SessionsCountUsers
<1>7. CASE session[g].count > 1
  <2>1. /\ new \in SessionRec
        /\ new.count = session[g].count - 1
        /\ new.hits = session[g].hits
    BY <1>5, <1>7, CountDownType
  <2> HIDE DEF new
  <2>2. /\ session'[g] = new
        /\ \A h \in Host \ {g} : session'[h] = session[h]
        /\ session' \in [Host -> SessionRec \cup {NULL}]
    BY <1>1, <2>1 DEF IInv
  <2>3. SessionsCountUsers'
    BY <2>1, <2>2, <1>3, <1>4, <1>6, NullIsNoSession DEF IInv, SessionsCountUsers
  <2> QED BY <2>1, <2>2, <2>3, <1>1, <1>2, <1>4 DEF IInv
<1>8. CASE ~(session[g].count > 1)
  <2>1. new = NULL /\ session[g].count = 1
    BY <1>5, <1>8 DEF SessionRec
  <2> HIDE DEF new
  <2>2. /\ session'[g] = NULL
        /\ \A h \in Host \ {g} : session'[h] = session[h]
        /\ session' \in [Host -> SessionRec \cup {NULL}]
    BY <1>1, <2>1 DEF IInv
  <2>3. UsersOf(g)' = {}
    <3>1. Cardinality(UsersOf(g)') = 0
      BY <1>3, <1>6, <2>1
    <3> QED BY <3>1, UsersFinite, FS_EmptySet
  <2>4. SessionsCountUsers'
    BY <2>2, <2>3, <1>4 DEF IInv, SessionsCountUsers
  <2> QED BY <2>2, <2>4, <1>1, <1>2, <1>4 DEF IInv
<1> QED BY <1>7, <1>8

LEMMA RefuseIInv ==
  ASSUME IInv, NEW g \in Host, Refuse(g)
  PROVE  /\ IInv'
         /\ \A h \in Host : UsersOf(h)' = UsersOf(h)
         /\ \A h \in Host \ {g} : session'[h] = session[h]
<1>1. /\ session[g] # NULL
      /\ host' = host
      /\ session' = [session EXCEPT ![g] = HitsUp(session[g])]
  BY DEF Refuse, AtLimit
<1>2. /\ session[g] \in SessionRec
      /\ HitsUp(session[g]) \in SessionRec
      /\ HitsUp(session[g]).count = session[g].count
  BY <1>1, HitsUpType DEF IInv
<1> DEFINE new == HitsUp(session[g])
<1> HIDE DEF new
<1>3. /\ session'[g] = new
      /\ \A h \in Host \ {g} : session'[h] = session[h]
      /\ session' \in [Host -> SessionRec \cup {NULL}]
  BY <1>1, <1>2 DEF IInv, new
<1>4. new # NULL /\ new.count = session[g].count
  BY <1>2, NullIsNoSession DEF new
<1>5. \A h \in Host : UsersOf(h)' = UsersOf(h)
  BY <1>1 DEF UsersOf
<1>6. SessionsCountUsers'
  BY <1>1, <1>3, <1>4, <1>5 DEF IInv, SessionsCountUsers
<1> QED BY <1>1, <1>3, <1>5, <1>6 DEF IInv

LEMMA RestartIInv ==
  ASSUME IInv, Restart
  PROVE  /\ IInv'
         /\ \A h \in Host : UsersOf(h)' = {} /\ session'[h] = NULL
<1>1. \A h \in Host : UsersOf(h)' = {} /\ session'[h] = NULL
  BY NullIsNoHost DEF Restart, UsersOf
<1>2. /\ host' \in [User -> Host \cup {NULL}]
      /\ session' \in [Host -> SessionRec \cup {NULL}]
  BY DEF Restart
<1> QED BY <1>1, <1>2 DEF IInv, SessionsCountUsers

LEMMA OtherIInv ==
  ASSUME IInv, UNCHANGED <<host, session>>
  PROVE  IInv' /\ \A h \in Host : UsersOf(h)' = UsersOf(h) /\ session'[h] = session[h]
  BY DEF IInv, SessionsCountUsers, UsersOf

\* The steps that leave hosts and sessions alone.
LEMMA Frame ==
  ASSUME [Next]_vars
  PROVE  \/ UNCHANGED <<host, session>>
         \/ \E u \in User : Leave(u)
         \/ \E u \in User, h \in Host : Connect(u, h)
         \/ \E h \in Host : Refuse(h)
         \/ Restart
<1>1. CASE Network
  BY <1>1 DEF Network
<1>2. CASE Admin
  BY <1>2 DEF Admin, DefCon, ExceptionAdd, ExceptionDel, ExceptionDelNumbers, ExceptionMove
<1>3. CASE Expire
  BY <1>3 DEF Expire
<1>4. CASE Save \/ Tick \/ UNCHANGED vars
  BY <1>4 DEF Save, Tick, vars
<1> QED BY <1>1, <1>2, <1>3, <1>4 DEF Next

LEMMA StepIInv == IInv /\ [Next]_vars => IInv'
  BY Frame, OtherIInv, ConnectIInv, LeaveIInv, RefuseIInv, RestartIInv

\* Users and sessions have their types, and counts are right, in every
\* reachable state.
THEOREM Invariance == Spec => []IInv
  BY InitIInv, StepIInv, PTL DEF Spec

\* A session counts the users services know from its host, and a host
\* without users has none.
THEOREM CountsAreRight == Spec => []SessionsCountUsers
<1>1. IInv => SessionsCountUsers
  BY DEF IInv
<1> QED BY <1>1, Invariance, PTL

-----------------------------------------------------------------------------
LEMMA RefuseStep ==
  ASSUME IInv, [Next]_vars, NEW h \in Host,
         session[h] # NULL, session'[h] # NULL, session'[h].hits > session[h].hits
  PROVE  Cardinality(UsersOf(h)) >= SessionLimit(h)
<1>1. session[h].hits \in Nat
  BY DEF IInv, SessionRec
<1>2. \E g \in Host : Refuse(g)
  <2>1. ~ UNCHANGED <<host, session>>
    BY <1>1
  <2>2. ~ \E u \in User, g \in Host : Connect(u, g)
    BY <1>1, ConnectIInv
  <2>3. ~ \E u \in User : Leave(u)
    BY <1>1, LeaveIInv
  <2>4. ~ Restart
    BY RestartIInv
  <2> QED BY <2>1, <2>2, <2>3, <2>4, Frame
<1>3. Refuse(h)
  <2>1. PICK g \in Host : Refuse(g)
    BY <1>2
  <2>2. g = h
    BY <2>1, <1>1, RefuseIInv
  <2> QED BY <2>1, <2>2
<1>4. session[h].count >= SessionLimit(h)
  BY <1>3 DEF Refuse, AtLimit
<1> QED BY <1>4 DEF IInv, SessionsCountUsers

\* A user is refused only when services know as many users of his host as
\* the limit in force.
THEOREM RefusalsAreRight == Spec => RefusedOnlyAtLimit
<1>1. IInv /\ [Next]_vars =>
        [\A h \in Host :
            (/\ session[h] # NULL /\ session'[h] # NULL
             /\ session'[h].hits > session[h].hits) =>
                Cardinality(UsersOf(h)) >= SessionLimit(h)]_vars
  BY RefuseStep
<1> QED BY <1>1, Invariance, PTL DEF Spec, RefusedOnlyAtLimit

-----------------------------------------------------------------------------
(* The list of exceptions.                                                 *)

\* A set of natural numbers has a least one.
LEMMA LeastNat ==
  ASSUME NEW S, S \subseteq Nat, S # {}
  PROVE  \E n \in S : \A m \in S : n <= m
<1> DEFINE T == {0..n : n \in S}
           R == StrictSubsetOrdering(Nat)
<1>1. IsWellFoundedOn(R, FiniteSubsetsOf(Nat))
  BY FS_StrictSubsetOrderingWellFounded
<1>2. T \subseteq FiniteSubsetsOf(Nat)
  <2>1. ASSUME NEW n \in S PROVE IsFiniteSet(0..n) /\ 0..n \subseteq Nat
    <3>1. 0 \in Int /\ n \in Int
      OBVIOUS
    <3>2. IsFiniteSet(0..n)
      BY <3>1, FS_Interval
    <3> QED BY <3>2
  <2> QED BY <2>1 DEF FiniteSubsetsOf
<1>3. T # {}
  OBVIOUS
<1> HIDE DEF T, R
<1>4. PICK x \in T : \A y \in T : ~ (<<y, x>> \in R)
  BY <1>1, <1>2, <1>3, WFMin
<1>5. PICK n \in S : x = 0..n
  BY DEF T
<1>6. ASSUME NEW m \in S, m < n PROVE FALSE
  <2>1. 0..m \in T
    BY DEF T
  <2>2. 0..m \in SUBSET Nat /\ 0..n \in SUBSET Nat /\ 0..m \subseteq 0..n
    <3>1. m \in Nat /\ n \in Nat
      OBVIOUS
    <3> QED BY <1>6, <3>1
  <2>3. n \in 0..n /\ n \notin 0..m
    BY <1>6
  <2>4. 0..m # 0..n
    BY <2>3
  <2>5. <<0..m, 0..n>> \in R
    BY <2>2, <2>4 DEF R, StrictSubsetOrdering
  <2> QED BY <2>1, <2>5, <1>4, <1>5
<1> QED BY <1>6

LEMMA FirstIn ==
  ASSUME NEW I, I \subseteq Nat, I # {}
  PROVE  First(I) \in I /\ \A j \in I : First(I) <= j
BY LeastNat DEF First

\* Lists of any records: what removing, numbering and moving leave.
LEMMA RemoveAtShifts ==
  ASSUME NEW R, NEW s \in Seq(R), NEW i \in DOMAIN s
  PROVE  /\ RemoveAt(s, i) \in Seq(R)
         /\ Len(RemoveAt(s, i)) = Len(s) - 1
         /\ \A j \in 1..(Len(s) - 1) :
               RemoveAt(s, i)[j] = IF j < i THEN s[j] ELSE s[j + 1]
<1> DEFINE a == SubSeq(s, 1, i - 1)
           b == SubSeq(s, i + 1, Len(s))
<1>1. /\ a \in Seq(R) /\ Len(a) = i - 1 /\ \A j \in 1..(i - 1) : a[j] = s[j]
      /\ b \in Seq(R) /\ Len(b) = Len(s) - i /\ \A j \in 1..(Len(s) - i) : b[j] = s[i + j]
  OBVIOUS
<1> HIDE DEF a, b
<1>2. /\ a \o b \in Seq(R) /\ Len(a \o b) = Len(s) - 1
      /\ \A j \in 1..(Len(s) - 1) : (a \o b)[j] = IF j < i THEN a[j] ELSE b[j - i + 1]
  BY <1>1, SMTT(20)
<1>3. RemoveAt(s, i) = a \o b
  BY DEF RemoveAt, a, b
<1>4. ASSUME NEW j \in 1..(Len(s) - 1)
      PROVE  (a \o b)[j] = IF j < i THEN s[j] ELSE s[j + 1]
  <2>1. CASE j < i
    BY <1>1, <1>2, <2>1
  <2>2. CASE ~(j < i)
    <3>1. j - i + 1 \in 1..(Len(s) - i) /\ i + (j - i + 1) = j + 1
      BY <2>2
    <3> QED BY <1>1, <1>2, <2>2, <3>1
  <2> QED BY <2>1, <2>2
<1> QED BY <1>2, <1>3, <1>4

LEMMA RenumberNumbers ==
  ASSUME NEW s \in Seq(ExceptionRec)
  PROVE  /\ Renumber(s) \in Seq(ExceptionRec) /\ DOMAIN Renumber(s) = DOMAIN s
         /\ \A i \in DOMAIN s : /\ Renumber(s)[i].num = i - 1
                                /\ Plain(Renumber(s)[i]) = Plain(s[i])
<1>1. ASSUME NEW i \in DOMAIN s
      PROVE  LET e == [s[i] EXCEPT !.num = i - 1]
             IN  e \in ExceptionRec /\ e.num = i - 1 /\ Plain(e) = Plain(s[i])
  <2>1. s[i] \in ExceptionRec /\ i - 1 \in Nat
    OBVIOUS
  <2> QED BY <2>1 DEF ExceptionRec, Plain
<1>2. DOMAIN s = 1..Len(s) /\ Len(s) \in Nat
  OBVIOUS
<1>3. \A i \in DOMAIN s : Renumber(s)[i] = [s[i] EXCEPT !.num = i - 1]
  BY DEF Renumber
<1>4. Renumber(s) \in [1..Len(s) -> ExceptionRec] /\ DOMAIN Renumber(s) = DOMAIN s
  BY <1>1, <1>2 DEF Renumber
<1>5. Renumber(s) \in Seq(ExceptionRec)
  BY <1>2, <1>4
<1>6. \A i \in DOMAIN s : /\ Renumber(s)[i].num = i - 1
                          /\ Plain(Renumber(s)[i]) = Plain(s[i])
  BY <1>1, <1>3
<1> QED BY <1>4, <1>5, <1>6

LEMMA DelCallbackType ==
  ASSUME NEW s \in Seq(ExceptionRec), NEW n
  PROVE  DelCallback(s, n) \in Seq(ExceptionRec)
<1> DEFINE I == {i \in DOMAIN s : s[i].num = n - 1}
<1>1. CASE I = {}
  BY <1>1 DEF DelCallback
<1>2. CASE I # {}
  <2>1. I \subseteq Nat /\ I \subseteq DOMAIN s
    OBVIOUS
  <2>2. First(I) \in DOMAIN s
    BY <1>2, <2>1, FirstIn
  <2> HIDE DEF I
  <2>3. RemoveAt(s, First(I)) \in Seq(ExceptionRec)
    BY <2>2, RemoveAtShifts
  <2> QED BY <1>2, <2>3 DEF DelCallback, I
<1> QED BY <1>1, <1>2

\* process_numlist(): with any list of numbers, with one and with two.
Numlist(s, nums) == FoldLeft(DelCallback, s, nums)

LEMMA FoldOnto ==
  ASSUME NEW s, NEW nums
  PROVE  Numlist(s, nums) =
           (CHOOSE g : g = [t \in SUBSET DOMAIN nums |->
                              IF t = {} THEN s
                              ELSE DelCallback(g[t \ {Max(t)}], nums[Max(t)])])[DOMAIN nums]
BY Zenon DEF Numlist, FoldLeft, MapThenFoldSet

LEMMA FoldOne ==
  ASSUME NEW s, NEW a
  PROVE  Numlist(s, <<a>>) = DelCallback(s, a)
<1> DEFINE D == DOMAIN <<a>>
           Step(g, t) == IF t = {} THEN s
                         ELSE DelCallback(g[t \ {Max(t)}], <<a>>[Max(t)])
           it == CHOOSE g : g = [t \in SUBSET D |-> Step(g, t)]
           h == [t \in SUBSET D |-> IF t = {} THEN s ELSE DelCallback(s, a)]
<1>1. Numlist(s, <<a>>) = it[D]
  BY FoldOnto
<1>2. D = {1}
  OBVIOUS
<1>3. \A t \in SUBSET D : t = {} \/ t = {1}
  BY <1>2
<1>4. Max({1}) = 1
  BY DEF Max
<1>5. \A g : Step(g, {}) = s /\ Step(g, {1}) = DelCallback(g[{}], a)
  <2>1. {1} \ {1} = {} /\ {1} # {}
    OBVIOUS
  <2>2. <<a>>[1] = a
    OBVIOUS
  <2> QED BY <1>4, <2>1, <2>2, Zenon
<1> HIDE DEF Step, D
<1>6. {} \in SUBSET D /\ {1} \in SUBSET D
  BY <1>2
<1>7. h = [t \in SUBSET D |-> Step(h, t)]
  <2>1. h[{}] = s /\ h[{1}] = DelCallback(s, a)
    BY <1>6
  <2> HIDE DEF h
  <2>2. \A t \in SUBSET D : h[t] = Step(h, t)
    BY <1>3, <1>5, <2>1
  <2>3. h = [t \in SUBSET D |-> h[t]]
    BY DEF h
  <2> QED BY <2>2, <2>3
<1> HIDE DEF h
<1>8. it = [t \in SUBSET D |-> Step(it, t)]
  BY <1>7
<1> HIDE DEF it
<1>9. it[D] = DelCallback(s, a)
  BY <1>2, <1>5, <1>6, <1>8
<1> QED BY <1>1, <1>9

LEMMA FoldTwo ==
  ASSUME NEW s, NEW a, NEW b
  PROVE  Numlist(s, <<a, b>>) = DelCallback(DelCallback(s, a), b)
<1> DEFINE D == DOMAIN <<a, b>>
           Step(g, t) == IF t = {} THEN s
                         ELSE DelCallback(g[t \ {Max(t)}], <<a, b>>[Max(t)])
           it == CHOOSE g : g = [t \in SUBSET D |-> Step(g, t)]
           one == DelCallback(s, a)
           h == [t \in SUBSET D |-> IF t = {} THEN s ELSE IF t = {1} THEN one
                     ELSE IF t = {2} THEN DelCallback(s, b) ELSE DelCallback(one, b)]
<1>1. Numlist(s, <<a, b>>) = it[D]
  BY FoldOnto
<1>2. D = {1, 2}
  OBVIOUS
<1>3. \A t \in SUBSET D : t = {} \/ t = {1} \/ t = {2} \/ t = {1, 2}
  BY <1>2
<1>4. Max({1}) = 1 /\ Max({2}) = 2 /\ Max({1, 2}) = 2
  BY DEF Max
<1>5. \A g : /\ Step(g, {}) = s
             /\ Step(g, {1}) = DelCallback(g[{}], a)
             /\ Step(g, {2}) = DelCallback(g[{}], b)
             /\ Step(g, {1, 2}) = DelCallback(g[{1}], b)
  <2>1. /\ {1} \ {1} = {} /\ {2} \ {2} = {} /\ {1, 2} \ {2} = {1}
        /\ {1} # {} /\ {2} # {} /\ {1, 2} # {}
    OBVIOUS
  <2>2. <<a, b>>[1] = a /\ <<a, b>>[2] = b
    OBVIOUS
  <2> QED BY <1>4, <2>1, <2>2, Zenon
<1> HIDE DEF Step, D
<1>6. {} \in SUBSET D /\ {1} \in SUBSET D /\ {2} \in SUBSET D /\ {1, 2} \in SUBSET D
  BY <1>2
<1>7. h = [t \in SUBSET D |-> Step(h, t)]
  <2>1. /\ h[{}] = s /\ h[{1}] = one /\ h[{2}] = DelCallback(s, b)
        /\ h[{1, 2}] = DelCallback(one, b)
    BY <1>6
  <2> HIDE DEF h
  <2>2. \A t \in SUBSET D : h[t] = Step(h, t)
    BY <1>3, <1>5, <2>1
  <2>3. h = [t \in SUBSET D |-> h[t]]
    BY DEF h
  <2> QED BY <2>2, <2>3
<1> HIDE DEF h
<1>8. it = [t \in SUBSET D |-> Step(it, t)]
  BY <1>7
<1> HIDE DEF it
<1>9. it[D] = DelCallback(DelCallback(s, a), b)
  BY <1>2, <1>5, <1>6, <1>8
<1> QED BY <1>1, <1>9

-----------------------------------------------------------------------------
(* What the exceptions are, and their numbers.                             *)

Listed ==
    /\ now \in Nat
    /\ exceptions \in Seq(ExceptionRec) /\ saved \in Seq(SavedRec)
    /\ akilled \subseteq Host
    /\ defcon \in BOOLEAN

\* A step that is neither expiry nor a restart keeps the numbers right.
KeepsNumbers == NumIsPosition => NumIsPosition'

LEMMA NumlistType ==
  ASSUME NEW nums \in NumLists, NEW s \in Seq(ExceptionRec)
  PROVE  Numlist(s, nums) \in Seq(ExceptionRec)
<1>1. ASSUME NEW i \in 1..MaxExceptions, nums = <<i>>
      PROVE  Numlist(s, nums) \in Seq(ExceptionRec)
  <2>1. Numlist(s, nums) = DelCallback(s, i)
    BY <1>1, FoldOne
  <2> QED BY <2>1, DelCallbackType
<1>2. ASSUME NEW i \in 1..MaxExceptions, NEW j \in 1..MaxExceptions, nums = <<i, j>>
      PROVE  Numlist(s, nums) \in Seq(ExceptionRec)
  <2>1. Numlist(s, nums) = DelCallback(DelCallback(s, i), j)
    BY <1>2, FoldTwo
  <2>2. DelCallback(s, i) \in Seq(ExceptionRec)
    BY DelCallbackType
  <2> QED BY <2>1, <2>2, DelCallbackType
<1> QED BY <1>1, <1>2 DEF NumLists

LEMMA RenumberKeeps ==
  ASSUME NEW s \in Seq(ExceptionRec), exceptions' = Renumber(s)
  PROVE  exceptions' \in Seq(ExceptionRec) /\ NumIsPosition'
<1>1. /\ Renumber(s) \in Seq(ExceptionRec) /\ DOMAIN Renumber(s) = DOMAIN s
      /\ \A i \in DOMAIN s : Renumber(s)[i].num = i - 1
  BY RenumberNumbers
<1> QED BY <1>1 DEF NumIsPosition

LEMMA DelNumbersListed ==
  ASSUME Listed, NEW nums \in NumLists, ExceptionDelNumbers(nums)
  PROVE  Listed' /\ KeepsNumbers
<1>1. Numlist(exceptions, nums) \in Seq(ExceptionRec)
  BY NumlistType DEF Listed
<1>2. exceptions' = Renumber(Numlist(exceptions, nums))
  BY DEF ExceptionDelNumbers, Numlist
<1>3. exceptions' \in Seq(ExceptionRec) /\ NumIsPosition'
  BY <1>1, <1>2, RenumberKeeps
<1> QED BY <1>3 DEF ExceptionDelNumbers, Listed, KeepsNumbers

LEMMA DelListed ==
  ASSUME Listed, NEW k \in Mask, ExceptionDel(k)
  PROVE  Listed' /\ KeepsNumbers
<1> DEFINE I == {i \in DOMAIN exceptions : exceptions[i].mask = k}
<1>1. Without(k) \in Seq(ExceptionRec)
  <2>1. CASE I = {}
    BY <2>1 DEF Without, Listed
  <2>2. CASE I # {}
    <3>1. I \subseteq Nat /\ I \subseteq DOMAIN exceptions
      BY DEF Listed
    <3>2. First(I) \in DOMAIN exceptions
      BY <2>2, <3>1, FirstIn
    <3> HIDE DEF I
    <3>3. RemoveAt(exceptions, First(I)) \in Seq(ExceptionRec)
      BY <3>2, RemoveAtShifts DEF Listed
    <3> QED BY <2>2, <3>3 DEF Without, I
  <2> QED BY <2>1, <2>2
<1>2. exceptions' \in Seq(ExceptionRec) /\ NumIsPosition'
  BY <1>1, RenumberKeeps DEF ExceptionDel
<1> QED BY <1>2 DEF ExceptionDel, Listed, KeepsNumbers

LEMMA MoveListed ==
  ASSUME Listed, NEW n1 \in 1..MaxExceptions, NEW n2 \in 1..MaxExceptions,
         ExceptionMove(n1, n2)
  PROVE  Listed' /\ KeepsNumbers
<1> DEFINE s == Shift(exceptions, n1, n2)
           n == Len(exceptions)
<1>1. /\ n1 \in 1..n /\ n2 \in 1..n /\ n \in Nat /\ DOMAIN exceptions = 1..n
      /\ \A i \in 1..n : exceptions[i] \in ExceptionRec
  BY DEF ExceptionMove, Listed
<1>2. ASSUME NEW i \in 1..n PROVE s[i] \in ExceptionRec
  <2>1. n1 <= i /\ i < n2 => i + 1 \in 1..n
    BY <1>1
  <2>2. n2 < i /\ i <= n1 => i - 1 \in 1..n
    BY <1>1
  <2> QED BY <1>1, <2>1, <2>2 DEF Shift
<1>3. s \in [1..n -> ExceptionRec]
  BY <1>1, <1>2 DEF Shift
<1> HIDE DEF s
<1>4. s \in Seq(ExceptionRec)
  BY <1>1, <1>3
<1>5. exceptions' \in Seq(ExceptionRec) /\ NumIsPosition'
  BY <1>4, RenumberKeeps DEF ExceptionMove, s
<1> QED BY <1>5 DEF ExceptionMove, Listed, KeepsNumbers

LEMMA AddListed ==
  ASSUME Listed, NEW k \in Mask, NEW l \in Limits, NEW e \in Expiries,
         ExceptionAdd(k, l, e)
  PROVE  Listed' /\ KeepsNumbers
<1> DEFINE x == IF e = 0 THEN 0 ELSE now + e
           r == [mask |-> k, limit |-> l, num |-> Len(exceptions), expires |-> x]
<1>1. exceptions' = Append(exceptions, r)
  BY DEF ExceptionAdd
<1>2. x \in Nat /\ Len(exceptions) \in Nat /\ l \in Nat
  BY LimitsAreNat DEF Listed
<1> HIDE DEF x
<1>3. r \in ExceptionRec /\ r.num = Len(exceptions)
  BY <1>2 DEF ExceptionRec
<1> HIDE DEF r
<1>4. /\ exceptions' \in Seq(ExceptionRec) /\ Len(exceptions') = Len(exceptions) + 1
      /\ \A i \in 1..Len(exceptions) : exceptions'[i] = exceptions[i]
      /\ exceptions'[Len(exceptions) + 1] = r
  BY <1>1, <1>3 DEF Listed
<1>5. Listed'
  BY <1>4 DEF ExceptionAdd, Listed
<1>6. ASSUME NumIsPosition, NEW i \in DOMAIN exceptions' PROVE exceptions'[i].num = i - 1
  <2>1. i \in 1..(Len(exceptions) + 1)
    BY <1>4
  <2>2. CASE i \in 1..Len(exceptions)
    BY <1>4, <1>6, <2>2 DEF NumIsPosition, Listed
  <2>3. CASE i = Len(exceptions) + 1
    BY <1>2, <1>3, <1>4, <2>3
  <2> QED BY <1>2, <2>1, <2>2, <2>3
<1> QED BY <1>5, <1>6 DEF KeepsNumbers, NumIsPosition

LEMMA ExpireListed == ASSUME Listed, Expire PROVE Listed'
<1> DEFINE Kept == {i \in DOMAIN exceptions :
                       exceptions[i].expires = 0 \/ exceptions[i].expires > now}
<1>1. PICK f \in Orders(Kept) : exceptions' = [i \in DOMAIN f |-> exceptions[f[i]]]
  BY DEF Expire
<1>2. Kept \subseteq DOMAIN exceptions /\ IsFiniteSet(Kept)
  <2>1. IsFiniteSet(1..Len(exceptions)) /\ DOMAIN exceptions = 1..Len(exceptions)
    BY FS_Interval DEF Listed
  <2> QED BY <2>1, FS_Subset
<1>3. Cardinality(Kept) \in Nat
  BY <1>2, FS_CardinalityType
<1>4. f \in [1..Cardinality(Kept) -> Kept]
  BY DEF Orders
<1>5. \A i \in DOMAIN exceptions : exceptions[i] \in ExceptionRec
  BY DEF Listed
<1> HIDE DEF Kept
<1>6. exceptions' \in [1..Cardinality(Kept) -> ExceptionRec]
  BY <1>1, <1>2, <1>4, <1>5
<1>7. exceptions' \in Seq(ExceptionRec)
  BY <1>3, <1>6
<1> QED BY <1>7 DEF Expire, Listed

LEMMA SaveListed == ASSUME Listed, Save PROVE Listed' /\ KeepsNumbers
<1> DEFINE e(i) == [mask |-> exceptions[i].mask, limit |-> exceptions[i].limit,
                    expires |-> exceptions[i].expires]
<1>1. ASSUME NEW i \in DOMAIN exceptions PROVE e(i) \in SavedRec
  <2>1. exceptions[i] \in ExceptionRec
    BY DEF Listed
  <2> QED BY <2>1 DEF ExceptionRec, SavedRec
<1>2. saved' = [i \in DOMAIN exceptions |-> e(i)]
  BY DEF Save
<1> HIDE DEF e
<1>3. DOMAIN exceptions = 1..Len(exceptions) /\ Len(exceptions) \in Nat
  BY DEF Listed
<1>4. saved' \in [1..Len(exceptions) -> SavedRec]
  BY <1>1, <1>2, <1>3
<1>5. saved' \in Seq(SavedRec)
  BY <1>3, <1>4
<1> QED BY <1>5 DEF Save, Listed, KeepsNumbers, NumIsPosition

LEMMA RestartListed == ASSUME Listed, Restart PROVE Listed'
<1> DEFINE e(i) == [mask |-> saved[i].mask, limit |-> saved[i].limit,
                    expires |-> saved[i].expires, num |-> 0]
<1>1. ASSUME NEW i \in DOMAIN saved PROVE e(i) \in ExceptionRec
  <2>1. saved[i] \in SavedRec
    BY DEF Listed
  <2> QED BY <2>1 DEF ExceptionRec, SavedRec
<1>2. exceptions' = [i \in DOMAIN saved |-> e(i)]
  BY DEF Restart
<1> HIDE DEF e
<1>3. DOMAIN saved = 1..Len(saved) /\ Len(saved) \in Nat
  BY DEF Listed
<1>4. exceptions' \in [1..Len(saved) -> ExceptionRec]
  BY <1>1, <1>2, <1>3
<1>5. exceptions' \in Seq(ExceptionRec)
  BY <1>3, <1>4
<1> QED BY <1>5 DEF Restart, Listed

LEMMA OtherListed ==
  ASSUME Listed, Network \/ DefCon \/ Tick \/ UNCHANGED vars
  PROVE  Listed' /\ KeepsNumbers
<1>1. UNCHANGED <<exceptions, saved>>
  BY DEF Network, Connect, Refuse, Leave, DefCon, Tick, vars
<1>2. now' \in Nat
  BY DEF Listed, Network, Connect, Refuse, Leave, DefCon, Tick, vars
<1>3. akilled' \subseteq Host
  <2>1. ASSUME NEW h \in Host, Refuse(h) PROVE akilled' \subseteq Host
    BY <2>1 DEF Refuse, Listed
  <2> QED BY <2>1 DEF Listed, Network, Connect, Leave, DefCon, Tick, vars
<1>4. defcon' \in BOOLEAN
  <2>1. CASE DefCon
    BY <2>1 DEF DefCon
  <2> QED BY <2>1 DEF Listed, Network, Connect, Refuse, Leave, Tick, vars
<1> QED BY <1>1, <1>2, <1>3, <1>4 DEF Listed, KeepsNumbers, NumIsPosition

LEMMA StepListed ==
  ASSUME Listed, [Next]_vars
  PROVE  Listed' /\ (KeepsNumbers \/ Expire \/ Restart)
<1>1. CASE Admin
  BY <1>1, OtherListed, DelListed, AddListed, DelNumbersListed, MoveListed DEF Admin
<1>2. CASE Expire \/ Restart
  BY <1>2, ExpireListed, RestartListed
<1>3. CASE Save
  BY <1>3, SaveListed
<1> QED BY <1>1, <1>2, <1>3, OtherListed DEF Next

LEMMA AlwaysListed == Spec => []Listed
<1>1. Init => Listed
  <2>1. <<>> \in Seq(ExceptionRec) /\ <<>> \in Seq(SavedRec)
    BY EmptySeq
  <2> SUFFICES ASSUME Init PROVE Listed
    OBVIOUS
  <2>2. exceptions \in Seq(ExceptionRec) /\ saved \in Seq(SavedRec)
    BY <2>1 DEF Init
  <2>3. now \in Nat /\ akilled \subseteq Host
    BY DEF Init
  <2>4. defcon \in BOOLEAN
    BY DEF Init
  <2> QED BY <2>2, <2>3, <2>4 DEF Listed
<1>2. Listed /\ [Next]_vars => Listed'
  BY StepListed
<1> QED BY <1>1, <1>2, PTL DEF Spec

\* Every variable has its type in every reachable state.
THEOREM TypeCorrect == Spec => []TypeOK
<1>1. IInv /\ Listed => TypeOK
  BY DEF IInv, Listed, TypeOK
<1> QED BY <1>1, Invariance, AlwaysListed, PTL

\* Whatever is added, deleted by mask or by numbers, and moved, the num of an
\* exception is its position, unless an exception expires or services restart.
THEOREM NumbersAreKept == Spec => CommandsKeepNumbers
<1>1. Listed /\ [Next]_vars => [NumIsPosition => (NumIsPosition' \/ Expire \/ Restart)]_vars
  BY StepListed DEF KeepsNumbers
<1> QED BY <1>1, AlwaysListed, PTL DEF Spec, CommandsKeepNumbers

-----------------------------------------------------------------------------
(* Nobody is let in over the limit.                                        *)

LEMMA LimitType == ASSUME Listed, NEW h PROVE SessionLimit(h) \in Nat
<1>1. CASE Matching(h) # {}
  <2>1. Matching(h) \subseteq DOMAIN exceptions /\ Matching(h) \subseteq Nat
    BY DEF Matching, Listed
  <2>2. First(Matching(h)) \in DOMAIN exceptions
    BY <1>1, <2>1, FirstIn
  <2>3. exceptions[First(Matching(h))] \in ExceptionRec
    BY <2>2 DEF Listed
  <2> QED BY <1>1, <2>3 DEF SessionLimit, ExceptionRec
<1>2. CASE Matching(h) = {}
  BY <1>2, LimitsAreNat DEF SessionLimit
<1> QED BY <1>1, <1>2

LEMMA LimitStep ==
  ASSUME IInv, Listed, [Next]_vars, NEW h \in Host, SessionLimit(h) # 0,
         Cardinality(UsersOf(h)') > Cardinality(UsersOf(h))
  PROVE  Cardinality(UsersOf(h)') <= SessionLimit(h)
<1>1. Cardinality(UsersOf(h)) \in Nat /\ Cardinality(UsersOf(h)') \in Nat
  BY UsersFinite, FS_CardinalityType
<1>2. UsersOf(h)' # UsersOf(h)
  BY <1>1
<1>3. ~UNCHANGED <<host, session>>
  BY <1>2, OtherIInv
<1>4. ~ \E u \in User : Leave(u)
  <2> SUFFICES ASSUME NEW u \in User, Leave(u) PROVE FALSE
    OBVIOUS
  <2>1. UsersOf(h)' \subseteq UsersOf(h)
    BY LeaveIInv
  <2>2. Cardinality(UsersOf(h)') <= Cardinality(UsersOf(h))
    BY <2>1, UsersFinite, FS_Subset
  <2> QED BY <1>1, <2>2
<1>5. ~ \E g \in Host : Refuse(g)
  BY <1>2, RefuseIInv
<1>6. ~ Restart
  <2> SUFFICES ASSUME Restart PROVE FALSE
    OBVIOUS
  <2>1. Cardinality(UsersOf(h)') = 0
    BY RestartIInv, FS_EmptySet
  <2> QED BY <1>1, <2>1
<1>7. PICK u \in User, g \in Host : Connect(u, g)
  BY <1>3, <1>4, <1>5, <1>6, Frame
<1>8. g = h
  BY <1>2, <1>7, ConnectIInv
<1>9. Cardinality(UsersOf(h)') = Cardinality(UsersOf(h)) + 1 /\ ~AtLimit(h)
  BY <1>7, <1>8, ConnectIInv DEF Connect
<1>10. SessionLimit(h) \in Nat
  BY LimitType
<1>11. CASE session[h] = NULL
  <2>1. Cardinality(UsersOf(h)) = 0
    BY <1>11, FS_EmptySet DEF IInv, SessionsCountUsers
  <2> QED BY <1>9, <1>10, <2>1
<1>12. CASE session[h] # NULL
  <2>1. session[h].count = Cardinality(UsersOf(h))
    BY <1>12 DEF IInv, SessionsCountUsers
  <2> QED BY <1>1, <1>9, <1>10, <1>12, <2>1 DEF AtLimit
<1> QED BY <1>11, <1>12

\* However exceptions, their order, expiry and DefCon change the limit while
\* users are there, a host has no more users than the limit in force when
\* another one has been let in.
THEOREM LimitIsKept == Spec => NoHostOverLimit
<1>1. IInv /\ Listed /\ [Next]_vars =>
        [\A h \in Host :
            (Cardinality(UsersOf(h)') > Cardinality(UsersOf(h)) /\ SessionLimit(h) # 0) =>
                Cardinality(UsersOf(h)') <= SessionLimit(h)]_vars
  BY LimitStep
<1> QED BY <1>1, Invariance, AlwaysListed, PTL DEF Spec, NoHostOverLimit

-----------------------------------------------------------------------------
(* EXCEPTION DEL with numbers.  While it deletes, the list s that is left   *)
(* has the exceptions but those numbered in X, and f says which was where.  *)

Left(s, X, f) ==
    /\ s \in Seq(ExceptionRec)
    /\ f \in [1..Len(s) -> DOMAIN exceptions \ X]
    /\ \A i, j \in 1..Len(s) : i < j => f[i] < f[j]
    /\ \A n \in DOMAIN exceptions \ X : \E i \in 1..Len(s) : f[i] = n
    /\ \A i \in 1..Len(s) : s[i] = exceptions[f[i]]

LEMMA LeftAll ==
  ASSUME Listed
  PROVE  \E f : Left(exceptions, {}, f)
<1> DEFINE f == [i \in DOMAIN exceptions |-> i]
<1>1. DOMAIN exceptions = 1..Len(exceptions) /\ Len(exceptions) \in Nat
  BY DEF Listed
<1>2. Left(exceptions, {}, f)
  BY <1>1 DEF Left, Listed
<1> QED BY <1>2

\* The callback deletes the entry that had the number before the command.
LEMMA LeftOne ==
  ASSUME Listed, NumIsPosition, NEW s, NEW X, NEW f, NEW a \in 1..MaxExceptions,
         Left(s, X, f)
  PROVE  \E g : Left(DelCallback(s, a), X \cup {a}, g)
<1> DEFINE D == DOMAIN exceptions
           n == Len(s)
           I == {i \in DOMAIN s : s[i].num = a - 1}
<1>1. /\ n \in Nat /\ DOMAIN s = 1..n
      /\ D \subseteq Nat
      /\ s \in Seq(ExceptionRec)
      /\ f \in [1..n -> D \ X]
      /\ \A i, j \in 1..n : i < j => f[i] < f[j]
      /\ \A m \in D \ X : \E i \in 1..n : f[i] = m
      /\ \A i \in 1..n : s[i] = exceptions[f[i]]
  BY DEF Left, Listed
<1>2. I = {i \in 1..n : f[i] = a}
  <2>1. \A i \in 1..n : s[i].num = f[i] - 1 /\ f[i] \in Nat
    BY <1>1 DEF NumIsPosition
  <2> QED BY <1>1, <2>1, LimitsAreNat
<1>3. CASE a \notin D \ X
  <2>1. I = {} /\ D \ (X \cup {a}) = D \ X
    BY <1>1, <1>2, <1>3
  <2>2. DelCallback(s, a) = s
    BY <2>1 DEF DelCallback
  <2>3. Left(s, X \cup {a}, f)
    BY <2>1 DEF Left
  <2> QED BY <2>2, <2>3
<1>4. CASE a \in D \ X
  <2>1. PICK p \in 1..n : f[p] = a
    BY <1>1, <1>4
  <2>2. \A i \in 1..n : f[i] \in Nat /\ (i < p => f[i] < a) /\ (p < i => a < f[i])
    BY <1>1, <2>1
  <2>3. I = {p}
    BY <1>1, <1>2, <2>1, <2>2
  <2>4. First(I) = p
    <3>1. I \subseteq Nat /\ I # {}
      BY <2>3, <1>1
    <3> HIDE DEF I
    <3>2. First(I) \in I
      BY <3>1, FirstIn
    <3> QED BY <2>3, <3>2
  <2>5. DelCallback(s, a) = RemoveAt(s, p)
    BY <2>3, <2>4 DEF DelCallback
  <2> DEFINE r == RemoveAt(s, p)
             g == [i \in 1..(n - 1) |-> IF i < p THEN f[i] ELSE f[i + 1]]
  <2>6. /\ r \in Seq(ExceptionRec) /\ Len(r) = n - 1
        /\ \A i \in 1..(n - 1) : r[i] = IF i < p THEN s[i] ELSE s[i + 1]
    <3>1. s \in Seq(ExceptionRec) /\ p \in DOMAIN s
      BY <1>1
    <3> QED BY <3>1, RemoveAtShifts
  <2> HIDE DEF r, I, D, n
  <2>7. \A i \in 1..(n - 1) : i \in 1..n /\ i + 1 \in 1..n
    BY <1>1
  <2>8. ASSUME NEW i \in 1..(n - 1)
        PROVE  g[i] \in D \ (X \cup {a}) /\ r[i] = exceptions[g[i]]
    <3>1. CASE i < p
      BY <1>1, <2>2, <2>6, <2>7, <3>1
    <3>2. CASE ~(i < p)
      <4>1. i + 1 \in 1..n /\ p < i + 1
        BY <2>7, <3>2
      <4>2. g[i] = f[i + 1] /\ r[i] = s[i + 1]
        BY <2>6, <3>2
      <4> QED BY <1>1, <2>2, <4>1, <4>2
    <3> QED BY <3>1, <3>2
  <2>9. ASSUME NEW i \in 1..(n - 1), NEW j \in 1..(n - 1), i < j PROVE g[i] < g[j]
    <3>1. g[i] = (IF i < p THEN f[i] ELSE f[i + 1]) /\ g[j] = IF j < p THEN f[j] ELSE f[j + 1]
      OBVIOUS
    <3>2. i \in Nat /\ j \in Nat /\ p \in Nat /\ {i, j, i + 1, j + 1} \subseteq 1..n
      BY <2>7, <1>1
    <3>3. f[i] < f[j] /\ f[i] < f[j + 1] /\ f[i + 1] < f[j + 1]
      BY <1>1, <2>9, <3>2
    <3> QED BY <2>9, <3>1, <3>2, <3>3
  <2>10. ASSUME NEW m \in D \ (X \cup {a}) PROVE \E i \in 1..(n - 1) : g[i] = m
    <3>1. PICK i \in 1..n : f[i] = m
      BY <1>1
    <3>2. i # p
      BY <2>1, <3>1
    <3>3. CASE i < p
      <4>1. i \in 1..(n - 1)
        BY <1>1, <3>3
      <4> QED BY <3>1, <3>3, <4>1
    <3>4. CASE p < i
      <4>1. i - 1 \in 1..(n - 1) /\ ~(i - 1 < p) /\ (i - 1) + 1 = i
        BY <1>1, <3>4
      <4> QED BY <3>1, <4>1
    <3> QED BY <3>2, <3>3, <3>4
  <2>11. g \in [1..(n - 1) -> D \ (X \cup {a})]
    BY <2>8
  <2> HIDE DEF g
  <2>12. Left(r, X \cup {a}, g)
    BY <2>6, <2>8, <2>9, <2>10, <2>11 DEF Left, D
  <2> QED BY <2>5, <2>12 DEF r
<1> QED BY <1>3, <1>4

LEMMA LeftOrder ==
  ASSUME NEW s, NEW X, NEW f, Listed, Left(s, X, f)
  PROVE  f \in Orders(DOMAIN exceptions \ X)
<1> DEFINE R == DOMAIN exceptions \ X
           n == Len(s)
<1>1. n \in Nat /\ R \subseteq Nat /\ f \in [1..n -> R]
  BY DEF Left, Listed
<1>2. \A i, j \in 1..n : i < j => f[i] < f[j]
  BY DEF Left
<1>3. \A m \in R : \E i \in 1..n : f[i] = m
  BY DEF Left
<1> HIDE DEF R, n
<1>4. \A i, j \in 1..n : f[i] = f[j] => i = j
  <2> SUFFICES ASSUME NEW i \in 1..n, NEW j \in 1..n, f[i] = f[j], i # j PROVE FALSE
    OBVIOUS
  <2>1. f[i] \in Nat /\ i \in Nat /\ j \in Nat
    <3>1. f[i] \in R
      BY <1>1
    <3>2. f[i] \in Nat
      BY <1>1, <3>1
    <3>3. i \in Nat /\ j \in Nat
      BY <1>1
    <3> QED BY <3>2, <3>3
  <2>2. i < j \/ j < i
    BY <2>1
  <2> QED BY <1>2, <2>1, <2>2
<1>5. ExistsBijection(1..n, R)
  <2>1. f \in Bijection(1..n, R)
    BY <1>1, <1>3, <1>4 DEF Bijection, Injection, Surjection, IsInjective
  <2> QED BY <2>1 DEF ExistsBijection
<1>6. IsFiniteSet(1..n) /\ Cardinality(1..n) = n
  BY <1>1, FS_Interval
<1>7. Cardinality(R) = n
  BY <1>5, <1>6, FS_Bijection
<1> QED BY <1>1, <1>2, <1>7 DEF Orders, R

LEMMA LeftRemoved ==
  ASSUME Listed, NEW nums, NEW X, NEW f, X = ToSet(nums),
         Left(Numlist(exceptions, nums), X, f), ExceptionDelNumbers(nums)
  PROVE  RemovedExactly(nums)
<1> DEFINE s == Numlist(exceptions, nums)
<1>1. exceptions' = Renumber(s)
  BY DEF ExceptionDelNumbers, Numlist
<1>2. f \in Orders(DOMAIN exceptions \ X)
  BY LeftOrder
<1>3. /\ s \in Seq(ExceptionRec) /\ DOMAIN s = 1..Len(s)
      /\ DOMAIN f = 1..Len(s)
      /\ \A i \in 1..Len(s) : s[i] = exceptions[f[i]]
  BY DEF Left
<1> HIDE DEF s
<1>4. /\ DOMAIN exceptions' = DOMAIN f
      /\ \A i \in DOMAIN f : Plain(exceptions'[i]) = Plain(exceptions[f[i]])
  BY <1>1, <1>3, RenumberNumbers
<1> QED BY <1>2, <1>4 DEF RemovedExactly

LEMMA DelNumbersExact ==
  ASSUME Listed, NumIsPosition, NEW nums \in NumLists, ExceptionDelNumbers(nums)
  PROVE  RemovedExactly(nums)
<1>0. PICK f : Left(exceptions, {}, f)
  BY LeftAll
<1>1. ASSUME NEW a \in 1..MaxExceptions, nums = <<a>> PROVE RemovedExactly(nums)
  <2>1. PICK g : Left(DelCallback(exceptions, a), {} \cup {a}, g)
    BY <1>0, LeftOne
  <2>2. ToSet(nums) = {} \cup {a} /\ Numlist(exceptions, nums) = DelCallback(exceptions, a)
    BY <1>1, FoldOne DEF ToSet
  <2> QED BY <2>1, <2>2, LeftRemoved
<1>2. ASSUME NEW a \in 1..MaxExceptions, NEW b \in 1..MaxExceptions, nums = <<a, b>>
      PROVE  RemovedExactly(nums)
  <2>1. PICK g : Left(DelCallback(exceptions, a), {} \cup {a}, g)
    BY <1>0, LeftOne
  <2>2. PICK h : Left(DelCallback(DelCallback(exceptions, a), b), ({} \cup {a}) \cup {b}, h)
    BY <2>1, LeftOne
  <2>3. /\ ToSet(nums) = ({} \cup {a}) \cup {b}
        /\ Numlist(exceptions, nums) = DelCallback(DelCallback(exceptions, a), b)
    BY <1>2, FoldTwo DEF ToSet
  <2> QED BY <2>2, <2>3, LeftRemoved
<1> QED BY <1>1, <1>2 DEF NumLists

\* While the numbers are positions, EXCEPTION DEL with numbers removes exactly
\* the entries that had them, although positions change under it.
THEOREM NumbersDelete == Spec => DelRemovesNumbered
<1>1. Listed /\ [Next]_vars =>
        [\A nums \in NumLists :
            (NumIsPosition /\ ExceptionDelNumbers(nums)) => RemovedExactly(nums)]_vars
  BY DelNumbersExact
<1> QED BY <1>1, AlwaysListed, PTL DEF Spec, DelRemovesNumbered
================================================================================
