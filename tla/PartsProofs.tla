------------------------------ MODULE PartsProofs ------------------------------
(***************************************************************************)
(* What the parts that MCParts puts together promise, for any constants:   *)
(* a behaviour of PartsSpec is one of a part, so that the inductive        *)
(* invariants of the parts hold all together, and what the run of MCParts  *)
(* checks of them follows.  The invariants are in PartsLemmas, but for     *)
(* those of the lists: the services list, the AKILL and S*LINE lists that  *)
(* are kept in one, and the groups and the staff.                          *)
(***************************************************************************)
EXTENDS PartsLemmas, MCParts
-----------------------------------------------------------------------------
(* The services list (SList).                                              *)

\* slist_pack(), whatever the entries.
LEMMA SlPackTurns ==
  ASSUME NEW R, NEW list \in Seq(R), NEW holes
  PROVE  \E f : /\ Turns([fold |-> "pack", list |-> [i \in 1..Len(list) |-> Len(list) + 1 - i],
                          holes |-> holes], list, Len(list), f)
                /\ f[Len(list)] = SlistPack(list, holes)
<1> DEFINE s == [i \in 1..Len(list) |-> Len(list) + 1 - i]
           a == [fold |-> "pack", list |-> s, holes |-> holes]
           it == CHOOSE g : g = [t \in SUBSET DOMAIN s |->
                     IF t = {} THEN list ELSE Close(holes, g[t \ {Max(t)}], s[Max(t)])]
<1>1. SlistPack(list, holes) = it[DOMAIN s]
  BY Zenon DEF SlistPack, FoldLeft, MapThenFoldSet, Close
<1>2. DOMAIN s = 1..Len(list) /\ Len(list) \in Nat
  OBVIOUS
<1>3. \A w, i : Turn(a, w, i) = Close(holes, w, s[i])
  BY DEF Turn
<1> HIDE DEF a, s
<1>4. PICK g : IsFold(a, list, 1..Len(list), g)
  BY <1>2, FoldExists
<1>5. g = [t \in SUBSET DOMAIN s |->
             IF t = {} THEN list ELSE Close(holes, g[t \ {Max(t)}], s[Max(t)])]
  BY <1>2, <1>3, <1>4 DEF IsFold
<1>6. it = [t \in SUBSET DOMAIN s |->
              IF t = {} THEN list ELSE Close(holes, it[t \ {Max(t)}], s[Max(t)])]
  BY <1>5
<1> HIDE DEF it
<1>7. IsFold(a, list, 1..Len(list), it)
  BY <1>2, <1>3, <1>6 DEF IsFold
<1>8. \E f : Turns(a, list, Len(list), f) /\ f[Len(list)] = it[1..Len(list)]
  BY <1>2, <1>7, FoldTurns
<1>. QED
  BY <1>1, <1>2, <1>8 DEF a, s

\* Where an entry that stays is when the list is packed down to m.
SlAll(kept, m) == m + Cardinality({k \in kept : m < k})
SlRank(kept, m, j) == m + Cardinality({k \in kept : m < k /\ k <= j})

LEMMA SlRanks ==
  ASSUME NEW n \in Nat, NEW kept, kept \subseteq 1..n, NEW m \in 1..n
  PROVE  /\ SlAll(kept, m) \in Nat /\ SlAll(kept, m) >= m
         /\ SlAll(kept, m - 1) = IF m \in kept THEN SlAll(kept, m) ELSE SlAll(kept, m) - 1
         /\ m \in kept => SlRank(kept, m - 1, m) = m
         /\ \A j \in kept : m < j =>
               /\ SlRank(kept, m, j) \in Nat /\ m < SlRank(kept, m, j)
               /\ SlRank(kept, m, j) <= SlAll(kept, m)
               /\ SlRank(kept, m - 1, j) = IF m \in kept THEN SlRank(kept, m, j) ELSE SlRank(kept, m, j) - 1
<1>0. IsFiniteSet(kept) /\ m \in Nat /\ \A k \in kept : k \in Nat
  <2>1. 1 \in Int /\ n \in Int
    OBVIOUS
  <2>2. IsFiniteSet(1..n)
    BY <2>1, FS_Interval
  <2>3. IsFiniteSet(kept)
    BY <2>2, FS_Subset
  <2>. QED
    BY <2>3
<1> DEFINE Above(l) == {k \in kept : l < k}
           Part(l, j) == {k \in kept : l < k /\ k <= j}
<1>1. \A l, j : IsFiniteSet(Above(l)) /\ IsFiniteSet(Part(l, j))
  BY <1>0, FS_Subset
<1>2. \A l, j : Cardinality(Above(l)) \in Nat /\ Cardinality(Part(l, j)) \in Nat
  BY <1>1, FS_CardinalityType
<1>3. /\ Above(m - 1) = (IF m \in kept THEN Above(m) \cup {m} ELSE Above(m)) /\ m \notin Above(m)
  <2>1. \A k \in kept : (m - 1 < k) <=> (k = m \/ m < k)
    BY <1>0
  <2>2. ~(m < m)
    BY <1>0
  <2>. QED
    BY <2>1, <2>2
<1>4. Cardinality(Above(m - 1)) = IF m \in kept THEN Cardinality(Above(m)) + 1 ELSE Cardinality(Above(m))
  <2> DEFINE Over == Above(m)
             Then == Above(m - 1)
  <2>1. IsFiniteSet(Over) /\ m \notin Over /\ Then = (IF m \in kept THEN Over \cup {m} ELSE Over)
    BY <1>1, <1>3
  <2> HIDE DEF Over, Then, Above
  <2>2. Cardinality(Over \cup {m}) = Cardinality(Over) + 1
    BY <2>1, FS_AddElement
  <2>3. Cardinality(Then) = IF m \in kept THEN Cardinality(Over) + 1 ELSE Cardinality(Over)
    BY <2>1, <2>2
  <2>. QED
    BY <2>3 DEF Over, Then
<1>5. m \in kept => SlRank(kept, m - 1, m) = m
  <2> SUFFICES ASSUME m \in kept PROVE SlRank(kept, m - 1, m) = m
    OBVIOUS
  <2>1. Part(m - 1, m) = {m}
    <3>1. \A k \in kept : (m - 1 < k /\ k <= m) <=> k = m
      BY <1>0
    <3>. QED
      BY <3>1
  <2>2. Cardinality(Part(m - 1, m)) = 1
    BY <2>1, FS_Singleton
  <2>. QED
    BY <1>0, <2>2 DEF SlRank
<1>6. ASSUME NEW j \in kept, m < j
      PROVE  /\ Cardinality(Part(m, j)) >= 1 /\ Cardinality(Part(m, j)) <= Cardinality(Above(m))
             /\ Cardinality(Part(m - 1, j)) = IF m \in kept THEN Cardinality(Part(m, j)) + 1
                                              ELSE Cardinality(Part(m, j))
  <2>1. j \in Part(m, j) /\ Part(m, j) \subseteq Above(m)
    BY <1>0, <1>6
  <2>2. Cardinality(Part(m, j)) # 0
    BY <1>1, <2>1, FS_EmptySet
  <2>3. Cardinality(Part(m, j)) <= Cardinality(Above(m))
    BY <1>1, <2>1, FS_Subset
  <2>4. Part(m - 1, j) = (IF m \in kept THEN Part(m, j) \cup {m} ELSE Part(m, j)) /\ m \notin Part(m, j)
    <3>1. \A k \in kept : (m - 1 < k /\ k <= j) <=> (k = m \/ (m < k /\ k <= j))
      BY <1>0, <1>6
    <3>2. ~(m < m)
      BY <1>0
    <3>. QED
      BY <3>1, <3>2
  <2>5. Cardinality(Part(m - 1, j)) = IF m \in kept THEN Cardinality(Part(m, j)) + 1
                                      ELSE Cardinality(Part(m, j))
    <3>1. IsFiniteSet(Part(m, j))
      BY <1>1
    <3> HIDE DEF Part
    <3>2. m \notin Part(m, j) => Cardinality(Part(m, j) \cup {m}) = Cardinality(Part(m, j)) + 1
      BY <3>1, FS_AddElement
    <3>. QED
      BY <2>4, <3>2
  <2> HIDE DEF Part, Above
  <2>6. Cardinality(Part(m, j)) \in Nat
    BY <1>2
  <2>. QED
    BY <2>2, <2>3, <2>5, <2>6
<1> HIDE DEF Above, Part
<1>7. \A l, j : SlAll(kept, l) = l + Cardinality(Above(l)) /\ SlRank(kept, l, j) = l + Cardinality(Part(l, j))
  BY DEF SlAll, SlRank, Above, Part
<1>. QED
  BY <1>0, <1>2, <1>4, <1>5, <1>6, <1>7

\* What the list is when it is packed down to m.
SlPacked(R, list, kept, m, left) ==
    /\ left \in Seq(R) /\ Len(left) = SlAll(kept, m)
    /\ \A x \in 1..m : left[x] = list[x]
    /\ \A j \in kept : m < j => left[SlRank(kept, m, j)] = list[j]
    /\ \A x \in DOMAIN left : m < x => \E j \in kept : m < j /\ x = SlRank(kept, m, j)

LEMMA SlPackStarts ==
  ASSUME NEW R, NEW list \in Seq(R), NEW kept, kept \subseteq DOMAIN list
  PROVE  SlPacked(R, list, kept, Len(list), list)
<1>1. {k \in kept : Len(list) < k} = {} /\ DOMAIN list = 1..Len(list) /\ Len(list) \in Nat
  OBVIOUS
<1>2. SlAll(kept, Len(list)) = Len(list)
  <2>1. Cardinality({k \in kept : Len(list) < k}) = 0
    BY <1>1, FS_EmptySet
  <2>. QED
    BY <1>1, <2>1 DEF SlAll
<1>. QED
  BY <1>1, <1>2 DEF SlPacked

LEMMA SlPackStep ==
  ASSUME NEW R, NEW list \in Seq(R), NEW kept, kept \subseteq DOMAIN list, NEW m \in DOMAIN list,
         NEW left, SlPacked(R, list, kept, m, left)
  PROVE  SlPacked(R, list, kept, m - 1, IF m \in kept THEN left ELSE RemoveAt(left, m))
<1>0. DOMAIN list = 1..Len(list) /\ Len(list) \in Nat
  OBVIOUS
<1>1. /\ SlAll(kept, m) \in Nat /\ SlAll(kept, m) >= m
      /\ SlAll(kept, m - 1) = IF m \in kept THEN SlAll(kept, m) ELSE SlAll(kept, m) - 1
      /\ m \in kept => SlRank(kept, m - 1, m) = m
      /\ \A j \in kept : m < j =>
            /\ SlRank(kept, m, j) \in Nat /\ m < SlRank(kept, m, j)
            /\ SlRank(kept, m, j) <= SlAll(kept, m)
            /\ SlRank(kept, m - 1, j) = IF m \in kept THEN SlRank(kept, m, j) ELSE SlRank(kept, m, j) - 1
  BY <1>0, SlRanks
<1>2. /\ left \in Seq(R) /\ Len(left) = SlAll(kept, m)
      /\ \A x \in 1..m : left[x] = list[x]
      /\ \A j \in kept : m < j => left[SlRank(kept, m, j)] = list[j]
      /\ \A x \in 1..Len(left) : m < x => \E j \in kept : m < j /\ x = SlRank(kept, m, j)
  BY DEF SlPacked
<1>3. kept \subseteq Nat /\ m \in Nat /\ m - 1 \in Nat
  BY <1>0
<1>4. CASE m \in kept
  <2>1. \A j \in kept : m - 1 < j => j = m \/ m < j
    BY <1>3
  <2>2. \A j \in kept : m - 1 < j => left[SlRank(kept, m - 1, j)] = list[j]
    BY <1>0, <1>1, <1>2, <1>4, <2>1
  <2>3. \A x \in 1..Len(left) : m - 1 < x => \E j \in kept : m - 1 < j /\ x = SlRank(kept, m - 1, j)
    <3> SUFFICES ASSUME NEW x \in 1..Len(left), m - 1 < x
                 PROVE  \E j \in kept : m - 1 < j /\ x = SlRank(kept, m - 1, j)
      OBVIOUS
    <3>1. CASE x = m
      BY <1>1, <1>3, <1>4, <3>1
    <3>2. CASE m < x
      <4>1. PICK j \in kept : m < j /\ x = SlRank(kept, m, j)
        BY <1>2, <3>2
      <4>. QED
        BY <1>1, <1>3, <1>4, <4>1
    <3>. QED
      BY <1>3, <3>1, <3>2
  <2>4. \A x \in 1..(m - 1) : left[x] = list[x]
    BY <1>2, <1>3
  <2>. QED
    BY <1>1, <1>2, <1>4, <2>2, <2>3, <2>4 DEF SlPacked
<1>5. CASE m \notin kept
  <2> DEFINE rest == RemoveAt(left, m)
  <2>0. m \in DOMAIN left
    BY <1>1, <1>2, <1>3, <1>0
  <2>1. /\ rest \in Seq(R) /\ Len(rest) = Len(left) - 1
        /\ \A x \in 1..(Len(left) - 1) : rest[x] = IF x < m THEN left[x] ELSE left[x + 1]
    BY <1>2, <2>0, RemoveAtShifts
  <2> HIDE DEF rest
  <2>2. \A j \in kept : m - 1 < j => m < j
    BY <1>3, <1>5
  <2>3. ASSUME NEW j \in kept, m < j
        PROVE  rest[SlRank(kept, m - 1, j)] = list[j]
    <3> DEFINE x == SlRank(kept, m, j) - 1
    <3>1. x \in 1..(Len(left) - 1) /\ ~(x < m) /\ x + 1 = SlRank(kept, m, j)
      BY <1>1, <1>2, <1>3, <2>3
    <3>2. rest[x] = left[SlRank(kept, m, j)]
      BY <2>1, <3>1
    <3>3. SlRank(kept, m - 1, j) = x
      BY <1>1, <1>5, <2>3
    <3>. QED
      BY <1>2, <2>3, <3>2, <3>3
  <2>4. ASSUME NEW x \in DOMAIN rest, m - 1 < x
        PROVE  \E j \in kept : m - 1 < j /\ x = SlRank(kept, m - 1, j)
    <3>1. x + 1 \in 1..Len(left) /\ m < x + 1 /\ x \in Nat
      BY <1>1, <1>2, <1>3, <2>1, <2>4
    <3>2. PICK j \in kept : m < j /\ x + 1 = SlRank(kept, m, j)
      BY <1>2, <3>1
    <3>3. SlRank(kept, m - 1, j) = x
      BY <1>1, <1>5, <3>1, <3>2
    <3>. QED
      BY <1>3, <3>2, <3>3
  <2>5. \A x \in 1..(m - 1) : rest[x] = list[x]
    BY <1>1, <1>2, <1>3, <2>1
  <2>6. Len(rest) = SlAll(kept, m - 1)
    BY <1>1, <1>2, <1>5, <2>1
  <2>7. SlPacked(R, list, kept, m - 1, rest)
    BY <2>1, <2>2, <2>3, <2>4, <2>5, <2>6 DEF SlPacked
  <2>. QED
    BY <1>5, <2>7 DEF rest
<1>. QED
  BY <1>4, <1>5

LEMMA SlPacks ==
  ASSUME NEW R, NEW list \in Seq(R), NEW holes
  PROVE  SlPacked(R, list, DOMAIN list \ holes, 0, SlistPack(list, holes))
<1> DEFINE n == Len(list)
           kept == DOMAIN list \ holes
           s == [i \in 1..n |-> n + 1 - i]
           a == [fold |-> "pack", list |-> s, holes |-> holes]
<1>1. PICK f : Turns(a, list, n, f) /\ f[n] = SlistPack(list, holes)
  BY SlPackTurns
<1>2. f[0] = list /\ \A k \in Nat : k < n => f[k + 1] = Close(holes, f[k], s[k + 1])
  BY <1>1 DEF Turns, Turn
<1>3. n \in Nat /\ DOMAIN list = 1..n
  OBVIOUS
<1>4. \A k \in Nat : k < n => s[k + 1] = n - k /\ n - k \in 1..n
  BY <1>3
<1> DEFINE P == {k \in Nat : k <= n => SlPacked(R, list, kept, n - k, f[k])}
<1> HIDE DEF s, a
<1>5. 0 \in P
  <2>1. SlPacked(R, list, kept, n, list)
    BY SlPackStarts
  <2>. QED
    BY <1>2, <1>3, <2>1
<1>6. ASSUME NEW k \in Nat, k \in P PROVE k + 1 \in P
  <2>1. SUFFICES ASSUME k + 1 <= n PROVE SlPacked(R, list, kept, n - (k + 1), f[k + 1])
    OBVIOUS
  <2>2. SlPacked(R, list, kept, n - k, f[k]) /\ n - k \in DOMAIN list /\ kept \subseteq DOMAIN list
    BY <1>3, <1>4, <1>6, <2>1
  <2>3. f[k + 1] = IF n - k \in kept THEN f[k] ELSE RemoveAt(f[k], n - k)
    BY <1>2, <1>3, <1>4, <2>1, <2>2 DEF Close, SlistDelete
  <2>4. SlPacked(R, list, kept, (n - k) - 1, f[k + 1])
    BY <2>2, <2>3, SlPackStep
  <2>5. (n - k) - 1 = n - (k + 1)
    BY <1>3
  <2>. QED
    BY <2>4, <2>5
<1> HIDE DEF P
<1>7. n \in P
  BY <1>3, <1>5, <1>6, NatInd
<1>8. SlPacked(R, list, kept, n - n, f[n])
  BY <1>3, <1>7 DEF P
<1>. QED
  BY <1>1, <1>3, <1>8

LEMMA SlNullFold ==
  ASSUME NEW Q, NEW range \in Seq(Q), NEW list, NEW none
  PROVE  LET it == CHOOSE g : g = [t \in SUBSET DOMAIN range |->
                       IF t = {} THEN none ELSE Nulled(list, g[t \ {Max(t)}], range[Max(t)])]
         IN  \E f : /\ Turns([fold |-> "nulled", list |-> range, of |-> list], none, Len(range), f)
                    /\ f[Len(range)] = it[DOMAIN range]
<1> DEFINE a == [fold |-> "nulled", list |-> range, of |-> list]
           it == CHOOSE g : g = [t \in SUBSET DOMAIN range |->
                     IF t = {} THEN none ELSE Nulled(list, g[t \ {Max(t)}], range[Max(t)])]
<1>2. DOMAIN range = 1..Len(range) /\ Len(range) \in Nat
  OBVIOUS
<1>3. \A w, i : Turn(a, w, i) = Nulled(list, w, range[i])
  BY DEF Turn
<1> HIDE DEF a
<1>4. PICK g : IsFold(a, none, 1..Len(range), g)
  BY <1>2, FoldExists
<1>5. g = [t \in SUBSET DOMAIN range |->
             IF t = {} THEN none ELSE Nulled(list, g[t \ {Max(t)}], range[Max(t)])]
  BY <1>2, <1>3, <1>4 DEF IsFold
<1>6. it = [t \in SUBSET DOMAIN range |->
              IF t = {} THEN none ELSE Nulled(list, it[t \ {Max(t)}], range[Max(t)])]
  BY <1>5
<1> HIDE DEF it
<1>7. IsFold(a, none, 1..Len(range), it)
  BY <1>2, <1>3, <1>6 DEF IsFold
<1>8. \E f : Turns(a, none, Len(range), f) /\ f[Len(range)] = it[1..Len(range)]
  BY <1>2, <1>7, FoldTurns
<1>. QED
  BY <1>2, <1>8 DEF a, it

LEMMA SlNullTurns ==
  ASSUME NEW Q, NEW range \in Seq(Q), NEW list
  PROVE  \E f : /\ Turns([fold |-> "nulled", list |-> range, of |-> list], {}, Len(range), f)
                /\ SlistDeleteRange(list, range) = SlistPack(list, f[Len(range)])
<1> DEFINE it == CHOOSE g : g = [t \in SUBSET DOMAIN range |->
                     IF t = {} THEN {} ELSE Nulled(list, g[t \ {Max(t)}], range[Max(t)])]
<1>1. SlistDeleteRange(list, range) = SlistPack(list, it[DOMAIN range])
  BY Zenon DEF SlistDeleteRange, FoldLeft, MapThenFoldSet, Nulled
<1>2. \E f : /\ Turns([fold |-> "nulled", list |-> range, of |-> list], {}, Len(range), f)
             /\ f[Len(range)] = it[DOMAIN range]
  BY SlNullFold
<1> HIDE DEF it
<1>. QED
  BY <1>1, <1>2

\* What slist_delete_range() has nulled when it packs the list is what
\* slist_enum() goes through.
LEMMA SlNulls ==
  ASSUME NEW Q, NEW range \in Seq(Q), NEW list
  PROVE  SlistDeleteRange(list, range) = SlistPack(list, SlistEnum(list, range))
<1> DEFINE n == Len(range)
           Seen(k) == UNION {RangeOf(list, range[j]) : j \in 1..k}
<1>1. PICK f : /\ Turns([fold |-> "nulled", list |-> range, of |-> list], {}, n, f)
               /\ SlistDeleteRange(list, range) = SlistPack(list, f[n])
  BY SlNullTurns
<1>2. f[0] = {} /\ \A k \in Nat : k < n => f[k + 1] = f[k] \cup RangeOf(list, range[k + 1])
  BY <1>1 DEF Turns, Turn, Nulled
<1>3. n \in Nat /\ DOMAIN range = 1..n
  OBVIOUS
<1> DEFINE P == {k \in Nat : k <= n => f[k] = Seen(k)}
<1>4. 0 \in P
  <2>1. 1..0 = {}
    OBVIOUS
  <2>. QED
    BY <1>2, <2>1
<1>5. ASSUME NEW k \in Nat, k \in P PROVE k + 1 \in P
  <2>1. SUFFICES ASSUME k + 1 <= n PROVE f[k + 1] = Seen(k + 1)
    OBVIOUS
  <2>2. f[k + 1] = Seen(k) \cup RangeOf(list, range[k + 1])
    BY <1>2, <1>3, <1>5, <2>1
  <2>3. 1..(k + 1) = 1..k \cup {k + 1}
    OBVIOUS
  <2>4. Seen(k + 1) = Seen(k) \cup RangeOf(list, range[k + 1])
    BY <2>3
  <2>. QED
    BY <2>2, <2>4
<1> HIDE DEF P
<1>6. n \in P
  BY <1>3, <1>4, <1>5, NatInd
<1>7. f[n] = Seen(n)
  BY <1>3, <1>6 DEF P
<1>8. f[n] = SlistEnum(list, range)
  BY <1>3, <1>7 DEF SlistEnum
<1>. QED
  BY <1>1, <1>8

\* The entries that left has of list are those at the places in kept, and in
\* their order.
SlHas(R, list, kept, left) ==
    /\ left \in Seq(R) /\ Len(left) \in Nat /\ DOMAIN left = 1..Len(left)
    /\ Len(left) <= Len(list) /\ (kept # DOMAIN list => Len(left) < Len(list))
    /\ \A j \in kept : \E x \in DOMAIN left : left[x] = list[j]
    /\ \A x \in DOMAIN left : \E j \in kept : left[x] = list[j]
    /\ \A x, y \in DOMAIN left : x # y => \E i, j \in kept : i # j /\ left[x] = list[i] /\ left[y] = list[j]
SlKeeps(R, list, kept, left) ==
    /\ SlHas(R, list, kept, left)
    /\ Len(left) = Cardinality(kept)
    /\ \A j \in kept : left[Cardinality({k \in kept : k <= j})] = list[j]

LEMMA SlKept ==
  ASSUME NEW R, NEW list \in Seq(R), NEW kept, kept \subseteq DOMAIN list, NEW left,
         SlPacked(R, list, kept, 0, left)
  PROVE  SlKeeps(R, list, kept, left)
<1> DEFINE n == Len(list)
           At(j) == Cardinality({k \in kept : k <= j})
<1>0. n \in Nat /\ DOMAIN list = 1..n /\ \A j \in kept : j \in Nat /\ 0 < j
  OBVIOUS
<1>1. IsFiniteSet(1..n) /\ IsFiniteSet(kept) /\ Cardinality(1..n) = n
  <2>1. 1 \in Int /\ n \in Int
    BY <1>0
  <2>2. IsFiniteSet(1..n) /\ Cardinality(1..n) = n
    BY <1>0, <2>1, FS_Interval
  <2>. QED
    BY <1>0, <2>2, FS_Subset
<1>2. {k \in kept : 0 < k} = kept
  BY <1>0
<1>3. \A j : {k \in kept : 0 < k /\ k <= j} = {k \in kept : k <= j}
  BY <1>0
<1>4. Cardinality(kept) \in Nat /\ Cardinality(kept) <= n /\ (kept # 1..n => Cardinality(kept) < n)
  <2>1. kept \subseteq 1..n
    BY <1>0
  <2>. QED
    BY <1>1, <2>1, FS_Subset, FS_CardinalityType
<1>5. SlAll(kept, 0) = Cardinality(kept)
  <2>1. Cardinality({k \in kept : 0 < k}) = Cardinality(kept)
    BY <1>2
  <2>. QED
    BY <1>4, <2>1 DEF SlAll
<1>6. ASSUME NEW j \in kept
      PROVE  SlRank(kept, 0, j) = At(j) /\ At(j) \in 1..Cardinality(kept)
  <2>1. {k \in kept : k <= j} \subseteq kept /\ j \in {k \in kept : k <= j}
    BY <1>0
  <2>2. IsFiniteSet({k \in kept : k <= j})
    BY <1>1, <2>1, FS_Subset
  <2>3. At(j) \in Nat /\ At(j) <= Cardinality(kept)
    BY <1>1, <2>1, <2>2, FS_Subset, FS_CardinalityType
  <2>4. At(j) # 0
    BY <2>1, <2>2, FS_EmptySet
  <2>5. SlRank(kept, 0, j) = At(j)
    <3>1. Cardinality({k \in kept : 0 < k /\ k <= j}) = At(j)
      BY <1>3
    <3>. QED
      BY <2>3, <3>1 DEF SlRank
  <2>. QED
    BY <1>4, <2>3, <2>4, <2>5
<1> HIDE DEF At
<1>7. left \in Seq(R) /\ Len(left) = Cardinality(kept) /\ DOMAIN left = 1..Cardinality(kept)
  BY <1>5 DEF SlPacked
<1>8. \A j \in kept : At(j) \in DOMAIN left /\ left[At(j)] = list[j]
  BY <1>0, <1>6, <1>7 DEF SlPacked
<1>9. \A x \in DOMAIN left : \E j \in kept : x = At(j)
  <2> SUFFICES ASSUME NEW x \in DOMAIN left PROVE \E j \in kept : x = At(j)
    OBVIOUS
  <2>1. 0 < x
    BY <1>4, <1>7
  <2>. QED
    BY <1>6, <2>1 DEF SlPacked
<1>10. \A x, y \in DOMAIN left : x # y => \E i, j \in kept : i # j /\ left[x] = list[i] /\ left[y] = list[j]
  BY <1>8, <1>9
<1>11. \A j \in kept : left[Cardinality({k \in kept : k <= j})] = list[j]
  BY <1>8 DEF At
<1>12. /\ \A j \in kept : \E x \in DOMAIN left : left[x] = list[j]
       /\ \A x \in DOMAIN left : \E j \in kept : left[x] = list[j]
  BY <1>8, <1>9
<1>13. /\ left \in Seq(R) /\ Len(left) \in Nat /\ DOMAIN left = 1..Len(left)
       /\ Len(left) <= Len(list) /\ (kept # DOMAIN list => Len(left) < Len(list))
       /\ Len(left) = Cardinality(kept)
  BY <1>0, <1>4, <1>7
<1>. QED
  BY <1>10, <1>11, <1>12, <1>13 DEF SlKeeps, SlHas

\* DEL with numbers.
LEMMA SlDeletes ==
  ASSUME NEW R, NEW list \in Seq(R), NEW Q, NEW range \in Seq(Q)
  PROVE  SlKeeps(R, list, DOMAIN list \ SlistEnum(list, range), SlistDeleteRange(list, range))
<1>1. SlPacked(R, list, DOMAIN list \ SlistEnum(list, range), 0, SlistDeleteRange(list, range))
  BY SlPacks, SlNulls
<1>. QED
  BY <1>1, SlKept

\* DEL of one.
LEMMA SlDeletesOne ==
  ASSUME NEW R, NEW list \in Seq(R), NEW i \in DOMAIN list
  PROVE  /\ SlHas(R, list, DOMAIN list \ {i}, SlistDelete(list, i))
         /\ Len(SlistDelete(list, i)) = Len(list) - 1
         /\ \A j \in 1..(i - 1) : SlistDelete(list, i)[j] = list[j]
         /\ \A j \in DOMAIN SlistDelete(list, i) : i <= j => SlistDelete(list, i)[j] = list[j + 1]
<1> DEFINE left == SlistDelete(list, i)
           n == Len(list)
           At(x) == IF x < i THEN x ELSE x + 1
<1>0. n \in Nat /\ DOMAIN list = 1..n /\ i \in Nat /\ 1 <= i /\ i <= n
  OBVIOUS
<1>1. /\ left \in Seq(R) /\ Len(left) = n - 1
      /\ \A j \in 1..(n - 1) : left[j] = IF j < i THEN list[j] ELSE list[j + 1]
  BY RemoveAtShifts DEF SlistDelete
<1> HIDE DEF left
<1>2. DOMAIN left = 1..(n - 1) /\ n - 1 \in Nat
  BY <1>0, <1>1
<1>3. \A x \in DOMAIN left : At(x) \in DOMAIN list \ {i} /\ left[x] = list[At(x)]
  BY <1>0, <1>1, <1>2
<1>4. \A x, y \in DOMAIN left : x # y => At(x) # At(y)
  BY <1>2
<1>5. \A j \in DOMAIN list \ {i} : \E x \in DOMAIN left : left[x] = list[j]
  <2> SUFFICES ASSUME NEW j \in DOMAIN list \ {i} PROVE \E x \in DOMAIN left : left[x] = list[j]
    OBVIOUS
  <2> DEFINE x == IF j < i THEN j ELSE j - 1
  <2>1. x \in DOMAIN left /\ At(x) = j
    BY <1>0, <1>2
  <2>. QED
    BY <1>3, <2>1
<1>6. \A j \in 1..(i - 1) : left[j] = list[j]
  <2>1. \A j \in 1..(i - 1) : j \in 1..(n - 1) /\ j < i
    BY <1>0
  <2>. QED
    BY <1>1, <2>1
<1>8. \A j \in DOMAIN left : i <= j => left[j] = list[j + 1]
  BY <1>0, <1>1, <1>2
<1>7. SlHas(R, list, DOMAIN list \ {i}, left)
  <2> HIDE DEF At
  <2>1. Len(left) \in Nat /\ DOMAIN left = 1..Len(left) /\ Len(left) < Len(list)
    BY <1>0, <1>1, <1>2
  <2>. QED
    BY <1>1, <1>3, <1>4, <1>5, <2>1 DEF SlHas
<1>. QED
  BY <1>1, <1>6, <1>7, <1>8 DEF left

\* The first of some places, and 0 when there are none.
LEMMA SlIndex ==
  ASSUME NEW D, D \subseteq Nat \ {0}
  PROVE  IF D = {} THEN SlistIndexOf(D) = 0 ELSE SlistIndexOf(D) \in D
BY LeastPlace DEF SlistIndexOf

-----------------------------------------------------------------------------
(* The AKILL and S*LINE lists (Xlines).                                    *)

XState == [list: Seq(Entries), bans: SUBSET XMask]

\* A list has a mask once, and no more entries than it may have.
XOnce(list) == \A i, j \in DOMAIN list : list[i].mask = list[j].mask => i = j
XFits(list) == XLimit = 0 \/ Len(list) <= XLimit
XGood(S) == S \in XState /\ XOnce(S.list) /\ XFits(S.list)

\* The bans of the network are those of the list, as ListInForce says.
XMasks(list) == {list[i].mask : i \in DOMAIN list}
XForce(S) == S.bans \subseteq XMasks(S.list) /\ (xKind # "akill" => XMasks(S.list) \subseteq S.bans)

\* What becomes of S is in order again.
XNext(S, T) == XGood(T) /\ (XForce(S) => XForce(T))

XInv ==
    /\ xKind \in XKinds /\ xNow \in Nat
    /\ XGood(X) /\ xFile \in Seq(Entries) /\ XOnce(xFile) /\ XFits(xFile)

LEMMA XIs ==
  ASSUME NEW S \in XState
  PROVE  /\ S.list \in Seq(Entries) /\ S.bans \subseteq XMask /\ S = [list |-> S.list, bans |-> S.bans]
         /\ DOMAIN S.list = 1..Len(S.list) /\ Len(S.list) \in Nat
         /\ \A i \in DOMAIN S.list : S.list[i].mask \in XMask /\ S.list[i].expires \in Nat
<1>1. S.list \in Seq(Entries) /\ S.bans \subseteq XMask /\ S = [list |-> S.list, bans |-> S.bans]
  BY DEF XState
<1>2. DOMAIN S.list = 1..Len(S.list) /\ Len(S.list) \in Nat
  BY <1>1
<1>3. \A i \in DOMAIN S.list : S.list[i] \in Entries
  BY <1>1, <1>2
<1>. QED
  BY <1>1, <1>2, <1>3 DEF Entries

LEMMA XRecords ==
  ASSUME NEW a, NEW b, NEW c
  PROVE  /\ [[list |-> a, bans |-> b] EXCEPT !.bans = c] = [list |-> a, bans |-> c]
         /\ [[list |-> a, bans |-> b] EXCEPT !.list = c] = [list |-> c, bans |-> b]
         /\ [[S |-> a, res |-> b] EXCEPT !.res = c] = [S |-> a, res |-> c]
         /\ [[S |-> a, res |-> b] EXCEPT !.S = c] = [S |-> c, res |-> b]
OBVIOUS

\* Some entries go, and their bans with them.
LEMMA XDrops ==
  ASSUME NEW S, XGood(S), NEW kept, kept \subseteq DOMAIN S.list, NEW left,
         SlHas(Entries, S.list, kept, left), NEW bans,
         bans = S.bans \ {S.list[i].mask : i \in DOMAIN S.list \ kept}
  PROVE  XNext(S, [list |-> left, bans |-> bans])
<1> DEFINE T == [list |-> left, bans |-> bans]
<1>1. S \in XState /\ XOnce(S.list) /\ XFits(S.list)
  BY DEF XGood
<1>2. /\ left \in Seq(Entries) /\ Len(left) \in Nat /\ Len(left) <= Len(S.list)
      /\ \A j \in kept : \E x \in DOMAIN left : left[x] = S.list[j]
      /\ \A x \in DOMAIN left : \E j \in kept : left[x] = S.list[j]
      /\ \A x, y \in DOMAIN left : x # y => \E i, j \in kept : i # j /\ left[x] = S.list[i] /\ left[y] = S.list[j]
  BY DEF SlHas
<1>3. T \in XState
  BY <1>1, <1>2, XIs DEF XState
<1>4. XOnce(left)
  <2> SUFFICES ASSUME NEW x \in DOMAIN left, NEW y \in DOMAIN left, left[x].mask = left[y].mask, x # y
               PROVE  FALSE
    BY DEF XOnce
  <2>1. PICK i, j \in kept : i # j /\ left[x] = S.list[i] /\ left[y] = S.list[j]
    BY <1>2
  <2>. QED
    BY <1>1, <2>1 DEF XOnce
<1>5. XFits(left)
  <2>1. Len(S.list) \in Nat /\ XLimit \in Nat
    BY <1>1, XIs, XLimitAssumption
  <2>. QED
    BY <1>1, <1>2, <2>1 DEF XFits
<1>6. XForce(S) => XForce(T)
  <2>1. ASSUME S.bans \subseteq XMasks(S.list) PROVE bans \subseteq XMasks(left)
    BY <1>2, <2>1 DEF XMasks
  <2>2. ASSUME XMasks(S.list) \subseteq S.bans PROVE XMasks(left) \subseteq bans
    <3> SUFFICES ASSUME NEW x \in DOMAIN left PROVE left[x].mask \in bans
      BY DEF XMasks
    <3>1. PICK j \in kept : left[x] = S.list[j]
      BY <1>2
    <3>2. S.list[j].mask \in S.bans
      BY <2>2 DEF XMasks
    <3>3. \A i \in DOMAIN S.list \ kept : S.list[i].mask # S.list[j].mask
      BY <1>1 DEF XOnce
    <3>. QED
      BY <3>1, <3>2, <3>3
  <2>. QED
    BY <2>1, <2>2 DEF XForce
<1>. QED
  BY <1>3, <1>4, <1>5, <1>6 DEF XNext, XGood

\* One entry goes.
LEMMA XDeletes ==
  ASSUME NEW S, XGood(S), NEW i \in DOMAIN S.list
  PROVE  /\ XNext(S, DeleteEntry(S, i))
         /\ DeleteEntry(S, i).list = SlistDelete(S.list, i)
<1>1. S \in XState
  BY DEF XGood
<1>2. S.list \in Seq(Entries)
  BY <1>1, XIs
<1>3. DeleteEntry(S, i) = [list |-> SlistDelete(S.list, i), bans |-> S.bans \ {S.list[i].mask}]
  <2>1. FreeEntry(S, S.list[i]) = [list |-> S.list, bans |-> S.bans \ {S.list[i].mask}]
    <3>1. S = [list |-> S.list, bans |-> S.bans]
      BY <1>1, XIs
    <3>2. [S EXCEPT !.bans = S.bans \ {S.list[i].mask}] = [list |-> S.list, bans |-> S.bans \ {S.list[i].mask}]
      BY <3>1, XRecords
    <3>. QED
      BY <3>2 DEF FreeEntry
  <2>. QED
    BY <2>1, XRecords DEF DeleteEntry
<1>4. SlHas(Entries, S.list, DOMAIN S.list \ {i}, SlistDelete(S.list, i))
  BY <1>2, SlDeletesOne
<1>5. S.bans \ {S.list[i].mask} = S.bans \ {S.list[j].mask : j \in DOMAIN S.list \ (DOMAIN S.list \ {i})}
  OBVIOUS
<1>6. XNext(S, [list |-> SlistDelete(S.list, i), bans |-> S.bans \ {S.list[i].mask}])
  BY <1>4, <1>5, XDrops
<1>. QED
  BY <1>3, <1>6

\* One entry takes another time.
XTakes(R, i, expires, T) ==
    /\ T.res = "changed" /\ T = [S |-> T.S, res |-> T.res]
    /\ XNext(R.S, T.S) /\ Len(T.S.list) = Len(R.S.list)
    /\ T.S.list[i] = [mask |-> R.S.list[i].mask, expires |-> expires]
    /\ \A x \in DOMAIN R.S.list : x # i => T.S.list[x] = R.S.list[x]

LEMMA XChanges ==
  ASSUME NEW R, XGood(R.S), R = [S |-> R.S, res |-> R.res], NEW i \in DOMAIN R.S.list, NEW expires \in Nat
  PROVE  XTakes(R, i, expires, [R EXCEPT !.res = "changed", !.S.list[i].expires = expires])
<1> DEFINE S == R.S
           l == R.S.list
           e == [mask |-> l[i].mask, expires |-> expires]
           list == [l EXCEPT ![i] = e]
           U == [list |-> list, bans |-> S.bans]
<1>1. S \in XState /\ XOnce(l) /\ XFits(l)
  BY DEF XGood
<1>2. /\ l \in Seq(Entries) /\ S.bans \subseteq XMask /\ S = [list |-> S.list, bans |-> S.bans]
      /\ DOMAIN l = 1..Len(l) /\ Len(l) \in Nat /\ l[i] \in Entries
  BY <1>1, XIs
<1>3. l[i] = [mask |-> l[i].mask, expires |-> l[i].expires] /\ l[i].mask \in XMask
  BY <1>2 DEF Entries
<1>4. e \in Entries
  BY <1>3 DEF Entries
<1>5. [R EXCEPT !.res = "changed", !.S.list[i].expires = expires] = [S |-> U, res |-> "changed"]
  <2>1. [l[i] EXCEPT !.expires = expires] = e
    BY <1>3
  <2>2. [l EXCEPT ![i] = [l[i] EXCEPT !.expires = expires]] = list
    BY <2>1
  <2> HIDE DEF list, e
  <2>3. [S EXCEPT !.list = list] = U
    BY <1>2, XRecords
  <2> HIDE DEF U
  <2>4. [R EXCEPT !.res = "changed"] = [S |-> S, res |-> "changed"]
    BY XRecords
  <2>5. [[R EXCEPT !.res = "changed"] EXCEPT !.S = U] = [S |-> U, res |-> "changed"]
    <3>1. [[S |-> S, res |-> "changed"] EXCEPT !.S = U] = [S |-> U, res |-> "changed"]
      BY XRecords
    <3>. QED
      BY <2>4, <3>1
  <2>6. [R EXCEPT !.res = "changed", !.S.list[i].expires = expires]
        = [[R EXCEPT !.res = "changed"] EXCEPT !.S = [S EXCEPT !.list = [l EXCEPT ![i] = [l[i] EXCEPT !.expires = expires]]]]
    BY <2>4
  <2>. QED
    BY <2>2, <2>3, <2>5, <2>6
<1>6. /\ list \in Seq(Entries) /\ Len(list) = Len(l) /\ DOMAIN list = DOMAIN l
      /\ \A x \in DOMAIN l : list[x] = IF x = i THEN e ELSE l[x]
  BY <1>2, <1>4
<1> HIDE DEF list, e
<1>7. \A x \in DOMAIN l : list[x].mask = l[x].mask
  BY <1>6 DEF e
<1>8. U \in XState
  BY <1>2, <1>6 DEF XState
<1>9. XOnce(list) /\ XFits(list) /\ XMasks(list) = XMasks(l)
  BY <1>1, <1>6, <1>7 DEF XOnce, XFits, XMasks
<1>10. XNext(S, U)
  BY <1>8, <1>9 DEF XNext, XGood, XForce
<1> DEFINE T == [R EXCEPT !.res = "changed", !.S.list[i].expires = expires]
<1>11. T = [S |-> U, res |-> "changed"]
  BY <1>5
<1> HIDE DEF T
<1>12. T.S = U /\ T.res = "changed" /\ U.list = list
  BY <1>11
<1>13. XTakes(R, i, expires, T)
  BY <1>6, <1>10, <1>11, <1>12 DEF XTakes, e
<1>. QED
  BY <1>13 DEF T

LEMMA XNextIs ==
  ASSUME NEW S, XGood(S)
  PROVE  XNext(S, S) /\ \A T, U : XNext(S, T) /\ XNext(T, U) => XNext(S, U)
BY DEF XNext

LEMMA XScanTurns ==
  ASSUME NEW S \in XState, NEW mask, NEW expires, NEW seen, NEW longer, NEW shorter
  PROVE  LET n == Len(S.list)
             a == [fold |-> "visit", list |-> [i \in 1..n |-> n + 1 - i], mask |-> mask,
                   expires |-> expires, seen |-> seen, longer |-> longer, shorter |-> shorter]
         IN  \E f : /\ Turns(a, [S |-> S, res |-> "go"], n, f)
                    /\ f[n] = Scan(S, mask, expires, seen, longer, shorter)
<1> DEFINE n == Len(S.list)
           s == [i \in 1..n |-> n + 1 - i]
           a == [fold |-> "visit", list |-> s, mask |-> mask,
                 expires |-> expires, seen |-> seen, longer |-> longer, shorter |-> shorter]
           v == [S |-> S, res |-> "go"]
           it == CHOOSE g : g = [t \in SUBSET DOMAIN s |->
                     IF t = {} THEN v
                     ELSE XVisit(mask, expires, seen, longer, shorter, g[t \ {Max(t)}], s[Max(t)])]
<1>1. Scan(S, mask, expires, seen, longer, shorter) = it[DOMAIN s]
  BY Zenon DEF Scan, FoldLeft, MapThenFoldSet, XVisit
<1>2. DOMAIN s = 1..n /\ n \in Nat
  BY XIs
<1>3. \A w, i : Turn(a, w, i) = XVisit(mask, expires, seen, longer, shorter, w, s[i])
  BY DEF Turn
<1> HIDE DEF a, s, v, n
<1>4. PICK g : IsFold(a, v, 1..n, g)
  BY <1>2, FoldExists
<1>5. g = [t \in SUBSET DOMAIN s |->
             IF t = {} THEN v
             ELSE XVisit(mask, expires, seen, longer, shorter, g[t \ {Max(t)}], s[Max(t)])]
  BY <1>2, <1>3, <1>4 DEF IsFold
<1>6. it = [t \in SUBSET DOMAIN s |->
              IF t = {} THEN v
              ELSE XVisit(mask, expires, seen, longer, shorter, it[t \ {Max(t)}], s[Max(t)])]
  BY <1>5
<1> HIDE DEF it
<1>7. IsFold(a, v, 1..n, it)
  BY <1>2, <1>3, <1>6 DEF IsFold
<1>8. \E f : Turns(a, v, n, f) /\ f[n] = it[1..n]
  BY <1>2, <1>7, FoldTurns
<1>. QED
  BY <1>1, <1>2, <1>8 DEF a, s, v, n

\* An entry is there, or the new mask does its work as long.
XGone(S, mask, expires, shorter, j) ==
    XCovers(mask, S.list[j].mask) /\ (j \in shorter \/ Outlasted(S.list[j], expires))
XStays(S, mask, expires, shorter, list) ==
    \A j \in DOMAIN S.list : \/ \E x \in DOMAIN list : list[x] = S.list[j]
                             \/ XGone(S, mask, expires, shorter, j)

\* Why the walk has ended.
XRefused(S, mask, expires, longer, list) ==
    \E j \in DOMAIN S.list, x \in DOMAIN list :
        /\ list[x] = S.list[j] /\ XCovers(S.list[j].mask, mask)
        /\ j \in longer \/ Outlasts(S.list[j], expires)
XChanged(S, mask, expires, list) ==
    /\ \E x \in DOMAIN list : list[x] = [mask |-> mask, expires |-> expires]
    /\ \E j \in DOMAIN S.list : S.list[j].mask = mask /\ ~Outlasts(S.list[j], expires)

\* What the walk has made of S when it is down to m.
XScanned(S, mask, expires, longer, shorter, m, R) ==
    /\ R = [S |-> R.S, res |-> R.res] /\ R.res \in {"go", "refused", "changed"}
    /\ XNext(S, R.S)
    /\ XStays(S, mask, expires, shorter, R.S.list)
    /\ R.res = "go" =>
          /\ m <= Len(R.S.list)
          /\ \A x \in 1..m : R.S.list[x] = S.list[x]
          /\ \A x \in DOMAIN R.S.list : m < x => R.S.list[x].mask # mask
          /\ R.S.list = S.list \/ Len(R.S.list) < Len(S.list)
    /\ R.res = "refused" => XRefused(S, mask, expires, longer, R.S.list)
    /\ R.res = "changed" => XChanged(S, mask, expires, R.S.list)

\* The walk goes on with D.
LEMMA XGoesOn ==
  ASSUME NEW S, NEW mask, NEW expires, NEW longer, NEW shorter, NEW m, NEW D,
         XNext(S, D), XStays(S, mask, expires, shorter, D.list), m <= Len(D.list),
         \A x \in 1..m : D.list[x] = S.list[x],
         \A x \in DOMAIN D.list : m < x => D.list[x].mask # mask,
         D.list = S.list \/ Len(D.list) < Len(S.list)
  PROVE  XScanned(S, mask, expires, longer, shorter, m, [S |-> D, res |-> "go"])
<1> DEFINE R == [S |-> D, res |-> "go"]
<1>1. R.S = D /\ R.res = "go" /\ R = [S |-> R.S, res |-> R.res]
  OBVIOUS
<1> HIDE DEF R
<1>2. XScanned(S, mask, expires, longer, shorter, m, R)
  BY <1>1 DEF XScanned
<1>. QED
  BY <1>2 DEF R

LEMMA XScanStep ==
  ASSUME NEW S, XGood(S), NEW mask \in XMask, NEW expires \in Nat, NEW seen, NEW longer, NEW shorter,
         \A j \in DOMAIN S.list : S.list[j].mask = mask => j \in seen,
         NEW m \in DOMAIN S.list, NEW R, XScanned(S, mask, expires, longer, shorter, m, R)
  PROVE  XScanned(S, mask, expires, longer, shorter, m - 1,
                  XVisit(mask, expires, seen, longer, shorter, R, m))
<1> DEFINE e == R.S.list[m]
           Q == XVisit(mask, expires, seen, longer, shorter, R, m)
           Fine(T) == XScanned(S, mask, expires, longer, shorter, m - 1, T)
<1>0. S \in XState /\ XNext(S, R.S) /\ XGood(R.S) /\ R.S \in XState
  BY DEF XScanned, XNext, XGood
<1>1. m \in Nat /\ m - 1 \in Nat /\ 1 <= m /\ Len(S.list) \in Nat /\ m <= Len(S.list)
  BY <1>0, XIs
<1>2. CASE R.res # "go"
  <2>1. Q = R
    BY <1>2 DEF XVisit
  <2>. QED
    BY <1>2, <2>1 DEF XScanned
<1>3. CASE R.res = "go"
  <2>0. /\ R = [S |-> R.S, res |-> R.res] /\ XStays(S, mask, expires, shorter, R.S.list)
        /\ m <= Len(R.S.list) /\ \A x \in 1..m : R.S.list[x] = S.list[x]
        /\ \A x \in DOMAIN R.S.list : m < x => R.S.list[x].mask # mask
        /\ R.S.list = S.list \/ Len(R.S.list) < Len(S.list)
    BY <1>3 DEF XScanned
  <2>1. /\ R.S.list \in Seq(Entries) /\ Len(R.S.list) \in Nat /\ DOMAIN R.S.list = 1..Len(R.S.list)
        /\ \A i \in DOMAIN R.S.list : R.S.list[i].mask \in XMask /\ R.S.list[i].expires \in Nat
    BY <1>0, XIs
  <2>2. m \in DOMAIN R.S.list /\ e = S.list[m]
    BY <1>1, <2>0, <2>1
  <2>3. \A x \in DOMAIN R.S.list : m - 1 < x => x = m \/ m < x
    BY <1>1, <2>1
  <2> HIDE DEF e
  \* The walk goes on, or ends with a list that is the same.
  <2>4. ASSUME Q = R, e.mask # mask PROVE Fine(Q)
    <3>1. \A x \in 1..(m - 1) : R.S.list[x] = S.list[x]
      BY <1>1, <2>0
    <3>2. \A x \in DOMAIN R.S.list : m - 1 < x => R.S.list[x].mask # mask
      BY <2>0, <2>3, <2>4 DEF e
    <3>. QED
      BY <1>0, <1>1, <1>3, <2>0, <2>4, <3>1, <3>2 DEF XScanned
  <2>5. ASSUME Q = [R EXCEPT !.res = "refused"], XCovers(e.mask, mask),
               m \in longer \/ Outlasts(e, expires)
        PROVE  Fine(Q)
    <3>1. Q = [S |-> R.S, res |-> "refused"]
      BY <2>0, <2>5, XRecords
    <3>2. Q.S = R.S /\ Q.res = "refused"
      BY <3>1
    <3>3. XRefused(S, mask, expires, longer, R.S.list)
      BY <2>2, <2>5 DEF XRefused, e
    <3>. QED
      BY <1>0, <2>0, <3>1, <3>2, <3>3 DEF XScanned
  <2>6. CASE m \notin seen
    <3>1. Q = R
      BY <2>6 DEF XVisit
    <3>2. e.mask # mask
      BY <2>2, <2>6
    <3>. QED
      BY <2>4, <3>1, <3>2
  <2>7. CASE m \in seen /\ e.mask = mask /\ Outlasts(e, expires)
    <3>1. Q = [R EXCEPT !.res = "refused"]
      BY <1>3, <2>7 DEF XVisit, e
    <3>2. XCovers(e.mask, mask)
      BY <2>7 DEF XCovers
    <3>. QED
      BY <2>5, <2>7, <3>1, <3>2
  <2>8. CASE m \in seen /\ e.mask = mask /\ ~Outlasts(e, expires)
    <3>1. Q = [R EXCEPT !.res = "changed", !.S.list[m].expires = expires]
      BY <1>3, <2>8 DEF XVisit, e
    <3>2. /\ Q.res = "changed" /\ Q = [S |-> Q.S, res |-> Q.res]
          /\ XNext(R.S, Q.S) /\ Len(Q.S.list) = Len(R.S.list)
          /\ Q.S.list[m] = [mask |-> R.S.list[m].mask, expires |-> expires]
          /\ \A x \in DOMAIN R.S.list : x # m => Q.S.list[x] = R.S.list[x]
      <4> DEFINE T == [R EXCEPT !.res = "changed", !.S.list[m].expires = expires]
                 l == R.S.list
      <4>1. XTakes(R, m, expires, T)
        BY <1>0, <2>0, <2>2, XChanges
      <4>2. Q = T
        BY <3>1
      <4> HIDE DEF T, Q
      <4>. QED
        BY <4>1, <4>2 DEF XTakes
    <3>3. XNext(S, Q.S)
      BY <1>0, <3>2, XNextIs
    <3>4. DOMAIN Q.S.list = DOMAIN R.S.list
      <4>1. Q.S \in XState
        BY <3>2 DEF XNext, XGood
      <4>2. DOMAIN Q.S.list = 1..Len(Q.S.list)
        BY <4>1, XIs
      <4>. QED
        BY <2>1, <3>2, <4>2
    <3>5. XChanged(S, mask, expires, Q.S.list)
      BY <2>2, <2>8, <3>2, <3>4 DEF XChanged, e
    <3>6. XStays(S, mask, expires, shorter, Q.S.list)
      <4> SUFFICES ASSUME NEW j \in DOMAIN S.list,
                          ~XGone(S, mask, expires, shorter, j)
                   PROVE  \E x \in DOMAIN Q.S.list : Q.S.list[x] = S.list[j]
        BY DEF XStays
      <4>1. PICK x \in DOMAIN R.S.list : R.S.list[x] = S.list[j]
        BY <2>0 DEF XStays
      <4>2. x # m
        <5> SUFFICES ASSUME x = m PROVE FALSE
          OBVIOUS
        <5>1. S.list[j].mask = mask /\ ~Outlasts(S.list[j], expires)
          BY <2>8, <4>1 DEF e
        <5>2. XCovers(mask, S.list[j].mask)
          BY <5>1 DEF XCovers
        <5>3. Outlasted(S.list[j], expires)
          BY <1>0, <5>1, XIs DEF Outlasts, Outlasted
        <5>. QED
          BY <5>2, <5>3 DEF XGone
      <4>. QED
        BY <3>2, <3>4, <4>1, <4>2
    <3>. QED
      BY <3>2, <3>3, <3>5, <3>6 DEF XScanned
  <2>9. CASE m \in seen /\ e.mask # mask /\ XCovers(e.mask, mask) /\ m \in longer
    <3>1. Q = [R EXCEPT !.res = "refused"]
      BY <1>3, <2>9 DEF XVisit, e
    <3>. QED
      BY <2>5, <2>9, <3>1
  <2>10. CASE /\ m \in seen /\ e.mask # mask /\ ~(XCovers(e.mask, mask) /\ m \in longer)
              /\ XCovers(mask, e.mask) /\ m \in shorter
    <3> DEFINE D == DeleteEntry(R.S, m)
    <3>1. Q = [R EXCEPT !.S = D]
      BY <1>3, <2>10 DEF XVisit, e
    <3> HIDE DEF D, Q
    <3>2. Q = [S |-> D, res |-> "go"]
      <4>1. R = [S |-> R.S, res |-> "go"]
        BY <1>3, <2>0
      <4>2. [[S |-> R.S, res |-> "go"] EXCEPT !.S = D] = [S |-> D, res |-> "go"]
        BY XRecords
      <4>. QED
        BY <3>1, <4>1, <4>2
    <3>3. Q.S = D /\ Q.res = "go"
      BY <3>2
    <3>4. XNext(R.S, D) /\ D.list = SlistDelete(R.S.list, m)
      BY <1>0, <2>2, XDeletes DEF D
    <3>5. XNext(S, D)
      BY <1>0, <3>4, XNextIs
    <3>6. /\ SlHas(Entries, R.S.list, DOMAIN R.S.list \ {m}, D.list)
          /\ Len(D.list) = Len(R.S.list) - 1
          /\ \A j \in 1..(m - 1) : D.list[j] = R.S.list[j]
          /\ \A j \in DOMAIN D.list : m <= j => D.list[j] = R.S.list[j + 1]
      <4> DEFINE l == R.S.list
                 d == SlistDelete(l, m)
      <4>1. l \in Seq(Entries) /\ m \in DOMAIN l
        BY <2>1, <2>2
      <4> HIDE DEF l
      <4>2. /\ SlHas(Entries, l, DOMAIN l \ {m}, d) /\ Len(d) = Len(l) - 1
            /\ \A j \in 1..(m - 1) : d[j] = l[j]
            /\ \A j \in DOMAIN d : m <= j => d[j] = l[j + 1]
        BY <4>1, SlDeletesOne
      <4>3. D.list = d
        BY <3>4 DEF l
      <4> HIDE DEF d
      <4>. QED
        BY <4>2, <4>3 DEF l
    <3>7. DOMAIN D.list = 1..Len(D.list)
      BY <3>6 DEF SlHas
    <3>8. XStays(S, mask, expires, shorter, D.list)
      <4> SUFFICES ASSUME NEW j \in DOMAIN S.list,
                          ~XGone(S, mask, expires, shorter, j)
                   PROVE  \E x \in DOMAIN D.list : D.list[x] = S.list[j]
        BY DEF XStays
      <4>1. PICK x \in DOMAIN R.S.list : R.S.list[x] = S.list[j]
        BY <2>0 DEF XStays
      <4>2. x # m
        <5> SUFFICES ASSUME x = m PROVE FALSE
          OBVIOUS
        <5>1. S.list[j].mask = S.list[m].mask
          BY <2>2, <4>1 DEF e
        <5>2. j = m
          BY <1>0, <5>1 DEF XGood, XOnce
        <5>. QED
          BY <2>2, <2>10, <5>2 DEF XGone
      <4>. QED
        BY <3>6, <4>1, <4>2 DEF SlHas
    <3>9. m - 1 <= Len(D.list) /\ \A x \in 1..(m - 1) : D.list[x] = S.list[x]
      BY <1>1, <2>0, <2>1, <3>6
    <3>10. \A x \in DOMAIN D.list : m - 1 < x => D.list[x].mask # mask
      <4> SUFFICES ASSUME NEW x \in DOMAIN D.list, m - 1 < x PROVE D.list[x].mask # mask
        OBVIOUS
      <4>1. m <= x /\ x + 1 \in DOMAIN R.S.list /\ m < x + 1
        BY <1>1, <2>1, <3>6, <3>7
      <4>. QED
        BY <2>0, <3>6, <4>1
    <3>11. Len(D.list) < Len(S.list)
      BY <1>1, <2>0, <2>1, <3>6
    <3>. QED
      <4>1. Fine([S |-> D, res |-> "go"])
        BY <3>5, <3>8, <3>9, <3>10, <3>11, XGoesOn
      <4>2. Fine(Q)
        BY <3>2, <4>1
      <4>. QED
        BY <4>2 DEF Q
  <2>11. CASE /\ m \in seen /\ e.mask # mask /\ ~(XCovers(e.mask, mask) /\ m \in longer)
              /\ ~(XCovers(mask, e.mask) /\ m \in shorter)
    <3>1. Q = R
      BY <1>3, <2>11 DEF XVisit, e
    <3>. QED
      BY <2>4, <2>11, <3>1
  <2>. QED
    BY <2>6, <2>7, <2>8, <2>9, <2>10, <2>11
<1>. QED
  BY <1>2, <1>3

LEMMA XScans ==
  ASSUME NEW S, XGood(S), NEW mask \in XMask, NEW expires \in Nat, NEW seen, NEW longer, NEW shorter,
         \A j \in DOMAIN S.list : S.list[j].mask = mask => j \in seen
  PROVE  XScanned(S, mask, expires, longer, shorter, 0, Scan(S, mask, expires, seen, longer, shorter))
<1> DEFINE n == Len(S.list)
           s == [i \in 1..n |-> n + 1 - i]
           a == [fold |-> "visit", list |-> s, mask |-> mask,
                 expires |-> expires, seen |-> seen, longer |-> longer, shorter |-> shorter]
           v == [S |-> S, res |-> "go"]
           Fine(m, R) == XScanned(S, mask, expires, longer, shorter, m, R)
<1>0. S \in XState
  BY DEF XGood
<1>1. PICK f : Turns(a, v, n, f) /\ f[n] = Scan(S, mask, expires, seen, longer, shorter)
  BY <1>0, XScanTurns
<1>2. f[0] = v /\ \A k \in Nat : k < n => f[k + 1] = XVisit(mask, expires, seen, longer, shorter, f[k], s[k + 1])
  BY <1>1 DEF Turns, Turn
<1>3. n \in Nat /\ DOMAIN S.list = 1..n
  BY <1>0, XIs
<1>4. \A k \in Nat : k < n => s[k + 1] = n - k /\ n - k \in 1..n
  BY <1>3
<1> DEFINE P == {k \in Nat : k <= n => Fine(n - k, f[k])}
<1> HIDE DEF s, a
<1>5. 0 \in P
  <2>1. XNext(S, S)
    BY XNextIs
  <2>2. XStays(S, mask, expires, shorter, S.list)
    BY DEF XStays
  <2>3. n <= n /\ \A x \in DOMAIN S.list : ~(n < x)
    BY <1>3
  <2>4. Fine(n, v)
    BY <2>1, <2>2, <2>3, XGoesOn
  <2>. QED
    BY <1>2, <1>3, <2>4
<1>6. ASSUME NEW k \in Nat, k \in P PROVE k + 1 \in P
  <2>1. SUFFICES ASSUME k + 1 <= n PROVE Fine(n - (k + 1), f[k + 1])
    OBVIOUS
  <2>2. Fine(n - k, f[k]) /\ n - k \in DOMAIN S.list
    BY <1>3, <1>4, <1>6, <2>1
  <2>3. f[k + 1] = XVisit(mask, expires, seen, longer, shorter, f[k], n - k)
    BY <1>2, <1>3, <1>4, <2>1
  <2>4. Fine((n - k) - 1, f[k + 1])
    BY <2>2, <2>3, XScanStep
  <2>5. (n - k) - 1 = n - (k + 1)
    BY <1>3
  <2>. QED
    BY <2>4, <2>5
<1> HIDE DEF P
<1>7. n \in P
  BY <1>3, <1>5, <1>6, NatInd
<1>8. Fine(n - n, f[n])
  BY <1>3, <1>7 DEF P
<1>. QED
  BY <1>1, <1>3, <1>8

\* The mask is entered behind the others, or not.
XAdds(R, mask, expires, T) ==
    \/ T = R.S /\ (R.res # "go" \/ SlistFull(R.S.list, XLimit))
    \/ /\ R.res = "go" /\ ~SlistFull(R.S.list, XLimit)
       /\ T.list = Append(R.S.list, [mask |-> mask, expires |-> expires])
       /\ T = [list |-> T.list, bans |-> T.bans]

XEntered(R, mask, expires, sent, T) ==
    /\ XAdds(R, mask, expires, T)
    /\ T # R.S => T.bans = IF sent THEN R.S.bans \cup {mask} ELSE R.S.bans

LEMMA XPuts ==
  ASSUME NEW S, S = [list |-> S.list, bans |-> S.bans], NEW c
  PROVE  /\ [S EXCEPT !.list = c] = [list |-> c, bans |-> S.bans]
         /\ [S EXCEPT !.bans = c] = [list |-> S.list, bans |-> c]
BY XRecords

LEMMA XEnterIs ==
  ASSUME NEW R, R.S = [list |-> R.S.list, bans |-> R.S.bans], NEW mask, NEW expires, NEW sent \in BOOLEAN
  PROVE  XEntered(R, mask, expires, sent, Enter(R, mask, expires, sent))
<1> DEFINE T == Enter(R, mask, expires, sent)
           l == R.S.list
           e == [mask |-> mask, expires |-> expires]
           m == SlistAdd(l, XLimit, e)
           Added == [R.S EXCEPT !.list = m]
<1>1. CASE R.res # "go" \/ SlistFull(l, XLimit)
  <2>1. T = R.S
    BY <1>1 DEF Enter
  <2>. QED
    BY <1>1, <2>1 DEF XAdds, XEntered
<1>2. CASE R.res = "go" /\ ~SlistFull(l, XLimit)
  <2>1. m = Append(l, e)
    BY <1>2 DEF SlistAdd
  <2>2. T = IF sent THEN Send(Added, mask) ELSE Added
    BY <1>2 DEF Enter
  <2> HIDE DEF T, m
  <2>3. Added = [list |-> m, bans |-> R.S.bans]
    BY XPuts
  <2> HIDE DEF Added
  <2>a. Added.list = m /\ Added.bans = R.S.bans /\ Added = [list |-> Added.list, bans |-> Added.bans]
    BY <2>3
  <2>4. Send(Added, mask) = [list |-> m, bans |-> R.S.bans \cup {mask}]
    <3> DEFINE b == Added.bans \cup {mask}
    <3>1. Send(Added, mask) = [Added EXCEPT !.bans = b]
      BY DEF Send
    <3> HIDE DEF b
    <3>2. [Added EXCEPT !.bans = b] = [list |-> Added.list, bans |-> b]
      BY <2>a, XPuts
    <3>. QED
      BY <2>a, <3>1, <3>2 DEF b
  <2>5. T = [list |-> m, bans |-> IF sent THEN R.S.bans \cup {mask} ELSE R.S.bans]
    BY <2>2, <2>3, <2>4
  <2>6. /\ T.list = m /\ T.bans = IF sent THEN R.S.bans \cup {mask} ELSE R.S.bans
        /\ T = [list |-> T.list, bans |-> T.bans]
    BY <2>5
  <2>. QED
    BY <1>2, <2>1, <2>6 DEF XAdds, XEntered, T
<1>. QED
  BY <1>1, <1>2

LEMMA XEnters ==
  ASSUME NEW S, XGood(S), NEW mask \in XMask, NEW expires \in Nat, NEW longer, NEW shorter, NEW R,
         XScanned(S, mask, expires, longer, shorter, 0, R),
         NEW sent \in BOOLEAN, xKind # "akill" => sent
  PROVE  LET T == Enter(R, mask, expires, sent) IN XNext(S, T) /\ XAdds(R, mask, expires, T)
<1> DEFINE T == Enter(R, mask, expires, sent)
           l == R.S.list
           e == [mask |-> mask, expires |-> expires]
<1>1. XNext(S, R.S) /\ XGood(R.S) /\ R.S \in XState /\ XOnce(l) /\ XFits(l)
  BY DEF XScanned, XNext, XGood
<1>2. /\ l \in Seq(Entries) /\ R.S.bans \subseteq XMask /\ R.S = [list |-> R.S.list, bans |-> R.S.bans]
      /\ DOMAIN l = 1..Len(l) /\ Len(l) \in Nat
  BY <1>1, XIs
<1>3. XAdds(R, mask, expires, T) /\ (T # R.S => T.bans = IF sent THEN R.S.bans \cup {mask} ELSE R.S.bans)
  <2>1. R.S = [list |-> R.S.list, bans |-> R.S.bans]
    BY <1>2
  <2>2. XEntered(R, mask, expires, sent, T)
    BY ONLY <2>1, XEnterIs, sent \in BOOLEAN
  <2>. QED
    BY <2>2 DEF XEntered
<1> HIDE DEF T
<1>4. CASE T = R.S
  BY <1>1, <1>3, <1>4 DEF T
<1>5. CASE T # R.S
  <2>1. /\ R.res = "go" /\ ~SlistFull(l, XLimit) /\ T.list = Append(l, e)
        /\ T = [list |-> T.list, bans |-> T.bans]
        /\ T.bans = IF sent THEN R.S.bans \cup {mask} ELSE R.S.bans
    BY <1>3, <1>5 DEF XAdds
  <2>2. e \in Entries /\ e.mask = mask
    BY DEF Entries
  <2> HIDE DEF e, l
  <2>3. /\ T.list \in Seq(Entries) /\ Len(T.list) = Len(l) + 1 /\ DOMAIN T.list = 1..(Len(l) + 1)
        /\ \A x \in 1..(Len(l) + 1) : T.list[x] = IF x = Len(l) + 1 THEN e ELSE l[x]
    BY <1>2, <2>1, <2>2 DEF l
  <2>4. \A x \in DOMAIN l : l[x].mask # mask
    BY <1>2, <2>1 DEF XScanned, l
  <2>5. XOnce(T.list)
    <3>1. l \in Seq(Entries) /\ DOMAIN l = 1..Len(l) /\ Len(l) \in Nat
      BY <1>2 DEF l
    <3>2. \A x \in 1..(Len(l) + 1) : x # Len(l) + 1 => x \in DOMAIN l
      BY <3>1
    <3>3. XOnce(l)
      BY <1>1 DEF l
    <3>. QED
      BY <2>2, <2>3, <2>4, <3>2, <3>3 DEF XOnce
  <2>6. XFits(T.list)
    <3>1. Len(l) \in Nat /\ XLimit \in Nat
      BY <1>2, XLimitAssumption DEF l
    <3>. QED
      BY <2>1, <2>3, <3>1 DEF XFits, SlistFull
  <2>7. T \in XState
    BY <1>2, <2>1, <2>3 DEF XState
  <2>8. XMasks(T.list) = XMasks(l) \cup {mask}
    <3>1. DOMAIN l = 1..Len(l) /\ Len(l) \in Nat
      BY <1>2 DEF l
    <3>2. \A k : k \in XMasks(T.list) <=> k \in XMasks(l) \cup {mask}
      <4>1. ASSUME NEW x \in DOMAIN T.list PROVE T.list[x].mask \in XMasks(l) \cup {mask}
        <5>1. CASE x = Len(l) + 1
          BY <2>2, <2>3, <5>1
        <5>2. CASE x # Len(l) + 1
          BY <2>3, <3>1, <5>2 DEF XMasks
        <5>. QED
          BY <5>1, <5>2
      <4>2. ASSUME NEW x \in DOMAIN l PROVE l[x].mask \in XMasks(T.list)
        <5>1. x \in DOMAIN T.list /\ T.list[x] = l[x]
          BY <2>3, <3>1
        <5>. QED
          BY <5>1 DEF XMasks
      <4>3. mask \in XMasks(T.list)
        <5>1. Len(l) + 1 \in DOMAIN T.list /\ T.list[Len(l) + 1] = e
          BY <2>3, <3>1
        <5>. QED
          BY <2>2, <5>1 DEF XMasks
      <4>. QED
        BY <4>1, <4>2, <4>3 DEF XMasks
    <3>. QED
      BY <3>2
  <2>9. XForce(R.S) => XForce(T)
    BY <2>1, <2>8 DEF XForce, l
  <2>. QED
    BY <1>1, <1>3, <2>5, <2>6, <2>7, <2>9 DEF XNext, XGood, T
<1>. QED
  BY <1>4, <1>5

\* Zero is among the times that are compared.
XZero(S, mask, expires) ==
    \E i \in DOMAIN S.list :
        IF expires = 0 THEN S.list[i].expires # 0 /\ XCovers(S.list[i].mask, mask)
        ELSE S.list[i].expires = 0 /\ XCovers(mask, S.list[i].mask)

\* Some entry of T does the work of S.list[i] at least as long.
XWorks(S, i, T) ==
    \E x \in DOMAIN T.list : /\ XHits[S.list[i].mask] \subseteq XHits[T.list[x].mask]
                             /\ EndsNoSooner(T.list[x], S.list[i])

LEMMA XProtects ==
  ASSUME NEW S, XGood(S), NEW mask \in XMask, NEW expires \in Nat, NEW R, NEW T,
         XScanned(S, mask, expires, Longer(S, expires), Shorter(S, expires), 0, R),
         XAdds(R, mask, expires, T), ~XZero(S, mask, expires), NEW i \in DOMAIN S.list
  PROVE  XWorks(S, i, T)
<1> DEFINE l == R.S.list
           e == S.list[i]
           new == [mask |-> mask, expires |-> expires]
           longer == Longer(S, expires)
           shorter == Shorter(S, expires)
<1>1. S \in XState /\ R.S \in XState /\ XFits(S.list)
  BY DEF XScanned, XNext, XGood
<1>2. /\ DOMAIN l = 1..Len(l) /\ Len(l) \in Nat /\ l \in Seq(Entries)
      /\ DOMAIN S.list = 1..Len(S.list) /\ Len(S.list) \in Nat
      /\ \A j \in DOMAIN S.list : S.list[j].expires \in Nat
  BY <1>1, XIs
<1>3. \A x \in DOMAIN l : x \in DOMAIN T.list /\ T.list[x] = l[x]
  <2>1. CASE T = R.S
    BY <2>1
  <2>2. CASE T.list = Append(l, new)
    <3>1. new \in Entries
      BY DEF Entries
    <3>2. DOMAIN T.list = 1..(Len(l) + 1) /\ \A x \in 1..Len(l) : T.list[x] = l[x]
      BY <1>2, <2>2, <3>1
    <3>. QED
      BY <1>2, <3>2
  <2>. QED
    BY <2>1, <2>2 DEF XAdds
<1> HIDE DEF l, new
<1>4. ASSUME NEW x \in DOMAIN l, XHits[e.mask] \subseteq XHits[l[x].mask], EndsNoSooner(l[x], e)
      PROVE  XWorks(S, i, T)
  BY <1>3, <1>4 DEF XWorks
<1>5. CASE \E x \in DOMAIN l : l[x] = e
  <2>1. EndsNoSooner(e, e)
    BY <1>2 DEF EndsNoSooner
  <2>. QED
    BY <1>4, <1>5, <2>1
<1>6. CASE ~\E x \in DOMAIN l : l[x] = e
  <2>1. XCovers(mask, e.mask) /\ Outlasted(e, expires)
    <3>1. XGone(S, mask, expires, shorter, i)
      BY <1>6 DEF XScanned, XStays, l
    <3>. QED
      BY <3>1 DEF XGone, Shorter
  <2>2. EndsNoSooner(new, e)
    <3>1. new.expires = expires
      BY DEF new
    <3>2. expires # 0 => e.expires # 0
      BY <2>1 DEF XZero
    <3>. QED
      BY <1>2, <2>1, <3>1, <3>2 DEF EndsNoSooner, Outlasted
  <2>3. XHits[e.mask] \subseteq XHits[new.mask]
    BY <2>1 DEF XCovers, new
  <2>4. CASE R.res = "refused"
    <3>1. PICK j \in DOMAIN S.list, x \in DOMAIN l :
              /\ l[x] = S.list[j] /\ XCovers(S.list[j].mask, mask)
              /\ j \in longer \/ Outlasts(S.list[j], expires)
      <4>1. XRefused(S, mask, expires, longer, l)
        BY <2>4 DEF XScanned, l
      <4>. QED
        BY <4>1 DEF XRefused
    <3>2. Outlasts(S.list[j], expires)
      BY <3>1 DEF Longer
    <3>3. EndsNoSooner(S.list[j], e)
      <4>1. CASE expires = 0
        BY <3>1, <4>1 DEF XZero, EndsNoSooner
      <4>2. CASE expires # 0
        <5>1. e.expires # 0 /\ e.expires <= expires
          BY <2>1, <4>2 DEF XZero, Outlasted
        <5>. QED
          BY <1>2, <3>2, <5>1 DEF EndsNoSooner, Outlasts
      <4>. QED
        BY <4>1, <4>2
    <3>4. XHits[e.mask] \subseteq XHits[l[x].mask]
      BY <2>1, <3>1 DEF XCovers
    <3>. QED
      BY <1>4, <3>1, <3>3, <3>4
  <2>5. CASE R.res = "changed"
    <3>1. PICK x \in DOMAIN l : l[x] = new
      <4>1. XChanged(S, mask, expires, l)
        BY <2>5 DEF XScanned, l
      <4>. QED
        BY <4>1 DEF XChanged, new
    <3>. QED
      BY <1>4, <2>2, <2>3, <3>1
  <2>6. CASE R.res = "go"
    <3>1. l = S.list \/ Len(l) < Len(S.list)
      BY <2>6 DEF XScanned, l
    <3>2. l # S.list
      BY <1>6
    <3>3. ~SlistFull(l, XLimit)
      BY <1>1, <1>2, <3>1, <3>2, XLimitAssumption DEF SlistFull, XFits
    <3>4. T.list = Append(l, new)
      BY <2>6, <3>3 DEF XAdds, l, new
    <3>5. Len(l) + 1 \in DOMAIN T.list /\ T.list[Len(l) + 1] = new
      <4>1. new \in Entries
        BY DEF Entries, new
      <4>2. l \in Seq(Entries) /\ Len(l) \in Nat
        BY <1>2 DEF l
      <4>. QED
        BY <3>4, <4>1, <4>2
    <3>. QED
      BY <2>2, <2>3, <3>5 DEF XWorks
  <2>7. R.res \in {"go", "refused", "changed"}
    BY DEF XScanned
  <2>. QED
    BY <2>4, <2>5, <2>6, <2>7
<1>. QED
  BY <1>5, <1>6

\* What each of the four routines makes of S.
XAdded(S, mask, expires, T) ==
    /\ XNext(S, T)
    /\ xKind # "szline" /\ ~XZero(S, mask, expires) => \A i \in DOMAIN S.list : XWorks(S, i, T)

LEMMA XAddsAll ==
  ASSUME NEW S, XGood(S), NEW mask \in XMask, NEW expires \in Nat
  PROVE  /\ xKind = "akill" => XAdded(S, mask, expires, AddAkill(S, mask, expires))
         /\ xKind = "sgline" => XAdded(S, mask, expires, AddSgline(S, mask, expires))
         /\ xKind = "sqline" => XAdded(S, mask, expires, AddSqline(S, mask, expires))
         /\ xKind = "szline" => XAdded(S, mask, expires, AddSzline(S, mask, expires))
<1> DEFINE all == DOMAIN S.list
           same == {i \in all : (S.list[i].mask \in XChanMask) = (mask \in XChanMask)}
           Did(seen, longer, shorter) == Scan(S, mask, expires, seen, longer, shorter)
<1>1. ASSUME NEW seen, NEW longer, NEW shorter, NEW sent \in BOOLEAN, xKind # "akill" => sent,
             \A j \in all : S.list[j].mask = mask => j \in seen,
             xKind # "szline" => longer = Longer(S, expires) /\ shorter = Shorter(S, expires)
      PROVE  XAdded(S, mask, expires, Enter(Did(seen, longer, shorter), mask, expires, sent))
  <2> DEFINE R == Did(seen, longer, shorter)
             T == Enter(R, mask, expires, sent)
  <2>1. XScanned(S, mask, expires, longer, shorter, 0, R)
    BY <1>1, XScans
  <2> HIDE DEF R
  <2>2. XNext(S, T) /\ XAdds(R, mask, expires, T)
    BY <1>1, <2>1, XEnters
  <2> HIDE DEF T
  <2>3. ASSUME xKind # "szline", ~XZero(S, mask, expires), NEW i \in DOMAIN S.list
        PROVE  XWorks(S, i, T)
    BY <1>1, <2>1, <2>2, <2>3, XProtects
  <2>4. XAdded(S, mask, expires, T)
    BY <2>2, <2>3 DEF XAdded
  <2>. QED
    BY <2>4 DEF T, R
<1>2. \A j \in all : S.list[j].mask = mask => j \in same
  OBVIOUS
<1> DEFINE Done(seen, longer, shorter, sent) == Enter(Did(seen, longer, shorter), mask, expires, sent)
           longs == Longer(S, expires)
           shorts == Shorter(S, expires)
<1>3. /\ AddAkill(S, mask, expires) = Done(all, longs, shorts, AkillOnAdd)
      /\ AddSgline(S, mask, expires) = Done(all, longs, shorts, TRUE)
      /\ AddSqline(S, mask, expires) = Done(same, longs, shorts, TRUE)
      /\ AddSzline(S, mask, expires) = Done(all, all, all, TRUE)
  BY Zenon DEF AddAkill, AddSgline, AddSqline, AddSzline
<1> HIDE DEF longs, shorts
<1> HIDE DEF Did
<1>4. xKind = "akill" => XAdded(S, mask, expires, Done(all, longs, shorts, AkillOnAdd))
  BY <1>1, XSettingAssumption DEF longs, shorts
<1>5. xKind = "sgline" => XAdded(S, mask, expires, Done(all, longs, shorts, TRUE))
  BY <1>1 DEF longs, shorts
<1>6. xKind = "sqline" => XAdded(S, mask, expires, Done(same, longs, shorts, TRUE))
  BY <1>1, <1>2 DEF longs, shorts
<1>7. xKind = "szline" => XAdded(S, mask, expires, Done(all, all, all, TRUE))
  BY <1>1
<1>. QED
  BY <1>3, <1>4, <1>5, <1>6, <1>7

LEMMA XSends ==
  ASSUME NEW S, XGood(S), NEW target, NEW masks
  PROVE  XNext(S, SendMatching(S, target, masks))
<1> DEFINE at == {j \in DOMAIN S.list : target \in XHits[S.list[j].mask] /\ S.list[j].mask \in masks}
           i == SlistIndexOf(at)
           T == SendMatching(S, target, masks)
<1>1. S \in XState
  BY DEF XGood
<1>2. /\ S.list \in Seq(Entries) /\ S.bans \subseteq XMask /\ S = [list |-> S.list, bans |-> S.bans]
      /\ DOMAIN S.list = 1..Len(S.list) /\ Len(S.list) \in Nat
      /\ \A j \in DOMAIN S.list : S.list[j].mask \in XMask
  BY <1>1, XIs
<1>3. T = IF i = 0 THEN S ELSE Send(S, S.list[i].mask)
  BY Zenon DEF SendMatching
<1>4. at \subseteq Nat \ {0}
  BY <1>2
<1> HIDE DEF T
<1>5. IF at = {} THEN i = 0 ELSE i \in at
  BY <1>4, SlIndex
<1>6. at \subseteq DOMAIN S.list
  OBVIOUS
<1> HIDE DEF i, at
<1>7. XNext(S, S)
  BY XNextIs
<1>8. ASSUME i \in DOMAIN S.list PROVE XNext(S, Send(S, S.list[i].mask))
  <2> DEFINE b == S.bans \cup {S.list[i].mask}
             Q == Send(S, S.list[i].mask)
  <2>1. Q = [S EXCEPT !.bans = b]
    BY DEF Send
  <2> HIDE DEF b
  <2>2. [S EXCEPT !.bans = b] = [list |-> S.list, bans |-> b]
    BY <1>2, XPuts
  <2> HIDE DEF Q
  <2>3. Q.list = S.list /\ Q.bans = b /\ Q = [list |-> S.list, bans |-> b]
    BY <2>1, <2>2
  <2>4. b \subseteq XMask
    BY <1>2, <1>8 DEF b
  <2>5. Q \in XState
    BY <1>2, <2>3, <2>4 DEF XState
  <2>6. XGood(Q)
    BY <2>3, <2>5 DEF XGood
  <2>7. S.list[i].mask \in XMasks(S.list)
    BY <1>8 DEF XMasks
  <2>8. XForce(S) => XForce(Q)
    BY <2>3, <2>7 DEF XForce, b
  <2>. QED
    BY <2>6, <2>8 DEF XNext, Q
<1>. QED
  BY <1>3, <1>5, <1>6, <1>7, <1>8 DEF T

LEMMA XDeletesRange ==
  ASSUME NEW S, XGood(S), NEW range \in XRanges
  PROVE  /\ XNext(S, DeleteRange(S, range))
         /\ DeleteRange(S, range).list = SlistDeleteRange(S.list, range)
         /\ SlKeeps(Entries, S.list, DOMAIN S.list \ SlistEnum(S.list, range), SlistDeleteRange(S.list, range))
<1> DEFINE kept == DOMAIN S.list \ SlistEnum(S.list, range)
           left == SlistDeleteRange(S.list, range)
           gone == {S.list[i].mask : i \in SlistEnum(S.list, range)}
<1>1. S \in XState
  BY DEF XGood
<1>2. S.list \in Seq(Entries)
  BY <1>1, XIs
<1>3. range \in Seq(Nat \X Nat)
  <2>1. \A p \in (0..XLimit) \X (1..XLimit) : <<p>> \in Seq(Nat \X Nat)
    BY XLimitAssumption
  <2>2. \A i \in 1..(XLimit - 1) : <<<<i, i>>, <<i + 1, i + 1>>>> \in Seq(Nat \X Nat)
    BY XLimitAssumption
  <2>. QED
    BY <2>1, <2>2 DEF XRanges
<1>4. SlKeeps(Entries, S.list, kept, left)
  BY <1>2, <1>3, SlDeletes
<1>5. SlHas(Entries, S.list, kept, left)
  BY <1>4 DEF SlKeeps
<1>6. SlistEnum(S.list, range) = DOMAIN S.list \ kept
  BY DEF SlistEnum, RangeOf
<1>7. gone = {S.list[i].mask : i \in DOMAIN S.list \ kept}
  BY <1>6
<1>8. DeleteRange(S, range) = [list |-> left, bans |-> S.bans \ gone]
  BY DEF DeleteRange
<1> HIDE DEF left, gone, kept
<1>9. kept \subseteq DOMAIN S.list
  BY DEF kept
<1>10. XNext(S, [list |-> left, bans |-> S.bans \ gone])
  BY <1>5, <1>7, <1>9, XDrops
<1>11. DeleteRange(S, range).list = left
  BY <1>8
<1>12. XNext(S, DeleteRange(S, range))
  BY <1>8, <1>10
<1>. QED
  BY <1>4, <1>11, <1>12 DEF left, kept

LEMMA XDeletesMask ==
  ASSUME NEW S, XGood(S), NEW mask
  PROVE  XNext(S, DeleteMask(S, mask))
<1> DEFINE at == {j \in DOMAIN S.list : S.list[j].mask = mask}
           i == SlistIndexOf(at)
           T == DeleteMask(S, mask)
<1>1. S \in XState
  BY DEF XGood
<1>2. DOMAIN S.list = 1..Len(S.list) /\ Len(S.list) \in Nat
  BY <1>1, XIs
<1>3. T = IF i = 0 THEN S ELSE DeleteEntry(S, i)
  BY Zenon DEF DeleteMask
<1>4. at \subseteq Nat \ {0} /\ at \subseteq DOMAIN S.list
  BY <1>2
<1> HIDE DEF T
<1>5. IF at = {} THEN i = 0 ELSE i \in at
  BY <1>4, SlIndex
<1> HIDE DEF i, at
<1>6. XNext(S, S)
  BY XNextIs
<1>7. i \in DOMAIN S.list => XNext(S, DeleteEntry(S, i))
  BY XDeletes
<1>. QED
  BY <1>3, <1>4, <1>5, <1>6, <1>7 DEF T

LEMMA XClears ==
  ASSUME NEW S, XGood(S)
  PROVE  XNext(S, [list |-> <<>>, bans |-> S.bans \ {S.list[i].mask : i \in DOMAIN S.list}])
<1> DEFINE b == S.bans \ {S.list[i].mask : i \in DOMAIN S.list}
<1>1. S \in XState
  BY DEF XGood
<1>2. S.list \in Seq(Entries) /\ Len(S.list) \in Nat /\ DOMAIN S.list = 1..Len(S.list)
  BY <1>1, XIs
<1>3. /\ <<>> \in Seq(Entries) /\ Len(<<>>) \in Nat /\ DOMAIN <<>> = 1..Len(<<>>) /\ Len(<<>>) = 0
      /\ \A x \in DOMAIN <<>> : FALSE
  OBVIOUS
<1>4. {} # DOMAIN S.list => 0 < Len(S.list)
  BY <1>2
<1>5. SlHas(Entries, S.list, {}, <<>>)
  BY <1>2, <1>3, <1>4 DEF SlHas
<1>6. b = S.bans \ {S.list[i].mask : i \in DOMAIN S.list \ {}}
  OBVIOUS
<1> HIDE DEF b
<1>7. XNext(S, [list |-> <<>>, bans |-> b])
  BY <1>5, <1>6, XDrops
<1>. QED
  BY <1>7 DEF b

\* What keeps XNext in each turn of a loop keeps it.
LEMMA XLoops ==
  ASSUME NEW a, NEW S, XGood(S), NEW n \in Nat, NEW f, Turns(a, S, n, f),
         \A k \in 1..n : \A T : XNext(S, T) => XNext(T, Turn(a, T, k))
  PROVE  XNext(S, f[n])
<1>1. f[0] = S /\ \A k \in Nat : k < n => f[k + 1] = Turn(a, f[k], k + 1)
  BY DEF Turns
<1> DEFINE P == {k \in Nat : k <= n => XNext(S, f[k])}
<1>2. 0 \in P
  BY <1>1, XNextIs
<1>3. ASSUME NEW k \in Nat, k \in P PROVE k + 1 \in P
  <2>1. SUFFICES ASSUME k + 1 <= n PROVE XNext(S, f[k + 1])
    OBVIOUS
  <2>2. XNext(S, f[k]) /\ k + 1 \in 1..n /\ k < n
    BY <1>3, <2>1
  <2>3. XNext(f[k], Turn(a, f[k], k + 1)) /\ f[k + 1] = Turn(a, f[k], k + 1)
    BY <1>1, <2>2
  <2>. QED
    BY <2>2, <2>3, XNextIs
<1> HIDE DEF P
<1>4. n \in P
  BY <1>2, <1>3, NatInd
<1>. QED
  BY <1>4 DEF P

LEMMA XExpires ==
  ASSUME NEW S, XGood(S)
  PROVE  XNext(S, Expired(S))
<1> DEFINE n == Len(S.list)
           s == [i \in 1..n |-> n + 1 - i]
           a == [fold |-> "expire", list |-> s, now |-> xNow]
           it == CHOOSE g : g = [t \in SUBSET DOMAIN s |->
                     IF t = {} THEN S ELSE XExpire(xNow, g[t \ {Max(t)}], s[Max(t)])]
<1>0. S \in XState
  BY DEF XGood
<1>1. Expired(S) = it[DOMAIN s]
  BY Zenon DEF Expired, FoldLeft, MapThenFoldSet, XExpire
<1>2. DOMAIN s = 1..n /\ n \in Nat /\ \A i \in 1..n : s[i] \in 1..n
  BY <1>0, XIs
<1>3. \A w, i : Turn(a, w, i) = XExpire(xNow, w, s[i])
  BY DEF Turn
<1>a. \A k \in Nat : k < n => s[k + 1] = n - k /\ n - k \in 1..n
  BY <1>2
<1> HIDE DEF a, s
<1>4. PICK g : IsFold(a, S, 1..n, g)
  BY <1>2, FoldExists
<1>5. g = [t \in SUBSET DOMAIN s |-> IF t = {} THEN S ELSE XExpire(xNow, g[t \ {Max(t)}], s[Max(t)])]
  BY <1>2, <1>3, <1>4 DEF IsFold
<1>6. it = [t \in SUBSET DOMAIN s |-> IF t = {} THEN S ELSE XExpire(xNow, it[t \ {Max(t)}], s[Max(t)])]
  BY <1>5
<1> HIDE DEF it
<1>7. IsFold(a, S, 1..n, it)
  BY <1>2, <1>3, <1>6 DEF IsFold
<1>8. PICK f : Turns(a, S, n, f) /\ f[n] = it[1..n]
  BY <1>2, <1>7, FoldTurns
<1>9. f[0] = S /\ \A k \in Nat : k < n => f[k + 1] = XExpire(xNow, f[k], n - k)
  BY <1>3, <1>8, <1>a DEF Turns
<1> DEFINE P == {k \in Nat : k <= n => XNext(S, f[k]) /\ n - k <= Len(f[k].list)}
<1>10. 0 \in P
  BY <1>2, <1>9, XNextIs
<1>11. ASSUME NEW k \in Nat, k \in P PROVE k + 1 \in P
  <2> DEFINE R == f[k]
             i == n - k
             D == DeleteEntry(R, i)
  <2>1. SUFFICES ASSUME k + 1 <= n PROVE XNext(S, f[k + 1]) /\ n - (k + 1) <= Len(f[k + 1].list)
    OBVIOUS
  <2>2. XNext(S, R) /\ n - k <= Len(R.list) /\ n - k \in Nat /\ n - k \in 1..n /\ k < n
    BY <1>2, <1>11, <1>a, <2>1
  <2>3. XGood(R) /\ R \in XState
    BY <2>2 DEF XNext, XGood
  <2>4. R.list \in Seq(Entries) /\ Len(R.list) \in Nat /\ DOMAIN R.list = 1..Len(R.list)
    BY <2>3, XIs
  <2>5. i \in DOMAIN R.list
    BY <1>2, <2>2, <2>4
  <2>6. XNext(R, D) /\ D.list = SlistDelete(R.list, i)
    BY <2>3, <2>5, XDeletes
  <2>7. Len(D.list) = Len(R.list) - 1
    <3> DEFINE l == R.list
    <3>1. l \in Seq(Entries) /\ i \in DOMAIN l
      BY <2>4, <2>5
    <3> HIDE DEF l, i
    <3>2. Len(SlistDelete(l, i)) = Len(l) - 1
      BY <3>1, SlDeletesOne
    <3>. QED
      BY <2>6, <3>2 DEF l
  <2>8. f[k + 1] = R \/ f[k + 1] = D
    BY <1>9, <2>2 DEF XExpire
  <2>9. XNext(S, D)
    BY <2>2, <2>6, XNextIs
  <2> HIDE DEF D, R
  <2>10. n - (k + 1) <= Len(R.list) /\ n - (k + 1) <= Len(D.list)
    <3>1. \A x \in Nat : n - k <= x => n - (k + 1) <= x /\ n - (k + 1) <= x - 1
      BY <1>2
    <3>. QED
      BY <2>2, <2>4, <2>7, <3>1
  <2>. QED
    BY <2>2, <2>8, <2>9, <2>10 DEF R
<1> HIDE DEF P
<1>12. n \in P
  BY <1>2, <1>10, <1>11, NatInd
<1>13. XNext(S, f[n])
  BY <1>2, <1>12 DEF P
<1>. QED
  BY <1>1, <1>2, <1>8, <1>13

\* Who is on the channel when it is killed.
LEMMA XKills ==
  ASSUME NEW S, XGood(S), xKind = "akill", NEW hosts \in Seq(XMask), NEW until \in Nat
  PROVE  LET One(T, h) == CheckAkill(AddAkill(T, h, until), CHOOSE t \in XHits[h] : TRUE)
         IN  XNext(S, FoldLeft(One, S, hosts))
<1> DEFINE n == Len(hosts)
           a == [fold |-> "chankill", list |-> hosts, until |-> until]
           One(T, h) == CheckAkill(AddAkill(T, h, until), CHOOSE t \in XHits[h] : TRUE)
           it == CHOOSE g : g = [t \in SUBSET DOMAIN hosts |->
                     IF t = {} THEN S ELSE XChanKill(until, g[t \ {Max(t)}], hosts[Max(t)])]
<1>1. FoldLeft(One, S, hosts) = it[DOMAIN hosts]
  BY Zenon DEF FoldLeft, MapThenFoldSet, XChanKill
<1>2. DOMAIN hosts = 1..n /\ n \in Nat /\ \A i \in 1..n : hosts[i] \in XMask
  OBVIOUS
<1>3. \A w, i : Turn(a, w, i) = XChanKill(until, w, hosts[i])
  BY DEF Turn
<1> HIDE DEF a, n
<1>4. PICK g : IsFold(a, S, 1..n, g)
  BY <1>2, FoldExists
<1>5. g = [t \in SUBSET DOMAIN hosts |-> IF t = {} THEN S ELSE XChanKill(until, g[t \ {Max(t)}], hosts[Max(t)])]
  BY <1>2, <1>3, <1>4 DEF IsFold
<1>6. it = [t \in SUBSET DOMAIN hosts |-> IF t = {} THEN S ELSE XChanKill(until, it[t \ {Max(t)}], hosts[Max(t)])]
  BY <1>5
<1> HIDE DEF it
<1>7. IsFold(a, S, 1..n, it)
  BY <1>2, <1>3, <1>6 DEF IsFold
<1>8. PICK f : Turns(a, S, n, f) /\ f[n] = it[1..n]
  BY <1>2, <1>7, FoldTurns
<1>9. ASSUME NEW k \in 1..n, NEW T, XNext(S, T) PROVE XNext(T, Turn(a, T, k))
  <2> DEFINE h == hosts[k]
             A == AddAkill(T, h, until)
             target == CHOOSE t \in XHits[h] : TRUE
  <2>1. h \in XMask /\ XGood(T)
    BY <1>2, <1>9 DEF XNext
  <2>2. XAdded(T, h, until, A)
    BY <2>1, XAddsAll
  <2>3. XNext(T, A) /\ XGood(A)
    BY <2>2 DEF XAdded, XNext
  <2> HIDE DEF A, h
  <2>4. XNext(A, CheckAkill(A, target))
    BY <2>3, XSends DEF CheckAkill
  <2>5. XNext(T, CheckAkill(A, target))
    BY <2>1, <2>3, <2>4, XNextIs
  <2>6. Turn(a, T, k) = CheckAkill(A, target)
    BY <1>3 DEF A, h, XChanKill
  <2>. QED
    BY <2>5, <2>6
<1>10. XNext(S, f[n])
  BY <1>2, <1>8, <1>9, XLoops
<1>. QED
  BY <1>1, <1>2, <1>8, <1>10

\* One step of the list of xKind.
XlStep == ListInForce => (ListInForce' \/ XlineCrash)

LEMMA XForceIs == ListInForce <=> XForce(X)
<1>1. X.list = xList /\ X.bans = xBans
  BY DEF X
<1>. QED
  BY <1>1 DEF ListInForce, ListMasks, XForce, XMasks

LEMMA XStarts == XlineInit => XInv
<1> SUFFICES ASSUME XlineInit PROVE XInv
  OBVIOUS
<1>1. xList = <<>> /\ xFile = <<>> /\ xBans = {} /\ xNow = 0 /\ xKind \in XKinds
  BY DEF XlineInit
<1>2. X = [list |-> <<>>, bans |-> {}]
  BY <1>1 DEF X
<1>3. <<>> \in Seq(Entries) /\ Len(<<>>) = 0 /\ \A x \in DOMAIN <<>> : FALSE
  OBVIOUS
<1>4. XOnce(<<>>) /\ XFits(<<>>)
  BY <1>3, XLimitAssumption DEF XOnce, XFits
<1>5. X \in XState
  BY <1>2, <1>3 DEF XState
<1>6. XGood(X)
  BY <1>2, <1>4, <1>5 DEF XGood
<1>. QED
  BY <1>1, <1>3, <1>4, <1>6 DEF XInv

LEMMA XBecomesGood ==
  ASSUME XInv, NEW T, XNext(X, T), XBecomes(T)
  PROVE  XInv' /\ (ListInForce => ListInForce')
<1>1. XGood(T) /\ (XForce(X) => XForce(T))
  BY DEF XNext
<1>2. T = [list |-> T.list, bans |-> T.bans]
  BY <1>1 DEF XGood, XState
<1>3. X' = T
  BY <1>2 DEF XBecomes, X
<1>4. xKind' = xKind /\ xFile' = xFile /\ xNow' = xNow
  BY DEF XBecomes
<1>5. XGood(X')
  BY <1>1, <1>3
<1>6. XInv'
  BY <1>4, <1>5 DEF XInv, XGood, XOnce, XFits
<1>7. ListInForce' <=> XForce(T)
  <2>1. X'.list = xList' /\ X'.bans = xBans'
    BY DEF X
  <2>. QED
    BY <1>3, <1>4, <2>1 DEF ListInForce, ListMasks, XForce, XMasks
<1>. QED
  BY <1>1, <1>6, <1>7, XForceIs

LEMMA XUntil ==
  ASSUME XInv, NEW e \in XExpiries
  PROVE  Until(e) \in Nat /\ (Until(e) = 0 <=> e = 0)
BY XLimitAssumption DEF XInv, Until

LEMMA XEnteredAll ==
  ASSUME XInv, NEW k \in XMask, NEW e \in XExpiries
  PROVE  XAdded(X, k, Until(e), Entered(k, e))
<1>1. XGood(X) /\ Until(e) \in Nat /\ xKind \in {"akill", "sgline", "sqline", "szline"}
  BY XUntil, XKindsAssumption DEF XInv
<1>2. /\ xKind = "akill" => XAdded(X, k, Until(e), AddAkill(X, k, Until(e)))
      /\ xKind = "sgline" => XAdded(X, k, Until(e), AddSgline(X, k, Until(e)))
      /\ xKind = "sqline" => XAdded(X, k, Until(e), AddSqline(X, k, Until(e)))
      /\ xKind = "szline" => XAdded(X, k, Until(e), AddSzline(X, k, Until(e)))
  BY <1>1, XAddsAll
<1>. QED
  BY <1>1, <1>2 DEF Entered

LEMMA XSteps ==
  ASSUME XInv, [XlineNext]_xlineVars
  PROVE  XInv' /\ (ListInForce => (ListInForce' \/ XlineCrash \/ UNCHANGED xlineVars))
<1> DEFINE Goal == XInv' /\ (ListInForce => (ListInForce' \/ XlineCrash \/ UNCHANGED xlineVars))
<1>0. XGood(X) /\ X \in XState /\ X.list = xList /\ X.bans = xBans
  BY DEF XInv, XGood, X
<1>a. ASSUME NEW T, XNext(X, T), XBecomes(T) PROVE Goal
  BY <1>a, XBecomesGood
<1>b. XInv
  OBVIOUS
<1> HIDE DEF Goal
<1>1. ASSUME NEW k \in XMask, NEW e \in XExpiries, XlineAdd(k, e) PROVE Goal
  <2>1. XBecomes(Entered(k, e))
    BY <1>1 DEF XlineAdd, AkillAdd, SglineAdd, SqlineAdd, SzlineAdd, AddTo
  <2>2. XNext(X, Entered(k, e))
    BY <1>1, <1>b, XEnteredAll DEF XAdded
  <2>. QED
    BY <1>a, <2>1, <2>2
<1>2. ASSUME XlineDel PROVE Goal
  <2>1. PICK k : DelAny(k)
    BY <1>2 DEF XlineDel, AkillDel, SglineDel, SqlineDel, SzlineDel
  <2>2. ASSUME NEW r \in XRanges, DelRange(k, r) PROVE Goal
    <3>1. XNext(X, DeleteRange(X, r))
      BY <1>0, XDeletesRange
    <3>. QED
      BY <1>a, <2>2, <3>1 DEF DelRange
  <2>3. ASSUME NEW mask \in XMask, DelMask(k, mask) PROVE Goal
    <3>1. XNext(X, DeleteMask(X, mask))
      BY <1>0, XDeletesMask
    <3>. QED
      BY <1>a, <2>3, <3>1 DEF DelMask
  <2>. QED
    BY <2>1, <2>2, <2>3 DEF DelAny
<1>3. ASSUME XlineClear PROVE Goal
  <2> DEFINE T == [list |-> <<>>, bans |-> xBans \ {xList[i].mask : i \in DOMAIN xList}]
  <2>1. XNext(X, [list |-> <<>>, bans |-> X.bans \ {X.list[i].mask : i \in DOMAIN X.list}])
    BY <1>0, XClears
  <2>2. XNext(X, T)
    BY <1>0, <2>1
  <2>3. XBecomes(T)
    BY <1>3 DEF XlineClear
  <2> HIDE DEF T
  <2>. QED
    BY <1>a, <2>2, <2>3
<1>4. ASSUME NEW k \in Hosts1, NEW e \in XExpiries, KillClones(k, e) PROVE Goal
  <2>1. k \in XMask
    BY DEF Hosts1
  <2>2. XNext(X, AddAkill(X, k, Until(e)))
    BY <1>0, <1>4, <1>b, <2>1, XUntil, XAddsAll DEF XAdded, KillClones
  <2>. QED
    BY <1>a, <1>4, <2>2 DEF KillClones
<1>5. ASSUME NEW k1 \in Hosts1, NEW k2 \in Hosts1, NEW e \in XExpiries, ChanKill(<<k1, k2>>, e) PROVE Goal
  <2> DEFINE until == Until(e)
             hosts == <<k1, k2>>
             One(T, h) == CheckAkill(AddAkill(T, h, until), CHOOSE t \in XHits[h] : TRUE)
             T1 == FoldLeft(One, X, hosts)
  <2>1. hosts \in Seq(XMask)
    BY DEF Hosts1
  <2>2. until \in Nat
    BY <1>b, XUntil
  <2>3. xKind = "akill" /\ XBecomes(T1)
    BY <1>5, Zenon DEF ChanKill
  <2> HIDE DEF until, hosts
  <2>4. XNext(X, T1)
    BY <1>0, <2>1, <2>2, <2>3, XKills
  <2> HIDE DEF T1
  <2>. QED
    BY <1>a, <2>3, <2>4
<1>6. ASSUME NEW t \in XTarget, Arrive(t) PROVE Goal
  <2>1. PICK masks : XBecomes(SendMatching(X, t, masks))
    BY <1>6 DEF Arrive, CheckAkill, CheckSgline, CheckSqline, CheckChanSqline
  <2>2. XNext(X, SendMatching(X, t, masks))
    BY <1>0, XSends
  <2>. QED
    BY <1>a, <2>1, <2>2
<1>7. ASSUME XlineExpire PROVE Goal
  <2>1. XNext(X, Expired(X))
    BY <1>0, XExpires
  <2>2. XBecomes(Expired(X))
    BY <1>7 DEF XlineExpire, ExpireAkills, ExpireSglines, ExpireSqlines, ExpireSzlines
  <2>. QED
    BY <1>a, <2>1, <2>2
<1>8. ASSUME \/ XlineTick \/ XlineSave \/ UNCHANGED xlineVars PROVE Goal
  <2>1. xKind' = xKind /\ xList' = xList /\ xBans' = xBans
    BY <1>8 DEF XlineTick, XlineSave, xlineVars
  <2>2. xFile' = xFile \/ xFile' = xList
    BY <1>8 DEF XlineTick, XlineSave, xlineVars
  <2>3. xNow' \in Nat
    BY <1>8, <1>b DEF XlineTick, XlineSave, xlineVars, XInv
  <2>4. X' = X
    BY <2>1 DEF X
  <2>5. XGood(X')
    BY <1>0, <2>4
  <2>6. xFile' \in Seq(Entries) /\ XOnce(xFile') /\ XFits(xFile')
    BY <1>0, <1>b, <2>2 DEF XInv, XGood, XState
  <2>7. XInv'
    BY <1>b, <2>1, <2>3, <2>5, <2>6 DEF XInv, XGood, XOnce, XFits
  <2>8. ListInForce => ListInForce'
    BY <2>1 DEF ListInForce, ListMasks
  <2>. QED
    BY <2>7, <2>8 DEF Goal
<1>9. ASSUME XlineCrash PROVE Goal
  <2>1. xKind' = xKind /\ xList' = xFile /\ xBans' = xBans /\ xNow' = xNow /\ xFile' = xFile
    BY <1>9 DEF XlineCrash
  <2>2. X' = [list |-> xFile, bans |-> xBans]
    BY <2>1 DEF X
  <2>3. xFile \in Seq(Entries) /\ xBans \subseteq XMask /\ XOnce(xFile) /\ XFits(xFile)
    BY <1>0, <1>b DEF XInv, XState
  <2>4. X' \in XState
    BY <2>2, <2>3 DEF XState
  <2>5. XGood(X')
    BY <2>2, <2>3, <2>4 DEF XGood
  <2>6. XInv'
    BY <1>b, <2>1, <2>3, <2>5 DEF XInv, XGood, XOnce, XFits
  <2>. QED
    BY <1>9, <2>6 DEF Goal
<1>10. Goal
  BY <1>1, <1>2, <1>3, <1>4, <1>5, <1>6, <1>7, <1>8, <1>9 DEF XlineNext
<1>. QED
  BY <1>10 DEF Goal

LEMMA XDiverges ==
  ASSUME XInv, [XlineNext]_xlineVars
  PROVE  [XlStep]_xlineVars
BY XSteps DEF XlStep

LEMMA XKeepsOut == XInv => AddKeepsProtection
<1> SUFFICES ASSUME XInv, xKind # "szline", NEW k \in XMask, NEW e \in XExpiries, ~ZeroIsEarliest(k, e),
                    NEW t \in XTarget
             PROVE  StillKeptOut(Entered(k, e).list, t)
  BY DEF AddKeepsProtection
<1> DEFINE T == Entered(k, e)
<1>1. X.list = xList /\ X \in XState
  BY DEF X, XInv, XGood
<1>2. ~XZero(X, k, Until(e))
  BY <1>1, XUntil DEF XZero, ZeroIsEarliest
<1>3. XAdded(X, k, Until(e), T)
  BY XEnteredAll
<1> HIDE DEF T
<1>4. \A i \in DOMAIN xList : XWorks(X, i, T)
  BY <1>1, <1>2, <1>3 DEF XAdded
<1>5. StillKeptOut(T.list, t)
  <2> SUFFICES ASSUME NEW i \in DOMAIN xList, t \in XHits[xList[i].mask]
               PROVE  \E j \in DOMAIN T.list : t \in XHits[T.list[j].mask] /\ EndsNoSooner(T.list[j], xList[i])
    BY DEF StillKeptOut
  <2>1. XWorks(X, i, T)
    BY <1>4
  <2>. QED
    BY <1>1, <2>1 DEF XWorks
<1>. QED
  BY <1>5 DEF T

LEMMA XDelMatches == XInv => DelMatchesList
<1> SUFFICES ASSUME XInv, NEW r \in XRanges
             PROVE  LET left == DeleteRange(X, r).list
                        kept == DOMAIN xList \ ShownNumbers(r)
                    IN  /\ Len(left) = Cardinality(kept)
                        /\ \A i \in kept : left[Cardinality({j \in kept : j <= i})] = xList[i]
  BY DEF DelMatchesList
<1> DEFINE left == DeleteRange(X, r).list
           kept == DOMAIN xList \ ShownNumbers(r)
<1>1. X.list = xList /\ XGood(X)
  BY DEF X, XInv
<1>2. ShownNumbers(r) = SlistEnum(xList, r)
  BY XKindsAssumption DEF XInv, ShownNumbers, AkillShown, SglineShown, SqlineShown, SzlineShown
<1>3. /\ left = SlistDeleteRange(xList, r)
      /\ SlKeeps(Entries, xList, DOMAIN xList \ SlistEnum(xList, r), SlistDeleteRange(xList, r))
  BY <1>1, XDeletesRange
<1> HIDE DEF left
<1>4. SlKeeps(Entries, xList, kept, left)
  BY <1>2, <1>3
<1> HIDE DEF kept
<1>5. Len(left) = Cardinality(kept) /\ \A i \in kept : left[Cardinality({j \in kept : j <= i})] = xList[i]
  BY <1>4 DEF SlKeeps
<1>. QED
  BY <1>5 DEF left, kept

-----------------------------------------------------------------------------
(* Nick groups and the staff (Staff).                                      *)

StOnce(list) == \A i, j \in DOMAIN list : list[i] = list[j] => i = j
StFits(list) == StLimit = 0 \/ Len(list) <= StLimit

\* A list has another item, or one less, in whatever order.
LEMMA StAppends ==
  ASSUME NEW R, NEW list \in Seq(R), StOnce(list), NEW item \in R, item \notin ToSet(list)
  PROVE  /\ Append(list, item) \in Seq(R) /\ StOnce(Append(list, item))
         /\ ToSet(Append(list, item)) = ToSet(list) \cup {item}
<1> DEFINE left == Append(list, item)
           n == Len(list)
<1>1. n \in Nat /\ DOMAIN list = 1..n
  OBVIOUS
<1>2. left \in Seq(R) /\ DOMAIN left = 1..(n + 1) /\ \A x \in 1..(n + 1) : left[x] = IF x = n + 1 THEN item ELSE list[x]
  OBVIOUS
<1>3. \A x \in DOMAIN list : list[x] # item
  BY DEF ToSet
<1> HIDE DEF left, n
<1>4. \A x \in 1..(n + 1) : x = n + 1 \/ x \in DOMAIN list
  BY <1>1
<1>5. StOnce(left)
  BY <1>2, <1>3, <1>4 DEF StOnce
<1>6. \A y : y \in ToSet(left) <=> y \in ToSet(list) \cup {item}
  <2>1. ASSUME NEW x \in DOMAIN left PROVE left[x] \in ToSet(list) \cup {item}
    BY <1>2, <1>4 DEF ToSet
  <2>2. ASSUME NEW x \in DOMAIN list PROVE list[x] \in ToSet(left)
    <3>1. x \in DOMAIN left /\ left[x] = list[x]
      BY <1>1, <1>2
    <3>. QED
      BY <3>1 DEF ToSet
  <2>3. item \in ToSet(left)
    <3>1. n + 1 \in DOMAIN left /\ left[n + 1] = item
      BY <1>1, <1>2
    <3>. QED
      BY <3>1 DEF ToSet
  <2>. QED
    BY <2>1, <2>2, <2>3 DEF ToSet
<1>. QED
  BY <1>2, <1>5, <1>6 DEF left

StInserted(R, list, item, p, left) ==
    /\ left \in Seq(R) /\ Len(left) = Len(list) + 1 /\ DOMAIN left = 1..(Len(list) + 1)
    /\ \A x \in 1..(Len(list) + 1) :
           left[x] = IF x < p THEN list[x] ELSE IF x = p THEN item ELSE list[x - 1]

LEMMA StInsertIs ==
  ASSUME NEW R, NEW list \in Seq(R), NEW item \in R, NEW p \in DOMAIN list
  PROVE  StInserted(R, list, item, p, SubSeq(list, 1, p - 1) \o <<item>> \o SubSeq(list, p, Len(list)))
<1> DEFINE n == Len(list)
           a == SubSeq(list, 1, p - 1)
           b == SubSeq(list, p, n)
           m == <<item>>
           am == a \o m
           left == am \o b
<1>1. n \in Nat /\ p \in 1..n
  OBVIOUS
<1>2. a \in Seq(R) /\ Len(a) = p - 1 /\ \A x \in 1..(p - 1) : a[x] = list[x]
  BY <1>1
<1>3. b \in Seq(R) /\ Len(b) = n - p + 1 /\ \A x \in 1..(n - p + 1) : b[x] = list[p + x - 1]
  BY <1>1
<1>4. m \in Seq(R) /\ Len(m) = 1 /\ m[1] = item
  OBVIOUS
<1> HIDE DEF a, b, m, n
<1>5. am \in Seq(R) /\ Len(am) = p /\ \A x \in 1..p : am[x] = IF x < p THEN list[x] ELSE item
  <2>1. /\ a \o m \in Seq(R) /\ Len(a \o m) = Len(a) + Len(m)
        /\ \A x \in 1..(Len(a) + Len(m)) : (a \o m)[x] = IF x <= Len(a) THEN a[x] ELSE m[x - Len(a)]
    BY <1>2, <1>4, ConcatProperties
  <2>2. Len(a) + Len(m) = p /\ \A x \in 1..p : (x <= Len(a) <=> x < p) /\ (~(x < p) => x - Len(a) = 1)
    BY <1>1, <1>2, <1>4
  <2> HIDE DEF am
  <2>3. am \in Seq(R) /\ Len(am) = p /\ \A x \in 1..p : am[x] = IF x < p THEN a[x] ELSE m[1]
    BY <2>1, <2>2 DEF am
  <2>4. \A x \in 1..p : x < p => x \in 1..(p - 1)
    BY <1>1
  <2>. QED
    BY <1>2, <1>4, <2>3, <2>4
<1> HIDE DEF am
<1>6. left \in Seq(R) /\ Len(left) = n + 1 /\ DOMAIN left = 1..(n + 1)
      /\ \A x \in 1..(n + 1) : left[x] = IF x <= p THEN am[x] ELSE b[x - p]
  <2>1. /\ am \o b \in Seq(R) /\ Len(am \o b) = Len(am) + Len(b)
        /\ \A x \in 1..(Len(am) + Len(b)) : (am \o b)[x] = IF x <= Len(am) THEN am[x] ELSE b[x - Len(am)]
    BY <1>3, <1>5, ConcatProperties
  <2>2. Len(am) + Len(b) = n + 1 /\ Len(am) = p
    BY <1>1, <1>3, <1>5
  <2> HIDE DEF left
  <2>3. left \in Seq(R) /\ Len(left) = n + 1 /\ \A x \in 1..(n + 1) : left[x] = IF x <= p THEN am[x] ELSE b[x - p]
    BY <2>1, <2>2 DEF left
  <2>. QED
    BY <2>3
<1> HIDE DEF left
<1>7. \A x \in 1..(n + 1) : left[x] = IF x < p THEN list[x] ELSE IF x = p THEN item ELSE list[x - 1]
  <2> SUFFICES ASSUME NEW x \in 1..(n + 1)
               PROVE  left[x] = IF x < p THEN list[x] ELSE IF x = p THEN item ELSE list[x - 1]
    OBVIOUS
  <2>0. n \in Nat /\ p \in Nat /\ x \in Nat /\ 1 <= x /\ x <= n + 1
    BY <1>1
  <2>1. CASE x <= p
    <3>1. left[x] = am[x] /\ x \in 1..p
      BY <1>6, <2>0, <2>1
    <3>2. am[x] = IF x < p THEN list[x] ELSE item
      BY <1>5, <3>1
    <3>. QED
      BY <2>0, <2>1, <3>1, <3>2
  <2>2. CASE x > p
    <3>2. left[x] = b[x - p]
      BY <1>6, <2>0, <2>2
    <3>1. x - p \in 1..(n - p + 1) /\ p + (x - p) - 1 = x - 1
      BY <1>1, <2>2
    <3>3. b[x - p] = list[p + (x - p) - 1]
      BY <1>3, <3>1
    <3>4. b[x - p] = list[x - 1]
      BY <3>1, <3>3
    <3>. QED
      BY <2>0, <2>2, <3>2, <3>4
  <2>. QED
    BY <2>0, <2>1, <2>2
<1>. QED
  BY <1>6, <1>7 DEF a, b, m, n, am, left, StInserted

LEMMA StInserts ==
  ASSUME NEW R, NEW list \in Seq(R), StOnce(list), NEW item \in R, item \notin ToSet(list),
         NEW behind, behind \subseteq DOMAIN list, ~SlistFull(list, StLimit)
  PROVE  LET left == SlistAddSorted(list, StLimit, item, behind)
         IN  /\ left \in Seq(R) /\ StOnce(left) /\ Len(left) = Len(list) + 1 /\ StFits(left)
             /\ ToSet(left) = ToSet(list) \cup {item}
<1> DEFINE left == SlistAddSorted(list, StLimit, item, behind)
           p == SlistIndexOf(behind)
           n == Len(list)
<1>1. n \in Nat /\ DOMAIN list = 1..n /\ behind \subseteq Nat \ {0}
  OBVIOUS
<1>2. IF behind = {} THEN p = 0 ELSE p \in behind
  BY <1>1, SlIndex
<1>3. left = IF p = 0 THEN Append(list, item)
             ELSE SubSeq(list, 1, p - 1) \o <<item>> \o SubSeq(list, p, Len(list))
  BY Zenon DEF SlistAddSorted
<1> HIDE DEF left, p
<1>4. /\ left \in Seq(R) /\ StOnce(left) /\ Len(left) = n + 1
      /\ ToSet(left) = ToSet(list) \cup {item}
  <2>1. CASE p = 0
    <3>1. left = Append(list, item)
      BY <1>3, <2>1
    <3>2. Len(Append(list, item)) = n + 1
      OBVIOUS
    <3>. QED
      BY <3>1, <3>2, StAppends
  <2>2. CASE p # 0
    <3>1. p \in DOMAIN list
      BY <1>2, <2>2
    <3> DEFINE new == SubSeq(list, 1, p - 1) \o <<item>> \o SubSeq(list, p, Len(list))
    <3>2. /\ new \in Seq(R) /\ Len(new) = n + 1 /\ DOMAIN new = 1..(n + 1)
          /\ \A x \in 1..(n + 1) : new[x] = IF x < p THEN list[x] ELSE IF x = p THEN item ELSE list[x - 1]
      <4>1. StInserted(R, list, item, p, new)
        BY <3>1, StInsertIs
      <4>. QED
        BY <4>1 DEF StInserted
    <3>3. left = new
      BY <1>3, <2>2
    <3> HIDE DEF new
    <3>4. \A x \in DOMAIN list : list[x] # item
      BY DEF ToSet
    <3> DEFINE from(x) == IF x < p THEN x ELSE x - 1
    <3>5. \A x \in 1..(n + 1) : x # p => from(x) \in DOMAIN list /\ new[x] = list[from(x)]
      BY <1>1, <3>1, <3>2
    <3>6. \A x, y \in 1..(n + 1) : x # p /\ y # p /\ from(x) = from(y) => x = y
      BY <1>1, <3>1
    <3>7. new[p] = item /\ p \in 1..(n + 1)
      BY <1>1, <3>1, <3>2
    <3>8. \A x \in DOMAIN list : \E y \in 1..(n + 1) : y # p /\ from(y) = x
      <4> SUFFICES ASSUME NEW x \in DOMAIN list PROVE \E y \in 1..(n + 1) : y # p /\ from(y) = x
        OBVIOUS
      <4>1. CASE x < p
        <5>1. x \in 1..(n + 1) /\ x # p /\ from(x) = x
          BY <1>1, <3>1, <4>1
        <5>. QED
          BY <5>1
      <4>2. CASE ~(x < p)
        <5>1. x + 1 \in 1..(n + 1) /\ x + 1 # p /\ from(x + 1) = x
          BY <1>1, <3>1, <4>2
        <5>. QED
          BY <5>1
      <4>. QED
        BY <4>1, <4>2
    <3> HIDE DEF from
    <3>9. StOnce(new)
      <4> SUFFICES ASSUME NEW x \in 1..(n + 1), NEW y \in 1..(n + 1), new[x] = new[y] PROVE x = y
        BY <3>2 DEF StOnce
      <4>1. CASE x # p /\ y # p
        BY <3>5, <3>6, <4>1 DEF StOnce
      <4>2. CASE x = p \/ y = p
        BY <3>4, <3>5, <3>7, <4>2
      <4>. QED
        BY <4>1, <4>2
    <3>10. \A z : z \in ToSet(new) <=> z \in ToSet(list) \cup {item}
      <4>1. ASSUME NEW x \in 1..(n + 1) PROVE new[x] \in ToSet(list) \cup {item}
        BY <3>5, <3>7 DEF ToSet
      <4>2. ASSUME NEW x \in DOMAIN list PROVE \E y \in 1..(n + 1) : new[y] = list[x]
        BY <3>5, <3>8
      <4>3. \A z : z \in ToSet(new) <=> \E y \in 1..(n + 1) : z = new[y]
        BY <3>2 DEF ToSet
      <4>4. \A z : z \in ToSet(list) <=> \E x \in DOMAIN list : z = list[x]
        BY DEF ToSet
      <4>. QED
        BY <3>7, <4>1, <4>2, <4>3, <4>4
    <3>11. ToSet(new) = ToSet(list) \cup {item}
      BY <3>10
    <3>. QED
      BY <3>2, <3>3, <3>9, <3>11
  <2>. QED
    BY <2>1, <2>2
<1>5. StFits(left)
  BY <1>1, <1>4, StLimitAssumption DEF StFits, SlistFull
<1>. QED
  BY <1>4, <1>5 DEF left

\* Some places of a list without duplicates are kept.
LEMMA StKeeps ==
  ASSUME NEW R, NEW list \in Seq(R), StOnce(list), NEW kept, kept \subseteq DOMAIN list, NEW left,
         SlHas(R, list, kept, left)
  PROVE  /\ left \in Seq(R) /\ StOnce(left) /\ (StFits(list) => StFits(left))
         /\ ToSet(left) = ToSet(list) \ {list[i] : i \in DOMAIN list \ kept}
<1>1. /\ left \in Seq(R) /\ Len(left) \in Nat /\ Len(left) <= Len(list)
      /\ \A j \in kept : \E x \in DOMAIN left : left[x] = list[j]
      /\ \A x \in DOMAIN left : \E j \in kept : left[x] = list[j]
      /\ \A x, y \in DOMAIN left : x # y => \E i, j \in kept : i # j /\ left[x] = list[i] /\ left[y] = list[j]
  BY DEF SlHas
<1>2. StOnce(left)
  BY <1>1 DEF StOnce
<1>3. StFits(list) => StFits(left)
  <2>1. Len(list) \in Nat
    OBVIOUS
  <2>. QED
    BY <1>1, <2>1, StLimitAssumption DEF StFits
<1>4. \A y : y \in ToSet(left) <=> y \in ToSet(list) \ {list[i] : i \in DOMAIN list \ kept}
  <2>1. ASSUME NEW x \in DOMAIN left PROVE left[x] \in ToSet(list) \ {list[i] : i \in DOMAIN list \ kept}
    <3>1. PICK j \in kept : left[x] = list[j]
      BY <1>1
    <3>2. \A i \in DOMAIN list \ kept : list[i] # list[j]
      BY DEF StOnce
    <3>. QED
      BY <3>1, <3>2 DEF ToSet
  <2>2. ASSUME NEW y \in ToSet(list) \ {list[i] : i \in DOMAIN list \ kept} PROVE y \in ToSet(left)
    <3>1. PICK j \in DOMAIN list : y = list[j]
      BY <2>2 DEF ToSet
    <3>2. j \in kept
      BY <2>2, <3>1
    <3>. QED
      BY <1>1, <3>1, <3>2 DEF ToSet
  <2>. QED
    BY <2>1, <2>2 DEF ToSet
<1>. QED
  BY <1>1, <1>2, <1>3, <1>4

LEMMA StRemoves ==
  ASSUME NEW R, NEW list \in Seq(R), StOnce(list), NEW item
  PROVE  LET left == SlistRemove(list, item)
         IN  /\ left \in Seq(R) /\ StOnce(left) /\ (StFits(list) => StFits(left))
             /\ ToSet(left) = ToSet(list) \ {item}
<1> DEFINE left == SlistRemove(list, item)
           at == {j \in DOMAIN list : list[j] = item}
           i == SlistIndexOf(at)
<1>1. at \subseteq Nat \ {0} /\ at \subseteq DOMAIN list
  OBVIOUS
<1>2. IF at = {} THEN i = 0 ELSE i \in at
  BY <1>1, SlIndex
<1>3. left = IF i = 0 THEN list ELSE SlistDelete(list, i)
  BY Zenon DEF SlistRemove
<1>4. i \in at => i \in DOMAIN list /\ list[i] = item
  OBVIOUS
<1>5. at = {} => item \notin ToSet(list)
  BY DEF ToSet
<1>6. 0 \notin at
  BY <1>1
<1> HIDE DEF left, i, at
<1>7. CASE at = {}
  <2>1. left = list /\ ToSet(list) = ToSet(list) \ {item}
    BY <1>2, <1>3, <1>5, <1>7
  <2>. QED
    BY <2>1 DEF left
<1>8. CASE at # {}
  <2>1. i \in DOMAIN list /\ list[i] = item /\ left = SlistDelete(list, i)
    BY <1>2, <1>3, <1>4, <1>6, <1>8
  <2>2. SlHas(R, list, DOMAIN list \ {i}, left)
    BY <2>1, SlDeletesOne
  <2>3. {list[j] : j \in DOMAIN list \ (DOMAIN list \ {i})} = {item}
    BY <2>1
  <2>4. /\ left \in Seq(R) /\ StOnce(left) /\ (StFits(list) => StFits(left))
        /\ ToSet(left) = ToSet(list) \ {list[j] : j \in DOMAIN list \ (DOMAIN list \ {i})}
    BY <2>2, StKeeps
  <2>. QED
    BY <2>3, <2>4 DEF left
<1>. QED
  BY <1>7, <1>8

StHas(C, c, n) == C[c] # StNone /\ n \in ToSet(C[c].aliases)
StHolders(C, role) == {c \in StCore : C[c] # StNone /\ role \in C[c].flags}

\* Every nick is at one place in one group, and a group is displayed as one of its nicks.
StCores(C) ==
    /\ C \in [StCore -> NickCore \cup {StNone}]
    /\ \A c \in StCore : C[c] # StNone => StOnce(C[c].aliases) /\ C[c].display \in ToSet(C[c].aliases)
    /\ \A c, d \in StCore, n \in StNick : StHas(C, c, n) /\ StHas(C, d, n) => c = d

\* A staff list has who has the flag, once each.
StList(C, role, list) ==
    /\ list \in Seq(StCore) /\ StOnce(list) /\ StFits(list)
    /\ ToSet(list) = StHolders(C, role)

StGood(S) ==
    /\ S = [core |-> S.core, admins |-> S.admins, opers |-> S.opers]
    /\ StCores(S.core) /\ StList(S.core, "ADMIN", S.admins) /\ StList(S.core, "OPER", S.opers)

StInv == StGood(G)

StRooted(C) ==
    \A c \in StCore : C[c] # StNone /\ ~C[c].verboten =>
        (("ROOT" \in C[c].flags) <=> (ToSet(C[c].aliases) \cap StRoots # {}))

Flags == {"ROOT", "ADMIN", "OPER"}
StRecord(a, d, f, v) == [aliases |-> a, display |-> d, flags |-> f, verboten |-> v]

LEMMA StRecs ==
  ASSUME NEW a, NEW d, NEW f, NEW v, NEW x
  PROVE  /\ [StRecord(a, d, f, v) EXCEPT !.aliases = x] = StRecord(x, d, f, v)
         /\ [StRecord(a, d, f, v) EXCEPT !.display = x] = StRecord(a, x, f, v)
         /\ [StRecord(a, d, f, v) EXCEPT !.flags = x] = StRecord(a, d, x, v)
         /\ StRecord(a, d, f, v).aliases = a /\ StRecord(a, d, f, v).display = d
         /\ StRecord(a, d, f, v).flags = f /\ StRecord(a, d, f, v).verboten = v
BY DEF StRecord

LEMMA StPuts ==
  ASSUME NEW C, NEW A, NEW O, NEW x
  PROVE  LET S == [core |-> C, admins |-> A, opers |-> O] IN
         /\ [S EXCEPT !.core = x] = [core |-> x, admins |-> A, opers |-> O]
         /\ [S EXCEPT !.admins = x] = [core |-> C, admins |-> x, opers |-> O]
         /\ [S EXCEPT !.opers = x] = [core |-> C, admins |-> A, opers |-> x]
OBVIOUS

LEMMA StLive ==
  ASSUME NEW C, StCores(C), NEW c \in StCore, C[c] # StNone
  PROVE  LET r == C[c] IN
         /\ r \in NickCore /\ r = StRecord(r.aliases, r.display, r.flags, r.verboten)
         /\ r.aliases \in Seq(StNick) /\ r.display \in StNick /\ r.flags \subseteq Flags /\ r.verboten \in BOOLEAN
         /\ StOnce(r.aliases) /\ r.display \in ToSet(r.aliases)
<1>1. C[c] \in NickCore
  BY DEF StCores
<1>2. StOnce(C[c].aliases) /\ C[c].display \in ToSet(C[c].aliases)
  BY DEF StCores
<1>. QED
  BY <1>1, <1>2 DEF NickCore, StRecord, Flags

LEMMA StNicks ==
  ASSUME NEW a \in Seq(StNick), NEW d \in StNick, NEW f, f \subseteq Flags, NEW v \in BOOLEAN
  PROVE  StRecord(a, d, f, v) \in NickCore /\ StRecord(a, d, f, v) # StNone
BY StNoneAssumption DEF NickCore, StRecord, Flags

\* A core is made, or becomes another record.
LEMMA StSets ==
  ASSUME NEW C, StCores(C), NEW c \in StCore, NEW r \in NickCore, StOnce(r.aliases), r.display \in ToSet(r.aliases),
         \A n \in ToSet(r.aliases), d \in StCore : StHas(C, d, n) => d = c
  PROVE  LET D == [C EXCEPT ![c] = r] IN
         /\ StCores(D) /\ D[c] = r /\ \A d \in StCore : d # c => D[d] = C[d]
         /\ \A role : StHolders(D, role) = IF role \in r.flags THEN StHolders(C, role) \cup {c}
                                           ELSE StHolders(C, role) \ {c}
<1> DEFINE D == [C EXCEPT ![c] = r]
<1>1. C \in [StCore -> NickCore \cup {StNone}]
  BY DEF StCores
<1>2. D \in [StCore -> NickCore \cup {StNone}] /\ D[c] = r /\ \A d \in StCore : d # c => D[d] = C[d]
  BY <1>1
<1>3. r # StNone
  BY StNoneAssumption
<1> HIDE DEF D
<1>4. \A d \in StCore : D[d] # StNone => StOnce(D[d].aliases) /\ D[d].display \in ToSet(D[d].aliases)
  BY <1>2 DEF StCores
<1>5. \A d, e \in StCore, n \in StNick : StHas(D, d, n) /\ StHas(D, e, n) => d = e
  <2> SUFFICES ASSUME NEW d \in StCore, NEW e \in StCore, NEW n \in StNick, StHas(D, d, n), StHas(D, e, n)
               PROVE  d = e
    OBVIOUS
  <2>1. \A x \in StCore : StHas(D, x, n) /\ x # c => StHas(C, x, n)
    BY <1>2 DEF StHas
  <2>2. StHas(D, c, n) => n \in ToSet(r.aliases)
    BY <1>2 DEF StHas
  <2>. QED
    BY <2>1, <2>2 DEF StCores
<1>6. StCores(D)
  BY <1>2, <1>4, <1>5 DEF StCores
<1>7. ASSUME NEW role PROVE StHolders(D, role) = IF role \in r.flags THEN StHolders(C, role) \cup {c}
                                                 ELSE StHolders(C, role) \ {c}
  BY <1>2, <1>3 DEF StHolders
<1>. QED
  BY <1>2, <1>6, <1>7 DEF D

LEMMA StUnsets ==
  ASSUME NEW C, StCores(C), NEW c \in StCore
  PROVE  LET D == [C EXCEPT ![c] = StNone] IN
         /\ StCores(D) /\ D[c] = StNone /\ \A d \in StCore : d # c => D[d] = C[d]
         /\ \A role : StHolders(D, role) = StHolders(C, role) \ {c}
<1> DEFINE D == [C EXCEPT ![c] = StNone]
<1>1. C \in [StCore -> NickCore \cup {StNone}]
  BY DEF StCores
<1>2. D \in [StCore -> NickCore \cup {StNone}] /\ D[c] = StNone /\ \A d \in StCore : d # c => D[d] = C[d]
  BY <1>1
<1> HIDE DEF D
<1>3. \A d \in StCore : D[d] # StNone => d # c
  BY <1>2
<1>4. StCores(D)
  BY <1>2, <1>3 DEF StCores, StHas
<1>5. ASSUME NEW role PROVE StHolders(D, role) = StHolders(C, role) \ {c}
  BY <1>2, <1>3 DEF StHolders
<1>. QED
  BY <1>2, <1>4, <1>5 DEF D

\* The core that loses its last nick is freed and leaves the lists.
LEMMA StDelcoreIs ==
  ASSUME NEW C, DOMAIN C = StCore, NEW A, NEW O, NEW c \in StCore
  PROVE  Delcore([core |-> C, admins |-> A, opers |-> O], c) =
             [core |-> [C EXCEPT ![c] = StNone], admins |-> SlistRemove(A, c), opers |-> SlistRemove(O, c)]
<1> DEFINE F(E, role) == [d \in StCore |-> IF d \in {c} THEN [E[d] EXCEPT !.flags = @ \ {role}] ELSE E[d]]
           S == [core |-> C, admins |-> A, opers |-> O]
           S1 == [core |-> F(C, "ADMIN"), admins |-> A, opers |-> O]
           S2 == [core |-> F(F(C, "ADMIN"), "OPER"), admins |-> A, opers |-> O]
           rA == SlistRemove(A, c)
           rO == SlistRemove(O, c)
<1>1. ASSUME NEW E, NEW role PROVE Free([core |-> E, admins |-> A, opers |-> O], {c}, role)
                                    = [core |-> F(E, role), admins |-> A, opers |-> O]
  <2> DEFINE x == F(E, role)
             T == [core |-> E, admins |-> A, opers |-> O]
  <2>1. Free(T, {c}, role) = [T EXCEPT !.core = x]
    BY DEF Free
  <2> HIDE DEF x
  <2>2. [T EXCEPT !.core = x] = [core |-> x, admins |-> A, opers |-> O]
    BY StPuts
  <2>. QED
    BY <2>1, <2>2 DEF x
<1>2. FreeAdmin(S, c) = S1
  BY <1>1 DEF FreeAdmin, FreeAdmins
<1>3. FreeOper(S1, c) = S2
  BY <1>1 DEF FreeOper, FreeOpers
<1> DEFINE C2 == F(F(C, "ADMIN"), "OPER")
<1>4. DOMAIN C2 = StCore /\ \A d \in StCore : d # c => C2[d] = C[d]
  OBVIOUS
<1>5. OsRemoveNick(S, c) = [[S2 EXCEPT !.admins = rA] EXCEPT !.opers = rO]
  <2>1. FreeOper(FreeAdmin(S, c), c) = S2
    BY <1>2, <1>3
  <2>2. S2.admins = A /\ S2.opers = O /\ [S2 EXCEPT !.admins = rA].opers = O
    OBVIOUS
  <2>. QED
    BY <2>1, <2>2 DEF OsRemoveNick
<1>6. OsRemoveNick(S, c) = [core |-> C2, admins |-> rA, opers |-> rO]
  <2> HIDE DEF rA, rO, F
  <2>. QED
    BY <1>5
<1> HIDE DEF C2, rA, rO
<1>7. Delcore(S, c) = [core |-> [C2 EXCEPT ![c] = StNone], admins |-> rA, opers |-> rO]
  BY <1>6 DEF Delcore
<1>8. [C2 EXCEPT ![c] = StNone] = [C EXCEPT ![c] = StNone]
  BY <1>4
<1>. QED
  BY <1>7, <1>8 DEF rA, rO

\* What is left of the group of c without n.
StLess(S, c, n) ==
    LET left == SlistRemove(S.core[c].aliases, n)
        r == S.core[c]
    IN  StRecord(left, IF r.display = n THEN left[1] ELSE r.display, r.flags, r.verboten)

LEMMA StDelnickIs ==
  ASSUME NEW S, StGood(S), NEW c \in StCore, NEW n \in StNick, StHas(S.core, c, n)
  PROVE  LET left == SlistRemove(S.core[c].aliases, n) IN
         /\ left = <<>> => Delnick(S, c, n) =
                [core |-> [S.core EXCEPT ![c] = StNone],
                 admins |-> SlistRemove(S.admins, c), opers |-> SlistRemove(S.opers, c)]
         /\ left # <<>> => Delnick(S, c, n) =
                [core |-> [S.core EXCEPT ![c] = StLess(S, c, n)], admins |-> S.admins, opers |-> S.opers]
<1> DEFINE r == S.core[c]
           C == S.core
           left == SlistRemove(r.aliases, n)
           r1 == StRecord(left, r.display, r.flags, r.verboten)
           C1 == [C EXCEPT ![c] = r1]
           T == [S EXCEPT !.core[c].aliases = left]
           r2 == StRecord(left, left[1], r.flags, r.verboten)
           C2 == [C EXCEPT ![c] = r2]
<1>1. /\ S = [core |-> C, admins |-> S.admins, opers |-> S.opers] /\ StCores(C)
      /\ C \in [StCore -> NickCore \cup {StNone}] /\ C[c] # StNone
  BY DEF StGood, StCores, StHas
<1>2. r = StRecord(r.aliases, r.display, r.flags, r.verboten)
  BY <1>1, StLive
<1>3. T = [core |-> C1, admins |-> S.admins, opers |-> S.opers]
  <2> HIDE DEF left
  <2>1. [r EXCEPT !.aliases = left] = r1
    BY <1>2, StRecs
  <2>2. T = [S EXCEPT !.core = [C EXCEPT ![c] = [r EXCEPT !.aliases = left]]]
    OBVIOUS
  <2>3. T = [S EXCEPT !.core = C1]
    BY <2>1, <2>2
  <2> HIDE DEF C1, T
  <2>. QED
    BY <1>1, <2>3, StPuts
<1>4. DOMAIN C1 = StCore /\ C1[c] = r1 /\ [C1 EXCEPT ![c] = StNone] = [C EXCEPT ![c] = StNone]
      /\ [C1 EXCEPT ![c] = r2] = C2
  BY <1>1
<1>5. T.core[c].display = r.display
  BY <1>3, <1>4, StRecs
<1> DEFINE D == Delnick(S, c, n)
<1>6. D = IF left = <<>> THEN Delcore(T, c)
          ELSE IF r.display = n THEN ChangeCoreDisplay(T, c, left[1]) ELSE T
  BY DEF Delnick
<1>7. ASSUME left = <<>>
      PROVE  D = [core |-> [C EXCEPT ![c] = StNone], admins |-> SlistRemove(S.admins, c),
                  opers |-> SlistRemove(S.opers, c)]
  <2>1. D = Delcore(T, c)
    BY <1>6, <1>7
  <2> HIDE DEF T, C1, D
  <2>2. Delcore([core |-> C1, admins |-> S.admins, opers |-> S.opers], c)
        = [core |-> [C1 EXCEPT ![c] = StNone], admins |-> SlistRemove(S.admins, c),
           opers |-> SlistRemove(S.opers, c)]
    BY <1>4, StDelcoreIs
  <2>. QED
    BY <1>3, <1>4, <2>1, <2>2
<1>8. ASSUME left # <<>>
      PROVE  D = [core |-> [C EXCEPT ![c] = StLess(S, c, n)], admins |-> S.admins, opers |-> S.opers]
  <2>1. CASE r.display # n
    <3>1. StLess(S, c, n) = r1
      BY <2>1 DEF StLess
    <3>2. D = T
      BY <1>6, <1>8, <2>1
    <3>. QED
      BY <1>3, <3>1, <3>2
  <2>2. CASE r.display = n
    <3>1. StLess(S, c, n) = r2
      BY <2>2 DEF StLess
    <3>2. D = ChangeCoreDisplay(T, c, left[1])
      BY <1>6, <1>8, <2>2
    <3> HIDE DEF left
    <3>3. [r1 EXCEPT !.display = left[1]] = r2
      BY StRecs
    <3>4. ChangeCoreDisplay(T, c, left[1]) = [T EXCEPT !.core = [T.core EXCEPT ![c] = [T.core[c] EXCEPT !.display = left[1]]]]
      BY DEF ChangeCoreDisplay
    <3>5. T.core = C1 /\ T.core[c] = r1
      BY <1>3, <1>4
    <3>6. ChangeCoreDisplay(T, c, left[1]) = [T EXCEPT !.core = C2]
      BY <1>4, <3>3, <3>4, <3>5
    <3> HIDE DEF C2, C1, T
    <3>7. [T EXCEPT !.core = C2] = [core |-> C2, admins |-> S.admins, opers |-> S.opers]
      BY <1>3, StPuts
    <3>. QED
      BY <3>1, <3>2, <3>6, <3>7 DEF C2
  <2>. QED
    BY <2>1, <2>2
<1>. QED
  BY <1>7, <1>8

\* The group of c is without n, or gone.
StLoses(S, c, n, T) ==
    /\ StGood(T)
    /\ \A d \in StCore : d # c => T.core[d] = S.core[d]
    /\ T.core[c] # StNone =>
          /\ ToSet(T.core[c].aliases) = ToSet(S.core[c].aliases) \ {n}
          /\ T.core[c].flags = S.core[c].flags /\ T.core[c].verboten = S.core[c].verboten

LEMMA StDelnicks ==
  ASSUME NEW S, StGood(S), NEW c \in StCore, NEW n \in StNick, StHas(S.core, c, n)
  PROVE  StLoses(S, c, n, Delnick(S, c, n))
<1> DEFINE C == S.core
           r == C[c]
           left == SlistRemove(r.aliases, n)
           D == Delnick(S, c, n)
           q == StLess(S, c, n)
<1>1. /\ StCores(C) /\ StList(C, "ADMIN", S.admins) /\ StList(C, "OPER", S.opers) /\ C[c] # StNone
  BY DEF StGood, StHas
<1>2. /\ r \in NickCore /\ r = StRecord(r.aliases, r.display, r.flags, r.verboten)
      /\ r.aliases \in Seq(StNick) /\ r.display \in StNick /\ r.flags \subseteq Flags /\ r.verboten \in BOOLEAN
      /\ StOnce(r.aliases) /\ r.display \in ToSet(r.aliases)
  BY <1>1, StLive
<1>3. left \in Seq(StNick) /\ StOnce(left) /\ ToSet(left) = ToSet(r.aliases) \ {n}
  BY <1>2, StRemoves
<1>4. /\ left = <<>> => D = [core |-> [C EXCEPT ![c] = StNone],
                             admins |-> SlistRemove(S.admins, c), opers |-> SlistRemove(S.opers, c)]
      /\ left # <<>> => D = [core |-> [C EXCEPT ![c] = q], admins |-> S.admins, opers |-> S.opers]
  BY StDelnickIs
<1> HIDE DEF D
<1>5. CASE left = <<>>
  <2> DEFINE E == [C EXCEPT ![c] = StNone]
  <2>1. StCores(E) /\ E[c] = StNone /\ (\A d \in StCore : d # c => E[d] = C[d])
        /\ \A role : StHolders(E, role) = StHolders(C, role) \ {c}
    BY <1>1, StUnsets
  <2> HIDE DEF E
  <2>2. ASSUME NEW role, NEW list, StList(C, role, list) PROVE StList(E, role, SlistRemove(list, c))
    <3>1. list \in Seq(StCore) /\ StOnce(list) /\ StFits(list) /\ ToSet(list) = StHolders(C, role)
      BY <2>2 DEF StList
    <3>2. /\ SlistRemove(list, c) \in Seq(StCore) /\ StOnce(SlistRemove(list, c)) /\ StFits(SlistRemove(list, c))
          /\ ToSet(SlistRemove(list, c)) = ToSet(list) \ {c}
      BY <3>1, StRemoves
    <3>. QED
      BY <2>1, <3>1, <3>2 DEF StList
  <2>3. D = [core |-> E, admins |-> SlistRemove(S.admins, c), opers |-> SlistRemove(S.opers, c)]
    BY <1>4, <1>5 DEF E
  <2>4. D.core = E /\ StGood(D)
    BY <1>1, <2>1, <2>2, <2>3 DEF StGood
  <2>. QED
    BY <2>1, <2>4 DEF StLoses, D
<1>6. CASE left # <<>>
  <2> DEFINE E == [C EXCEPT ![c] = q]
             d0 == IF r.display = n THEN left[1] ELSE r.display
  <2>1. q = StRecord(left, d0, r.flags, r.verboten)
    BY DEF StLess
  <2>2. d0 \in ToSet(left) /\ d0 \in StNick
    <3>1. left[1] \in ToSet(left) /\ left[1] \in StNick
      <4>1. 1 \in DOMAIN left
        BY <1>3, <1>6
      <4>. QED
        BY <1>3, <4>1 DEF ToSet
    <3>. QED
      BY <1>2, <1>3, <3>1
  <2> HIDE DEF d0, left, q
  <2>3. /\ q.aliases = left /\ q.display = d0 /\ q.flags = r.flags /\ q.verboten = r.verboten
        /\ q \in NickCore /\ q # StNone
    BY <1>2, <1>3, <2>1, <2>2, StRecs, StNicks
  <2>4. \A m \in ToSet(q.aliases), d \in StCore : StHas(C, d, m) => d = c
    <3> SUFFICES ASSUME NEW m \in ToSet(left), NEW d \in StCore, StHas(C, d, m) PROVE d = c
      BY <2>3
    <3>1. m \in ToSet(r.aliases) /\ m \in StNick
      BY <1>2, <1>3 DEF ToSet
    <3>2. StHas(C, c, m)
      BY <1>1, <3>1 DEF StHas
    <3>. QED
      BY <1>1, <3>1, <3>2 DEF StCores
  <2>5. /\ StCores(E) /\ E[c] = q /\ \A d \in StCore : d # c => E[d] = C[d]
        /\ \A role : StHolders(E, role) = IF role \in q.flags THEN StHolders(C, role) \cup {c}
                                          ELSE StHolders(C, role) \ {c}
    <3>1. StOnce(q.aliases) /\ q.display \in ToSet(q.aliases)
      BY <1>3, <2>2, <2>3 DEF left
    <3> HIDE DEF r
    <3>2. StCores(C) /\ q \in NickCore
      BY <1>1, <2>3
    <3> HIDE DEF C
    <3>. QED
      BY <2>4, <3>1, <3>2, StSets
  <2> HIDE DEF E
  <2>6. \A role : StHolders(E, role) = StHolders(C, role)
    BY <1>1, <2>3, <2>5 DEF StHolders
  <2>7. D = [core |-> E, admins |-> S.admins, opers |-> S.opers]
    BY <1>4, <1>6 DEF E
  <2>8. StList(E, "ADMIN", S.admins) /\ StList(E, "OPER", S.opers)
    BY <1>1, <2>6 DEF StList
  <2>9. D.core = E /\ StGood(D)
    BY <2>5, <2>7, <2>8 DEF StGood
  <2>. QED
    BY <1>3, <2>3, <2>5, <2>9 DEF StLoses, D
<1>. QED
  BY <1>5, <1>6

\* Nobody has n any more; only a root's nick leaving may have made flags wrong.
StGone(S, n, T) ==
    /\ StGood(T)
    /\ \A d \in StCore : ~StHas(T.core, d, n)
    /\ \A d \in StCore : ~StHas(S.core, d, n) => T.core[d] = S.core[d]
    /\ StRooted(S.core) => \/ StRooted(T.core)
                           \/ n \in StRoots /\ \E d \in StCore : StHas(S.core, d, n) /\ T.core[d] # StNone

LEMMA StLosesGone ==
  ASSUME NEW S, StGood(S), NEW c \in StCore, NEW n \in StNick, StHas(S.core, c, n), NEW T, StLoses(S, c, n, T)
  PROVE  StGone(S, n, T)
<1> DEFINE C == S.core
           D == T.core
<1>1. /\ StGood(T) /\ \A d \in StCore : d # c => D[d] = C[d]
      /\ D[c] # StNone => /\ ToSet(D[c].aliases) = ToSet(C[c].aliases) \ {n}
                          /\ D[c].flags = C[c].flags /\ D[c].verboten = C[c].verboten
  BY DEF StLoses
<1>2. C[c] # StNone /\ StCores(C)
  BY DEF StGood, StHas
<1>3. \A d \in StCore : d # c => ~StHas(C, d, n)
  BY <1>2 DEF StCores
<1> HIDE DEF C, D
<1>4. \A d \in StCore : ~StHas(D, d, n)
  BY <1>1, <1>3 DEF StHas
<1>5. \A d \in StCore : ~StHas(C, d, n) => D[d] = C[d]
  <2>1. StHas(C, c, n)
    BY DEF C
  <2>. QED
    BY <1>1, <2>1
<1>6. ASSUME StRooted(C), n \notin StRoots \/ D[c] = StNone PROVE StRooted(D)
  <2> SUFFICES ASSUME NEW d \in StCore, D[d] # StNone, ~D[d].verboten
               PROVE  ("ROOT" \in D[d].flags) <=> (ToSet(D[d].aliases) \cap StRoots # {})
    BY DEF StRooted
  <2>1. CASE d # c
    BY <1>1, <1>6, <2>1 DEF StRooted
  <2>2. CASE d = c
    <3>1. n \notin StRoots /\ ToSet(D[c].aliases) = ToSet(C[c].aliases) \ {n}
      BY <1>1, <1>6, <2>2
    <3>2. ToSet(D[c].aliases) \cap StRoots = ToSet(C[c].aliases) \cap StRoots
      BY <3>1
    <3>3. ~C[c].verboten /\ D[c].flags = C[c].flags
      BY <1>1, <2>2
    <3>. QED
      BY <1>2, <1>6, <2>2, <3>2, <3>3 DEF StRooted
  <2>. QED
    BY <2>1, <2>2
<1>. QED
  BY <1>1, <1>4, <1>5, <1>6 DEF StGone, C, D

LEMMA StGCore ==
  ASSUME NEW S
  PROVE  /\ \A c, n : HasNick(S, c, n) <=> StHas(S.core, c, n)
         /\ \A n : StRegistered(S, n) => CoreOf(S, n) \in StCore /\ StHas(S.core, CoreOf(S, n), n)
BY DEF HasNick, StHas, StRegistered, CoreOf

LEMMA StDelnicksAny ==
  ASSUME NEW S, StGood(S), NEW n \in StNick
  PROVE  StGone(S, n, DelnickIfAny(S, n))
<1>1. CASE StRegistered(S, n)
  <2> DEFINE c == CoreOf(S, n)
  <2>1. c \in StCore /\ StHas(S.core, c, n)
    BY <1>1, StGCore
  <2> HIDE DEF c
  <2>2. StLoses(S, c, n, Delnick(S, c, n))
    BY <2>1, StDelnicks
  <2>3. StGone(S, n, Delnick(S, c, n))
    BY <2>1, <2>2, StLosesGone
  <2>4. DelnickIfAny(S, n) = Delnick(S, c, n)
    BY <1>1 DEF DelnickIfAny, c
  <2>. QED
    BY <2>3, <2>4
<1>2. CASE ~StRegistered(S, n)
  <2>1. \A d \in StCore : ~StHas(S.core, d, n)
    BY <1>2, StGCore DEF StRegistered
  <2>2. DelnickIfAny(S, n) = S
    BY <1>2 DEF DelnickIfAny
  <2>3. StGone(S, n, S)
    BY <2>1 DEF StGone
  <2>. QED
    BY <2>2, <2>3
<1>. QED
  BY <1>1, <1>2

StFresh(S, n) == \A d \in StCore : ~StHas(S.core, d, n)
StWith(S, c, n, r) ==
    /\ r \in NickCore /\ StOnce(r.aliases) /\ r.display \in ToSet(r.aliases)
    /\ ToSet(r.aliases) = IF S.core[c] = StNone THEN {n} ELSE ToSet(S.core[c].aliases) \cup {n}
    /\ \A role \in {"ADMIN", "OPER"} : role \in r.flags <=> (S.core[c] # StNone /\ role \in S.core[c].flags)
StMade(S, c, r, T) ==
    /\ StGood(T) /\ T.core[c] = r /\ r # StNone
    /\ \A d \in StCore : d # c => T.core[d] = S.core[d]

\* A core that nobody has is made, with a nick that nobody has; or a core gets
\* a nick that nobody has: the lists stay, and the flags of roots are right.
LEMMA StMakes ==
  ASSUME NEW S, StGood(S), NEW c \in StCore, NEW n \in StNick, StFresh(S, n), NEW r, StWith(S, c, n, r),
         NEW T, T = [S EXCEPT !.core[c] = r]
  PROVE  StMade(S, c, r, T)
<1> DEFINE C == S.core
           E == [C EXCEPT ![c] = r]
<1>1. /\ StCores(C) /\ StList(C, "ADMIN", S.admins) /\ StList(C, "OPER", S.opers)
      /\ S = [core |-> C, admins |-> S.admins, opers |-> S.opers]
  BY DEF StGood
<1>0. /\ \A d \in StCore : ~StHas(S.core, d, n)
      /\ r \in NickCore /\ StOnce(r.aliases) /\ r.display \in ToSet(r.aliases)
      /\ ToSet(r.aliases) = IF S.core[c] = StNone THEN {n} ELSE ToSet(S.core[c].aliases) \cup {n}
      /\ \A role \in {"ADMIN", "OPER"} : role \in r.flags <=> (S.core[c] # StNone /\ role \in S.core[c].flags)
  BY DEF StFresh, StWith
<1>2. \A m \in ToSet(r.aliases), d \in StCore : StHas(C, d, m) => d = c
  <2> SUFFICES ASSUME NEW m \in ToSet(r.aliases), NEW d \in StCore, StHas(C, d, m) PROVE d = c
    OBVIOUS
  <2>1. m # n /\ C[c] # StNone /\ m \in ToSet(C[c].aliases)
    BY <1>0
  <2>2. StHas(C, c, m)
    BY <2>1 DEF StHas
  <2>3. m \in StNick
    BY <1>0 DEF ToSet, NickCore
  <2>. QED
    BY <1>1, <2>2, <2>3 DEF StCores
<1>3. /\ StCores(E) /\ E[c] = r /\ \A d \in StCore : d # c => E[d] = C[d]
      /\ \A role : StHolders(E, role) = IF role \in r.flags THEN StHolders(C, role) \cup {c}
                                        ELSE StHolders(C, role) \ {c}
  BY <1>0, <1>1, <1>2, StSets
<1>4. T = [core |-> E, admins |-> S.admins, opers |-> S.opers]
  <2>1. T = [S EXCEPT !.core = E]
    OBVIOUS
  <2> HIDE DEF E, C
  <2>. QED
    BY <1>1, <2>1, StPuts
<1> HIDE DEF E
<1>5. \A role \in {"ADMIN", "OPER"} : StHolders(E, role) = StHolders(C, role)
  <2>1. \A role \in {"ADMIN", "OPER"} : c \in StHolders(C, role) <=> role \in r.flags
    BY <1>0 DEF StHolders
  <2>2. ASSUME NEW role \in {"ADMIN", "OPER"} PROVE StHolders(E, role) = StHolders(C, role)
    <3>1. StHolders(E, role) = IF role \in r.flags THEN StHolders(C, role) \cup {c} ELSE StHolders(C, role) \ {c}
      BY <1>3
    <3>. QED
      BY <2>1, <3>1
  <2>. QED
    BY <2>2
<1>6. StList(E, "ADMIN", S.admins) /\ StList(E, "OPER", S.opers)
  BY <1>1, <1>5 DEF StList
<1>7. T.core = E /\ StGood(T)
  BY <1>3, <1>4, <1>6 DEF StGood
<1>8. r # StNone
  BY <1>0, StNoneAssumption
<1>. QED
  BY <1>3, <1>7, <1>8 DEF StMade

\* The flags of some cores and one of the lists become others.
StSame(C, D) ==
    /\ D \in [StCore -> NickCore \cup {StNone}]
    /\ \A c \in StCore : /\ D[c] = StNone <=> C[c] = StNone
                         /\ C[c] # StNone => /\ D[c].aliases = C[c].aliases /\ D[c].display = C[c].display
                                             /\ D[c].verboten = C[c].verboten

LEMMA StSameGood ==
  ASSUME NEW C, NEW D, StCores(C), StSame(C, D)
  PROVE  /\ StCores(D)
         /\ (\A c \in StCore : C[c] # StNone => ("ROOT" \in D[c].flags <=> "ROOT" \in C[c].flags)) =>
                (StRooted(C) => StRooted(D))
<1>1. /\ D \in [StCore -> NickCore \cup {StNone}]
      /\ \A c \in StCore : /\ D[c] = StNone <=> C[c] = StNone
                           /\ C[c] # StNone => /\ D[c].aliases = C[c].aliases /\ D[c].display = C[c].display
                                               /\ D[c].verboten = C[c].verboten
  BY DEF StSame
<1>2. \A c \in StCore : D[c] # StNone => StOnce(D[c].aliases) /\ D[c].display \in ToSet(D[c].aliases)
  BY <1>1 DEF StCores
<1>3. \A c \in StCore, n \in StNick : StHas(D, c, n) <=> StHas(C, c, n)
  BY <1>1 DEF StHas
<1>4. StCores(D)
  BY <1>1, <1>2, <1>3 DEF StCores
<1>5. ASSUME \A c \in StCore : C[c] # StNone => ("ROOT" \in D[c].flags <=> "ROOT" \in C[c].flags), StRooted(C)
      PROVE  StRooted(D)
  BY <1>1, <1>5 DEF StRooted
<1>. QED
  BY <1>4, <1>5

\* Some cores lose a role.
StFree(C, Gone, role) == [d \in StCore |-> IF d \in Gone THEN [C[d] EXCEPT !.flags = @ \ {role}] ELSE C[d]]

StFreed(C, Gone, role) ==
    LET D == StFree(C, Gone, role) IN
    /\ StCores(D) /\ (StRooted(C) => StRooted(D))
    /\ \A x : StHolders(D, x) = IF x = role THEN StHolders(C, x) \ Gone ELSE StHolders(C, x)

LEMMA StFrees ==
  ASSUME NEW C, StCores(C), NEW Gone, Gone \subseteq StCore, NEW role \in {"ADMIN", "OPER"},
         \A c \in Gone : C[c] # StNone
  PROVE  StFreed(C, Gone, role)
<1> DEFINE D == StFree(C, Gone, role)
<1>1. C \in [StCore -> NickCore \cup {StNone}]
  BY DEF StCores
<1>2. ASSUME NEW d \in StCore, C[d] # StNone
      PROVE  /\ D[d] \in NickCore /\ D[d] # StNone
             /\ D[d].aliases = C[d].aliases /\ D[d].display = C[d].display /\ D[d].verboten = C[d].verboten
             /\ D[d].flags = IF d \in Gone THEN C[d].flags \ {role} ELSE C[d].flags
  <2> DEFINE r == C[d]
             f == r.flags \ {role}
  <2>1. /\ r \in NickCore /\ r = StRecord(r.aliases, r.display, r.flags, r.verboten)
        /\ r.aliases \in Seq(StNick) /\ r.display \in StNick /\ r.flags \subseteq Flags /\ r.verboten \in BOOLEAN
    BY <1>2, StLive
  <2>2. D[d] = IF d \in Gone THEN [r EXCEPT !.flags = f] ELSE r
    BY DEF StFree
  <2> HIDE DEF D, r
  <2>3. f \subseteq Flags
    BY <2>1
  <2> HIDE DEF f
  <2>4. [r EXCEPT !.flags = f] = StRecord(r.aliases, r.display, f, r.verboten)
    BY <2>1, StRecs
  <2>5. /\ StRecord(r.aliases, r.display, f, r.verboten) \in NickCore
        /\ StRecord(r.aliases, r.display, f, r.verboten) # StNone /\ r # StNone
    BY <2>1, <2>3, StNicks, StNoneAssumption
  <2>6. /\ StRecord(r.aliases, r.display, f, r.verboten).aliases = r.aliases
        /\ StRecord(r.aliases, r.display, f, r.verboten).display = r.display
        /\ StRecord(r.aliases, r.display, f, r.verboten).flags = f
        /\ StRecord(r.aliases, r.display, f, r.verboten).verboten = r.verboten
    BY StRecs
  <2>7. CASE d \in Gone
    BY <2>2, <2>4, <2>5, <2>6, <2>7 DEF f, r
  <2>8. CASE d \notin Gone
    BY <2>1, <2>2, <2>5, <2>8 DEF r
  <2>. QED
    BY <2>7, <2>8
<1>3. \A d \in StCore : C[d] = StNone => D[d] = StNone
  BY <1>1 DEF StFree
<1>4. DOMAIN D = StCore /\ D = [d \in StCore |-> D[d]]
  BY DEF StFree
<1> HIDE DEF D
<1>5. D \in [StCore -> NickCore \cup {StNone}]
  BY <1>2, <1>3, <1>4
<1>6. StSame(C, D)
  BY <1>2, <1>3, <1>5 DEF StSame
<1>7. StCores(D) /\ (StRooted(C) => StRooted(D))
  <2>1. \A c \in StCore : C[c] # StNone => ("ROOT" \in D[c].flags <=> "ROOT" \in C[c].flags)
    BY <1>2
  <2>. QED
    BY <1>6, <2>1, StSameGood
<1>8. ASSUME NEW x PROVE StHolders(D, x) = IF x = role THEN StHolders(C, x) \ Gone ELSE StHolders(C, x)
  <2>1. \A d \in StCore : D[d] = StNone <=> C[d] = StNone
    BY <1>2, <1>3
  <2>2. \A d \in StCore : C[d] # StNone =>
            (x \in D[d].flags <=> x \in C[d].flags /\ ~(x = role /\ d \in Gone))
    BY <1>2
  <2>. QED
    BY <2>1, <2>2 DEF StHolders
<1>. QED
  BY <1>7, <1>8 DEF D, StFreed

\* A list without duplicates is as long as its set is large.
LEMMA StCounts ==
  ASSUME NEW R, NEW list \in Seq(R), StOnce(list)
  PROVE  IsFiniteSet(ToSet(list)) /\ Cardinality(ToSet(list)) = Len(list)
<1> DEFINE n == Len(list)
           Xs == ToSet(list)
<1>1. n \in Nat /\ DOMAIN list = 1..n
  OBVIOUS
<1>2. list \in [1..n -> Xs] /\ \A y \in Xs : \E i \in 1..n : list[i] = y
  <2>1. \A i \in 1..n : list[i] \in Xs
    BY <1>1 DEF ToSet
  <2>2. list = [i \in 1..n |-> list[i]]
    OBVIOUS
  <2>3. \A y \in Xs : \E i \in 1..n : list[i] = y
    BY <1>1 DEF ToSet
  <2>. QED
    BY <2>1, <2>2, <2>3
<1>3. \A i, j \in 1..n : list[i] = list[j] => i = j
  BY <1>1 DEF StOnce
<1>4. ExistsBijection(1..n, Xs)
  <2> HIDE DEF Xs, n
  <2>1. list \in Injection(1..n, Xs) /\ list \in Surjection(1..n, Xs)
    BY <1>2, <1>3 DEF Injection, Surjection, IsInjective
  <2>. QED
    BY <2>1 DEF ExistsBijection, Bijection
<1>5. IsFiniteSet(Xs)
  BY <1>1, <1>4, FS_NatBijection
<1>6. Cardinality(Xs) = n
  BY <1>1, <1>4, FS_CountingElements
<1>. QED
  BY <1>5, <1>6

LEMMA StSeqs ==
  ASSUME NEW R, NEW list \in Seq(R), StOnce(list)
  PROVE  LET s == SetToSeq(ToSet(list)) IN
         /\ s \in Seq(ToSet(list)) /\ Len(s) = Len(list) /\ DOMAIN s = 1..Len(list)
         /\ \A i, j \in 1..Len(list) : s[i] = s[j] => i = j
         /\ \A x \in ToSet(list) : \E i \in 1..Len(list) : s[i] = x
<1> DEFINE Xs == ToSet(list)
           n == Len(list)
           s == SetToSeq(Xs)
<1>1. n \in Nat /\ IsFiniteSet(Xs) /\ Cardinality(Xs) = n
  BY StCounts
<1> HIDE DEF Xs
<1>2. s \in Seq(Xs) /\ Len(s) \in Nat /\ \A x \in Xs : \E i \in 1..Len(s) : s[i] = x
  BY <1>1, SetToSeqLists
<1>3. list \in [1..n -> Xs] /\ IsInjective(list)
  <2>1. \A i \in 1..n : list[i] \in Xs
    BY DEF Xs, ToSet
  <2>2. IsInjective(list)
    BY DEF IsInjective, StOnce
  <2>. QED
    BY <2>1, <2>2
<1>4. s \in [1..n -> Xs] /\ IsInjective(s)
  BY <1>1, <1>3 DEF SetToSeq
<1>5. DOMAIN s = 1..n
  BY <1>4
<1>6. Len(s) = n
  BY <1>1, <1>2, <1>5
<1>7. \A i, j \in 1..n : s[i] = s[j] => i = j
  BY <1>4, <1>5 DEF IsInjective
<1>. QED
  BY <1>2, <1>5, <1>6, <1>7 DEF Xs

StMove(S, T) ==
    /\ StGood(T)
    /\ StRooted(S.core) => \/ StRooted(T.core)
                           \/ \E n \in StRoots, c \in StCore : StHas(S.core, c, n) /\ ~StHas(T.core, c, n)

LEMMA StGoneMoves ==
  ASSUME NEW S, NEW n, NEW T, StGone(S, n, T)
  PROVE  StMove(S, T)
BY DEF StGone, StMove

LEMMA StDelnickMoves ==
  ASSUME NEW S, StGood(S), NEW n \in StNick, StRegistered(S, n)
  PROVE  StMove(S, Delnick(S, CoreOf(S, n), n))
<1> DEFINE c == CoreOf(S, n)
<1>1. c \in StCore /\ StHas(S.core, c, n)
  BY StGCore
<1> HIDE DEF c
<1>2. StGone(S, n, Delnick(S, c, n))
  BY <1>1, StDelnicks, StLosesGone
<1>3. StMove(S, Delnick(S, c, n))
  BY <1>2, StGoneMoves
<1>. QED
  BY <1>3 DEF c

LEMMA StTakes ==
  ASSUME NEW S, StGood(S), NEW Gone, NEW L, L \in Seq(StCore), StOnce(L), StFits(L)
  PROVE  /\ Gone \subseteq ToSet(S.admins) /\ ToSet(L) = ToSet(S.admins) \ Gone =>
                StMove(S, [core |-> StFree(S.core, Gone, "ADMIN"), admins |-> L, opers |-> S.opers])
         /\ Gone \subseteq ToSet(S.opers) /\ ToSet(L) = ToSet(S.opers) \ Gone =>
                StMove(S, [core |-> StFree(S.core, Gone, "OPER"), admins |-> S.admins, opers |-> L])
<1> DEFINE C == S.core
<1>1. StCores(C) /\ StList(C, "ADMIN", S.admins) /\ StList(C, "OPER", S.opers)
  BY DEF StGood
<1>2. ASSUME NEW role \in {"ADMIN", "OPER"}, NEW list, StList(C, role, list),
             Gone \subseteq ToSet(list), ToSet(L) = ToSet(list) \ Gone
      PROVE  LET D == StFree(C, Gone, role) IN
             /\ StCores(D) /\ (StRooted(C) => StRooted(D)) /\ StList(D, role, L)
             /\ \A x, l : x # role /\ StList(C, x, l) => StList(D, x, l)
  <2> DEFINE D == StFree(C, Gone, role)
  <2>1. Gone \subseteq StCore /\ \A c \in Gone : C[c] # StNone
    BY <1>2 DEF StList, StHolders
  <2>2. /\ StCores(D) /\ (StRooted(C) => StRooted(D))
        /\ \A x : StHolders(D, x) = IF x = role THEN StHolders(C, x) \ Gone ELSE StHolders(C, x)
    <3>1. StCores(C) /\ role \in {"ADMIN", "OPER"}
      BY <1>1
    <3> HIDE DEF C
    <3>2. StFreed(C, Gone, role)
      BY <2>1, <3>1, StFrees
    <3>. QED
      BY <3>2 DEF StFreed
  <2> HIDE DEF D
  <2>3. StList(D, role, L)
    BY <1>2, <2>2 DEF StList
  <2>4. \A x, l : x # role /\ StList(C, x, l) => StList(D, x, l)
    BY <2>2 DEF StList
  <2>. QED
    BY <2>2, <2>3, <2>4 DEF D
<1>3. ASSUME Gone \subseteq ToSet(S.admins), ToSet(L) = ToSet(S.admins) \ Gone
      PROVE  StMove(S, [core |-> StFree(C, Gone, "ADMIN"), admins |-> L, opers |-> S.opers])
  <2> DEFINE D == StFree(C, Gone, "ADMIN")
  <2>1. StCores(D) /\ (StRooted(C) => StRooted(D)) /\ StList(D, "ADMIN", L) /\ StList(D, "OPER", S.opers)
    BY <1>1, <1>2, <1>3
  <2> HIDE DEF D
  <2>. QED
    BY <2>1 DEF StMove, StGood, D
<1>4. ASSUME Gone \subseteq ToSet(S.opers), ToSet(L) = ToSet(S.opers) \ Gone
      PROVE  StMove(S, [core |-> StFree(C, Gone, "OPER"), admins |-> S.admins, opers |-> L])
  <2> DEFINE D == StFree(C, Gone, "OPER")
  <2>1. StCores(D) /\ (StRooted(C) => StRooted(D)) /\ StList(D, "OPER", L) /\ StList(D, "ADMIN", S.admins)
    BY <1>1, <1>2, <1>4
  <2> HIDE DEF D
  <2>. QED
    BY <2>1 DEF StMove, StGood, D
<1>. QED
  BY <1>3, <1>4

LEMMA StAddFold ==
  ASSUME NEW Q, NEW s \in Seq(Q), NEW core, NEW none
  PROVE  LET it == CHOOSE g : g = [t \in SUBSET DOMAIN s |->
                       IF t = {} THEN none ELSE StAdd(core, g[t \ {Max(t)}], s[Max(t)])]
         IN  \E f : /\ Turns([fold |-> "staff", list |-> s, core |-> core], none, Len(s), f)
                    /\ f[Len(s)] = it[DOMAIN s]
<1> DEFINE a == [fold |-> "staff", list |-> s, core |-> core]
           it == CHOOSE g : g = [t \in SUBSET DOMAIN s |->
                     IF t = {} THEN none ELSE StAdd(core, g[t \ {Max(t)}], s[Max(t)])]
<1>2. DOMAIN s = 1..Len(s) /\ Len(s) \in Nat
  OBVIOUS
<1>3. \A w, i : Turn(a, w, i) = StAdd(core, w, s[i])
  BY DEF Turn
<1> HIDE DEF a
<1>4. PICK g : IsFold(a, none, 1..Len(s), g)
  BY <1>2, FoldExists
<1>5. g = [t \in SUBSET DOMAIN s |-> IF t = {} THEN none ELSE StAdd(core, g[t \ {Max(t)}], s[Max(t)])]
  BY <1>2, <1>3, <1>4 DEF IsFold
<1>6. it = [t \in SUBSET DOMAIN s |-> IF t = {} THEN none ELSE StAdd(core, it[t \ {Max(t)}], s[Max(t)])]
  BY <1>5
<1> HIDE DEF it
<1>7. IsFold(a, none, 1..Len(s), it)
  BY <1>2, <1>3, <1>6 DEF IsFold
<1>8. \E f : Turns(a, none, Len(s), f) /\ f[Len(s)] = it[1..Len(s)]
  BY <1>2, <1>7, FoldTurns
<1>. QED
  BY <1>2, <1>8 DEF a, it

LEMMA StAddTurns ==
  ASSUME NEW Q, NEW s \in Seq(Q)
  PROVE  LET Add(list, c) == SlistAddSorted(list, StLimit, c, DisplayUpTo(c, list))
         IN  \E f : /\ Turns([fold |-> "staff", list |-> s, core |-> stCore], <<>>, Len(s), f)
                    /\ FoldLeft(Add, <<>>, s) = f[Len(s)]
<1> DEFINE Add(list, c) == SlistAddSorted(list, StLimit, c, DisplayUpTo(c, list))
           none == <<>>
           it == CHOOSE g : g = [t \in SUBSET DOMAIN s |->
                     IF t = {} THEN none ELSE StAdd(stCore, g[t \ {Max(t)}], s[Max(t)])]
<1>1. FoldLeft(Add, none, s) = it[DOMAIN s]
  BY Zenon DEF FoldLeft, MapThenFoldSet, StAdd, StBehind, DisplayUpTo
<1> HIDE DEF none
<1>2. \E f : /\ Turns([fold |-> "staff", list |-> s, core |-> stCore], none, Len(s), f)
             /\ f[Len(s)] = it[DOMAIN s]
  BY StAddFold
<1> HIDE DEF it
<1>. QED
  BY <1>1, <1>2 DEF none

\* The list that a restart makes of who has a role.
StAgain(role) ==
    LET Add(list, c) == SlistAddSorted(list, StLimit, c, DisplayUpTo(c, list))
    IN  FoldLeft(Add, <<>>, SetToSeq({c \in Live(G) : role \in stCore[c].flags}))

LEMMA StListsAgain ==
  ASSUME NEW role, NEW list, StList(stCore, role, list)
  PROVE  StList(stCore, role, StAgain(role))
<1> DEFINE n == Len(list)
           s == SetToSeq(ToSet(list))
           again == StAgain(role)
<1>1. /\ list \in Seq(StCore) /\ StOnce(list) /\ StFits(list) /\ ToSet(list) = StHolders(stCore, role)
  BY DEF StList
<1>2. {c \in Live(G) : role \in stCore[c].flags} = ToSet(list)
  BY <1>1 DEF Live, G, StHolders
<1>3. /\ s \in Seq(ToSet(list)) /\ Len(s) = n /\ DOMAIN s = 1..n
      /\ \A i, j \in 1..n : s[i] = s[j] => i = j
      /\ \A x \in ToSet(list) : \E i \in 1..n : s[i] = x
  BY <1>1, StSeqs
<1> HIDE DEF s
<1>4. n \in Nat /\ \A i \in 1..n : s[i] \in ToSet(list) /\ s[i] \in StCore
  BY <1>1, <1>3 DEF StHolders
<1>5. \E f : /\ Turns([fold |-> "staff", list |-> s, core |-> stCore], <<>>, n, f)
             /\ again = f[n]
  <2> DEFINE Add(l, c) == SlistAddSorted(l, StLimit, c, DisplayUpTo(c, l))
  <2>1. again = FoldLeft(Add, <<>>, s)
    BY <1>2, Zenon DEF StAgain, s
  <2>2. \E f : /\ Turns([fold |-> "staff", list |-> s, core |-> stCore], <<>>, Len(s), f)
               /\ FoldLeft(Add, <<>>, s) = f[Len(s)]
    BY <1>3, StAddTurns
  <2> HIDE DEF Add, again
  <2>. QED
    BY <1>3, <2>1, <2>2
<1> HIDE DEF again
<1>6. PICK f : /\ Turns([fold |-> "staff", list |-> s, core |-> stCore], <<>>, n, f)
               /\ again = f[n]
  BY <1>5
<1>7. f[0] = <<>> /\ \A k \in Nat : k < n => f[k + 1] = StAdd(stCore, f[k], s[k + 1])
  BY <1>6 DEF Turns, Turn
<1> DEFINE Made(k, l) == /\ l \in Seq(StCore) /\ StOnce(l) /\ Len(l) = k
                        /\ ToSet(l) = {s[i] : i \in 1..k}
           P == {k \in Nat : k <= n => Made(k, f[k])}
<1>8. 0 \in P
  <2>1. <<>> \in Seq(StCore) /\ Len(<<>>) = 0 /\ DOMAIN <<>> = {} /\ 1..0 = {}
    OBVIOUS
  <2>2. StOnce(<<>>) /\ ToSet(<<>>) = {s[i] : i \in 1..0}
    BY <2>1 DEF StOnce, ToSet
  <2>. QED
    BY <1>7, <2>1, <2>2
<1>9. ASSUME NEW k \in Nat, k \in P PROVE k + 1 \in P
  <2>1. SUFFICES ASSUME k + 1 <= n PROVE Made(k + 1, f[k + 1])
    OBVIOUS
  <2> DEFINE l == f[k]
             c == s[k + 1]
             behind == StBehind(stCore, c, l)
  <2>2. Made(k, l) /\ k < n /\ k + 1 \in 1..n
    BY <1>4, <1>9, <2>1
  <2>3. f[k + 1] = SlistAddSorted(l, StLimit, c, behind)
    BY <1>7, <2>2 DEF StAdd
  <2>4. behind \subseteq DOMAIN l
    BY DEF StBehind
  <2>5. c \in StCore /\ c \notin ToSet(l)
    <3>1. \A i \in 1..k : i \in 1..n /\ i # k + 1
      BY <1>4, <2>2
    <3>2. \A i \in 1..k : s[i] # c
      BY <1>3, <2>2, <3>1
    <3>. QED
      BY <1>4, <2>2, <3>2
  <2>6. ~SlistFull(l, StLimit)
    BY <1>1, <1>4, <2>2, StLimitAssumption DEF StFits, SlistFull
  <2> HIDE DEF l, behind, c
  <2>7. /\ f[k + 1] \in Seq(StCore) /\ StOnce(f[k + 1]) /\ Len(f[k + 1]) = Len(l) + 1
        /\ ToSet(f[k + 1]) = ToSet(l) \cup {c}
    BY <2>2, <2>3, <2>4, <2>5, <2>6, StInserts
  <2>8. {s[i] : i \in 1..k} \cup {c} = {s[i] : i \in 1..(k + 1)}
    <3>1. \A i : i \in 1..(k + 1) <=> i \in 1..k \/ i = k + 1
      OBVIOUS
    <3>. QED
      BY <3>1 DEF c
  <2>9. ToSet(f[k + 1]) = {s[i] : i \in 1..(k + 1)}
    BY <2>2, <2>7, <2>8
  <2>. QED
    BY <2>2, <2>7, <2>9
<1> HIDE DEF P
<1>10. n \in P
  BY <1>4, <1>8, <1>9, NatInd
<1>11. Made(n, again)
  BY <1>4, <1>6, <1>10 DEF P
<1>12. {s[i] : i \in 1..n} = ToSet(list)
  BY <1>3, <1>4
<1>13. StFits(again)
  BY <1>1, <1>11 DEF StFits
<1>. QED
  BY <1>1, <1>11, <1>12, <1>13 DEF StList, again

StNamed(S, c, T) ==
    /\ StGood(T) /\ (StRooted(S.core) => StRooted(T.core))
    /\ \A d \in StCore : d # c => T.core[d] = S.core[d]

\* CONFIRM, FORBID: a new core of one nick that nobody has.
LEMMA StMakenicks ==
  ASSUME NEW S, StGood(S), NEW c \in StCore, S.core[c] = StNone, NEW n \in StNick,
         StFresh(S, n), NEW flags, flags \in SUBSET {"ROOT"}, NEW verboten \in BOOLEAN, verboten = TRUE \/ flags = RootFlag(n)
  PROVE  StNamed(S, c, Makenick(S, c, n, flags, verboten))
<1> DEFINE r == StRecord(<<n>>, n, flags, verboten)
           T == Makenick(S, c, n, flags, verboten)
<1>1. <<n>> \in Seq(StNick) /\ StOnce(<<n>>) /\ ToSet(<<n>>) = {n} /\ n \in ToSet(<<n>>)
  BY DEF StOnce, ToSet
<1>2. r \in NickCore
  BY <1>1, StNicks DEF Flags
<1>3. r.aliases = <<n>> /\ r.display = n /\ r.flags = flags /\ r.verboten = verboten
  BY StRecs
<1>4. T = [S EXCEPT !.core[c] = r]
  BY DEF Makenick, StRecord
<1> HIDE DEF r, T
<1>5. \A role \in {"ADMIN", "OPER"} : role \in r.flags <=> (S.core[c] # StNone /\ role \in S.core[c].flags)
  BY <1>3
<1>6. StOnce(r.aliases) /\ r.display \in ToSet(r.aliases)
      /\ ToSet(r.aliases) = IF S.core[c] = StNone THEN {n} ELSE ToSet(S.core[c].aliases) \cup {n}
  BY <1>1, <1>3
<1>7. StGood(T) /\ T.core[c] = r /\ r # StNone /\ \A d \in StCore : d # c => T.core[d] = S.core[d]
  <2>1. StWith(S, c, n, r) 
    BY <1>2, <1>5, <1>6 DEF StWith
  <2>2. StMade(S, c, r, T)
    BY <1>4, <2>1, StMakes
  <2>. QED
    BY <2>2 DEF StMade
<1>8. ASSUME StRooted(S.core) PROVE StRooted(T.core)
  <2> SUFFICES ASSUME NEW d \in StCore, T.core[d] # StNone, ~T.core[d].verboten
               PROVE  ("ROOT" \in T.core[d].flags) <=> (ToSet(T.core[d].aliases) \cap StRoots # {})
    BY DEF StRooted
  <2>1. CASE d # c
    BY <1>7, <1>8, <2>1 DEF StRooted
  <2>2. CASE d = c
    <3>1. T.core[d].verboten = verboten /\ T.core[d].flags = flags /\ ToSet(T.core[d].aliases) = {n}
      BY <1>1, <1>3, <1>7, <2>2
    <3>2. flags = RootFlag(n)
      BY <3>1
    <3>3. "ROOT" \in RootFlag(n) <=> n \in StRoots
      BY DEF RootFlag
    <3>. QED
      BY <3>1, <3>2, <3>3
  <2>. QED
    BY <2>1, <2>2
<1>. QED
  BY <1>7, <1>8 DEF StNamed, T

\* GROUP: a core gets a nick that nobody has.
LEMMA StMakealiases ==
  ASSUME NEW S, StGood(S), NEW c \in StCore, S.core[c] # StNone, NEW n \in StNick,
         StFresh(S, n)
  PROVE  StNamed(S, c, Makealias(S, c, n))
<1> DEFINE o == S.core[c]
           a == Append(o.aliases, n)
           f == o.flags \cup RootFlag(n)
           r == StRecord(a, o.display, f, o.verboten)
           T == Makealias(S, c, n)
<1>1. StCores(S.core) /\ S.core \in [StCore -> NickCore \cup {StNone}]
  BY DEF StGood, StCores
<1>2. /\ o \in NickCore /\ o = StRecord(o.aliases, o.display, o.flags, o.verboten)
      /\ o.aliases \in Seq(StNick) /\ o.display \in StNick /\ o.flags \subseteq Flags /\ o.verboten \in BOOLEAN
      /\ StOnce(o.aliases) /\ o.display \in ToSet(o.aliases)
  BY <1>1, StLive
<1>3. n \notin ToSet(o.aliases)
  BY DEF StHas, StFresh
<1>4. a \in Seq(StNick) /\ StOnce(a) /\ ToSet(a) = ToSet(o.aliases) \cup {n}
  BY <1>2, <1>3, StAppends
<1>5. f \subseteq Flags /\ \A role \in {"ADMIN", "OPER"} : role \in f <=> role \in o.flags
  BY <1>2 DEF RootFlag, Flags
<1>6. T = [S EXCEPT !.core[c] = r]
  <2>1. T = [S EXCEPT !.core = [[S.core EXCEPT ![c] = [o EXCEPT !.aliases = a]]
                                   EXCEPT ![c] = [[S.core EXCEPT ![c] = [o EXCEPT !.aliases = a]][c]
                                                     EXCEPT !.flags = f]]]
    <3>1. S = [core |-> S.core, admins |-> S.admins, opers |-> S.opers]
      BY DEF StGood
    <3> DEFINE C1 == [S.core EXCEPT ![c] = [o EXCEPT !.aliases = a]]
               S1 == [S EXCEPT !.core = C1]
    <3>2. [o EXCEPT !.aliases = a] = StRecord(a, o.display, o.flags, o.verboten)
      <4> HIDE DEF a, o
      <4>. QED
        BY <1>2, StRecs
    <3>3. C1[c].flags = o.flags
      BY <1>1, <3>2, StRecs
    <3>4. S1.core = C1
      <4> HIDE DEF C1
      <4>. QED
        BY <3>1
    <3>5. T = [S1 EXCEPT !.core[c].flags = f]
      <4>1. S1.core[c].flags = o.flags
        BY <3>3, <3>4
      <4>. QED
        BY <4>1 DEF Makealias
    <3>6. [S1 EXCEPT !.core[c].flags = f] = [S1 EXCEPT !.core = [C1 EXCEPT ![c] = [C1[c] EXCEPT !.flags = f]]]
      BY <3>4
    <3> DEFINE C2 == [C1 EXCEPT ![c] = [C1[c] EXCEPT !.flags = f]]
    <3>7. [S1 EXCEPT !.core = C2] = [S EXCEPT !.core = C2]
      <4> HIDE DEF C2, C1
      <4>. QED
        BY <3>1
    <3>. QED
      BY <3>5, <3>6, <3>7
  <2>2. [o EXCEPT !.aliases = a] = StRecord(a, o.display, o.flags, o.verboten)
    <3> HIDE DEF a, o
    <3>. QED
      BY <1>2, StRecs
  <2>3. [StRecord(a, o.display, o.flags, o.verboten) EXCEPT !.flags = f] = r
    <3> HIDE DEF a, o, f
    <3>. QED
      BY StRecs
  <2> DEFINE q == StRecord(a, o.display, o.flags, o.verboten)
  <2>4. [[S.core EXCEPT ![c] = q] EXCEPT ![c] = [[S.core EXCEPT ![c] = q][c] EXCEPT !.flags = f]]
        = [S.core EXCEPT ![c] = r]
    <3> HIDE DEF q, r, f
    <3>1. [S.core EXCEPT ![c] = q][c] = q
      BY <1>1
    <3>2. [[S.core EXCEPT ![c] = q] EXCEPT ![c] = r] = [S.core EXCEPT ![c] = r]
      BY <1>1
    <3>. QED
      BY <2>3, <3>1, <3>2 DEF q
  <2>. QED
    BY <2>1, <2>2, <2>4
<1>7. r \in NickCore /\ r.aliases = a /\ r.display = o.display /\ r.flags = f /\ r.verboten = o.verboten
  <2> HIDE DEF a, f, o
  <2>. QED
    BY <1>2, <1>4, <1>5, StNicks, StRecs
<1> HIDE DEF r, T, a, f
<1>8. \A role \in {"ADMIN", "OPER"} : role \in r.flags <=> (S.core[c] # StNone /\ role \in S.core[c].flags)
  BY <1>5, <1>7
<1>9. StOnce(r.aliases) /\ r.display \in ToSet(r.aliases)
      /\ ToSet(r.aliases) = IF S.core[c] = StNone THEN {n} ELSE ToSet(S.core[c].aliases) \cup {n}
  BY <1>2, <1>4, <1>7
<1>10. StGood(T) /\ T.core[c] = r /\ r # StNone /\ \A d \in StCore : d # c => T.core[d] = S.core[d]
  <2> HIDE DEF o
  <2>1. StWith(S, c, n, r) 
    BY <1>7, <1>8, <1>9 DEF StWith
  <2>2. StMade(S, c, r, T)
    BY <1>6, <2>1, StMakes
  <2>. QED
    BY <2>2 DEF StMade
<1>11. ASSUME StRooted(S.core) PROVE StRooted(T.core)
  <2> SUFFICES ASSUME NEW d \in StCore, T.core[d] # StNone, ~T.core[d].verboten
               PROVE  ("ROOT" \in T.core[d].flags) <=> (ToSet(T.core[d].aliases) \cap StRoots # {})
    BY DEF StRooted
  <2>1. CASE d # c
    BY <1>10, <1>11, <2>1 DEF StRooted
  <2>2. CASE d = c
    <3>1. ~o.verboten /\ T.core[d].flags = f /\ ToSet(T.core[d].aliases) = ToSet(o.aliases) \cup {n}
      BY <1>4, <1>7, <1>10, <2>2
    <3>2. ("ROOT" \in o.flags) <=> (ToSet(o.aliases) \cap StRoots # {})
      BY <1>11, <3>1 DEF StRooted
    <3>3. "ROOT" \in f <=> "ROOT" \in o.flags \/ n \in StRoots
      BY DEF RootFlag, f
    <3>. QED
      BY <3>1, <3>2, <3>3
  <2>. QED
    BY <2>1, <2>2
<1>. QED
  BY <1>10, <1>11 DEF StNamed, T

\* A nick leaves its group and then is put elsewhere.
LEMMA StThen ==
  ASSUME NEW S, NEW n, NEW T, StGone(S, n, T), NEW c, ~StHas(S.core, c, n) \/ T.core[c] = StNone,
         NEW U, StNamed(T, c, U)
  PROVE  StMove(S, U)
<1> SUFFICES ASSUME StRooted(S.core), ~StRooted(T.core)
             PROVE  \E m \in StRoots, d \in StCore : StHas(S.core, d, m) /\ ~StHas(U.core, d, m)
  BY DEF StMove, StNamed
<1>1. n \in StRoots /\ \E d \in StCore : StHas(S.core, d, n) /\ T.core[d] # StNone
  BY DEF StGone
<1>2. PICK d \in StCore : StHas(S.core, d, n) /\ T.core[d] # StNone
  BY <1>1
<1>3. d # c
  BY <1>2
<1>4. ~StHas(T.core, d, n)
  BY DEF StGone
<1>5. ~StHas(U.core, d, n)
  BY <1>3, <1>4 DEF StHas, StNamed
<1>. QED
  BY <1>1, <1>2, <1>5

LEMMA StConfirms ==
  ASSUME NEW S, StGood(S), NEW c \in StCore, S.core[c] = StNone, NEW n \in StNick, ~StRegistered(S, n)
  PROVE  StMove(S, Makenick(S, c, n, RootFlag(n), FALSE))
<1> DEFINE T == Makenick(S, c, n, RootFlag(n), FALSE)
<1>1. StFresh(S, n)
  BY StGCore DEF StRegistered, StFresh
<1>2. RootFlag(n) \in SUBSET {"ROOT"}
  BY DEF RootFlag
<1>3. StNamed(S, c, T)
  BY <1>1, <1>2, StMakenicks
<1>. QED
  BY <1>3 DEF StMove, StNamed

LEMMA StForbids ==
  ASSUME NEW S, StGood(S), NEW n \in StNick, NEW T, T = DelnickIfAny(S, n),
         NEW c \in StCore, T.core[c] = StNone
  PROVE  StMove(S, Makenick(T, c, n, {}, TRUE))
<1> DEFINE f == {}
           v == TRUE
           U == Makenick(T, c, n, f, v)
<1>1. StGone(S, n, T)
  BY StDelnicksAny
<1>2. StGood(T) /\ StFresh(T, n)
  BY <1>1 DEF StGone, StFresh
<1>3. StNamed(T, c, U)
  <2>1. f \in SUBSET {"ROOT"} /\ v \in BOOLEAN /\ (v = TRUE \/ f = RootFlag(n))
    OBVIOUS
  <2> HIDE DEF f, v
  <2>. QED
    BY <1>2, <2>1, StMakenicks
<1> HIDE DEF U
<1>4. ~StHas(S.core, c, n) \/ T.core[c] = StNone
  OBVIOUS
<1>5. StMove(S, U)
  BY <1>1, <1>3, <1>4, StThen
<1>. QED
  BY <1>5 DEF U

LEMMA StGroups ==
  ASSUME NEW S, StGood(S), NEW n \in StNick, NEW c \in StCore, S.core[c] # StNone,
         ~StHas(S.core, c, n)
  PROVE  StMove(S, Makealias(DelnickIfAny(S, n), c, n))
<1> DEFINE T == DelnickIfAny(S, n)
           U == Makealias(T, c, n)
<1>1. StGone(S, n, T)
  BY StDelnicksAny
<1>2. StGood(T) /\ StFresh(T, n)
  BY <1>1 DEF StGone, StFresh
<1>3. T.core[c] # StNone
  BY <1>1 DEF StGone
<1> HIDE DEF T
<1>4. StNamed(T, c, U)
  BY <1>2, <1>3, StMakealiases
<1> HIDE DEF U
<1>5. StMove(S, U)
  BY <1>1, <1>4, StThen DEF T
<1>. QED
  BY <1>5 DEF U, T

\* SET DISPLAY.
LEMMA StShows ==
  ASSUME NEW S, StGood(S), NEW c \in StCore, NEW n, StHas(S.core, c, n)
  PROVE  StMove(S, ChangeCoreDisplay(S, c, n))
<1> DEFINE C == S.core
           o == C[c]
           r == StRecord(o.aliases, n, o.flags, o.verboten)
           E == [C EXCEPT ![c] = r]
           T == ChangeCoreDisplay(S, c, n)
<1>1. /\ StCores(C) /\ StList(C, "ADMIN", S.admins) /\ StList(C, "OPER", S.opers)
      /\ S = [core |-> C, admins |-> S.admins, opers |-> S.opers]
      /\ C[c] # StNone /\ n \in ToSet(o.aliases)
  BY DEF StGood, StHas
<1>2. /\ o \in NickCore /\ o = StRecord(o.aliases, o.display, o.flags, o.verboten)
      /\ o.aliases \in Seq(StNick) /\ o.flags \subseteq Flags /\ o.verboten \in BOOLEAN /\ StOnce(o.aliases)
  BY <1>1, StLive
<1>3. n \in StNick
  BY <1>1, <1>2 DEF ToSet
<1>4. T = [core |-> E, admins |-> S.admins, opers |-> S.opers]
  <2>1. T = [S EXCEPT !.core = [C EXCEPT ![c] = [o EXCEPT !.display = n]]]
    BY DEF ChangeCoreDisplay
  <2>2. [o EXCEPT !.display = n] = r
    <3> HIDE DEF o
    <3>. QED
      BY <1>2, StRecs DEF r
  <2>3. T = [S EXCEPT !.core = E]
    BY <2>1, <2>2
  <2> HIDE DEF E, C, T
  <2>. QED
    BY <1>1, <2>3, StPuts
<1>5. r \in NickCore /\ r.aliases = o.aliases /\ r.display = n /\ r.flags = o.flags /\ r.verboten = o.verboten
  <2> HIDE DEF o
  <2>. QED
    BY <1>2, <1>3, StNicks, StRecs DEF r
<1>6. \A m \in ToSet(r.aliases), d \in StCore : StHas(C, d, m) => d = c
  <2> SUFFICES ASSUME NEW m \in ToSet(r.aliases), NEW d \in StCore, StHas(C, d, m) PROVE d = c
    OBVIOUS
  <2>1. m \in StNick
    BY <1>2, <1>5 DEF ToSet
  <2>2. StHas(C, c, m)
    BY <1>1, <1>5 DEF StHas
  <2> HIDE DEF r
  <2>. QED
    BY <1>1, <2>1, <2>2 DEF StCores
<1>7. /\ StCores(E) /\ E[c] = r /\ \A d \in StCore : d # c => E[d] = C[d]
      /\ \A role : StHolders(E, role) = IF role \in r.flags THEN StHolders(C, role) \cup {c}
                                        ELSE StHolders(C, role) \ {c}
  <2>1. r \in NickCore /\ StOnce(r.aliases) /\ r.display \in ToSet(r.aliases)
    BY <1>1, <1>2, <1>5
  <2>2. StCores(C)
    BY <1>1
  <2> HIDE DEF r, C, o
  <2>3. \A m \in ToSet(r.aliases), d \in StCore : StHas(C, d, m) => d = c
    BY <1>6
  <2>. QED
    BY ONLY c \in StCore, <2>1, <2>2, <2>3, StSets DEF E
<1> HIDE DEF E, T, r
<1>8. \A role : StHolders(E, role) = StHolders(C, role)
  <2>1. ASSUME NEW role PROVE StHolders(E, role) = StHolders(C, role)
    <3>1. c \in StHolders(C, role) <=> role \in r.flags
      BY <1>1, <1>5 DEF StHolders
    <3>2. StHolders(E, role) = IF role \in r.flags THEN StHolders(C, role) \cup {c} ELSE StHolders(C, role) \ {c}
      BY <1>7
    <3>. QED
      BY <3>1, <3>2
  <2>. QED
    BY <2>1
<1>9. StGood(T) /\ T.core = E
  BY <1>1, <1>4, <1>7, <1>8 DEF StGood, StList
<1>10. StRooted(C) => StRooted(E)
  <2> SUFFICES ASSUME StRooted(C), NEW d \in StCore, E[d] # StNone, ~E[d].verboten
               PROVE  ("ROOT" \in E[d].flags) <=> (ToSet(E[d].aliases) \cap StRoots # {})
    BY DEF StRooted
  <2>1. CASE d # c
    BY <1>7, <2>1 DEF StRooted
  <2>2. CASE d = c
    BY <1>1, <1>5, <1>7, <2>2 DEF StRooted
  <2>. QED
    BY <2>1, <2>2
<1>. QED
  BY <1>9, <1>10 DEF StMove, T

\* ADMIN ADD, OPER ADD: a core gets a role.
StLift(C, c, role) == [C EXCEPT ![c] = StRecord(C[c].aliases, C[c].display, C[c].flags \cup {role}, C[c].verboten)]

StLifted(C, c, role) ==
    LET D == StLift(C, c, role) IN
    /\ StCores(D) /\ (StRooted(C) => StRooted(D))
    /\ \A x : StHolders(D, x) = IF x = role THEN StHolders(C, x) \cup {c} ELSE StHolders(C, x)

LEMMA StLifts ==
  ASSUME NEW C, StCores(C), NEW c \in StCore, C[c] # StNone, NEW role \in {"ADMIN", "OPER"}
  PROVE  StLifted(C, c, role)
<1> DEFINE o == C[c]
           f == o.flags \cup {role}
           r == StRecord(o.aliases, o.display, f, o.verboten)
           D == StLift(C, c, role)
<1>1. /\ o \in NickCore /\ o.aliases \in Seq(StNick) /\ o.display \in StNick
      /\ o.flags \subseteq Flags /\ o.verboten \in BOOLEAN /\ StOnce(o.aliases)
      /\ o.display \in ToSet(o.aliases)
  BY StLive
<1>2. f \subseteq Flags /\ D = [C EXCEPT ![c] = r]
  BY <1>1 DEF Flags, StLift
<1>3. r \in NickCore /\ r # StNone /\ r.aliases = o.aliases /\ r.display = o.display
      /\ r.flags = f /\ r.verboten = o.verboten
  <2> HIDE DEF o, f
  <2>. QED
    BY <1>1, <1>2, StNicks, StRecs
<1>4. \A m \in ToSet(r.aliases), d \in StCore : StHas(C, d, m) => d = c
  <2> SUFFICES ASSUME NEW m \in ToSet(r.aliases), NEW d \in StCore, StHas(C, d, m) PROVE d = c
    OBVIOUS
  <2>1. m \in StNick
    BY <1>1, <1>3 DEF ToSet
  <2>2. StHas(C, c, m)
    BY <1>3 DEF StHas
  <2>. QED
    BY <2>1, <2>2 DEF StCores
<1>5. StOnce(r.aliases) /\ r.display \in ToSet(r.aliases)
  BY <1>1, <1>3
<1> HIDE DEF r, D, o
<1>6. /\ StCores(D) /\ D[c] = r /\ \A d \in StCore : d # c => D[d] = C[d]
      /\ \A x : StHolders(D, x) = IF x \in r.flags THEN StHolders(C, x) \cup {c} ELSE StHolders(C, x) \ {c}
  <2> DEFINE E == [C EXCEPT ![c] = r]
  <2>1. /\ StCores(E) /\ E[c] = r /\ \A d \in StCore : d # c => E[d] = C[d]
        /\ \A x : StHolders(E, x) = IF x \in r.flags THEN StHolders(C, x) \cup {c} ELSE StHolders(C, x) \ {c}
    BY ONLY StCores(C), c \in StCore, <1>3, <1>4, <1>5, StSets
  <2>2. D = E
    BY <1>2
  <2> HIDE DEF E
  <2>. QED
    BY <2>1, <2>2
<1>7. ASSUME NEW x PROVE StHolders(D, x) = IF x = role THEN StHolders(C, x) \cup {c} ELSE StHolders(C, x)
  <2>1. x \in r.flags <=> x = role \/ x \in o.flags
    BY <1>3
  <2>2. c \in StHolders(C, x) <=> x \in o.flags
    BY DEF StHolders, o
  <2>3. StHolders(D, x) = IF x \in r.flags THEN StHolders(C, x) \cup {c} ELSE StHolders(C, x) \ {c}
    BY <1>6
  <2>. QED
    BY <2>1, <2>2, <2>3
<1>8. ASSUME StRooted(C) PROVE StRooted(D)
  <2> SUFFICES ASSUME NEW d \in StCore, D[d] # StNone, ~D[d].verboten
               PROVE  ("ROOT" \in D[d].flags) <=> (ToSet(D[d].aliases) \cap StRoots # {})
    BY DEF StRooted
  <2>1. CASE d # c
    BY <1>6, <1>8, <2>1 DEF StRooted
  <2>2. CASE d = c
    <3>1. ~o.verboten /\ ToSet(D[d].aliases) = ToSet(o.aliases) /\ D[d].flags = f
      BY <1>3, <1>6, <2>2
    <3>2. "ROOT" \in f <=> "ROOT" \in o.flags
      BY DEF f
    <3>. QED
      BY <1>8, <3>1, <3>2 DEF StRooted, o
  <2>. QED
    BY <2>1, <2>2
<1>. QED
  BY <1>6, <1>7, <1>8 DEF StLifted, D

LEMMA StAdds ==
  ASSUME NEW S, StGood(S), NEW c \in StCore, S.core[c] # StNone,
         NEW L, L \in Seq(StCore), StOnce(L), StFits(L)
  PROVE  /\ ToSet(L) = ToSet(S.admins) \cup {c} =>
                StMove(S, [core |-> StLift(S.core, c, "ADMIN"), admins |-> L, opers |-> S.opers])
         /\ ToSet(L) = ToSet(S.opers) \cup {c} =>
                StMove(S, [core |-> StLift(S.core, c, "OPER"), admins |-> S.admins, opers |-> L])
<1> DEFINE C == S.core
<1>1. StCores(C) /\ StList(C, "ADMIN", S.admins) /\ StList(C, "OPER", S.opers)
  BY DEF StGood
<1>2. ASSUME NEW role \in {"ADMIN", "OPER"}, NEW list, StList(C, role, list), ToSet(L) = ToSet(list) \cup {c}
      PROVE  LET D == StLift(C, c, role) IN
             /\ StCores(D) /\ (StRooted(C) => StRooted(D)) /\ StList(D, role, L)
             /\ \A x, l : x # role /\ StList(C, x, l) => StList(D, x, l)
  <2> DEFINE D == StLift(C, c, role)
  <2>2. /\ StCores(D) /\ (StRooted(C) => StRooted(D))
        /\ \A x : StHolders(D, x) = IF x = role THEN StHolders(C, x) \cup {c} ELSE StHolders(C, x)
    <3>1. StCores(C) /\ role \in {"ADMIN", "OPER"} /\ C[c] # StNone
      BY <1>1
    <3> HIDE DEF C
    <3>2. StLifted(C, c, role)
      BY <3>1, StLifts
    <3>. QED
      BY <3>2 DEF StLifted
  <2> HIDE DEF D
  <2>3. StList(D, role, L)
    BY <1>2, <2>2 DEF StList
  <2>4. \A x, l : x # role /\ StList(C, x, l) => StList(D, x, l)
    BY <2>2 DEF StList
  <2>. QED
    BY <2>2, <2>3, <2>4 DEF D
<1>3. ASSUME ToSet(L) = ToSet(S.admins) \cup {c}
      PROVE  StMove(S, [core |-> StLift(C, c, "ADMIN"), admins |-> L, opers |-> S.opers])
  <2> DEFINE D == StLift(C, c, "ADMIN")
  <2>1. StCores(D) /\ (StRooted(C) => StRooted(D)) /\ StList(D, "ADMIN", L) /\ StList(D, "OPER", S.opers)
    BY <1>1, <1>2, <1>3
  <2> HIDE DEF D
  <2>. QED
    BY <2>1 DEF StMove, StGood, D
<1>4. ASSUME ToSet(L) = ToSet(S.opers) \cup {c}
      PROVE  StMove(S, [core |-> StLift(C, c, "OPER"), admins |-> S.admins, opers |-> L])
  <2> DEFINE D == StLift(C, c, "OPER")
  <2>1. StCores(D) /\ (StRooted(C) => StRooted(D)) /\ StList(D, "OPER", L) /\ StList(D, "ADMIN", S.admins)
    BY <1>1, <1>2, <1>4
  <2> HIDE DEF D
  <2>. QED
    BY <2>1 DEF StMove, StGood, D
<1>. QED
  BY <1>3, <1>4

\* What the commands make of the three parts.
LEMMA StAddIs ==
  ASSUME NEW S, StGood(S), NEW c \in StCore, S.core[c] # StNone, NEW L
  PROVE  /\ [S EXCEPT !.admins = L, !.core[c].flags = @ \cup {"ADMIN"}]
               = [core |-> StLift(S.core, c, "ADMIN"), admins |-> L, opers |-> S.opers]
         /\ [S EXCEPT !.opers = L, !.core[c].flags = @ \cup {"OPER"}]
               = [core |-> StLift(S.core, c, "OPER"), admins |-> S.admins, opers |-> L]
<1> DEFINE C == S.core
           o == C[c]
<1>1. S = [core |-> C, admins |-> S.admins, opers |-> S.opers] /\ StCores(C)
  BY DEF StGood
<1>2. o = StRecord(o.aliases, o.display, o.flags, o.verboten)
  BY <1>1, StLive
<1>3. ASSUME NEW role PROVE [C EXCEPT ![c].flags = @ \cup {role}] = StLift(C, c, role)
  <2> DEFINE f == o.flags \cup {role}
  <2>1. [o EXCEPT !.flags = f] = StRecord(o.aliases, o.display, f, o.verboten)
    <3> HIDE DEF o, f
    <3>. QED
      BY <1>2, StRecs
  <2>2. [C EXCEPT ![c].flags = @ \cup {role}] = [C EXCEPT ![c] = [o EXCEPT !.flags = f]]
    OBVIOUS
  <2>. QED
    BY <2>1, <2>2 DEF StLift
<1>4. [S EXCEPT !.admins = L, !.core[c].flags = @ \cup {"ADMIN"}]
          = [core |-> StLift(C, c, "ADMIN"), admins |-> L, opers |-> S.opers]
  <2> DEFINE E == [C EXCEPT ![c].flags = @ \cup {"ADMIN"}]
             S1 == [S EXCEPT !.admins = L]
  <2>1. S1.core = C
    BY <1>1
  <2>2. [S EXCEPT !.admins = L, !.core[c].flags = @ \cup {"ADMIN"}] = [S1 EXCEPT !.core = E]
    BY <2>1
  <2>3. S1 = [core |-> C, admins |-> L, opers |-> S.opers]
    <3> HIDE DEF C
    <3>. QED
      BY <1>1
  <2> HIDE DEF E, S1, C
  <2>4. [S1 EXCEPT !.core = E] = [core |-> E, admins |-> L, opers |-> S.opers]
    BY <2>3, StPuts
  <2>. QED
    BY <1>3, <2>2, <2>4 DEF E
<1>5. [S EXCEPT !.opers = L, !.core[c].flags = @ \cup {"OPER"}]
          = [core |-> StLift(C, c, "OPER"), admins |-> S.admins, opers |-> L]
  <2> DEFINE E == [C EXCEPT ![c].flags = @ \cup {"OPER"}]
             S1 == [S EXCEPT !.opers = L]
  <2>1. S1.core = C
    BY <1>1
  <2>2. [S EXCEPT !.opers = L, !.core[c].flags = @ \cup {"OPER"}] = [S1 EXCEPT !.core = E]
    BY <2>1
  <2>3. S1 = [core |-> C, admins |-> S.admins, opers |-> L]
    <3> HIDE DEF C
    <3>. QED
      BY <1>1
  <2> HIDE DEF E, S1, C
  <2>4. [S1 EXCEPT !.core = E] = [core |-> E, admins |-> S.admins, opers |-> L]
    BY <2>3, StPuts
  <2>. QED
    BY <1>3, <2>2, <2>4 DEF E
<1>. QED
  BY <1>4, <1>5

LEMMA StTakeIs ==
  ASSUME NEW S, StGood(S), NEW Gone, NEW L
  PROVE  /\ [FreeAdmins(S, Gone) EXCEPT !.admins = L]
               = [core |-> StFree(S.core, Gone, "ADMIN"), admins |-> L, opers |-> S.opers]
         /\ [FreeOpers(S, Gone) EXCEPT !.opers = L]
               = [core |-> StFree(S.core, Gone, "OPER"), admins |-> S.admins, opers |-> L]
         /\ FreeAdmins(S, Gone).admins = S.admins /\ FreeOpers(S, Gone).opers = S.opers
<1> DEFINE E(role) == StFree(S.core, Gone, role)
<1>1. S = [core |-> S.core, admins |-> S.admins, opers |-> S.opers]
  BY DEF StGood
<1>2. ASSUME NEW role PROVE Free(S, Gone, role) = [core |-> E(role), admins |-> S.admins, opers |-> S.opers]
  <2>1. Free(S, Gone, role) = [S EXCEPT !.core = E(role)]
    BY DEF Free, StFree
  <2> HIDE DEF E
  <2>. QED
    BY <1>1, <2>1, StPuts
<1> HIDE DEF E
<1>3. FreeAdmins(S, Gone) = [core |-> E("ADMIN"), admins |-> S.admins, opers |-> S.opers]
      /\ FreeOpers(S, Gone) = [core |-> E("OPER"), admins |-> S.admins, opers |-> S.opers]
  BY <1>2 DEF FreeAdmins, FreeOpers
<1>. QED
  BY <1>3 DEF E

LEMMA StBecomes ==
  ASSUME NEW S, NEW T, StMove(S, T), NEW C, C = T.core, NEW A, A = T.admins, NEW O, O = T.opers
  PROVE  StMove(S, [core |-> C, admins |-> A, opers |-> O])
<1>1. T = [core |-> C, admins |-> A, opers |-> O]
  BY DEF StMove, StGood
<1>. QED
  BY <1>1

LEMMA StMoved ==
  ASSUME NEW T, StMove(G, T), GBecomes(T)
  PROVE  StMove(G, G')
<1>1. stCore' = T.core /\ stAdmins' = T.admins /\ stOpers' = T.opers
  BY DEF GBecomes
<1>2. StMove(G, [core |-> stCore', admins |-> stAdmins', opers |-> stOpers'])
  BY <1>1, StBecomes
<1>3. G' = [core |-> stCore', admins |-> stAdmins', opers |-> stOpers']
  BY DEF G
<1>. QED
  BY <1>2, <1>3

LEMMA StOf ==
  ASSUME StInv
  PROVE  /\ StGood(G) /\ G.core = stCore /\ G.admins = stAdmins /\ G.opers = stOpers
         /\ StCores(stCore) /\ StList(stCore, "ADMIN", stAdmins) /\ StList(stCore, "OPER", stOpers)
         /\ \A n : StRegistered(G, n) =>
                /\ CoreOf(G, n) \in StCore /\ stCore[CoreOf(G, n)] # StNone
                /\ StHas(stCore, CoreOf(G, n), n)
<1>1. StGood(G) /\ G.core = stCore /\ G.admins = stAdmins /\ G.opers = stOpers
  BY DEF StInv, G
<1>2. \A n : StRegistered(G, n) => CoreOf(G, n) \in StCore /\ StHas(stCore, CoreOf(G, n), n)
  BY <1>1, StGCore
<1>. QED
  BY <1>1, <1>2 DEF StGood, StHas

LEMMA StOnNicks ==
  ASSUME StInv, NEW c \in StCore, NEW n \in StNick, NEW target \in StNick
  PROVE  /\ StaffConfirm(c, n) => StMove(G, G')
         /\ SetDisplay(c, n) => StMove(G, G')
         /\ StaffGroup(n, target) => StMove(G, G')
         /\ StaffExpire(n) => StMove(G, G')
         /\ StaffDrop(c, n) => StMove(G, G')
         /\ StaffForbid(c, n) => StMove(G, G')
<1>0. /\ StGood(G) /\ G.core = stCore
      /\ StCores(stCore)
      /\ \A m : StRegistered(G, m) =>
             CoreOf(G, m) \in StCore /\ stCore[CoreOf(G, m)] # StNone /\ StHas(stCore, CoreOf(G, m), m)
  BY StOf
<1>1. ASSUME StaffConfirm(c, n) PROVE StMove(G, G')
  <2> DEFINE T == Makenick(G, c, n, RootFlag(n), FALSE)
  <2>1. StMove(G, T)
    BY <1>0, <1>1, StConfirms DEF StaffConfirm
  <2>2. GBecomes(T)
    BY <1>1 DEF StaffConfirm
  <2> HIDE DEF T
  <2>. QED
    BY <2>1, <2>2, StMoved
<1>2. ASSUME SetDisplay(c, n) PROVE StMove(G, G')
  <2> DEFINE T == ChangeCoreDisplay(G, c, n)
  <2>1. StHas(G.core, c, n)
    BY <1>2, StGCore DEF SetDisplay
  <2>2. StMove(G, T)
    BY <1>0, <2>1, StShows
  <2>3. GBecomes(T)
    BY <1>2 DEF SetDisplay
  <2> HIDE DEF T
  <2>. QED
    BY <2>2, <2>3, StMoved
<1>3. ASSUME StaffGroup(n, target) PROVE StMove(G, G')
  <2> DEFINE d == CoreOf(G, target)
             T == Makealias(DelnickIfAny(G, n), d, n)
  <2>1. StRegistered(G, target) /\ (StRegistered(G, n) => CoreOf(G, n) # d)
    BY <1>3 DEF StaffGroup
  <2>2. d \in StCore /\ G.core[d] # StNone
    BY <1>0, <2>1
  <2>3. GBecomes(T)
    BY <1>3 DEF StaffGroup
  <2> HIDE DEF d
  <2>4. ~StHas(G.core, d, n)
    <3> SUFFICES ASSUME StHas(G.core, d, n) PROVE FALSE
      OBVIOUS
    <3>1. StRegistered(G, n)
      BY <2>2, StGCore DEF StRegistered
    <3>2. StHas(stCore, CoreOf(G, n), n) /\ CoreOf(G, n) \in StCore /\ StHas(stCore, d, n)
      BY <1>0, <3>1
    <3>. QED
      BY <1>0, <2>1, <2>2, <3>1, <3>2 DEF StCores
  <2>5. StMove(G, T)
    BY <1>0, <2>2, <2>4, StGroups
  <2> HIDE DEF T
  <2>. QED
    BY <2>3, <2>5, StMoved
<1>4. ASSUME StRegistered(G, n), GBecomes(Delnick(G, CoreOf(G, n), n)) PROVE StMove(G, G')
  <2> DEFINE T == Delnick(G, CoreOf(G, n), n)
  <2>1. StMove(G, T)
    BY <1>0, <1>4, StDelnickMoves
  <2>2. GBecomes(T)
    BY <1>4
  <2> HIDE DEF T
  <2>. QED
    BY <2>1, <2>2, StMoved
<1>5. StaffExpire(n) => StMove(G, G')
  BY <1>4 DEF StaffExpire
<1>6. StaffDrop(c, n) => StMove(G, G')
  BY <1>4 DEF StaffDrop
<1>7. ASSUME StaffForbid(c, n) PROVE StMove(G, G')
  <2> DEFINE T == DelnickIfAny(G, n)
  <2>1. PICK d \in StCore : T.core[d] = StNone /\ GBecomes(Makenick(T, d, n, {}, TRUE))
    BY <1>7 DEF StaffForbid
  <2> DEFINE U == Makenick(T, d, n, {}, TRUE)
  <2>2. StMove(G, U)
    <3>1. T = DelnickIfAny(G, n) /\ T.core[d] = StNone
      BY <2>1
    <3> HIDE DEF T
    <3>. QED
      BY <1>0, <3>1, StForbids
  <2>3. GBecomes(U)
    BY <2>1
  <2> HIDE DEF U, T
  <2>. QED
    BY <2>2, <2>3, StMoved
<1>. QED
  BY <1>1, <1>2, <1>3, <1>5, <1>6, <1>7

LEMMA StOnAdds ==
  ASSUME StInv, NEW by \in StCore, NEW n \in StNick
  PROVE  /\ AdminAdd(by, n) => StMove(G, G')
         /\ OperAdd(by, n) => StMove(G, G')
<1>0. /\ StGood(G) /\ G.core = stCore /\ G.admins = stAdmins /\ G.opers = stOpers
      /\ StList(stCore, "ADMIN", stAdmins) /\ StList(stCore, "OPER", stOpers)
      /\ \A m : StRegistered(G, m) => CoreOf(G, m) \in StCore /\ stCore[CoreOf(G, m)] # StNone
  BY StOf
<1> DEFINE c == CoreOf(G, n)
<1>1. ASSUME AdminAdd(by, n) PROVE StMove(G, G')
  <2> DEFINE L == SlistAddSorted(stAdmins, StLimit, c, DisplayUpTo(c, stAdmins))
             T == [G EXCEPT !.admins = L, !.core[c].flags = @ \cup {"ADMIN"}]
  <2>1. StRegistered(G, n) /\ c \notin ToSet(stAdmins) /\ ~SlistFull(stAdmins, StLimit)
    BY <1>1 DEF AdminAdd
  <2>2. GBecomes(T)
    BY <1>0, <1>1 DEF AdminAdd
  <2>3. c \in StCore /\ G.core[c] # StNone
    BY <1>0, <2>1
  <2>4. DisplayUpTo(c, stAdmins) \subseteq DOMAIN stAdmins
    BY DEF DisplayUpTo
  <2>5. stAdmins \in Seq(StCore) /\ StOnce(stAdmins)
    BY <1>0 DEF StList
  <2> HIDE DEF c
  <2>6. L \in Seq(StCore) /\ StOnce(L) /\ StFits(L) /\ ToSet(L) = ToSet(stAdmins) \cup {c}
    BY <2>1, <2>3, <2>4, <2>5, StInserts
  <2> HIDE DEF L
  <2>7. T = [core |-> StLift(G.core, c, "ADMIN"), admins |-> L, opers |-> G.opers]
    BY <1>0, <2>3, StAddIs
  <2> HIDE DEF T
  <2>8. StMove(G, T)
    BY <1>0, <2>3, <2>6, <2>7, StAdds
  <2>. QED
    BY <2>2, <2>8, StMoved
<1>2. ASSUME OperAdd(by, n) PROVE StMove(G, G')
  <2> DEFINE L == SlistAddSorted(stOpers, StLimit, c, DisplayUpTo(c, stOpers))
             T == [G EXCEPT !.opers = L, !.core[c].flags = @ \cup {"OPER"}]
  <2>1. StRegistered(G, n) /\ c \notin ToSet(stOpers) /\ ~SlistFull(stOpers, StLimit)
    BY <1>2 DEF OperAdd
  <2>2. GBecomes(T)
    BY <1>0, <1>2 DEF OperAdd
  <2>3. c \in StCore /\ G.core[c] # StNone
    BY <1>0, <2>1
  <2>4. DisplayUpTo(c, stOpers) \subseteq DOMAIN stOpers
    BY DEF DisplayUpTo
  <2>5. stOpers \in Seq(StCore) /\ StOnce(stOpers)
    BY <1>0 DEF StList
  <2> HIDE DEF c
  <2>6. L \in Seq(StCore) /\ StOnce(L) /\ StFits(L) /\ ToSet(L) = ToSet(stOpers) \cup {c}
    BY <2>1, <2>3, <2>4, <2>5, StInserts
  <2> HIDE DEF L
  <2>7. T = [core |-> StLift(G.core, c, "OPER"), admins |-> G.admins, opers |-> L]
    BY <1>0, <2>3, StAddIs
  <2> HIDE DEF T
  <2>8. StMove(G, T)
    BY <1>0, <2>3, <2>6, <2>7, StAdds
  <2>. QED
    BY <2>2, <2>8, StMoved
<1>. QED
  BY <1>1, <1>2

LEMMA StRangeGoes ==
  ASSUME NEW R, NEW list \in Seq(R), StOnce(list), StFits(list), NEW range \in StRanges
  PROVE  LET left == SlistDeleteRange(list, range)
             Gone == {list[i] : i \in SlistEnum(list, range)}
         IN  /\ left \in Seq(R) /\ StOnce(left) /\ StFits(left)
             /\ Gone \subseteq ToSet(list) /\ ToSet(left) = ToSet(list) \ Gone
<1> DEFINE left == SlistDeleteRange(list, range)
           at == SlistEnum(list, range)
           kept == DOMAIN list \ at
<1>1. range \in Seq(Seq(Nat))
  <2>1. <<1, 1>> \in Seq(Nat) /\ <<2, 2>> \in Seq(Nat) /\ <<2, 3>> \in Seq(Nat)
    OBVIOUS
  <2> DEFINE a == <<1, 1>>
             b == <<2, 2>>
             d == <<2, 3>>
  <2>2. range = <<a>> \/ range = <<d>> \/ range = <<a, b>>
    BY DEF StRanges
  <2> HIDE DEF a, b, d
  <2>3. a \in Seq(Nat) /\ b \in Seq(Nat) /\ d \in Seq(Nat)
    BY <2>1 DEF a, b, d
  <2>4. <<a>> \in Seq(Seq(Nat)) /\ <<d>> \in Seq(Seq(Nat)) /\ <<a, b>> \in Seq(Seq(Nat))
    <3>1. ASSUME NEW Q, NEW x \in Q, NEW y \in Q PROVE <<x>> \in Seq(Q) /\ <<x, y>> \in Seq(Q)
      OBVIOUS
    <3>. QED
      BY <2>3, <3>1
  <2>. QED
    BY <2>2, <2>4
<1>2. SlHas(R, list, kept, left)
  BY <1>1, SlDeletes DEF SlKeeps
<1>3. at \subseteq DOMAIN list
  BY DEF SlistEnum, RangeOf
<1> HIDE DEF left, at
<1>4. DOMAIN list \ kept = at
  BY <1>3
<1>5. /\ left \in Seq(R) /\ StOnce(left) /\ StFits(left)
      /\ ToSet(left) = ToSet(list) \ {list[i] : i \in DOMAIN list \ kept}
  <2>1. kept \subseteq DOMAIN list
    OBVIOUS
  <2> HIDE DEF kept
  <2>. QED
    BY <1>2, <2>1, StKeeps
<1>6. {list[i] : i \in at} \subseteq ToSet(list)
  BY <1>3 DEF ToSet
<1>. QED
  BY <1>4, <1>5, <1>6 DEF left, at

\* What leaves one of the lists: all of some entries.
LEMMA StLeave ==
  ASSUME StInv, NEW Gone, NEW L, L \in Seq(StCore), StOnce(L), StFits(L)
  PROVE  /\ /\ Gone \subseteq ToSet(stAdmins) /\ ToSet(L) = ToSet(stAdmins) \ Gone
            /\ GBecomes([FreeAdmins(G, Gone) EXCEPT !.admins = L])
            => StMove(G, G')
         /\ /\ Gone \subseteq ToSet(stOpers) /\ ToSet(L) = ToSet(stOpers) \ Gone
            /\ GBecomes([FreeOpers(G, Gone) EXCEPT !.opers = L])
            => StMove(G, G')
<1>0. StGood(G) /\ G.core = stCore /\ G.admins = stAdmins /\ G.opers = stOpers
  BY StOf
<1>1. ASSUME Gone \subseteq ToSet(stAdmins), ToSet(L) = ToSet(stAdmins) \ Gone,
             GBecomes([FreeAdmins(G, Gone) EXCEPT !.admins = L])
      PROVE  StMove(G, G')
  <2> DEFINE T == [FreeAdmins(G, Gone) EXCEPT !.admins = L]
  <2>1. T = [core |-> StFree(G.core, Gone, "ADMIN"), admins |-> L, opers |-> G.opers]
    BY <1>0, StTakeIs
  <2>2. GBecomes(T)
    BY <1>1
  <2> HIDE DEF T
  <2>3. StMove(G, T)
    BY <1>0, <1>1, <2>1, StTakes
  <2>. QED
    BY <2>2, <2>3, StMoved
<1>2. ASSUME Gone \subseteq ToSet(stOpers), ToSet(L) = ToSet(stOpers) \ Gone,
             GBecomes([FreeOpers(G, Gone) EXCEPT !.opers = L])
      PROVE  StMove(G, G')
  <2> DEFINE T == [FreeOpers(G, Gone) EXCEPT !.opers = L]
  <2>1. T = [core |-> StFree(G.core, Gone, "OPER"), admins |-> G.admins, opers |-> L]
    BY <1>0, StTakeIs
  <2>2. GBecomes(T)
    BY <1>2
  <2> HIDE DEF T
  <2>3. StMove(G, T)
    BY <1>0, <1>2, <2>1, StTakes
  <2>. QED
    BY <2>2, <2>3, StMoved
<1>. QED
  BY <1>1, <1>2

LEMMA StFreesIs ==
  ASSUME StInv, NEW Gone
  PROVE  FreeAdmins(G, Gone).admins = stAdmins /\ FreeOpers(G, Gone).opers = stOpers
BY StOf, StTakeIs

LEMMA StOnDels ==
  ASSUME StInv, NEW by \in StCore, NEW n \in StNick, NEW range \in StRanges
  PROVE  /\ AdminDelRange(by, range) => StMove(G, G')
         /\ OperDelRange(by, range) => StMove(G, G')
         /\ AdminDel(by, n) => StMove(G, G')
         /\ OperDel(by, n) => StMove(G, G')
         /\ AdminClear(by) => StMove(G, G')
         /\ OperClear(by) => StMove(G, G')
<1>0. /\ stAdmins \in Seq(StCore) /\ StOnce(stAdmins) /\ StFits(stAdmins)
      /\ stOpers \in Seq(StCore) /\ StOnce(stOpers) /\ StFits(stOpers)
  BY StOf DEF StList
<1>1. ASSUME AdminDelRange(by, range) PROVE StMove(G, G')
  <2> DEFINE L == SlistDeleteRange(stAdmins, range)
             Gone == {stAdmins[i] : i \in SlistEnum(stAdmins, range)}
  <2>1. /\ L \in Seq(StCore) /\ StOnce(L) /\ StFits(L)
        /\ Gone \subseteq ToSet(stAdmins) /\ ToSet(L) = ToSet(stAdmins) \ Gone
    BY <1>0, StRangeGoes
  <2>2. GBecomes([FreeAdmins(G, Gone) EXCEPT !.admins = L])
    BY <1>1, StFreesIs DEF AdminDelRange
  <2> HIDE DEF L, Gone
  <2>. QED
    BY <2>1, <2>2, StLeave
<1>2. ASSUME OperDelRange(by, range) PROVE StMove(G, G')
  <2> DEFINE L == SlistDeleteRange(stOpers, range)
             Gone == {stOpers[i] : i \in SlistEnum(stOpers, range)}
  <2>1. /\ L \in Seq(StCore) /\ StOnce(L) /\ StFits(L)
        /\ Gone \subseteq ToSet(stOpers) /\ ToSet(L) = ToSet(stOpers) \ Gone
    BY <1>0, StRangeGoes
  <2>2. GBecomes([FreeOpers(G, Gone) EXCEPT !.opers = L])
    BY <1>2, StFreesIs DEF OperDelRange
  <2> HIDE DEF L, Gone
  <2>. QED
    BY <2>1, <2>2, StLeave
<1>3. ASSUME AdminDel(by, n) PROVE StMove(G, G')
  <2> DEFINE c == CoreOf(G, n)
             L == SlistRemove(stAdmins, c)
             Gone == {c}
  <2>1. c \in ToSet(stAdmins)
    BY <1>3 DEF AdminDel
  <2>2. /\ L \in Seq(StCore) /\ StOnce(L) /\ StFits(L)
        /\ Gone \subseteq ToSet(stAdmins) /\ ToSet(L) = ToSet(stAdmins) \ Gone
    BY <1>0, <2>1, StRemoves
  <2>3. GBecomes([FreeAdmins(G, Gone) EXCEPT !.admins = L])
    BY <1>3, StFreesIs DEF AdminDel, FreeAdmin
  <2> HIDE DEF L, Gone
  <2>. QED
    BY <2>2, <2>3, StLeave
<1>4. ASSUME OperDel(by, n) PROVE StMove(G, G')
  <2> DEFINE c == CoreOf(G, n)
             L == SlistRemove(stOpers, c)
             Gone == {c}
  <2>1. c \in ToSet(stOpers)
    BY <1>4 DEF OperDel
  <2>2. /\ L \in Seq(StCore) /\ StOnce(L) /\ StFits(L)
        /\ Gone \subseteq ToSet(stOpers) /\ ToSet(L) = ToSet(stOpers) \ Gone
    BY <1>0, <2>1, StRemoves
  <2>3. GBecomes([FreeOpers(G, Gone) EXCEPT !.opers = L])
    BY <1>4, StFreesIs DEF OperDel, FreeOper
  <2> HIDE DEF L, Gone
  <2>. QED
    BY <2>2, <2>3, StLeave
<1>5. <<>> \in Seq(StCore) /\ StOnce(<<>>) /\ StFits(<<>>) /\ ToSet(<<>>) = {}
  <2>1. <<>> \in Seq(StCore) /\ Len(<<>>) = 0 /\ DOMAIN <<>> = {}
    OBVIOUS
  <2>. QED
    BY <2>1, StLimitAssumption DEF StOnce, StFits, ToSet
<1>6. ASSUME AdminClear(by) PROVE StMove(G, G')
  <2> DEFINE L == <<>>
             Gone == ToSet(stAdmins)
  <2>1. /\ L \in Seq(StCore) /\ StOnce(L) /\ StFits(L)
        /\ Gone \subseteq ToSet(stAdmins) /\ ToSet(L) = ToSet(stAdmins) \ Gone
    BY <1>5
  <2>2. GBecomes([FreeAdmins(G, Gone) EXCEPT !.admins = L])
    BY <1>6 DEF AdminClear
  <2> HIDE DEF L, Gone
  <2>. QED
    BY <2>1, <2>2, StLeave
<1>7. ASSUME OperClear(by) PROVE StMove(G, G')
  <2> DEFINE L == <<>>
             Gone == ToSet(stOpers)
  <2>1. /\ L \in Seq(StCore) /\ StOnce(L) /\ StFits(L)
        /\ Gone \subseteq ToSet(stOpers) /\ ToSet(L) = ToSet(stOpers) \ Gone
    BY <1>5
  <2>2. GBecomes([FreeOpers(G, Gone) EXCEPT !.opers = L])
    BY <1>7 DEF OperClear
  <2> HIDE DEF L, Gone
  <2>. QED
    BY <2>1, <2>2, StLeave
<1>. QED
  BY <1>1, <1>2, <1>3, <1>4, <1>6, <1>7

\* A restart: the lists are made again, and roots are looked up.
LEMMA StRestarts == StInv /\ StaffRestart => StMove(G, G')
<1> SUFFICES ASSUME StInv, StaffRestart PROVE StMove(G, G')
  OBVIOUS
<1> DEFINE Roots(c) == UNION {RootFlag(n) : n \in ToSet(stCore[c].aliases)}
           loaded == [c \in StCore |-> IF stCore[c] = StNone THEN StNone
                         ELSE [stCore[c] EXCEPT !.flags = (@ \ {"ROOT"}) \cup Roots(c)]]
           T == [core |-> loaded, admins |-> StAgain("ADMIN"), opers |-> StAgain("OPER")]
<1>0. /\ StGood(G) /\ G.core = stCore /\ G.admins = stAdmins /\ G.opers = stOpers
      /\ StCores(stCore) /\ StList(stCore, "ADMIN", stAdmins) /\ StList(stCore, "OPER", stOpers)
  BY StOf
<1>1. GBecomes(T)
  BY Zenon DEF StaffRestart, StAgain
<1>2. ASSUME NEW c \in StCore
      PROVE  /\ Roots(c) \subseteq {"ROOT"}
             /\ "ROOT" \in Roots(c) <=> ToSet(stCore[c].aliases) \cap StRoots # {}
  BY DEF RootFlag
<1>3. ASSUME NEW c \in StCore, stCore[c] # StNone
      PROVE  /\ loaded[c] \in NickCore /\ loaded[c] # StNone
             /\ loaded[c].aliases = stCore[c].aliases /\ loaded[c].display = stCore[c].display
             /\ loaded[c].verboten = stCore[c].verboten
             /\ loaded[c].flags = (stCore[c].flags \ {"ROOT"}) \cup Roots(c)
  <2> DEFINE r == stCore[c]
             f == (r.flags \ {"ROOT"}) \cup Roots(c)
  <2>1. /\ r = StRecord(r.aliases, r.display, r.flags, r.verboten)
        /\ r.aliases \in Seq(StNick) /\ r.display \in StNick /\ r.flags \subseteq Flags /\ r.verboten \in BOOLEAN
    BY <1>0, <1>3, StLive
  <2>2. f \subseteq Flags
    BY <1>2, <2>1 DEF Flags
  <2>3. loaded[c] = [r EXCEPT !.flags = f]
    BY <1>3
  <2> HIDE DEF loaded, r, f
  <2>4. [r EXCEPT !.flags = f] = StRecord(r.aliases, r.display, f, r.verboten)
    BY <2>1, StRecs
  <2> DEFINE q == StRecord(r.aliases, r.display, f, r.verboten)
  <2>5. q \in NickCore /\ q # StNone
    BY <2>1, <2>2, StNicks
  <2>6. q.aliases = r.aliases /\ q.display = r.display /\ q.flags = f /\ q.verboten = r.verboten
    BY StRecs
  <2> HIDE DEF q
  <2>7. loaded[c] = q
    BY <2>3, <2>4 DEF q
  <2>. QED
    BY <2>5, <2>6, <2>7 DEF r, f
<1>4. \A c \in StCore : stCore[c] = StNone => loaded[c] = StNone
  OBVIOUS
<1>5. loaded = [c \in StCore |-> loaded[c]]
  OBVIOUS
<1> HIDE DEF loaded
<1>6. loaded \in [StCore -> NickCore \cup {StNone}]
  BY <1>3, <1>4, <1>5
<1>7. StSame(stCore, loaded)
  BY <1>3, <1>4, <1>6 DEF StSame
<1>8. StCores(loaded)
  BY <1>0, <1>7, StSameGood
<1>9. StHolders(loaded, "ADMIN") = StHolders(stCore, "ADMIN") /\ StHolders(loaded, "OPER") = StHolders(stCore, "OPER")
  <2>1. \A c \in StCore : stCore[c] # StNone =>
            /\ "ADMIN" \in loaded[c].flags <=> "ADMIN" \in stCore[c].flags
            /\ "OPER" \in loaded[c].flags <=> "OPER" \in stCore[c].flags
    <3> SUFFICES ASSUME NEW c \in StCore, stCore[c] # StNone
                 PROVE  /\ "ADMIN" \in loaded[c].flags <=> "ADMIN" \in stCore[c].flags
                        /\ "OPER" \in loaded[c].flags <=> "OPER" \in stCore[c].flags
      OBVIOUS
    <3>1. loaded[c].flags = (stCore[c].flags \ {"ROOT"}) \cup Roots(c) /\ Roots(c) \subseteq {"ROOT"}
      BY <1>2, <1>3
    <3> HIDE DEF Roots
    <3>. QED
      BY <3>1
  <2>2. \A c \in StCore : loaded[c] = StNone <=> stCore[c] = StNone
    BY <1>3, <1>4
  <2>. QED
    BY <2>1, <2>2 DEF StHolders
<1>10. StList(stCore, "ADMIN", StAgain("ADMIN")) /\ StList(stCore, "OPER", StAgain("OPER"))
  BY <1>0, StListsAgain
<1>11. StGood(T)
  BY <1>8, <1>9, <1>10 DEF StGood, StList
<1>12. StRooted(loaded)
  <2> SUFFICES ASSUME NEW c \in StCore, loaded[c] # StNone
               PROVE  ("ROOT" \in loaded[c].flags) <=> (ToSet(loaded[c].aliases) \cap StRoots # {})
    BY DEF StRooted
  <2>1. stCore[c] # StNone
    BY <1>4
  <2>2. loaded[c].aliases = stCore[c].aliases /\ loaded[c].flags = (stCore[c].flags \ {"ROOT"}) \cup Roots(c)
    BY <1>3, <2>1
  <2>3. "ROOT" \in Roots(c) <=> ToSet(stCore[c].aliases) \cap StRoots # {}
    BY <1>2
  <2> HIDE DEF Roots
  <2>. QED
    BY <2>2, <2>3
<1>13. StMove(G, T)
  BY <1>11, <1>12 DEF StMove
<1> HIDE DEF T
<1>. QED
  BY <1>1, <1>13, StMoved

LEMMA StStarts == StaffInit => StInv
<1> SUFFICES ASSUME StaffInit PROVE StInv
  OBVIOUS
<1>1. /\ stCore = [c \in StCore |-> StNone] /\ stAdmins = <<>> /\ stOpers = <<>>
  BY DEF StaffInit
<1>2. <<>> \in Seq(StCore) /\ StOnce(<<>>) /\ StFits(<<>>) /\ ToSet(<<>>) = {}
  <2>1. <<>> \in Seq(StCore) /\ Len(<<>>) = 0 /\ DOMAIN <<>> = {}
    OBVIOUS
  <2>. QED
    BY <2>1, StLimitAssumption DEF StOnce, StFits, ToSet
<1>3. StCores(stCore) /\ \A role : StHolders(stCore, role) = {}
  BY <1>1 DEF StCores, StHolders, StHas
<1>4. StList(stCore, "ADMIN", stAdmins) /\ StList(stCore, "OPER", stOpers)
  BY <1>1, <1>2, <1>3 DEF StList
<1>. QED
  BY <1>3, <1>4 DEF StInv, StGood, G

LEMMA StSteps ==
  ASSUME StInv, [StaffNext]_staffVars
  PROVE  StMove(G, G') \/ UNCHANGED staffVars
<1>1. CASE StaffNext
  <2>1. CASE \E c \in StCore, n \in StNick : StaffConfirm(c, n) \/ SetDisplay(c, n)
    BY <2>1, StOnNicks
  <2>2. CASE \E n, target \in StNick : StaffGroup(n, target)
    <3>1. PICK n \in StNick, target \in StNick : StaffGroup(n, target)
      BY <2>2
    <3>2. StCore # {}
      BY <3>1 DEF StaffGroup, StRegistered
    <3>. QED
      BY <3>1, <3>2, StOnNicks
  <2>3. CASE \E n \in StNick : StaffExpire(n)
    <3>1. PICK n \in StNick : StaffExpire(n)
      BY <2>3
    <3>2. StCore # {}
      BY <3>1 DEF StaffExpire, StRegistered
    <3>. QED
      BY <3>1, <3>2, StOnNicks
  <2>4. ASSUME NEW by \in StCore, NEW n \in StNick,
               StaffDrop(by, n) \/ StaffForbid(by, n) \/ AdminAdd(by, n) \/ OperAdd(by, n)
               \/ AdminDel(by, n) \/ OperDel(by, n)
        PROVE  StMove(G, G')
    <3>1. <<<<1, 1>>>> \in StRanges
      BY DEF StRanges
    <3>. QED
      BY <2>4, <3>1, StOnNicks, StOnAdds, StOnDels
  <2>5. ASSUME NEW by \in StCore, AdminClear(by) \/ OperClear(by) \/ \E r \in StRanges : AdminDelRange(by, r) \/ OperDelRange(by, r)
        PROVE  StMove(G, G')
    <3>1. <<<<1, 1>>>> \in StRanges
      BY DEF StRanges
    <3>2. StNick # {}
      <4>1. stCore[by] # StNone
        BY <2>5 DEF AdminClear, OperClear, AdminDelRange, OperDelRange, Live, G
      <4>2. stCore[by].display \in StNick
        BY <4>1, StOf, StLive
      <4>. QED
        BY <4>2
    <3>. QED
      BY <2>5, <3>1, <3>2, StOnDels
  <2>6. CASE StaffRestart
    BY <2>6, StRestarts
  <2>. QED
    BY <1>1, <2>1, <2>2, <2>3, <2>4, <2>5, <2>6 DEF StaffNext
<1>2. CASE UNCHANGED staffVars
  BY <1>2
<1>. QED
  BY <1>1, <1>2

LEMMA StHolds ==
  ASSUME StInv, [StaffNext]_staffVars
  PROVE  StInv'
<1>1. CASE StMove(G, G')
  BY <1>1 DEF StMove, StInv
<1>2. CASE UNCHANGED staffVars
  <2>1. G' = G
    BY <1>2 DEF G, staffVars
  <2>. QED
    BY <2>1 DEF StInv
<1>. QED
  BY <1>1, <1>2, StSteps

\* What the runs check: the lists, and who a root's flag may stay with.
LEMMA StLists == StInv => StaffListed
<1> SUFFICES ASSUME StInv PROVE StaffListed
  OBVIOUS
<1>0. StCores(stCore) /\ StList(stCore, "ADMIN", stAdmins) /\ StList(stCore, "OPER", stOpers)
  BY StOf
<1>1. \A role : {c \in Live(G) : role \in stCore[c].flags} = StHolders(stCore, role)
  BY DEF Live, G, StHolders
<1>2. ASSUME NEW role, NEW list, StList(stCore, role, list)
      PROVE  ToSet(list) = StHolders(stCore, role) /\ Cardinality(ToSet(list)) = Len(list)
  <2>1. list \in Seq(StCore) /\ StOnce(list)
    BY <1>2 DEF StList
  <2>2. Cardinality(ToSet(list)) = Len(list)
    BY <2>1, StCounts
  <2>. QED
    BY <1>2, <2>2 DEF StList
<1>3. \A c \in Live(G) : stCore[c].display \in ToSet(stCore[c].aliases)
  BY <1>0 DEF Live, G, StCores
<1>. QED
  BY <1>0, <1>1, <1>2, <1>3 DEF StaffListed

StStep == RootsByNick => (RootsByNick' \/ \E n \in StRoots : Leaves(n))

LEMMA StLeaves ==
  ASSUME StInv, [StaffNext]_staffVars
  PROVE  [StStep]_staffVars
<1>1. RootsByNick <=> StRooted(G.core)
  BY DEF RootsByNick, StRooted, Live, G
<1>2. RootsByNick' <=> StRooted((G').core)
  BY DEF RootsByNick, StRooted, Live, G
<1>3. ASSUME NEW n, NEW c \in StCore, StHas(G.core, c, n), ~StHas((G').core, c, n) PROVE Leaves(n)
  <2>1. HasNick(G, c, n)
    BY <1>3, StGCore
  <2>2. stCore'[c] # StNone => n \notin ToSet(stCore'[c].aliases)
    BY <1>3 DEF StHas, G
  <2>. QED
    BY <2>1, <2>2 DEF Leaves
<1>4. StMove(G, G') => (RootsByNick => (RootsByNick' \/ \E n \in StRoots : Leaves(n)))
  BY <1>1, <1>2, <1>3 DEF StMove
<1>. QED
  BY <1>4, StSteps DEF StStep

-----------------------------------------------------------------------------
(* All parts together.                                                     *)

PartsInv ==
    /\ DbInv /\ NkInv /\ NkListInv /\ BfInv /\ HsInv /\ BxInv /\ BxWordsInv
    /\ MlInv /\ BtInv /\ OpInv /\ CnInv /\ CbInv /\ MmInv /\ NwInv
    /\ ApInv /\ ClInv /\ HyInv
    /\ DcInv /\ ChanTopicsTypeOK /\ MlFull /\ CbFull
    /\ XInv /\ StInv

LEMMA PartsStart == PartsInit => PartsInv
<1> SUFFICES ASSUME PartsInit PROVE PartsInv
  OBVIOUS
<1>1. /\ DatabasesInit /\ NickOptionsInit /\ BuffersInit /\ HostsInit /\ BotSettingsInit
      /\ ModeLockInit /\ BotsInit /\ OpersInit /\ ChanNotesInit /\ ChanBansInit /\ MemosInit
      /\ NewsInit /\ AccessPagesInit /\ ClonesInit /\ HistoryInit
      /\ DefConInit /\ ChanTopicsInit /\ XlineInit /\ StaffInit
  BY DEF PartsInit
<1>2. DbInv /\ NkInv /\ NkListInv /\ BfInv /\ HsInv /\ BxInv /\ BxWordsInv
  BY <1>1, DbStarts, NkStarts, NkListStarts, BfStarts, HsStarts, BxStarts, BxWordsStarts
<1>3. MlInv /\ BtInv /\ OpInv /\ CnInv /\ CbInv /\ MmInv /\ NwInv
  BY <1>1, MlStarts, BtStarts, OpStarts, CnStarts, CbStarts, MmStarts, NwStarts
<1>4. ApInv /\ ClInv /\ HyInv
  BY <1>1, ApStarts, ClStarts, HyStarts
<1>5. DcInv /\ ChanTopicsTypeOK /\ MlFull /\ CbFull
  BY <1>1, DcStarts, CtStarts, MlFullStarts, CbFullStarts
<1>6. XInv /\ StInv
  BY <1>1, XStarts, StStarts
<1>. QED
  BY <1>2, <1>3, <1>4, <1>5, <1>6 DEF PartsInv

\* A step of one part is none of the others.
LEMMA PartsMoves ==
  ASSUME [PartsNext]_allVars
  PROVE  /\ [DatabasesNext]_dbVars /\ [NickOptionsNext]_nkVars /\ [BuffersNext]_bfVars
         /\ [HostsNext]_hsVars /\ [BotSettingsNext]_bxVars /\ [ModeLockNext]_mlVars
         /\ [BotsNext]_btVars /\ [OpersNext]_opVars /\ [ChanNotesNext]_cnVars
         /\ [ChanBansNext]_cbVars /\ [MemosNext]_mmVars /\ [NewsNext]_nwVars
         /\ [AccessPagesNext]_apVars /\ [ClonesNext]_clVars /\ [HistoryNext]_hyVars
         /\ [DefConNext]_dcVars /\ [ChanTopicsNext]_ctVars
         /\ [XlineNext]_xlineVars /\ [StaffNext]_staffVars
BY DEF PartsNext, allVars, ListVars, ChanVars, NickVars, BotVars, DiskVars

LEMMA PartsSteps == PartsInv /\ [PartsNext]_allVars => PartsInv'
<1> SUFFICES ASSUME PartsInv, [PartsNext]_allVars PROVE PartsInv'
  OBVIOUS
<1>1. /\ DbInv /\ NkInv /\ NkListInv /\ BfInv /\ HsInv /\ BxInv /\ BxWordsInv
      /\ MlInv /\ BtInv /\ OpInv /\ CnInv /\ CbInv /\ MmInv /\ NwInv
      /\ ApInv /\ ClInv /\ HyInv
      /\ DcInv /\ ChanTopicsTypeOK /\ MlFull /\ CbFull
      /\ XInv /\ StInv
  BY DEF PartsInv
<1>2. DbInv' /\ NkInv' /\ NkListInv' /\ BfInv' /\ HsInv' /\ BxInv' /\ BxWordsInv'
  BY <1>1, PartsMoves, DbSteps, NkSteps, NkListSteps, BfSteps, HsSteps, BxSteps, BxWordsSteps
<1>3. MlInv' /\ BtInv' /\ OpInv' /\ CnInv' /\ CbInv' /\ MmInv' /\ NwInv'
  BY <1>1, PartsMoves, MlSteps, BtSteps, OpSteps, CnSteps, CbSteps, MmSteps, NwSteps
<1>4. ApInv' /\ ClInv' /\ HyInv'
  BY <1>1, PartsMoves, ApSteps, ClSteps, HySteps
<1>5. DcInv' /\ ChanTopicsTypeOK' /\ MlFull' /\ CbFull'
  BY <1>1, PartsMoves, DcSteps, CtTypes, MlFullSteps, CbFullSteps
<1>6. XInv' /\ StInv'
  BY <1>1, PartsMoves, XSteps, StHolds
<1>. QED
  BY <1>2, <1>3, <1>4, <1>5, <1>6 DEF PartsInv

LEMMA PartsAlways == PartsSpec => []PartsInv
BY PartsStart, PartsSteps, PTL DEF PartsSpec

\* A socket delivers what was put into its ring, in that order, however the
\* bytes come and whatever is asked of it (sockutil.c).
THEOREM BytesInOrder == PartsSpec => []InOrder
<1>1. PartsInv => InOrder
  BY BfInOrder DEF PartsInv
<1>. QED
  BY <1>1, PartsAlways, PTL

\* A list has one entry for what it is about, and a number means one entry:
\* autokicks and bad words by whatever is added, changed and removed; memos in
\* the order of their numbers, also when those overflow and all are numbered
\* again; news of each type by number; masks of a nick; and no group finds an
\* AUTOOP entry that another one left (chanserv.c, memoserv.c, news.c, nickserv.c).
THEOREM EntriesAreOnce == PartsSpec => []EntriesOnce
<1>1. PartsInv => EntriesOnce
  BY BxWordsOnce, CnOnce, MmOnce, NwOnce DEF PartsInv, EntriesOnce, CbInv, NkListInv
<1>. QED
  BY <1>1, PartsAlways, PTL

\* The counters that services keep beside their lists agree with them whoever
\* comes, goes and is changed: the channels of a bot, opers and users; and the
\* bans that a bot lifts when it joins are those that hit it, for any list of
\* bans (botserv.c, users.c).
THEOREM CountsAreKept == PartsSpec => []CountsKept
<1>1. PartsInv => CountsKept
  BY BtCounts, OpCounts, BtLifts DEF PartsInv, CountsKept
<1>. QED
  BY <1>1, PartsAlways, PTL

\* Settings stay what was asked for and never contradict each other, for any
\* groups, vhosts, kickers and mode strings: the vhost list, its copies in the
\* groups, the protection of a nick, hidden data, passwords of admins, numbers
\* of kickers and the modes of a lock (hostserv.c, nickserv.c, botserv.c, chanserv.c).
THEOREM SettingsAreSound == PartsSpec => []OptionsSound
<1>1. PartsInv => OptionsSound
  BY HsAsGiven, BxWork, MlLocksWell DEF PartsInv, OptionsSound, NkInv
<1>. QED
  BY <1>1, PartsAlways, PTL

\* What is reported is reported whole: a reader who follows the footers of an
\* access list sees every entry that stays once, unless a page is empty;
\* LASTCMDS has the last commands of a group on a channel, as many as the limit,
\* as long as its statements succeed; and no burst of clones that the table
\* still holds is missed, for any sizes, delays and numbers (chanserv.c, operserv.c).
THEOREM ReportsAreComplete == PartsSpec => []ReportsComplete
<1>1. PartsInv => ReportsComplete
  BY HyLast DEF PartsInv, ReportsComplete, ApInv, ClInv
<1>. QED
  BY <1>1, PartsAlways, PTL

\* Services' records of channels have the modes, bans and topics that the
\* channels are held to, whatever servers, users and founders do in whatever
\* order, also when everybody leaves and somebody comes back, and for any modes,
\* masks, topics and settings: locked modes are put back, stuck masks stay
\* banned, a ban the network has is known unless it is one of the two cases
\* OnlyInhabitHides names, a locked topic stays, the modes of a DEFCON go with
\* it; and CANCEL takes only the sender's own unread memo.  A bot lifts bans on
\* itself, so that what founders stick must not be one of those (chanserv.c,
\* channels.c, operserv.c, botserv.c, memoserv.c).
THEOREM RecordsAreHeld ==
  ASSUME CbStuckMasks \cap CbBotMasks = {}
  PROVE  PartsSpec => RecordsHold
<1>1. PartsInv /\ [PartsNext]_allVars => [MlStep]_mlVars /\ [CbStuckStep]_cbVars
  BY PartsMoves, MlEnforced, CbStays DEF PartsInv
<1>2. PartsInv /\ [PartsNext]_allVars => [CbKnownStep]_cbVars /\ [CtStep]_ctVars
  BY PartsMoves, CbHides, CtLocks DEF PartsInv
<1>3. PartsInv /\ [PartsNext]_allVars => [DcStep]_dcVars /\ [MmStep]_mmVars
  BY PartsMoves, DcLifts, MmOwn DEF PartsInv
<1>4. PartsSpec => [][MlStep]_mlVars /\ [][CbStuckStep]_cbVars
  BY <1>1, PartsAlways, PTL DEF PartsSpec
<1>5. PartsSpec => [][CbKnownStep]_cbVars /\ [][CtStep]_ctVars
  BY <1>2, PartsAlways, PTL DEF PartsSpec
<1>6. PartsSpec => [][DcStep]_dcVars /\ [][MmStep]_mmVars
  BY <1>3, PartsAlways, PTL DEF PartsSpec
<1>7. [][MlStep]_mlVars <=> LockEnforced
  BY DEF MlStep, LockEnforced
<1>8. [][CbStuckStep]_cbVars <=> StuckStays
  BY DEF CbStuckStep, StuckStays
<1>9. [][CbKnownStep]_cbVars <=> OnlyInhabitHides
  BY DEF CbKnownStep, OnlyInhabitHides
<1>10. [][CtStep]_ctVars <=> LockedTopicStays
  BY DEF CtStep, LockedTopicStays
<1>11. [][DcStep]_dcVars <=> LiftReachesAll
  BY DEF DcStep, LiftReachesAll
<1>12. [][MmStep]_mmVars <=> CancelsOwnUnread
  BY DEF MmStep, CancelsOwnUnread
<1>. QED
  BY <1>4, <1>5, <1>6, <1>7, <1>8, <1>9, <1>10, <1>11, <1>12, PTL DEF RecordsHold

\* The lists that keep users out and those of the staff stay what they promise
\* to be, for any masks, expiries, limits, nicks and ranks.  An AKILL, SGLINE or
\* SQLINE that is added, and in whose favour others are deleted while the loop
\* counts on, lets nobody in whom they kept out, nor for less long, but that 0,
\* never, compares as the earliest of all times (operserv.c:1832).  DEL by
\* numbers takes what LIST shows (slist.c).  Whoever has the flag of a services
\* admin or operator is in that list, once, and nobody else is, whatever becomes
\* of the nicks (os_remove_nick in operserv.c, delnick in nickserv.c).
THEOREM ListsAreKept == PartsSpec => []ListsKept
<1>1. PartsInv => ListsKept
  BY XKeepsOut, XDelMatches, StLists DEF PartsInv, ListsKept
<1>. QED
  BY <1>1, PartsAlways, PTL

\* Two states of which one should follow the other part for one reason alone:
\* what the network bans and what the lists say, when services crash; the flag
\* of a services root and his nick, when that nick leaves a group that goes on
\* (operserv.c, nickserv.c).
THEOREM OnlyKnownCausesPart == PartsSpec => OnlyKnownCauses
<1>1. PartsInv /\ [PartsNext]_allVars => [XlStep]_xlineVars /\ [StStep]_staffVars
  BY PartsMoves, XDiverges, StLeaves DEF PartsInv
<1>2. PartsSpec => [][XlStep]_xlineVars /\ [][StStep]_staffVars
  BY <1>1, PartsAlways, PTL DEF PartsSpec
<1>3. [][XlStep]_xlineVars <=> OnlyCrashesDiverge
  BY DEF XlStep, OnlyCrashesDiverge
<1>4. [][StStep]_staffVars <=> OnlyLeavingRootsStay
  BY DEF StStep, OnlyLeavingRootsStay
<1>. QED
  BY <1>2, <1>3, <1>4, PTL DEF OnlyKnownCauses
================================================================================
