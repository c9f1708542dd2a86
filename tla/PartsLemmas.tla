------------------------------ MODULE PartsLemmas ------------------------------
(***************************************************************************)
(* The inductive invariants of the parts that MCParts puts together, part  *)
(* by part: that the part starts with it, that each of its steps keeps it, *)
(* and which promises follow from it.  PartsProofs puts them together; the *)
(* theorems of the files and the settings of a nick are here.              *)
(***************************************************************************)
EXTENDS Hosts, ModeLock, Bots, Opers, BotSettings, Buffers, Databases,
        NickOptions, ChanNotes, ChanBans, Memos, News, AccessPages, Clones,
        History, ChanTopics, DefCon, Xlines, Staff, FiniteSetTheorems, SequenceTheorems, TLAPS

-----------------------------------------------------------------------------
(* Folds, whose turns are told apart by what they do.                      *)

\* A set of natural numbers has a least one.
LEMMA LeastNat ==
  ASSUME NEW S, S \subseteq Nat, S # {}
  PROVE  \E n \in S : \A m \in S : n <= m
<1> DEFINE T == {0..n : n \in S}
           R == StrictSubsetOrdering(Nat)
<1>1. IsWellFoundedOn(R, FiniteSubsetsOf(Nat))
  BY FS_StrictSubsetOrderingWellFounded
<1>2. T \subseteq FiniteSubsetsOf(Nat)
  <2>1. ASSUME NEW n \in S PROVE IsFiniteSet(0..n) /\ 0..n \subseteq Nat
    <3>1. 0 \in Int /\ n \in Int
      OBVIOUS
    <3>2. IsFiniteSet(0..n)
      BY <3>1, FS_Interval
    <3> QED BY <3>2
  <2> QED BY <2>1 DEF FiniteSubsetsOf
<1>3. T # {}
  OBVIOUS
<1> HIDE DEF T, R
<1>4. PICK x \in T : \A y \in T : ~ (<<y, x>> \in R)
  BY <1>1, <1>2, <1>3, WFMin
<1>5. PICK n \in S : x = 0..n
  BY DEF T
<1>6. ASSUME NEW m \in S, m < n PROVE FALSE
  <2>1. 0..m \in T
    BY DEF T
  <2>2. 0..m \in SUBSET Nat /\ 0..n \in SUBSET Nat /\ 0..m \subseteq 0..n
    <3>1. m \in Nat /\ n \in Nat
      OBVIOUS
    <3> QED BY <1>6, <3>1
  <2>3. n \in 0..n /\ n \notin 0..m
    BY <1>6
  <2>4. 0..m # 0..n
    BY <2>3
  <2>5. <<0..m, 0..n>> \in R
    BY <2>2, <2>4 DEF R, StrictSubsetOrdering
  <2> QED BY <2>1, <2>5, <1>4, <1>5
<1> QED BY <1>6

LEMMA NatInd ==
  ASSUME NEW S, 0 \in S, \A n \in Nat : n \in S => n + 1 \in S
  PROVE  Nat \subseteq S
<1> SUFFICES ASSUME Nat \ S # {} PROVE FALSE
  OBVIOUS
<1>1. Nat \ S \subseteq Nat
  OBVIOUS
<1>2. PICK n \in Nat \ S : \A m \in Nat \ S : n <= m
  BY <1>1, LeastNat
<1>3. n # 0 /\ n - 1 \in Nat
  OBVIOUS
<1>4. n - 1 \in S
  BY <1>2, <1>3
<1>5. n - 1 + 1 \in S
  BY <1>3, <1>4
<1> QED BY <1>5

LEMMA MaxOf ==
  ASSUME NEW n \in Nat, NEW t, t \subseteq 1..n, n \in t
  PROVE  Max(t) = n
<1>1. \A y \in t : n >= y
  OBVIOUS
<1>2. \A x \in t : (\A y \in t : x >= y) => x = n
  OBVIOUS
<1> QED BY <1>1, <1>2 DEF Max

LEMMA MaxIn ==
  ASSUME NEW n \in Nat, NEW t, t \subseteq 1..n, t # {}
  PROVE  Max(t) \in t
<1> DEFINE I == {n - x : x \in t}
<1>1. I \subseteq Nat /\ I # {}
  <2>1. \A x \in t : x \in Nat /\ x <= n
    OBVIOUS
  <2>2. \A x \in t : n - x \in Nat
    BY <2>1
  <2> QED BY <2>2
<1>2. PICK m \in I : \A j \in I : m <= j
  BY <1>1, LeastNat
<1>3. PICK y \in t : m = n - y
  BY <1>2
<1>4. \A x \in t : y >= x
  <2> SUFFICES ASSUME NEW x \in t PROVE y >= x
    OBVIOUS
  <2>1. n - x \in I /\ m <= n - x
    BY <1>2
  <2>2. x \in Nat /\ y \in Nat
    OBVIOUS
  <2> QED BY <1>3, <2>1, <2>2
<1> QED BY <1>4 DEF Max

LEMMA RemoveAtShifts ==
  ASSUME NEW R, NEW s \in Seq(R), NEW i \in DOMAIN s
  PROVE  /\ RemoveAt(s, i) \in Seq(R)
         /\ Len(RemoveAt(s, i)) = Len(s) - 1
         /\ \A j \in 1..(Len(s) - 1) :
               RemoveAt(s, i)[j] = IF j < i THEN s[j] ELSE s[j + 1]
<1> DEFINE a == SubSeq(s, 1, i - 1)
           b == SubSeq(s, i + 1, Len(s))
<1>1. /\ a \in Seq(R) /\ Len(a) = i - 1 /\ \A j \in 1..(i - 1) : a[j] = s[j]
      /\ b \in Seq(R) /\ Len(b) = Len(s) - i /\ \A j \in 1..(Len(s) - i) : b[j] = s[i + j]
  OBVIOUS
<1> HIDE DEF a, b
<1>2. /\ a \o b \in Seq(R) /\ Len(a \o b) = Len(s) - 1
      /\ \A j \in 1..(Len(s) - 1) : (a \o b)[j] = IF j < i THEN a[j] ELSE b[j - i + 1]
  BY <1>1
<1>3. RemoveAt(s, i) = a \o b
  BY DEF RemoveAt, a, b
<1>4. ASSUME NEW j \in 1..(Len(s) - 1)
      PROVE  (a \o b)[j] = IF j < i THEN s[j] ELSE s[j + 1]
  <2>1. CASE j < i
    BY <1>1, <1>2, <2>1
  <2>2. CASE ~(j < i)
    <3>1. j - i + 1 \in 1..(Len(s) - i) /\ i + (j - i + 1) = j + 1
      BY <2>2
    <3> QED BY <1>1, <1>2, <2>2, <3>1
  <2> QED BY <2>1, <2>2
<1> QED BY <1>2, <1>3, <1>4

\* One character of a mode string, as SetUmode takes it.
OpStep(n, S, ch) ==
    IF ch \in {"+", "-"} THEN [S EXCEPT !.add = (ch = "+")]
    ELSE [S EXCEPT
            !.mode = IF S.add /\ (ch = "r" => n \in OpIdentified) THEN @ \cup {ch} ELSE @ \ {ch},
            !.opcnt = IF ch # "o" THEN @ ELSE IF S.add THEN @ + 1 ELSE @ - 1]
\* One ban, as BotJoinBans looks at it.
BtPlaces(S, m) == {i \in 1..S.count : S.arr[i] = m}
BtFirst(S, m) == CHOOSE k \in BtPlaces(S, m) : \A l \in BtPlaces(S, m) : k <= l
BtDelBan(S, m) ==
    IF BtPlaces(S, m) = {} THEN S
    ELSE [arr |-> [k \in DOMAIN S.arr |-> IF k \in BtFirst(S, m)..(S.count - 1) THEN S.arr[k + 1]
                                          ELSE S.arr[k]],
          count |-> S.count - 1]
BtJoinStep(b, bans, S, i) == IF BtHits(S.arr[i], b) THEN BtDelBan(S, bans[i]) ELSE S
\* One item, as DelNewsitem looks at it.
NwKeep(left, n, num, type) == IF NewsGoes(n, num, type) THEN left ELSE Append(left, n)

\* One autokick, as StickAll looks at it.
CbSet(bot, S, m) ==
    LET set == [S EXCEPT !.net = @ \cup {m}]
    IN  IF bot /\ m \in CbBotMasks THEN [set EXCEPT !.net = @ \ {m}]
        ELSE [set EXCEPT !.bans = Append(@, m)]
CbStick(bot, S, slot) == IF slot.used /\ slot.stuck THEN CbSet(bot, S, slot.who) ELSE S

\* One entry, as slist_pack() looks at it, and one pair, as slist_delete_range() does.
Close(holes, l, i) == IF i \in holes THEN SlistDelete(l, i) ELSE l
Nulled(list, holes, pair) == holes \cup RangeOf(list, pair)

\* One entry of the bans, as a new mask and as the clock look at it, and one
\* host, as ChanKill does.
XVisit(mask, expires, seen, longer, shorter, R, i) ==
    LET e == R.S.list[i] IN
    IF R.res # "go" \/ i \notin seen THEN R
    ELSE IF e.mask = mask THEN
        IF Outlasts(e, expires) THEN [R EXCEPT !.res = "refused"]
        ELSE [R EXCEPT !.res = "changed", !.S.list[i].expires = expires]
    ELSE IF XCovers(e.mask, mask) /\ i \in longer THEN [R EXCEPT !.res = "refused"]
    ELSE IF XCovers(mask, e.mask) /\ i \in shorter THEN [R EXCEPT !.S = DeleteEntry(R.S, i)]
    ELSE R
XExpire(now, R, i) ==
    IF R.list[i].expires # 0 /\ R.list[i].expires <= now THEN DeleteEntry(R, i) ELSE R
XChanKill(until, S, h) == CheckAkill(AddAkill(S, h, until), CHOOSE t \in XHits[h] : TRUE)

\* One core that has a role, as StaffRestart looks at it.
StBehind(core, c, list) ==
    {i \in DOMAIN list : StRank[core[c].display] <= StRank[core[list[i]].display]}
StAdd(core, list, c) == SlistAddSorted(list, StLimit, c, StBehind(core, c, list))

\* What a fold does in its i-th turn.
Turn(a, w, i) ==
    CASE a.fold = "sync" -> AddHostCore(w, a.list[i], a.v)
      [] a.fold = "del" -> DelHostCore(w, a.list[i])
      [] a.fold = "load" -> AddHostCore(w, a.list[i].nick, a.list[i].vHost)
      [] a.fold = "lock" -> LockChange(w, a.list[i])
      [] a.fold = "umode" -> OpStep(a.n, w, a.list[i])
      [] a.fold = "join" -> BtJoinStep(a.b, a.bans, w, a.list[i])
      [] a.fold = "read" -> ReadMemo(w, a.list[i])
      [] a.fold = "delmemo" -> Delmemo(w, a.list[i])
      [] a.fold = "news" -> NwKeep(w, a.list[i], a.num, a.type)
      [] a.fold = "apply" -> ApplyChange(w, a.list[i])
      [] a.fold = "stick" -> CbStick(a.bot, w, a.list[i])
      [] a.fold = "pack" -> Close(a.holes, w, a.list[i])
      [] a.fold = "nulled" -> Nulled(a.of, w, a.list[i])
      [] a.fold = "visit" -> XVisit(a.mask, a.expires, a.seen, a.longer, a.shorter, w, a.list[i])
      [] a.fold = "expire" -> XExpire(a.now, w, a.list[i])
      [] a.fold = "chankill" -> XChanKill(a.until, w, a.list[i])
      [] a.fold = "staff" -> StAdd(a.core, w, a.list[i])

\* g is the function a fold over D is defined by.
IsFold(a, v, D, g) ==
    g = [t \in SUBSET D |-> IF t = {} THEN v ELSE Turn(a, g[t \ {Max(t)}], Max(t))]

LEMMA FoldExists ==
  ASSUME NEW a, NEW v, NEW k \in Nat
  PROVE  \E g : IsFold(a, v, 1..k, g)
<1> DEFINE Step(g, t) == IF t = {} THEN v ELSE Turn(a, g[t \ {Max(t)}], Max(t))
           S == {n \in Nat : \E g : g = [t \in SUBSET (1..n) |-> Step(g, t)]}
<1>1. \A g, h, t : (t # {} => g[t \ {Max(t)}] = h[t \ {Max(t)}]) => Step(g, t) = Step(h, t)
  OBVIOUS
<1>2. \A g : Step(g, {}) = v
  OBVIOUS
<1> HIDE DEF Step
<1>3. 0 \in S
  <2> DEFINE g == [t \in SUBSET (1..0) |-> v]
  <2>1. \A t \in SUBSET (1..0) : t = {}
    OBVIOUS
  <2>2. \A t \in SUBSET (1..0) : Step(g, t) = v
    BY <1>2, <2>1
  <2>3. g = [t \in SUBSET (1..0) |-> Step(g, t)]
    BY <2>2
  <2> QED BY <2>3
<1>4. ASSUME NEW n \in Nat, n \in S PROVE n + 1 \in S
  <2>1. PICK g : g = [t \in SUBSET (1..n) |-> Step(g, t)]
    BY <1>4
  <2> DEFINE h == [t \in SUBSET (1..(n + 1)) |-> IF n + 1 \in t THEN Step(g, t) ELSE g[t]]
  <2>2. ASSUME NEW t \in SUBSET (1..(n + 1)) PROVE h[t] = Step(h, t)
    <3>1. CASE n + 1 \in t
      <4>1. Max(t) = n + 1
        <5>1. n + 1 \in Nat
          OBVIOUS
        <5> QED BY <3>1, <5>1, MaxOf
      <4>2. t \ {n + 1} \in SUBSET (1..(n + 1)) /\ n + 1 \notin t \ {n + 1}
        OBVIOUS
      <4>3. h[t \ {n + 1}] = g[t \ {n + 1}]
        BY <4>2
      <4>4. Step(g, t) = Step(h, t)
        BY <1>1, <4>1, <4>3
      <4> QED BY <3>1, <4>4
    <3>2. CASE n + 1 \notin t
      <4>1. t \in SUBSET (1..n)
        BY <3>2
      <4>2. h[t] = g[t] /\ g[t] = Step(g, t)
        BY <2>1, <3>2, <4>1
      <4>3. t \ {Max(t)} \in SUBSET (1..(n + 1)) /\ n + 1 \notin t \ {Max(t)}
        BY <3>2
      <4>4. h[t \ {Max(t)}] = g[t \ {Max(t)}]
        BY <4>3
      <4>5. Step(g, t) = Step(h, t)
        BY <1>1, <4>4
      <4> QED BY <4>2, <4>5
    <3> QED BY <3>1, <3>2
  <2>3. h = [t \in SUBSET (1..(n + 1)) |-> h[t]]
    OBVIOUS
  <2> HIDE DEF h
  <2>4. h = [t \in SUBSET (1..(n + 1)) |-> Step(h, t)]
    BY <2>2, <2>3
  <2> QED BY <2>4
<1> HIDE DEF S
<1>5. k \in S
  BY <1>3, <1>4, NatInd
<1> QED BY <1>5 DEF S, Step, IsFold

\* f[k] is the value after the first k turns.
Turns(a, v, n, f) == f[0] = v /\ \A k \in Nat : k < n => f[k + 1] = Turn(a, f[k], k + 1)

LEMMA FoldTurns ==
  ASSUME NEW a, NEW v, NEW n \in Nat, NEW it, IsFold(a, v, 1..n, it)
  PROVE  \E f : Turns(a, v, n, f) /\ f[n] = it[1..n]
<1> DEFINE f == [k \in Nat |-> it[1..k]]
<1>0. it = [t \in SUBSET (1..n) |-> IF t = {} THEN v ELSE Turn(a, it[t \ {Max(t)}], Max(t))]
  BY DEF IsFold
<1>1. f[0] = v
  <2>1. 1..0 = {} /\ {} \in SUBSET (1..n)
    OBVIOUS
  <2> QED BY <1>0, <2>1
<1>2. ASSUME NEW k \in Nat, k < n
      PROVE  f[k + 1] = Turn(a, f[k], k + 1)
  <2>1. 1..(k + 1) \in SUBSET (1..n) /\ 1..(k + 1) # {} /\ (1..(k + 1)) \ {k + 1} = 1..k
    <3>1. 1..(k + 1) \subseteq 1..n
      BY <1>2
    <3>2. k + 1 \in 1..(k + 1)
      OBVIOUS
    <3>3. (1..(k + 1)) \ {k + 1} = 1..k
      OBVIOUS
    <3> QED BY <3>1, <3>2, <3>3
  <2>2. Max(1..(k + 1)) = k + 1
    BY MaxOf
  <2>3. it[1..(k + 1)] = Turn(a, it[(1..(k + 1)) \ {Max(1..(k + 1))}], Max(1..(k + 1)))
    BY <1>0, <2>1
  <2>4. it[1..(k + 1)] = Turn(a, it[1..k], k + 1)
    BY <2>1, <2>2, <2>3
  <2> QED BY <2>4
<1>3. f[n] = it[1..n]
  OBVIOUS
<1> HIDE DEF f
<1> QED BY <1>1, <1>2, <1>3 DEF Turns

-----------------------------------------------------------------------------
(* Sets and lists.                                                         *)

LEMMA AtMostOne ==
  ASSUME NEW D, \A x, y \in D : x = y
  PROVE  Cardinality(D) <= 1
<1>1. CASE D = {}
  BY <1>1, FS_EmptySet
<1>2. CASE D # {}
  <2>1. PICK x \in D : D = {x}
    BY <1>2
  <2>. QED
    BY <2>1, FS_Singleton
<1>. QED
  BY <1>1, <1>2

\* What an entry in place of another, or one more, makes of a list.
LEMMA EntrySet ==
  ASSUME NEW R, NEW s \in Seq(R), NEW e \in R, NEW i \in DOMAIN s
  PROVE  LET t == [s EXCEPT ![i] = e]
         IN  t \in Seq(R) /\ DOMAIN t = DOMAIN s /\ \A j \in DOMAIN s : t[j] = IF j = i THEN e ELSE s[j]
OBVIOUS

LEMMA EntryAdded ==
  ASSUME NEW R, NEW s \in Seq(R), NEW e \in R
  PROVE  LET t == Append(s, e)
         IN  /\ t \in Seq(R) /\ DOMAIN t = DOMAIN s \cup {Len(s) + 1} /\ Len(s) + 1 \notin DOMAIN s
             /\ \A j \in DOMAIN t : t[j] = IF j = Len(s) + 1 THEN e ELSE s[j]
OBVIOUS

LEMMA LeastPlace ==
  ASSUME NEW D, D \subseteq Nat, D # {}
  PROVE  (CHOOSE i \in D : \A j \in D : i <= j) \in D
BY LeastNat

-----------------------------------------------------------------------------
(* The list of vhosts (Hosts).                                             *)

\* The elements of a finite set, one after the other.
LEMMA SetToSeqLists ==
  ASSUME NEW Xs, IsFiniteSet(Xs)
  PROVE  /\ SetToSeq(Xs) \in Seq(Xs) /\ Len(SetToSeq(Xs)) \in Nat
         /\ \A x \in Xs : \E i \in 1..Len(SetToSeq(Xs)) : SetToSeq(Xs)[i] = x
<1> DEFINE n == Cardinality(Xs)
           f == SetToSeq(Xs)
<1>1. n \in Nat /\ IsFiniteSet(1..n) /\ Cardinality(1..n) = n
  <2>1. n \in Nat
    BY FS_CardinalityType
  <2>2. IsFiniteSet(1..n) /\ Cardinality(1..n) = IF 1 > n THEN 0 ELSE n - 1 + 1
    BY <2>1, FS_Interval
  <2> QED BY <2>1, <2>2
<1>2. \E g \in Bijection(1..n, Xs) : TRUE
  BY <1>1, FS_SameCardinalityBij DEF ExistsBijection
<1>3. \E g \in [1..n -> Xs] : IsInjective(g)
  BY <1>2 DEF Bijection, Injection
<1>4. f \in [1..n -> Xs] /\ IsInjective(f)
  BY <1>3 DEF SetToSeq
<1> HIDE DEF f
<1>5. f \in Injection(1..n, Xs)
  BY <1>4 DEF Injection
<1>6. f \in Surjection(1..n, Xs)
  BY <1>1, <1>5, FS_Injection
<1>7. f \in Seq(Xs) /\ Len(f) = n
  BY <1>1, <1>4
<1>8. \A x \in Xs : \E i \in 1..n : f[i] = x
  BY <1>6 DEF Surjection
<1> QED BY <1>1, <1>7, <1>8 DEF f

HsSorted(h) == \A i, j \in DOMAIN h : i < j => h[i].nick < h[j].nick

LEMMA HsTyped ==
  ASSUME NEW h \in Seq(HostCores)
  PROVE  /\ DOMAIN h = 1..Len(h) /\ Len(h) \in Nat
         /\ \A i \in DOMAIN h : h[i].nick \in Nat /\ h[i].nick \in HsNick /\ h[i].vHost \in HsVhost
<1>1. \A i \in DOMAIN h : h[i] \in HostCores
  OBVIOUS
<1>2. \A e \in HostCores : e.nick \in HsNick /\ e.vHost \in HsVhost
  BY DEF HostCores
<1>3. \A i \in DOMAIN h : h[i].nick \in HsNick /\ h[i].vHost \in HsVhost
  BY <1>1, <1>2
<1>4. \A i \in DOMAIN h : h[i].nick \in Nat
  BY <1>3, HsNickAssumption
<1>5. DOMAIN h = 1..Len(h) /\ Len(h) \in Nat
  OBVIOUS
<1> QED BY <1>3, <1>4, <1>5

\* Where the walk stops in a sorted list.
LEMMA HsFind ==
  ASSUME NEW h \in Seq(HostCores), HsSorted(h), NEW m \in HsNick
  PROVE  /\ FindHostCore(h, m).previous \in 0..Len(h)
         /\ \A i \in DOMAIN h : i <= FindHostCore(h, m).previous => h[i].nick < m
         /\ \A i \in DOMAIN h : i > FindHostCore(h, m).previous => m <= h[i].nick
         /\ FindHostCore(h, m).found \in BOOLEAN
         /\ FindHostCore(h, m).found =>
              /\ FindHostCore(h, m).previous + 1 \in DOMAIN h
              /\ h[FindHostCore(h, m).previous + 1].nick = m
         /\ ~FindHostCore(h, m).found => \A i \in DOMAIN h : h[i].nick # m
<1> DEFINE stop == {i \in DOMAIN h : m <= h[i].nick}
           at == IF stop = {} THEN Len(h) + 1 ELSE CHOOSE i \in stop : \A j \in stop : i <= j
<1>0. /\ m \in Nat /\ \A i \in DOMAIN h : h[i].nick \in Nat
      /\ DOMAIN h = 1..Len(h) /\ Len(h) \in Nat
  BY HsNickAssumption, HsTyped
<1>1. FindHostCore(h, m) = [previous |-> at - 1, found |-> at <= Len(h) /\ h[at].nick = m]
  BY DEF FindHostCore
<1>2. /\ at \in 1..(Len(h) + 1)
      /\ \A i \in DOMAIN h : i < at => h[i].nick < m
      /\ at <= Len(h) => m <= h[at].nick
  <2>1. CASE stop = {}
    <3>1. at = Len(h) + 1
      BY <2>1
    <3>2. \A i \in DOMAIN h : ~(m <= h[i].nick)
      BY <2>1
    <3> HIDE DEF at
    <3> QED BY <1>0, <3>1, <3>2
  <2>2. CASE stop # {}
    <3>1. stop \subseteq Nat
      BY <1>0
    <3>2. \E i \in stop : \A j \in stop : i <= j
      BY <2>2, <3>1, LeastNat
    <3>3. at \in stop /\ \A j \in stop : at <= j
      BY <2>2, <3>2
    <3> HIDE DEF at
    <3> QED BY <1>0, <3>3
  <2> QED BY <2>1, <2>2
<1> HIDE DEF at, stop
<1>3. \A i \in DOMAIN h : i >= at => m <= h[i].nick
  BY <1>0, <1>2 DEF HsSorted
<1>4. \A i \in DOMAIN h : i > at => m < h[i].nick
  BY <1>0, <1>2 DEF HsSorted
<1>5. ~(at <= Len(h) /\ h[at].nick = m) => \A i \in DOMAIN h : h[i].nick # m
  BY <1>0, <1>2, <1>4
<1>6. FindHostCore(h, m).previous = at - 1 /\ FindHostCore(h, m).found = (at <= Len(h) /\ h[at].nick = m)
  BY <1>1
<1> DEFINE p == FindHostCore(h, m).previous
           f == FindHostCore(h, m).found
<1> HIDE DEF p, f
<1>7. p = at - 1 /\ f = (at <= Len(h) /\ h[at].nick = m)
  BY <1>6 DEF p, f
<1>8. /\ p \in 0..Len(h)
      /\ \A i \in DOMAIN h : i <= p => h[i].nick < m
      /\ \A i \in DOMAIN h : i > p => m <= h[i].nick
  BY <1>0, <1>2, <1>3, <1>7
<1>9. f \in BOOLEAN /\ (f => p + 1 \in DOMAIN h /\ h[p + 1].nick = m)
  <2>1. f \in BOOLEAN
    BY <1>7
  <2>2. p + 1 = at
    BY <1>2, <1>7
  <2>3. f => at <= Len(h) /\ h[at].nick = m
    BY <1>7
  <2> QED BY <1>0, <1>2, <2>1, <2>2, <2>3
<1>10. ~f => \A i \in DOMAIN h : h[i].nick # m
  BY <1>5, <1>7
<1> QED BY <1>8, <1>9, <1>10 DEF p, f

\* What looking a nick up means in a sorted list.
LEMMA HsLookup ==
  ASSUME NEW h \in Seq(HostCores), HsSorted(h), NEW m \in HsNick
  PROVE  /\ \A i \in DOMAIN h : h[i].nick = m => GetvHost(h, m) = h[i].vHost
         /\ (\A i \in DOMAIN h : h[i].nick # m) => GetvHost(h, m) = HsNone
<1> DEFINE p == FindHostCore(h, m).previous
<1>1. /\ p \in 0..Len(h)
      /\ FindHostCore(h, m).found => p + 1 \in DOMAIN h /\ h[p + 1].nick = m
      /\ ~FindHostCore(h, m).found => \A i \in DOMAIN h : h[i].nick # m
      /\ FindHostCore(h, m).found \in BOOLEAN
  BY HsFind
<1>2. GetvHost(h, m) = IF FindHostCore(h, m).found THEN h[p + 1].vHost ELSE HsNone
  BY DEF GetvHost
<1>3. \A i, j \in DOMAIN h : h[i].nick = h[j].nick => i = j
  <2>1. DOMAIN h = 1..Len(h) /\ Len(h) \in Nat /\ \A i \in DOMAIN h : h[i].nick \in Nat
    BY HsTyped
  <2> QED BY <2>1 DEF HsSorted
<1> HIDE DEF p
<1> QED BY <1>1, <1>2, <1>3

\* InsertAt() moves what is behind the place.
LEMMA InsertAtShifts ==
  ASSUME NEW R, NEW s \in Seq(R), NEW i \in 1..(Len(s) + 1), NEW e \in R
  PROVE  /\ InsertAt(s, i, e) \in Seq(R)
         /\ Len(InsertAt(s, i, e)) = Len(s) + 1
         /\ \A j \in 1..(Len(s) + 1) :
               InsertAt(s, i, e)[j] = IF j < i THEN s[j] ELSE IF j = i THEN e ELSE s[j - 1]
<1> DEFINE a == SubSeq(s, 1, i - 1)
           b == SubSeq(s, i, Len(s))
           c == a \o <<e>>
<1>0. Len(s) \in Nat /\ i \in Nat /\ 1 <= i /\ i <= Len(s) + 1
  OBVIOUS
<1>1. /\ a \in Seq(R) /\ Len(a) = i - 1 /\ \A j \in 1..(i - 1) : a[j] = s[j]
      /\ b \in Seq(R) /\ Len(b) = Len(s) - i + 1 /\ \A j \in 1..(Len(s) - i + 1) : b[j] = s[i + j - 1]
  OBVIOUS
<1>2. <<e>> \in Seq(R) /\ Len(<<e>>) = 1 /\ <<e>>[1] = e
  OBVIOUS
<1>3. InsertAt(s, i, e) = c \o b
  BY DEF InsertAt
<1> HIDE DEF a, b
<1>4. c \in Seq(R) /\ Len(c) = i /\ c[i] = e /\ \A j \in 1..(i - 1) : c[j] = a[j]
  <2>1. c = Append(a, e)
    BY <1>1
  <2>2. Append(a, e) \in Seq(R) /\ Len(Append(a, e)) = i
    BY <1>0, <1>1
  <2>3. Append(a, e)[i] = e /\ \A j \in 1..(i - 1) : Append(a, e)[j] = a[j]
    BY <1>0, <1>1
  <2> QED BY <2>1, <2>2, <2>3
<1> HIDE DEF c
<1>5. /\ c \o b \in Seq(R) /\ Len(c \o b) = Len(s) + 1
      /\ \A j \in 1..(Len(s) + 1) : (c \o b)[j] = IF j <= i THEN c[j] ELSE b[j - i]
  BY <1>0, <1>1, <1>4
<1>6. ASSUME NEW j \in 1..(Len(s) + 1)
      PROVE  (c \o b)[j] = IF j < i THEN s[j] ELSE IF j = i THEN e ELSE s[j - 1]
  <2>1. CASE j < i
    BY <1>0, <1>1, <1>4, <1>5, <2>1
  <2>2. CASE j = i
    BY <1>0, <1>4, <1>5, <2>2
  <2>3. CASE j > i
    <3>1. j - i \in 1..(Len(s) - i + 1) /\ i + (j - i) - 1 = j - 1
      BY <1>0, <2>3
    <3> QED BY <1>0, <1>1, <1>5, <2>3, <3>1
  <2>4. j < i \/ j = i \/ j > i
    BY <1>0
  <2> QED BY <2>1, <2>2, <2>3, <2>4
<1> QED BY <1>3, <1>5, <1>6

HsNicks(h) == {h[i].nick : i \in DOMAIN h}

\* A list that looks up as another, but for one nick.
HsDiffers(h, g, m, v) ==
    /\ h \in Seq(HostCores) /\ HsSorted(h)
    /\ \A n \in HsNick : GetvHost(h, n) = IF n = m THEN v ELSE GetvHost(g, n)

LEMMA HsInsert ==
  ASSUME NEW h \in Seq(HostCores), HsSorted(h), NEW m \in HsNick, NEW v \in HsVhost,
         NEW i \in 1..(Len(h) + 1), \A j \in DOMAIN h : j < i => h[j].nick < m,
         \A j \in DOMAIN h : j >= i => m < h[j].nick
  PROVE  LET g == InsertAt(h, i, [nick |-> m, vHost |-> v])
         IN  HsDiffers(g, h, m, v) /\ HsNicks(g) \subseteq HsNicks(h) \cup {m}
<1> DEFINE e == [nick |-> m, vHost |-> v]
           g == InsertAt(h, i, e)
<1>0. /\ DOMAIN h = 1..Len(h) /\ Len(h) \in Nat /\ m \in Nat
      /\ \A j \in DOMAIN h : h[j].nick \in Nat
  BY HsTyped, HsNickAssumption
<1>1. e \in HostCores /\ e.nick = m /\ e.vHost = v
  BY DEF HostCores
<1> HIDE DEF e
<1>2. /\ g \in Seq(HostCores) /\ Len(g) = Len(h) + 1
      /\ \A j \in 1..(Len(h) + 1) : g[j] = IF j < i THEN h[j] ELSE IF j = i THEN e ELSE h[j - 1]
  BY <1>1, InsertAtShifts
<1> HIDE DEF g
<1>3. DOMAIN g = 1..(Len(h) + 1) /\ i \in Nat /\ i >= 1
  BY <1>0, <1>2
<1>4. \A j \in DOMAIN g : \/ j < i /\ j \in DOMAIN h /\ g[j] = h[j]
                          \/ j = i /\ g[j] = e
                          \/ j > i /\ j - 1 \in DOMAIN h /\ j - 1 >= i /\ g[j] = h[j - 1]
  BY <1>0, <1>2, <1>3
<1>5. ASSUME NEW x \in DOMAIN g, NEW y \in DOMAIN g, x < y PROVE g[x].nick < g[y].nick
  <2>0. x \in Nat /\ y \in Nat
    BY <1>3
  <2>1. CASE x < i /\ y < i
    BY <1>0, <1>4, <1>5, <2>0, <2>1 DEF HsSorted
  <2>2. CASE x < i /\ y = i
    BY <1>0, <1>1, <1>4, <1>5, <2>0, <2>2
  <2>3. CASE x < i /\ y > i
    <3>1. x \in DOMAIN h /\ y - 1 \in DOMAIN h /\ g[x] = h[x] /\ g[y] = h[y - 1] /\ x < y - 1
      BY <1>3, <1>4, <2>0, <2>3
    <3> QED BY <3>1 DEF HsSorted
  <2>4. CASE x = i
    BY <1>0, <1>1, <1>3, <1>4, <1>5, <2>0, <2>4
  <2>5. CASE x > i
    <3>1. x - 1 \in DOMAIN h /\ y - 1 \in DOMAIN h /\ g[x] = h[x - 1] /\ g[y] = h[y - 1] /\ x - 1 < y - 1
      BY <1>3, <1>4, <1>5, <2>0, <2>5
    <3> QED BY <3>1 DEF HsSorted
  <2> QED BY <1>3, <1>5, <2>0, <2>1, <2>2, <2>3, <2>4, <2>5
<1>6. HsSorted(g)
  BY <1>5 DEF HsSorted
<1>7. ASSUME NEW n \in HsNick PROVE GetvHost(g, n) = IF n = m THEN v ELSE GetvHost(h, n)
  <2>1. CASE n = m
    <3>1. i \in DOMAIN g /\ g[i] = e
      BY <1>2, <1>3
    <3> QED BY <1>1, <1>2, <1>6, <2>1, <3>1, HsLookup
  <2>2. CASE n # m /\ \E j \in DOMAIN h : h[j].nick = n
    <3>1. PICK j \in DOMAIN h : h[j].nick = n
      BY <2>2
    <3>2. \E k \in DOMAIN g : g[k] = h[j]
      <4>1. CASE j < i
        BY <1>0, <1>2, <1>3, <4>1
      <4>2. CASE j >= i
        <5>1. j + 1 \in 1..(Len(h) + 1) /\ ~(j + 1 < i) /\ j + 1 # i /\ j + 1 - 1 = j
          BY <1>0, <1>3, <4>2
        <5> QED BY <1>2, <1>3, <5>1
      <4> QED BY <1>0, <1>3, <4>1, <4>2
    <3>3. PICK k \in DOMAIN g : g[k] = h[j]
      BY <3>2
    <3>4. GetvHost(g, n) = g[k].vHost
      BY <1>2, <1>6, <3>1, <3>3, HsLookup
    <3>5. GetvHost(h, n) = h[j].vHost
      BY <3>1, HsLookup
    <3> QED BY <2>2, <3>3, <3>4, <3>5
  <2>3. CASE n # m /\ \A j \in DOMAIN h : h[j].nick # n
    <3>1. \A k \in DOMAIN g : g[k].nick # n
      BY <1>1, <1>4, <2>3
    <3>2. GetvHost(g, n) = HsNone
      BY <1>2, <1>6, <3>1, HsLookup
    <3>3. GetvHost(h, n) = HsNone
      BY <2>3, HsLookup
    <3> QED BY <2>3, <3>2, <3>3
  <2> QED BY <2>1, <2>2, <2>3
<1>8. HsNicks(g) \subseteq HsNicks(h) \cup {m}
  BY <1>1, <1>4 DEF HsNicks
<1> QED BY <1>2, <1>6, <1>7, <1>8 DEF HsDiffers, g, e

LEMMA HsRemove ==
  ASSUME NEW h \in Seq(HostCores), HsSorted(h), NEW m \in HsNick,
         NEW i \in DOMAIN h, h[i].nick = m
  PROVE  /\ HsDiffers(RemoveAt(h, i), h, m, HsNone)
         /\ HsNicks(RemoveAt(h, i)) \subseteq HsNicks(h) \ {m}
         /\ \A j \in DOMAIN RemoveAt(h, i) : RemoveAt(h, i)[j].nick # m
<1> DEFINE g == RemoveAt(h, i)
<1>0. /\ DOMAIN h = 1..Len(h) /\ Len(h) \in Nat
      /\ \A j \in DOMAIN h : h[j].nick \in Nat
  BY HsTyped
<1>2. /\ g \in Seq(HostCores) /\ Len(g) = Len(h) - 1
      /\ \A j \in 1..(Len(h) - 1) : g[j] = IF j < i THEN h[j] ELSE h[j + 1]
  BY RemoveAtShifts
<1> HIDE DEF g
<1>3. DOMAIN g = 1..(Len(h) - 1) /\ i \in Nat /\ i >= 1
  BY <1>0, <1>2
<1>4. \A j \in DOMAIN g : \/ j < i /\ j \in DOMAIN h /\ g[j] = h[j]
                          \/ j >= i /\ j + 1 \in DOMAIN h /\ g[j] = h[j + 1]
  BY <1>0, <1>2, <1>3
<1>5. ASSUME NEW x \in DOMAIN g, NEW y \in DOMAIN g, x < y PROVE g[x].nick < g[y].nick
  <2>0. x \in Nat /\ y \in Nat
    BY <1>3
  <2>1. CASE y < i
    BY <1>0, <1>4, <1>5, <2>0, <2>1 DEF HsSorted
  <2>2. CASE x < i /\ y >= i
    <3>1. x \in DOMAIN h /\ y + 1 \in DOMAIN h /\ g[x] = h[x] /\ g[y] = h[y + 1] /\ x < y + 1
      BY <1>3, <1>4, <1>5, <2>0, <2>2
    <3> QED BY <3>1 DEF HsSorted
  <2>3. CASE x >= i
    <3>1. x + 1 \in DOMAIN h /\ y + 1 \in DOMAIN h /\ g[x] = h[x + 1] /\ g[y] = h[y + 1] /\ x + 1 < y + 1
      BY <1>3, <1>4, <1>5, <2>0, <2>3
    <3> QED BY <3>1 DEF HsSorted
  <2>4. y < i \/ (x < i /\ y >= i) \/ x >= i
    BY <1>3, <2>0
  <2> QED BY <2>1, <2>2, <2>3, <2>4
<1>6. HsSorted(g)
  BY <1>5 DEF HsSorted
<1>7. \A j \in DOMAIN h : h[j].nick = m => j = i
  BY <1>0 DEF HsSorted
<1>8. \A j \in DOMAIN g : g[j].nick # m
  BY <1>0, <1>3, <1>4, <1>7
<1>9. ASSUME NEW n \in HsNick PROVE GetvHost(g, n) = IF n = m THEN HsNone ELSE GetvHost(h, n)
  <2>1. CASE n = m
    BY <1>2, <1>6, <1>8, <2>1, HsLookup
  <2>2. CASE n # m /\ \E j \in DOMAIN h : h[j].nick = n
    <3>1. PICK j \in DOMAIN h : h[j].nick = n
      BY <2>2
    <3>2. \E k \in DOMAIN g : g[k] = h[j]
      <4>1. CASE j < i
        BY <1>0, <1>2, <1>3, <4>1
      <4>2. CASE j > i
        <5>1. j - 1 \in 1..(Len(h) - 1) /\ ~(j - 1 < i) /\ j - 1 + 1 = j
          BY <1>0, <1>3, <4>2
        <5> QED BY <1>2, <1>3, <5>1
      <4>3. j # i
        BY <2>2, <3>1
      <4> QED BY <1>0, <1>3, <4>1, <4>2, <4>3
    <3>3. PICK k \in DOMAIN g : g[k] = h[j]
      BY <3>2
    <3>4. GetvHost(g, n) = g[k].vHost
      BY <1>2, <1>6, <3>1, <3>3, HsLookup
    <3>5. GetvHost(h, n) = h[j].vHost
      BY <3>1, HsLookup
    <3> QED BY <2>2, <3>3, <3>4, <3>5
  <2>3. CASE n # m /\ \A j \in DOMAIN h : h[j].nick # n
    <3>1. \A k \in DOMAIN g : g[k].nick # n
      BY <1>4, <2>3
    <3>2. GetvHost(g, n) = HsNone
      BY <1>2, <1>6, <3>1, HsLookup
    <3>3. GetvHost(h, n) = HsNone
      BY <2>3, HsLookup
    <3> QED BY <2>3, <3>2, <3>3
  <2> QED BY <2>1, <2>2, <2>3
<1>10. HsNicks(g) \subseteq HsNicks(h) \ {m}
  BY <1>4, <1>8 DEF HsNicks
<1> QED BY <1>2, <1>6, <1>8, <1>9, <1>10 DEF HsDiffers, g

\* delHostCore() takes the nick out of the list, whether it is in it or not.
LEMMA HsDelDiffers ==
  ASSUME NEW h \in Seq(HostCores), HsSorted(h), NEW m \in HsNick
  PROVE  /\ HsDiffers(DelHostCore(h, m), h, m, HsNone)
         /\ HsNicks(DelHostCore(h, m)) \subseteq HsNicks(h) \ {m}
<1> DEFINE p == FindHostCore(h, m).previous
           f == FindHostCore(h, m).found
<1>1. /\ f \in BOOLEAN /\ (f => p + 1 \in DOMAIN h /\ h[p + 1].nick = m)
      /\ ~f => \A i \in DOMAIN h : h[i].nick # m
  BY HsFind
<1>2. DelHostCore(h, m) = IF f THEN RemoveAt(h, p + 1) ELSE h
  BY DEF DelHostCore, DeleteHostCore
<1> HIDE DEF p, f
<1>3. CASE f
  BY <1>1, <1>2, <1>3, HsRemove
<1>4. CASE ~f
  <2>1. GetvHost(h, m) = HsNone
    BY <1>1, <1>4, HsLookup
  <2>2. m \notin HsNicks(h)
    BY <1>1, <1>4 DEF HsNicks
  <2> QED BY <1>2, <1>4, <2>1, <2>2 DEF HsDiffers
<1> QED BY <1>1, <1>3, <1>4

\* addHostCore() is what the list says of the nick from then on.
LEMMA HsAddDiffers ==
  ASSUME NEW h \in Seq(HostCores), HsSorted(h), NEW m \in HsNick, NEW v \in HsVhost
  PROVE  /\ HsDiffers(AddHostCore(h, m, v), h, m, v)
         /\ HsNicks(AddHostCore(h, m, v)) \subseteq HsNicks(h) \cup {m}
<1> DEFINE e == [nick |-> m, vHost |-> v]
           Add(w) == IF w = <<>> THEN CreateHostCorelist(e)
                     ELSE InsertHostCore(w, FindHostCore(w, m).previous, e)
           p == FindHostCore(h, m).previous
           f == FindHostCore(h, m).found
<1>1. AddHostCore(h, m, v) = IF h # <<>> /\ f THEN Add(RemoveAt(h, p + 1)) ELSE Add(h)
  BY DEF AddHostCore, DeleteHostCore
<1>2. ASSUME NEW w \in Seq(HostCores), HsSorted(w), \A i \in DOMAIN w : w[i].nick # m
      PROVE  HsDiffers(Add(w), w, m, v) /\ HsNicks(Add(w)) \subseteq HsNicks(w) \cup {m}
  <2> DEFINE q == FindHostCore(w, m).previous
  <2>1. /\ q \in 0..Len(w)
        /\ \A i \in DOMAIN w : i <= q => w[i].nick < m
        /\ \A i \in DOMAIN w : i > q => m <= w[i].nick
    BY <1>2, HsFind
  <2>0. /\ DOMAIN w = 1..Len(w) /\ Len(w) \in Nat /\ m \in Nat
        /\ \A i \in DOMAIN w : w[i].nick \in Nat
    BY HsTyped, HsNickAssumption
  <2>2. Add(w) = InsertAt(w, q + 1, e)
    <3>1. CASE w = <<>>
      <4>1. Len(w) = 0 /\ q = 0
        BY <2>1, <3>1
      <4>2. SubSeq(w, 1, 0) = <<>>
        BY <3>1
      <4>3. InsertAt(w, 1, e) = <<>> \o <<e>> \o <<>>
        <5> HIDE DEF e
        <5>1. InsertAt(w, 1, e) = SubSeq(w, 1, 1 - 1) \o <<e>> \o SubSeq(w, 1, Len(w))
          BY DEF InsertAt
        <5>2. 1 - 1 = 0
          OBVIOUS
        <5> QED BY <4>1, <4>2, <5>1, <5>2
      <4>4. <<>> \o <<e>> \o <<>> = <<e>>
        OBVIOUS
      <4> QED BY <3>1, <4>1, <4>3, <4>4 DEF CreateHostCorelist
    <3>2. CASE w # <<>>
      BY <3>2 DEF InsertHostCore
    <3> QED BY <3>1, <3>2
  <2> HIDE DEF q, Add
  <2>3. /\ q + 1 \in 1..(Len(w) + 1)
        /\ \A i \in DOMAIN w : i < q + 1 => w[i].nick < m
        /\ \A i \in DOMAIN w : i >= q + 1 => m < w[i].nick
    BY <1>2, <2>0, <2>1
  <2> QED BY <1>2, <2>2, <2>3, HsInsert
<1> HIDE DEF Add
<1>3. /\ f \in BOOLEAN /\ (f => p + 1 \in DOMAIN h /\ h[p + 1].nick = m)
      /\ ~f => \A i \in DOMAIN h : h[i].nick # m
  BY HsFind
<1> HIDE DEF p, f
<1>4. CASE f
  <2> DEFINE w == RemoveAt(h, p + 1)
  <2>1. /\ HsDiffers(w, h, m, HsNone) /\ HsNicks(w) \subseteq HsNicks(h) \ {m}
        /\ \A j \in DOMAIN w : w[j].nick # m
    BY <1>3, <1>4, HsRemove
  <2>2. h # <<>>
    BY <1>3, <1>4
  <2>3. AddHostCore(h, m, v) = Add(w)
    BY <1>1, <1>4, <2>2
  <2> HIDE DEF w
  <2>4. HsDiffers(Add(w), w, m, v) /\ HsNicks(Add(w)) \subseteq HsNicks(w) \cup {m}
    BY <1>2, <2>1 DEF HsDiffers
  <2>5. HsDiffers(Add(w), h, m, v)
    BY <2>1, <2>4 DEF HsDiffers
  <2> QED BY <2>1, <2>3, <2>4, <2>5
<1>5. CASE ~f
  BY <1>1, <1>2, <1>3, <1>5
<1> QED BY <1>3, <1>4, <1>5

\* The folds of do_hs_sync(), of DELALL and of load_hs_dbase().
HsSynced(h, s, v) == FoldLeft(LAMBDA w, n : AddHostCore(w, n, v), h, s)

LEMMA HsSyncTurns ==
  ASSUME NEW h, NEW v, NEW R, NEW s \in Seq(R)
  PROVE  \E f : /\ Turns([fold |-> "sync", list |-> s, v |-> v], h, Len(s), f)
                /\ f[Len(s)] = HsSynced(h, s, v)
<1> DEFINE a == [fold |-> "sync", list |-> s, v |-> v]
           it == CHOOSE g : g = [t \in SUBSET DOMAIN s |->
                     IF t = {} THEN h ELSE AddHostCore(g[t \ {Max(t)}], s[Max(t)], v)]
<1>1. HsSynced(h, s, v) = it[DOMAIN s]
  BY Zenon DEF HsSynced, FoldLeft, MapThenFoldSet
<1>2. DOMAIN s = 1..Len(s) /\ Len(s) \in Nat
  OBVIOUS
<1>3. \A w, i : Turn(a, w, i) = AddHostCore(w, s[i], v)
  BY DEF Turn
<1> HIDE DEF a
<1>4. PICK g : IsFold(a, h, 1..Len(s), g)
  BY <1>2, FoldExists
<1>5. g = [t \in SUBSET DOMAIN s |->
             IF t = {} THEN h ELSE AddHostCore(g[t \ {Max(t)}], s[Max(t)], v)]
  BY <1>2, <1>3, <1>4 DEF IsFold
<1>6. it = [t \in SUBSET DOMAIN s |->
              IF t = {} THEN h ELSE AddHostCore(it[t \ {Max(t)}], s[Max(t)], v)]
  BY <1>5
<1> HIDE DEF it
<1>7. IsFold(a, h, 1..Len(s), it)
  <2>1. it = [t \in SUBSET DOMAIN s |-> IF t = {} THEN h ELSE Turn(a, it[t \ {Max(t)}], Max(t))]
    BY <1>3, <1>6
  <2> QED BY <1>2, <2>1 DEF IsFold
<1>8. \E f : Turns(a, h, Len(s), f) /\ f[Len(s)] = it[1..Len(s)]
  BY <1>2, <1>7, FoldTurns
<1> QED BY <1>1, <1>2, <1>8 DEF a

LEMMA HsDelTurns ==
  ASSUME NEW h, NEW R, NEW s \in Seq(R)
  PROVE  \E f : /\ Turns([fold |-> "del", list |-> s], h, Len(s), f)
                /\ f[Len(s)] = FoldLeft(DelHostCore, h, s)
<1> DEFINE a == [fold |-> "del", list |-> s]
           it == CHOOSE g : g = [t \in SUBSET DOMAIN s |->
                     IF t = {} THEN h ELSE DelHostCore(g[t \ {Max(t)}], s[Max(t)])]
<1>1. FoldLeft(DelHostCore, h, s) = it[DOMAIN s]
  BY Zenon DEF FoldLeft, MapThenFoldSet
<1>2. DOMAIN s = 1..Len(s) /\ Len(s) \in Nat
  OBVIOUS
<1>3. \A w, i : Turn(a, w, i) = DelHostCore(w, s[i])
  BY DEF Turn
<1> HIDE DEF a
<1>4. PICK g : IsFold(a, h, 1..Len(s), g)
  BY <1>2, FoldExists
<1>5. g = [t \in SUBSET DOMAIN s |->
             IF t = {} THEN h ELSE DelHostCore(g[t \ {Max(t)}], s[Max(t)])]
  BY <1>2, <1>3, <1>4 DEF IsFold
<1>6. it = [t \in SUBSET DOMAIN s |->
              IF t = {} THEN h ELSE DelHostCore(it[t \ {Max(t)}], s[Max(t)])]
  BY <1>5
<1> HIDE DEF it
<1>7. IsFold(a, h, 1..Len(s), it)
  BY <1>2, <1>3, <1>6 DEF IsFold
<1>8. \E f : Turns(a, h, Len(s), f) /\ f[Len(s)] = it[1..Len(s)]
  BY <1>2, <1>7, FoldTurns
<1> QED BY <1>1, <1>2, <1>8 DEF a

LEMMA HsLoadTurns ==
  ASSUME NEW R, NEW s \in Seq(R)
  PROVE  \E f : /\ Turns([fold |-> "load", list |-> s], <<>>, Len(s), f)
                /\ f[Len(s)] = LoadHsDbase(s)
<1> DEFINE h == <<>>
           a == [fold |-> "load", list |-> s]
           it == CHOOSE g : g = [t \in SUBSET DOMAIN s |->
                     IF t = {} THEN h ELSE AddHostCore(g[t \ {Max(t)}], s[Max(t)].nick, s[Max(t)].vHost)]
<1>1. LoadHsDbase(s) = it[DOMAIN s]
  BY Zenon DEF LoadHsDbase, FoldLeft, MapThenFoldSet
<1> HIDE DEF h
<1>2. DOMAIN s = 1..Len(s) /\ Len(s) \in Nat
  OBVIOUS
<1>3. \A w, i : Turn(a, w, i) = AddHostCore(w, s[i].nick, s[i].vHost)
  BY DEF Turn
<1> HIDE DEF a, h
<1>4. PICK g : IsFold(a, h, 1..Len(s), g)
  BY <1>2, FoldExists
<1>5. g = [t \in SUBSET DOMAIN s |->
             IF t = {} THEN h ELSE AddHostCore(g[t \ {Max(t)}], s[Max(t)].nick, s[Max(t)].vHost)]
  BY <1>2, <1>3, <1>4 DEF IsFold
<1>6. it = [t \in SUBSET DOMAIN s |->
              IF t = {} THEN h ELSE AddHostCore(it[t \ {Max(t)}], s[Max(t)].nick, s[Max(t)].vHost)]
  BY <1>5
<1> HIDE DEF it
<1>7. IsFold(a, h, 1..Len(s), it)
  <2>1. \A t : AddHostCore(it[t \ {Max(t)}], s[Max(t)].nick, s[Max(t)].vHost)
                  = Turn(a, it[t \ {Max(t)}], Max(t))
    BY <1>3
  <2>2. it = [t \in SUBSET (1..Len(s)) |->
                 IF t = {} THEN h ELSE AddHostCore(it[t \ {Max(t)}], s[Max(t)].nick, s[Max(t)].vHost)]
    BY <1>2, <1>6
  <2> QED BY <2>1, <2>2 DEF IsFold
<1>8. \E f : Turns(a, h, Len(s), f) /\ f[Len(s)] = it[1..Len(s)]
  BY <1>2, <1>7, FoldTurns
<1> QED BY <1>1, <1>2, <1>8 DEF a, h

HsMany(h, g, Xs, v) ==
    /\ h \in Seq(HostCores) /\ HsSorted(h)
    /\ \A n \in HsNick : GetvHost(h, n) = IF n \in Xs THEN v ELSE GetvHost(g, n)

LEMMA HsManyMore ==
  ASSUME NEW h, NEW g, NEW w, NEW Xs, NEW m, NEW v, HsMany(w, g, Xs, v), HsDiffers(h, w, m, v)
  PROVE  HsMany(h, g, Xs \cup {m}, v)
BY DEF HsMany, HsDiffers

\* do_hs_sync() for a group.
LEMMA HsSyncDone ==
  ASSUME NEW h \in Seq(HostCores), HsSorted(h), NEW Xs, Xs \subseteq HsNick, IsFiniteSet(Xs),
         NEW v \in HsVhost
  PROVE  /\ HsMany(DoHsSync(h, Xs, v), h, Xs, v)
         /\ HsNicks(DoHsSync(h, Xs, v)) \subseteq HsNicks(h) \cup Xs
<1> DEFINE s == SetToSeq(Xs)
           a == [fold |-> "sync", list |-> s, v |-> v]
           Done(k) == {s[i] : i \in 1..k}
<1>1. s \in Seq(Xs) /\ Len(s) \in Nat /\ \A x \in Xs : \E i \in 1..Len(s) : s[i] = x
  BY SetToSeqLists
<1> HIDE DEF s
<1>2. DoHsSync(h, Xs, v) = HsSynced(h, s, v)
  BY DEF DoHsSync, HsSynced, s
<1>3. PICK f : Turns(a, h, Len(s), f) /\ f[Len(s)] = DoHsSync(h, Xs, v)
  BY <1>1, <1>2, HsSyncTurns
<1>4. f[0] = h /\ \A k \in Nat : k < Len(s) => f[k + 1] = AddHostCore(f[k], s[k + 1], v)
  BY <1>3 DEF Turns, Turn
<1> DEFINE P == {k \in Nat : k <= Len(s) => /\ HsMany(f[k], h, Done(k), v)
                                            /\ HsNicks(f[k]) \subseteq HsNicks(h) \cup Xs}
<1>5. 0 \in P
  <2>1. Done(0) = {}
    OBVIOUS
  <2> QED BY <1>4, <2>1 DEF HsMany
<1>6. ASSUME NEW k \in Nat, k \in P PROVE k + 1 \in P
  <2>1. SUFFICES ASSUME k + 1 <= Len(s)
                 PROVE  /\ HsMany(f[k + 1], h, Done(k + 1), v)
                        /\ HsNicks(f[k + 1]) \subseteq HsNicks(h) \cup Xs
    OBVIOUS
  <2>2. /\ HsMany(f[k], h, Done(k), v) /\ HsNicks(f[k]) \subseteq HsNicks(h) \cup Xs
        /\ f[k + 1] = AddHostCore(f[k], s[k + 1], v) /\ s[k + 1] \in Xs
    BY <1>1, <1>4, <1>6, <2>1
  <2>3. Done(k + 1) = Done(k) \cup {s[k + 1]}
    <3>1. \A i \in 1..(k + 1) : i \in 1..k \/ i = k + 1
      OBVIOUS
    <3>2. k + 1 \in 1..(k + 1) /\ \A i \in 1..k : i \in 1..(k + 1)
      OBVIOUS
    <3> QED BY <3>1, <3>2
  <2> HIDE DEF Done
  <2>4. HsDiffers(f[k + 1], f[k], s[k + 1], v) /\ HsNicks(f[k + 1]) \subseteq HsNicks(f[k]) \cup {s[k + 1]}
    BY <2>2, HsAddDiffers DEF HsMany
  <2> QED BY <2>2, <2>3, <2>4, HsManyMore
<1> HIDE DEF P
<1>7. Len(s) \in P
  BY <1>1, <1>5, <1>6, NatInd
<1>8. HsMany(f[Len(s)], h, Done(Len(s)), v) /\ HsNicks(f[Len(s)]) \subseteq HsNicks(h) \cup Xs
  BY <1>1, <1>7 DEF P
<1>9. Done(Len(s)) = Xs
  <2>1. \A x \in Xs : \E i \in 1..Len(s) : s[i] = x
    BY <1>1
  <2>2. \A i \in 1..Len(s) : s[i] \in Xs
    BY <1>1
  <2> QED BY <2>1, <2>2
<1> HIDE DEF Done
<1> QED BY <1>3, <1>8, <1>9

\* DELALL for a group.
LEMMA HsDelallDone ==
  ASSUME NEW h \in Seq(HostCores), HsSorted(h), NEW Xs, Xs \subseteq HsNick, IsFiniteSet(Xs)
  PROVE  /\ HsMany(FoldLeft(DelHostCore, h, SetToSeq(Xs)), h, Xs, HsNone)
         /\ HsNicks(FoldLeft(DelHostCore, h, SetToSeq(Xs))) \subseteq HsNicks(h)
<1> DEFINE s == SetToSeq(Xs)
           a == [fold |-> "del", list |-> s]
           Done(k) == {s[i] : i \in 1..k}
<1>1. s \in Seq(Xs) /\ Len(s) \in Nat /\ \A x \in Xs : \E i \in 1..Len(s) : s[i] = x
  BY SetToSeqLists
<1> HIDE DEF s
<1>3. PICK f : Turns(a, h, Len(s), f) /\ f[Len(s)] = FoldLeft(DelHostCore, h, s)
  BY <1>1, HsDelTurns
<1>4. f[0] = h /\ \A k \in Nat : k < Len(s) => f[k + 1] = DelHostCore(f[k], s[k + 1])
  BY <1>3 DEF Turns, Turn
<1> DEFINE P == {k \in Nat : k <= Len(s) => /\ HsMany(f[k], h, Done(k), HsNone)
                                            /\ HsNicks(f[k]) \subseteq HsNicks(h)}
<1>5. 0 \in P
  <2>1. Done(0) = {}
    OBVIOUS
  <2> QED BY <1>4, <2>1 DEF HsMany
<1>6. ASSUME NEW k \in Nat, k \in P PROVE k + 1 \in P
  <2>1. SUFFICES ASSUME k + 1 <= Len(s)
                 PROVE  /\ HsMany(f[k + 1], h, Done(k + 1), HsNone)
                        /\ HsNicks(f[k + 1]) \subseteq HsNicks(h)
    OBVIOUS
  <2>2. /\ HsMany(f[k], h, Done(k), HsNone) /\ HsNicks(f[k]) \subseteq HsNicks(h)
        /\ f[k + 1] = DelHostCore(f[k], s[k + 1]) /\ s[k + 1] \in Xs
    BY <1>1, <1>4, <1>6, <2>1
  <2>3. Done(k + 1) = Done(k) \cup {s[k + 1]}
    <3>1. \A i \in 1..(k + 1) : i \in 1..k \/ i = k + 1
      OBVIOUS
    <3>2. k + 1 \in 1..(k + 1) /\ \A i \in 1..k : i \in 1..(k + 1)
      OBVIOUS
    <3> QED BY <3>1, <3>2
  <2> HIDE DEF Done
  <2>4. HsDiffers(f[k + 1], f[k], s[k + 1], HsNone) /\ HsNicks(f[k + 1]) \subseteq HsNicks(f[k])
    BY <2>2, HsDelDiffers DEF HsMany
  <2> QED BY <2>2, <2>3, <2>4, HsManyMore
<1> HIDE DEF P
<1>7. Len(s) \in P
  BY <1>1, <1>5, <1>6, NatInd
<1>8. HsMany(f[Len(s)], h, Done(Len(s)), HsNone) /\ HsNicks(f[Len(s)]) \subseteq HsNicks(h)
  BY <1>1, <1>7 DEF P
<1>9. Done(Len(s)) = Xs
  <2>1. \A x \in Xs : \E i \in 1..Len(s) : s[i] = x
    BY <1>1
  <2>2. \A i \in 1..Len(s) : s[i] \in Xs
    BY <1>1
  <2> QED BY <2>1, <2>2
<1> HIDE DEF Done
<1> QED BY <1>3, <1>8, <1>9 DEF s

\* load_hs_dbase() makes a list that says what the file says.
LEMMA HsLoadDone ==
  ASSUME NEW s \in Seq(HostCores), HsSorted(s)
  PROVE  /\ LoadHsDbase(s) \in Seq(HostCores) /\ HsSorted(LoadHsDbase(s))
         /\ \A n \in HsNick : GetvHost(LoadHsDbase(s), n) = GetvHost(s, n)
         /\ HsNicks(LoadHsDbase(s)) \subseteq HsNicks(s)
<1> DEFINE a == [fold |-> "load", list |-> s]
           Done(k) == {s[i].nick : i \in 1..k}
           Says(w, k) == /\ w \in Seq(HostCores) /\ HsSorted(w) /\ HsNicks(w) \subseteq HsNicks(s)
                         /\ \A n \in HsNick : GetvHost(w, n) = IF n \in Done(k) THEN GetvHost(s, n)
                                                               ELSE HsNone
<1>1. /\ DOMAIN s = 1..Len(s) /\ Len(s) \in Nat
      /\ \A i \in DOMAIN s : s[i].nick \in HsNick /\ s[i].vHost \in HsVhost
  BY HsTyped
<1>3. PICK f : Turns(a, <<>>, Len(s), f) /\ f[Len(s)] = LoadHsDbase(s)
  BY HsLoadTurns
<1>4. /\ f[0] = <<>>
      /\ \A k \in Nat : k < Len(s) => f[k + 1] = AddHostCore(f[k], s[k + 1].nick, s[k + 1].vHost)
  BY <1>3 DEF Turns, Turn
<1> DEFINE P == {k \in Nat : k <= Len(s) => Says(f[k], k)}
<1>5. 0 \in P
  <2>1. Done(0) = {}
    OBVIOUS
  <2>2. f[0] \in Seq(HostCores) /\ HsSorted(f[0]) /\ HsNicks(f[0]) = {}
    BY <1>4 DEF HsSorted, HsNicks
  <2>3. ASSUME NEW n \in HsNick PROVE GetvHost(f[0], n) = HsNone
    <3>1. ASSUME NEW w, w = <<>> PROVE GetvHost(w, n) = HsNone
      <4>1. w \in Seq(HostCores) /\ DOMAIN w = {}
        BY <3>1
      <4>2. HsSorted(w)
        BY <4>1 DEF HsSorted
      <4> QED BY <4>1, <4>2, HsLookup
    <3> QED BY <1>4, <3>1
  <2> QED BY <2>1, <2>2, <2>3
<1>6. ASSUME NEW k \in Nat, k \in P PROVE k + 1 \in P
  <2>1. SUFFICES ASSUME k + 1 <= Len(s) PROVE Says(f[k + 1], k + 1)
    OBVIOUS
  <2>2. k + 1 \in DOMAIN s
    BY <1>1, <2>1
  <2> DEFINE m == s[k + 1].nick
             v == s[k + 1].vHost
  <2>3. m \in HsNick /\ v \in HsVhost /\ m \in HsNicks(s) /\ GetvHost(s, m) = v
    BY <1>1, <2>2, HsLookup DEF HsNicks
  <2>4. Says(f[k], k) /\ f[k + 1] = AddHostCore(f[k], m, v)
    BY <1>4, <1>6, <2>1
  <2>5. Done(k + 1) = Done(k) \cup {m}
    <3>1. \A i \in 1..(k + 1) : i \in 1..k \/ i = k + 1
      OBVIOUS
    <3>2. k + 1 \in 1..(k + 1) /\ \A i \in 1..k : i \in 1..(k + 1)
      OBVIOUS
    <3> QED BY <3>1, <3>2
  <2> HIDE DEF Done, m, v
  <2>6. HsDiffers(f[k + 1], f[k], m, v) /\ HsNicks(f[k + 1]) \subseteq HsNicks(f[k]) \cup {m}
    BY <2>3, <2>4, HsAddDiffers
  <2>7. f[k + 1] \in Seq(HostCores) /\ HsSorted(f[k + 1]) /\ HsNicks(f[k + 1]) \subseteq HsNicks(s)
    BY <2>3, <2>4, <2>6 DEF HsDiffers
  <2>8. ASSUME NEW n \in HsNick
        PROVE  GetvHost(f[k + 1], n) = IF n \in Done(k + 1) THEN GetvHost(s, n) ELSE HsNone
    <3>1. GetvHost(f[k + 1], n) = IF n = m THEN v ELSE GetvHost(f[k], n)
      BY <2>6 DEF HsDiffers
    <3>2. GetvHost(f[k], n) = IF n \in Done(k) THEN GetvHost(s, n) ELSE HsNone
      BY <2>4
    <3> QED BY <2>3, <2>5, <3>1, <3>2
  <2> QED BY <2>7, <2>8
<1> HIDE DEF P
<1>7. Len(s) \in P
  BY <1>1, <1>5, <1>6, NatInd
<1>8. Says(f[Len(s)], Len(s))
  BY <1>1, <1>7 DEF P
<1>9. ASSUME NEW n \in HsNick, n \notin Done(Len(s)) PROVE GetvHost(s, n) = HsNone
  BY <1>1, <1>9, HsLookup
<1> HIDE DEF Done
<1> QED BY <1>3, <1>8, <1>9

\* The nicks that are registered.
HsReg(c) == {n \in HsNick : c[n] # HsNone}

HsSays(h, w) == \A n \in HsNick : GetvHost(h, n) = w[n]

HsInv ==
    /\ HostsTypeOK
    /\ hsFiles \in [hosts : Seq(HostCores), wants : [HsNick -> HsVhostOrNone],
                    nicks : [HsNick -> HsCore \cup {HsNone}], torn : BOOLEAN]
    /\ HsSorted(hsHead) /\ HsSays(hsHead, hsWants)
    /\ HsSorted(hsFiles.hosts) /\ HsSays(hsFiles.hosts, hsFiles.wants)
    /\ IsFiniteSet(HsReg(hsCoreOf)) /\ IsFiniteSet(HsReg(hsFiles.nicks))
    /\ hsFiles.torn => hsFiles.nicks = hsCoreOf
    /\ ~hsParted => HsNicks(hsHead) \subseteq HsReg(hsCoreOf)
    /\ ~hsParted /\ ~hsFiles.torn => HsNicks(hsFiles.hosts) \subseteq HsReg(hsFiles.nicks)

\* What a command does to the list and leaves alone.
LEMMA HsListStep ==
  ASSUME HsInv, UNCHANGED <<hsCoreOf, hsFiles, hsParted>>,
         hsHead' \in Seq(HostCores), HsSorted(hsHead'), HsSays(hsHead', hsWants'),
         hsWants' \in [HsNick -> HsVhostOrNone],
         HsNicks(hsHead') \subseteq HsNicks(hsHead) \cup HsReg(hsCoreOf)
  PROVE  HsInv'
<1>1. HostsTypeOK'
  BY DEF HsInv, HostsTypeOK
<1>2. HsSays(hsHead, hsWants)' /\ HsSorted(hsHead)'
  BY DEF HsSays, HsSorted
<1>3. (~hsParted => HsNicks(hsHead) \subseteq HsReg(hsCoreOf))'
  <2>1. HsReg(hsCoreOf') = HsReg(hsCoreOf) /\ hsParted' = hsParted
    OBVIOUS
  <2>2. ~hsParted => HsNicks(hsHead) \subseteq HsReg(hsCoreOf)
    BY DEF HsInv
  <2>3. ~hsParted' => HsNicks(hsHead') \subseteq HsReg(hsCoreOf')
    BY <2>1, <2>2
  <2> QED BY <2>3 DEF HsNicks, HsReg
<1>4. /\ hsFiles' = hsFiles /\ hsCoreOf' = hsCoreOf /\ hsParted' = hsParted
  OBVIOUS
<1>5. (HsSorted(hsFiles.hosts) /\ HsSays(hsFiles.hosts, hsFiles.wants))'
  BY <1>4 DEF HsInv, HsSorted, HsSays
<1>6. (~hsParted /\ ~hsFiles.torn => HsNicks(hsFiles.hosts) \subseteq HsReg(hsFiles.nicks))'
  BY <1>4 DEF HsInv, HsNicks, HsReg
<1>7. (IsFiniteSet(HsReg(hsCoreOf)) /\ IsFiniteSet(HsReg(hsFiles.nicks)))'
  BY <1>4 DEF HsInv, HsReg
<1> QED BY <1>1, <1>2, <1>3, <1>4, <1>5, <1>6, <1>7 DEF HsInv

LEMMA HsGroups ==
  ASSUME HsInv, NEW n \in HsNick
  PROVE  /\ HsGroup(n) \subseteq HsReg(hsCoreOf) /\ HsGroup(n) \subseteq HsNick
         /\ IsFiniteSet(HsGroup(n))
         /\ hsCoreOf[n] # HsNone => n \in HsGroup(n)
<1>1. HsGroup(n) \subseteq HsReg(hsCoreOf) /\ HsReg(hsCoreOf) \subseteq HsNick
  BY DEF HsGroup, HsReg
<1>2. IsFiniteSet(HsReg(hsCoreOf))
  BY DEF HsInv
<1>3. IsFiniteSet(HsGroup(n))
  BY <1>1, <1>2, FS_Subset
<1> QED BY <1>1, <1>3 DEF HsGroup

\* SETALL, DELALL and GROUP.
LEMMA HsManySaid ==
  ASSUME NEW h, NEW Xs, NEW v, HsMany(h, hsHead, Xs, v), HsSays(hsHead, hsWants), NEW w,
         w = [n \in HsNick |-> IF n \in Xs THEN v ELSE hsWants[n]]
  PROVE  HsSays(h, w)
BY DEF HsMany, HsSays

LEMMA HsOneSaid ==
  ASSUME NEW h, NEW m \in HsNick, NEW v, HsDiffers(h, hsHead, m, v), HsSays(hsHead, hsWants),
         hsWants \in [HsNick -> HsVhostOrNone], NEW w, w = [hsWants EXCEPT ![m] = v]
  PROVE  HsSays(h, w)
BY DEF HsDiffers, HsSays

LEMMA HsListSteps ==
  ASSUME HsInv, NEW n \in HsNick, NEW v,
         \/ HsDel(n) \/ HsDelall(n) \/ HsGroupVhost(n)
         \/ v \in HsVhost /\ (HsSet(n, v) \/ HsSetall(n, v))
  PROVE  HsInv'
<1>0. /\ hsHead \in Seq(HostCores) /\ HsSorted(hsHead) /\ HsSays(hsHead, hsWants)
      /\ hsWants \in [HsNick -> HsVhostOrNone]
  BY DEF HsInv, HostsTypeOK
<1>g. /\ HsGroup(n) \subseteq HsReg(hsCoreOf) /\ HsGroup(n) \subseteq HsNick
      /\ IsFiniteSet(HsGroup(n))
      /\ hsCoreOf[n] # HsNone => n \in HsGroup(n)
  BY HsGroups
<1>v. HsVhost \subseteq HsVhostOrNone /\ HsNone \in HsVhostOrNone
  BY DEF HsVhostOrNone
<1>s. ASSUME HsMany(hsHead', hsHead, HsGroup(n), v) PROVE hsHead' \in Seq(HostCores) /\ HsSorted(hsHead')
  BY <1>s DEF HsMany
<1>1. CASE HsDel(n)
  <2>1. hsHead' = DelHostCore(hsHead, n) /\ hsWants' = [hsWants EXCEPT ![n] = HsNone]
        /\ UNCHANGED <<hsCoreOf, hsFiles, hsParted>>
    BY <1>1 DEF HsDel, HsSame
  <2>2. HsDiffers(hsHead', hsHead, n, HsNone)
    BY <1>0, <2>1, HsDelDiffers
  <2>3. HsNicks(hsHead') \subseteq HsNicks(hsHead)
    BY <1>0, <2>1, HsDelDiffers
  <2>4. HsSays(hsHead', hsWants')
    BY <1>0, <2>1, <2>2, HsOneSaid
  <2>5. hsHead' \in Seq(HostCores) /\ HsSorted(hsHead')
    BY <2>2 DEF HsDiffers
  <2>6. hsWants' \in [HsNick -> HsVhostOrNone]
    BY <1>0, <1>v, <2>1
  <2>7. HsNicks(hsHead') \subseteq HsNicks(hsHead) \cup HsReg(hsCoreOf)
    BY <2>3
  <2> QED BY <2>1, <2>4, <2>5, <2>6, <2>7, HsListStep
<1>2. CASE v \in HsVhost /\ HsSet(n, v)
  <2>1. hsHead' = AddHostCore(hsHead, n, v) /\ hsWants' = [hsWants EXCEPT ![n] = v]
        /\ UNCHANGED <<hsCoreOf, hsFiles, hsParted>> /\ hsCoreOf[n] # HsNone
    BY <1>2 DEF HsSet, HsSame
  <2>2. HsDiffers(hsHead', hsHead, n, v)
    BY <1>0, <1>2, <2>1, HsAddDiffers
  <2>3. HsNicks(hsHead') \subseteq HsNicks(hsHead) \cup {n}
    BY <1>0, <1>2, <2>1, HsAddDiffers
  <2>4. HsSays(hsHead', hsWants')
    BY <1>0, <2>1, <2>2, HsOneSaid
  <2>5. hsHead' \in Seq(HostCores) /\ HsSorted(hsHead')
    BY <2>2 DEF HsDiffers
  <2>6. hsWants' \in [HsNick -> HsVhostOrNone]
    BY <1>0, <1>v, <1>2, <2>1
  <2>7. HsNicks(hsHead') \subseteq HsNicks(hsHead) \cup HsReg(hsCoreOf)
    BY <1>g, <2>1, <2>3
  <2> QED BY <2>1, <2>4, <2>5, <2>6, <2>7, HsListStep
<1>3. CASE HsDelall(n)
  <2>1. /\ hsHead' = FoldLeft(DelHostCore, hsHead, SetToSeq(HsGroup(n)))
        /\ hsWants' = [k \in HsNick |-> IF k \in HsGroup(n) THEN HsNone ELSE hsWants[k]]
        /\ UNCHANGED <<hsCoreOf, hsFiles, hsParted>>
    BY <1>3 DEF HsDelall, HsSame
  <2> DEFINE h == FoldLeft(DelHostCore, hsHead, SetToSeq(HsGroup(n)))
  <2>2. HsMany(h, hsHead, HsGroup(n), HsNone) /\ HsNicks(h) \subseteq HsNicks(hsHead)
    BY <1>0, <1>g, HsDelallDone
  <2>3. hsHead' = h
    BY <2>1
  <2> HIDE DEF h
  <2>4. HsSays(h, hsWants')
    BY <1>0, <2>1, <2>2, HsManySaid
  <2>5. h \in Seq(HostCores) /\ HsSorted(h)
    BY <2>2 DEF HsMany
  <2>6. hsWants' \in [HsNick -> HsVhostOrNone]
    BY <1>0, <1>v, <2>1
  <2>7. HsNicks(hsHead') \subseteq HsNicks(hsHead) \cup HsReg(hsCoreOf)
    BY <2>2, <2>3
  <2> QED BY <2>1, <2>3, <2>4, <2>5, <2>6, <2>7, HsListStep
<1>4. CASE v \in HsVhost /\ HsSetall(n, v)
  <2>1. /\ hsHead' = DoHsSync(hsHead, HsGroup(n), v)
        /\ hsWants' = [k \in HsNick |-> IF k \in HsGroup(n) THEN v ELSE hsWants[k]]
        /\ UNCHANGED <<hsCoreOf, hsFiles, hsParted>>
    BY <1>4 DEF HsSetall, HsSame
  <2>2. HsMany(hsHead', hsHead, HsGroup(n), v) /\ HsNicks(hsHead') \subseteq HsNicks(hsHead) \cup HsGroup(n)
    BY <1>0, <1>g, <1>4, <2>1, HsSyncDone
  <2>4. HsSays(hsHead', hsWants')
    BY <1>0, <2>1, <2>2, HsManySaid
  <2>6. hsWants' \in [HsNick -> HsVhostOrNone]
    BY <1>0, <1>v, <1>4, <2>1
  <2>7. HsNicks(hsHead') \subseteq HsNicks(hsHead) \cup HsReg(hsCoreOf)
    BY <1>g, <2>2
  <2> QED BY <1>s, <2>1, <2>2, <2>4, <2>6, <2>7, HsListStep
<1>5. CASE HsGroupVhost(n)
  <2> DEFINE u == GetvHost(hsHead, n)
  <2>1. /\ hsHead' = DoHsSync(hsHead, HsGroup(n), u) /\ u # HsNone
        /\ hsWants' = [k \in HsNick |-> IF k \in HsGroup(n) THEN hsWants[n] ELSE hsWants[k]]
        /\ UNCHANGED <<hsCoreOf, hsFiles, hsParted>>
    BY <1>5 DEF HsGroupVhost, HsSame
  <2>2. u = hsWants[n]
    BY <1>0 DEF HsSays
  <2> HIDE DEF u
  <2>3. u \in HsVhost
    BY <1>0, <2>1, <2>2 DEF HsVhostOrNone
  <2>4. HsMany(hsHead', hsHead, HsGroup(n), u) /\ HsNicks(hsHead') \subseteq HsNicks(hsHead) \cup HsGroup(n)
    BY <1>0, <1>g, <2>1, <2>3, HsSyncDone
  <2>5. hsWants' = [k \in HsNick |-> IF k \in HsGroup(n) THEN u ELSE hsWants[k]]
    BY <2>1, <2>2
  <2>6. HsSays(hsHead', hsWants')
    BY <1>0, <2>4, <2>5, HsManySaid
  <2>7. hsWants' \in [HsNick -> HsVhostOrNone]
    BY <1>0, <1>v, <2>3, <2>5
  <2>8. HsNicks(hsHead') \subseteq HsNicks(hsHead) \cup HsReg(hsCoreOf)
    BY <1>g, <2>4
  <2>9. hsHead' \in Seq(HostCores) /\ HsSorted(hsHead')
    BY <2>4 DEF HsMany
  <2> QED BY <2>1, <2>6, <2>7, <2>8, <2>9, HsListStep
<1> QED BY <1>1, <1>2, <1>3, <1>4, <1>5

\* What registering and dropping do to the registered nicks.
LEMMA HsRegs ==
  ASSUME NEW c, c \in [HsNick -> HsCore \cup {HsNone}], NEW n \in HsNick, NEW u
  PROVE  /\ HsReg(c) \ {n} \subseteq HsReg([c EXCEPT ![n] = u])
         /\ HsReg([c EXCEPT ![n] = u]) \subseteq HsReg(c) \cup {n}
         /\ u = HsNone => HsReg([c EXCEPT ![n] = u]) \subseteq HsReg(c)
         /\ c[n] = HsNone => HsReg(c) \subseteq HsReg([c EXCEPT ![n] = u])
BY DEF HsReg

LEMMA HsOtherSteps ==
  ASSUME HsInv, NEW n \in HsNick,
         \/ ~hsFiles.torn /\ HsDelnick(n)
         \/ ~hsFiles.torn /\ \E c \in HsCore : HsRegister(n, c)
  PROVE  HsInv'
<1>0. /\ hsHead \in Seq(HostCores) /\ HsSorted(hsHead) /\ HsSays(hsHead, hsWants)
      /\ hsCoreOf \in [HsNick -> HsCore \cup {HsNone}]
      /\ hsWants \in [HsNick -> HsVhostOrNone] /\ hsParted \in BOOLEAN
  BY DEF HsInv, HostsTypeOK
<1>f. /\ hsFiles \in [hosts : Seq(HostCores), wants : [HsNick -> HsVhostOrNone],
                      nicks : [HsNick -> HsCore \cup {HsNone}], torn : BOOLEAN]
      /\ HsSorted(hsFiles.hosts) /\ HsSays(hsFiles.hosts, hsFiles.wants)
      /\ IsFiniteSet(HsReg(hsCoreOf)) /\ IsFiniteSet(HsReg(hsFiles.nicks))
      /\ hsFiles.torn => hsFiles.nicks = hsCoreOf
      /\ ~hsParted => HsNicks(hsHead) \subseteq HsReg(hsCoreOf)
      /\ ~hsParted /\ ~hsFiles.torn => HsNicks(hsFiles.hosts) \subseteq HsReg(hsFiles.nicks)
  BY DEF HsInv
<1>t. /\ hsFiles.hosts \in Seq(HostCores) /\ hsFiles.wants \in [HsNick -> HsVhostOrNone]
      /\ hsFiles.nicks \in [HsNick -> HsCore \cup {HsNone}] /\ hsFiles.torn \in BOOLEAN
  BY <1>f
<1>1. CASE ~hsFiles.torn /\ HsDelnick(n)
  <2>1. /\ hsCoreOf' = [hsCoreOf EXCEPT ![n] = HsNone] /\ hsHead' = DelHostCore(hsHead, n)
        /\ hsWants' = [hsWants EXCEPT ![n] = HsNone] /\ hsFiles' = hsFiles /\ hsParted' = hsParted
        /\ ~hsFiles.torn
    BY <1>1 DEF HsDelnick
  <2>2. HsDiffers(hsHead', hsHead, n, HsNone) /\ HsNicks(hsHead') \subseteq HsNicks(hsHead) \ {n}
    BY <1>0, <2>1, HsDelDiffers
  <2>3. HsSays(hsHead', hsWants')
    BY <1>0, <2>1, <2>2, HsOneSaid
  <2>4. hsHead' \in Seq(HostCores) /\ HsSorted(hsHead')
    BY <2>2 DEF HsDiffers
  <2>5. hsWants' \in [HsNick -> HsVhostOrNone] /\ hsCoreOf' \in [HsNick -> HsCore \cup {HsNone}]
    BY <1>0, <2>1 DEF HsVhostOrNone
  <2>6. HsReg(hsCoreOf) \ {n} \subseteq HsReg(hsCoreOf') /\ HsReg(hsCoreOf') \subseteq HsReg(hsCoreOf)
    BY <1>0, <2>1, HsRegs
  <2>7. IsFiniteSet(HsReg(hsCoreOf'))
    BY <1>f, <2>6, FS_Subset
  <2>8. ~hsParted' => HsNicks(hsHead') \subseteq HsReg(hsCoreOf')
    BY <1>f, <2>1, <2>2, <2>6
  <2>9. HostsTypeOK'
    BY <1>0, <1>t, <2>1, <2>4, <2>5 DEF HostsTypeOK
  <2>10. (HsSorted(hsHead) /\ HsSays(hsHead, hsWants))'
    BY <2>3, <2>4 DEF HsSorted, HsSays
  <2>11. (HsSorted(hsFiles.hosts) /\ HsSays(hsFiles.hosts, hsFiles.wants))'
    BY <1>f, <2>1 DEF HsSorted, HsSays
  <2>12. (IsFiniteSet(HsReg(hsCoreOf)) /\ IsFiniteSet(HsReg(hsFiles.nicks)))'
    BY <1>f, <2>1, <2>7 DEF HsReg
  <2>13. (~hsParted => HsNicks(hsHead) \subseteq HsReg(hsCoreOf))'
    BY <2>8 DEF HsNicks, HsReg
  <2>14. (~hsParted /\ ~hsFiles.torn => HsNicks(hsFiles.hosts) \subseteq HsReg(hsFiles.nicks))'
    BY <1>f, <2>1 DEF HsNicks, HsReg
  <2>15. hsFiles' = hsFiles /\ ~hsFiles'.torn
    BY <2>1
  <2> QED BY <1>f, <2>9, <2>10, <2>11, <2>12, <2>13, <2>14, <2>15 DEF HsInv
<1>2. CASE ~hsFiles.torn /\ \E c \in HsCore : HsRegister(n, c)
  <2>0. PICK c \in HsCore : HsRegister(n, c)
    BY <1>2
  <2>1. /\ hsCoreOf' = [hsCoreOf EXCEPT ![n] = c] /\ hsHead' = hsHead /\ hsCoreOf[n] = HsNone
        /\ hsWants' = hsWants /\ hsFiles' = hsFiles /\ hsParted' = hsParted
        /\ ~hsFiles.torn
    BY <1>2, <2>0 DEF HsRegister
  <2>5. hsCoreOf' \in [HsNick -> HsCore \cup {HsNone}]
    BY <1>0, <2>1
  <2>6. HsReg(hsCoreOf) \subseteq HsReg(hsCoreOf') /\ HsReg(hsCoreOf') \subseteq HsReg(hsCoreOf) \cup {n}
    BY <1>0, <2>1, HsRegs
  <2>7. IsFiniteSet(HsReg(hsCoreOf'))
    <3>1. IsFiniteSet(HsReg(hsCoreOf) \cup {n})
      BY <1>f, FS_AddElement
    <3> QED BY <2>6, <3>1, FS_Subset
  <2>8. ~hsParted' => HsNicks(hsHead') \subseteq HsReg(hsCoreOf')
    BY <1>f, <2>1, <2>6
  <2>9. HostsTypeOK'
    BY <1>0, <1>t, <2>1, <2>5 DEF HostsTypeOK
  <2>10. (HsSorted(hsHead) /\ HsSays(hsHead, hsWants))'
    BY <1>0, <2>1 DEF HsSorted, HsSays
  <2>11. (HsSorted(hsFiles.hosts) /\ HsSays(hsFiles.hosts, hsFiles.wants))'
    BY <1>f, <2>1 DEF HsSorted, HsSays
  <2>12. (IsFiniteSet(HsReg(hsCoreOf)) /\ IsFiniteSet(HsReg(hsFiles.nicks)))'
    BY <1>f, <2>1, <2>7 DEF HsReg
  <2>13. (~hsParted => HsNicks(hsHead) \subseteq HsReg(hsCoreOf))'
    BY <2>8 DEF HsNicks, HsReg
  <2>14. (~hsParted /\ ~hsFiles.torn => HsNicks(hsFiles.hosts) \subseteq HsReg(hsFiles.nicks))'
    BY <1>f, <2>1 DEF HsNicks, HsReg
  <2>15. hsFiles' = hsFiles /\ ~hsFiles'.torn
    BY <2>1
  <2> QED BY <1>f, <2>9, <2>10, <2>11, <2>12, <2>13, <2>14, <2>15 DEF HsInv
<1> QED BY <1>1, <1>2

LEMMA HsSaves ==
  ASSUME HsInv, HsSaveNicks \/ HsSaveHosts
  PROVE  HsInv'
<1>0. /\ hsHead \in Seq(HostCores) /\ HsSorted(hsHead) /\ HsSays(hsHead, hsWants)
      /\ hsCoreOf \in [HsNick -> HsCore \cup {HsNone}]
      /\ hsWants \in [HsNick -> HsVhostOrNone] /\ hsParted \in BOOLEAN
  BY DEF HsInv, HostsTypeOK
<1>f. /\ hsFiles \in [hosts : Seq(HostCores), wants : [HsNick -> HsVhostOrNone],
                      nicks : [HsNick -> HsCore \cup {HsNone}], torn : BOOLEAN]
      /\ HsSorted(hsFiles.hosts) /\ HsSays(hsFiles.hosts, hsFiles.wants)
      /\ IsFiniteSet(HsReg(hsCoreOf)) /\ IsFiniteSet(HsReg(hsFiles.nicks))
      /\ hsFiles.torn => hsFiles.nicks = hsCoreOf
      /\ ~hsParted => HsNicks(hsHead) \subseteq HsReg(hsCoreOf)
      /\ ~hsParted /\ ~hsFiles.torn => HsNicks(hsFiles.hosts) \subseteq HsReg(hsFiles.nicks)
  BY DEF HsInv
<1>t. /\ hsFiles.hosts \in Seq(HostCores) /\ hsFiles.wants \in [HsNick -> HsVhostOrNone]
      /\ hsFiles.nicks \in [HsNick -> HsCore \cup {HsNone}] /\ hsFiles.torn \in BOOLEAN
  BY <1>f
<1>1. CASE HsSaveNicks
  <2>1. /\ hsFiles' = [hsFiles EXCEPT !.nicks = hsCoreOf, !.torn = TRUE]
        /\ hsHead' = hsHead /\ hsCoreOf' = hsCoreOf /\ hsWants' = hsWants /\ hsParted' = hsParted
    BY <1>1 DEF HsSaveNicks
  <2>2. /\ hsFiles'.nicks = hsCoreOf /\ hsFiles'.torn = TRUE
        /\ hsFiles'.hosts = hsFiles.hosts /\ hsFiles'.wants = hsFiles.wants
    BY <1>f, <2>1
  <2>3. hsFiles' \in [hosts : Seq(HostCores), wants : [HsNick -> HsVhostOrNone],
                      nicks : [HsNick -> HsCore \cup {HsNone}], torn : BOOLEAN]
    BY <1>0, <1>f, <2>1
  <2>9. HostsTypeOK'
    BY <1>0, <1>t, <2>1, <2>2 DEF HostsTypeOK
  <2>10. (HsSorted(hsHead) /\ HsSays(hsHead, hsWants))'
    BY <1>0, <2>1 DEF HsSorted, HsSays
  <2>11. (HsSorted(hsFiles.hosts) /\ HsSays(hsFiles.hosts, hsFiles.wants))'
    BY <1>f, <2>2 DEF HsSorted, HsSays
  <2>12. (IsFiniteSet(HsReg(hsCoreOf)) /\ IsFiniteSet(HsReg(hsFiles.nicks)))'
    BY <1>f, <2>1, <2>2 DEF HsReg
  <2>13. (~hsParted => HsNicks(hsHead) \subseteq HsReg(hsCoreOf))'
    BY <1>f, <2>1 DEF HsNicks, HsReg
  <2> QED BY <2>1, <2>2, <2>3, <2>9, <2>10, <2>11, <2>12, <2>13 DEF HsInv
<1>2. CASE HsSaveHosts
  <2>1. /\ hsFiles' = [hsFiles EXCEPT !.hosts = hsHead, !.wants = hsWants, !.torn = FALSE]
        /\ hsHead' = hsHead /\ hsCoreOf' = hsCoreOf /\ hsWants' = hsWants /\ hsParted' = hsParted
        /\ hsFiles.nicks = hsCoreOf
    BY <1>f, <1>2 DEF HsSaveHosts, SaveHsDbase
  <2>2. /\ hsFiles'.nicks = hsCoreOf /\ hsFiles'.torn = FALSE
        /\ hsFiles'.hosts = hsHead /\ hsFiles'.wants = hsWants
    BY <1>f, <2>1
  <2>3. hsFiles' \in [hosts : Seq(HostCores), wants : [HsNick -> HsVhostOrNone],
                      nicks : [HsNick -> HsCore \cup {HsNone}], torn : BOOLEAN]
    BY <1>0, <1>f, <2>1
  <2>9. HostsTypeOK'
    BY <1>0, <1>t, <2>1, <2>2 DEF HostsTypeOK
  <2>10. (HsSorted(hsHead) /\ HsSays(hsHead, hsWants))'
    BY <1>0, <2>1 DEF HsSorted, HsSays
  <2>11. (HsSorted(hsFiles.hosts) /\ HsSays(hsFiles.hosts, hsFiles.wants))'
    BY <1>0, <2>2 DEF HsSorted, HsSays
  <2>12. (IsFiniteSet(HsReg(hsCoreOf)) /\ IsFiniteSet(HsReg(hsFiles.nicks)))'
    BY <1>f, <2>1, <2>2 DEF HsReg
  <2>13. (~hsParted => HsNicks(hsHead) \subseteq HsReg(hsCoreOf))'
    BY <1>f, <2>1 DEF HsNicks, HsReg
  <2>14. (~hsParted => HsNicks(hsFiles.hosts) \subseteq HsReg(hsFiles.nicks))'
    BY <1>f, <2>1, <2>2 DEF HsNicks, HsReg
  <2> QED BY <2>1, <2>2, <2>3, <2>9, <2>10, <2>11, <2>12, <2>13, <2>14 DEF HsInv
<1> QED BY <1>1, <1>2

LEMMA HsRestarts ==
  ASSUME HsInv, HsRestart
  PROVE  HsInv'
<1>f. /\ hsFiles \in [hosts : Seq(HostCores), wants : [HsNick -> HsVhostOrNone],
                      nicks : [HsNick -> HsCore \cup {HsNone}], torn : BOOLEAN]
      /\ HsSorted(hsFiles.hosts) /\ HsSays(hsFiles.hosts, hsFiles.wants)
      /\ IsFiniteSet(HsReg(hsFiles.nicks)) /\ hsParted \in BOOLEAN
      /\ ~hsParted /\ ~hsFiles.torn => HsNicks(hsFiles.hosts) \subseteq HsReg(hsFiles.nicks)
  BY DEF HsInv, HostsTypeOK
<1>1. /\ hsHead' = LoadHsDbase(hsFiles.hosts) /\ hsCoreOf' = hsFiles.nicks
      /\ hsWants' = hsFiles.wants /\ hsParted' = (hsParted \/ hsFiles.torn)
      /\ hsFiles' = [hsFiles EXCEPT !.torn = FALSE]
  BY DEF HsRestart
<1>2. /\ hsFiles.hosts \in Seq(HostCores) /\ hsFiles.wants \in [HsNick -> HsVhostOrNone]
      /\ hsFiles.nicks \in [HsNick -> HsCore \cup {HsNone}] /\ hsFiles.torn \in BOOLEAN
  BY <1>f
<1>3. /\ hsFiles'.nicks = hsFiles.nicks /\ hsFiles'.torn = FALSE
      /\ hsFiles'.hosts = hsFiles.hosts /\ hsFiles'.wants = hsFiles.wants
  BY <1>f, <1>1
<1>4. /\ hsHead' \in Seq(HostCores) /\ HsSorted(hsHead')
      /\ \A n \in HsNick : GetvHost(hsHead', n) = GetvHost(hsFiles.hosts, n)
      /\ HsNicks(hsHead') \subseteq HsNicks(hsFiles.hosts)
  BY <1>1, <1>2, <1>f, HsLoadDone
<1>5. hsFiles' \in [hosts : Seq(HostCores), wants : [HsNick -> HsVhostOrNone],
                    nicks : [HsNick -> HsCore \cup {HsNone}], torn : BOOLEAN]
  BY <1>f, <1>1
<1>6. hsParted' \in BOOLEAN /\ (~hsParted' => ~hsParted /\ ~hsFiles.torn)
  BY <1>1
<1>7. HostsTypeOK'
  BY <1>1, <1>2, <1>3, <1>4, <1>6 DEF HostsTypeOK
<1>8. (HsSorted(hsHead) /\ HsSays(hsHead, hsWants))'
  <2>1. HsSays(hsHead', hsFiles.wants)
    BY <1>4, <1>f DEF HsSays
  <2> QED BY <1>1, <1>4, <2>1 DEF HsSorted, HsSays
<1>9. (HsSorted(hsFiles.hosts) /\ HsSays(hsFiles.hosts, hsFiles.wants))'
  BY <1>f, <1>3 DEF HsSorted, HsSays
<1>10. (IsFiniteSet(HsReg(hsCoreOf)) /\ IsFiniteSet(HsReg(hsFiles.nicks)))'
  BY <1>f, <1>1, <1>3 DEF HsReg
<1>11. (~hsParted => HsNicks(hsHead) \subseteq HsReg(hsCoreOf))'
  <2>1. ~hsParted' => HsNicks(hsHead') \subseteq HsReg(hsCoreOf')
    BY <1>f, <1>1, <1>4, <1>6
  <2> QED BY <2>1 DEF HsNicks, HsReg
<1>12. (~hsParted => HsNicks(hsFiles.hosts) \subseteq HsReg(hsFiles.nicks))'
  BY <1>f, <1>3, <1>6 DEF HsNicks, HsReg
<1> QED BY <1>3, <1>5, <1>7, <1>8, <1>9, <1>10, <1>11, <1>12 DEF HsInv

LEMMA HsSteps ==
  ASSUME HsInv, [HostsNext]_hsVars
  PROVE  HsInv'
<1>1. ASSUME NEW n \in HsNick, NEW v \in HsVhost, HsSet(n, v) \/ HsSetall(n, v) PROVE HsInv'
  BY <1>1, HsListSteps
<1>2. ASSUME NEW n \in HsNick, HsGroupVhost(n) \/ HsDel(n) \/ HsDelall(n) PROVE HsInv'
  BY <1>2, HsListSteps
<1>3. ASSUME NEW n \in HsNick, ~hsFiles.torn,
             HsDelnick(n) \/ \E c \in HsCore : HsRegister(n, c)
      PROVE  HsInv'
  BY <1>3, HsOtherSteps
<1>4. ASSUME HsSaveNicks \/ HsSaveHosts PROVE HsInv'
  BY <1>4, HsSaves
<1>5. ASSUME UNCHANGED hsVars PROVE HsInv'
  BY <1>5 DEF hsVars, HsInv, HostsTypeOK, HsSorted, HsSays, HsReg, HsNicks
<1>6. CASE ~hsFiles.torn /\ HsCommand
  BY <1>1, <1>2, <1>3, <1>6 DEF HsCommand, HsBySetter
<1> QED BY <1>4, <1>5, <1>6, HsRestarts DEF HostsNext

LEMMA HsStarts ==
  ASSUME HostsInit
  PROVE  HsInv
<1>1. HsNobody \in [HsNick -> HsVhostOrNone] /\ HsNobody \in [HsNick -> HsCore \cup {HsNone}]
  BY DEF HsNobody, HsVhostOrNone
<1>2. /\ hsHead = <<>> /\ hsCoreOf = HsNobody /\ hsWants = HsNobody /\ hsParted = FALSE
      /\ hsFiles = [hosts |-> <<>>, wants |-> HsNobody, nicks |-> HsNobody, torn |-> FALSE]
  BY DEF HostsInit
<1>3. HsReg(HsNobody) = {} /\ IsFiniteSet({})
  BY FS_EmptySet DEF HsReg, HsNobody
<1>4. <<>> \in Seq(HostCores) /\ DOMAIN <<>> = {}
  OBVIOUS
<1>5. ASSUME NEW h, h = <<>> PROVE HsSorted(h) /\ HsSays(h, HsNobody) /\ HsNicks(h) = {}
  <2>1. h \in Seq(HostCores) /\ DOMAIN h = {}
    BY <1>5
  <2>2. HsSorted(h) /\ HsNicks(h) = {}
    BY <2>1 DEF HsSorted, HsNicks
  <2>3. \A n \in HsNick : GetvHost(h, n) = HsNone
    BY <2>1, <2>2, HsLookup
  <2> QED BY <2>2, <2>3 DEF HsSays, HsNobody
<1>6. /\ hsFiles.hosts = <<>> /\ hsFiles.wants = HsNobody /\ hsFiles.nicks = HsNobody
      /\ hsFiles.torn = FALSE
  BY <1>2
<1>7. hsFiles \in [hosts : Seq(HostCores), wants : [HsNick -> HsVhostOrNone],
                   nicks : [HsNick -> HsCore \cup {HsNone}], torn : BOOLEAN]
  BY <1>1, <1>2, <1>4
<1>8. HostsTypeOK
  BY <1>1, <1>2, <1>4, <1>6 DEF HostsTypeOK
<1>9. /\ HsSorted(hsHead) /\ HsSays(hsHead, hsWants)
      /\ HsSorted(hsFiles.hosts) /\ HsSays(hsFiles.hosts, hsFiles.wants)
  BY <1>2, <1>5, <1>6
<1>10. IsFiniteSet(HsReg(hsCoreOf)) /\ IsFiniteSet(HsReg(hsFiles.nicks))
  BY <1>2, <1>3, <1>6
<1>11. HsNicks(hsHead) = {} /\ HsNicks(hsFiles.hosts) = {}
  BY <1>2, <1>5, <1>6
<1> QED BY <1>2, <1>6, <1>7, <1>8, <1>9, <1>10, <1>11 DEF HsInv

LEMMA HsAsGiven ==
  ASSUME HsInv
  PROVE  VhostsAsGiven
<1>1. \A n \in HsNick : HsOn(n) = hsWants[n] /\ DoOnId(n) = hsWants[n]
  BY DEF HsInv, HsSays, HsOn, DoOnId
<1>2. \A i, j \in HsListed(0, 0) : i < j => hsHead[i].nick < hsHead[j].nick
  BY DEF HsInv, HsSorted, HsListed
<1>3. hsHead \in Seq(HostCores)
  BY DEF HsInv, HostsTypeOK
<1>4. \A i \in DOMAIN hsHead : hsHead[i].nick \in HsNicks(hsHead)
  BY DEF HsNicks
<1>5. ~hsParted => \A i \in DOMAIN hsHead : hsCoreOf[hsHead[i].nick] # HsNone
  BY <1>4 DEF HsInv, HsReg
<1> QED BY <1>1, <1>2, <1>5 DEF VhostsAsGiven

-----------------------------------------------------------------------------
(* The mode lock (ModeLock).                                               *)

MlSets == SUBSET (MlModes \cup MlStatus)
MlVals == [MlValued -> MlOption]
MlLocks == [on : MlSets, off : MlSets, val : MlVals]

\* A lock whose parts are there, and which is sound.
MlSound(lock) ==
    /\ lock \in MlLocks
    /\ lock.on \cap lock.off = {}
    /\ \A v \in lock.on \cap MlValued : lock.val[v] \in MlValues \ MlBadValues

LEMMA MlSoundWhen ==
  ASSUME NEW on, NEW off, NEW val, on \subseteq MlModes \cup MlStatus,
         off \subseteq MlModes \cup MlStatus, val \in [MlValued -> MlOption],
         on \cap off = {}, \A v \in on \cap MlValued : val[v] \in MlValues \ MlBadValues
  PROVE  MlSound([on |-> on, off |-> off, val |-> val])
BY DEF MlSound, MlLocks, MlSets, MlVals

LEMMA MlLockIs ==
  ASSUME NEW l \in MlLocks
  PROVE  l = [on |-> l.on, off |-> l.off, val |-> l.val] /\ l.on \in MlSets /\ l.off \in MlSets /\ l.val \in MlVals
BY DEF MlLocks

LEMMA MlLockWith ==
  ASSUME NEW x \in MlSets, NEW y \in MlSets, NEW lock \in MlLocks
  PROVE  /\ [lock EXCEPT !.on = x, !.off = y] = [on |-> x, off |-> y, val |-> lock.val]
         /\ [lock EXCEPT !.off = y, !.on = x] = [on |-> x, off |-> y, val |-> lock.val]
<1> DEFINE r == [lock EXCEPT !.on = x, !.off = y]
           q == [lock EXCEPT !.off = y, !.on = x]
<1>1. r \in MlLocks /\ r.on = x /\ r.off = y /\ r.val = lock.val
  BY DEF MlLocks
<1>2. q \in MlLocks /\ q.on = x /\ q.off = y /\ q.val = lock.val
  BY DEF MlLocks
<1> HIDE DEF r, q
<1>3. r = [on |-> r.on, off |-> r.off, val |-> r.val]
  BY <1>1, MlLockIs
<1>4. q = [on |-> q.on, off |-> q.off, val |-> q.val]
  BY <1>2, MlLockIs
<1> QED BY <1>1, <1>2, <1>3, <1>4 DEF r, q

LEMMA MlOneChange ==
  ASSUME NEW lock, MlSound(lock), NEW ch \in Typed
  PROVE  MlSound(LockChange(lock, ch))
<1> DEFINE m == ch.mode
           on == lock.on
           off == lock.off
           val == lock.val
<1>1. /\ m \in MlModes \cup MlStatus /\ ch.add \in BOOLEAN
      /\ ch.add => ch.arg \in MlValues \cup {MlNone}
  <2>1. ASSUME NEW M, NEW A, NEW V, ch \in [mode : M, add : A, arg : V]
        PROVE  m \in M /\ ch.add \in A /\ ch.arg \in V
    BY <2>1
  <2>2. \/ ch \in [mode : MlFlags \cup MlStatus, add : BOOLEAN, arg : {MlNone}]
        \/ ch \in [mode : MlValued, add : {TRUE}, arg : MlValues]
        \/ ch \in [mode : MlValued, add : {FALSE}, arg : {CHOOSE v \in MlValues : TRUE}]
        \/ ch \in [mode : MlValued, add : BOOLEAN, arg : {MlNone}]
    BY DEF Typed, WellFormed
  <2> HIDE DEF m
  <2> QED BY <2>1, <2>2 DEF MlModes
<1>2. /\ lock = [on |-> on, off |-> off, val |-> val]
      /\ on \subseteq MlModes \cup MlStatus /\ off \subseteq MlModes \cup MlStatus
      /\ val \in [MlValued -> MlOption] /\ on \cap off = {}
      /\ \A v \in on \cap MlValued : val[v] \in MlValues \ MlBadValues
  <2>1. lock \in MlLocks
    BY DEF MlSound
  <2>2. lock = [on |-> on, off |-> off, val |-> val] /\ on \in MlSets /\ off \in MlSets /\ val \in MlVals
    BY <2>1, MlLockIs
  <2>3. /\ on \in SUBSET (MlModes \cup MlStatus) /\ off \in SUBSET (MlModes \cup MlStatus)
        /\ val \in [MlValued -> MlOption]
    BY <2>2 DEF MlSets, MlVals
  <2>4. on \cap off = {} /\ \A v \in on \cap MlValued : val[v] \in MlValues \ MlBadValues
    BY DEF MlSound
  <2> QED BY <2>2, <2>3, <2>4
<1>a. lock.on = on /\ lock.off = off /\ lock.val = val
  OBVIOUS
<1>b. \A x, y \in MlSets :
           /\ [lock EXCEPT !.on = x, !.off = y] = [on |-> x, off |-> y, val |-> val]
           /\ [lock EXCEPT !.off = y, !.on = x] = [on |-> x, off |-> y, val |-> val]
  <2>1. lock \in MlLocks
    BY DEF MlSound
  <2> QED BY <2>1, MlLockWith
<1>c. {on \cup {m}, on \ {m}, off \cup {m}, off \ {m}} \subseteq MlSets
  BY <1>1, <1>2 DEF MlSets
<1>3. \A x \in MlOption : [val EXCEPT ![m] = x] \in [MlValued -> MlOption]
  BY <1>2
<1>4. MlNone \in MlOption /\ (ch.add => ch.arg \in MlOption)
  BY <1>1 DEF MlOption
<1> HIDE DEF on, off, val, m
<1>5. CASE ch.add
  <2>0. [lock EXCEPT !.on = @ \cup {m}, !.off = @ \ {m}] = [on |-> on \cup {m}, off |-> off \ {m}, val |-> val]
    BY <1>a, <1>b, <1>c
  <2>1. CASE m \notin MlValued
    <3>1. LockChange(lock, ch) = [on |-> on \cup {m}, off |-> off \ {m}, val |-> val]
      BY <1>5, <2>0, <2>1 DEF LockChange, m
    <3>2. \A v \in (on \cup {m}) \cap MlValued : val[v] \in MlValues \ MlBadValues
      BY <1>2, <2>1
    <3>3. /\ on \cup {m} \subseteq MlModes \cup MlStatus /\ off \ {m} \subseteq MlModes \cup MlStatus
          /\ (on \cup {m}) \cap (off \ {m}) = {}
      BY <1>1, <1>2
    <3>4. MlSound([on |-> on \cup {m}, off |-> off \ {m}, val |-> val])
      BY <1>2, <3>2, <3>3, MlSoundWhen
    <3> QED BY <3>1, <3>4
  <2>2. CASE m \in MlValued /\ (ch.arg = MlNone \/ ch.arg \in MlBadValues)
    <3>1. LockChange(lock, ch) = [on |-> (on \cup {m}) \ {m}, off |-> off \ {m},
                                  val |-> [val EXCEPT ![m] = MlNone]]
      <4>1. LockChange(lock, ch) = CsSetValue([on |-> on \cup {m}, off |-> off \ {m}, val |-> val], m, ch.arg)
        BY <1>5, <2>0, <2>2 DEF LockChange, m
      <4> QED BY <2>2, <4>1 DEF CsSetValue
    <3>2. \A v \in ((on \cup {m}) \ {m}) \cap MlValued : [val EXCEPT ![m] = MlNone][v] \in MlValues \ MlBadValues
      BY <1>2, <2>2
    <3>3. /\ (on \cup {m}) \ {m} \subseteq MlModes \cup MlStatus /\ off \ {m} \subseteq MlModes \cup MlStatus
          /\ ((on \cup {m}) \ {m}) \cap (off \ {m}) = {}
      BY <1>1, <1>2
    <3>4. [val EXCEPT ![m] = MlNone] \in [MlValued -> MlOption]
      BY <1>3, <1>4
    <3> DEFINE o == (on \cup {m}) \ {m}
               f == off \ {m}
               w == [val EXCEPT ![m] = MlNone]
    <3> HIDE DEF o, f, w
    <3>5. MlSound([on |-> o, off |-> f, val |-> w])
      BY <3>2, <3>3, <3>4, MlSoundWhen DEF o, f, w
    <3> QED BY <3>1, <3>5 DEF o, f, w
  <2>3. CASE m \in MlValued /\ ~(ch.arg = MlNone \/ ch.arg \in MlBadValues)
    <3>1. LockChange(lock, ch) = [on |-> on \cup {m}, off |-> off \ {m},
                                  val |-> [val EXCEPT ![m] = ch.arg]]
      <4>1. LockChange(lock, ch) = CsSetValue([on |-> on \cup {m}, off |-> off \ {m}, val |-> val], m, ch.arg)
        BY <1>5, <2>0, <2>3 DEF LockChange, m
      <4> QED BY <2>3, <4>1 DEF CsSetValue
    <3>2. \A v \in (on \cup {m}) \cap MlValued : [val EXCEPT ![m] = ch.arg][v] \in MlValues \ MlBadValues
      BY <1>1, <1>2, <1>5, <2>3
    <3>3. /\ on \cup {m} \subseteq MlModes \cup MlStatus /\ off \ {m} \subseteq MlModes \cup MlStatus
          /\ (on \cup {m}) \cap (off \ {m}) = {}
      BY <1>1, <1>2
    <3>4. [val EXCEPT ![m] = ch.arg] \in [MlValued -> MlOption]
      BY <1>3, <1>4, <1>5, <2>3
    <3> DEFINE o == on \cup {m}
               f == off \ {m}
               w == [val EXCEPT ![m] = ch.arg]
    <3> HIDE DEF o, f, w
    <3>5. MlSound([on |-> o, off |-> f, val |-> w])
      BY <3>2, <3>3, <3>4, MlSoundWhen DEF o, f, w
    <3> QED BY <3>1, <3>5 DEF o, f, w
  <2> QED BY <2>1, <2>2, <2>3
<1>6. CASE ~ch.add
  <2>0. [lock EXCEPT !.off = @ \cup {m}, !.on = @ \ {m}] = [on |-> on \ {m}, off |-> off \cup {m}, val |-> val]
    BY <1>a, <1>b, <1>c
  <2>s. /\ on \ {m} \subseteq MlModes \cup MlStatus /\ off \cup {m} \subseteq MlModes \cup MlStatus
        /\ (on \ {m}) \cap (off \cup {m}) = {}
    BY <1>1, <1>2
  <2>1. CASE m \notin lock.on \cap MlValued
    <3>1. LockChange(lock, ch) = [on |-> on \ {m}, off |-> off \cup {m}, val |-> val]
      BY <1>6, <2>0, <2>1 DEF LockChange, m
    <3>2. \A v \in (on \ {m}) \cap MlValued : val[v] \in MlValues \ MlBadValues
      BY <1>2
    <3>3. MlSound([on |-> on \ {m}, off |-> off \cup {m}, val |-> val])
      BY <1>2, <2>s, <3>2, MlSoundWhen
    <3> QED BY <3>1, <3>3
  <2>2. CASE m \in lock.on \cap MlValued
    <3>1. LockChange(lock, ch) = [on |-> (on \ {m}) \ {m}, off |-> off \cup {m},
                                  val |-> [val EXCEPT ![m] = MlNone]]
      <4>1. LockChange(lock, ch) = CsSetValue([on |-> on \ {m}, off |-> off \cup {m}, val |-> val], m, MlNone)
        BY <1>6, <2>0, <2>2 DEF LockChange, m
      <4> QED BY <4>1 DEF CsSetValue
    <3>2. (on \ {m}) \ {m} = on \ {m}
      OBVIOUS
    <3>3. \A v \in (on \ {m}) \cap MlValued : [val EXCEPT ![m] = MlNone][v] \in MlValues \ MlBadValues
      BY <1>2
    <3>4. [val EXCEPT ![m] = MlNone] \in [MlValued -> MlOption]
      BY <1>3, <1>4
    <3> DEFINE o == on \ {m}
               f == off \cup {m}
               w == [val EXCEPT ![m] = MlNone]
    <3> HIDE DEF o, f, w
    <3>5. MlSound([on |-> o, off |-> f, val |-> w])
      BY <2>s, <3>3, <3>4, MlSoundWhen DEF o, f, w
    <3> QED BY <3>1, <3>2, <3>5 DEF o, f, w
  <2> QED BY <2>1, <2>2
<1> QED BY <1>1, <1>5, <1>6

LEMMA MlNoLock == MlSound(NoLock)
BY MlModesAreDistinct DEF MlSound, MlLocks, MlSets, MlVals, NoLock, NoValues, MlModes, MlOption

\* GUARDM, whatever the number of its letters.
LEMMA MlTurns ==
  ASSUME NEW h, NEW R, NEW s \in Seq(R)
  PROVE  \E f : /\ Turns([fold |-> "lock", list |-> s], h, Len(s), f)
                /\ f[Len(s)] = FoldLeft(LockChange, h, s)
<1> DEFINE a == [fold |-> "lock", list |-> s]
           it == CHOOSE g : g = [t \in SUBSET DOMAIN s |->
                     IF t = {} THEN h ELSE LockChange(g[t \ {Max(t)}], s[Max(t)])]
<1>1. FoldLeft(LockChange, h, s) = it[DOMAIN s]
  BY Zenon DEF FoldLeft, MapThenFoldSet
<1>2. DOMAIN s = 1..Len(s) /\ Len(s) \in Nat
  OBVIOUS
<1>3. \A w, i : Turn(a, w, i) = LockChange(w, s[i])
  BY DEF Turn
<1> HIDE DEF a
<1>4. PICK g : IsFold(a, h, 1..Len(s), g)
  BY <1>2, FoldExists
<1>5. g = [t \in SUBSET DOMAIN s |->
             IF t = {} THEN h ELSE LockChange(g[t \ {Max(t)}], s[Max(t)])]
  BY <1>2, <1>3, <1>4 DEF IsFold
<1>6. it = [t \in SUBSET DOMAIN s |->
              IF t = {} THEN h ELSE LockChange(it[t \ {Max(t)}], s[Max(t)])]
  BY <1>5
<1> HIDE DEF it
<1>7. IsFold(a, h, 1..Len(s), it)
  BY <1>2, <1>3, <1>6 DEF IsFold
<1>8. \E f : Turns(a, h, Len(s), f) /\ f[Len(s)] = it[1..Len(s)]
  BY <1>2, <1>7, FoldTurns
<1> QED BY <1>1, <1>2, <1>8 DEF a

LEMMA MlGuardm ==
  ASSUME NEW s \in Seq(Typed)
  PROVE  MlSound(FoldLeft(LockChange, NoLock, s))
<1> DEFINE a == [fold |-> "lock", list |-> s]
<1>1. PICK f : Turns(a, NoLock, Len(s), f) /\ f[Len(s)] = FoldLeft(LockChange, NoLock, s)
  BY MlTurns
<1>2. f[0] = NoLock /\ \A k \in Nat : k < Len(s) => f[k + 1] = LockChange(f[k], s[k + 1])
  BY <1>1 DEF Turns, Turn
<1> DEFINE P == {k \in Nat : k <= Len(s) => MlSound(f[k])}
<1>3. 0 \in P
  BY <1>2, MlNoLock
<1>4. ASSUME NEW k \in Nat, k \in P PROVE k + 1 \in P
  <2>1. SUFFICES ASSUME k + 1 <= Len(s) PROVE MlSound(f[k + 1])
    OBVIOUS
  <2>2. MlSound(f[k]) /\ f[k + 1] = LockChange(f[k], s[k + 1])
    BY <1>2, <1>4, <2>1
  <2>3. s[k + 1] \in Typed
    BY <2>1
  <2> QED BY <2>2, <2>3, MlOneChange
<1> HIDE DEF P
<1>5. Len(s) \in Nat
  OBVIOUS
<1>6. Len(s) \in P
  BY <1>3, <1>4, <1>5, NatInd
<1> QED BY <1>1, <1>5, <1>6 DEF P

MlInv == MlSound(mlLock)

LEMMA MlSteps ==
  ASSUME MlInv, [ModeLockNext]_mlVars
  PROVE  MlInv'
<1>1. ASSUME NEW ch1 \in Typed, NEW ch2 \in Typed, SetMlock(<<ch1, ch2>>) PROVE MlInv'
  <2>1. <<ch1, ch2>> \in Seq(Typed)
    OBVIOUS
  <2>2. MlSound(FoldLeft(LockChange, NoLock, <<ch1, ch2>>))
    BY <2>1, MlGuardm
  <2>3. mlLock' = FoldLeft(LockChange, NoLock, <<ch1, ch2>>)
    BY <1>1 DEF SetMlock
  <2>4. MlSound(mlLock')
    BY <2>2, <2>3
  <2> QED BY <2>4 DEF MlInv, MlSound
<1>2. ASSUME MlRegister PROVE MlInv'
  <2>1. mlLock' = [NoLock EXCEPT !.on = @ \cup MlOnRegister]
    BY <1>2 DEF MlRegister
  <2>2. MlSound(mlLock')
    BY <2>1, MlNoLock, MlModesAreDistinct DEF MlSound, MlLocks, MlSets, MlVals, NoLock, MlModes
  <2> QED BY <2>2 DEF MlInv, MlSound
<1>3. ASSUME MlDrop PROVE MlInv'
  BY <1>3, MlNoLock DEF MlDrop, MlInv, MlSound
<1>4. ASSUME mlLock' = mlLock PROVE MlInv'
  BY <1>4 DEF MlInv, MlSound
<1>5. ASSUME UNCHANGED mlVars PROVE mlLock' = mlLock
  BY <1>5 DEF mlVars
<1>6. ASSUME MlJoin \/ MlPart \/ MlCsJoin \/ MlCsPart \/ MlRestart \/ Clearmodes \/ MlDefCon \/ MlTick
      PROVE  mlLock' = mlLock
  BY <1>6 DEF MlJoin, MlPart, MlCsJoin, MlCsPart, MlRestart, Clearmodes, ByMode, MlDefCon, MlTick, MlSettings
<1>7. ASSUME NEW s, NEW b, MlCmode(b, s) \/ MlCreate(b, s) \/ MlSjoin(b, s) \/ CsMode(s) \/ OsMode(s)
      PROVE  mlLock' = mlLock
  BY <1>7 DEF MlCmode, MlCreate, MlSjoin, CsMode, OsMode, ByMode, MlSettings
<1> QED BY <1>1, <1>2, <1>3, <1>4, <1>5, <1>6, <1>7, Zenon DEF ModeLockNext

LEMMA MlStarts ==
  ASSUME ModeLockInit
  PROVE  MlInv
BY MlNoLock DEF ModeLockInit, MlInv

LEMMA MlLocksWell ==
  ASSUME MlInv
  PROVE  LockSound
BY DEF MlInv, MlSound, LockSound

-----------------------------------------------------------------------------
(* The channels of the bots (Bots).                                        *)

BtOn(chan, b) == {c \in DOMAIN chan : chan[c].bi = b}

BtInv ==
    /\ DOMAIN btBots \subseteq BtNick /\ btBots \in [DOMAIN btBots -> BotInfo]
    /\ btChan \in [DOMAIN btChan -> BtChannel] /\ IsFiniteSet(DOMAIN btChan)
    /\ DOMAIN btFile \subseteq BtNick /\ btFile \in [DOMAIN btFile -> BotInfo]
    /\ btParted \in BOOLEAN
    /\ BotsCounted

\* The invariant of given bots and channels.
BtGood(bots, chan, nicks, online, parted) ==
    /\ DOMAIN bots \subseteq BtNick /\ bots \in [DOMAIN bots -> BotInfo]
    /\ chan \in [DOMAIN chan -> BtChannel] /\ IsFiniteSet(DOMAIN chan)
    /\ \A c \in DOMAIN chan : /\ chan[c].bi # BtNone => chan[c].bi \in DOMAIN bots
                              /\ chan[c].nobot => chan[c].bi = BtNone
    /\ ~parted => \A b \in DOMAIN bots :
                     bots[b].chancount = Cardinality(BtOn(chan, b)) /\ b \notin nicks
    /\ online \cap DOMAIN bots = {}

LEMMA BtInvIs ==
  BtInv <=> /\ BtGood(btBots, btChan, btNicks, btOnline, btParted) /\ btParted \in BOOLEAN
            /\ DOMAIN btFile \subseteq BtNick /\ btFile \in [DOMAIN btFile -> BotInfo]
BY DEF BtInv, BtGood, BotsCounted, Findbot, Assigned, BtOn

LEMMA BtFields ==
  /\ \A x : x \in BotInfo => x.private \in BOOLEAN /\ x.chancount \in Int
  /\ \A x : x \in BtChannel => x.bi \in BtNick \cup {BtNone} /\ x.nobot \in BOOLEAN
BY DEF BotInfo, BtChannel

\* What is left of the bots when a channel has lost its own.
LEMMA BtUnassigned ==
  ASSUME BtInv, NEW c \in DOMAIN btChan
  PROVE  /\ DOMAIN Unassigned(btBots, c) = DOMAIN btBots
         /\ Unassigned(btBots, c) \in [DOMAIN btBots -> BotInfo]
         /\ \A b \in DOMAIN btBots :
               /\ Unassigned(btBots, c)[b].private = btBots[b].private
               /\ ~btParted => Unassigned(btBots, c)[b].chancount = Cardinality(BtOn(btChan, b) \ {c})
<1> DEFINE o == btChan[c].bi
           u == Unassigned(btBots, c)
<1>1. /\ btBots \in [DOMAIN btBots -> BotInfo] /\ IsFiniteSet(DOMAIN btChan)
      /\ o # BtNone => o \in DOMAIN btBots
      /\ DOMAIN btBots \subseteq BtNick
      /\ ~btParted => \A b \in DOMAIN btBots : btBots[b].chancount = Cardinality(BtOn(btChan, b))
  BY DEF BtInv, BotsCounted, Findbot, Assigned, BtOn
<1>2. u = IF o = BtNone THEN btBots ELSE [btBots EXCEPT ![o].chancount = @ - 1]
  BY DEF Unassigned
<1>3. \A b : IsFiniteSet(BtOn(btChan, b))
  BY <1>1, FS_Subset DEF BtOn
<1>4. \A b : c \in BtOn(btChan, b) <=> b = o
  BY DEF BtOn
<1>5. \A b : b # o => BtOn(btChan, b) \ {c} = BtOn(btChan, b)
  BY <1>4
<1> HIDE DEF o, u
<1>6. CASE o = BtNone
  <2>1. \A b \in DOMAIN btBots : b # o
    BY <1>1, <1>6, BotsConstants
  <2>2. u = btBots
    BY <1>2, <1>6
  <2>3. \A b \in DOMAIN btBots : ~btParted => u[b].chancount = Cardinality(BtOn(btChan, b) \ {c})
    BY <1>1, <1>5, <2>1, <2>2
  <2> QED BY <1>1, <2>2, <2>3 DEF u
<1>7. CASE o # BtNone
  <2>1. o \in DOMAIN btBots /\ u = [btBots EXCEPT ![o].chancount = @ - 1]
    BY <1>1, <1>2, <1>7
  <2>2. \A x \in BotInfo : [x EXCEPT !.chancount = @ - 1] \in BotInfo
                           /\ [x EXCEPT !.chancount = @ - 1].chancount = x.chancount - 1
                           /\ [x EXCEPT !.chancount = @ - 1].private = x.private
    BY DEF BotInfo
  <2>3. /\ DOMAIN u = DOMAIN btBots
        /\ u[o] = [btBots[o] EXCEPT !.chancount = @ - 1]
        /\ \A b \in DOMAIN btBots : b # o => u[b] = btBots[b]
        /\ u = [b \in DOMAIN btBots |-> u[b]]
    BY <1>1, <2>1
  <2>4. btBots[o] \in BotInfo
    BY <1>1, <2>1
  <2>5. u[o] \in BotInfo /\ u[o].chancount = btBots[o].chancount - 1 /\ u[o].private = btBots[o].private
    BY <2>2, <2>3, <2>4
  <2>6. \A b \in DOMAIN btBots : u[b] \in BotInfo
    BY <1>1, <2>3, <2>5
  <2>7. Cardinality(BtOn(btChan, o) \ {c}) = Cardinality(BtOn(btChan, o)) - 1
    BY <1>3, <1>4, FS_RemoveElement
  <2>8. ASSUME ~btParted, NEW b \in DOMAIN btBots
        PROVE  u[b].chancount = Cardinality(BtOn(btChan, b) \ {c})
    <3>1. CASE b = o
      BY <1>1, <2>1, <2>5, <2>7, <2>8, <3>1
    <3>2. CASE b # o
      BY <1>1, <1>5, <2>3, <2>8, <3>2
    <3> QED BY <3>1, <3>2
  <2>9. u \in [DOMAIN btBots -> BotInfo]
    BY <2>3, <2>6
  <2>10. \A b \in DOMAIN btBots : u[b].private = btBots[b].private
    BY <2>3, <2>5
  <2> QED BY <2>3, <2>8, <2>9, <2>10 DEF u
<1> QED BY <1>6, <1>7

\* A channel loses its bot, or what it has becomes something else.
LEMMA BtChanges ==
  ASSUME BtInv, NEW chan, NEW c \in DOMAIN btChan, NEW bots, bots = Unassigned(btBots, c),
         chan \in [DOMAIN chan -> BtChannel], DOMAIN chan \subseteq DOMAIN btChan,
         DOMAIN btChan \ {c} \subseteq DOMAIN chan,
         \A d \in DOMAIN btChan \ {c} : chan[d] = btChan[d],
         c \in DOMAIN chan => chan[c].bi = BtNone
  PROVE  BtGood(bots, chan, btNicks, btOnline, btParted)
<1>1. /\ DOMAIN btBots \subseteq BtNick /\ btBots \in [DOMAIN btBots -> BotInfo]
      /\ IsFiniteSet(DOMAIN btChan) /\ btOnline \cap DOMAIN btBots = {}
      /\ \A d \in DOMAIN btChan : /\ btChan[d].bi # BtNone => btChan[d].bi \in DOMAIN btBots
                                  /\ btChan[d].nobot => btChan[d].bi = BtNone
      /\ ~btParted => \A b \in DOMAIN btBots : b \notin btNicks
  BY DEF BtInv, BotsCounted, Findbot
<1>2. /\ DOMAIN bots = DOMAIN btBots /\ bots \in [DOMAIN btBots -> BotInfo]
      /\ ~btParted => \A b \in DOMAIN btBots : bots[b].chancount = Cardinality(BtOn(btChan, b) \ {c})
  BY BtUnassigned
<1>3. \A b \in DOMAIN btBots : BtOn(chan, b) = BtOn(btChan, b) \ {c}
  BY <1>1, BotsConstants DEF BtOn
<1>4. IsFiniteSet(DOMAIN chan)
  BY <1>1, FS_Subset
<1>5. \A d \in DOMAIN chan : /\ chan[d].bi # BtNone => chan[d].bi \in DOMAIN bots
                             /\ chan[d].nobot => chan[d].bi = BtNone
  BY <1>1, <1>2
<1>6. ~btParted => \A b \in DOMAIN bots : bots[b].chancount = Cardinality(BtOn(chan, b)) /\ b \notin btNicks
  BY <1>1, <1>2, <1>3
<1> QED BY <1>1, <1>2, <1>4, <1>5, <1>6 DEF BtGood

LEMMA BtChannelWith ==
  ASSUME NEW x \in BtChannel, NEW b \in BtNick \cup {BtNone}
  PROVE  /\ [x EXCEPT !.bi = b] \in BtChannel
         /\ [x EXCEPT !.bi = b].bi = b /\ [x EXCEPT !.bi = b].nobot = x.nobot
BY DEF BtChannel

LEMMA BtUnassigns ==
  ASSUME BtInv, NEW c \in DOMAIN btChan, Unassign(c) \/ BtDrop(c)
  PROVE  BtInv'
<1>0. /\ btChan \in [DOMAIN btChan -> BtChannel]
      /\ UNCHANGED <<btNicks, btOnline, btFile, btParted>> /\ btBots' = Unassigned(btBots, c)
  BY DEF BtInv, Unassign, BtDrop
<1>1. CASE Unassign(c)
  <2>1. btChan' = [btChan EXCEPT ![c].bi = BtNone]
    BY <1>1 DEF Unassign
  <2>2. DOMAIN btChan' = DOMAIN btChan /\ btChan'[c] = [btChan[c] EXCEPT !.bi = BtNone]
        /\ \A d \in DOMAIN btChan \ {c} : btChan'[d] = btChan[d]
    BY <1>0, <2>1
  <2>3. btChan[c] \in BtChannel
    BY <1>0
  <2>4. btChan'[c] \in BtChannel /\ btChan'[c].bi = BtNone
    BY <2>2, <2>3, BtChannelWith
  <2>5. btChan' = [d \in DOMAIN btChan |-> btChan'[d]]
    BY <1>0, <2>1
  <2>6. btChan' \in [DOMAIN btChan' -> BtChannel]
    BY <1>0, <2>2, <2>4, <2>5
  <2>7. BtGood(btBots', btChan', btNicks, btOnline, btParted)
    BY <1>0, <2>2, <2>4, <2>6, BtChanges
  <2> QED BY <1>0, <2>7, BtInvIs DEF BtGood, BtInv, BotsCounted, Findbot, Assigned, BtOn
<1>2. CASE BtDrop(c)
  <2>1. btChan' = [d \in DOMAIN btChan \ {c} |-> btChan[d]]
    BY <1>2 DEF BtDrop, Without
  <2>2. /\ DOMAIN btChan' = DOMAIN btChan \ {c}
        /\ \A d \in DOMAIN btChan \ {c} : btChan'[d] = btChan[d]
        /\ btChan' \in [DOMAIN btChan' -> BtChannel]
    BY <1>0, <2>1
  <2>3. BtGood(btBots', btChan', btNicks, btOnline, btParted)
    BY <1>0, <2>2, BtChanges
  <2> QED BY <1>0, <2>3, BtInvIs DEF BtGood, BtInv, BotsCounted, Findbot, Assigned, BtOn
<1> QED BY <1>1, <1>2

LEMMA BtNext ==
  ASSUME BtGood(btBots', btChan', btNicks', btOnline', btParted'), btParted' \in BOOLEAN,
         DOMAIN btFile' \subseteq BtNick, btFile' \in [DOMAIN btFile' -> BotInfo]
  PROVE  BtInv'
BY DEF BtGood, BtInv, BotsCounted, Findbot, Assigned, BtOn

LEMMA BtNow ==
  ASSUME BtInv
  PROVE  /\ BtGood(btBots, btChan, btNicks, btOnline, btParted) /\ btParted \in BOOLEAN
         /\ DOMAIN btFile \subseteq BtNick /\ btFile \in [DOMAIN btFile -> BotInfo]
         /\ DOMAIN btBots \subseteq BtNick /\ btBots \in [DOMAIN btBots -> BotInfo]
         /\ btChan \in [DOMAIN btChan -> BtChannel] /\ IsFiniteSet(DOMAIN btChan)
         /\ \A c \in DOMAIN btChan : /\ btChan[c].bi # BtNone => btChan[c].bi \in DOMAIN btBots
                                     /\ btChan[c].nobot => btChan[c].bi = BtNone
         /\ ~btParted => \A b \in DOMAIN btBots :
                            btBots[b].chancount = Cardinality(BtOn(btChan, b)) /\ b \notin btNicks
         /\ btOnline \cap DOMAIN btBots = {}
         /\ \A b : IsFiniteSet(BtOn(btChan, b))
<1>1. \A b : BtOn(btChan, b) \subseteq DOMAIN btChan
  BY DEF BtOn
<1>2. IsFiniteSet(DOMAIN btChan)
  BY DEF BtInv
<1>3. \A b : IsFiniteSet(BtOn(btChan, b))
  BY <1>1, <1>2, FS_Subset
<1> QED BY <1>3, BtInvIs DEF BtGood

LEMMA BtSetNobot ==
  ASSUME BtInv, NEW c \in DOMAIN btChan, NEW on \in BOOLEAN, SetNobot(c, on)
  PROVE  BtInv'
<1>0. /\ btChan' = [btChan EXCEPT ![c] = [bi |-> IF on THEN BtNone ELSE @.bi, nobot |-> on]]
      /\ btBots' = IF on THEN Unassigned(btBots, c) ELSE btBots
      /\ UNCHANGED <<btNicks, btOnline, btFile, btParted>>
  BY DEF SetNobot
<1>1. btChan[c] \in BtChannel /\ btChan[c].bi \in BtNick \cup {BtNone}
  BY BtNow, BtFields
<1> DEFINE e == [bi |-> IF on THEN BtNone ELSE btChan[c].bi, nobot |-> on]
<1>2. e \in BtChannel /\ e.bi = (IF on THEN BtNone ELSE btChan[c].bi) /\ e.nobot = on
  BY <1>1 DEF BtChannel
<1>3. btChan' = [btChan EXCEPT ![c] = e]
  BY <1>0
<1> HIDE DEF e
<1>4. /\ DOMAIN btChan' = DOMAIN btChan /\ btChan'[c] = e
      /\ \A d \in DOMAIN btChan \ {c} : btChan'[d] = btChan[d]
      /\ btChan' \in [DOMAIN btChan' -> BtChannel]
  BY <1>2, <1>3, BtNow
<1>5. CASE on
  <2>1. BtGood(btBots', btChan', btNicks, btOnline, btParted)
    BY <1>0, <1>2, <1>4, <1>5, BtChanges
  <2> QED BY <1>0, <2>1, BtNow, BtNext
<1>6. CASE ~on
  <2>1. btBots' = btBots /\ \A d \in DOMAIN btChan : btChan'[d].bi = btChan[d].bi
    BY <1>0, <1>2, <1>4, <1>6
  <2>2. \A b : BtOn(btChan', b) = BtOn(btChan, b)
    BY <1>4, <2>1 DEF BtOn
  <2>3. \A d \in DOMAIN btChan' : btChan'[d].nobot => btChan'[d].bi = BtNone
    BY <1>2, <1>4, <1>6, BtNow
  <2>4. BtGood(btBots', btChan', btNicks', btOnline', btParted')
    BY <1>0, <1>4, <2>1, <2>2, <2>3, BtNow DEF BtGood
  <2> QED BY <1>0, <2>4, BtNow, BtNext
<1> QED BY <1>5, <1>6

LEMMA BtRegisters ==
  ASSUME BtInv, NEW c, BtRegister(c)
  PROVE  BtInv'
<1>0. /\ c \notin DOMAIN btChan
      /\ btChan' = [x \in DOMAIN btChan \cup {c} |-> IF x = c THEN [bi |-> BtNone, nobot |-> FALSE]
                                                     ELSE btChan[x]]
      /\ UNCHANGED <<btBots, btNicks, btOnline, btFile, btParted>>
  BY DEF BtRegister, With
<1> DEFINE e == [bi |-> BtNone, nobot |-> FALSE]
<1>1. e \in BtChannel /\ e.bi = BtNone /\ e.nobot = FALSE
  BY DEF BtChannel
<1>2. /\ DOMAIN btChan' = DOMAIN btChan \cup {c} /\ btChan'[c] = e
      /\ \A d \in DOMAIN btChan : btChan'[d] = btChan[d]
      /\ btChan' \in [DOMAIN btChan' -> BtChannel]
  BY <1>0, <1>1, BtNow
<1> HIDE DEF e
<1>3. IsFiniteSet(DOMAIN btChan')
  BY <1>2, BtNow, FS_AddElement
<1>4. \A b \in BtNick : BtOn(btChan', b) = BtOn(btChan, b)
  BY <1>1, <1>2, BotsConstants DEF BtOn
<1>5. \A d \in DOMAIN btChan' : /\ btChan'[d].bi # BtNone => btChan'[d].bi \in DOMAIN btBots
                                /\ btChan'[d].nobot => btChan'[d].bi = BtNone
  BY <1>1, <1>2, BtNow
<1>6. BtGood(btBots', btChan', btNicks', btOnline', btParted')
  BY <1>0, <1>2, <1>3, <1>4, <1>5, BtNow DEF BtGood
<1> QED BY <1>0, <1>6, BtNow, BtNext

LEMMA BtAssigns ==
  ASSUME BtInv, NEW c, NEW b, NEW oper, Assign(c, b, oper)
  PROVE  BtInv'
<1> DEFINE u == Unassigned(btBots, c)
<1>0. /\ b \in DOMAIN btBots /\ c \in DOMAIN btChan /\ btChan[c].bi # b /\ ~btChan[c].nobot
      /\ btBots' = [u EXCEPT ![b].chancount = @ + 1]
      /\ btChan' = [btChan EXCEPT ![c].bi = b]
      /\ UNCHANGED <<btNicks, btOnline, btFile, btParted>>
  BY DEF Assign, Findbot
<1>1. /\ DOMAIN u = DOMAIN btBots /\ u \in [DOMAIN btBots -> BotInfo]
      /\ ~btParted => \A d \in DOMAIN btBots : u[d].chancount = Cardinality(BtOn(btChan, d) \ {c})
  BY <1>0, BtUnassigned
<1> HIDE DEF u
<1>2. b \in BtNick /\ btChan[c] \in BtChannel
  BY <1>0, BtNow
<1>3. /\ DOMAIN btChan' = DOMAIN btChan /\ btChan'[c] = [btChan[c] EXCEPT !.bi = b]
      /\ \A d \in DOMAIN btChan \ {c} : btChan'[d] = btChan[d]
      /\ btChan' = [d \in DOMAIN btChan |-> btChan'[d]]
  BY <1>0, BtNow
<1>4. btChan'[c] \in BtChannel /\ btChan'[c].bi = b /\ btChan'[c].nobot = btChan[c].nobot
  BY <1>2, <1>3, BtChannelWith
<1>5. btChan' \in [DOMAIN btChan' -> BtChannel]
  BY <1>3, <1>4, BtNow
<1>6. \A x \in BotInfo : [x EXCEPT !.chancount = @ + 1] \in BotInfo
                         /\ [x EXCEPT !.chancount = @ + 1].chancount = x.chancount + 1
  BY DEF BotInfo
<1>7. /\ DOMAIN btBots' = DOMAIN btBots /\ btBots'[b] = [u[b] EXCEPT !.chancount = @ + 1]
      /\ \A d \in DOMAIN btBots \ {b} : btBots'[d] = u[d]
      /\ btBots' = [d \in DOMAIN btBots |-> btBots'[d]]
  BY <1>0, <1>1
<1>8. u[b] \in BotInfo
  BY <1>0, <1>1
<1>9. btBots'[b] \in BotInfo /\ btBots'[b].chancount = u[b].chancount + 1
  BY <1>6, <1>7, <1>8
<1>10. btBots' \in [DOMAIN btBots' -> BotInfo]
  BY <1>1, <1>7, <1>9
<1>11. BtOn(btChan', b) = BtOn(btChan, b) \cup {c} /\ c \notin BtOn(btChan, b)
  BY <1>0, <1>3, <1>4 DEF BtOn
<1>12. \A d : d # b => BtOn(btChan', d) = BtOn(btChan, d) \ {c}
  BY <1>0, <1>3, <1>4 DEF BtOn
<1>13. Cardinality(BtOn(btChan', b)) = Cardinality(BtOn(btChan, b)) + 1
  <2>1. IsFiniteSet(BtOn(btChan, b))
    BY BtNow
  <2> QED BY <1>11, <2>1, FS_AddElement
<1>14. BtOn(btChan, b) \ {c} = BtOn(btChan, b)
  BY <1>11
<1>15. ASSUME ~btParted, NEW d \in DOMAIN btBots PROVE btBots'[d].chancount = Cardinality(BtOn(btChan', d))
  <2>1. CASE d = b
    BY <1>1, <1>9, <1>13, <1>14, <1>15, <2>1
  <2>2. CASE d # b
    BY <1>1, <1>7, <1>12, <1>15, <2>2
  <2> QED BY <2>1, <2>2
<1>16. \A d \in DOMAIN btChan' : /\ btChan'[d].bi # BtNone => btChan'[d].bi \in DOMAIN btBots'
                                 /\ btChan'[d].nobot => btChan'[d].bi = BtNone
  BY <1>0, <1>3, <1>4, <1>7, BtNow
<1>17. BtGood(btBots', btChan', btNicks', btOnline', btParted')
  BY <1>0, <1>3, <1>5, <1>7, <1>10, <1>15, <1>16, BtNow DEF BtGood
<1> QED BY <1>0, <1>17, BtNow, BtNext

\* The channels of b go to r: to no bot, or to the new nick of the bot.
LEMMA BtMoves ==
  ASSUME BtInv, NEW b \in BtNick, NEW r \in BtNick \cup {BtNone},
         btChan' = [c \in DOMAIN btChan |->
                       IF btChan[c].bi = b THEN [btChan[c] EXCEPT !.bi = r] ELSE btChan[c]]
  PROVE  /\ DOMAIN btChan' = DOMAIN btChan /\ btChan' \in [DOMAIN btChan' -> BtChannel]
         /\ \A c \in DOMAIN btChan : /\ btChan'[c].bi = IF btChan[c].bi = b THEN r ELSE btChan[c].bi
                                     /\ btChan'[c].nobot = btChan[c].nobot
<1>1. \A c \in DOMAIN btChan : btChan[c] \in BtChannel
  BY BtNow
<1>2. \A c \in DOMAIN btChan :
         LET x == [btChan[c] EXCEPT !.bi = r]
         IN  x \in BtChannel /\ x.bi = r /\ x.nobot = btChan[c].nobot
  BY <1>1, BtChannelWith
<1>3. \A c \in DOMAIN btChan : btChan'[c] \in BtChannel
  BY <1>1, <1>2
<1>4. DOMAIN btChan' = DOMAIN btChan /\ btChan' = [c \in DOMAIN btChan |-> btChan'[c]]
  OBVIOUS
<1>5. \A c \in DOMAIN btChan : /\ btChan'[c].bi = IF btChan[c].bi = b THEN r ELSE btChan[c].bi
                               /\ btChan'[c].nobot = btChan[c].nobot
  BY <1>2
<1> QED BY <1>3, <1>4, <1>5

LEMMA BtBotChanges ==
  ASSUME BtInv, NEW b \in BtNick, NEW n \in BtNick, BotChange(b, n)
  PROVE  BtInv'
<1>0. /\ b \in DOMAIN btBots /\ n \notin DOMAIN btBots
      /\ btBots' = [x \in (DOMAIN btBots \ {b}) \cup {n} |-> IF x = n THEN btBots[b] ELSE btBots[x]]
      /\ btChan' = [c \in DOMAIN btChan |->
                       IF btChan[c].bi = b THEN [btChan[c] EXCEPT !.bi = n] ELSE btChan[c]]
      /\ btNicks' = btNicks \ {n} /\ btOnline' = btOnline \ {n} /\ UNCHANGED <<btFile, btParted>>
  BY DEF BotChange, Findbot, TakeNick, With, Without
<1>1. /\ DOMAIN btChan' = DOMAIN btChan /\ btChan' \in [DOMAIN btChan' -> BtChannel]
      /\ \A c \in DOMAIN btChan : /\ btChan'[c].bi = IF btChan[c].bi = b THEN n ELSE btChan[c].bi
                                  /\ btChan'[c].nobot = btChan[c].nobot
  BY <1>0, BtMoves
<1>2. DOMAIN btBots' = (DOMAIN btBots \ {b}) \cup {n} /\ btBots' \in [DOMAIN btBots' -> BotInfo]
      /\ btBots'[n] = btBots[b] /\ \A x \in DOMAIN btBots \ {b} : btBots'[x] = btBots[x]
  BY <1>0, BtNow
<1>3. BtOn(btChan', n) = BtOn(btChan, b)
  BY <1>0, <1>1, BtNow, BotsConstants DEF BtOn
<1>4. \A x \in DOMAIN btBots \ {b} : BtOn(btChan', x) = BtOn(btChan, x)
  BY <1>0, <1>1 DEF BtOn
<1>5. \A d \in DOMAIN btChan' : /\ btChan'[d].bi # BtNone => btChan'[d].bi \in DOMAIN btBots'
                                /\ btChan'[d].nobot => btChan'[d].bi = BtNone
  BY <1>0, <1>1, <1>2, BtNow, BotsConstants
<1>6. ~btParted' => \A x \in DOMAIN btBots' :
                       btBots'[x].chancount = Cardinality(BtOn(btChan', x)) /\ x \notin btNicks'
  BY <1>0, <1>2, <1>3, <1>4, BtNow
<1>7. DOMAIN btBots' \subseteq BtNick /\ IsFiniteSet(DOMAIN btChan') /\ btOnline' \cap DOMAIN btBots' = {}
  BY <1>0, <1>1, <1>2, BtNow
<1>8. BtGood(btBots', btChan', btNicks', btOnline', btParted')
  BY <1>1, <1>2, <1>5, <1>6, <1>7 DEF BtGood
<1> QED BY <1>0, <1>8, BtNow, BtNext

LEMMA BtDels ==
  ASSUME BtInv, NEW b \in BtNick, BotDel(b)
  PROVE  BtInv'
<1>0. /\ b \in DOMAIN btBots
      /\ btBots' = [x \in DOMAIN btBots \ {b} |-> btBots[x]]
      /\ btChan' = [c \in DOMAIN btChan |->
                       IF btChan[c].bi = b THEN [btChan[c] EXCEPT !.bi = BtNone] ELSE btChan[c]]
      /\ UNCHANGED <<btNicks, btOnline, btFile, btParted>>
  BY DEF BotDel, CsRemoveBot, Findbot, Without
<1>1. /\ DOMAIN btChan' = DOMAIN btChan /\ btChan' \in [DOMAIN btChan' -> BtChannel]
      /\ \A c \in DOMAIN btChan : /\ btChan'[c].bi = IF btChan[c].bi = b THEN BtNone ELSE btChan[c].bi
                                  /\ btChan'[c].nobot = btChan[c].nobot
  BY <1>0, BtMoves
<1>2. DOMAIN btBots' = DOMAIN btBots \ {b} /\ btBots' \in [DOMAIN btBots' -> BotInfo]
      /\ \A x \in DOMAIN btBots \ {b} : btBots'[x] = btBots[x]
  BY <1>0, BtNow
<1>4. \A x \in DOMAIN btBots \ {b} : BtOn(btChan', x) = BtOn(btChan, x)
  BY <1>0, <1>1, BtNow, BotsConstants DEF BtOn
<1>5. \A d \in DOMAIN btChan' : /\ btChan'[d].bi # BtNone => btChan'[d].bi \in DOMAIN btBots'
                                /\ btChan'[d].nobot => btChan'[d].bi = BtNone
  BY <1>0, <1>1, <1>2, BtNow, BotsConstants
<1>6. ~btParted' => \A x \in DOMAIN btBots' :
                       btBots'[x].chancount = Cardinality(BtOn(btChan', x)) /\ x \notin btNicks'
  BY <1>0, <1>2, <1>4, BtNow
<1>7. DOMAIN btBots' \subseteq BtNick /\ IsFiniteSet(DOMAIN btChan') /\ btOnline' \cap DOMAIN btBots' = {}
  BY <1>0, <1>1, <1>2, BtNow
<1>8. BtGood(btBots', btChan', btNicks', btOnline', btParted')
  BY <1>1, <1>2, <1>5, <1>6, <1>7 DEF BtGood
<1> QED BY <1>0, <1>8, BtNow, BtNext

LEMMA BtAdds ==
  ASSUME BtInv, NEW n \in BtNick, NEW root, BotAdd(n, root)
  PROVE  BtInv'
<1> DEFINE e == [private |-> FALSE, chancount |-> 0]
<1>0. /\ n \notin DOMAIN btBots
      /\ btBots' = [x \in DOMAIN btBots \cup {n} |-> IF x = n THEN e ELSE btBots[x]]
      /\ btNicks' = btNicks \ {n} /\ btOnline' = btOnline \ {n} /\ UNCHANGED <<btChan, btFile, btParted>>
  BY DEF BotAdd, Findbot, TakeNick, With
<1>1. e \in BotInfo /\ e.chancount = 0
  BY DEF BotInfo
<1> HIDE DEF e
<1>2. DOMAIN btBots' = DOMAIN btBots \cup {n} /\ btBots' \in [DOMAIN btBots' -> BotInfo]
      /\ btBots'[n] = e /\ \A x \in DOMAIN btBots : btBots'[x] = btBots[x]
  BY <1>0, <1>1, BtNow
<1>3. BtOn(btChan, n) = {} /\ Cardinality({}) = 0
  BY <1>0, BtNow, BotsConstants, FS_EmptySet DEF BtOn
<1>4. ~btParted' => \A x \in DOMAIN btBots' :
                       btBots'[x].chancount = Cardinality(BtOn(btChan', x)) /\ x \notin btNicks'
  BY <1>0, <1>1, <1>2, <1>3, BtNow
<1>5. DOMAIN btBots' \subseteq BtNick /\ btOnline' \cap DOMAIN btBots' = {}
  BY <1>0, <1>2, BtNow
<1>8. BtGood(btBots', btChan', btNicks', btOnline', btParted')
  BY <1>0, <1>2, <1>4, <1>5, BtNow DEF BtGood
<1> QED BY <1>0, <1>8, BtNow, BtNext

LEMMA BtPrivate ==
  ASSUME BtInv, NEW b \in BtNick, NEW on \in BOOLEAN, SetPrivate(b, on)
  PROVE  BtInv'
<1>0. b \in DOMAIN btBots /\ btBots' = [btBots EXCEPT ![b].private = on]
      /\ UNCHANGED <<btChan, btNicks, btOnline, btFile, btParted>>
  BY DEF SetPrivate, Findbot
<1>1. \A x \in BotInfo : [x EXCEPT !.private = on] \in BotInfo
                         /\ [x EXCEPT !.private = on].chancount = x.chancount
  BY DEF BotInfo
<1>2. btBots[b] \in BotInfo /\ btBots'[b] = [btBots[b] EXCEPT !.private = on]
  BY <1>0, BtNow
<1>3. btBots'[b] \in BotInfo /\ btBots'[b].chancount = btBots[b].chancount
  BY <1>1, <1>2
<1>4. DOMAIN btBots' = DOMAIN btBots /\ btBots' \in [DOMAIN btBots' -> BotInfo]
      /\ \A x \in DOMAIN btBots : btBots'[x].chancount = btBots[x].chancount
  BY <1>0, <1>3, BtNow
<1>8. BtGood(btBots', btChan', btNicks', btOnline', btParted')
  BY <1>0, <1>4, BtNow DEF BtGood
<1> QED BY <1>0, <1>8, BtNow, BtNext

LEMMA BtLoads ==
  ASSUME BtInv, LoadBs
  PROVE  BtInv'
<1>0. /\ ~btParted /\ btBots' = btFile
      /\ btChan' = [c \in DOMAIN btChan |->
                       IF btChan[c].bi \in DOMAIN btFile THEN btChan[c]
                       ELSE [btChan[c] EXCEPT !.bi = BtNone]]
      /\ btOnline' = btOnline \ DOMAIN btFile /\ btParted' = (btParted \/ btFile # btBots)
      /\ UNCHANGED <<btNicks, btFile>>
  BY DEF LoadBs
<1>1. \A c \in DOMAIN btChan : btChan[c] \in BtChannel
  BY BtNow
<1>2. \A c \in DOMAIN btChan :
         LET x == [btChan[c] EXCEPT !.bi = BtNone]
         IN  x \in BtChannel /\ x.bi = BtNone /\ x.nobot = btChan[c].nobot
  BY <1>1, BtChannelWith
<1>3. \A c \in DOMAIN btChan : btChan'[c] \in BtChannel
  BY <1>0, <1>1, <1>2
<1>4. DOMAIN btChan' = DOMAIN btChan /\ btChan' = [c \in DOMAIN btChan |-> btChan'[c]]
  BY <1>0
<1>5. \A c \in DOMAIN btChan :
         /\ btChan'[c].bi = IF btChan[c].bi \in DOMAIN btFile THEN btChan[c].bi ELSE BtNone
         /\ btChan'[c].nobot = btChan[c].nobot
  BY <1>0, <1>2
<1>6. \A d \in DOMAIN btChan' : /\ btChan'[d].bi # BtNone => btChan'[d].bi \in DOMAIN btBots'
                                /\ btChan'[d].nobot => btChan'[d].bi = BtNone
  BY <1>0, <1>4, <1>5, BtNow
<1>7. ~btParted' => \A x \in DOMAIN btBots' :
                       btBots'[x].chancount = Cardinality(BtOn(btChan', x)) /\ x \notin btNicks'
  <2>1. SUFFICES ASSUME ~btParted' PROVE btBots' = btBots /\ \A x \in BtNick : BtOn(btChan', x) = BtOn(btChan, x)
    BY <1>0, BtNow
  <2>2. btBots' = btBots /\ DOMAIN btFile = DOMAIN btBots
    BY <1>0, <2>1
  <2>3. \A c \in DOMAIN btChan : btChan'[c].bi = btChan[c].bi
    BY <1>5, <2>2, BtNow
  <2> QED BY <1>4, <2>2, <2>3 DEF BtOn
<1>8. BtGood(btBots', btChan', btNicks', btOnline', btParted')
  BY <1>0, <1>3, <1>4, <1>6, <1>7, BtNow DEF BtGood
<1> QED BY <1>0, <1>8, BtNow, BtNext

LEMMA BtSteps ==
  ASSUME BtInv, [BotsNext]_btVars
  PROVE  BtInv'
<1>1. ASSUME NEW n \in BtNick, BtConnect(n) PROVE BtInv'
  <2>1. n \notin DOMAIN btBots /\ btOnline' = btOnline \cup {n}
        /\ UNCHANGED <<btBots, btChan, btNicks, btFile, btParted>>
    BY <1>1 DEF BtConnect, Findbot
  <2>2. BtGood(btBots', btChan', btNicks', btOnline', btParted')
    BY <2>1, BtNow DEF BtGood
  <2> QED BY <2>1, <2>2, BtNow, BtNext
<1>2. ASSUME NEW n \in BtNick, BtRegisterNick(n) PROVE BtInv'
  <2>1. n \in btOnline /\ btNicks' = btNicks \cup {n}
        /\ UNCHANGED <<btBots, btChan, btOnline, btFile, btParted>>
    BY <1>2 DEF BtRegisterNick
  <2>2. BtGood(btBots', btChan', btNicks', btOnline', btParted')
    BY <2>1, BtNow DEF BtGood
  <2> QED BY <2>1, <2>2, BtNow, BtNext
<1>3. ASSUME SaveBs PROVE BtInv'
  <2>1. btFile' = btBots /\ UNCHANGED <<btBots, btChan, btNicks, btOnline, btParted>>
    BY <1>3 DEF SaveBs
  <2>2. BtGood(btBots', btChan', btNicks', btOnline', btParted')
    BY <2>1, BtNow
  <2> QED BY <2>1, <2>2, BtNow, BtNext
<1>4. ASSUME UNCHANGED btVars PROVE BtInv'
  <2>1. UNCHANGED <<btBots, btChan, btNicks, btOnline, btFile, btParted>>
    BY <1>4 DEF btVars
  <2> QED BY <2>1, BtNow, BtNext
<1>5. ASSUME NEW b \in BtNick, MKill(b) PROVE UNCHANGED btVars
  BY <1>5 DEF MKill
<1>6. ASSUME NEW c \in BtChan, Unassign(c) \/ BtDrop(c) PROVE c \in DOMAIN btChan
  BY <1>6 DEF Unassign, BtDrop
<1>7. ASSUME NEW c \in BtChan, NEW on \in BOOLEAN, SetNobot(c, on) PROVE c \in DOMAIN btChan
  BY <1>7 DEF SetNobot
<1>8. ASSUME NEW c \in BtChan, Unassign(c) \/ BtDrop(c) PROVE BtInv'
  BY <1>6, <1>8, BtUnassigns
<1>9. ASSUME NEW c \in BtChan, NEW on \in BOOLEAN, SetNobot(c, on) PROVE BtInv'
  BY <1>7, <1>9, BtSetNobot
<1> QED BY <1>1, <1>2, <1>3, <1>4, <1>5, <1>8, <1>9, BtAdds, BtBotChanges, BtDels, BtPrivate,
           BtAssigns, BtRegisters, BtLoads DEF BotsNext

LEMMA BtStarts ==
  ASSUME BotsInit
  PROVE  BtInv
<1>1. DOMAIN << >> = {} /\ << >> \in [{} -> BotInfo] /\ << >> \in [{} -> BtChannel]
  OBVIOUS
<1>2. btBots = << >> /\ btChan = << >> /\ btFile = << >> /\ btOnline = {} /\ btParted = FALSE
  BY DEF BotsInit
<1>3. IsFiniteSet(DOMAIN btChan)
  BY <1>1, <1>2, FS_EmptySet
<1>4. DOMAIN btBots = {} /\ DOMAIN btChan = {} /\ DOMAIN btFile = {}
  BY <1>1, <1>2
<1>5. BotsCounted
  BY <1>2, <1>4 DEF BotsCounted
<1>6. btBots \in [DOMAIN btBots -> BotInfo] /\ btChan \in [DOMAIN btChan -> BtChannel]
      /\ btFile \in [DOMAIN btFile -> BotInfo]
  BY <1>1, <1>2, <1>4
<1> QED BY <1>2, <1>3, <1>4, <1>5, <1>6 DEF BtInv

LEMMA BtCounts ==
  ASSUME BtInv
  PROVE  BotsCounted
BY DEF BtInv

-----------------------------------------------------------------------------
(* The bans a bot lifts when it joins (Bots).                              *)

\* bot_join() with BSSmartJoin: what it makes of a list of bans.
LEMMA BtJoinTurns ==
  ASSUME NEW b, NEW R, NEW bans \in Seq(R), BSSmartJoin
  PROVE  \E f : /\ Turns([fold |-> "join", b |-> b, bans |-> bans, list |-> [i \in DOMAIN bans |-> i]],
                         [arr |-> bans, count |-> Len(bans)], Len(bans), f)
                /\ BotJoinBans(b, bans) = SubSeq(f[Len(bans)].arr, 1, f[Len(bans)].count)
<1> DEFINE s == [i \in DOMAIN bans |-> i]
           a == [fold |-> "join", b |-> b, bans |-> bans, list |-> s]
           h == [arr |-> bans, count |-> Len(bans)]
           it == CHOOSE g : g = [t \in SUBSET DOMAIN s |->
                     IF t = {} THEN h ELSE BtJoinStep(b, bans, g[t \ {Max(t)}], s[Max(t)])]
<1>1. BotJoinBans(b, bans) = SubSeq(it[DOMAIN s].arr, 1, it[DOMAIN s].count)
  BY Zenon DEF BotJoinBans, BtJoinStep, BtDelBan, BtPlaces, BtFirst, FoldLeft, MapThenFoldSet
<1>2. DOMAIN s = 1..Len(bans) /\ Len(bans) \in Nat
  OBVIOUS
<1>3. \A w, i : Turn(a, w, i) = BtJoinStep(b, bans, w, s[i])
  BY DEF Turn
<1> HIDE DEF a, h, s
<1>4. PICK g : IsFold(a, h, 1..Len(bans), g)
  BY <1>2, FoldExists
<1>5. g = [t \in SUBSET DOMAIN s |->
             IF t = {} THEN h ELSE BtJoinStep(b, bans, g[t \ {Max(t)}], s[Max(t)])]
  BY <1>2, <1>3, <1>4 DEF IsFold
<1>6. it = [t \in SUBSET DOMAIN s |->
              IF t = {} THEN h ELSE BtJoinStep(b, bans, it[t \ {Max(t)}], s[Max(t)])]
  BY <1>5
<1> HIDE DEF it
<1>7. IsFold(a, h, 1..Len(bans), it)
  BY <1>2, <1>3, <1>6 DEF IsFold
<1>8. PICK f : Turns(a, h, Len(bans), f) /\ f[Len(bans)] = it[1..Len(bans)]
  BY <1>2, <1>7, FoldTurns
<1>9. BotJoinBans(b, bans) = SubSeq(f[Len(bans)].arr, 1, f[Len(bans)].count)
  BY <1>1, <1>2, <1>8
<1> QED BY <1>8, <1>9 DEF a, h, s

LEMMA BtJoinNone ==
  ASSUME NEW b, NEW R, NEW bans \in Seq(R), BSSmartJoin,
         \A i \in DOMAIN bans : ~BtHits(bans[i], b)
  PROVE  BotJoinBans(b, bans) = bans
<1> DEFINE s == [i \in DOMAIN bans |-> i]
           h == [arr |-> bans, count |-> Len(bans)]
<1>1. PICK f : /\ Turns([fold |-> "join", b |-> b, bans |-> bans, list |-> s], h, Len(bans), f)
               /\ BotJoinBans(b, bans) = SubSeq(f[Len(bans)].arr, 1, f[Len(bans)].count)
  BY BtJoinTurns
<1>2. f[0] = h /\ \A k \in Nat : k < Len(bans) => f[k + 1] = BtJoinStep(b, bans, f[k], s[k + 1])
  BY <1>1 DEF Turns, Turn
<1>3. Len(bans) \in Nat /\ DOMAIN bans = 1..Len(bans) /\ \A k \in DOMAIN bans : s[k] = k
  OBVIOUS
<1>4. h.arr = bans /\ h.count = Len(bans)
  OBVIOUS
<1> HIDE DEF s, h
<1> DEFINE P == {k \in Nat : k <= Len(bans) => f[k] = h}
<1>5. 0 \in P
  BY <1>2
<1>6. ASSUME NEW k \in Nat, k \in P PROVE k + 1 \in P
  <2>1. SUFFICES ASSUME k + 1 <= Len(bans) PROVE f[k + 1] = h
    OBVIOUS
  <2>2. k + 1 \in DOMAIN bans /\ f[k] = h /\ f[k + 1] = BtJoinStep(b, bans, f[k], s[k + 1])
    BY <1>2, <1>3, <1>6, <2>1
  <2>3. ~BtHits(h.arr[s[k + 1]], b)
    BY <1>3, <1>4, <2>2
  <2> QED BY <2>2, <2>3 DEF BtJoinStep
<1> HIDE DEF P
<1>7. f[Len(bans)] = h
  <2>1. Len(bans) \in P
    BY <1>3, <1>5, <1>6, NatInd
  <2> QED BY <1>3, <2>1 DEF P
<1>8. SubSeq(bans, 1, Len(bans)) = bans
  OBVIOUS
<1> QED BY <1>1, <1>4, <1>7, <1>8

LEMMA BtJoinOne ==
  ASSUME NEW b, NEW R, NEW bans \in Seq(R), BSSmartJoin, NEW p \in DOMAIN bans,
         \A i \in DOMAIN bans : BtHits(bans[i], b) <=> i = p
  PROVE  BotJoinBans(b, bans) = RemoveAt(bans, p)
<1> DEFINE s == [i \in DOMAIN bans |-> i]
           n == Len(bans)
           h == [arr |-> bans, count |-> n]
           d == [k \in DOMAIN bans |-> IF k \in p..(n - 1) THEN bans[k + 1] ELSE bans[k]]
           e == [arr |-> d, count |-> n - 1]
<1>1. PICK f : /\ Turns([fold |-> "join", b |-> b, bans |-> bans, list |-> s], h, n, f)
               /\ BotJoinBans(b, bans) = SubSeq(f[n].arr, 1, f[n].count)
  BY BtJoinTurns
<1>2. f[0] = h /\ \A k \in Nat : k < n => f[k + 1] = BtJoinStep(b, bans, f[k], s[k + 1])
  BY <1>1 DEF Turns, Turn
<1>3. n \in Nat /\ DOMAIN bans = 1..n /\ (\A k \in DOMAIN bans : s[k] = k) /\ p \in 1..n
  OBVIOUS
<1>4. h.arr = bans /\ h.count = n /\ e.arr = d /\ e.count = n - 1
  OBVIOUS
<1>5. /\ d \in Seq(R) /\ Len(d) = n
      /\ \A k \in 1..n : d[k] = IF k >= p /\ k < n THEN bans[k + 1] ELSE bans[k]
  <2>1. \A k \in 1..n : k \in p..(n - 1) <=> k >= p /\ k < n
    BY <1>3
  <2>2. \A k \in 1..n : k < n => bans[k + 1] \in R
    BY <1>3
  <2> QED BY <1>3, <2>1, <2>2
<1> HIDE DEF s, h, e, n
<1>6. BtDelBan(h, bans[p]) = e
  <2>1. BtPlaces(h, bans[p]) = {p}
    BY <1>3, <1>4 DEF BtPlaces
  <2>2. BtFirst(h, bans[p]) = p
    BY <1>3, <2>1 DEF BtFirst
  <2> QED BY <1>4, <2>1, <2>2 DEF BtDelBan, e
<1> HIDE DEF d
<1> DEFINE P == {k \in Nat : k <= n => f[k] = IF k < p THEN h ELSE e}
<1>7. 0 \in P
  BY <1>2, <1>3
<1>8. ASSUME NEW k \in Nat, k \in P PROVE k + 1 \in P
  <2>1. SUFFICES ASSUME k + 1 <= n PROVE f[k + 1] = IF k + 1 < p THEN h ELSE e
    OBVIOUS
  <2>2. k + 1 \in DOMAIN bans /\ f[k + 1] = BtJoinStep(b, bans, f[k], k + 1)
    <3>1. k < n /\ k + 1 \in 1..n
      BY <1>3, <2>1
    <3>2. s[k + 1] = k + 1 /\ k + 1 \in DOMAIN bans
      BY <1>3, <3>1
    <3> QED BY <1>2, <3>1, <3>2
  <2>3. CASE k + 1 < p
    <3>1. f[k] = h /\ ~BtHits(h.arr[k + 1], b)
      BY <1>3, <1>4, <1>8, <2>1, <2>2, <2>3
    <3> QED BY <2>2, <2>3, <3>1 DEF BtJoinStep
  <2>4. CASE k + 1 = p
    <3>1. f[k] = h /\ BtHits(h.arr[k + 1], b)
      BY <1>3, <1>4, <1>8, <2>1, <2>2, <2>4
    <3>2. f[k + 1] = e
      BY <1>6, <2>2, <2>4, <3>1 DEF BtJoinStep
    <3> QED BY <1>3, <2>4, <3>2
  <2>5. CASE p < k + 1
    <3>1. f[k] = e
      BY <1>3, <1>8, <2>1, <2>5
    <3>2. ~BtHits(d[k + 1], b)
      <4>1. CASE k + 1 < n
        <5>1. d[k + 1] = bans[k + 2] /\ k + 2 \in DOMAIN bans /\ k + 2 # p
          BY <1>3, <1>5, <2>2, <2>5, <4>1
        <5> QED BY <5>1
      <4>2. CASE k + 1 = n
        <5>1. d[k + 1] = bans[k + 1] /\ k + 1 # p
          BY <1>3, <1>5, <2>2, <2>5, <4>2
        <5> QED BY <2>2, <5>1
      <4> QED BY <1>3, <2>1, <4>1, <4>2
    <3>3. f[k + 1] = e
      BY <1>4, <2>2, <3>1, <3>2 DEF BtJoinStep
    <3> QED BY <1>3, <2>5, <3>3
  <2> QED BY <1>3, <2>3, <2>4, <2>5
<1> HIDE DEF P
<1>9. f[n] = e
  <2>1. n \in P
    BY <1>3, <1>7, <1>8, NatInd
  <2> QED BY <1>3, <2>1 DEF P
<1>10. BotJoinBans(b, bans) = SubSeq(d, 1, n - 1)
  BY <1>1, <1>4, <1>9
<1>11. /\ RemoveAt(bans, p) \in Seq(R) /\ Len(RemoveAt(bans, p)) = n - 1
       /\ \A k \in 1..(n - 1) : RemoveAt(bans, p)[k] = IF k < p THEN bans[k] ELSE bans[k + 1]
  BY <1>3, RemoveAtShifts DEF n
<1>12. /\ SubSeq(d, 1, n - 1) \in Seq(R) /\ Len(SubSeq(d, 1, n - 1)) = n - 1
       /\ \A k \in 1..(n - 1) : SubSeq(d, 1, n - 1)[k] = d[k]
  BY <1>3, <1>5
<1>13. \A k \in 1..(n - 1) : SubSeq(d, 1, n - 1)[k] = RemoveAt(bans, p)[k]
  BY <1>3, <1>5, <1>11, <1>12
<1> DEFINE u == SubSeq(d, 1, n - 1)
           v == RemoveAt(bans, p)
<1> HIDE DEF u, v
<1>14. u = v
  BY <1>3, <1>11, <1>12, <1>13 DEF u, v
<1> QED BY <1>10, <1>14 DEF u, v

LEMMA BtLifts == SmartJoinLifts
<1> SUFFICES ASSUME NEW b \in BtNick, NEW bans \in BtBans, BSSmartJoin
             PROVE  LET hit == {i \in DOMAIN bans : BtHits(bans[i], b)}
                    IN  /\ hit = {} => BotJoinBans(b, bans) = bans
                        /\ \A i \in hit : hit = {i} => BotJoinBans(b, bans) = RemoveAt(bans, i)
  BY DEF SmartJoinLifts
<1> DEFINE hit == {i \in DOMAIN bans : BtHits(bans[i], b)}
<1>1. bans \in Seq(Range(bans))
  BY BotsConstants
<1>2. ASSUME hit = {} PROVE BotJoinBans(b, bans) = bans
  <2>1. \A i \in DOMAIN bans : ~BtHits(bans[i], b)
    BY <1>2
  <2> QED BY <1>1, <2>1, BtJoinNone
<1>3. ASSUME NEW p \in hit, hit = {p} PROVE BotJoinBans(b, bans) = RemoveAt(bans, p)
  <2>1. p \in DOMAIN bans /\ \A i \in DOMAIN bans : BtHits(bans[i], b) <=> i = p
    BY <1>3
  <2> QED BY <1>1, <2>1, BtJoinOne
<1> QED BY <1>2, <1>3

-----------------------------------------------------------------------------
(* The counts of users and opers (Opers).                                  *)

OpStates == [add : BOOLEAN, mode : SUBSET {"o", "r"}, opcnt : Int]

OpStart(n) == [add |-> TRUE, mode |-> opUsers[n].mode, opcnt |-> opOpcnt]

LEMMA OpStepIs ==
  ASSUME NEW n, NEW S \in OpStates, NEW ch \in {"+", "-", "o", "r"}
  PROVE  /\ OpStep(n, S, ch) \in OpStates
         /\ OpStep(n, S, ch).add = IF ch \in {"+", "-"} THEN ch = "+" ELSE S.add
         /\ "o" \in OpStep(n, S, ch).mode <=> IF ch = "o" THEN S.add ELSE "o" \in S.mode
         /\ OpStep(n, S, ch).opcnt = IF ch # "o" THEN S.opcnt ELSE IF S.add THEN S.opcnt + 1 ELSE S.opcnt - 1
<1>1. S.add \in BOOLEAN /\ S.mode \in SUBSET {"o", "r"} /\ S.opcnt \in Int
  BY DEF OpStates
<1>2. CASE ch \in {"+", "-"}
  <2>1. OpStep(n, S, ch) = [S EXCEPT !.add = (ch = "+")] /\ ch # "o"
    BY <1>2 DEF OpStep
  <2>2. \A x \in BOOLEAN : LET T == [S EXCEPT !.add = x]
                           IN  T \in OpStates /\ T.add = x /\ T.mode = S.mode /\ T.opcnt = S.opcnt
    BY DEF OpStates
  <2>3. (ch = "+") \in BOOLEAN
    OBVIOUS
  <2> QED BY <1>2, <2>1, <2>2, <2>3
<1>3. CASE ch \notin {"+", "-"}
  <2> DEFINE m == IF S.add /\ (ch = "r" => n \in OpIdentified) THEN S.mode \cup {ch} ELSE S.mode \ {ch}
             k == IF ch # "o" THEN S.opcnt ELSE IF S.add THEN S.opcnt + 1 ELSE S.opcnt - 1
  <2>1. OpStep(n, S, ch) = [S EXCEPT !.mode = m, !.opcnt = k]
    BY <1>3 DEF OpStep
  <2>2. m \in SUBSET {"o", "r"} /\ ("o" \in m <=> IF ch = "o" THEN S.add ELSE "o" \in S.mode)
    BY <1>1, <1>3
  <2>3. k \in Int
    BY <1>1
  <2> HIDE DEF m
  <2>4. k = IF ch # "o" THEN S.opcnt ELSE IF S.add THEN S.opcnt + 1 ELSE S.opcnt - 1
    OBVIOUS
  <2> HIDE DEF k
  <2>5. LET T == [S EXCEPT !.mode = m, !.opcnt = k]
        IN  T \in OpStates /\ T.add = S.add /\ T.mode = m /\ T.opcnt = k
    BY <2>2, <2>3 DEF OpStates
  <2> QED BY <1>3, <2>1, <2>2, <2>4, <2>5
<1> QED BY <1>2, <1>3

LEMMA OpTurns ==
  ASSUME NEW n, NEW R, NEW s \in Seq(R), NEW T, SetUmode(n, s)
  PROVE  \E f : /\ Turns([fold |-> "umode", n |-> n, list |-> s], OpStart(n), Len(s), f)
                /\ opUsers' = [opUsers EXCEPT ![n].mode = f[Len(s)].mode]
                /\ opOpcnt' = f[Len(s)].opcnt
<1> DEFINE a == [fold |-> "umode", n |-> n, list |-> s]
           h == OpStart(n)
           it == CHOOSE g : g = [t \in SUBSET DOMAIN s |->
                     IF t = {} THEN h ELSE OpStep(n, g[t \ {Max(t)}], s[Max(t)])]
<1>1. opUsers' = [opUsers EXCEPT ![n].mode = it[DOMAIN s].mode] /\ opOpcnt' = it[DOMAIN s].opcnt
  BY Zenon DEF SetUmode, OpStart, OpStep, FoldLeft, MapThenFoldSet
<1>2. DOMAIN s = 1..Len(s) /\ Len(s) \in Nat
  OBVIOUS
<1>3. \A w, i : Turn(a, w, i) = OpStep(n, w, s[i])
  BY DEF Turn
<1> HIDE DEF a, h
<1>4. PICK g : IsFold(a, h, 1..Len(s), g)
  BY <1>2, FoldExists
<1>5. g = [t \in SUBSET DOMAIN s |->
             IF t = {} THEN h ELSE OpStep(n, g[t \ {Max(t)}], s[Max(t)])]
  BY <1>2, <1>3, <1>4 DEF IsFold
<1>6. it = [t \in SUBSET DOMAIN s |->
              IF t = {} THEN h ELSE OpStep(n, it[t \ {Max(t)}], s[Max(t)])]
  BY <1>5
<1> HIDE DEF it
<1>7. IsFold(a, h, 1..Len(s), it)
  BY <1>2, <1>3, <1>6 DEF IsFold
<1>8. \E f : Turns(a, h, Len(s), f) /\ f[Len(s)] = it[1..Len(s)]
  BY <1>2, <1>7, FoldTurns
<1>9. PICK f : Turns(a, h, Len(s), f) /\ f[Len(s)] = it[DOMAIN s]
  BY <1>2, <1>8
<1>10. opUsers' = [opUsers EXCEPT ![n].mode = f[Len(s)].mode] /\ opOpcnt' = f[Len(s)].opcnt
  BY <1>1, <1>9
<1> QED BY <1>9, <1>10 DEF a, h

OpSigns(s, i) == {j \in 1..i : s[j] \in {"+", "-"}}
OpLastSign(s, i) == CHOOSE j \in OpSigns(s, i) : \A k \in OpSigns(s, i) : k <= j
OpSign(s, i) == IF OpSigns(s, i) = {} THEN "+" ELSE s[OpLastSign(s, i)]
OpOs(s) == {i \in DOMAIN s : s[i] = "o"}

LEMMA OpAfterIs ==
  ASSUME NEW was, NEW s
  PROVE  OperAfter(was, s) = IF OpOs(s) = {} THEN was
                             ELSE OpSign(s, CHOOSE i \in OpOs(s) : \A k \in OpOs(s) : k <= i) = "+"
BY DEF OperAfter, OpSign, OpLastSign, OpSigns, OpOs

\* A sign as the next character, and another one.
LEMMA OpSignNext ==
  ASSUME NEW s, NEW k \in Nat
  PROVE  OpSign(s, k + 1) = IF s[k + 1] \in {"+", "-"} THEN s[k + 1] ELSE OpSign(s, k)
<1>0. \A j \in 1..(k + 1) : j \in 1..k \/ j = k + 1
  OBVIOUS
<1>a. k + 1 \in 1..(k + 1) /\ \A j \in 1..k : j \in 1..(k + 1) /\ j <= k + 1 /\ ~(k + 1 <= j)
  OBVIOUS
<1>1. CASE s[k + 1] \in {"+", "-"}
  <2>1. k + 1 \in OpSigns(s, k + 1) /\ \A j \in OpSigns(s, k + 1) : j <= k + 1
    BY <1>0, <1>a, <1>1 DEF OpSigns
  <2>2. \A j \in OpSigns(s, k + 1) : k + 1 <= j => j = k + 1
    BY <1>0, <1>a DEF OpSigns
  <2>3. OpLastSign(s, k + 1) \in OpSigns(s, k + 1)
        /\ \A j \in OpSigns(s, k + 1) : j <= OpLastSign(s, k + 1)
    BY <2>1 DEF OpLastSign
  <2>4. OpLastSign(s, k + 1) = k + 1
    BY <2>1, <2>2, <2>3
  <2>5. OpSigns(s, k + 1) # {}
    BY <2>1
  <2>6. OpSign(s, k + 1) = s[k + 1]
    BY <2>4, <2>5 DEF OpSign
  <2> QED BY <1>1, <2>6
<1>2. CASE s[k + 1] \notin {"+", "-"}
  <2>1. OpSigns(s, k + 1) = OpSigns(s, k)
    BY <1>0, <1>a, <1>2 DEF OpSigns
  <2>2. ASSUME NEW i, NEW j, OpSigns(s, i) = OpSigns(s, j) PROVE OpSign(s, i) = OpSign(s, j)
    <3>1. OpLastSign(s, i) = OpLastSign(s, j)
      BY <2>2 DEF OpLastSign
    <3> QED BY <2>2, <3>1 DEF OpSign
  <2>3. OpSign(s, k + 1) = OpSign(s, k)
    BY <2>1, <2>2
  <2> QED BY <1>2, <2>3
<1> QED BY <1>1, <1>2

\* What a mode string does to a user whose o changes once at most.
LEMMA OpUmodes ==
  ASSUME NEW n \in OpOnline, opUsers[n] \in OpUser, opOpcnt \in Int,
         NEW s \in Seq({"+", "-", "o", "r"}), SetUmode(n, s)
  PROVE  \E m \in SUBSET {"o", "r"} :
           /\ opUsers' = [opUsers EXCEPT ![n].mode = m] /\ opOpcnt' \in Int
           /\ Once(IsOper(n), s) =>
                \/ ("o" \in m <=> IsOper(n)) /\ opOpcnt' = opOpcnt
                \/ "o" \in m /\ ~IsOper(n) /\ opOpcnt' = opOpcnt + 1
                \/ "o" \notin m /\ IsOper(n) /\ opOpcnt' = opOpcnt - 1
<1> DEFINE a == [fold |-> "umode", n |-> n, list |-> s]
<1>1. PICK f : /\ Turns(a, OpStart(n), Len(s), f)
               /\ opUsers' = [opUsers EXCEPT ![n].mode = f[Len(s)].mode]
               /\ opOpcnt' = f[Len(s)].opcnt
  BY OpTurns
<1>2. f[0] = OpStart(n) /\ \A k \in Nat : k < Len(s) => f[k + 1] = OpStep(n, f[k], s[k + 1])
  BY <1>1 DEF Turns, Turn
<1>3. opUsers[n].mode \in SUBSET {"o", "r"} /\ IsOper(n) = ("o" \in opUsers[n].mode)
  BY DEF OpUser, IsOper
<1>4. /\ OpStart(n) \in OpStates /\ OpStart(n).add = TRUE /\ OpStart(n).opcnt = opOpcnt
      /\ "o" \in OpStart(n).mode <=> IsOper(n)
  BY <1>3 DEF OpStart, OpStates
<1>5. Len(s) \in Nat /\ DOMAIN s = 1..Len(s) /\ \A k \in 1..Len(s) : s[k] \in {"+", "-", "o", "r"}
  OBVIOUS
<1> HIDE DEF a
<1> DEFINE P == {k \in Nat : k <= Len(s) => f[k] \in OpStates /\ (f[k].add <=> OpSign(s, k) = "+")}
<1>6. 0 \in P
  <2>1. OpSigns(s, 0) = {}
    BY DEF OpSigns
  <2> QED BY <1>2, <1>4, <2>1 DEF OpSign
<1>7. ASSUME NEW k \in Nat, k \in P PROVE k + 1 \in P
  <2>1. SUFFICES ASSUME k + 1 <= Len(s)
                 PROVE  f[k + 1] \in OpStates /\ (f[k + 1].add <=> OpSign(s, k + 1) = "+")
    OBVIOUS
  <2>2. /\ f[k] \in OpStates /\ (f[k].add <=> OpSign(s, k) = "+")
        /\ f[k + 1] = OpStep(n, f[k], s[k + 1]) /\ s[k + 1] \in {"+", "-", "o", "r"}
    BY <1>2, <1>5, <1>7, <2>1
  <2>3. /\ f[k + 1] \in OpStates
        /\ f[k + 1].add = IF s[k + 1] \in {"+", "-"} THEN s[k + 1] = "+" ELSE f[k].add
    BY <2>2, OpStepIs
  <2> QED BY <2>2, <2>3, OpSignNext
<1> HIDE DEF P
<1>8. \A k \in Nat : k <= Len(s) => f[k] \in OpStates /\ (f[k].add <=> OpSign(s, k) = "+")
  <2>1. Nat \subseteq P
    BY <1>6, <1>7, NatInd
  <2> QED BY <2>1 DEF P
<1>9. f[Len(s)].mode \in SUBSET {"o", "r"} /\ f[Len(s)].opcnt \in Int
  <2>1. f[Len(s)] \in OpStates
    BY <1>5, <1>8
  <2> QED BY <2>1 DEF OpStates
<1>10. \A k \in Nat : k < Len(s) /\ s[k + 1] # "o" =>
          ("o" \in f[k + 1].mode <=> "o" \in f[k].mode) /\ f[k + 1].opcnt = f[k].opcnt
  BY <1>2, <1>5, <1>8, OpStepIs
<1>11. CASE OpOs(s) = {}
  <2> DEFINE Q == {k \in Nat : k <= Len(s) => ("o" \in f[k].mode <=> IsOper(n)) /\ f[k].opcnt = opOpcnt}
  <2>1. 0 \in Q
    BY <1>2, <1>4
  <2>2. ASSUME NEW k \in Nat, k \in Q PROVE k + 1 \in Q
    <3>1. k + 1 <= Len(s) => s[k + 1] # "o"
      BY <1>5, <1>11 DEF OpOs
    <3> QED BY <1>10, <2>2, <3>1
  <2> HIDE DEF Q
  <2>3. Len(s) \in Q
    BY <1>5, <2>1, <2>2, NatInd
  <2>4. ("o" \in f[Len(s)].mode <=> IsOper(n)) /\ f[Len(s)].opcnt = opOpcnt
    BY <1>5, <2>3 DEF Q
  <2> QED BY <1>1, <1>9, <2>4
<1>12. CASE OpOs(s) # {} /\ Once(IsOper(n), s)
  <2>1. Cardinality(OpOs(s)) = 1 /\ OperAfter(IsOper(n), s) # IsOper(n)
    BY <1>12 DEF Once, OpOs
  <2>2. PICK p : OpOs(s) = {p}
    <3>1. IsFiniteSet(OpOs(s))
      <4>1. IsFiniteSet(1..Len(s))
        BY <1>5, FS_Interval
      <4> QED BY <1>5, <4>1, FS_Subset DEF OpOs
    <3> QED BY <2>1, <3>1, FS_Singleton
  <2>3. p \in 1..Len(s) /\ s[p] = "o" /\ \A k \in 1..Len(s) : s[k] = "o" => k = p
    BY <1>5, <2>2 DEF OpOs
  <2>4. p = CHOOSE i \in OpOs(s) : \A k \in OpOs(s) : k <= i
    BY <2>2, <2>3
  <2>5. (OpSign(s, p) = "+") # IsOper(n)
    BY <1>12, <2>1, <2>4, OpAfterIs
  <2>6. PICK q \in Nat : p = q + 1 /\ q < Len(s)
    BY <1>5, <2>3
  <2>7. OpSign(s, p) = OpSign(s, q)
    BY <2>3, <2>6, OpSignNext
  <2>8. f[q].add <=> ~IsOper(n)
    <3>1. f[q].add <=> OpSign(s, q) = "+"
      BY <1>5, <1>8, <2>6
    <3>2. IsOper(n) \in BOOLEAN
      BY <1>3
    <3> QED BY <2>5, <2>7, <3>1, <3>2
  <2> DEFINE Q == {k \in Nat : k <= Len(s) =>
                      IF k <= q THEN ("o" \in f[k].mode <=> IsOper(n)) /\ f[k].opcnt = opOpcnt
                      ELSE /\ "o" \in f[k].mode <=> f[q].add
                           /\ f[k].opcnt = IF f[q].add THEN opOpcnt + 1 ELSE opOpcnt - 1}
  <2>9. 0 \in Q
    BY <1>2, <1>4
  <2>10. ASSUME NEW k \in Nat, k \in Q PROVE k + 1 \in Q
    <3>1. SUFFICES ASSUME k + 1 <= Len(s) PROVE k + 1 \in Q
      OBVIOUS
    <3>2. CASE k = q
      <4>1. f[q] \in OpStates /\ f[p] = OpStep(n, f[q], s[p])
        BY <1>2, <1>5, <1>8, <2>6
      <4>2. /\ "o" \in f[p].mode <=> f[q].add
            /\ f[p].opcnt = IF f[q].add THEN f[q].opcnt + 1 ELSE f[q].opcnt - 1
        BY <2>3, <4>1, OpStepIs
      <4>3. f[q].opcnt = opOpcnt
        BY <2>6, <2>10, <3>1, <3>2
      <4> QED BY <2>6, <3>2, <4>2, <4>3
    <3>3. CASE k # q
      <4>1. s[k + 1] # "o"
        BY <1>5, <2>3, <2>6, <3>1, <3>3
      <4>2. ("o" \in f[k + 1].mode <=> "o" \in f[k].mode) /\ f[k + 1].opcnt = f[k].opcnt
        BY <1>5, <1>10, <3>1, <4>1
      <4> QED BY <2>10, <3>1, <3>3, <4>2
    <3> QED BY <3>2, <3>3
  <2> HIDE DEF Q
  <2>11. Len(s) \in Q
    BY <1>5, <2>9, <2>10, NatInd
  <2>12. /\ "o" \in f[Len(s)].mode <=> f[q].add
         /\ f[Len(s)].opcnt = IF f[q].add THEN opOpcnt + 1 ELSE opOpcnt - 1
    BY <1>5, <2>6, <2>11 DEF Q
  <2> QED BY <1>1, <1>9, <2>8, <2>12
<1>13. CASE ~Once(IsOper(n), s)
  BY <1>1, <1>9, <1>13
<1> QED BY <1>11, <1>12, <1>13

OpOpers(users) == {n \in DOMAIN users : "o" \in users[n].mode}

OpInv ==
    /\ opUsers \in [OpOnline -> OpUser] /\ IsFiniteSet(OpOnline)
    /\ {opUsercnt, opMaxusercnt} \subseteq Nat /\ opOpcnt \in Int /\ opDrift \in BOOLEAN
    /\ OpersCounted

LEMMA OpNow ==
  ASSUME OpInv
  PROVE  /\ opUsers \in [OpOnline -> OpUser] /\ IsFiniteSet(OpOnline) /\ DOMAIN opUsers = OpOnline
         /\ \A n \in OpOnline : opUsers[n] \in OpUser
         /\ opUsercnt \in Nat /\ opMaxusercnt \in Nat /\ opOpcnt \in Int /\ opDrift \in BOOLEAN
         /\ opUsercnt = Cardinality(OpOnline) /\ opMaxusercnt >= opUsercnt
         /\ ~opDrift => opOpcnt = Cardinality(OpOpers(opUsers))
         /\ IsFiniteSet(OpOpers(opUsers)) /\ OpOpers(opUsers) \subseteq OpOnline
         /\ \A n \in OpOnline : n \in OpOpers(opUsers) <=> IsOper(n)
<1>1. OpOpers(opUsers) = {n \in OpOnline : IsOper(n)}
  BY DEF OpOpers, OpOnline, IsOper
<1>2. IsFiniteSet(OpOpers(opUsers))
  BY <1>1, FS_Subset DEF OpInv
<1>3. /\ opUsers \in [OpOnline -> OpUser] /\ IsFiniteSet(OpOnline)
      /\ opUsercnt \in Nat /\ opMaxusercnt \in Nat /\ opOpcnt \in Int /\ opDrift \in BOOLEAN
  BY DEF OpInv
<1>4. /\ opUsercnt = Cardinality(OpOnline) /\ opMaxusercnt >= opUsercnt
      /\ ~opDrift => opOpcnt = Cardinality(OpOpers(opUsers))
  BY <1>1 DEF OpInv, OpersCounted, DoStats, GetUserStats
<1> QED BY <1>1, <1>2, <1>3, <1>4 DEF OpOnline

LEMMA OpNext ==
  ASSUME opUsers' \in [DOMAIN opUsers' -> OpUser], IsFiniteSet(DOMAIN opUsers'),
         opUsercnt' \in Nat, opMaxusercnt' \in Nat, opOpcnt' \in Int, opDrift' \in BOOLEAN,
         opUsercnt' = Cardinality(DOMAIN opUsers'), opMaxusercnt' >= opUsercnt',
         ~opDrift' => opOpcnt' = Cardinality(OpOpers(opUsers'))
  PROVE  OpInv'
<1>1. OpOpers(opUsers') = {n \in OpOnline : IsOper(n)}'
  BY DEF OpOpers, OpOnline, IsOper
<1>2. OpersCounted'
  BY <1>1 DEF OpersCounted, DoStats, GetUserStats, OpOnline
<1>3. OpOnline' = DOMAIN opUsers'
  BY DEF OpOnline
<1>4. OpersCounted' /\ (opUsers \in [OpOnline -> OpUser])' /\ IsFiniteSet(OpOnline)'
  BY <1>2, <1>3
<1> QED BY <1>4 DEF OpInv

\* Users who come, go and take other nicks.
LEMMA OpComesAndGoes ==
  ASSUME OpInv, NEW n \in OpNick, NEW m \in OpNick,
         NewUser(n) \/ OpDeleteUser(n) \/ ChangeUserNick(n, m)
  PROVE  OpInv'
<1>1. CASE NewUser(n)
  <2> DEFINE e == [mode |-> {}, super |-> FALSE, count |-> 0]
  <2>1. /\ n \notin OpOnline
        /\ opUsers' = [x \in OpOnline \cup {n} |-> IF x = n THEN e ELSE opUsers[x]]
        /\ opUsercnt' = opUsercnt + 1
        /\ opMaxusercnt' = IF opUsercnt' > opMaxusercnt THEN opUsercnt' ELSE opMaxusercnt
        /\ UNCHANGED <<opOpcnt, opIsOper, opDrift>>
    BY <1>1 DEF NewUser
  <2>2. e \in OpUser /\ e.mode = {}
    BY DEF OpUser
  <2> HIDE DEF e
  <2>3. DOMAIN opUsers' = OpOnline \cup {n} /\ opUsers' \in [DOMAIN opUsers' -> OpUser]
        /\ opUsers'[n] = e /\ \A x \in OpOnline : opUsers'[x] = opUsers[x]
    BY <2>1, <2>2, OpNow
  <2>4. OpOpers(opUsers') = OpOpers(opUsers)
    BY <2>1, <2>2, <2>3, OpNow DEF OpOpers
  <2>5. IsFiniteSet(DOMAIN opUsers') /\ Cardinality(DOMAIN opUsers') = Cardinality(OpOnline) + 1
    BY <2>1, <2>3, OpNow, FS_AddElement
  <2>6. opUsercnt' = Cardinality(DOMAIN opUsers') /\ opUsercnt' \in Nat
    BY <2>1, <2>5, OpNow
  <2>7. opMaxusercnt' >= opUsercnt' /\ opMaxusercnt' \in Nat
    BY <2>1, <2>6, OpNow
  <2>8. ~opDrift' => opOpcnt' = Cardinality(OpOpers(opUsers'))
    BY <2>1, <2>4, OpNow
  <2> QED BY <2>1, <2>3, <2>5, <2>6, <2>7, <2>8, OpNow, OpNext
<1>2. CASE OpDeleteUser(n)
  <2>1. /\ n \in OpOnline /\ opUsercnt' = opUsercnt - 1
        /\ opOpcnt' = (IF IsOper(n) THEN opOpcnt - 1 ELSE opOpcnt)
        /\ opUsers' = [x \in OpOnline \ {n} |-> opUsers[x]]
        /\ UNCHANGED <<opMaxusercnt, opDrift>>
    BY <1>2 DEF OpDeleteUser
  <2>2. DOMAIN opUsers' = OpOnline \ {n} /\ opUsers' \in [DOMAIN opUsers' -> OpUser]
        /\ \A x \in OpOnline \ {n} : opUsers'[x] = opUsers[x]
    BY <2>1, OpNow
  <2>3. OpOpers(opUsers') = OpOpers(opUsers) \ {n}
    BY <2>1, <2>2, OpNow DEF OpOpers
  <2>4. IsFiniteSet(DOMAIN opUsers') /\ Cardinality(DOMAIN opUsers') = Cardinality(OpOnline) - 1
        /\ Cardinality(DOMAIN opUsers') \in Nat
    BY <2>1, <2>2, OpNow, FS_RemoveElement, FS_CardinalityType
  <2>5. opUsercnt' = Cardinality(DOMAIN opUsers') /\ opUsercnt' \in Nat /\ opMaxusercnt' >= opUsercnt'
    BY <2>1, <2>4, OpNow
  <2>6. Cardinality(OpOpers(opUsers) \ {n}) = IF IsOper(n) THEN Cardinality(OpOpers(opUsers)) - 1
                                              ELSE Cardinality(OpOpers(opUsers))
    <3>1. CASE IsOper(n)
      <4>1. n \in OpOpers(opUsers) /\ IsFiniteSet(OpOpers(opUsers))
        BY <2>1, <3>1, OpNow
      <4> QED BY <3>1, <4>1, FS_RemoveElement
    <3>2. CASE ~IsOper(n)
      <4>1. OpOpers(opUsers) \ {n} = OpOpers(opUsers)
        BY <2>1, <3>2, OpNow
      <4> QED BY <3>2, <4>1
    <3> QED BY <3>1, <3>2
  <2>7. ~opDrift' => opOpcnt' = Cardinality(OpOpers(opUsers'))
    BY <2>1, <2>3, <2>6, OpNow
  <2>8. opOpcnt' \in Int /\ opDrift' \in BOOLEAN /\ opMaxusercnt' \in Nat
    BY <2>1, OpNow
  <2> QED BY <2>2, <2>4, <2>5, <2>7, <2>8, OpNext
<1>3. CASE ChangeUserNick(n, m)
  <2> DEFINE e == [opUsers[n] EXCEPT !.super = FALSE]
             rest == (OpOnline \ {n}) \cup {m}
  <2>1. /\ n \in OpOnline /\ m \notin OpOnline
        /\ opUsers' = [x \in rest |-> IF x = m THEN e ELSE opUsers[x]]
        /\ UNCHANGED <<opUsercnt, opOpcnt, opMaxusercnt, opDrift>>
    BY <1>3 DEF ChangeUserNick
  <2>2. e \in OpUser /\ e.mode = opUsers[n].mode
    <3>1. opUsers[n] \in OpUser
      BY <2>1, OpNow
    <3> QED BY <3>1 DEF OpUser
  <2> HIDE DEF e
  <2>3. DOMAIN opUsers' = rest /\ opUsers' \in [DOMAIN opUsers' -> OpUser]
        /\ opUsers'[m] = e /\ \A x \in OpOnline \ {n} : opUsers'[x] = opUsers[x]
    BY <2>1, <2>2, OpNow
  <2>4. IsFiniteSet(OpOnline \ {n}) /\ Cardinality(OpOnline \ {n}) = Cardinality(OpOnline) - 1
    BY <2>1, OpNow, FS_RemoveElement
  <2>5. IsFiniteSet(rest) /\ Cardinality(rest) = Cardinality(OpOnline \ {n}) + 1
    BY <2>1, <2>4, FS_AddElement
  <2>6. Cardinality(rest) = Cardinality(OpOnline)
    BY <2>4, <2>5, OpNow
  <2>7. Cardinality(OpOpers(opUsers')) = Cardinality(OpOpers(opUsers))
    <3>1. CASE IsOper(n)
      <4>1. OpOpers(opUsers') = (OpOpers(opUsers) \ {n}) \cup {m}
        BY <2>1, <2>2, <2>3, <3>1, OpNow DEF OpOpers, IsOper
      <4>2. n \in OpOpers(opUsers) /\ IsFiniteSet(OpOpers(opUsers)) /\ m \notin OpOpers(opUsers) \ {n}
        BY <2>1, <3>1, OpNow
      <4>3. /\ IsFiniteSet(OpOpers(opUsers) \ {n})
            /\ Cardinality(OpOpers(opUsers) \ {n}) = Cardinality(OpOpers(opUsers)) - 1
        BY <4>2, FS_RemoveElement
      <4>4. Cardinality((OpOpers(opUsers) \ {n}) \cup {m}) = Cardinality(OpOpers(opUsers) \ {n}) + 1
        BY <4>2, <4>3, FS_AddElement
      <4>5. Cardinality(OpOpers(opUsers)) \in Nat
        BY <4>2, FS_CardinalityType
      <4> QED BY <4>1, <4>3, <4>4, <4>5
    <3>2. CASE ~IsOper(n)
      <4>1. OpOpers(opUsers') = OpOpers(opUsers)
        BY <2>1, <2>2, <2>3, <3>2, OpNow DEF OpOpers, IsOper
      <4> QED BY <4>1
    <3> QED BY <3>1, <3>2
  <2>8. ~opDrift' => opOpcnt' = Cardinality(OpOpers(opUsers'))
    BY <2>1, <2>7, OpNow
  <2>9. /\ IsFiniteSet(DOMAIN opUsers') /\ opUsercnt' = Cardinality(DOMAIN opUsers')
        /\ opUsercnt' \in Nat /\ opMaxusercnt' \in Nat /\ opMaxusercnt' >= opUsercnt'
        /\ opOpcnt' \in Int /\ opDrift' \in BOOLEAN
    BY <2>1, <2>3, <2>5, <2>6, OpNow
  <2> QED BY <2>3, <2>8, <2>9, OpNext
<1> QED BY <1>1, <1>2, <1>3

LEMMA OpUmodeSteps ==
  ASSUME OpInv, NEW n \in OpOnline, NEW s \in OpModes, SetUmode(n, s),
         opDrift' = (opDrift \/ ~Once(IsOper(n), s)), UNCHANGED <<opUsercnt, opMaxusercnt>>
  PROVE  OpInv'
<1>1. s \in Seq({"+", "-", "o", "r"}) /\ opUsers[n] \in OpUser /\ opOpcnt \in Int
  BY OpNow, OpersConstants
<1>2. PICK m \in SUBSET {"o", "r"} :
           /\ opUsers' = [opUsers EXCEPT ![n].mode = m] /\ opOpcnt' \in Int
           /\ Once(IsOper(n), s) =>
                \/ ("o" \in m <=> IsOper(n)) /\ opOpcnt' = opOpcnt
                \/ "o" \in m /\ ~IsOper(n) /\ opOpcnt' = opOpcnt + 1
                \/ "o" \notin m /\ IsOper(n) /\ opOpcnt' = opOpcnt - 1
  BY <1>1, OpUmodes
<1>3. [opUsers[n] EXCEPT !.mode = m] \in OpUser /\ [opUsers[n] EXCEPT !.mode = m].mode = m
  BY <1>1 DEF OpUser
<1>4. /\ DOMAIN opUsers' = OpOnline /\ opUsers'[n] = [opUsers[n] EXCEPT !.mode = m]
      /\ \A x \in OpOnline \ {n} : opUsers'[x] = opUsers[x]
      /\ opUsers' = [x \in OpOnline |-> opUsers'[x]]
  BY <1>2, OpNow
<1>5. opUsers' \in [DOMAIN opUsers' -> OpUser] /\ opUsers'[n].mode = m
  BY <1>3, <1>4, OpNow
<1>6. OpOpers(opUsers') = IF "o" \in m THEN OpOpers(opUsers) \cup {n} ELSE OpOpers(opUsers) \ {n}
  BY <1>4, <1>5, OpNow DEF OpOpers
<1>7. ASSUME ~opDrift' PROVE opOpcnt' = Cardinality(OpOpers(opUsers'))
  <2>1. Once(IsOper(n), s) /\ ~opDrift
    BY <1>7
  <2>2. opOpcnt = Cardinality(OpOpers(opUsers)) /\ IsFiniteSet(OpOpers(opUsers))
        /\ (n \in OpOpers(opUsers) <=> IsOper(n))
    BY <2>1, OpNow
  <2>3. CASE ("o" \in m <=> IsOper(n)) /\ opOpcnt' = opOpcnt
    <3>1. OpOpers(opUsers') = OpOpers(opUsers)
      BY <1>6, <2>2, <2>3
    <3> QED BY <2>2, <2>3, <3>1
  <2>4. CASE "o" \in m /\ ~IsOper(n) /\ opOpcnt' = opOpcnt + 1
    <3>1. Cardinality(OpOpers(opUsers) \cup {n}) = Cardinality(OpOpers(opUsers)) + 1
      BY <2>2, <2>4, FS_AddElement
    <3> QED BY <1>6, <2>2, <2>4, <3>1
  <2>5. CASE "o" \notin m /\ IsOper(n) /\ opOpcnt' = opOpcnt - 1
    <3>1. Cardinality(OpOpers(opUsers) \ {n}) = Cardinality(OpOpers(opUsers)) - 1
      BY <2>2, <2>5, FS_RemoveElement
    <3> QED BY <1>6, <2>2, <2>5, <3>1
  <2> QED BY <1>2, <2>1, <2>3, <2>4, <2>5
<1>8. /\ IsFiniteSet(DOMAIN opUsers') /\ opUsercnt' = Cardinality(DOMAIN opUsers')
      /\ opUsercnt' \in Nat /\ opMaxusercnt' \in Nat /\ opMaxusercnt' >= opUsercnt'
      /\ opOpcnt' \in Int /\ opDrift' \in BOOLEAN
  BY <1>2, <1>4, OpNow
<1> QED BY <1>5, <1>7, <1>8, OpNext

LEMMA OpSteps ==
  ASSUME OpInv, [OpersNext]_opVars
  PROVE  OpInv'
<1>1. ASSUME NEW n \in OpNick, NewUser(n) \/ OpDeleteUser(n) PROVE OpInv'
  BY <1>1, OpComesAndGoes
<1>2. ASSUME NEW n \in OpNick, NEW m \in OpNick, ChangeUserNick(n, m) PROVE OpInv'
  BY <1>2, OpComesAndGoes
<1>3. ASSUME NEW n \in OpNick, NEW s \in OpModes, DoUmode(n, s) PROVE OpInv'
  <2>1. /\ n \in OpOnline /\ SetUmode(n, s) /\ opDrift' = (opDrift \/ ~Once(IsOper(n), s))
        /\ UNCHANGED <<opUsercnt, opMaxusercnt>>
    BY <1>3 DEF DoUmode
  <2> QED BY <2>1, OpUmodeSteps
<1>4. ASSUME NEW by \in OpNick, NEW n \in OpNick, NEW s \in OpModes, NEW obeyed \in BOOLEAN,
             DoOperumodes(by, n, s, obeyed)
      PROVE  OpInv'
  <2>1. /\ n \in OpOnline /\ SetUmode(n, s) /\ opDrift' = (opDrift \/ ~Once(IsOper(n), s))
        /\ UNCHANGED <<opUsercnt, opMaxusercnt>>
    BY <1>4 DEF DoOperumodes
  <2> QED BY <2>1, OpUmodeSteps
<1>5. ASSUME NEW n \in OpOnline, NEW u \in OpUser, u.mode = opUsers[n].mode,
             opUsers' = [opUsers EXCEPT ![n] = u],
             UNCHANGED <<opUsercnt, opOpcnt, opMaxusercnt, opDrift>>
      PROVE  OpInv'
  <2>1. /\ DOMAIN opUsers' = OpOnline /\ opUsers' \in [DOMAIN opUsers' -> OpUser]
        /\ \A x \in OpOnline : opUsers'[x].mode = opUsers[x].mode
    BY <1>5, OpNow
  <2>2. OpOpers(opUsers') = OpOpers(opUsers)
    BY <2>1, OpNow DEF OpOpers
  <2> QED BY <1>5, <2>1, <2>2, OpNow, OpNext
<1>6. ASSUME NEW n \in OpNick, NEW late \in BOOLEAN, BadPassword(n, late) PROVE OpInv'
  <2> DEFINE u == [opUsers[n] EXCEPT !.count = IF late THEN 1 ELSE @ + 1]
  <2>1. /\ n \in OpOnline /\ opUsers' = [opUsers EXCEPT ![n] = u]
        /\ UNCHANGED <<opUsercnt, opOpcnt, opMaxusercnt, opDrift>>
    BY <1>6 DEF BadPassword
  <2>2. opUsers[n] \in OpUser
    BY <2>1, OpNow
  <2>3. u \in OpUser /\ u.mode = opUsers[n].mode
    BY <2>2 DEF OpUser
  <2> HIDE DEF u
  <2> QED BY <1>5, <2>1, <2>3
<1>7. ASSUME NEW n \in OpNick, NEW on \in BOOLEAN, SetSuperadmin(n, on) PROVE OpInv'
  <2> DEFINE u == [opUsers[n] EXCEPT !.super = on]
  <2>1. /\ n \in OpOnline /\ opUsers' = [opUsers EXCEPT ![n] = u]
        /\ UNCHANGED <<opUsercnt, opOpcnt, opMaxusercnt, opDrift>>
    BY <1>7 DEF SetSuperadmin
  <2>2. opUsers[n] \in OpUser
    BY <2>1, OpNow
  <2>3. u \in OpUser /\ u.mode = opUsers[n].mode
    BY <2>2 DEF OpUser
  <2> HIDE DEF u
  <2> QED BY <1>5, <2>1, <2>3
<1>8. ASSUME UNCHANGED <<opUsers, opUsercnt, opOpcnt, opDrift>>,
             opMaxusercnt' \in {opUsercnt, opMaxusercnt}
      PROVE  OpInv'
  <2>1. opUsers' \in [DOMAIN opUsers' -> OpUser] /\ IsFiniteSet(DOMAIN opUsers')
        /\ OpOpers(opUsers') = OpOpers(opUsers) /\ DOMAIN opUsers' = OpOnline
    BY <1>8, OpNow
  <2> QED BY <1>8, <2>1, OpNow, OpNext
<1>9. ASSUME StatsReset \/ UNCHANGED opVars PROVE OpInv'
  BY <1>8, <1>9 DEF StatsReset, opVars
<1> QED BY <1>1, <1>2, <1>3, <1>4, <1>6, <1>7, <1>9 DEF OpersNext

LEMMA OpStarts ==
  ASSUME OpersInit
  PROVE  OpInv
<1>1. opUsers = << >> /\ opUsercnt = 0 /\ opOpcnt = 0 /\ opMaxusercnt = 0 /\ opDrift = FALSE
  BY DEF OpersInit
<1>2. OpOnline = {} /\ opUsers \in [{} -> OpUser]
  BY <1>1 DEF OpOnline
<1>3. IsFiniteSet(OpOnline) /\ Cardinality({}) = 0
  BY <1>2, FS_EmptySet
<1>4. {n \in OpOnline : IsOper(n)} = {}
  BY <1>2
<1>5. OpersCounted
  BY <1>1, <1>2, <1>3, <1>4 DEF OpersCounted, DoStats, GetUserStats
<1>6. opUsers \in [OpOnline -> OpUser]
  BY <1>2
<1>7. opUsercnt \in Nat /\ opMaxusercnt \in Nat /\ opOpcnt \in Int
  BY <1>1
<1>8. opDrift \in BOOLEAN
  BY <1>1
<1>9. {opUsercnt, opMaxusercnt} \subseteq Nat
  BY <1>7
<1> QED BY <1>3, <1>5, <1>6, <1>7, <1>8, <1>9 DEF OpInv

LEMMA OpCounts ==
  ASSUME OpInv
  PROVE  OpersCounted
BY DEF OpInv

-----------------------------------------------------------------------------
(* The numbers of a kicker (BotSettings).                                  *)

BxInv ==
    /\ bxKicker \in Kickers
    /\ bxKick \in [on : BOOLEAN, ttb : Int, first : Int, second : Int]
    /\ KickersWork

LEMMA BxNumberOf ==
  ASSUME NEW n \in Int
  PROVE  Int16(n) \in Int
BY DEF Int16

LEMMA BxBounds ==
  ASSUME NEW k \in Kickers
  PROVE  /\ FirstOf[k].least \in Int /\ FirstOf[k].def \in Int /\ FirstOf[k].def >= FirstOf[k].least
         /\ k = "plain" => FirstOf[k].least = 0
         /\ SecondOf[k].least \in Int /\ SecondOf[k].most \in Int /\ SecondOf[k].def \in Int
         /\ SecondOf[k].def >= SecondOf[k].least /\ SecondOf[k].def <= SecondOf[k].most
<1>1. BSKeepData \in Int /\ BSKeepData >= 10
  BY BotSettingsConstants
<1>2. k = "caps" \/ k = "flood" \/ k = "repeat" \/ k = "plain"
  BY DEF Kickers
<1>3. FirstOf[k] = CASE k = "caps" -> [def |-> 10, least |-> 1]
                     [] k = "flood" -> [def |-> 6, least |-> 2]
                     [] k = "repeat" -> [def |-> 3, least |-> 2]
                     [] k = "plain" -> [def |-> 0, least |-> 0]
  BY DEF FirstOf
<1>4. SecondOf[k] = CASE k = "caps" -> [def |-> 25, least |-> 1, most |-> 100]
                      [] k = "flood" -> [def |-> 10, least |-> 1, most |-> BSKeepData]
                      [] OTHER -> [def |-> 0, least |-> 0, most |-> 0]
  BY DEF SecondOf
<1> QED BY <1>1, <1>2, <1>3, <1>4

LEMMA BxSteps ==
  ASSUME BxInv, [BotSettingsNext]_bxVars
  PROVE  BxInv'
<1> USE DEF BxInv
<1>1. ASSUME NEW ttb \in BxNumbers \cup {BxNone}, NEW first \in BxNumbers \cup {BxNone},
             NEW second \in BxNumbers \cup {BxNone}, KickOn(ttb, first, second)
      PROVE  BxInv'
  <2> DEFINE stored == IF ttb = BxNone THEN 0 ELSE Int16(ttb)
  <2>1. stored \in Int
    BY BxNumberOf, BotSettingsConstants
  <2>2. /\ bxKick' = IF stored < 0 THEN [bxKick EXCEPT !.ttb = stored]
                     ELSE [on |-> TRUE, ttb |-> stored, first |-> First(first), second |-> Second(second)]
        /\ bxKicker' = bxKicker
    BY <1>1 DEF KickOn
  <2>3. First(first) \in Int /\ First(first) >= FirstOf[bxKicker].least
    <3>1. first = BxNone \/ Int16(first) \in Int
      BY BxNumberOf, BotSettingsConstants
    <3> QED BY <3>1, BxBounds DEF First
  <2>4. Second(second) \in Int /\ Second(second) \in SecondOf[bxKicker].least..SecondOf[bxKicker].most
    <3>1. second = BxNone \/ Int16(second) \in Int
      BY BxNumberOf, BotSettingsConstants
    <3> QED BY <3>1, BxBounds DEF Second
  <2> HIDE DEF stored
  <2>5. CASE stored < 0
    BY <2>1, <2>2, <2>5 DEF KickersWork
  <2>6. CASE ~(stored < 0)
    BY <2>1, <2>2, <2>3, <2>4, <2>6 DEF KickersWork
  <2> QED BY <2>5, <2>6
<1>2. ASSUME KickOff PROVE BxInv'
  BY <1>2 DEF KickOff, KickersWork
<1>3. ASSUME UNCHANGED <<bxKicker, bxKick>> PROVE BxInv'
  BY <1>3 DEF KickersWork
<1>4. ASSUME NEW option \in BxOptions, NEW on \in BOOLEAN, SetOption(option, on) PROVE BxInv'
  BY <1>3, <1>4 DEF SetOption
<1>5. ASSUME NEW word \in BxWords, BadwordsAdd(word) \/ BadwordsDel(word) PROVE BxInv'
  BY <1>3, <1>5 DEF BadwordsAdd, BadwordsDel
<1>6. ASSUME NEW numbers, BadwordsDelNumbers(numbers) PROVE BxInv'
  BY <1>3, <1>6 DEF BadwordsDelNumbers
<1>7. ASSUME BadwordsClear \/ UNCHANGED bxVars PROVE BxInv'
  BY <1>3, <1>7 DEF BadwordsClear, bxVars
<1> HIDE DEF BxInv
<1> QED BY <1>1, <1>2, <1>4, <1>5, <1>6, <1>7 DEF BotSettingsNext

LEMMA BxStarts ==
  ASSUME BotSettingsInit
  PROVE  BxInv
BY DEF BotSettingsInit, BxInv, KickersWork

LEMMA BxWork ==
  ASSUME BxInv
  PROVE  KickersWork
BY DEF BxInv

-----------------------------------------------------------------------------
(* The bad words (BotSettings).                                            *)

BxWordsInv ==
    /\ bxWords \in Seq(BxWords \cup {BxNone})
    /\ \A i, j \in DOMAIN bxWords : bxWords[i] \in BxWords /\ bxWords[i] = bxWords[j] => i = j

LEMMA BxWordsSteps == BxWordsInv /\ [BotSettingsNext]_bxVars => BxWordsInv'
<1> SUFFICES ASSUME BxWordsInv, [BotSettingsNext]_bxVars PROVE BxWordsInv'
  OBVIOUS
<1> USE BotSettingsConstants DEF BxWordsInv
<1> DEFINE words == BxWords \cup {BxNone}
<1>1. ASSUME NEW word \in BxWords, BadwordsAdd(word) PROVE BxWordsInv'
  <2>0. \A i \in DOMAIN bxWords : bxWords[i] # word
    BY <1>1 DEF BadwordsAdd, SlotsOf
  <2>1. CASE FreeSlots # {}
    <3> DEFINE k == CHOOSE i \in FreeSlots : \A j \in FreeSlots : i <= j
    <3>1. FreeSlots \subseteq DOMAIN bxWords /\ DOMAIN bxWords \subseteq Nat
      BY DEF FreeSlots, SlotsOf
    <3>2. k \in DOMAIN bxWords
      BY <2>1, <3>1, LeastPlace
    <3>3. bxWords' = [bxWords EXCEPT ![k] = word]
      BY <1>1, <2>1 DEF BadwordsAdd
    <3> HIDE DEF k
    <3>. QED
      BY <2>0, <3>2, <3>3
  <2>2. CASE FreeSlots = {}
    <3>1. bxWords' = Append(bxWords, word)
      BY <1>1, <2>2 DEF BadwordsAdd
    <3>2. /\ bxWords' \in Seq(words) /\ DOMAIN bxWords' = DOMAIN bxWords \cup {Len(bxWords) + 1}
          /\ \A j \in DOMAIN bxWords' : bxWords'[j] = IF j = Len(bxWords) + 1 THEN word ELSE bxWords[j]
      BY <3>1, EntryAdded
    <3>. QED
      BY <2>0, <3>2
  <2>. QED
    BY <2>1, <2>2
<1>2. ASSUME NEW numbers, BadwordsDelNumbers(numbers) PROVE BxWordsInv'
  <2>1. bxWords' \in Seq(words) /\ DOMAIN bxWords' = DOMAIN bxWords
    BY <1>2 DEF BadwordsDelNumbers
  <2>2. \A i \in DOMAIN bxWords : bxWords'[i] = IF i \in numbers THEN BxNone ELSE bxWords[i]
    BY <1>2 DEF BadwordsDelNumbers
  <2>. QED
    BY <2>1, <2>2
<1>3. ASSUME NEW word \in BxWords, BadwordsDel(word) PROVE BxWordsInv'
  <2> DEFINE k == CHOOSE i \in SlotsOf(word) : \A j \in SlotsOf(word) : i <= j
  <2>1. bxWords' = [bxWords EXCEPT ![k] = BxNone]
    BY <1>3 DEF BadwordsDel
  <2>2. SlotsOf(word) \subseteq DOMAIN bxWords /\ DOMAIN bxWords \subseteq Nat /\ SlotsOf(word) # {}
    BY <1>3 DEF SlotsOf, BadwordsDel
  <2>3. k \in DOMAIN bxWords
    BY <2>2, LeastPlace
  <2> HIDE DEF k
  <2>4. /\ bxWords' \in Seq(words) /\ DOMAIN bxWords' = DOMAIN bxWords
        /\ \A j \in DOMAIN bxWords : bxWords'[j] = IF j = k THEN BxNone ELSE bxWords[j]
    BY <2>1, <2>3, EntrySet
  <2>. QED
    BY <2>4
<1>4. CASE BadwordsClear
  BY <1>4 DEF BadwordsClear
<1>5. ASSUME UNCHANGED bxWords PROVE BxWordsInv'
  BY <1>5
<1>6. ASSUME NEW t, NEW x, NEW y, KickOn(t, x, y) PROVE BxWordsInv'
  BY <1>5, <1>6 DEF KickOn
<1>7. CASE KickOff
  BY <1>5, <1>7 DEF KickOff
<1>8. ASSUME NEW option, NEW on, SetOption(option, on) PROVE BxWordsInv'
  BY <1>5, <1>8 DEF SetOption
<1>9. CASE UNCHANGED bxVars
  BY <1>5, <1>9 DEF bxVars
<1>. QED
  BY <1>1, <1>2, <1>3, <1>4, <1>6, <1>7, <1>8, <1>9 DEF BotSettingsNext

LEMMA BxWordsStarts == BotSettingsInit => BxWordsInv
BY DEF BotSettingsInit, BxWordsInv

LEMMA BxWordsOnce == BxWordsInv => BadwordsUnique
<1> SUFFICES ASSUME BxWordsInv, NEW word \in BxWords PROVE Cardinality(SlotsOf(word)) <= 1
  BY DEF BadwordsUnique
<1>1. \A i, j \in SlotsOf(word) : i = j
  BY DEF BxWordsInv, SlotsOf
<1>. QED
  BY <1>1, AtMostOne

-----------------------------------------------------------------------------
(* The ring of a socket (Buffers).                                         *)

\* What a % m is as long as a is less than twice m.
BfWrap(a, m) == IF a < m THEN a ELSE a - m

LEMMA ModWraps ==
  ASSUME NEW m \in Nat, m > 0, NEW a \in Nat, a < 2 * m
  PROVE  a % m = BfWrap(a, m) /\ BfWrap(a, m) \in 0..(m - 1)
<1>1. BfWrap(a, m) \in 0..(m - 1)
  BY DEF BfWrap
<1>2. CASE a < m
  BY <1>1, <1>2 DEF BfWrap
<1>3. CASE a >= m
  <2>1. a % m = a - m
    BY <1>3
  <2> QED BY <1>1, <1>3, <2>1 DEF BfWrap
<1> QED BY <1>2, <1>3

\* How far a position is behind the first byte, and how many bytes there are.
BfBehind(cur, i) == IF i >= cur THEN i - cur ELSE i + BfSize - cur
BfLen(S) == BfBehind(S.cur, S.end)

BfRecs == [buf : [Positions -> ByteNumbers], cur : Positions, end : Positions,
           left : 0..BfLine, put : ByteNumbers, got : ByteNumbers,
           wrong : BOOLEAN, filled : BOOLEAN]

\* The bytes of a ring are those between the next out and the next in, in
\* their order.
BfRing(S) ==
    /\ ~S.wrong
    /\ S.put = BfWrap(S.got + BfLen(S), BfBytes)
    /\ \A i \in Positions : BfBehind(S.cur, i) < BfLen(S) =>
          S.buf[i] = BfWrap(S.got + BfBehind(S.cur, i), BfBytes)

BfGood(S) == S \in BfRecs /\ (S.filled \/ BfRing(S))

BfInv == bfKind \in {"read", "write"} /\ BfGood(B0)

LEMMA BfFields ==
  ASSUME NEW S \in BfRecs
  PROVE  /\ S.buf \in [Positions -> ByteNumbers]
         /\ S.cur \in Nat /\ S.cur < BfSize /\ S.end \in Nat /\ S.end < BfSize
         /\ S.left \in Nat /\ S.left <= BfLine
         /\ S.put \in Nat /\ S.put < BfBytes /\ S.got \in Nat /\ S.got < BfBytes
         /\ S.wrong \in BOOLEAN /\ S.filled \in BOOLEAN
         /\ BfSize \in Nat /\ BfSize > 0 /\ BfBytes \in Nat /\ BfBytes > BfSize
         /\ BfLine \in Nat /\ BfLine < BfSize
BY BfAssumption DEF BfRecs, Positions, ByteNumbers

\* Positions as bytes are put in, and as they are taken out.
LEMMA BehindPut ==
  ASSUME BfSize \in Nat, NEW cur \in Nat, NEW end \in Nat, cur < BfSize, end < BfSize,
         NEW n \in Nat, end + n <= BfSize, BfBehind(cur, end) + n < BfSize
  PROVE  /\ BfBehind(cur, BfWrap(end + n, BfSize)) = BfBehind(cur, end) + n
         /\ \A i \in 0..(BfSize - 1) :
              IF end <= i /\ i < end + n THEN BfBehind(cur, i) = BfBehind(cur, end) + i - end
              ELSE BfBehind(cur, i) < BfBehind(cur, end) + n => BfBehind(cur, i) < BfBehind(cur, end)
<1>1. CASE end >= cur
  BY <1>1 DEF BfBehind, BfWrap
<1>2. CASE end < cur
  BY <1>2 DEF BfBehind, BfWrap
<1> QED BY <1>1, <1>2

LEMMA BehindTake ==
  ASSUME BfSize \in Nat, NEW cur \in Nat, NEW end \in Nat, cur < BfSize, end < BfSize,
         NEW n \in Nat, cur + n <= BfSize, n <= BfBehind(cur, end)
  PROVE  /\ BfBehind(BfWrap(cur + n, BfSize), end) = BfBehind(cur, end) - n
         /\ \A i \in 0..(BfSize - 1) :
              (BfBehind(BfWrap(cur + n, BfSize), i) < BfBehind(cur, end) - n) =>
                /\ BfBehind(cur, i) = BfBehind(BfWrap(cur + n, BfSize), i) + n
                /\ BfBehind(cur, i) < BfBehind(cur, end)
<1>1. CASE cur + n < BfSize
  <2>1. BfWrap(cur + n, BfSize) = cur + n
    BY <1>1 DEF BfWrap
  <2> QED BY <1>1, <2>1 DEF BfBehind
<1>2. CASE cur + n = BfSize
  <2>1. BfWrap(cur + n, BfSize) = 0
    BY <1>2 DEF BfWrap
  <2> QED BY <1>2, <2>1 DEF BfBehind
<1> QED BY <1>1, <1>2

LEMMA PutInFields ==
  ASSUME NEW S \in BfRecs, NEW n \in Nat, S.end + n <= BfSize
  PROVE  /\ PutIn(S, n) \in BfRecs
         /\ PutIn(S, n).put = BfWrap(S.put + n, BfBytes)
         /\ PutIn(S, n).end = BfWrap(S.end + n, BfSize)
         /\ PutIn(S, n).cur = S.cur /\ PutIn(S, n).left = S.left /\ PutIn(S, n).got = S.got
         /\ PutIn(S, n).wrong = S.wrong /\ PutIn(S, n).filled = S.filled
         /\ \A i \in Positions : PutIn(S, n).buf[i] =
               IF S.end <= i /\ i < S.end + n THEN BfWrap(S.put + i - S.end, BfBytes) ELSE S.buf[i]
<1> DEFINE T == PutIn(S, n)
           wr == [i \in Positions |-> IF S.end <= i /\ i < S.end + n
                                      THEN (S.put + i - S.end) % BfBytes ELSE S.buf[i]]
<1> USE BfFields
<1>1. /\ S.put + n \in Nat /\ S.put + n < 2 * BfBytes
      /\ S.end + n < 2 * BfSize /\ S.end + n \in Nat
  OBVIOUS
<1>b. /\ BfBytes \in Nat /\ BfBytes > 0 /\ BfSize \in Nat /\ BfSize > 0 /\ BfSize < BfBytes
      /\ S.put \in Nat /\ S.put < BfBytes /\ S.end \in Nat
  OBVIOUS
<1> HIDE BfFields
<1>2. (S.put + n) % BfBytes = BfWrap(S.put + n, BfBytes) /\ (S.put + n) % BfBytes \in ByteNumbers
  BY <1>1, <1>b, ModWraps DEF ByteNumbers
<1>3. (S.end + n) % BfSize = BfWrap(S.end + n, BfSize) /\ (S.end + n) % BfSize \in Positions
  BY <1>1, <1>b, ModWraps DEF Positions
<1>4. ASSUME NEW i \in Positions, S.end <= i, i < S.end + n
      PROVE  /\ (S.put + i - S.end) % BfBytes = BfWrap(S.put + i - S.end, BfBytes)
             /\ (S.put + i - S.end) % BfBytes \in ByteNumbers
  <2>1. S.put + i - S.end \in Nat /\ S.put + i - S.end < 2 * BfBytes
    BY <1>4, <1>b DEF Positions
  <2> QED BY <1>b, <2>1, ModWraps DEF ByteNumbers
<1>5. T = [S EXCEPT !.buf = wr, !.put = (@ + n) % BfBytes, !.end = (@ + n) % BfSize]
  BY DEF PutIn
<1>6. wr \in [Positions -> ByteNumbers]
  BY <1>4, BfFields
<1> HIDE DEF wr
<1>7. /\ T.put = (S.put + n) % BfBytes /\ T.end = (S.end + n) % BfSize /\ T.buf = wr
      /\ T.cur = S.cur /\ T.left = S.left /\ T.got = S.got
      /\ T.wrong = S.wrong /\ T.filled = S.filled
  BY <1>5 DEF BfRecs
<1>8. T \in BfRecs
  BY <1>2, <1>3, <1>5, <1>6 DEF BfRecs
<1>9. \A i \in Positions : T.buf[i] =
               IF S.end <= i /\ i < S.end + n THEN BfWrap(S.put + i - S.end, BfBytes) ELSE S.buf[i]
  BY <1>4, <1>7 DEF wr
<1> HIDE DEF T
<1> QED BY <1>2, <1>3, <1>7, <1>8, <1>9 DEF T

\* What fits behind the bytes that are there keeps them in order.
LEMMA PutInRing ==
  ASSUME NEW S \in BfRecs, NEW n \in Nat, S.end + n <= BfSize, BfRing(S), BfLen(S) + n < BfSize
  PROVE  BfRing(PutIn(S, n)) /\ BfLen(PutIn(S, n)) = BfLen(S) + n
<1> DEFINE T == PutIn(S, n)
<1>1. /\ T \in BfRecs /\ T.put = BfWrap(S.put + n, BfBytes) /\ T.end = BfWrap(S.end + n, BfSize)
      /\ T.cur = S.cur /\ T.left = S.left /\ T.got = S.got /\ T.wrong = S.wrong
  BY PutInFields
<1>2. \A i \in Positions : T.buf[i] =
         IF S.end <= i /\ i < S.end + n THEN BfWrap(S.put + i - S.end, BfBytes) ELSE S.buf[i]
  BY PutInFields
<1> HIDE DEF T
<1> DEFINE len == BfLen(S)
<1>b. /\ BfSize \in Nat /\ BfBytes \in Nat /\ BfSize < BfBytes
      /\ S.cur \in Nat /\ S.end \in Nat /\ S.cur < BfSize /\ S.end < BfSize
      /\ S.got \in Nat /\ S.got < BfBytes
  BY BfFields
<1>l. len = BfBehind(S.cur, S.end) /\ len \in Nat
  BY <1>b DEF BfLen, BfBehind
<1> HIDE DEF len
<1>3. BfLen(T) = len + n
  BY <1>1, <1>b, <1>l, BehindPut DEF BfLen, len
<1>p. S.put = BfWrap(S.got + len, BfBytes)
  BY DEF BfRing, len
<1>4. T.put = BfWrap(T.got + BfLen(T), BfBytes)
  <2>1. len + n < BfBytes
    BY <1>b, <1>l DEF len
  <2> QED BY <1>1, <1>3, <1>b, <1>l, <1>p, <2>1 DEF BfWrap
<1>5. ASSUME NEW i \in Positions, BfBehind(T.cur, i) < BfLen(T)
      PROVE  T.buf[i] = BfWrap(T.got + BfBehind(T.cur, i), BfBytes)
  <2>0. i \in Nat /\ i < BfSize
    BY <1>b DEF Positions
  <2>b. IF S.end <= i /\ i < S.end + n THEN BfBehind(S.cur, i) = len + i - S.end
        ELSE BfBehind(S.cur, i) < len + n => BfBehind(S.cur, i) < len
    BY <1>b, <1>l, <2>0, BehindPut DEF len
  <2>1. CASE S.end <= i /\ i < S.end + n
    <3>1. BfBehind(S.cur, i) = len + (i - S.end) /\ i - S.end \in Nat /\ len + (i - S.end) < BfBytes
      BY <1>b, <1>l, <2>0, <2>1, <2>b DEF len
    <3>2. BfWrap(S.put + (i - S.end), BfBytes) = BfWrap(S.got + BfBehind(S.cur, i), BfBytes)
      BY <1>b, <1>l, <1>p, <3>1 DEF BfWrap
    <3>3. S.put + (i - S.end) = S.put + i - S.end
      BY <2>0, <1>b, BfFields
    <3> QED BY <1>1, <1>2, <2>1, <3>2, <3>3
  <2>2. CASE ~(S.end <= i /\ i < S.end + n)
    <3>1. BfBehind(S.cur, i) < len
      BY <1>1, <1>3, <1>5, <2>2, <2>b
    <3> QED BY <1>1, <1>2, <2>2, <3>1 DEF BfRing, len
  <2> QED BY <2>1, <2>2
<1> QED BY <1>1, <1>3, <1>4, <1>5 DEF BfRing, T, len

LEMMA TakeOutFields ==
  ASSUME NEW S \in BfRecs, NEW n \in Nat, S.cur + n <= BfSize
  PROVE  /\ TakeOut(S, n) \in BfRecs
         /\ TakeOut(S, n).got = BfWrap(S.got + n, BfBytes)
         /\ TakeOut(S, n).cur = BfWrap(S.cur + n, BfSize)
         /\ TakeOut(S, n).end = S.end /\ TakeOut(S, n).left = S.left /\ TakeOut(S, n).put = S.put
         /\ TakeOut(S, n).buf = S.buf /\ TakeOut(S, n).filled = S.filled
         /\ TakeOut(S, n).wrong = (S.wrong \/ \E i \in 1..n :
               S.buf[S.cur + i - 1] # (S.got + i - 1) % BfBytes)
<1> USE BfFields
<1>1. /\ S.got + n \in Nat /\ S.got + n < 2 * BfBytes
      /\ S.cur + n < 2 * BfSize /\ S.cur + n \in Nat
  OBVIOUS
<1>b. BfBytes \in Nat /\ BfBytes > 0 /\ BfSize \in Nat /\ BfSize > 0
  OBVIOUS
<1> HIDE BfFields
<1>2. (S.got + n) % BfBytes = BfWrap(S.got + n, BfBytes) /\ (S.got + n) % BfBytes \in ByteNumbers
  BY <1>1, <1>b, ModWraps DEF ByteNumbers
<1>3. (S.cur + n) % BfSize = BfWrap(S.cur + n, BfSize) /\ (S.cur + n) % BfSize \in Positions
  BY <1>1, <1>b, ModWraps DEF Positions
<1> QED BY <1>2, <1>3 DEF TakeOut, BfRecs

\* What is taken out, up to the top of the buffer, is next.
LEMMA TakeOutRing ==
  ASSUME NEW S \in BfRecs, NEW n \in Nat, S.cur + n <= BfSize, BfRing(S), n <= BfLen(S)
  PROVE  BfRing(TakeOut(S, n))
<1> DEFINE T == TakeOut(S, n)
<1>1. /\ T \in BfRecs /\ T.got = BfWrap(S.got + n, BfBytes) /\ T.cur = BfWrap(S.cur + n, BfSize)
      /\ T.end = S.end /\ T.put = S.put /\ T.buf = S.buf
      /\ T.wrong = (S.wrong \/ \E i \in 1..n : S.buf[S.cur + i - 1] # (S.got + i - 1) % BfBytes)
  BY TakeOutFields
<1> HIDE DEF T
<1>2. ASSUME NEW i \in 1..n PROVE S.buf[S.cur + i - 1] = (S.got + i - 1) % BfBytes
  <2>1. S.cur + i - 1 \in Positions /\ BfBehind(S.cur, S.cur + i - 1) = i - 1
    BY BfFields DEF BfBehind, Positions
  <2>2. S.buf[S.cur + i - 1] = BfWrap(S.got + i - 1, BfBytes)
    <3>1. i - 1 < BfLen(S)
      BY BfFields DEF BfLen, BfBehind
    <3>2. S.buf[S.cur + i - 1] = BfWrap(S.got + (i - 1), BfBytes)
      BY <2>1, <3>1 DEF BfRing
    <3> QED BY <3>2, BfFields DEF BfWrap
  <2>3. S.got + i - 1 \in Nat /\ S.got + i - 1 < 2 * BfBytes /\ BfBytes \in Nat /\ BfBytes > 0
    BY BfFields
  <2>4. (S.got + i - 1) % BfBytes = BfWrap(S.got + i - 1, BfBytes)
    BY <2>3, ModWraps
  <2> QED BY <2>2, <2>4
<1>3. ~T.wrong
  BY <1>1, <1>2 DEF BfRing
<1> DEFINE len == BfLen(S)
<1>b. /\ BfSize \in Nat /\ BfBytes \in Nat /\ BfSize < BfBytes
      /\ S.cur \in Nat /\ S.end \in Nat /\ S.cur < BfSize /\ S.end < BfSize
      /\ S.got \in Nat /\ S.got < BfBytes
  BY BfFields
<1>l. len = BfBehind(S.cur, S.end) /\ len \in Nat /\ n <= len /\ len < BfSize
  BY <1>b DEF BfLen, BfBehind
<1> HIDE DEF len
<1>4. BfLen(T) = len - n
  BY <1>1, <1>b, <1>l, BehindTake DEF BfLen
<1>5. T.put = BfWrap(T.got + BfLen(T), BfBytes)
  <2>1. S.put = BfWrap(S.got + len, BfBytes)
    BY DEF BfRing, len
  <2>2. len - n \in Nat /\ n + (len - n) = len /\ len < BfBytes
    BY <1>b, <1>l
  <2>3. BfWrap(BfWrap(S.got + n, BfBytes) + (len - n), BfBytes) = BfWrap(S.got + (n + (len - n)), BfBytes)
    BY <1>b, <1>l, <2>2 DEF BfWrap
  <2> QED BY <1>1, <1>4, <2>1, <2>2, <2>3
<1>6. ASSUME NEW i \in Positions, BfBehind(T.cur, i) < BfLen(T)
      PROVE  T.buf[i] = BfWrap(T.got + BfBehind(T.cur, i), BfBytes)
  <2>0. i \in Nat /\ i < BfSize
    BY <1>b DEF Positions
  <2> DEFINE was == BfBehind(S.cur, i)
             is == BfBehind(T.cur, i)
  <2>1. was = is + n /\ was < len
    BY <1>1, <1>4, <1>6, <1>b, <1>l, <2>0, BehindTake
  <2>2. is \in Nat
    BY <1>1, <1>b, <2>0, BfFields DEF BfBehind
  <2> HIDE DEF was, is
  <2>3. BfWrap(BfWrap(S.got + n, BfBytes) + is, BfBytes) = BfWrap(S.got + (n + is), BfBytes)
    <3>1. n + is < BfBytes
      BY <1>b, <1>l, <2>1, <2>2
    <3> QED BY <1>b, <2>2, <3>1 DEF BfWrap
  <2>4. n + is = was
    BY <2>1, <2>2
  <2>5. S.buf[i] = BfWrap(S.got + was, BfBytes)
    BY <2>1 DEF BfRing, was, len
  <2> QED BY <1>1, <2>3, <2>4, <2>5 DEF is
<1> QED BY <1>1, <1>3, <1>5, <1>6 DEF BfRing, T

\* What a line has still to put in is no part of the ring.
LEMMA RingSame ==
  ASSUME NEW S \in BfRecs, NEW T \in BfRecs, BfRing(S),
         T.cur = S.cur, T.end = S.end, T.buf = S.buf, T.put = S.put, T.got = S.got,
         T.wrong = S.wrong
  PROVE  BfRing(T)
<1>1. BfLen(T) = BfLen(S)
  BY DEF BfLen
<1>2. ~T.wrong
  BY DEF BfRing
<1> QED BY <1>1, <1>2 DEF BfRing

\* A round of buffered_write() puts in what fits.
LEMMA CopyInGood ==
  ASSUME NEW S \in BfRecs, S.filled \/ BfRing(S)
  PROVE  CopyIn(S) \in BfRecs /\ (CopyIn(S).filled \/ BfRing(CopyIn(S)))
<1> DEFINE top == S.end + S.left >= BfSize /\ S.cur <= S.end
           n1 == IF top THEN BfSize - S.end ELSE 0
           P == PutIn(S, n1)
           T == [P EXCEPT !.left = @ - n1, !.filled = @ \/ (top /\ S.cur = 0)]
           n2 == IF T.cur > T.end /\ T.cur - T.end - 1 < T.left THEN T.cur - T.end - 1 ELSE T.left
           Q == PutIn(T, n2)
<1>1. CASE BfFull(S.cur, S.end)
  BY <1>1 DEF CopyIn
<1>2. CASE ~BfFull(S.cur, S.end)
  <2>1. CopyIn(S) = [Q EXCEPT !.left = @ - n2]
    BY <1>2 DEF CopyIn
  <2>b. /\ BfSize \in Nat /\ S.cur \in Nat /\ S.end \in Nat /\ S.cur < BfSize /\ S.end < BfSize
        /\ S.left \in Nat /\ S.left < BfSize /\ S.left <= BfLine /\ BfLine \in Nat
    BY BfFields
  <2>2. n1 \in Nat /\ S.end + n1 <= BfSize /\ n1 <= S.left
    BY <2>b
  <2>3. /\ P \in BfRecs /\ P.cur = S.cur /\ P.left = S.left /\ P.filled = S.filled
        /\ P.end = BfWrap(S.end + n1, BfSize)
    BY <2>2, PutInFields
  <2>4. ~(top /\ S.cur = 0) /\ BfRing(S) => BfRing(P)
    <3>1. SUFFICES ASSUME ~(top /\ S.cur = 0), BfRing(S) PROVE BfRing(P)
      OBVIOUS
    <3>2. BfLen(S) + n1 < BfSize
      BY <2>b, <3>1 DEF BfLen, BfBehind
    <3> HIDE DEF n1
    <3> QED BY <2>2, <3>1, <3>2, PutInRing
  <2>5. top \in BOOLEAN
    OBVIOUS
  <2>6. /\ P.end \in Nat /\ P.end < BfSize
        /\ top => P.end = 0 /\ n1 = BfSize - S.end
        /\ ~top => P.end = S.end /\ n1 = 0
    BY <2>b, <2>3 DEF BfWrap
  <2> HIDE DEF P
  <2>7. /\ T.cur = S.cur /\ T.end = P.end /\ T.left = S.left - n1
        /\ T.filled = (S.filled \/ (top /\ S.cur = 0))
        /\ T.buf = P.buf /\ T.put = P.put /\ T.got = P.got /\ T.wrong = P.wrong
    BY <2>3 DEF BfRecs
  <2>8. T \in BfRecs
    <3>1. S.left - n1 \in 0..BfLine
      BY <2>b, <2>2
    <3>2. P.filled \/ (top /\ S.cur = 0) \in BOOLEAN
      OBVIOUS
    <3> HIDE DEF n1, top
    <3> QED BY <2>3, <3>1, <3>2 DEF BfRecs
  <2> HIDE DEF T
  <2>r. BfRing(P) => BfRing(T)
    BY <2>3, <2>7, <2>8, RingSame
  <2>9. T.filled \/ BfRing(T)
    <3>1. CASE S.filled \/ (top /\ S.cur = 0)
      BY <2>7, <3>1
    <3>2. CASE ~S.filled /\ ~(top /\ S.cur = 0)
      <4>1. BfRing(S)
        BY <3>2
      <4> HIDE DEF top
      <4> QED BY <2>r, <2>4, <3>2, <4>1
    <3> QED BY <3>1, <3>2
  <2>10. n2 \in Nat /\ T.end + n2 <= BfSize /\ n2 <= T.left
    BY <2>b, <2>2, <2>6, <2>7
  <2>11. ~T.filled => BfLen(T) + n2 < BfSize
    <3>1. SUFFICES ASSUME ~T.filled PROVE BfLen(T) + n2 < BfSize
      OBVIOUS
    <3>2. CASE top
      BY <2>b, <2>6, <2>7, <3>1, <3>2 DEF BfLen, BfBehind
    <3>3. CASE ~top
      BY <1>2, <2>b, <2>6, <2>7, <3>1, <3>3 DEF BfLen, BfBehind, BfFull
    <3> QED BY <3>2, <3>3
  <2> HIDE DEF n2
  <2>12. /\ Q \in BfRecs /\ Q.left = T.left /\ Q.filled = T.filled
    BY <2>8, <2>10, PutInFields
  <2>13. Q.filled \/ BfRing(Q)
    BY <2>8, <2>9, <2>10, <2>11, <2>12, PutInRing
  <2> HIDE DEF Q
  <2> DEFINE U == [Q EXCEPT !.left = @ - n2]
  <2>14. U \in BfRecs
    <3>1. Q.left - n2 \in 0..BfLine
      BY <2>8, <2>10, <2>12, BfFields
    <3> QED BY <2>12, <3>1 DEF BfRecs
  <2>15. /\ U.cur = Q.cur /\ U.end = Q.end /\ U.filled = Q.filled
         /\ U.buf = Q.buf /\ U.put = Q.put /\ U.got = Q.got /\ U.wrong = Q.wrong
    BY <2>12 DEF BfRecs
  <2>16. U.filled \/ BfRing(U)
    BY <2>12, <2>13, <2>14, <2>15, RingSame
  <2> QED BY <2>1, <2>14, <2>16
<1> QED BY <1>1, <1>2

LEMMA FlushGood ==
  ASSUME NEW S \in BfRecs, S.filled \/ BfRing(S), NEW n \in Nat
  PROVE  /\ FlushWriteBuffer(S, n) \in BfRecs
         /\ FlushWriteBuffer(S, n).filled \/ BfRing(FlushWriteBuffer(S, n))
<1> DEFINE k == IF n <= Chunk(S) THEN n ELSE Chunk(S)
<1>1. FlushWriteBuffer(S, n) = TakeOut(S, k)
  BY DEF FlushWriteBuffer
<1>2. k \in Nat /\ S.cur + k <= BfSize /\ k <= BfLen(S)
  BY BfFields DEF Chunk, BfLen, BfBehind
<1> HIDE DEF k
<1>3. TakeOut(S, k) \in BfRecs /\ TakeOut(S, k).filled = S.filled
  BY <1>2, TakeOutFields
<1>4. BfRing(S) => BfRing(TakeOut(S, k))
  BY <1>2, TakeOutRing
<1> QED BY <1>1, <1>3, <1>4

\* What the properties say of a ring that is the state of services.
LEMMA BfSteps == BfInv /\ [BuffersNext]_bfVars => BfInv'
<1> SUFFICES ASSUME BfInv, [BuffersNext]_bfVars PROVE BfInv'
  OBVIOUS
<1>a. B0 \in BfRecs /\ (B0.filled \/ BfRing(B0)) /\ bfKind \in {"read", "write"}
  BY DEF BfInv, BfGood
<1>b. /\ B0.cur = bfCurpos /\ B0.end = bfBufend /\ B0.left = bfLeft
  BY DEF B0
<1>0. ASSUME NEW S, BfBecomes(S), S \in BfRecs, S.filled \/ BfRing(S) PROVE BfInv'
  <2>1. S = [buf |-> S.buf, cur |-> S.cur, end |-> S.end, left |-> S.left, put |-> S.put,
             got |-> S.got, wrong |-> S.wrong, filled |-> S.filled]
    BY <1>0 DEF BfRecs
  <2>2. B0' = S
    BY <1>0, <2>1 DEF BfBecomes, B0
  <2> QED BY <1>0, <1>a, <2>2 DEF BfBecomes, BfInv, BfGood
<1>1. ASSUME NEW n \in 1..BfLine, Sputs(n) PROVE BfInv'
  <2> DEFINE S == [B0 EXCEPT !.left = n]
  <2>1. n \in 0..BfLine
    BY <1>a, BfFields
  <2>2. /\ S \in BfRecs /\ S.filled = B0.filled /\ S.cur = B0.cur /\ S.end = B0.end
        /\ S.buf = B0.buf /\ S.put = B0.put /\ S.got = B0.got /\ S.wrong = B0.wrong
    BY <1>a, <2>1 DEF BfRecs
  <2>3. S.filled \/ BfRing(S)
    BY <1>a, <2>2, RingSame
  <2> QED BY <1>0, <1>1, <2>2, <2>3 DEF Sputs
<1>2. ASSUME NEW n \in 1..BfLine, ReadSocket(n) PROVE BfInv'
  <2>1. n \in Nat /\ B0.end + n <= BfSize /\ BfLen(B0) + n < BfSize
    BY <1>2, <1>a, <1>b, BfFields DEF ReadSocket, BfFull, BfLen, BfBehind
  <2>2. PutIn(B0, n) \in BfRecs /\ PutIn(B0, n).filled = B0.filled
    BY <1>a, <2>1, PutInFields
  <2>3. PutIn(B0, n).filled \/ BfRing(PutIn(B0, n))
    BY <1>a, <2>1, <2>2, PutInRing
  <2> QED BY <1>0, <1>2, <2>2, <2>3 DEF ReadSocket
<1>3. ASSUME NEW n \in 0..BfSize, BufferedWrite(n) PROVE BfInv'
  <2> DEFINE S == FlushWriteBuffer(CopyIn(B0), n)
             T == IF BfFull(S.cur, S.end) THEN [S EXCEPT !.left = 0] ELSE S
  <2>1. CopyIn(B0) \in BfRecs /\ (CopyIn(B0).filled \/ BfRing(CopyIn(B0)))
    BY <1>a, CopyInGood
  <2>2. n \in Nat
    BY <1>a, BfFields
  <2>3. S \in BfRecs /\ (S.filled \/ BfRing(S))
    BY <2>1, <2>2, FlushGood
  <2>4. BfBecomes(T)
    BY <1>3 DEF BufferedWrite
  <2> HIDE DEF S
  <2>5. /\ T.filled = S.filled /\ T.cur = S.cur /\ T.end = S.end
        /\ T.buf = S.buf /\ T.put = S.put /\ T.got = S.got /\ T.wrong = S.wrong
    BY <2>3 DEF BfRecs
  <2>6. T \in BfRecs
    <3>1. 0 \in 0..BfLine
      BY <1>a, BfFields
    <3> QED BY <2>3, <3>1 DEF BfRecs
  <2>7. T.filled \/ BfRing(T)
    BY <2>3, <2>5, <2>6, RingSame
  <2> QED BY <1>0, <2>4, <2>6, <2>7
<1>4. ASSUME Sgets PROVE BfInv'
  <2>1. B0.cur + 1 <= BfSize /\ 1 <= BfLen(B0)
    BY <1>4, <1>a, <1>b, BfFields DEF Sgets, BufferedReadOne, BfLen, BfBehind
  <2>2. TakeOut(B0, 1) \in BfRecs /\ TakeOut(B0, 1).filled = B0.filled
    BY <1>a, <2>1, TakeOutFields
  <2>3. TakeOut(B0, 1).filled \/ BfRing(TakeOut(B0, 1))
    BY <1>a, <2>1, <2>2, TakeOutRing
  <2> QED BY <1>0, <1>4, <2>2, <2>3 DEF Sgets, BufferedReadOne
<1>5. CASE UNCHANGED bfVars
  <2>1. B0' = B0 /\ bfKind' = bfKind
    BY <1>5 DEF bfVars, B0
  <2> QED BY <2>1 DEF BfInv, BfGood
<1> QED BY <1>1, <1>2, <1>3, <1>4, <1>5 DEF BuffersNext

LEMMA BfInOrder == BfInv => InOrder
<1> SUFFICES ASSUME BfInv, ~bfFilled
             PROVE  ~bfWrong /\ BufferLen = (bfPut + BfBytes - bfGot) % BfBytes
  BY DEF InOrder
<1>1. B0 \in BfRecs /\ BfRing(B0)
  BY DEF BfInv, BfGood, B0
<1>2. /\ B0.cur = bfCurpos /\ B0.end = bfBufend /\ B0.put = bfPut /\ B0.got = bfGot
      /\ B0.wrong = bfWrong
  BY DEF B0
<1>3. BfLen(B0) = BufferLen
  BY <1>2 DEF BfLen, BfBehind, BufferLen
<1>4. bfPut = BfWrap(bfGot + BufferLen, BfBytes) /\ ~bfWrong
  BY <1>1, <1>2, <1>3 DEF BfRing
<1>5. /\ BufferLen \in Nat /\ BufferLen < BfBytes /\ bfGot \in Nat /\ bfGot < BfBytes
      /\ BfBytes \in Nat /\ BfBytes > 0
  BY <1>1, <1>2, BfFields DEF BufferLen
<1>6. /\ bfPut + BfBytes - bfGot \in Nat /\ bfPut + BfBytes - bfGot < 2 * BfBytes
      /\ BfWrap(bfPut + BfBytes - bfGot, BfBytes) = BufferLen
  BY <1>4, <1>5 DEF BfWrap
<1>7. (bfPut + BfBytes - bfGot) % BfBytes = BufferLen
  BY <1>5, <1>6, ModWraps
<1> QED BY <1>4, <1>7

LEMMA BfStarts == BuffersInit => BfInv
<1> SUFFICES ASSUME BuffersInit PROVE BfInv
  OBVIOUS
<1>1. 0 \in Positions /\ 0 \in ByteNumbers /\ 0 \in 0..BfLine
  BY BfAssumption DEF Positions, ByteNumbers
<1>2. [i \in Positions |-> 0] \in [Positions -> ByteNumbers]
  BY <1>1
<1>3. B0 = [buf |-> [i \in Positions |-> 0], cur |-> 0, end |-> 0, left |-> 0, put |-> 0,
            got |-> 0, wrong |-> FALSE, filled |-> FALSE]
  BY DEF BuffersInit, B0
<1>4. B0 \in BfRecs
  BY <1>1, <1>2, <1>3 DEF BfRecs
<1>5. B0.cur = 0 /\ B0.end = 0 /\ B0.put = 0 /\ B0.got = 0 /\ B0.wrong = FALSE
  BY <1>3
<1>6. BfRing(B0)
  BY <1>1, <1>5, BfAssumption DEF BfRing, BfLen, BfBehind, BfWrap, Positions, ByteNumbers
<1> QED BY <1>4, <1>6 DEF BfInv, BfGood, BuffersInit

-----------------------------------------------------------------------------
(* The files of the database (Databases).                                  *)

\* Where a save is says which of its files there are: the .save of the last
\* save has gone, then the file has its name, then a new one has been begun.
DbWhere ==
    /\ dbAt = "rename" => dbSave = DbAbsent
    /\ dbAt = "create" => dbFile = DbAbsent
    /\ dbAt \in {"write", "restore", "close", "flush"} => dbFile = DbTorn
    /\ dbAt = "flush" /\ ~DbUp => dbMishap

\* The backup of a day is made on that day, and once: a second one would be
\* written over the first.
DbOneBackup ==
    \A d \in DbDays : dbBackups[d] # DbAbsent =>
        d < dbDay \/ (d = dbDay /\ curday \in {0, dbDay})

\* Services that are to stop have a save before them.
DbQuitSaves ==
    /\ DbUp /\ delayed_quit => save_data
    /\ dbAfter \in {"up", "restart", "sigterm", "sighup"}

DbInv == DatabasesTypeOK /\ DbWhere /\ DbOneBackup /\ DbQuitSaves /\ OneGoodCopy /\ NothingUnsaved

LEMMA DbTypes == DatabasesTypeOK /\ [DatabasesNext]_dbVars => DatabasesTypeOK'
<1> SUFFICES ASSUME DatabasesTypeOK, [DatabasesNext]_dbVars PROVE DatabasesTypeOK'
  OBVIOUS
<1> USE DbDaysAssumption, DbContentsAssumption
    DEF DatabasesTypeOK, DbContents, DbSaving, DbStops
<1>1. CASE BackupDatabases
  BY <1>1 DEF BackupDatabases, DbStep, DbElse, DbUp, dbFlags
<1>2. CASE OpenUnlinks
  BY <1>2 DEF OpenUnlinks, DbStep, DbElse, dbFlags, dbWhen
<1>3. CASE OpenRenames
  BY <1>3 DEF OpenRenames, DbStep, DbElse, dbFlags, dbWhen
<1>4. CASE OpenCreates
  BY <1>4 DEF OpenCreates, DbStep, DbElse, dbFlags, dbWhen
<1>5. CASE OpenFails
  BY <1>5 DEF OpenFails, AfterSave, dbFiles, dbWhen
<1>6. CASE Writes
  BY <1>6 DEF Writes, DbStep, DbElse, dbFlags, dbFiles, dbWhen
<1>7. CASE WriteFails
  BY <1>7 DEF WriteFails, DbStep, DbElse, dbFlags, dbFiles, dbWhen
<1>8. CASE RestoreDb
  BY <1>8 DEF RestoreDb, AfterSave, dbFiles, dbWhen
<1>9. CASE CloseUnlinks
  BY <1>9 DEF CloseUnlinks, DbStep, DbElse, dbFlags, dbWhen
<1>10. CASE CloseFlushes
  BY <1>10 DEF CloseFlushes, AfterSave, dbWhen
<1>11. ASSUME NEW b \in BOOLEAN, LoopTop(b) PROVE DatabasesTypeOK'
  BY <1>11 DEF LoopTop, DbSame, dbFiles, dbFlags, dbWhen
<1>12. ASSUME NEW b \in BOOLEAN, DbProcess(b) PROVE DatabasesTypeOK'
  BY <1>12 DEF DbProcess, DbStep, DbSame, dbFiles, dbFlags, dbWhen
<1>13. CASE DoUpdate
  BY <1>13 DEF DoUpdate, DbStep, DbSame, dbFiles, dbWhen
<1>14. CASE DoShutdown
  BY <1>14 DEF DoShutdown, DbStep, DbSame, dbFiles, dbWhen
<1>15. CASE DoSetReadonly
  <2>1. dbReadonly' \in BOOLEAN
    BY <1>15 DEF DoSetReadonly
  <2>. QED
    BY <1>15, <2>1 DEF DoSetReadonly, DbStep, DbSame, dbFiles, dbWhen
<1>16. CASE DoRestart \/ DoOsQuit
  <2>1. CASE DoRestart
    BY <2>1 DEF DoRestart, DbStep, DbSame, dbFiles, dbFlags, dbWhen
  <2>2. CASE DoOsQuit
    BY <2>2 DEF DoOsQuit, DbStep, DbSame, dbFiles, dbFlags, dbWhen
  <2> QED BY <1>16, <2>1, <2>2
<1>17. ASSUME NEW signal \in dbSignals, Sighandler(signal) PROVE DatabasesTypeOK'
  BY <1>17 DEF Sighandler, dbFiles, dbWhen
<1>18. CASE DbMidnight
  BY <1>18 DEF DbMidnight, dbFiles, dbFlags
<1>19. CASE DbKilled
  BY <1>19 DEF DbKilled, dbFiles, dbFlags, dbWhen
<1>20. CASE DbStart
  <2>1. dbMem' \in 0..DbMax /\ dbStop' \in {"up", "unreadable"}
    BY <1>20 DEF DbStart
  <2>. QED
    BY <1>20, <2>1 DEF DbStart, dbFiles
<1>21. CASE UNCHANGED dbVars
  BY <1>21 DEF dbVars
<1> QED
  BY <1>1, <1>2, <1>3, <1>4, <1>5, <1>6, <1>7, <1>8, <1>9, <1>10, <1>11,
     <1>12, <1>13, <1>14, <1>15, <1>16, <1>17, <1>18, <1>19, <1>20, <1>21 DEF DatabasesNext

LEMMA DbSteps == DbInv /\ [DatabasesNext]_dbVars => DbInv'
<1> SUFFICES ASSUME DbInv, [DatabasesNext]_dbVars PROVE DbInv'
  OBVIOUS
<1> USE DbDaysAssumption, DbContentsAssumption DEF DbInv
<1>a. DatabasesTypeOK'
  BY DbTypes
<1> USE <1>a DEF DatabasesTypeOK, DbContents, DbWhere, DbOneBackup, DbQuitSaves, DbUp,
                 OneGoodCopy, DbCopies, NothingUnsaved
<1>1. CASE BackupDatabases
  <2>1. CASE curday \in {0, dbDay}
    BY <1>1, <2>1 DEF BackupDatabases, DbStep, DbElse, dbFlags
  <2>2. CASE curday \notin {0, dbDay}
    <3>1. DbWhere' /\ DbQuitSaves' /\ NothingUnsaved'
      BY <1>1 DEF BackupDatabases, DbStep, DbElse, dbFlags
    <3>2. dbBackups[dbDay] = DbAbsent
      BY <2>2
    <3>3. DbOneBackup'
      BY <1>1, <2>2 DEF BackupDatabases
    <3>4. ASSUME ~dbMishap', dbSaved = dbFile PROVE dbSaved \in DbCopies'
      BY <1>1, <2>2, <3>4 DEF BackupDatabases
    <3>5. ASSUME ~dbMishap', dbSaved # dbFile, NEW d \in DbDays, dbSaved = dbBackups[d]
          PROVE  dbBackups'[d] = dbSaved
      <4>1. d # dbDay
        BY <3>2, <3>5
      <4>2. d + KeepBackups # dbDay
        <5>1. SUFFICES ASSUME d + KeepBackups = dbDay PROVE FALSE
          OBVIOUS
        <5>2. dbDay - KeepBackups = d /\ dbDay >= KeepBackups
          BY <5>1
        <5>. QED
          BY <1>1, <2>2, <3>5, <5>2 DEF BackupDatabases
      <4>. QED
        BY <1>1, <2>2, <3>5, <4>1, <4>2 DEF BackupDatabases
    <3>6. OneGoodCopy'
      BY <1>1, <3>4, <3>5 DEF BackupDatabases, DbStep
    <3>. QED
      BY <3>1, <3>3, <3>6
  <2>. QED
    BY <2>1, <2>2
<1>2. CASE OpenUnlinks
  BY <1>2 DEF OpenUnlinks, DbStep, DbElse, dbFlags, dbWhen
<1>3. CASE OpenRenames
  BY <1>3 DEF OpenRenames, DbStep, DbElse, dbFlags, dbWhen
<1>4. CASE OpenCreates
  BY <1>4 DEF OpenCreates, DbStep, DbElse, dbFlags, dbWhen
<1>5. CASE OpenFails
  BY <1>5 DEF OpenFails, AfterSave, dbFiles, dbWhen
<1>6. CASE Writes
  BY <1>6 DEF Writes, DbStep, DbElse, dbFlags, dbFiles, dbWhen
<1>7. CASE WriteFails
  BY <1>7 DEF WriteFails, DbStep, DbElse, dbFlags, dbFiles, dbWhen
<1>8. CASE RestoreDb
  BY <1>8 DEF RestoreDb, AfterSave, dbFiles, dbWhen
<1>9. CASE CloseUnlinks
  BY <1>9 DEF CloseUnlinks, DbStep, DbElse, dbFlags, dbWhen
<1>10. CASE CloseFlushes
  BY <1>10 DEF CloseFlushes, AfterSave, dbWhen
<1>11. ASSUME NEW b \in BOOLEAN, LoopTop(b) PROVE DbInv'
  BY <1>11 DEF LoopTop, DbSame, dbFiles, dbFlags, dbWhen
<1>12. ASSUME NEW b \in BOOLEAN, DbProcess(b) PROVE DbInv'
  BY <1>12 DEF DbProcess, DbStep, DbSame, dbFiles, dbFlags, dbWhen
<1>13. CASE DoUpdate
  BY <1>13 DEF DoUpdate, DbStep, DbSame, dbFiles, dbWhen
<1>14. CASE DoShutdown
  BY <1>14 DEF DoShutdown, DbStep, DbSame, dbFiles, dbWhen
<1>15. CASE DoRestart
  BY <1>15 DEF DoRestart, DbStep, DbSame, dbFiles, dbFlags, dbWhen
<1>16. CASE DoSetReadonly
  BY <1>16 DEF DoSetReadonly, DbStep, DbSame, dbFiles, dbWhen
<1>17. CASE DoOsQuit
  BY <1>17 DEF DoOsQuit, DbStep, DbSame, dbFiles, dbFlags, dbWhen
<1>18. ASSUME NEW signal \in dbSignals, Sighandler(signal) PROVE DbInv'
  BY <1>18 DEF Sighandler, dbFiles, dbWhen
<1>19. CASE DbMidnight
  BY <1>19 DEF DbMidnight, dbFiles, dbFlags
<1>20. CASE DbKilled
  BY <1>20 DEF DbKilled, dbFiles, dbFlags, dbWhen
<1>21. CASE DbStart
  <2>1. dbStop' \in {"up", "unreadable"} /\ dbAt' = "top" /\ dbAfter' = "up" /\ curday' = 0
        /\ delayed_quit' = FALSE
    BY <1>21 DEF DbStart
  <2>2. OneGoodCopy'
    BY <1>21, <2>1 DEF DbStart, dbFiles
  <2>3. DbOneBackup'
    BY <1>21, <2>1 DEF DbStart, dbFiles
  <2>. QED
    BY <2>1, <2>2, <2>3
<1>22. CASE UNCHANGED dbVars
  BY <1>22 DEF dbVars
<1> QED
  BY <1>1, <1>2, <1>3, <1>4, <1>5, <1>6, <1>7, <1>8, <1>9, <1>10, <1>11,
     <1>12, <1>13, <1>14, <1>15, <1>16, <1>17, <1>18, <1>19, <1>20, <1>21, <1>22 DEF DatabasesNext

-----------------------------------------------------------------------------
(* Theorems.                                                               *)

LEMMA DbStarts == DatabasesInit => DbInv
<1> SUFFICES ASSUME DatabasesInit PROVE DbInv
  OBVIOUS
<1>1. DatabasesTypeOK
  <2>1. 0 \in 0..DbMax /\ dbBackups \in [DbDays -> DbContents]
    BY DbContentsAssumption DEF DatabasesInit, DbContents
  <2>2. {save_data, delayed_quit, dbReadonly} \subseteq BOOLEAN
    BY DEF DatabasesInit
  <2>. QED
    BY <2>1, <2>2 DEF DatabasesInit, DatabasesTypeOK, DbContents, DbSaving, DbStops
<1>2. DbWhere /\ DbOneBackup /\ DbQuitSaves
  BY DEF DatabasesInit, DbWhere, DbOneBackup, DbQuitSaves, DbUp
<1>3. OneGoodCopy /\ NothingUnsaved
  BY DEF DatabasesInit, OneGoodCopy, DbCopies, NothingUnsaved
<1>. QED
  BY <1>1, <1>2, <1>3 DEF DbInv

LEMMA DbAlways == DatabasesSpec => []DbInv
BY DbStarts, DbSteps, PTL DEF DatabasesSpec

\* Whatever services are doing when they are killed, when a write fails or a
\* signal arrives, what was last saved (close_db) is in the file, its .save or a
\* backup, except after one of the mishaps that OneGoodCopy names.
THEOREM GoodCopyRemains == DatabasesSpec => []OneGoodCopy
BY DbAlways, PTL DEF DbInv

\* SHUTDOWN, RESTART, SIGTERM and SIGHUP leave on the disk what services know
\* (main.c), unless the save failed or SHUTDOWN was given while readonly.
THEOREM StopsAreSaved == DatabasesSpec => []NothingUnsaved
BY DbAlways, PTL DEF DbInv

-----------------------------------------------------------------------------
(* The settings of a nick group (NickOptions).                             *)

\* The variables these promises are about; access lists are not.
NkTyped ==
    /\ nkFlags \in [NkCore -> SUBSET (NkKill \cup NkFlags)]
    /\ nkPass \in [NkCore -> NkCore]
    /\ nkIdentified \subseteq NkCore

NkInv == NkTyped /\ KillSettingSound /\ HiddenFromOthers /\ AdminPasswordsOwn

\* The flags of SECURE, PRIVATE, MSG and HIDE are none of the three flags of the
\* protection: setting them leaves it alone.
LEMMA NkOtherFlags ==
    ASSUME NEW F, NEW f \in NkFlags
    PROVE  (F \cup {f}) \cap NkKill = F \cap NkKill /\ (F \ {f}) \cap NkKill = F \cap NkKill
BY NkFlagsAreOthers DEF NkKill

LEMMA NkSteps == NkInv /\ [NickOptionsNext]_nkVars => NkInv'
<1> SUFFICES ASSUME NkInv, [NickOptionsNext]_nkVars PROVE NkInv'
  OBVIOUS
<1> USE NkRanks DEF NkInv, NkTyped, HiddenFromOthers, AdminPasswordsOwn, NkForgets
<1>1. ASSUME NEW u \in NkCore, NEW c \in NkCore, DoSetKill(u, c) PROVE NkInv'
  <2>1. PICK param \in {"ON", "QUICK", "IMMED", "OFF"} :
          nkFlags' = [nkFlags EXCEPT ![c] = SetKill(c, param)]
    BY <1>1 DEF DoSetKill
  <2>2. SetKill(c, param) \in SUBSET (NkKill \cup NkFlags)
    BY DEF SetKill, NkKill
  <2>3. SetKill(c, param) \cap NkKill \in
          {{}, {"KILLPROTECT"}, {"KILLPROTECT", "KILL_QUICK"}, {"KILLPROTECT", "KILL_IMMED"}}
    <3>1. CASE param = "IMMED" /\ ~nkAllowImmed
      BY <3>1 DEF SetKill, KillSettingSound
    <3>2. CASE param # "IMMED" \/ nkAllowImmed
      BY <3>2 DEF SetKill, NkKill
    <3>. QED
      BY <3>1, <3>2
  <2>4. KillSettingSound'
    BY <2>1, <2>3 DEF KillSettingSound
  <2>. QED
    BY <1>1, <2>1, <2>2, <2>4 DEF DoSetKill
<1>2. ASSUME NEW u \in NkCore, NEW c \in NkCore, DoSetPassword(u, c) PROVE NkInv'
  BY <1>2 DEF DoSetPassword, KillSettingSound
<1>3. ASSUME NEW u \in NkCore, NEW c \in NkCore, NEW f \in NkFlags, DoSetFlag(u, c, f)
      PROVE  NkInv'
  <2>1. PICK on \in BOOLEAN :
          nkFlags' = [nkFlags EXCEPT ![c] = IF on THEN @ \cup {f} ELSE @ \ {f}]
    BY <1>3 DEF DoSetFlag
  <2>2. \A d \in NkCore : nkFlags'[d] \cap NkKill = nkFlags[d] \cap NkKill
    BY <2>1, NkOtherFlags
  <2>3. KillSettingSound'
    BY <2>2 DEF KillSettingSound
  <2>4. nkFlags' \in [NkCore -> SUBSET (NkKill \cup NkFlags)]
    BY <2>1
  <2>. QED
    BY <1>3, <2>3, <2>4 DEF DoSetFlag
<1>4. ASSUME NEW u \in NkCore, NEW c \in NkCore, NEW given \in BOOLEAN, DoSetEmail(u, c, given)
      PROVE  NkInv'
  BY <1>4 DEF DoSetEmail, KillSettingSound
<1>5. ASSUME NEW c \in NkCore, NkIdentify(c) PROVE NkInv'
  BY <1>5 DEF NkIdentify, KillSettingSound
<1>6. ASSUME NEW c \in NkCore, NEW mask \in NkMask, AccessAdd(c, mask) \/ AccessDel(c, mask)
      PROVE  NkInv'
  BY <1>6 DEF AccessAdd, AccessDel, KillSettingSound
<1>7. ASSUME NEW u \in NkCore \cup {NkStranger}, NEW c \in NkCore, NEW all \in BOOLEAN,
             DoInfo(u, c, all)
      PROVE  NkInv'
  <2>1. ASSUME NEW x \in nkShown'.what
        PROVE  NkHides(x) \notin nkFlags[c] \/ (u \in nkIdentified /\ u \in NkAdmin \cup {c})
    BY <1>7 DEF DoInfo, ShowHidden, NkAdminNow
  <2>. QED
    BY <1>7, <2>1 DEF DoInfo, KillSettingSound
<1>8. ASSUME NEW allow \in BOOLEAN, NkRestart(allow) PROVE NkInv'
  <2>1. \A d \in NkCore : nkFlags'[d] = nkFlags[d] \/ nkFlags'[d] = nkFlags[d] \ {"KILL_IMMED"}
    BY <1>8 DEF NkRestart
  <2>2. KillSettingSound'
    BY <2>1 DEF KillSettingSound, NkKill
  <2>. QED
    BY <1>8, <2>2 DEF NkRestart
<1>9. CASE NkReload \/ NkSetReadonly
  BY <1>9 DEF NkReload, NkSetReadonly, KillSettingSound
<1>10. CASE UNCHANGED nkVars
  BY <1>10 DEF nkVars, KillSettingSound
<1>. QED
  BY <1>1, <1>2, <1>3, <1>4, <1>5, <1>6, <1>7, <1>8, <1>9, <1>10 DEF NickOptionsNext

LEMMA NkStarts == NickOptionsInit => NkInv
<1> SUFFICES ASSUME NickOptionsInit PROVE NkInv
  OBVIOUS
<1>1. NkDefFlags \cap NkKill \in {{}, {"KILLPROTECT"}, {"KILLPROTECT", "KILL_QUICK"}}
  BY NkDefaults DEF NkKill
<1>2. KillSettingSound
  BY <1>1 DEF NickOptionsInit, KillSettingSound
<1>3. NkTyped
  BY NkDefaults DEF NickOptionsInit, NkTyped, NkKill
<1>4. HiddenFromOthers /\ AdminPasswordsOwn
  BY NkRanks DEF NickOptionsInit, HiddenFromOthers, AdminPasswordsOwn
<1>. QED
  BY <1>2, <1>3, <1>4 DEF NkInv

LEMMA NkAlways == NickOptionsSpec => []NkInv
BY NkStarts, NkSteps, PTL DEF NickOptionsSpec

\* Whatever SET KILL, a restart and a RELOAD of the configuration do one after
\* another (do_set_kill, load_ns_dbase), validate_user() meets one setting.
THEOREM OneKillSetting == NickOptionsSpec => []KillSettingSound
BY NkAlways, PTL DEF NkInv

\* INFO never shows what a group hides to others than those it is meant for,
\* with any flags and at any time (do_info of nickserv.c).
THEOREM HiddenStaysHidden == NickOptionsSpec => []HiddenFromOthers
BY NkAlways, PTL DEF NkInv

\* SET PASSWORD cannot give an admin a password another admin knows
\* (do_set_password of nickserv.c).
THEOREM AdminsKeepPasswords == NickOptionsSpec => []AdminPasswordsOwn
BY NkAlways, PTL DEF NkInv

-----------------------------------------------------------------------------
(* The access list of a nick group (NickOptions).                          *)

NkListInv ==
    /\ nkAccess \in [NkCore -> Seq(NkMask)]
    /\ NickAccessSound

LEMMA NkListSteps == NkListInv /\ [NickOptionsNext]_nkVars => NkListInv'
<1> SUFFICES ASSUME NkListInv, [NickOptionsNext]_nkVars PROVE NkListInv'
  OBVIOUS
<1> USE DEF NkListInv
<1>0. ASSUME NEW c \in NkCore, NEW s \in Seq(NkMask), nkAccess' = [nkAccess EXCEPT ![c] = s],
             \A a, b \in DOMAIN s : s[a] = s[b] => a = b, Len(s) <= NSAccessMax
      PROVE  NkListInv'
  BY <1>0 DEF NickAccessSound, IsInjective
<1>1. ASSUME NEW c \in NkCore, NEW mask \in NkMask, AccessAdd(c, mask) PROVE NkListInv'
  <2> DEFINE s == nkAccess[c]
             t == Append(s, mask)
  <2>1. s \in Seq(NkMask) /\ Len(s) < NSAccessMax /\ \A i \in DOMAIN s : s[i] # mask
    BY <1>1 DEF AccessAdd, Contains
  <2>2. \A a, b \in DOMAIN s : s[a] = s[b] => a = b
    BY DEF NickAccessSound, IsInjective
  <2>3. nkAccess' = [nkAccess EXCEPT ![c] = t]
    BY <1>1 DEF AccessAdd
  <2> HIDE DEF s
  <2>4. /\ t \in Seq(NkMask) /\ DOMAIN t = DOMAIN s \cup {Len(s) + 1} /\ Len(s) + 1 \notin DOMAIN s
        /\ \A j \in DOMAIN t : t[j] = IF j = Len(s) + 1 THEN mask ELSE s[j]
    BY <2>1, EntryAdded
  <2>5. Len(t) <= NSAccessMax
    BY <2>1, NkAccessLimit
  <2> HIDE DEF t
  <2>6. \A a, b \in DOMAIN t : t[a] = t[b] => a = b
    BY <2>1, <2>2, <2>4
  <2>. QED
    BY <1>0, <2>3, <2>4, <2>5, <2>6
<1>2. ASSUME NEW c \in NkCore, NEW mask \in NkMask, AccessDel(c, mask) PROVE NkListInv'
  <2> DEFINE s == nkAccess[c]
             same == {i \in DOMAIN s : NkFold(s[i]) = NkFold(mask)}
             k == CHOOSE i \in same : \A j \in same : i <= j
             t == RemoveAt(s, k)
  <2>1. s \in Seq(NkMask) /\ Len(s) <= NSAccessMax
    BY DEF NickAccessSound
  <2>2. \A a, b \in DOMAIN s : s[a] = s[b] => a = b
    BY DEF NickAccessSound, IsInjective
  <2>3. nkAccess' = [nkAccess EXCEPT ![c] = t] /\ same # {}
    BY <1>2 DEF AccessDel
  <2> HIDE DEF s
  <2>4. same \subseteq Nat /\ same \subseteq DOMAIN s
    BY <2>1
  <2> HIDE DEF same
  <2>5. k \in DOMAIN s
    BY <2>3, <2>4, LeastPlace
  <2> HIDE DEF k
  <2>6. /\ t \in Seq(NkMask) /\ Len(t) = Len(s) - 1
        /\ \A j \in 1..(Len(s) - 1) : t[j] = IF j < k THEN s[j] ELSE s[j + 1]
    BY <2>1, <2>5, RemoveAtShifts
  <2> HIDE DEF t
  <2>7. \A a, b \in DOMAIN t : t[a] = t[b] => a = b
    <3> SUFFICES ASSUME NEW a \in DOMAIN t, NEW b \in DOMAIN t, t[a] = t[b] PROVE a = b
      OBVIOUS
    <3> DEFINE At(j) == IF j < k THEN j ELSE j + 1
    <3>1. a \in 1..(Len(s) - 1) /\ b \in 1..(Len(s) - 1) /\ k \in Nat
      BY <2>1, <2>5, <2>6
    <3>2. t[a] = s[At(a)] /\ t[b] = s[At(b)]
      BY <2>6, <3>1
    <3>3. At(a) \in DOMAIN s /\ At(b) \in DOMAIN s
      BY <2>1, <3>1
    <3>4. At(a) = At(b)
      BY <2>2, <3>2, <3>3
    <3>. QED
      BY <3>1, <3>4
  <2>8. Len(t) <= NSAccessMax
    BY <2>1, <2>6, NkAccessLimit
  <2>. QED
    BY <1>0, <2>3, <2>6, <2>7, <2>8
<1>3. ASSUME UNCHANGED nkAccess PROVE NkListInv'
  BY <1>3 DEF NickAccessSound
<1>4. ASSUME NEW u, NEW c, DoSetKill(u, c) \/ DoSetPassword(u, c) PROVE NkListInv'
  BY <1>3, <1>4 DEF DoSetKill, DoSetPassword
<1>5. ASSUME NEW u, NEW c, NEW x, DoSetFlag(u, c, x) \/ DoSetEmail(u, c, x) \/ DoInfo(u, c, x)
      PROVE  NkListInv'
  BY <1>3, <1>5 DEF DoSetFlag, DoSetEmail, DoInfo
<1>6. ASSUME NEW x, NkIdentify(x) \/ NkRestart(x) PROVE NkListInv'
  BY <1>3, <1>6 DEF NkIdentify, NkRestart
<1>7. CASE NkReload \/ NkSetReadonly
  BY <1>3, <1>7 DEF NkReload, NkSetReadonly
<1>8. CASE UNCHANGED nkVars
  BY <1>3, <1>8 DEF nkVars
<1>. QED
  BY <1>1, <1>2, <1>4, <1>5, <1>6, <1>7, <1>8 DEF NickOptionsNext

LEMMA NkListStarts == NickOptionsInit => NkListInv
BY NkAccessLimit DEF NickOptionsInit, NkListInv, NickAccessSound, IsInjective

-----------------------------------------------------------------------------
(* The access list of a channel (ChanNotes).                               *)

\* Whatever stands in an entry of a group, it is the group's only one.
CnInv ==
    /\ cnAccess \in Seq(CnEntries) /\ cnWish \in [CnCore -> CnOptions]
    /\ \A i, j \in DOMAIN cnAccess :
          cnAccess[i].nc \in CnCore /\ cnAccess[i].nc = cnAccess[j].nc => i = j
    /\ \A i \in DOMAIN cnAccess :
          cnAccess[i].nc \in CnCore => cnAccess[i].auto = cnWish[cnAccess[i].nc]

\* The last entry of a group is its only one.
LEMMA CnOwnOne ==
  ASSUME CnInv, NEW c \in CnCore, CnOwn(c) # {}
  PROVE  CnOwn(c) = {CnEntryOf(c)} /\ CnEntryOf(c) \in DOMAIN cnAccess
<1>1. PICK k \in CnOwn(c) : CnOwn(c) = {k}
  BY DEF CnInv, CnOwn
<1>2. k \in Nat /\ k \in DOMAIN cnAccess
  BY DEF CnInv, CnOwn
<1>3. CnEntryOf(c) = k
  BY <1>1, <1>2 DEF CnEntryOf
<1>. QED
  BY <1>1, <1>2, <1>3

LEMMA CnEntryWith ==
  ASSUME NEW e \in CnEntries
  PROVE  /\ \A x \in CnCore \cup {CnNone} :
               [e EXCEPT !.nc = x] \in CnEntries /\ [e EXCEPT !.nc = x].nc = x
               /\ [e EXCEPT !.nc = x].auto = e.auto
         /\ \A x \in CnOptions :
               [e EXCEPT !.auto = x] \in CnEntries /\ [e EXCEPT !.auto = x].nc = e.nc
               /\ [e EXCEPT !.auto = x].auto = x
         /\ \A x \in CnText \cup {CnLiteral} :
               [e EXCEPT !.comment = x] \in CnEntries /\ [e EXCEPT !.comment = x].nc = e.nc
               /\ [e EXCEPT !.comment = x].auto = e.auto
BY DEF CnEntries

\* An entry that is changed or added keeps the invariant if its group has no
\* other one and the wish of its group is in it.
LEMMA CnPut ==
  ASSUME CnInv, NEW e \in CnEntries, cnWish' \in [CnCore -> CnOptions],
         NEW k, k \in DOMAIN cnAccess \/ k = Len(cnAccess) + 1,
         cnAccess' = IF k \in DOMAIN cnAccess THEN [cnAccess EXCEPT ![k] = e]
                     ELSE Append(cnAccess, e),
         e.nc \in CnCore => e.auto = cnWish'[e.nc] /\ \A i \in DOMAIN cnAccess \ {k} : cnAccess[i].nc # e.nc,
         \A c \in CnCore : c = e.nc \/ cnWish'[c] = cnWish[c] \/ \A i \in DOMAIN cnAccess \ {k} : cnAccess[i].nc # c
  PROVE  CnInv'
<1>1. /\ cnAccess' \in Seq(CnEntries) /\ DOMAIN cnAccess' = DOMAIN cnAccess \cup {k}
      /\ \A j \in DOMAIN cnAccess' : cnAccess'[j] = IF j = k THEN e ELSE cnAccess[j]
  <2>1. CASE k \in DOMAIN cnAccess
    <3>1. cnAccess \in Seq(CnEntries) /\ cnAccess' = [cnAccess EXCEPT ![k] = e]
      BY <2>1 DEF CnInv
    <3>2. /\ cnAccess' \in Seq(CnEntries) /\ DOMAIN cnAccess' = DOMAIN cnAccess
          /\ \A j \in DOMAIN cnAccess : cnAccess'[j] = IF j = k THEN e ELSE cnAccess[j]
      BY <2>1, <3>1, EntrySet
    <3>3. DOMAIN cnAccess \cup {k} = DOMAIN cnAccess
      BY <2>1
    <3>. QED
      BY <3>2, <3>3
  <2>2. CASE k \notin DOMAIN cnAccess
    <3>1. cnAccess \in Seq(CnEntries) /\ cnAccess' = Append(cnAccess, e) /\ k = Len(cnAccess) + 1
      BY <2>2 DEF CnInv
    <3>. QED
      BY <3>1, EntryAdded
  <2>. QED
    BY <2>1, <2>2
<1>2. \A i, j \in DOMAIN cnAccess' :
         cnAccess'[i].nc \in CnCore /\ cnAccess'[i].nc = cnAccess'[j].nc => i = j
  BY <1>1 DEF CnInv
<1>3. ASSUME NEW i \in DOMAIN cnAccess', cnAccess'[i].nc \in CnCore
      PROVE  cnAccess'[i].auto = cnWish'[cnAccess'[i].nc]
  <2>1. CASE i = k
    BY <1>1, <1>3, <2>1
  <2>2. CASE i # k
    BY <1>1, <1>3, <2>2 DEF CnInv
  <2>. QED
    BY <2>1, <2>2
<1>. QED
  BY <1>1, <1>2, <1>3 DEF CnInv

LEMMA CnSteps == CnInv /\ [ChanNotesNext]_cnVars => CnInv'
<1> SUFFICES ASSUME CnInv, [ChanNotesNext]_cnVars PROVE CnInv'
  OBVIOUS
<1>0. ASSUME NEW i \in DOMAIN cnAccess
      PROVE  /\ cnAccess[i] \in CnEntries /\ cnAccess[i].nc \in CnCore \cup {CnNone}
             /\ cnAccess[i].auto \in CnOptions
  <2>1. cnAccess[i] \in CnEntries
    BY DEF CnInv
  <2>. QED
    BY <2>1 DEF CnEntries
<1>1. ASSUME NEW c \in CnCore, CnAddUser(c) PROVE CnInv'
  <2> DEFINE free == {i \in DOMAIN cnAccess : cnAccess[i].nc = CnNone}
             k == IF free = {} THEN Len(cnAccess) + 1 ELSE CHOOSE i \in free : \A j \in free : i <= j
             e == NewEntry(k, c)
  <2>1. /\ cnAccess' = (IF free = {} THEN Append(cnAccess, e) ELSE [cnAccess EXCEPT ![k] = e])
        /\ cnWish' = [cnWish EXCEPT ![c] = "F"] /\ CnOwn(c) = {}
    BY <1>1 DEF CnAddUser
  <2>2. e \in CnEntries /\ e.nc = c /\ e.auto = "F"
    BY DEF NewEntry, CnEntries, CnOptions
  <2>3. free \subseteq Nat /\ free \subseteq DOMAIN cnAccess /\ DOMAIN cnAccess = 1..Len(cnAccess)
        /\ Len(cnAccess) \in Nat
    BY DEF CnInv
  <2>4. IF free = {} THEN k = Len(cnAccess) + 1 /\ k \notin DOMAIN cnAccess ELSE k \in DOMAIN cnAccess
    <3>1. CASE free = {}
      BY <2>3, <3>1
    <3>2. CASE free # {}
      BY <2>3, <3>2, LeastPlace
    <3>. QED
      BY <3>1, <3>2
  <2>5. cnWish' \in [CnCore -> CnOptions] /\ cnWish'[c] = "F"
        /\ \A d \in CnCore : d = c \/ cnWish'[d] = cnWish[d]
    BY <2>1 DEF CnInv, CnOptions
  <2>6. \A i \in DOMAIN cnAccess : cnAccess[i].nc # c
    BY <2>1 DEF CnOwn
  <2> HIDE DEF free, k, e
  <2>7. cnAccess' = IF k \in DOMAIN cnAccess THEN [cnAccess EXCEPT ![k] = e] ELSE Append(cnAccess, e)
    BY <2>1, <2>4
  <2>. QED
    BY <2>2, <2>4, <2>5, <2>6, <2>7, CnPut
<1>2. ASSUME NEW c \in CnCore, CnOwn(c) # {}, NEW e \in CnEntries,
             cnAccess' = [cnAccess EXCEPT ![CnEntryOf(c)] = e],
             \/ e.nc = CnNone /\ UNCHANGED cnWish
             \/ e.nc = c /\ e.auto = cnWish'[c] /\ \E x \in CnOptions : cnWish' = [cnWish EXCEPT ![c] = x]
             \/ e.nc = c /\ e.auto = cnAccess[CnEntryOf(c)].auto /\ UNCHANGED cnWish
      PROVE  CnInv'
  <2>1. CnOwn(c) = {CnEntryOf(c)} /\ CnEntryOf(c) \in DOMAIN cnAccess
    BY <1>2, CnOwnOne
  <2>2. cnAccess[CnEntryOf(c)].nc = c /\ \A i \in DOMAIN cnAccess \ {CnEntryOf(c)} : cnAccess[i].nc # c
    BY <2>1 DEF CnOwn
  <2>3. cnWish' \in [CnCore -> CnOptions] /\ \A d \in CnCore : d = c \/ cnWish'[d] = cnWish[d]
    BY <1>2 DEF CnInv
  <2>4. e.nc \in CnCore => e.nc = c /\ e.auto = cnWish'[c]
    BY <1>2, <2>1, <2>2, CnApart DEF CnInv
  <2>. QED
    BY <1>2, <2>1, <2>2, <2>3, <2>4, CnPut
<1>3. ASSUME NEW c \in CnCore, CnRemUser(c) PROVE CnInv'
  <2>1. CnOwn(c) # {} /\ CnEntryOf(c) \in DOMAIN cnAccess
    BY <1>3, CnOwnOne DEF CnRemUser
  <2> DEFINE e == [cnAccess[CnEntryOf(c)] EXCEPT !.nc = CnNone]
  <2>2. e \in CnEntries /\ e.nc = CnNone
    BY <1>0, <2>1, CnEntryWith
  <2>3. cnAccess' = [cnAccess EXCEPT ![CnEntryOf(c)] = e] /\ UNCHANGED cnWish
    BY <1>3, <2>1 DEF CnRemUser, CnInv
  <2>. QED
    BY <1>2, <2>1, <2>2, <2>3
<1>4. ASSUME NEW c \in CnCore, NEW what \in CnOptions, DoAutoop(c, what) PROVE CnInv'
  <2>1. CnOwn(c) # {} /\ CnEntryOf(c) \in DOMAIN cnAccess /\ CnOwn(c) = {CnEntryOf(c)}
    BY <1>4, CnOwnOne DEF DoAutoop
  <2> DEFINE e == [cnAccess[CnEntryOf(c)] EXCEPT !.auto = what]
  <2>2. e \in CnEntries /\ e.nc = cnAccess[CnEntryOf(c)].nc /\ e.auto = what
    BY <1>0, <2>1, CnEntryWith
  <2>3. e.nc = c
    BY <2>1, <2>2 DEF CnOwn
  <2>4. cnAccess' = [cnAccess EXCEPT ![CnEntryOf(c)] = e] /\ cnWish' = [cnWish EXCEPT ![c] = what]
    BY <1>4, <2>1 DEF DoAutoop, CnInv
  <2>5. cnWish'[c] = what
    BY <2>4 DEF CnInv
  <2>. QED
    BY <1>2, <2>1, <2>2, <2>3, <2>4, <2>5
<1>5. ASSUME NEW c \in CnCore, NEW text \in CnText \cup {CnLiteral}, DoComment(c, text) PROVE CnInv'
  <2>1. CnOwn(c) # {} /\ CnEntryOf(c) \in DOMAIN cnAccess /\ CnOwn(c) = {CnEntryOf(c)}
    BY <1>5, CnOwnOne DEF DoComment
  <2> DEFINE e == [cnAccess[CnEntryOf(c)] EXCEPT !.comment = text]
  <2>2. /\ e \in CnEntries /\ e.nc = cnAccess[CnEntryOf(c)].nc
        /\ e.auto = cnAccess[CnEntryOf(c)].auto
    BY <1>0, <2>1, CnEntryWith
  <2>3. e.nc = c
    BY <2>1, <2>2 DEF CnOwn
  <2>4. cnAccess' = [cnAccess EXCEPT ![CnEntryOf(c)] = e] /\ UNCHANGED cnWish
    BY <1>5, <2>1 DEF DoComment, CnInv
  <2>. QED
    BY <1>2, <2>1, <2>2, <2>3, <2>4
<1>6. ASSUME UNCHANGED <<cnAccess, cnWish>> PROVE CnInv'
  BY <1>6 DEF CnInv
<1>7. ASSUME NEW x, CnPart(x) \/ DoSetmodes(x) \/ DoSetDesc(x) \/ EntryAdd(x) \/ CnRestart(x)
                    \/ EntryClear(x)
      PROVE  CnInv'
  BY <1>6, <1>7 DEF CnPart, DoSetmodes, DoSetDesc, EntryAdd, CnRestart, EntryClear
<1>8. ASSUME NEW c, NEW x, NEW y, CnJoin(c, x) \/ CnMode(c, x, y) PROVE CnInv'
  BY <1>6, <1>8 DEF CnJoin, CnMode
<1>9. CASE UNCHANGED cnVars
  BY <1>6, <1>9 DEF cnVars
<1>. QED
  BY <1>1, <1>3, <1>4, <1>5, <1>7, <1>8, <1>9 DEF ChanNotesNext

LEMMA CnStarts == ChanNotesInit => CnInv
BY DEF ChanNotesInit, CnInv, CnOptions

LEMMA CnOnce == CnInv => AutoopOwn
<1> SUFFICES ASSUME CnInv, NEW c \in CnCore
             PROVE  /\ Cardinality(CnOwn(c)) <= 1
                    /\ \A i \in CnOwn(c) : cnAccess[i].auto = cnWish[c]
  BY DEF AutoopOwn
<1>1. \A i, j \in CnOwn(c) : i = j
  BY DEF CnInv, CnOwn
<1>. QED
  BY <1>1, AtMostOne DEF CnInv, CnOwn

-----------------------------------------------------------------------------
(* The autokicks of a channel (ChanBans).                                  *)

CbInv == cbAkick \in Seq(AkickSlots) /\ AkicksUnique

LEMMA CbSlotOff ==
  ASSUME NEW e \in AkickSlots
  PROVE  /\ [e EXCEPT !.used = FALSE, !.stuck = FALSE] \in AkickSlots
         /\ [e EXCEPT !.used = FALSE, !.stuck = FALSE].used = FALSE
BY DEF AkickSlots

LEMMA CbDel ==
  ASSUME cbAkick \in Seq(AkickSlots), NEW i \in DOMAIN cbAkick
  PROVE  /\ AkickDel(cbAkick, i) \in Seq(AkickSlots) /\ DOMAIN AkickDel(cbAkick, i) = DOMAIN cbAkick
         /\ ~AkickDel(cbAkick, i)[i].used
         /\ \A j \in DOMAIN cbAkick : j # i => AkickDel(cbAkick, i)[j] = cbAkick[j]
<1> DEFINE e == [cbAkick[i] EXCEPT !.used = FALSE, !.stuck = FALSE]
<1>1. cbAkick[i] \in AkickSlots
  OBVIOUS
<1>2. e \in AkickSlots /\ e.used = FALSE
  BY <1>1, CbSlotOff
<1>3. AkickDel(cbAkick, i) = [cbAkick EXCEPT ![i] = e]
  BY DEF AkickDel
<1> HIDE DEF e
<1>. QED
  BY <1>2, <1>3, EntrySet

LEMMA CbSteps == CbInv /\ [ChanBansNext]_cbVars => CbInv'
<1> SUFFICES ASSUME CbInv, [ChanBansNext]_cbVars PROVE CbInv'
  OBVIOUS
<1>0. /\ cbAkick \in Seq(AkickSlots) /\ DOMAIN cbAkick \subseteq Nat
      /\ \A i, j \in DOMAIN cbAkick :
            cbAkick[i].used /\ cbAkick[j].used /\ cbAkick[i].who = cbAkick[j].who => i = j
  BY DEF CbInv, AkicksUnique, CbBanlist, AkickView
<1>1. ASSUME cbAkick' \in Seq(AkickSlots),
             \A i, j \in DOMAIN cbAkick' :
                cbAkick'[i].used /\ cbAkick'[j].used /\ cbAkick'[i].who = cbAkick'[j].who => i = j
      PROVE  CbInv'
  BY <1>1 DEF CbInv, AkicksUnique, CbBanlist, AkickView
<1>2. ASSUME NEW who \in CbMask \cup CbGroup, CbBan(who) PROVE CbInv'
  <2> DEFINE e == [used |-> TRUE, who |-> who, stuck |-> FALSE]
             k == CHOOSE i \in CbFreeSlots : \A j \in CbFreeSlots : i <= j
  <2>1. e \in AkickSlots /\ e.who = who
    BY DEF AkickSlots
  <2>2. \A i \in DOMAIN cbAkick : cbAkick[i].used => cbAkick[i].who # who
    BY <1>2 DEF CbBan, NumberOf
  <2>3. IF CbFreeSlots # {} THEN cbAkick' = [cbAkick EXCEPT ![k] = e] ELSE cbAkick' = Append(cbAkick, e)
    BY <1>2 DEF CbBan, AkicksBecome
  <2>4. CbFreeSlots \subseteq DOMAIN cbAkick
    BY DEF CbFreeSlots
  <2>5. CbFreeSlots # {} => k \in DOMAIN cbAkick
    BY <1>0, <2>4, LeastPlace
  <2> HIDE DEF e, k
  <2>6. PICK m : /\ cbAkick' \in Seq(AkickSlots) /\ DOMAIN cbAkick' \subseteq DOMAIN cbAkick \cup {m}
                 /\ \A j \in DOMAIN cbAkick' : cbAkick'[j] = IF j = m THEN e ELSE cbAkick[j]
    <3>1. CASE CbFreeSlots # {}
      <4>1. /\ cbAkick' \in Seq(AkickSlots) /\ DOMAIN cbAkick' = DOMAIN cbAkick
            /\ \A j \in DOMAIN cbAkick : cbAkick'[j] = IF j = k THEN e ELSE cbAkick[j]
        BY <1>0, <2>1, <2>3, <2>5, <3>1, EntrySet
      <4>. QED
        BY <4>1
    <3>2. CASE CbFreeSlots = {}
      <4>1. /\ cbAkick' \in Seq(AkickSlots) /\ DOMAIN cbAkick' = DOMAIN cbAkick \cup {Len(cbAkick) + 1}
            /\ \A j \in DOMAIN cbAkick' : cbAkick'[j] = IF j = Len(cbAkick) + 1 THEN e ELSE cbAkick[j]
        BY <1>0, <2>1, <2>3, <3>2, EntryAdded
      <4>. QED
        BY <4>1
    <3>. QED
      BY <3>1, <3>2
  <2>7. ASSUME NEW i \in DOMAIN cbAkick', NEW j \in DOMAIN cbAkick', cbAkick'[i].used, cbAkick'[j].used,
               cbAkick'[i].who = cbAkick'[j].who
        PROVE  i = j
    <3>1. CASE i = m /\ j # m
      BY <2>1, <2>2, <2>6, <2>7, <3>1
    <3>2. CASE i # m /\ j = m
      BY <2>1, <2>2, <2>6, <2>7, <3>2
    <3>3. CASE i # m /\ j # m
      BY <1>0, <2>6, <2>7, <3>3
    <3>. QED
      BY <3>1, <3>2, <3>3
  <2>. QED
    BY <1>1, <2>6, <2>7
<1>3. ASSUME NEW who, CbUnban(who) PROVE CbInv'
  <2>1. PICK i \in DOMAIN cbAkick : cbAkick' = AkickDel(cbAkick, i)
    BY <1>3 DEF CbUnban, NumberOf, AkicksBecome
  <2>2. /\ cbAkick' \in Seq(AkickSlots) /\ DOMAIN cbAkick' = DOMAIN cbAkick /\ ~cbAkick'[i].used
        /\ \A j \in DOMAIN cbAkick : j # i => cbAkick'[j] = cbAkick[j]
    BY <1>0, <2>1, CbDel
  <2>. QED
    BY <1>0, <1>1, <2>2
<1>4. ASSUME NEW numbers, CbUnbanNumbers(numbers) PROVE CbInv'
  <2>1. cbAkick' = [i \in DOMAIN cbAkick |-> IF i \in numbers THEN AkickDel(cbAkick, i)[i] ELSE cbAkick[i]]
    BY <1>4 DEF CbUnbanNumbers, AkicksBecome
  <2>2. \A i \in DOMAIN cbAkick : AkickDel(cbAkick, i)[i] \in AkickSlots /\ ~AkickDel(cbAkick, i)[i].used
    <3> SUFFICES ASSUME NEW i \in DOMAIN cbAkick
                 PROVE  AkickDel(cbAkick, i)[i] \in AkickSlots /\ ~AkickDel(cbAkick, i)[i].used
      OBVIOUS
    <3>1. /\ AkickDel(cbAkick, i) \in Seq(AkickSlots) /\ DOMAIN AkickDel(cbAkick, i) = DOMAIN cbAkick
          /\ ~AkickDel(cbAkick, i)[i].used
      BY <1>0, CbDel
    <3>. QED
      BY <3>1
  <2>3. cbAkick' \in Seq(AkickSlots) /\ DOMAIN cbAkick' = DOMAIN cbAkick
    BY <1>0, <2>1, <2>2
  <2>4. \A i \in DOMAIN cbAkick : cbAkick'[i].used => cbAkick'[i] = cbAkick[i]
    BY <2>1, <2>2
  <2>. QED
    BY <1>0, <1>1, <2>3, <2>4
<1>5. ASSUME UNCHANGED cbAkick PROVE CbInv'
  BY <1>0, <1>1, <1>5
<1>6. ASSUME NEW m, UserBan(m) \/ UserUnban(m) PROVE CbInv'
  BY <1>5, <1>6 DEF UserBan, UserUnban, CbSame
<1>7. ASSUME NEW u, CbJoin(u) \/ CbPart(u) PROVE CbInv'
  BY <1>5, <1>7 DEF CbJoin, CbPart, CheckKick, CbSame
<1>8. CASE TimeoutLeave \/ CbCsJoin \/ CbCsPart \/ CbRestart
  BY <1>5, <1>8 DEF TimeoutLeave, CbCsJoin, CbCsPart, CbRestart, CbSame
<1>9. CASE UNCHANGED cbVars
  BY <1>5, <1>9 DEF cbVars
<1>. QED
  BY <1>2, <1>3, <1>4, <1>6, <1>7, <1>8, <1>9 DEF ChanBansNext

LEMMA CbStarts == ChanBansInit => CbInv
<1> SUFFICES ASSUME ChanBansInit PROVE CbInv
  OBVIOUS
<1>1. \A m \in CbStuckMasks : StuckAkick(m) \in AkickSlots
  BY CbMaskAssumption DEF StuckAkick, AkickSlots
<1>2. cbAkick \in Seq(AkickSlots)
  <2>1. CASE cbAkick = << >>
    BY <2>1
  <2>2. ASSUME NEW m \in CbStuckMasks, cbAkick = <<StuckAkick(m)>> PROVE cbAkick \in Seq(AkickSlots)
    BY <1>1, <2>2
  <2>3. ASSUME NEW m \in CbStuckMasks, NEW n \in CbStuckMasks,
               cbAkick = <<StuckAkick(m), StuckAkick(n)>>
        PROVE  cbAkick \in Seq(AkickSlots)
    BY <1>1, <2>3
  <2>. QED
    BY <2>1, <2>2, <2>3 DEF ChanBansInit
<1>3. AkicksUnique
  BY DEF ChanBansInit, AkicksUnique, CbBanlist, AkickView
<1>. QED
  BY <1>2, <1>3 DEF CbInv

-----------------------------------------------------------------------------
(* The numbers of memos (Memos).                                           *)

MmUp(memos) ==
    /\ memos \in Seq(MemoRecords)
    /\ \A i, j \in DOMAIN memos : i < j => memos[i].num < memos[j].num

MmInv == MmUp(mmMemos) /\ Len(mmMemos) <= MmMaxMemos

LEMMA MmRecord ==
  ASSUME NEW e \in MemoRecords
  PROVE  /\ e.num \in 1..(MmWidth - 1) /\ e.num \in Nat
         /\ [e EXCEPT !.unread = FALSE] \in MemoRecords /\ [e EXCEPT !.unread = FALSE].num = e.num
         /\ \A k \in 1..(MmWidth - 1) : [e EXCEPT !.num = k] \in MemoRecords /\ [e EXCEPT !.num = k].num = k
<1>1. e.num \in 1..(MmWidth - 1) /\ e.num \in Nat
  BY MmWidthAssumption DEF MemoRecords
<1>2. [e EXCEPT !.unread = FALSE] \in MemoRecords /\ [e EXCEPT !.unread = FALSE].num = e.num
  BY DEF MemoRecords
<1>3. ASSUME NEW D, NEW F, NEW r \in [num : D, from : F, unread : BOOLEAN], NEW k \in D
      PROVE  [r EXCEPT !.num = k] \in [num : D, from : F, unread : BOOLEAN] /\ [r EXCEPT !.num = k].num = k
  OBVIOUS
<1>. QED
  BY <1>1, <1>2, <1>3 DEF MemoRecords

LEMMA MmRenumbered ==
  ASSUME NEW memos \in Seq(MemoRecords), Len(memos) <= MmMaxMemos
  PROVE  MmUp(Renumbered(memos)) /\ Len(Renumbered(memos)) = Len(memos)
<1>1. \A i \in DOMAIN memos : i \in 1..(MmWidth - 1) /\ memos[i] \in MemoRecords
  BY MmWidthAssumption
<1>2. \A i \in DOMAIN memos :
         [memos[i] EXCEPT !.num = i] \in MemoRecords /\ [memos[i] EXCEPT !.num = i].num = i
  BY <1>1, MmRecord
<1>3. Renumbered(memos) = [i \in DOMAIN memos |-> [memos[i] EXCEPT !.num = i]]
  BY DEF Renumbered
<1>4. DOMAIN memos = 1..Len(memos) /\ Len(memos) \in Nat
  OBVIOUS
<1>5. Renumbered(memos) \in Seq(MemoRecords) /\ Len(Renumbered(memos)) = Len(memos)
      /\ DOMAIN Renumbered(memos) = DOMAIN memos
  BY <1>2, <1>3, <1>4
<1>6. \A i \in DOMAIN memos : Renumbered(memos)[i].num = i
  BY <1>2, <1>3
<1>. QED
  BY <1>5, <1>6 DEF MmUp

\* Taking a memo out leaves the others in their order.
LEMMA MmRemoved ==
  ASSUME NEW memos, MmUp(memos), NEW k \in DOMAIN memos
  PROVE  MmUp(RemoveAt(memos, k)) /\ Len(RemoveAt(memos, k)) = Len(memos) - 1
<1> DEFINE t == RemoveAt(memos, k)
<1>0. memos \in Seq(MemoRecords)
  BY DEF MmUp
<1>1. /\ t \in Seq(MemoRecords) /\ Len(t) = Len(memos) - 1
      /\ \A j \in 1..(Len(memos) - 1) : t[j] = IF j < k THEN memos[j] ELSE memos[j + 1]
  BY <1>0, RemoveAtShifts
<1> HIDE DEF t
<1>2. ASSUME NEW i \in DOMAIN t, NEW j \in DOMAIN t, i < j PROVE t[i].num < t[j].num
  <2> DEFINE At(x) == IF x < k THEN x ELSE x + 1
  <2>1. i \in 1..(Len(memos) - 1) /\ j \in 1..(Len(memos) - 1) /\ k \in Nat
    BY <1>0, <1>1
  <2>2. t[i] = memos[At(i)] /\ t[j] = memos[At(j)]
    BY <1>1, <2>1
  <2>3. At(i) \in DOMAIN memos /\ At(j) \in DOMAIN memos /\ At(i) < At(j)
    BY <1>0, <1>2, <2>1
  <2>. QED
    BY <2>2, <2>3 DEF MmUp
<1>. QED
  BY <1>1, <1>2 DEF MmUp, t

LEMMA MmDeleted ==
  ASSUME NEW memos, MmUp(memos), NEW num
  PROVE  MmUp(Delmemo(memos, num)) /\ Len(Delmemo(memos, num)) <= Len(memos)
<1> DEFINE places == {i \in DOMAIN memos : memos[i].num = num}
           k == CHOOSE i \in places : \A j \in places : i <= j
<1>1. places \subseteq DOMAIN memos /\ places \subseteq Nat /\ Len(memos) \in Nat
  BY DEF MmUp
<1>2. Delmemo(memos, num) = IF places = {} THEN memos ELSE RemoveAt(memos, k)
  BY DEF Delmemo
<1>3. CASE places = {}
  BY <1>1, <1>2, <1>3
<1>4. CASE places # {}
  <2>1. k \in places
    BY <1>1, <1>4, LeastPlace
  <2>2. k \in DOMAIN memos
    BY <1>1, <2>1
  <2>. QED
    BY <1>1, <1>2, <1>4, <2>2, MmRemoved
<1>. QED
  BY <1>3, <1>4

LEMMA MmReadOne ==
  ASSUME NEW memos, MmUp(memos), NEW k \in DOMAIN memos
  PROVE  MmUp(ReadMemo(memos, k)) /\ Len(ReadMemo(memos, k)) = Len(memos)
<1> DEFINE e == [memos[k] EXCEPT !.unread = FALSE]
           t == [memos EXCEPT ![k] = e]
<1>1. memos \in Seq(MemoRecords) /\ memos[k] \in MemoRecords
  BY DEF MmUp
<1>2. e \in MemoRecords /\ e.num = memos[k].num
  BY <1>1, MmRecord
<1>3. ReadMemo(memos, k) = t
  BY DEF ReadMemo
<1> HIDE DEF e
<1>4. /\ t \in Seq(MemoRecords) /\ DOMAIN t = DOMAIN memos
      /\ \A j \in DOMAIN memos : t[j] = IF j = k THEN e ELSE memos[j]
  BY <1>1, <1>2, EntrySet
<1>5. Len(t) = Len(memos)
  BY <1>1, <1>4
<1> HIDE DEF t
<1>6. \A j \in DOMAIN memos : t[j].num = memos[j].num
  BY <1>2, <1>4
<1>. QED
  BY <1>3, <1>4, <1>5, <1>6 DEF MmUp

\* DEL with numbers and READ take one memo after the other.
LEMMA MmDelTurns ==
  ASSUME NEW h, NEW R, NEW s \in Seq(R)
  PROVE  \E f : /\ Turns([fold |-> "delmemo", list |-> s], h, Len(s), f)
                /\ f[Len(s)] = FoldLeft(Delmemo, h, s)
<1> DEFINE a == [fold |-> "delmemo", list |-> s]
           it == CHOOSE g : g = [t \in SUBSET DOMAIN s |->
                     IF t = {} THEN h ELSE Delmemo(g[t \ {Max(t)}], s[Max(t)])]
<1>1. FoldLeft(Delmemo, h, s) = it[DOMAIN s]
  BY Zenon DEF FoldLeft, MapThenFoldSet
<1>2. DOMAIN s = 1..Len(s) /\ Len(s) \in Nat
  OBVIOUS
<1>3. \A w, i : Turn(a, w, i) = Delmemo(w, s[i])
  BY DEF Turn
<1> HIDE DEF a
<1>4. PICK g : IsFold(a, h, 1..Len(s), g)
  BY <1>2, FoldExists
<1>5. g = [t \in SUBSET DOMAIN s |-> IF t = {} THEN h ELSE Delmemo(g[t \ {Max(t)}], s[Max(t)])]
  BY <1>2, <1>3, <1>4 DEF IsFold
<1>6. it = [t \in SUBSET DOMAIN s |-> IF t = {} THEN h ELSE Delmemo(it[t \ {Max(t)}], s[Max(t)])]
  BY <1>5
<1> HIDE DEF it
<1>7. IsFold(a, h, 1..Len(s), it)
  BY <1>2, <1>3, <1>6 DEF IsFold
<1>8. \E f : Turns(a, h, Len(s), f) /\ f[Len(s)] = it[1..Len(s)]
  BY <1>2, <1>7, FoldTurns
<1>. QED
  BY <1>1, <1>2, <1>8 DEF a

LEMMA MmReadTurns ==
  ASSUME NEW h, NEW R, NEW s \in Seq(R)
  PROVE  \E f : /\ Turns([fold |-> "read", list |-> s], h, Len(s), f)
                /\ f[Len(s)] = FoldLeft(ReadMemo, h, s)
<1> DEFINE a == [fold |-> "read", list |-> s]
           it == CHOOSE g : g = [t \in SUBSET DOMAIN s |->
                     IF t = {} THEN h ELSE ReadMemo(g[t \ {Max(t)}], s[Max(t)])]
<1>1. FoldLeft(ReadMemo, h, s) = it[DOMAIN s]
  BY Zenon DEF FoldLeft, MapThenFoldSet
<1>2. DOMAIN s = 1..Len(s) /\ Len(s) \in Nat
  OBVIOUS
<1>3. \A w, i : Turn(a, w, i) = ReadMemo(w, s[i])
  BY DEF Turn
<1> HIDE DEF a
<1>4. PICK g : IsFold(a, h, 1..Len(s), g)
  BY <1>2, FoldExists
<1>5. g = [t \in SUBSET DOMAIN s |-> IF t = {} THEN h ELSE ReadMemo(g[t \ {Max(t)}], s[Max(t)])]
  BY <1>2, <1>3, <1>4 DEF IsFold
<1>6. it = [t \in SUBSET DOMAIN s |-> IF t = {} THEN h ELSE ReadMemo(it[t \ {Max(t)}], s[Max(t)])]
  BY <1>5
<1> HIDE DEF it
<1>7. IsFold(a, h, 1..Len(s), it)
  BY <1>2, <1>3, <1>6 DEF IsFold
<1>8. \E f : Turns(a, h, Len(s), f) /\ f[Len(s)] = it[1..Len(s)]
  BY <1>2, <1>7, FoldTurns
<1>. QED
  BY <1>1, <1>2, <1>8 DEF a

LEMMA MmDelMany ==
  ASSUME NEW memos, MmUp(memos), NEW R, NEW s \in Seq(R)
  PROVE  /\ FoldLeft(Delmemo, memos, s) \in Seq(MemoRecords)
         /\ Len(FoldLeft(Delmemo, memos, s)) <= Len(memos)
<1> DEFINE a == [fold |-> "delmemo", list |-> s]
<1>1. PICK f : Turns(a, memos, Len(s), f) /\ f[Len(s)] = FoldLeft(Delmemo, memos, s)
  BY MmDelTurns
<1>2. \A w, i : Turn(a, w, i) = Delmemo(w, s[i])
  BY DEF Turn
<1>3. Len(s) \in Nat /\ Len(memos) \in Nat
  BY DEF MmUp
<1> HIDE DEF a
<1> DEFINE S == {k \in Nat : k <= Len(s) => MmUp(f[k]) /\ Len(f[k]) <= Len(memos)}
<1>4. 0 \in S
  BY <1>1, <1>3 DEF Turns
<1>5. ASSUME NEW k \in Nat, k \in S PROVE k + 1 \in S
  <2> SUFFICES ASSUME k + 1 <= Len(s)
               PROVE  MmUp(f[k + 1]) /\ Len(f[k + 1]) <= Len(memos)
    OBVIOUS
  <2>1. MmUp(f[k]) /\ Len(f[k]) <= Len(memos) /\ k < Len(s)
    BY <1>3, <1>5
  <2>2. f[k + 1] = Delmemo(f[k], s[k + 1])
    BY <1>1, <1>2, <2>1 DEF Turns
  <2>3. MmUp(f[k + 1]) /\ Len(f[k + 1]) <= Len(f[k])
    BY <2>1, <2>2, MmDeleted
  <2>4. Len(f[k + 1]) \in Nat /\ Len(f[k]) \in Nat
    BY <2>1, <2>3 DEF MmUp
  <2>. QED
    BY <1>3, <2>1, <2>3, <2>4
<1> HIDE DEF S
<1>6. Len(s) \in S
  BY <1>3, <1>4, <1>5, NatInd
<1>. QED
  BY <1>1, <1>3, <1>6 DEF S, MmUp

LEMMA MmReadMany ==
  ASSUME NEW memos, MmUp(memos), NEW s \in Seq(DOMAIN memos)
  PROVE  MmUp(FoldLeft(ReadMemo, memos, s)) /\ Len(FoldLeft(ReadMemo, memos, s)) = Len(memos)
<1> DEFINE a == [fold |-> "read", list |-> s]
<1>1. PICK f : Turns(a, memos, Len(s), f) /\ f[Len(s)] = FoldLeft(ReadMemo, memos, s)
  BY MmReadTurns
<1>2. \A w, i : Turn(a, w, i) = ReadMemo(w, s[i])
  BY DEF Turn
<1>3. Len(s) \in Nat /\ Len(memos) \in Nat /\ DOMAIN memos = 1..Len(memos)
      /\ \A i \in 1..Len(s) : s[i] \in DOMAIN memos
  BY DEF MmUp
<1> HIDE DEF a
<1> DEFINE S == {k \in Nat : k <= Len(s) => MmUp(f[k]) /\ Len(f[k]) = Len(memos)}
<1>4. 0 \in S
  BY <1>1, <1>3 DEF Turns
<1>5. ASSUME NEW k \in Nat, k \in S PROVE k + 1 \in S
  <2> SUFFICES ASSUME k + 1 <= Len(s)
               PROVE  MmUp(f[k + 1]) /\ Len(f[k + 1]) = Len(memos)
    OBVIOUS
  <2>1. MmUp(f[k]) /\ Len(f[k]) = Len(memos) /\ k < Len(s)
    BY <1>3, <1>5
  <2>2. f[k + 1] = ReadMemo(f[k], s[k + 1])
    BY <1>1, <1>2, <2>1 DEF Turns
  <2>3. DOMAIN f[k] = 1..Len(f[k])
    BY <2>1 DEF MmUp
  <2>4. k + 1 \in 1..Len(s)
    BY <1>3, <2>1
  <2>5. s[k + 1] \in DOMAIN f[k]
    BY <1>3, <2>1, <2>3, <2>4
  <2>. QED
    BY <2>1, <2>2, <2>5, MmReadOne
<1> HIDE DEF S
<1>6. Len(s) \in S
  BY <1>3, <1>4, <1>5, NatInd
<1>. QED
  BY <1>1, <1>3, <1>6 DEF S

\* A new memo has the highest number, or all are numbered again.
LEMMA MmNumbered ==
  ASSUME NEW memos, MmUp(memos), Len(memos) < MmMaxMemos, NEW s \in MmSender
  PROVE  MmUp(Numbered(memos, s)) /\ Len(Numbered(memos, s)) = Len(memos) + 1
<1> DEFINE last == Last(memos).num + 1
           num == IF memos = << >> THEN 1 ELSE last % MmWidth
           e == [num |-> num, from |-> s, unread |-> TRUE]
           all == Append(memos, e)
<1>1. /\ memos \in Seq(MemoRecords) /\ Len(memos) \in Nat /\ DOMAIN memos = 1..Len(memos)
      /\ \A i \in DOMAIN memos : memos[i].num \in 1..(MmWidth - 1)
  <2>1. memos \in Seq(MemoRecords)
    BY DEF MmUp
  <2>2. \A i \in DOMAIN memos : memos[i] \in MemoRecords
    BY <2>1
  <2>3. \A i \in DOMAIN memos : memos[i].num \in 1..(MmWidth - 1)
    BY <2>2, MmRecord
  <2>4. Len(memos) \in Nat /\ DOMAIN memos = 1..Len(memos)
    BY <2>1
  <2>. QED
    BY <2>1, <2>3, <2>4
<1>2. Numbered(memos, s) = IF num < 1 THEN Renumbered(all) ELSE all
  BY DEF Numbered
<1>3. CASE memos = << >>
  <2>1. num = 1 /\ num \in 1..(MmWidth - 1)
    BY <1>3, MmWidthAssumption
  <2>2. e \in MemoRecords
    BY <2>1 DEF MemoRecords
  <2> HIDE DEF num, e
  <2>3. all \in Seq(MemoRecords) /\ Len(all) = 1
    BY <1>3, <2>2
  <2>4. MmUp(all)
    BY <2>3 DEF MmUp
  <2>. QED
    BY <1>2, <1>3, <2>1, <2>3, <2>4
<1>4. CASE memos # << >>
  <2>1. Len(memos) \in DOMAIN memos /\ Last(memos) = memos[Len(memos)]
    BY <1>1, <1>4 DEF Last
  <2>2. Last(memos).num \in 1..(MmWidth - 1)
    BY <1>1, <2>1
  <2>3. last \in Nat /\ last <= MmWidth /\ last >= 1 /\ num = last % MmWidth
    BY <1>4, <2>2, MmWidthAssumption
  <2>4. CASE last < MmWidth
    <3>1. num = last
      BY <2>3, <2>4, MmWidthAssumption
    <3>2. num \in 1..(MmWidth - 1)
      BY <2>3, <2>4, <3>1, MmWidthAssumption
    <3>3. e \in MemoRecords /\ e.num = num
      BY <3>2 DEF MemoRecords
    <3>4. \A i \in DOMAIN memos : memos[i].num < num
      <4> SUFFICES ASSUME NEW i \in DOMAIN memos PROVE memos[i].num < num
        OBVIOUS
      <4>1. memos[i].num <= Last(memos).num
        <5>1. CASE i = Len(memos)
          BY <1>1, <2>1, <5>1
        <5>2. CASE i # Len(memos)
          <6>1. i < Len(memos)
            BY <1>1, <5>2
          <6>2. memos[i].num < memos[Len(memos)].num
            BY <2>1, <6>1 DEF MmUp
          <6>. QED
            BY <1>1, <2>1, <6>2, MmWidthAssumption
        <5>. QED
          BY <5>1, <5>2
      <4>. QED
        BY <1>1, <2>2, <3>1, <4>1, MmWidthAssumption
    <3> HIDE DEF num, e
    <3>5. /\ all \in Seq(MemoRecords) /\ DOMAIN all = DOMAIN memos \cup {Len(memos) + 1}
          /\ \A j \in DOMAIN all : all[j] = IF j = Len(memos) + 1 THEN e ELSE memos[j]
      BY <1>1, <3>3, EntryAdded
    <3>6. Len(all) = Len(memos) + 1
      BY <1>1
    <3> HIDE DEF all
    <3>7. ASSUME NEW i \in DOMAIN all, NEW j \in DOMAIN all, i < j PROVE all[i].num < all[j].num
      <4>1. i \in DOMAIN memos /\ i # Len(memos) + 1
        BY <1>1, <3>5, <3>7
      <4>2. CASE j = Len(memos) + 1
        BY <3>3, <3>4, <3>5, <4>1, <4>2
      <4>3. CASE j \in DOMAIN memos
        BY <1>1, <3>5, <3>7, <4>1, <4>3 DEF MmUp
      <4>. QED
        BY <3>5, <4>2, <4>3
    <3>8. ~(num < 1)
      BY <3>2
    <3>. QED
      BY <1>2, <3>5, <3>6, <3>7, <3>8 DEF MmUp
  <2>5. CASE last = MmWidth
    <3>1. num = 0
      BY <2>3, <2>5, MmWidthAssumption
    <3>2. MmUp(Renumbered(all)) /\ Len(Renumbered(all)) = Len(memos) + 1
      <4> DEFINE t == [i \in DOMAIN all |-> [all[i] EXCEPT !.num = i]]
      <4>1. all \in Seq(MemoRecords \cup {e}) /\ Len(all) = Len(memos) + 1
            /\ \A j \in 1..(Len(memos) + 1) : all[j] \in MemoRecords \cup {e}
        BY <1>1
      <4>2. \A k \in 1..(MmWidth - 1) : [e EXCEPT !.num = k] \in MemoRecords /\ [e EXCEPT !.num = k].num = k
        BY DEF MemoRecords
      <4> HIDE DEF e, num
      <4>3. DOMAIN all = 1..(Len(memos) + 1)
        BY <4>1
      <4> HIDE DEF all
      <4>4. \A j \in 1..(Len(memos) + 1) : j \in 1..(MmWidth - 1)
        BY <1>1, MmWidthAssumption
      <4>5. \A j \in 1..(Len(memos) + 1) :
               [all[j] EXCEPT !.num = j] \in MemoRecords /\ [all[j] EXCEPT !.num = j].num = j
        BY <4>1, <4>2, <4>4, MmRecord
      <4>6. t \in Seq(MemoRecords) /\ Len(t) = Len(memos) + 1 /\ DOMAIN t = 1..(Len(memos) + 1)
        BY <1>1, <4>3, <4>5
      <4>7. \A j \in 1..(Len(memos) + 1) : t[j].num = j
        BY <4>3, <4>5
      <4>8. t = Renumbered(all)
        BY DEF Renumbered
      <4> HIDE DEF t
      <4>9. MmUp(t)
        BY <1>1, <4>6, <4>7 DEF MmUp
      <4>. QED
        BY <4>6, <4>8, <4>9
    <3>. QED
      BY <1>2, <3>1, <3>2
  <2>. QED
    BY <2>3, <2>4, <2>5, MmWidthAssumption
<1>. QED
  BY <1>3, <1>4

LEMMA MmReads ==
  ASSUME MmInv, NEW D, D \subseteq DOMAIN mmMemos, ReadAll(D)
  PROVE  MmInv'
<1>1. MmUp(mmMemos) /\ DOMAIN mmMemos = 1..Len(mmMemos) /\ Len(mmMemos) \in Nat
  BY DEF MmInv, MmUp
<1>2. IsFiniteSet(1..Len(mmMemos))
  BY <1>1, FS_Interval
<1>3. IsFiniteSet(D)
  BY <1>1, <1>2, FS_Subset
<1>4. SetToSeq(D) \in Seq(D)
  BY <1>3, SetToSeqLists
<1> DEFINE s == SetToSeq(D)
<1> HIDE DEF s
<1>5. s \in Seq(DOMAIN mmMemos)
  BY <1>4 DEF s
<1>6. mmMemos' = FoldLeft(ReadMemo, mmMemos, s)
  BY DEF ReadAll, s
<1>7. MmUp(mmMemos') /\ Len(mmMemos') = Len(mmMemos)
  BY <1>1, <1>5, <1>6, MmReadMany
<1>. QED
  BY <1>7 DEF MmInv

LEMMA MmDeletes ==
  ASSUME MmInv, NEW memos \in Seq(MemoRecords), Len(memos) <= Len(mmMemos), Deleted(memos)
  PROVE  MmInv'
<1>1. Len(memos) <= MmMaxMemos
  BY MmWidthAssumption DEF MmInv, MmUp
<1>2. MmUp(Renumbered(memos)) /\ Len(Renumbered(memos)) = Len(memos)
  BY <1>1, MmRenumbered
<1>3. mmMemos' = Renumbered(memos)
  BY DEF Deleted
<1>. QED
  BY <1>1, <1>2, <1>3 DEF MmInv

LEMMA MmSteps == MmInv /\ [MemosNext]_mmVars => MmInv'
<1> SUFFICES ASSUME MmInv, [MemosNext]_mmVars PROVE MmInv'
  OBVIOUS
<1>0. /\ MmUp(mmMemos) /\ mmMemos \in Seq(MemoRecords) /\ Len(mmMemos) \in Nat
      /\ Len(mmMemos) <= MmMaxMemos /\ MmMaxMemos \in Nat /\ DOMAIN mmMemos = 1..Len(mmMemos)
  BY MmWidthAssumption DEF MmInv, MmUp
<1>a. ASSUME UNCHANGED mmMemos PROVE MmInv'
  BY <1>a DEF MmInv
<1>1. ASSUME NEW s \in MmSender, NEW delay, MemoSend(s, delay) PROVE MmInv'
  <2>1. CASE mmMemos' = mmMemos
    BY <1>a, <2>1
  <2>2. CASE mmMemos' # mmMemos
    <3>1. mmMemos' = Numbered(mmMemos, s) /\ Len(mmMemos) < MmMaxMemos
      BY <1>1, <2>2 DEF MemoSend
    <3>2. MmUp(mmMemos') /\ Len(mmMemos') = Len(mmMemos) + 1
      BY <1>0, <3>1, MmNumbered
    <3>. QED
      BY <1>0, <3>1, <3>2 DEF MmInv
  <2>. QED
    BY <2>1, <2>2
<1>2. ASSUME NEW s \in MmSender, MmDelayOver(s) PROVE MmInv'
  BY <1>a, <1>2 DEF MmDelayOver
<1>3. ASSUME NEW s \in MmSender, Cancel(s) PROVE MmInv'
  <2>1. PICK num : mmMemos' = Delmemo(mmMemos, num)
    BY <1>3 DEF Cancel
  <2>2. MmUp(mmMemos') /\ Len(mmMemos') <= Len(mmMemos)
    BY <1>0, <2>1, MmDeleted
  <2>3. Len(mmMemos') \in Nat
    BY <2>2 DEF MmUp
  <2>. QED
    BY <1>0, <2>2, <2>3 DEF MmInv
<1>4. ASSUME NEW numbers, ReadNumbers(numbers) PROVE MmInv'
  BY <1>4, MmReads DEF ReadNumbers
<1>5. CASE ReadNew
  BY <1>5, MmReads DEF ReadNew
<1>6. CASE ReadLast
  <2>1. {Len(mmMemos)} \cap DOMAIN mmMemos \subseteq DOMAIN mmMemos
    OBVIOUS
  <2>. QED
    BY <1>6, <2>1, MmReads DEF ReadLast
<1>7. ASSUME NEW numbers \in {{1}, {2}, {1, 3}}, DelNumbers(numbers) PROVE MmInv'
  <2>1. IsFiniteSet(numbers)
    <3>1. IsFiniteSet({1}) /\ IsFiniteSet({2}) /\ IsFiniteSet({3})
      BY FS_Singleton
    <3>2. IsFiniteSet({1} \cup {3}) /\ {1} \cup {3} = {1, 3}
      BY <3>1, FS_Union
    <3>. QED
      BY <3>1, <3>2
  <2>2. SetToSeq(numbers) \in Seq(numbers)
    BY <2>1, SetToSeqLists
  <2> DEFINE memos == FoldLeft(Delmemo, mmMemos, SetToSeq(numbers))
  <2>3. memos \in Seq(MemoRecords) /\ Len(memos) <= Len(mmMemos)
    BY <1>0, <2>2, MmDelMany
  <2>4. Deleted(memos)
    BY <1>7 DEF DelNumbers
  <2>. QED
    BY <2>3, <2>4, MmDeletes
<1>8. CASE DelLast
  <2> DEFINE memos == Delmemo(mmMemos, Last(mmMemos).num)
  <2>1. memos \in Seq(MemoRecords) /\ Len(memos) <= Len(mmMemos)
    BY <1>0, MmDeleted DEF MmUp
  <2>2. Deleted(memos)
    BY <1>8 DEF DelLast
  <2>. QED
    BY <2>1, <2>2, MmDeletes
<1>9. CASE DelAll
  <2>1. << >> \in Seq(MemoRecords) /\ Len(<< >>) <= Len(mmMemos)
    BY <1>0
  <2>2. Deleted(<< >>)
    BY <1>9 DEF DelAll
  <2>. QED
    BY <2>1, <2>2, MmDeletes
<1>10. ASSUME NEW x, SetNotify(x) \/ SetLimit(x) \/ \E hard \in BOOLEAN : AdminSetLimit(x, hard)
       PROVE  MmInv'
  BY <1>a, <1>10 DEF SetNotify, SetLimit, AdminSetLimit
<1>11. CASE UNCHANGED mmVars
  BY <1>a, <1>11 DEF mmVars
<1>12. ASSUME NEW s \in MmSender, MmSend(s) \/ MmStaff(s) \/ MmSendall(s) PROVE MmInv'
  BY <1>1, <1>12 DEF MmSend, MmStaff, MmSendall
<1>. QED
  BY <1>2, <1>3, <1>4, <1>5, <1>6, <1>7, <1>8, <1>9, <1>10, <1>11, <1>12 DEF MemosNext

LEMMA MmStarts == MemosInit => MmInv
BY MmWidthAssumption DEF MemosInit, MmInv, MmUp

LEMMA MmOnce == MmInv => NumbersGoUp
<1> SUFFICES ASSUME MmInv PROVE NumbersGoUp
  OBVIOUS
<1>1. ASSUME NEW i \in DOMAIN mmMemos PROVE mmMemos[i].num >= 1
  <2>1. mmMemos[i] \in MemoRecords
    BY DEF MmInv, MmUp
  <2>2. mmMemos[i].num \in 1..(MmWidth - 1)
    BY <2>1, MmRecord
  <2>. QED
    BY <2>2, MmWidthAssumption
<1>. QED
  BY <1>1 DEF NumbersGoUp, MmInv, MmUp

-----------------------------------------------------------------------------
(* The numbers of news (News).                                             *)

\* The last of some places of a list.
LEMMA GreatestPlace ==
  ASSUME NEW n \in Nat, NEW D, D \subseteq 1..n, D # {}
  PROVE  LET k == CHOOSE i \in D : \A j \in D : j <= i
         IN  k \in D /\ \A j \in D : j <= k
<1> DEFINE gaps == {n - x : x \in D}
<1>1. \A x \in D : x \in Nat /\ x <= n /\ n - x \in Nat
  OBVIOUS
<1>2. gaps \subseteq Nat /\ gaps # {}
  BY <1>1
<1>3. PICK m \in gaps : \A j \in gaps : m <= j
  BY <1>2, LeastNat
<1>4. PICK y \in D : m = n - y
  BY <1>3
<1>5. \A x \in D : x <= y
  <2> SUFFICES ASSUME NEW x \in D PROVE x <= y
    OBVIOUS
  <2>1. n - x \in gaps /\ m <= n - x
    BY <1>3
  <2>. QED
    BY <1>1, <1>4, <2>1
<1>. QED
  BY <1>5

\* The numbers of a type go up along the list.
NwUp(news) ==
    /\ news \in Seq(NewsItems)
    /\ \A i \in DOMAIN news : news[i].num >= 1
    /\ \A i, j \in DOMAIN news : i < j /\ news[i].type = news[j].type => news[i].num < news[j].num

NwInv == NwUp(nwNews)

LEMMA NwItem ==
  ASSUME NEW e \in NewsItems
  PROVE  /\ e.type \in NewsTypes /\ e.num \in Nat
         /\ \A k \in Nat : [e EXCEPT !.num = k] \in NewsItems /\ [e EXCEPT !.num = k].num = k
BY DEF NewsItems

LEMMA NwItems ==
  ASSUME NEW news \in Seq(NewsItems)
  PROVE  /\ DOMAIN news = 1..Len(news) /\ Len(news) \in Nat
         /\ \A i \in DOMAIN news : news[i] \in NewsItems /\ news[i].num \in Nat
<1>1. \A i \in DOMAIN news : news[i] \in NewsItems
  OBVIOUS
<1>2. \A i \in DOMAIN news : news[i].num \in Nat
  BY <1>1, NwItem
<1>. QED
  BY <1>1, <1>2

\* An item behind the list whose number is higher than those of its type.
LEMMA NwMore ==
  ASSUME NEW news, NwUp(news), NEW e \in NewsItems, e.num >= 1,
         \A i \in DOMAIN news : news[i].type = e.type => news[i].num < e.num
  PROVE  NwUp(Append(news, e)) /\ Len(Append(news, e)) = Len(news) + 1
<1> DEFINE t == Append(news, e)
<1>1. news \in Seq(NewsItems) /\ Len(news) \in Nat /\ DOMAIN news = 1..Len(news)
  BY NwItems DEF NwUp
<1>2. /\ t \in Seq(NewsItems) /\ DOMAIN t = DOMAIN news \cup {Len(news) + 1}
      /\ \A j \in DOMAIN t : t[j] = IF j = Len(news) + 1 THEN e ELSE news[j]
  BY <1>1, EntryAdded
<1>3. Len(t) = Len(news) + 1
  BY <1>1
<1> HIDE DEF t
<1>4. ASSUME NEW i \in DOMAIN t, NEW j \in DOMAIN t, i < j, t[i].type = t[j].type
      PROVE  t[i].num < t[j].num
  <2>1. i \in DOMAIN news /\ i # Len(news) + 1
    BY <1>1, <1>2, <1>4
  <2>2. CASE j = Len(news) + 1
    BY <1>2, <1>4, <2>1, <2>2
  <2>3. CASE j \in DOMAIN news
    BY <1>1, <1>2, <1>4, <2>1, <2>3 DEF NwUp
  <2>. QED
    BY <1>2, <2>2, <2>3
<1>5. ASSUME NEW i \in DOMAIN t PROVE t[i].num >= 1
  BY <1>2 DEF NwUp
<1>. QED
  BY <1>2, <1>3, <1>4, <1>5 DEF NwUp

LEMMA NwTurns ==
  ASSUME nwNews \in Seq(NewsItems), NEW num, NEW type
  PROVE  \E f : /\ Turns([fold |-> "news", list |-> nwNews, num |-> num, type |-> type], << >>, Len(nwNews), f)
                /\ DelNewsitem(num, type) = f[Len(nwNews)]
<1> DEFINE s == nwNews
           a == [fold |-> "news", list |-> s, num |-> num, type |-> type]
           it == CHOOSE g : g = [t \in SUBSET DOMAIN s |->
                     IF t = {} THEN << >> ELSE NwKeep(g[t \ {Max(t)}], s[Max(t)], num, type)]
<1>1. DelNewsitem(num, type) = it[DOMAIN s]
  BY Zenon DEF DelNewsitem, NwKeep, FoldLeft, MapThenFoldSet
<1>2. DOMAIN s = 1..Len(s) /\ Len(s) \in Nat
  BY NwItems
<1>3. \A w, i : Turn(a, w, i) = NwKeep(w, s[i], num, type)
  BY DEF Turn
<1> HIDE DEF a
<1>4. PICK g : IsFold(a, << >>, 1..Len(s), g)
  BY <1>2, FoldExists
<1>5. g = [t \in SUBSET DOMAIN s |->
             IF t = {} THEN << >> ELSE NwKeep(g[t \ {Max(t)}], s[Max(t)], num, type)]
  BY <1>2, <1>3, <1>4 DEF IsFold
<1>6. it = [t \in SUBSET DOMAIN s |->
              IF t = {} THEN << >> ELSE NwKeep(it[t \ {Max(t)}], s[Max(t)], num, type)]
  BY <1>5
<1> HIDE DEF it
<1>7. IsFold(a, << >>, 1..Len(s), it)
  BY <1>2, <1>3, <1>6 DEF IsFold
<1>8. \E f : Turns(a, << >>, Len(s), f) /\ f[Len(s)] = it[1..Len(s)]
  BY <1>2, <1>7, FoldTurns
<1>. QED
  BY <1>1, <1>2, <1>8 DEF a

\* What is left is of the list, in its order, and as long as it must be.
LEMMA NwLeft ==
  ASSUME NwInv, NEW num, NEW type
  PROVE  /\ NwUp(DelNewsitem(num, type)) /\ Len(DelNewsitem(num, type)) <= Len(nwNews)
         /\ \A p \in DOMAIN nwNews :
               (\A i \in DOMAIN nwNews : NewsGoes(nwNews[i], num, type) <=> i = p) =>
                  Len(DelNewsitem(num, type)) = Len(nwNews) - 1
<1> DEFINE n == Len(nwNews)
           a == [fold |-> "news", list |-> nwNews, num |-> num, type |-> type]
<1>0. nwNews \in Seq(NewsItems) /\ n \in Nat /\ DOMAIN nwNews = 1..n
      /\ \A i \in 1..n : nwNews[i] \in NewsItems /\ nwNews[i].num \in Nat
  BY NwItems DEF NwInv, NwUp
<1>1. PICK f : Turns(a, << >>, n, f) /\ f[n] = DelNewsitem(num, type)
  BY <1>0, NwTurns
<1>2. \A w, i : Turn(a, w, i) = IF NewsGoes(nwNews[i], num, type) THEN w ELSE Append(w, nwNews[i])
  BY DEF Turn, NwKeep
<1> DEFINE Only(p) == \A i \in 1..n : NewsGoes(nwNews[i], num, type) <=> i = p
           Good(k) == /\ NwUp(f[k]) /\ Len(f[k]) <= k
                      /\ \A j \in DOMAIN f[k] : \E i \in 1..k : f[k][j] = nwNews[i]
                      /\ \A p \in 1..n : Only(p) => Len(f[k]) = IF k < p THEN k ELSE k - 1
           S == {k \in Nat : k <= n => Good(k)}
<1> HIDE DEF a, n
<1>3. 0 \in S
  <2>1. f[0] = << >>
    BY <1>1 DEF Turns
  <2>2. NwUp(<< >>) /\ Len(<< >>) = 0 /\ DOMAIN << >> = {}
    BY DEF NwUp
  <2>3. \A p \in 1..n : 0 < p
    BY <1>0
  <2> HIDE DEF Only
  <2>4. Good(0)
    BY <2>1, <2>2, <2>3
  <2>. QED
    BY <2>4
<1>4. ASSUME NEW k \in Nat, k \in S PROVE k + 1 \in S
  <2> HIDE DEF Good
  <2> SUFFICES ASSUME k + 1 <= n PROVE Good(k + 1)
    OBVIOUS
  <2>0. Good(k) /\ k < n /\ k + 1 \in 1..n
    BY <1>0, <1>4
  <2> USE DEF Good
  <2>1. f[k + 1] = IF NewsGoes(nwNews[k + 1], num, type) THEN f[k] ELSE Append(f[k], nwNews[k + 1])
    BY <1>1, <1>2, <2>0 DEF Turns
  <2> DEFINE w == f[k]
             e == nwNews[k + 1]
  <2>2. /\ NwUp(w) /\ Len(w) \in Nat /\ Len(w) <= k /\ w \in Seq(NewsItems)
        /\ \A j \in DOMAIN w : \E i \in 1..k : w[j] = nwNews[i]
    BY <2>0, NwItems DEF NwUp
  <2>3. \A p \in 1..n : Only(p) => Len(w) = IF k < p THEN k ELSE k - 1
    BY <2>0
  <2> HIDE DEF w, e
  <2>4. CASE NewsGoes(nwNews[k + 1], num, type)
    <3>1. f[k + 1] = w
      BY <2>1, <2>4 DEF w
    <3>2. \A p \in 1..n : Only(p) => p = k + 1
      BY <2>0, <2>4
    <3>3. \A p \in 1..n : Only(p) => Len(w) = k
      BY <2>3, <3>2
    <3>4. \A p \in 1..n : Only(p) => Len(w) = IF k + 1 < p THEN k + 1 ELSE k + 1 - 1
      BY <3>2, <3>3
    <3>5. 1..k \subseteq 1..(k + 1)
      OBVIOUS
    <3>. QED
      BY <2>2, <3>1, <3>4, <3>5
  <2>5. CASE ~NewsGoes(nwNews[k + 1], num, type)
    <3>1. f[k + 1] = Append(w, e)
      BY <2>1, <2>5 DEF w, e
    <3>2. e \in NewsItems /\ e.num >= 1
      BY <1>0, <2>0 DEF e, NwInv, NwUp
    <3>3. \A j \in DOMAIN w : w[j].type = e.type => w[j].num < e.num
      <4> SUFFICES ASSUME NEW j \in DOMAIN w, w[j].type = e.type PROVE w[j].num < e.num
        OBVIOUS
      <4>1. PICK i \in 1..k : w[j] = nwNews[i]
        BY <2>2
      <4>2. i \in 1..n /\ i < k + 1
        BY <1>0, <2>0
      <4>. QED
        BY <1>0, <2>0, <4>1, <4>2 DEF NwInv, NwUp, e
    <3>4. NwUp(Append(w, e)) /\ Len(Append(w, e)) = Len(w) + 1
      BY <2>2, <3>2, <3>3, NwMore
    <3>5. \A j \in DOMAIN Append(w, e) : \E i \in 1..(k + 1) : Append(w, e)[j] = nwNews[i]
      <4> SUFFICES ASSUME NEW j \in DOMAIN Append(w, e)
                   PROVE  \E i \in 1..(k + 1) : Append(w, e)[j] = nwNews[i]
        OBVIOUS
      <4>1. /\ DOMAIN Append(w, e) = DOMAIN w \cup {Len(w) + 1}
            /\ Append(w, e)[j] = IF j = Len(w) + 1 THEN e ELSE w[j]
        BY <2>2, <3>2, EntryAdded
      <4>2. CASE j = Len(w) + 1
        BY <4>1, <4>2 DEF e
      <4>3. CASE j \in DOMAIN w /\ j # Len(w) + 1
        <5>1. PICK i \in 1..k : w[j] = nwNews[i]
          BY <2>2, <4>3
        <5>2. i \in 1..(k + 1)
          OBVIOUS
        <5>. QED
          BY <4>1, <4>3, <5>1, <5>2
      <4>. QED
        BY <4>1, <4>2, <4>3
    <3>6. \A p \in 1..n : Only(p) => p # k + 1
      BY <2>0, <2>5
    <3>7. \A p \in 1..n : Only(p) => Len(w) + 1 = IF k + 1 < p THEN k + 1 ELSE k + 1 - 1
      <4> HIDE DEF Only
      <4> SUFFICES ASSUME NEW p \in 1..n, Only(p)
                   PROVE  Len(w) + 1 = IF k + 1 < p THEN k + 1 ELSE k + 1 - 1
        OBVIOUS
      <4>1. Len(w) = IF k < p THEN k ELSE k - 1
        BY <2>3
      <4>2. p # k + 1
        BY <3>6
      <4>3. p \in Nat
        BY <1>0
      <4>. QED
        BY <4>1, <4>2, <4>3
    <3> HIDE DEF Only
    <3>. QED
      BY <2>2, <3>1, <3>4, <3>5, <3>7
  <2>. QED
    BY <2>4, <2>5
<1> HIDE DEF S
<1>5. n \in S
  BY <1>0, <1>3, <1>4, NatInd
<1> USE DEF S
<1>6. Good(n)
  BY <1>0, <1>5
<1>7. /\ NwUp(f[n]) /\ Len(f[n]) <= n
      /\ \A p \in 1..n : Only(p) => Len(f[n]) = IF n < p THEN n ELSE n - 1
  BY <1>6
<1>8. ASSUME NEW p \in 1..n, Only(p) PROVE Len(f[n]) = n - 1
  <2>1. ~(n < p)
    BY <1>0
  <2> HIDE DEF Only
  <2>. QED
    BY <1>7, <1>8, <2>1
<1>9. /\ NwUp(DelNewsitem(num, type)) /\ Len(DelNewsitem(num, type)) <= n
      /\ \A p \in 1..n : Only(p) => Len(DelNewsitem(num, type)) = n - 1
  <2> HIDE DEF Only
  <2>. QED
    BY <1>1, <1>7, <1>8
<1>10. DOMAIN nwNews = 1..n /\ n = Len(nwNews)
  BY <1>0 DEF n
<1>11. \A p \in DOMAIN nwNews : Only(p) => Len(DelNewsitem(num, type)) = Len(nwNews) - 1
  <2> HIDE DEF Only
  <2>. QED
    BY <1>9, <1>10
<1>12. \A p \in DOMAIN nwNews :
          (\A i \in DOMAIN nwNews : NewsGoes(nwNews[i], num, type) <=> i = p) => Only(p)
  BY Zenon, <1>10
<1>13. NwUp(DelNewsitem(num, type)) /\ Len(DelNewsitem(num, type)) <= Len(nwNews)
  BY <1>9, <1>10
<1> HIDE DEF Only
<1>. QED
  BY Zenon, <1>11, <1>12, <1>13

LEMMA NwSteps == NwInv /\ [NewsNext]_nwVars => NwInv'
<1> SUFFICES ASSUME NwInv, [NewsNext]_nwVars PROVE NwInv'
  OBVIOUS
<1>0. /\ nwNews \in Seq(NewsItems) /\ Len(nwNews) \in Nat /\ DOMAIN nwNews = 1..Len(nwNews)
      /\ \A i \in DOMAIN nwNews : nwNews[i] \in NewsItems /\ nwNews[i].num \in Nat
  BY NwItems DEF NwInv, NwUp
<1>1. ASSUME NEW type \in NewsTypes, AddNewsitem(type) PROVE NwInv'
  <2> DEFINE mine == OfType(nwNews, type)
             k == CHOOSE i \in mine : \A j \in mine : j <= i
             num == IF mine = {} THEN 0 ELSE nwNews[k].num
             e == [type |-> type, num |-> num + 1]
  <2>1. nwNews' = Append(nwNews, e)
    BY <1>1 DEF AddNewsitem
  <2>2. mine \subseteq 1..Len(nwNews) /\ \A i \in DOMAIN nwNews : nwNews[i].type = type <=> i \in mine
    BY <1>0 DEF OfType
  <2> HIDE DEF mine
  <2>3. mine # {} => k \in mine /\ \A j \in mine : j <= k
    BY <1>0, <2>2, GreatestPlace
  <2>4. num \in Nat /\ \A i \in mine : nwNews[i].num <= num
    <3>1. CASE mine = {}
      BY <3>1
    <3>2. CASE mine # {}
      <4>1. k \in mine /\ k \in DOMAIN nwNews /\ num = nwNews[k].num
        BY <1>0, <2>2, <2>3, <3>2
      <4>2. ASSUME NEW i \in mine PROVE nwNews[i].num <= nwNews[k].num
        <5>1. i <= k /\ i \in DOMAIN nwNews /\ nwNews[i].type = nwNews[k].type
          BY <1>0, <2>2, <2>3, <4>1
        <5>2. CASE i = k
          BY <1>0, <4>1, <5>2
        <5>3. CASE i # k
          <6>1. i < k
            BY <1>0, <4>1, <5>1, <5>3
          <6>2. nwNews[i].num < nwNews[k].num
            BY <4>1, <5>1, <6>1 DEF NwInv, NwUp
          <6>. QED
            BY <1>0, <4>1, <5>1, <6>2
        <5>. QED
          BY <5>2, <5>3
      <4>. QED
        BY <1>0, <4>1, <4>2
    <3>. QED
      BY <3>1, <3>2
  <2> HIDE DEF num
  <2>5. e \in NewsItems /\ e.num = num + 1 /\ e.type = type /\ e.num >= 1
    BY <2>4 DEF NewsItems
  <2> HIDE DEF e
  <2>6. \A i \in DOMAIN nwNews : nwNews[i].type = e.type => nwNews[i].num < e.num
    BY <1>0, <2>2, <2>4, <2>5
  <2>. QED
    BY <2>1, <2>5, <2>6, NwMore DEF NwInv
<1>2. ASSUME NEW type, NEW num, DoNewsDel(num, type) PROVE NwInv'
  <2> DEFINE left == DelNewsitem(num, type)
  <2>1. nwNews' = [i \in DOMAIN left |-> [left[i] EXCEPT !.num = i]]
    BY <1>2 DEF DoNewsDel
  <2>2. left \in Seq(NewsItems) /\ Len(left) \in Nat /\ DOMAIN left = 1..Len(left)
        /\ \A i \in DOMAIN left : left[i] \in NewsItems
    BY NwLeft, NwItems DEF NwUp
  <2> HIDE DEF left
  <2>3. \A i \in DOMAIN left : i \in Nat
    BY <2>2
  <2>4. \A i \in DOMAIN left :
           [left[i] EXCEPT !.num = i] \in NewsItems /\ [left[i] EXCEPT !.num = i].num = i
    BY <2>2, <2>3, NwItem
  <2>5. nwNews' \in Seq(NewsItems) /\ DOMAIN nwNews' = 1..Len(left)
    BY <2>1, <2>2, <2>4
  <2>6. \A i \in 1..Len(left) : nwNews'[i].num = i
    BY <2>1, <2>2, <2>4
  <2>. QED
    BY <2>2, <2>5, <2>6 DEF NwInv, NwUp
<1>3. ASSUME NEW type, DoNewsDelAll(type) PROVE NwInv'
  BY <1>3, NwLeft DEF DoNewsDelAll, NwInv
<1>4. CASE UNCHANGED nwNews
  BY <1>4 DEF NwInv
<1>5. CASE DisplayRandomNews \/ LoadNews \/ UNCHANGED nwVars
  BY <1>4, <1>5 DEF DisplayRandomNews, LoadNews, SaveNews, nwVars
<1>. QED
  BY <1>1, <1>2, <1>3, <1>5 DEF NewsNext

LEMMA NwStarts == NewsInit => NwInv
BY DEF NewsInit, NwInv, NwUp

LEMMA NwOnce == NwInv => DelRemovesOne
<1> SUFFICES ASSUME NwInv, NEW type \in NewsTypes, NEW num \in DoNewsList(type)
             PROVE  Len(DelNewsitem(num, type)) = Len(nwNews) - 1
  BY DEF DelRemovesOne
<1>0. /\ DOMAIN nwNews = 1..Len(nwNews)
      /\ \A i \in DOMAIN nwNews : nwNews[i].num \in Nat
  BY NwItems DEF NwInv, NwUp
<1>1. PICK p \in DOMAIN nwNews : nwNews[p].type = type /\ nwNews[p].num = num
  BY DEF DoNewsList, OfType
<1>2. num # 0 /\ num \in Nat
  BY <1>0, <1>1 DEF NwInv, NwUp
<1>3. ASSUME NEW i \in DOMAIN nwNews, NewsGoes(nwNews[i], num, type) PROVE i = p
  <2>1. nwNews[i].type = type /\ nwNews[i].num = num
    BY <1>2, <1>3 DEF NewsGoes
  <2>2. CASE i < p
    BY <1>0, <1>1, <1>2, <2>1, <2>2 DEF NwInv, NwUp
  <2>3. CASE p < i
    BY <1>0, <1>1, <1>2, <2>1, <2>3 DEF NwInv, NwUp
  <2>. QED
    BY <1>0, <2>2, <2>3
<1>4. NewsGoes(nwNews[p], num, type)
  BY <1>1 DEF NewsGoes
<1>5. \A i \in DOMAIN nwNews : NewsGoes(nwNews[i], num, type) <=> i = p
  <2> SUFFICES ASSUME NEW i \in DOMAIN nwNews PROVE NewsGoes(nwNews[i], num, type) <=> i = p
    OBVIOUS
  <2>1. NewsGoes(nwNews[i], num, type) \in BOOLEAN
    BY DEF NewsGoes
  <2>. QED
    BY <1>3, <1>4, <2>1
<1>. QED
  BY <1>5, NwLeft

-----------------------------------------------------------------------------
(* Pages of an access list (AccessPages).                                  *)

\* The entries that stayed are still in use.  A reader who was told how to go
\* on has been shown those before the next page once and the others not yet;
\* there is a next page only of a list that is longer than a page, and lists do
\* not become shorter.
ApInv ==
    /\ apUsed \in Seq(BOOLEAN) /\ ApCount <= ApMax
    /\ apNext \in Nat /\ apSeen \in [1 .. ApMax -> Nat] /\ apBlank \in BOOLEAN /\ apUp \in BOOLEAN
    /\ apStayed \subseteq 1 .. ApMax
    /\ \A i \in apStayed : i \in DOMAIN apUsed /\ apUsed[i] = TRUE
    /\ apNext > 0 =>
          /\ ApCount > ApPage /\ apNext <= ApCount
          /\ \A i \in apStayed : apSeen[i] = IF i < apNext THEN 1 ELSE 0
    /\ OnlyBlankPagesHide

LEMMA ApFacts ==
  ASSUME ApInv
  PROVE  /\ ApPage \in Nat /\ ApPage > 0 /\ ApMax \in Nat /\ ApCount \in Nat
         /\ DOMAIN apUsed = 1 .. ApCount /\ ApCount <= ApMax
         /\ \A i \in apStayed : i \in 1 .. ApMax /\ i \in 1 .. ApCount /\ apUsed[i] = TRUE
         /\ \A i \in 1 .. ApMax : apSeen[i] \in Nat
BY ApNumbers DEF ApInv, ApCount

\* A list in which no entry that was in use changes and that is not shorter.
LEMMA ApLonger ==
  ASSUME ApInv, UNCHANGED <<apNext, apSeen, apStayed, apBlank, apUp>>,
         apUsed' \in Seq(BOOLEAN), ApCount <= ApCount', ApCount' <= ApMax,
         \A i \in apStayed : apUsed'[i] = TRUE
  PROVE  ApInv'
<1>1. ApCount' \in Nat /\ DOMAIN apUsed' = 1 .. ApCount'
  BY DEF ApCount
<1>2. ApCount \in Nat /\ \A i \in apStayed : i \in 1 .. ApCount
  BY ApFacts
<1>3. \A i \in apStayed : i \in DOMAIN apUsed'
  BY <1>1, <1>2
<1>4. /\ apNext \in Nat /\ apSeen \in [1 .. ApMax -> Nat] /\ apBlank \in BOOLEAN /\ apUp \in BOOLEAN
      /\ apStayed \subseteq 1 .. ApMax
  BY DEF ApInv
<1>5. apNext > 0 =>
         /\ ApCount' > ApPage /\ apNext <= ApCount'
         /\ \A i \in apStayed : apSeen[i] = IF i < apNext THEN 1 ELSE 0
  BY <1>1, <1>2, ApNumbers DEF ApInv
<1>6. OnlyBlankPagesHide'
  BY DEF ApInv, OnlyBlankPagesHide
<1>. QED
  BY <1>3, <1>4, <1>5, <1>6 DEF ApInv

\* What a page does to what was seen: entries before the page as they were.
LEMMA ApPages ==
  ASSUME ApInv, NEW k \in Nat, k <= ApCount, Page(k), UNCHANGED apUsed,
         k > 0 => ApCount > ApPage,
         apStayed' \subseteq {i \in DOMAIN apUsed : apUsed[i]},
         k > 0 => \A i \in apStayed' : apSeen[i] = IF i < k + 1 THEN 1 ELSE 0
  PROVE  ApInv'
<1> DEFINE end == PageEnd(k)
<1>0. /\ ApPage \in Nat /\ ApPage > 0 /\ ApMax \in Nat /\ ApCount \in Nat
      /\ DOMAIN apUsed = 1 .. ApCount /\ ApCount <= ApMax
      /\ \A i \in 1 .. ApMax : apSeen[i] \in Nat
  BY ApFacts
<1>1. end \in Nat /\ end >= k /\ end = IF ApCount > ApPage THEN k + ApPage ELSE ApCount
  BY <1>0 DEF PageEnd
<1>2. ApCount' = ApCount
  BY DEF ApCount
<1>3. \A i \in apStayed' : i \in 1 .. ApCount /\ i \in 1 .. ApMax /\ i \in Nat /\ apUsed[i] = TRUE
  <2>1. \A i \in apStayed' : i \in DOMAIN apUsed /\ apUsed[i]
    OBVIOUS
  <2>2. \A i \in DOMAIN apUsed : apUsed[i] \in BOOLEAN
    BY DEF ApInv
  <2>. QED
    BY <1>0, <2>1, <2>2
<1>4. /\ apSeen' = [i \in 1 .. ApMax |->
             (IF k = 0 THEN 0 ELSE apSeen[i]) + (IF i \in Shown(k) THEN 1 ELSE 0)]
      /\ apNext' = IF Shown(k) # {} /\ end < ApCount THEN end + 1 ELSE 0
      /\ apBlank' = (Shown(k) = {} \/ (k > 0 /\ apBlank))
      /\ apUp' \in BOOLEAN
  BY DEF Page
<1>5. \A i \in apStayed' : i \in Shown(k) <=> k < i /\ i <= end
  <2> SUFFICES ASSUME NEW i \in apStayed' PROVE i \in Shown(k) <=> k < i /\ i <= end
    OBVIOUS
  <2>1. i \in Nat /\ i \in DOMAIN apUsed /\ apUsed[i] = TRUE
    BY <1>0, <1>3
  <2>2. i \in k + 1 .. end <=> k < i /\ i <= end
    BY <1>1, <2>1
  <2> HIDE DEF end
  <2>3. i \in Shown(k) <=> i \in k + 1 .. end
    BY <2>1 DEF Shown, end
  <2>. QED
    BY <2>2, <2>3
<1> HIDE DEF end
<1>6. \A i \in apStayed' : apSeen'[i] = IF i <= end THEN 1 ELSE 0
  <2> SUFFICES ASSUME NEW i \in apStayed' PROVE apSeen'[i] = IF i <= end THEN 1 ELSE 0
    OBVIOUS
  <2>1. apSeen'[i] = (IF k = 0 THEN 0 ELSE apSeen[i]) + (IF k < i /\ i <= end THEN 1 ELSE 0)
    BY <1>3, <1>4, <1>5
  <2>2. i \in Nat /\ i > 0
    BY <1>3
  <2>3. CASE k = 0
    BY <1>1, <2>1, <2>2, <2>3
  <2>4. CASE k > 0
    <3>1. apSeen[i] = IF i < k + 1 THEN 1 ELSE 0
      BY <2>4
    <3>. QED
      BY <1>1, <2>1, <2>2, <2>4, <3>1
  <2>. QED
    BY <2>3, <2>4
<1>7. apSeen' \in [1 .. ApMax -> Nat]
  <2>1. \A i \in 1 .. ApMax :
           (IF k = 0 THEN 0 ELSE apSeen[i]) + (IF i \in Shown(k) THEN 1 ELSE 0) \in Nat
    BY <1>0
  <2>. QED
    BY <1>4, <2>1
<1>8. apNext' \in Nat /\ apBlank' \in BOOLEAN
  BY <1>1, <1>4
<1>9. ASSUME apNext' > 0
      PROVE  /\ ApCount > ApPage /\ apNext' <= ApCount
             /\ \A i \in apStayed' : apSeen'[i] = IF i < apNext' THEN 1 ELSE 0
  <2>1. end < ApCount /\ apNext' = end + 1
    BY <1>4, <1>9
  <2>2. ApCount > ApPage
    BY <1>0, <1>1, <2>1
  <2>3. \A i \in apStayed' : i < apNext' <=> i <= end
    BY <1>1, <1>3, <2>1
  <2>. QED
    BY <1>0, <1>1, <1>6, <2>1, <2>2, <2>3
<1>10. ASSUME apNext' = 0, ~apBlank' PROVE \A i \in apStayed' : apSeen'[i] = 1
  <2>1. Shown(k) # {}
    BY Zenon, <1>4, <1>10
  <2>2. end + 1 # 0
    BY <1>1
  <2>3. ~(end < ApCount)
    BY <1>4, <1>10, <2>1, <2>2
  <2>4. \A i \in apStayed' : i <= end
    BY <1>0, <1>1, <1>3, <2>3
  <2>. QED
    BY <1>6, <2>4
<1>. QED
  BY <1>0, <1>2, <1>3, <1>4, <1>7, <1>8, <1>9, <1>10 DEF ApInv, OnlyBlankPagesHide

LEMMA ApSteps == ApInv /\ [AccessPagesNext]_apVars => ApInv'
<1> SUFFICES ASSUME ApInv, [AccessPagesNext]_apVars PROVE ApInv'
  OBVIOUS
<1>0. /\ ApPage \in Nat /\ ApPage > 0 /\ ApMax \in Nat /\ ApCount \in Nat
      /\ DOMAIN apUsed = 1 .. ApCount /\ ApCount <= ApMax /\ apUsed \in Seq(BOOLEAN)
      /\ \A i \in apStayed : i \in 1 .. ApMax /\ i \in 1 .. ApCount /\ apUsed[i] = TRUE
  BY ApFacts DEF ApInv
<1>1. CASE ApAddUser
  <2> DEFINE free == {i \in DOMAIN apUsed : ~apUsed[i]}
             j == CHOOSE i \in free : \A l \in free : i <= l
  <2>1. CASE free # {}
    <3>1. free \subseteq Nat /\ free \subseteq DOMAIN apUsed
      BY <1>0
    <3> HIDE DEF free
    <3>2. j \in DOMAIN apUsed
      BY <2>1, <3>1, LeastPlace
    <3> USE DEF free
    <3>3. apUsed' = [apUsed EXCEPT ![j] = TRUE]
      BY <1>1, <2>1 DEF ApAddUser
    <3> HIDE DEF j
    <3>4. /\ apUsed' \in Seq(BOOLEAN) /\ DOMAIN apUsed' = DOMAIN apUsed
          /\ \A i \in DOMAIN apUsed : apUsed'[i] = IF i = j THEN TRUE ELSE apUsed[i]
      BY <1>0, <3>2, <3>3, EntrySet
    <3>5. Len(apUsed') = Len(apUsed)
      BY <1>0, <3>4
    <3>6. \A i \in apStayed : apUsed'[i] = TRUE
      BY <1>0, <3>4
    <3>7. ApCount <= ApCount' /\ ApCount' <= ApMax
      BY <1>0, <3>5 DEF ApCount
    <3>8. UNCHANGED <<apNext, apSeen, apStayed, apBlank, apUp>>
      BY <1>1 DEF ApAddUser
    <3>. QED
      BY <3>4, <3>6, <3>7, <3>8, ApLonger
  <2>2. CASE free = {}
    <3>1. ApCount < ApMax /\ apUsed' = Append(apUsed, TRUE)
      BY <1>1, <2>2 DEF ApAddUser
    <3>2. /\ apUsed' \in Seq(BOOLEAN) /\ DOMAIN apUsed' = DOMAIN apUsed \cup {Len(apUsed) + 1}
          /\ \A i \in DOMAIN apUsed' : apUsed'[i] = IF i = Len(apUsed) + 1 THEN TRUE ELSE apUsed[i]
      <4>1. ASSUME NEW f \in BOOLEAN
            PROVE  /\ Append(apUsed, f) \in Seq(BOOLEAN)
                   /\ DOMAIN Append(apUsed, f) = DOMAIN apUsed \cup {Len(apUsed) + 1}
                   /\ \A i \in DOMAIN Append(apUsed, f) :
                         Append(apUsed, f)[i] = IF i = Len(apUsed) + 1 THEN f ELSE apUsed[i]
        BY <1>0, EntryAdded
      <4>2. TRUE \in BOOLEAN
        OBVIOUS
      <4>. QED
        BY <3>1, <4>1, <4>2, Zenon
    <3>3. Len(apUsed') = Len(apUsed) + 1
      BY <1>0, <3>1
    <3>4. \A i \in apStayed : apUsed'[i] = TRUE
      BY <1>0, <3>2
    <3>5. ApCount <= ApCount' /\ ApCount' <= ApMax
      BY <1>0, <3>1, <3>3 DEF ApCount
    <3>6. UNCHANGED <<apNext, apSeen, apStayed, apBlank, apUp>>
      BY <1>1 DEF ApAddUser
    <3>. QED
      BY <3>2, <3>4, <3>5, <3>6, ApLonger
  <2>. QED
    BY <2>1, <2>2
<1>2. ASSUME NEW i, RemUser(i) PROVE ApInv'
  <2>1. /\ i \in DOMAIN apUsed /\ apUsed' = [apUsed EXCEPT ![i] = FALSE]
        /\ apStayed' = apStayed \ {i} /\ UNCHANGED <<apNext, apSeen, apBlank, apUp>>
    BY <1>2 DEF RemUser
  <2>2. /\ apUsed' \in Seq(BOOLEAN) /\ DOMAIN apUsed' = DOMAIN apUsed
        /\ \A j \in DOMAIN apUsed : apUsed'[j] = IF j = i THEN FALSE ELSE apUsed[j]
    BY <1>0, <2>1, EntrySet
  <2>3. ApCount' = ApCount
    BY <1>0, <2>2 DEF ApCount
  <2>4. \A j \in apStayed' : j \in DOMAIN apUsed' /\ apUsed'[j] = TRUE
    BY <1>0, <2>1, <2>2
  <2>. QED
    BY <2>1, <2>2, <2>3, <2>4 DEF ApInv, OnlyBlankPagesHide
<1>3. CASE FirstPage
  <2>1. /\ Page(0) /\ apUsed' = apUsed
        /\ apStayed' \subseteq {i \in DOMAIN apUsed : apUsed[i]}
    BY <1>3 DEF FirstPage
  <2>2. 0 \in Nat /\ 0 <= ApCount /\ ~(0 > 0)
    BY <1>0
  <2>. QED
    BY <2>1, <2>2, ApPages
<1>4. CASE NextPage
  <2>1. /\ apNext > 0 /\ Page(apNext - 1) /\ apUsed' = apUsed /\ apStayed' = apStayed
    BY <1>4 DEF NextPage
  <2>2. apNext \in Nat /\ ApCount > ApPage /\ apNext <= ApCount
        /\ \A i \in apStayed : apSeen[i] = IF i < apNext THEN 1 ELSE 0
    BY <2>1 DEF ApInv
  <2>3. apNext - 1 \in Nat /\ apNext - 1 <= ApCount /\ apNext - 1 + 1 = apNext
    BY <1>0, <2>1, <2>2
  <2>4. apStayed' \subseteq {i \in DOMAIN apUsed : apUsed[i]}
    BY <1>0, <2>1
  <2>. QED
    BY <2>1, <2>2, <2>3, <2>4, ApPages
<1>5. ASSUME NEW k, AnyPage(k) PROVE ApInv'
  BY <1>5 DEF AnyPage, ApInv, ApCount, OnlyBlankPagesHide
<1>6. CASE UNCHANGED apVars
  BY <1>6 DEF apVars, ApInv, ApCount, OnlyBlankPagesHide
<1>. QED
  BY <1>1, <1>2, <1>3, <1>4, <1>5, <1>6 DEF AccessPagesNext

LEMMA ApStarts == AccessPagesInit => ApInv
<1> SUFFICES ASSUME AccessPagesInit PROVE ApInv
  OBVIOUS
<1>1. ApMax \in Nat /\ apUsed = << >>
  BY ApNumbers DEF AccessPagesInit
<1>2. apUsed \in Seq(BOOLEAN) /\ ApCount <= ApMax
  BY <1>1 DEF ApCount
<1>3. /\ apSeen \in [1 .. ApMax -> Nat] /\ apStayed = {} /\ apNext = 0
      /\ apBlank \in BOOLEAN /\ apUp \in BOOLEAN
  BY <1>1 DEF AccessPagesInit
<1>. QED
  BY <1>2, <1>3 DEF ApInv, OnlyBlankPagesHide

-----------------------------------------------------------------------------
(* Bursts of clones (Clones).                                              *)

\* One turn of the loop of CloneCount.
ClTurn(s, was, i) ==
    LET k == Len(s) - i
    IN  IF was.done \/ k < 1 THEN was
        ELSE IF s[k].time < was.time - CloneMaxDelay
             THEN [was EXCEPT !.done = TRUE]
             ELSE IF s[k].host = s[Len(s)].host
                  THEN [was EXCEPT !.count = @ + 1, !.time = s[k].time,
                                   !.done = was.count + 1 >= CloneMinUsers]
                  ELSE was
ClFirst(s) == [count |-> 1, time |-> s[Len(s)].time, done |-> FALSE]
ClState == [count : Nat, time : Nat, done : BOOLEAN]

LEMMA ClExists ==
  ASSUME NEW s, NEW n \in Nat
  PROVE  \E g : g = [i \in 0 .. n |-> IF i = 0 THEN ClFirst(s) ELSE ClTurn(s, g[i - 1], i)]
<1> DEFINE Step(g, i) == IF i = 0 THEN ClFirst(s) ELSE ClTurn(s, g[i - 1], i)
           S == {m \in Nat : \E g : g = [i \in 0 .. m |-> Step(g, i)]}
<1>1. \A g, h, i : (i # 0 => g[i - 1] = h[i - 1]) => Step(g, i) = Step(h, i)
  OBVIOUS
<1>2. \A g : Step(g, 0) = ClFirst(s)
  OBVIOUS
<1> HIDE DEF Step
<1>3. 0 \in S
  <2> DEFINE g == [i \in 0 .. 0 |-> ClFirst(s)]
  <2>1. \A i \in 0 .. 0 : Step(g, i) = ClFirst(s)
    BY <1>2
  <2>2. g = [i \in 0 .. 0 |-> Step(g, i)]
    BY <2>1
  <2>. QED
    BY <2>2
<1>4. ASSUME NEW m \in Nat, m \in S PROVE m + 1 \in S
  <2>1. PICK g : g = [i \in 0 .. m |-> Step(g, i)]
    BY <1>4
  <2> DEFINE h == [i \in 0 .. (m + 1) |-> IF i = m + 1 THEN Step(g, i) ELSE g[i]]
  <2>2. ASSUME NEW i \in 0 .. (m + 1) PROVE h[i] = Step(h, i)
    <3>1. i # 0 => i - 1 \in 0 .. (m + 1) /\ i - 1 # m + 1
      OBVIOUS
    <3>2. i # 0 => h[i - 1] = g[i - 1]
      BY <3>1
    <3>3. Step(g, i) = Step(h, i)
      BY <1>1, <3>2
    <3>4. i # m + 1 => i \in 0 .. m
      OBVIOUS
    <3>5. i # m + 1 => g[i] = Step(g, i)
      BY <2>1, <3>4
    <3>. QED
      BY <3>3, <3>5
  <2>3. h = [i \in 0 .. (m + 1) |-> h[i]]
    OBVIOUS
  <2> HIDE DEF h
  <2>4. h = [i \in 0 .. (m + 1) |-> Step(h, i)]
    BY <2>2, <2>3
  <2>. QED
    BY <2>4
<1> HIDE DEF S
<1>5. n \in S
  BY <1>3, <1>4, NatInd
<1>. QED
  BY <1>5 DEF S, Step

\* The turns that CloneCount takes.
LEMMA ClTurns ==
  ASSUME NEW s, Len(s) \in Nat
  PROVE  \E f : /\ CloneCount(s) = f[Len(s)].count /\ f[0] = ClFirst(s)
                /\ \A i \in 1 .. Len(s) : f[i] = ClTurn(s, f[i - 1], i)
<1> DEFINE n == Len(s)
           it == CHOOSE g : g = [i \in 0 .. n |-> IF i = 0 THEN ClFirst(s) ELSE ClTurn(s, g[i - 1], i)]
<1>1. CloneCount(s) = it[n].count
  BY Zenon DEF CloneCount, ClFirst, ClTurn
<1>2. it = [i \in 0 .. n |-> IF i = 0 THEN ClFirst(s) ELSE ClTurn(s, it[i - 1], i)]
  BY ClExists
<1> HIDE DEF it
<1>3. it[0] = ClFirst(s)
  BY <1>2
<1>4. \A i \in 1 .. n : it[i] = ClTurn(s, it[i - 1], i)
  BY <1>2
<1>. QED
  BY <1>1, <1>3, <1>4

\* What a turn does, by what stands at its place of the list.
LEMMA ClTurnIs ==
  ASSUME NEW s, NEW was \in ClState, NEW i,
         was.done = FALSE, Len(s) - i \in Nat, Len(s) - i >= 1,
         s[Len(s) - i].time \in Nat
  PROVE  LET k == Len(s) - i
             next == ClTurn(s, was, i)
         IN  /\ s[k].time < was.time - CloneMaxDelay =>
                   next = [count |-> was.count, time |-> was.time, done |-> TRUE]
             /\ ~(s[k].time < was.time - CloneMaxDelay) /\ s[k].host = s[Len(s)].host =>
                   /\ next \in ClState
                   /\ next.count = was.count + 1 /\ next.time = s[k].time
                   /\ next.done = TRUE => was.count + 1 >= CloneMinUsers
             /\ ~(s[k].time < was.time - CloneMaxDelay) /\ s[k].host # s[Len(s)].host => next = was
<1> DEFINE k == Len(s) - i
           next == ClTurn(s, was, i)
<1>0. ~(k < 1) /\ ~was.done /\ was.count \in Nat /\ was.time \in Nat
  BY DEF ClState
<1>1. was = [count |-> was.count, time |-> was.time, done |-> was.done]
  BY DEF ClState
<1>2. ASSUME s[k].time < was.time - CloneMaxDelay
      PROVE  next = [count |-> was.count, time |-> was.time, done |-> TRUE]
  <2>1. next = [was EXCEPT !.done = TRUE]
    BY <1>0, <1>2 DEF ClTurn
  <2>. QED
    BY <1>1, <2>1
<1>3. ASSUME ~(s[k].time < was.time - CloneMaxDelay), s[k].host = s[Len(s)].host
      PROVE  /\ next \in ClState
             /\ next.count = was.count + 1 /\ next.time = s[k].time
             /\ next.done = TRUE => was.count + 1 >= CloneMinUsers
  <2> DEFINE full == was.count + 1 >= CloneMinUsers
  <2>1. next = [was EXCEPT !.count = @ + 1, !.time = s[k].time, !.done = full]
    BY <1>0, <1>3 DEF ClTurn
  <2>2. full \in BOOLEAN /\ (full = TRUE => was.count + 1 >= CloneMinUsers)
    OBVIOUS
  <2> HIDE DEF full
  <2>3. next = [count |-> was.count + 1, time |-> s[k].time, done |-> full]
    BY <1>1, <2>1
  <2>4. was.count + 1 \in Nat
    BY <1>0
  <2> HIDE DEF next
  <2>. QED
    BY <2>2, <2>3, <2>4 DEF ClState
<1>4. ASSUME ~(s[k].time < was.time - CloneMaxDelay), s[k].host # s[Len(s)].host
      PROVE  next = was
  BY <1>0, <1>4 DEF ClTurn
<1>. QED
  BY <1>2, <1>3, <1>4

ClOrdered(s) ==
    /\ s \in Seq(ClEntry)
    /\ \A i, j \in DOMAIN s : i < j => s[i].time <= s[j].time

LEMMA ClEntries ==
  ASSUME NEW s \in Seq(ClEntry)
  PROVE  /\ Len(s) \in Nat /\ DOMAIN s = 1 .. Len(s)
         /\ \A i \in 1 .. Len(s) : s[i] \in ClEntry /\ s[i].time \in Nat
<1>1. Len(s) \in Nat /\ DOMAIN s = 1 .. Len(s) /\ \A i \in 1 .. Len(s) : s[i] \in ClEntry
  OBVIOUS
<1>2. ASSUME NEW e \in ClEntry PROVE e.time \in Nat
  BY ClNumbers DEF ClEntry
<1>. QED
  BY <1>1, <1>2

\* The users of a burst who stand at the places from a to b.
ClPart(S, a, b) == {j \in S : a <= j /\ j <= b}

LEMMA ClPartMore ==
  ASSUME NEW n \in Nat, NEW S, S \subseteq 1 .. n, NEW a \in Nat
  PROVE  /\ Cardinality(ClPart(S, a, n)) \in Nat
         /\ a \in S => Cardinality(ClPart(S, a, n)) = Cardinality(ClPart(S, a + 1, n)) + 1
         /\ a \notin S => ClPart(S, a, n) = ClPart(S, a + 1, n)
<1>0. \A j \in S : j \in Nat /\ j <= n
  OBVIOUS
<1>1. IsFiniteSet(1 .. n)
  <2>1. 1 \in Int /\ n \in Int
    OBVIOUS
  <2>. QED
    BY <2>1, FS_Interval
<1>2. \A b : ClPart(S, b, n) \subseteq 1 .. n
  BY DEF ClPart
<1>3. \A b : IsFiniteSet(ClPart(S, b, n))
  BY <1>1, <1>2, FS_Subset
<1>4. \A b : Cardinality(ClPart(S, b, n)) \in Nat
  BY <1>3, FS_CardinalityType
<1>7. /\ \A j \in S : (a <= j /\ j <= n) <=> (j = a \/ (a + 1 <= j /\ j <= n))
      /\ ~(a + 1 <= a)
  BY <1>0
<1>5. ASSUME a \in S PROVE Cardinality(ClPart(S, a, n)) = Cardinality(ClPart(S, a + 1, n)) + 1
  <2>1. ClPart(S, a, n) = ClPart(S, a + 1, n) \cup {a} /\ a \notin ClPart(S, a + 1, n)
    BY <1>0, <1>5, <1>7 DEF ClPart
  <2>. QED
    BY <1>3, <2>1, FS_AddElement
<1>6. ASSUME a \notin S PROVE ClPart(S, a, n) = ClPart(S, a + 1, n)
  BY <1>0, <1>6, <1>7 DEF ClPart
<1>. QED
  BY <1>4, <1>5, <1>6

\* Whoever ends a burst is counted with all of it, or with as many as are enough:
\* the loop does not meet a user who is too far before it has found them.
LEMMA ClBurstCounted ==
  ASSUME NEW s, ClOrdered(s), s # << >>, Burst(s)
  PROVE  CloneCount(s) >= CloneMinUsers
<1> DEFINE n == Len(s)
<1>0. /\ n \in Nat /\ DOMAIN s = 1 .. n /\ n >= 1
      /\ \A i \in 1 .. n : s[i].time \in Nat
      /\ \A i, j \in 1 .. n : i < j => s[i].time <= s[j].time
      /\ CloneMinUsers \in Nat /\ CloneMaxDelay \in Nat
  BY ClEntries, ClNumbers DEF ClOrdered
<1>1. PICK S \in SUBSET (1 .. n) :
         /\ Cardinality(S) = CloneMinUsers /\ n \in S
         /\ \A i \in S : s[i].host = s[n].host
         /\ \A i \in S \ {n} : \E j \in S : j > i /\ s[j].time <= s[i].time + CloneMaxDelay
  BY <1>0 DEF Burst
<1>2. PICK f : /\ CloneCount(s) = f[n].count /\ f[0] = ClFirst(s)
               /\ \A i \in 1 .. n : f[i] = ClTurn(s, f[i - 1], i)
  BY <1>0, ClTurns
<1> HIDE DEF n
<1>3. \A j \in S : j \in 1 .. n /\ j \in Nat /\ j >= 1 /\ j <= n /\ s[j].time \in Nat
  <2>1. \A j \in S : j \in 1 .. n
    OBVIOUS
  <2>2. \A j \in 1 .. n : j \in Nat /\ j >= 1 /\ j <= n
    BY <1>0
  <2>. QED
    BY <1>0, <2>1, <2>2
<1> DEFINE Good(w, a) ==
              /\ w \in ClState
              /\ w.done = TRUE => w.count >= CloneMinUsers
              /\ w.done # TRUE =>
                    /\ w.count >= Cardinality(ClPart(S, a, n))
                    /\ \A j \in ClPart(S, a, n) : w.time <= s[j].time
           Turned == {i \in Nat : i <= n => Good(f[i], n - i)}
<1> HIDE DEF Good
<1>4. 0 \in Turned
  <2>1. ClPart(S, n, n) = {n}
    <3>1. \A j \in S : n <= j /\ j <= n <=> j = n
      BY <1>0, <1>3
    <3>. QED
      BY <1>1, <3>1 DEF ClPart
  <2>2. Cardinality({n}) = 1
    BY FS_Singleton
  <2>3. f[0] = [count |-> 1, time |-> s[n].time, done |-> FALSE] /\ s[n].time \in Nat
    BY <1>0, <1>2 DEF ClFirst, n
  <2>4. f[0] \in ClState /\ f[0].count = 1 /\ f[0].time = s[n].time /\ f[0].done # TRUE
    BY <2>3 DEF ClState
  <2>5. Good(f[0], n)
    BY <2>1, <2>2, <2>3, <2>4 DEF Good
  <2>6. n - 0 = n
    BY <1>0
  <2>. QED
    BY <2>5, <2>6
<1>5. ASSUME NEW m \in Nat, m \in Turned PROVE m + 1 \in Turned
  <2> SUFFICES ASSUME m + 1 <= n PROVE Good(f[m + 1], n - (m + 1))
    OBVIOUS
  <2> DEFINE i == m + 1
             k == n - i
             was == f[m]
  <2>0. i \in 1 .. n /\ i - 1 = m /\ k \in Nat /\ k + 1 = n - m /\ k < n
    BY <1>0
  <2>1. Good(was, k + 1)
    <3>1. m <= n
      BY <1>0
    <3>2. Good(f[m], n - m)
      BY <1>5, <3>1
    <3>. QED
      BY <2>0, <3>2
  <2>2. f[i] = ClTurn(s, was, i)
    BY <1>2, <2>0
  <2> HIDE DEF i, k, was
  <2> SUFFICES Good(f[i], k)
    BY DEF i, k
  <2>a. was \in ClState /\ was.count \in Nat /\ was.time \in Nat /\ was.done \in BOOLEAN
    BY <2>1 DEF Good, ClState
  <2>b. k = Len(s) - i
    BY DEF k, n
  <2>3. CASE was.done = TRUE
    <3>1. f[i] = was
      BY <2>2, <2>3 DEF ClTurn
    <3>. QED
      BY <2>1, <2>3, <3>1 DEF Good
  <2>4. CASE was.done # TRUE /\ k < 1
    <3>1. f[i] = was
      BY <2>2, <2>4, <2>b DEF ClTurn
    <3>2. k \notin S
      BY <1>3, <2>0, <2>4
    <3>3. ClPart(S, k, n) = ClPart(S, k + 1, n)
      BY <1>0, <2>0, <3>2, ClPartMore
    <3>. QED
      BY <2>1, <3>1, <3>3 DEF Good
  <2>5. CASE was.done # TRUE /\ ~(k < 1)
    <3>0. /\ was.done = FALSE /\ k \in 1 .. n /\ s[k].time \in Nat
          /\ was.count >= Cardinality(ClPart(S, k + 1, n))
          /\ \A j \in ClPart(S, k + 1, n) : was.time <= s[j].time
      <4>1. was.done = FALSE
        BY <2>5, <2>a
      <4>2. k \in 1 .. n
        BY <1>0, <2>0, <2>5
      <4>3. s[k].time \in Nat
        BY <1>0, <4>2
      <4>. QED
        BY <2>1, <2>5, <4>1, <4>2, <4>3 DEF Good
    <3>1. /\ s[k].time < was.time - CloneMaxDelay =>
                f[i] = [count |-> was.count, time |-> was.time, done |-> TRUE]
          /\ ~(s[k].time < was.time - CloneMaxDelay) /\ s[k].host = s[n].host =>
                /\ f[i] \in ClState
                /\ f[i].count = was.count + 1 /\ f[i].time = s[k].time
                /\ f[i].done = TRUE => was.count + 1 >= CloneMinUsers
          /\ ~(s[k].time < was.time - CloneMaxDelay) /\ s[k].host # s[n].host => f[i] = was
      <4>1. Len(s) - i \in Nat /\ Len(s) - i >= 1 /\ s[Len(s) - i].time \in Nat
        BY <2>0, <2>5, <2>b, <3>0
      <4> DEFINE q == Len(s) - i
                 next == ClTurn(s, was, i)
      <4>2. /\ s[q].time < was.time - CloneMaxDelay =>
                  next = [count |-> was.count, time |-> was.time, done |-> TRUE]
            /\ ~(s[q].time < was.time - CloneMaxDelay) /\ s[q].host = s[Len(s)].host =>
                  /\ next \in ClState
                  /\ next.count = was.count + 1 /\ next.time = s[q].time
                  /\ next.done = TRUE => was.count + 1 >= CloneMinUsers
            /\ ~(s[q].time < was.time - CloneMaxDelay) /\ s[q].host # s[Len(s)].host => next = was
        BY <2>a, <3>0, <4>1, ClTurnIs
      <4>3. q = k /\ next = f[i] /\ Len(s) = n
        BY <2>2, <2>b DEF n
      <4> HIDE DEF q, next
      <4>. QED
        BY <4>2, <4>3
    <3>2. CASE s[k].time < was.time - CloneMaxDelay
      <4> DEFINE left == {j \in S : j <= k}
      <4>1. ASSUME left # {} PROVE FALSE
        <5>1. left \subseteq 1 .. k
          <6>1. \A j \in left : j \in Nat /\ j >= 1 /\ j <= k
            BY <1>3
          <6>2. \A j \in left : j \in 1 .. k
            BY <2>0, <6>1
          <6>. QED
            BY <6>2
        <5> DEFINE p == CHOOSE j \in left : \A l \in left : l <= j
        <5> HIDE DEF left
        <5>2. p \in left /\ \A l \in left : l <= p
          BY <2>0, <4>1, <5>1, GreatestPlace
        <5> HIDE DEF p
        <5> USE DEF left
        <5>3. p \in S /\ p <= k /\ p # n
          BY <1>0, <2>0, <5>2
        <5>4. PICK j \in S : j > p /\ s[j].time <= s[p].time + CloneMaxDelay
          BY <1>1, <5>3
        <5>5. ~(j <= k)
          <6>1. j <= k => j \in left
            OBVIOUS
          <6>2. j \in Nat /\ p \in Nat /\ j > p
            BY <1>3, <5>3, <5>4
          <6>. QED
            BY <5>2, <6>1, <6>2
        <5>6. j \in ClPart(S, k + 1, n)
          BY <1>3, <2>0, <5>5 DEF ClPart
        <5>7. s[p].time <= s[k].time
          BY <1>0, <1>3, <3>0, <5>3
        <5>. QED
          BY <1>0, <1>3, <2>a, <3>0, <3>2, <5>3, <5>4, <5>6, <5>7
      <4>2. ClPart(S, k + 1, n) = S
        <5>1. \A j \in S : ~(j <= k)
          BY <4>1
        <5>2. \A j \in S : k + 1 <= j /\ j <= n
          BY <1>3, <2>0, <5>1
        <5>. QED
          BY <5>2 DEF ClPart
      <4>3. was.count >= CloneMinUsers
        BY <1>1, <3>0, <4>2
      <4>4. f[i] = [count |-> was.count, time |-> was.time, done |-> TRUE]
        BY <3>1, <3>2
      <4>5. f[i] \in ClState /\ f[i].count = was.count /\ f[i].done = TRUE
        BY <2>a, <4>4 DEF ClState
      <4>. QED
        BY <4>3, <4>5 DEF Good
    <3>3. CASE ~(s[k].time < was.time - CloneMaxDelay) /\ s[k].host = s[n].host
      <4>1. /\ f[i] \in ClState
            /\ f[i].count = was.count + 1 /\ f[i].time = s[k].time
            /\ f[i].done = TRUE => was.count + 1 >= CloneMinUsers
        BY <3>1, <3>3
      <4>2. /\ Cardinality(ClPart(S, k, n)) \in Nat /\ Cardinality(ClPart(S, k + 1, n)) \in Nat
            /\ Cardinality(ClPart(S, k, n)) <= Cardinality(ClPart(S, k + 1, n)) + 1
        <5>1. k + 1 \in Nat
          BY <2>0
        <5>2. Cardinality(ClPart(S, k + 1, n)) \in Nat
          BY <1>0, <5>1, ClPartMore
        <5>3. /\ Cardinality(ClPart(S, k, n)) \in Nat
              /\ k \in S => Cardinality(ClPart(S, k, n)) = Cardinality(ClPart(S, k + 1, n)) + 1
              /\ k \notin S => ClPart(S, k, n) = ClPart(S, k + 1, n)
          BY <1>0, <2>0, ClPartMore
        <5>. QED
          BY <5>2, <5>3
      <4>3. f[i].count >= Cardinality(ClPart(S, k, n))
        BY <2>a, <3>0, <4>1, <4>2
      <4>4. \A j \in ClPart(S, k, n) : s[k].time <= s[j].time
        <5> SUFFICES ASSUME NEW j \in ClPart(S, k, n) PROVE s[k].time <= s[j].time
          OBVIOUS
        <5>1. j \in 1 .. n /\ k <= j
          BY <1>3 DEF ClPart
        <5>2. CASE j = k
          BY <3>0, <5>2
        <5>3. CASE k < j
          BY <1>0, <3>0, <5>1, <5>3
        <5>. QED
          BY <2>0, <5>1, <5>2, <5>3
      <4>. QED
        BY <4>1, <4>3, <4>4 DEF Good
    <3>4. CASE ~(s[k].time < was.time - CloneMaxDelay) /\ s[k].host # s[n].host
      <4>1. f[i] = was
        BY <3>1, <3>4
      <4>2. k \notin S
        BY <1>1, <3>4
      <4>3. ClPart(S, k, n) = ClPart(S, k + 1, n)
        BY <1>0, <2>0, <4>2, ClPartMore
      <4>. QED
        BY <2>1, <4>1, <4>3 DEF Good
    <3>. QED
      BY <3>2, <3>3, <3>4
  <2>. QED
    BY <2>3, <2>4, <2>5
<1> HIDE DEF Turned
<1>6. n \in Turned
  BY <1>0, <1>4, <1>5, NatInd
<1>7. Good(f[n], 0)
  BY <1>0, <1>6 DEF Turned
<1>8. ClPart(S, 0, n) = S
  <2>1. \A j \in S : 0 <= j /\ j <= n
    BY <1>3
  <2>. QED
    BY <2>1 DEF ClPart
<1>9. f[n].count >= CloneMinUsers
  BY <1>1, <1>7, <1>8 DEF Good
<1>. QED
  BY <1>2, <1>9

\* The users stand in the order of their times, none of them in the future.
ClInv ==
    /\ ClonesTypeOK /\ ClOrdered(clList)
    /\ \A i \in DOMAIN clList : clList[i].time <= clNow
    /\ BurstsReported

LEMMA ClPushed ==
  ASSUME NEW s \in Seq(ClEntry), Len(s) <= ClSize, NEW e \in ClEntry
  PROVE  LET t == Pushed(s, e)
         IN  /\ t \in Seq(ClEntry) /\ Len(t) \in Nat /\ Len(t) >= 1 /\ Len(t) <= ClSize
             /\ t[Len(t)] = e /\ DOMAIN t = 1 .. Len(t) /\ t # << >>
             /\ \E d \in {0, 1} : Len(s) + 1 = Len(t) + d
                   /\ \A i \in 1 .. (Len(t) - 1) : i + d \in 1 .. Len(s) /\ t[i] = s[i + d]
<1> DEFINE q == IF Len(s) < ClSize THEN s ELSE Tail(s)
           t == Append(q, e)
<1>0. Len(s) \in Nat /\ ClSize \in Nat /\ ClSize >= 1
  BY ClNumbers
<1>1. CASE Len(s) < ClSize
  <2>1. q = s
    BY <1>1
  <2> HIDE DEF q
  <2>2. /\ t \in Seq(ClEntry) /\ Len(t) = Len(s) + 1 /\ t[Len(t)] = e /\ DOMAIN t = 1 .. Len(t)
        /\ \A i \in 1 .. Len(s) : t[i] = s[i]
    BY <2>1
  <2> HIDE DEF t
  <2>3. \A i \in 1 .. (Len(t) - 1) : i + 0 \in 1 .. Len(s) /\ t[i] = s[i + 0]
    BY <1>0, <2>2
  <2>4. 0 \in {0, 1} /\ Len(s) + 1 = Len(t) + 0 /\ t # << >>
    BY <1>0, <2>2
  <2>5. Pushed(s, e) = t
    BY DEF Pushed, t, q
  <2>. QED
    BY <1>0, <1>1, <2>2, <2>3, <2>4, <2>5
<1>2. CASE ~(Len(s) < ClSize)
  <2>1. q = Tail(s) /\ s # << >>
    BY <1>0, <1>2
  <2>2. q \in Seq(ClEntry) /\ Len(q) = Len(s) - 1 /\ \A i \in 1 .. Len(q) : q[i] = s[i + 1]
    BY <1>0, <2>1
  <2> HIDE DEF q
  <2>3. /\ t \in Seq(ClEntry) /\ Len(t) = Len(q) + 1 /\ t[Len(t)] = e /\ DOMAIN t = 1 .. Len(t)
        /\ \A i \in 1 .. Len(q) : t[i] = q[i]
    BY <2>2
  <2> HIDE DEF t
  <2>4. Len(t) = Len(s) /\ Len(t) - 1 = Len(q)
    BY <1>0, <2>2, <2>3
  <2>5. \A i \in 1 .. (Len(t) - 1) : i + 1 \in 1 .. Len(s) /\ t[i] = s[i + 1]
    BY <1>0, <2>2, <2>3, <2>4
  <2>6. 1 \in {0, 1} /\ Len(s) + 1 = Len(t) + 1 /\ t # << >>
    BY <1>0, <1>2, <2>3, <2>4
  <2>7. Pushed(s, e) = t
    BY DEF Pushed, t, q
  <2>. QED
    BY <1>0, <1>2, <2>3, <2>4, <2>5, <2>6, <2>7
<1>. QED
  BY <1>1, <1>2

LEMMA ClSteps == ClInv /\ [ClonesNext]_clVars => ClInv'
<1> SUFFICES ASSUME ClInv, [ClonesNext]_clVars PROVE ClInv'
  OBVIOUS
<1>0. /\ clList \in Seq(ClEntry) /\ Len(clList) <= ClSize
      /\ clWarnings \in Seq(ClEntry) /\ Len(clWarnings) <= ClSize
      /\ clNow \in 0 .. ClMaxTime /\ clNow \in Nat /\ clUp \in BOOLEAN
      /\ CloneWarningDelay \in Nat /\ ClMaxTime \in Nat
  BY ClNumbers DEF ClInv, ClonesTypeOK
<1>1. CASE ClTick
  <2>1. clNow' = clNow + 1 /\ clNow < ClMaxTime /\ UNCHANGED <<clList, clWarnings, clUp>>
    BY <1>1 DEF ClTick
  <2>2. clNow' \in 0 .. ClMaxTime
    BY <1>0, <2>1
  <2>3. \A i \in DOMAIN clList : clList[i].time <= clNow'
    BY <1>0, <2>1, ClEntries DEF ClInv
  <2>4. ClonesTypeOK'
    BY <2>1, <2>2 DEF ClInv, ClonesTypeOK
  <2>5. ClOrdered(clList)' /\ BurstsReported'
    BY <2>1 DEF ClInv, ClOrdered, BurstsReported, Burst
  <2>. QED
    BY <2>1, <2>3, <2>4, <2>5 DEF ClInv
<1>2. ASSUME NEW host \in ClHost, CheckClones(host) PROVE ClInv'
  <2> DEFINE e == [host |-> host, time |-> clNow]
             list == Pushed(clList, e)
             warn == CloneCount(list) >= CloneMinUsers /\ ToWarn(host)
  <2>1. e \in ClEntry /\ e.host = host /\ e.time = clNow
    BY <1>0 DEF ClEntry
  <2>2. /\ clList' = list /\ clNow' = clNow
        /\ clWarnings' = IF warn THEN Pushed(clWarnings, e) ELSE clWarnings
        /\ clUp' \in BOOLEAN
    BY <1>2 DEF CheckClones
  <2> HIDE DEF e
  <2>3. /\ list \in Seq(ClEntry) /\ Len(list) \in Nat /\ Len(list) >= 1 /\ Len(list) <= ClSize
        /\ list[Len(list)] = e /\ DOMAIN list = 1 .. Len(list) /\ list # << >>
    BY <1>0, <2>1, ClPushed
  <2>4. PICK d \in {0, 1} : /\ Len(clList) + 1 = Len(list) + d
                            /\ \A i \in 1 .. (Len(list) - 1) :
                                  i + d \in 1 .. Len(clList) /\ list[i] = clList[i + d]
    BY <1>0, <2>1, ClPushed
  <2> DEFINE warned == Pushed(clWarnings, e)
  <2>5. /\ warned \in Seq(ClEntry) /\ Len(warned) \in Nat /\ Len(warned) >= 1
        /\ Len(warned) <= ClSize /\ warned[Len(warned)] = e /\ DOMAIN warned = 1 .. Len(warned)
    BY <1>0, <2>1, ClPushed
  <2> HIDE DEF list, warned
  <2>6. DOMAIN clList = 1 .. Len(clList) /\ Len(clList) \in Nat
    BY <1>0
  <2>7. \A i \in DOMAIN list : list[i].time <= clNow
    <3> SUFFICES ASSUME NEW i \in DOMAIN list PROVE list[i].time <= clNow
      OBVIOUS
    <3>1. CASE i = Len(list)
      BY <1>0, <2>1, <2>3, <3>1
    <3>2. CASE i # Len(list)
      <4>1. i \in 1 .. (Len(list) - 1)
        BY <2>3, <3>2
      <4>. QED
        BY <2>4, <2>6, <4>1 DEF ClInv
    <3>. QED
      BY <3>1, <3>2
  <2>8. ASSUME NEW i \in DOMAIN list, NEW j \in DOMAIN list, i < j
        PROVE  list[i].time <= list[j].time
    <3>1. i \in 1 .. (Len(list) - 1)
      BY <2>3, <2>8
    <3>2. CASE j = Len(list)
      BY <2>1, <2>3, <2>7, <3>2
    <3>3. CASE j # Len(list)
      <4>1. j \in 1 .. (Len(list) - 1)
        BY <2>3, <3>3
      <4>2. i + d < j + d
        BY <2>3, <2>8
      <4>3. i + d \in DOMAIN clList /\ j + d \in DOMAIN clList
        BY <2>4, <2>6, <3>1, <4>1
      <4>4. clList[i + d].time <= clList[j + d].time
        BY <4>2, <4>3 DEF ClInv, ClOrdered
      <4>. QED
        BY <2>4, <3>1, <4>1, <4>4
    <3>. QED
      BY <3>2, <3>3
  <2>9. ClOrdered(list)
    BY <2>3, <2>8 DEF ClOrdered
  <2>10. ClonesTypeOK'
    BY <1>0, <2>2, <2>3, <2>5 DEF ClonesTypeOK, warned, list
  <2>11. BurstsReported'
    <3> SUFFICES ASSUME Burst(list)
                 PROVE  \E i \in DOMAIN clWarnings' :
                           /\ clWarnings'[i].host = host
                           /\ clWarnings'[i].time >= clNow - CloneWarningDelay
      BY <2>1, <2>2, <2>3 DEF BurstsReported, list
    <3>1. CloneCount(list) >= CloneMinUsers
      BY <2>3, <2>9, ClBurstCounted
    <3>2. CASE ToWarn(host)
      <4>1. clWarnings' = warned
        BY <2>2, <3>1, <3>2 DEF warned, list
      <4>2. Len(warned) \in DOMAIN warned
        BY <2>5
      <4>. QED
        BY <1>0, <2>1, <2>5, <4>1, <4>2
    <3>3. CASE ~ToWarn(host)
      <4>1. clWarnings' = clWarnings
        BY <2>2, <3>3 DEF list
      <4>2. PICK i \in {l \in DOMAIN clWarnings : clWarnings[l].host = host} :
                 ~(clWarnings[i].time < clNow - CloneWarningDelay)
        BY <3>3 DEF ToWarn
      <4>3. clWarnings[i].time \in Nat
        BY <1>0, <4>2, ClEntries
      <4>. QED
        BY <1>0, <4>1, <4>2, <4>3
    <3>. QED
      BY <3>2, <3>3
  <2>. QED
    BY <2>2, <2>7, <2>9, <2>10, <2>11 DEF ClInv, list
<1>3. CASE UNCHANGED clVars
  BY <1>3 DEF clVars, ClInv, ClonesTypeOK, ClOrdered, BurstsReported, Burst
<1>. QED
  BY <1>1, <1>2, <1>3 DEF ClonesNext

LEMMA ClStarts == ClonesInit => ClInv
BY ClNumbers DEF ClonesInit, ClInv, ClonesTypeOK, ClOrdered, BurstsReported

-----------------------------------------------------------------------------
(* The last commands (History).                                            *)

LEMMA SameSize ==
  ASSUME NEW S, NEW T, IsFiniteSet(S), NEW f \in [S -> T],
         \A x, y \in S : f[x] = f[y] => x = y, \A y \in T : \E x \in S : f[x] = y
  PROVE  IsFiniteSet(T) /\ Cardinality(T) = Cardinality(S)
<1>1. f \in Bijection(S, T)
  BY DEF Bijection, Injection, Surjection, IsInjective
<1>2. ExistsBijection(S, T)
  BY <1>1 DEF ExistsBijection
<1>. QED
  BY <1>2, FS_Bijection

HyRow == [nick : HyNick, chan : HyChan, number : Nat]

\* The numbers of some rows, and that they go up along the table.
HyNums(s, R) == {s[i].number : i \in R}
HyOrdered(s, R) == \A i, j \in R : i < j => s[i].number < s[j].number

LEMMA HyTable ==
  ASSUME NEW s \in Seq(HyRow)
  PROVE  /\ Len(s) \in Nat /\ DOMAIN s = 1 .. Len(s)
         /\ \A i \in 1 .. Len(s) : s[i] \in HyRow /\ s[i].number \in Nat
         /\ \A n, c : /\ RowsOf(s, n, c) \subseteq 1 .. Len(s) /\ IsFiniteSet(RowsOf(s, n, c))
                      /\ Cardinality(RowsOf(s, n, c)) \in Nat
<1>1. Len(s) \in Nat /\ DOMAIN s = 1 .. Len(s) /\ \A i \in 1 .. Len(s) : s[i] \in HyRow
  OBVIOUS
<1>2. \A e \in HyRow : e.number \in Nat
  BY DEF HyRow
<1>3. IsFiniteSet(1 .. Len(s))
  <2>1. 1 \in Int /\ Len(s) \in Int
    BY <1>1
  <2>. QED
    BY <2>1, FS_Interval
<1>4. ASSUME NEW n, NEW c
      PROVE  /\ RowsOf(s, n, c) \subseteq 1 .. Len(s) /\ IsFiniteSet(RowsOf(s, n, c))
             /\ Cardinality(RowsOf(s, n, c)) \in Nat
  <2>1. RowsOf(s, n, c) \subseteq 1 .. Len(s)
    BY <1>1 DEF RowsOf
  <2>2. IsFiniteSet(RowsOf(s, n, c))
    BY <1>3, <2>1, FS_Subset
  <2>. QED
    BY <2>1, <2>2, FS_CardinalityType
<1>. QED
  BY <1>1, <1>2, <1>4

\* Without one row the other rows are the same ones, further to the front.
LEMMA HyRemoved ==
  ASSUME NEW s \in Seq(HyRow), NEW p \in DOMAIN s, NEW n, NEW c
  PROVE  LET t == RemoveAt(s, p)
             R == RowsOf(s, n, c)
             Q == RowsOf(t, n, c)
         IN  /\ t \in Seq(HyRow) /\ Cardinality(Q) = Cardinality(R \ {p})
             /\ HyNums(t, Q) = HyNums(s, R \ {p})
             /\ HyOrdered(s, R) => HyOrdered(t, Q)
<1> DEFINE t == RemoveAt(s, p)
           R == RowsOf(s, n, c)
           Q == RowsOf(t, n, c)
           at(j) == IF j < p THEN j ELSE j + 1
<1>0. Len(s) \in Nat /\ DOMAIN s = 1 .. Len(s) /\ R \subseteq 1 .. Len(s) /\ p \in 1 .. Len(s)
  BY HyTable
<1>1. /\ t \in Seq(HyRow) /\ Len(t) = Len(s) - 1
      /\ \A j \in 1 .. (Len(s) - 1) : t[j] = IF j < p THEN s[j] ELSE s[j + 1]
  BY RemoveAtShifts
<1> HIDE DEF t
<1>2. DOMAIN t = 1 .. (Len(s) - 1) /\ IsFiniteSet(Q) /\ Q \subseteq 1 .. (Len(s) - 1)
  BY <1>1, HyTable
<1>3. \A j \in 1 .. (Len(s) - 1) : /\ at(j) \in 1 .. Len(s) /\ at(j) # p /\ t[j] = s[at(j)]
  BY <1>0, <1>1
<1>4. \A i, j \in 1 .. (Len(s) - 1) : /\ at(i) = at(j) => i = j
                                      /\ i < j => at(i) < at(j)
  BY <1>0
<1>5. \A k \in 1 .. Len(s) : k # p => \E j \in 1 .. (Len(s) - 1) : at(j) = k
  <2> SUFFICES ASSUME NEW k \in 1 .. Len(s), k # p PROVE \E j \in 1 .. (Len(s) - 1) : at(j) = k
    OBVIOUS
  <2>1. CASE k < p
    <3>1. k \in 1 .. (Len(s) - 1) /\ at(k) = k
      BY <1>0, <2>1
    <3>. QED
      BY <3>1
  <2>2. CASE ~(k < p)
    <3>1. k - 1 \in 1 .. (Len(s) - 1) /\ at(k - 1) = k
      BY <1>0, <2>2
    <3>. QED
      BY <3>1
  <2>. QED
    BY <2>1, <2>2
<1> HIDE DEF at
<1>6. \A j \in 1 .. (Len(s) - 1) : j \in Q <=> at(j) \in R
  BY <1>0, <1>2, <1>3 DEF RowsOf
<1> HIDE DEF Q, R
<1>7. Cardinality(Q) = Cardinality(R \ {p})
  <2> DEFINE f == [j \in Q |-> at(j)]
  <2>1. f \in [Q -> R \ {p}]
    BY <1>2, <1>3, <1>6
  <2>2. \A x, y \in Q : f[x] = f[y] => x = y
    BY <1>2, <1>4
  <2>3. \A k \in R \ {p} : \E j \in Q : f[j] = k
    <3> SUFFICES ASSUME NEW k \in R, k # p PROVE \E j \in Q : f[j] = k
      OBVIOUS
    <3>1. PICK j \in 1 .. (Len(s) - 1) : at(j) = k
      BY <1>0, <1>5
    <3>. QED
      BY <1>6, <3>1
  <2> HIDE DEF f
  <2>. QED
    BY <1>2, <2>1, <2>2, <2>3, SameSize
<1>8. HyNums(t, Q) = HyNums(s, R \ {p})
  <2>1. ASSUME NEW j \in Q PROVE t[j].number \in HyNums(s, R \ {p})
    <3>1. at(j) \in R \ {p} /\ t[j] = s[at(j)]
      BY <1>2, <1>3, <1>6
    <3>. QED
      BY <3>1 DEF HyNums
  <2>2. ASSUME NEW k \in R \ {p} PROVE s[k].number \in HyNums(t, Q)
    <3>1. PICK j \in 1 .. (Len(s) - 1) : at(j) = k
      BY <1>0, <1>5
    <3>2. j \in Q /\ t[j] = s[k]
      BY <1>3, <1>6, <3>1
    <3>. QED
      BY <3>2 DEF HyNums
  <2>. QED
    BY <2>1, <2>2 DEF HyNums
<1>9. ASSUME HyOrdered(s, R) PROVE HyOrdered(t, Q)
  <2> SUFFICES ASSUME NEW i \in Q, NEW j \in Q, i < j PROVE t[i].number < t[j].number
    BY DEF HyOrdered
  <2>1. at(i) \in R /\ at(j) \in R /\ at(i) < at(j) /\ t[i] = s[at(i)] /\ t[j] = s[at(j)]
    BY <1>2, <1>3, <1>4, <1>6
  <2>. QED
    BY <1>9, <2>1 DEF HyOrdered
<1>. QED
  BY <1>1, <1>7, <1>8, <1>9 DEF t, Q, R

\* One row more.
LEMMA HyAppended ==
  ASSUME NEW s \in Seq(HyRow), NEW e \in HyRow, NEW n, NEW c
  PROVE  LET t == Append(s, e)
             R == RowsOf(s, n, c)
             Q == RowsOf(t, n, c)
         IN  /\ t \in Seq(HyRow)
             /\ e.nick = n /\ e.chan = c =>
                   /\ Cardinality(Q) = Cardinality(R) + 1
                   /\ HyNums(t, Q) = HyNums(s, R) \cup {e.number}
                   /\ HyOrdered(s, R) /\ (\A k \in HyNums(s, R) : k < e.number) => HyOrdered(t, Q)
             /\ ~(e.nick = n /\ e.chan = c) =>
                   /\ Cardinality(Q) = Cardinality(R)
                   /\ HyNums(t, Q) = HyNums(s, R)
                   /\ HyOrdered(s, R) => HyOrdered(t, Q)
<1> DEFINE t == Append(s, e)
           R == RowsOf(s, n, c)
           Q == RowsOf(t, n, c)
           l == Len(s) + 1
<1>0. Len(s) \in Nat /\ DOMAIN s = 1 .. Len(s) /\ R \subseteq 1 .. Len(s) /\ IsFiniteSet(R)
  BY HyTable
<1>1. /\ t \in Seq(HyRow) /\ DOMAIN t = DOMAIN s \cup {l} /\ l \notin DOMAIN s
      /\ \A j \in DOMAIN t : t[j] = IF j = l THEN e ELSE s[j]
  BY EntryAdded
<1> HIDE DEF t
<1>2. Q = IF e.nick = n /\ e.chan = c THEN R \cup {l} ELSE R
  BY <1>1 DEF RowsOf
<1>3. \A j \in R : t[j] = s[j] /\ j < l /\ j # l
  BY <1>0, <1>1
<1>4. t[l] = e /\ l \notin R
  BY <1>0, <1>1
<1> HIDE DEF Q, R, l
<1>5. CASE e.nick = n /\ e.chan = c
  <2>1. Q = R \cup {l}
    BY <1>2, <1>5
  <2>2. Cardinality(Q) = Cardinality(R) + 1
    BY <1>0, <1>4, <2>1, FS_AddElement
  <2>3. HyNums(t, Q) = HyNums(s, R) \cup {e.number}
    BY <1>3, <1>4, <2>1 DEF HyNums
  <2>4. ASSUME HyOrdered(s, R), \A k \in HyNums(s, R) : k < e.number PROVE HyOrdered(t, Q)
    <3> SUFFICES ASSUME NEW i \in Q, NEW j \in Q, i < j PROVE t[i].number < t[j].number
      BY DEF HyOrdered
    <3>0. i \in R \/ i = l
      BY <2>1
    <3>1. i # l
      <4>1. l \in Nat /\ \A x \in R : x \in Nat /\ x < l
        BY <1>0, <1>3 DEF l
      <4>. QED
        BY <2>1, <4>1
    <3>2. CASE j = l
      <4>1. i \in R /\ t[i] = s[i] /\ t[j] = e
        BY <1>3, <1>4, <3>0, <3>1, <3>2
      <4>. QED
        BY <2>4, <4>1 DEF HyNums
    <3>3. CASE j \in R
      BY <1>3, <2>4, <3>0, <3>1, <3>3 DEF HyOrdered
    <3>. QED
      BY <2>1, <3>2, <3>3
  <2>. QED
    BY <1>1, <1>5, <2>2, <2>3, <2>4 DEF t, Q, R
<1>6. CASE ~(e.nick = n /\ e.chan = c)
  <2>1. Q = R
    BY <1>2, <1>6
  <2>2. HyNums(t, Q) = HyNums(s, R)
    BY <1>3, <2>1 DEF HyNums
  <2>3. HyOrdered(s, R) => HyOrdered(t, Q)
    BY <1>3, <2>1 DEF HyOrdered
  <2>. QED
    BY <1>1, <1>6, <2>1, <2>2, <2>3 DEF t, Q, R
<1>. QED
  BY <1>5, <1>6

\* Rows whose numbers go up are as many as their numbers.
LEMMA HyCounted ==
  ASSUME NEW s \in Seq(HyRow), NEW R, R \subseteq 1 .. Len(s), HyOrdered(s, R),
         NEW a \in Nat, NEW b \in Nat, a <= b, HyNums(s, R) = a + 1 .. b
  PROVE  Cardinality(R) = b - a
<1>0. /\ Len(s) \in Nat /\ DOMAIN s = 1 .. Len(s)
      /\ \A i \in 1 .. Len(s) : s[i].number \in Nat /\ i \in Nat
  BY HyTable
<1>1. IsFiniteSet(R)
  <2>1. 1 \in Int /\ Len(s) \in Int
    BY <1>0
  <2>2. IsFiniteSet(1 .. Len(s))
    BY <2>1, FS_Interval
  <2>. QED
    BY <2>2, FS_Subset
<1>2. \A i \in R : i \in Nat /\ s[i].number \in Nat
  BY <1>0
<1> DEFINE f == [i \in R |-> s[i].number]
<1>3. f \in [R -> a + 1 .. b]
  BY DEF HyNums
<1>4. \A x, y \in R : f[x] = f[y] => x = y
  <2> SUFFICES ASSUME NEW x \in R, NEW y \in R, x # y PROVE s[x].number # s[y].number
    OBVIOUS
  <2>1. CASE x < y
    BY <1>2, <2>1 DEF HyOrdered
  <2>2. CASE y < x
    BY <1>2, <2>2 DEF HyOrdered
  <2>. QED
    BY <1>2, <2>1, <2>2
<1>5. \A k \in a + 1 .. b : \E i \in R : f[i] = k
  BY DEF HyNums
<1> HIDE DEF f
<1> DEFINE T == a + 1 .. b
<1>6. Cardinality(T) = Cardinality(R)
  <2> HIDE DEF T
  <2>1. f \in [R -> T] /\ \A k \in T : \E i \in R : f[i] = k
    BY <1>3, <1>5 DEF T
  <2>. QED
    BY <1>1, <1>4, <2>1, SameSize
<1>7. a + 1 \in Int /\ b \in Int
  OBVIOUS
<1>8. Cardinality(a + 1 .. b) = IF a + 1 > b THEN 0 ELSE b - (a + 1) + 1
  BY <1>7, FS_Interval
<1>. QED
  BY <1>6, <1>8

HyFirst(given) == IF given > HyLimit THEN given - HyLimit ELSE 0

\* What is kept of a group and a channel.
HyGood(n, c) ==
    /\ Cardinality(RowsOf(hyRows, n, c)) <= HyLimit + hyKept
    /\ <<n, c>> \notin hyFailed =>
          /\ HyNums(hyRows, RowsOf(hyRows, n, c)) = HyFirst(hyGiven[<<n, c>>]) + 1 .. hyGiven[<<n, c>>]
          /\ HyOrdered(hyRows, RowsOf(hyRows, n, c))

HyInv == HistoryTypeOK /\ \A n \in HyNick, c \in HyChan : HyGood(n, c)

LEMMA HyTypes ==
  ASSUME HistoryTypeOK
  PROVE  /\ hyRows \in Seq(HyRow) /\ hyKept \in Nat /\ HyLimit \in Nat /\ HyLimit > 0
         /\ HyMaxCommands \in Nat /\ hyUp \in BOOLEAN
         /\ \A n \in HyNick, c \in HyChan :
               <<n, c>> \in HyPair /\ hyGiven[<<n, c>>] \in Nat /\ hyGiven[<<n, c>>] <= HyMaxCommands
BY HyNumbers DEF HistoryTypeOK, HyRow, HyPair

\* What is written down, for the group and the channel themselves.
LEMMA HySaved ==
  ASSUME HyInv, NEW n \in HyNick, NEW c \in HyChan, NEW fails, SaveHistory(n, c, fails)
  PROVE  hyRows' \in Seq(HyRow) /\ \A m \in HyNick, d \in HyChan : HyGood(m, d)'
<1> DEFINE R == RowsOf(hyRows, n, c)
           full == Cardinality(R) >= HyLimit
           p == Oldest(n, c)
           kept == IF "delete" \in fails \/ ~full THEN hyRows ELSE RemoveAt(hyRows, p)
           given == hyGiven[<<n, c>>]
           row == [nick |-> n, chan |-> c, number |-> given + 1]
<1>0. /\ HistoryTypeOK /\ hyRows \in Seq(HyRow) /\ hyKept \in Nat /\ HyLimit \in Nat /\ HyLimit > 0
      /\ given \in Nat
  BY HyTypes DEF HyInv
<1>1. /\ R \subseteq 1 .. Len(hyRows) /\ IsFiniteSet(R) /\ Cardinality(R) \in Nat
      /\ DOMAIN hyRows = 1 .. Len(hyRows) /\ Len(hyRows) \in Nat
      /\ \A i \in 1 .. Len(hyRows) : hyRows[i].number \in Nat
  BY <1>0, HyTable
<1>2. /\ hyRows' = IF "insert" \in fails THEN kept ELSE Append(kept, row)
      /\ hyGiven' = [hyGiven EXCEPT ![<<n, c>>] = given + 1]
      /\ hyFailed' = IF fails = {} THEN hyFailed ELSE hyFailed \cup {<<n, c>>}
      /\ hyKept' = IF "delete" \in fails THEN hyKept + 1 ELSE hyKept
      /\ "delete" \in fails => full
  BY DEF SaveHistory, Trimmed
<1>3. row \in HyRow /\ row.nick = n /\ row.chan = c /\ row.number = given + 1
  BY <1>0 DEF HyRow
<1>4. full => p \in R /\ \A j \in R : p <= j
  <2>1. ASSUME full PROVE R # {}
    <3>1. Cardinality({}) = 0
      BY FS_EmptySet
    <3>2. Cardinality(R) # 0
      BY <1>0, <2>1
    <3> HIDE DEF R
    <3>. QED
      BY <3>1, <3>2
  <2>2. R \subseteq Nat
    BY <1>1
  <2>. QED
    BY <2>1, <2>2, LeastNat DEF Oldest
<1>5. hyKept' \in Nat /\ hyKept' >= hyKept
  BY <1>0, <1>2
<1> HIDE DEF p, row
<1>6. kept \in Seq(HyRow)
  BY <1>0, <1>1, <1>4, HyRemoved
<1>7. hyRows' \in Seq(HyRow)
  BY <1>2, <1>3, <1>6, HyAppended
<1>8. "delete" \in fails \/ ~full => kept = hyRows
  OBVIOUS
<1>9. "delete" \notin fails /\ full => kept = RemoveAt(hyRows, p) /\ p \in DOMAIN hyRows /\ p \in R
  BY <1>1, <1>4
<1> HIDE DEF kept, full, given
<1>10. ASSUME NEW m \in HyNick, NEW d \in HyChan, <<m, d>> # <<n, c>> PROVE HyGood(m, d)'
  <2> DEFINE S == RowsOf(hyRows, m, d)
             K == RowsOf(kept, m, d)
             Q == RowsOf(hyRows', m, d)
  <2>0. ~(n = m /\ c = d)
    BY <1>10
  <2>1. /\ Cardinality(K) = Cardinality(S) /\ HyNums(kept, K) = HyNums(hyRows, S)
        /\ HyOrdered(hyRows, S) => HyOrdered(kept, K)
    <3>1. CASE "delete" \in fails \/ ~full
      BY <1>8, <3>1
    <3>2. CASE "delete" \notin fails /\ full
      <4>1. p \notin S
        BY <1>9, <2>0, <3>2 DEF RowsOf
      <4>2. S \ {p} = S
        BY <4>1
      <4> HIDE DEF S
      <4>. QED
        BY <1>0, <1>9, <3>2, <4>2, HyRemoved DEF S
    <3>. QED
      BY <3>1, <3>2
  <2>2. /\ Cardinality(Q) = Cardinality(K) /\ HyNums(hyRows', Q) = HyNums(kept, K)
        /\ HyOrdered(kept, K) => HyOrdered(hyRows', Q)
    <3>1. CASE "insert" \in fails
      BY <1>2, <3>1
    <3>2. CASE "insert" \notin fails
      <4>1. hyRows' = Append(kept, row) /\ ~(row.nick = m /\ row.chan = d)
        BY <1>2, <1>3, <2>0, <3>2
      <4>. QED
        BY <1>3, <1>6, <4>1, HyAppended
    <3>. QED
      BY <3>1, <3>2
  <2>3. hyGiven'[<<m, d>>] = hyGiven[<<m, d>>]
    BY <1>0, <1>2, <1>10 DEF HistoryTypeOK, HyPair
  <2>4. <<m, d>> \notin hyFailed' => <<m, d>> \notin hyFailed
    BY <1>2
  <2>5. HyGood(m, d) /\ Cardinality(S) \in Nat
    BY <1>0, HyTable DEF HyInv
  <2>6. Cardinality(Q) <= HyLimit + hyKept'
    BY <1>0, <1>5, <2>1, <2>2, <2>5 DEF HyGood
  <2>7. <<m, d>> \notin hyFailed' =>
           /\ HyNums(hyRows', Q) = HyFirst(hyGiven'[<<m, d>>]) + 1 .. hyGiven'[<<m, d>>]
           /\ HyOrdered(hyRows', Q)
    BY <2>1, <2>2, <2>3, <2>4, <2>5 DEF HyGood
  <2>. QED
    BY <2>6, <2>7 DEF HyGood, HyFirst, HyNums, HyOrdered, RowsOf
<1>11. HyGood(n, c)'
  <2> DEFINE K == RowsOf(kept, n, c)
             Q == RowsOf(hyRows', n, c)
  <2>1. HyGood(n, c)
    BY DEF HyInv
  <2>2. /\ Cardinality(K) \in Nat /\ Cardinality(K) + 1 <= HyLimit + hyKept'
    <3>0. Cardinality(K) \in Nat
      BY <1>6, HyTable
    <3>1. CASE "delete" \in fails
      <4>1. K = R /\ hyKept' = hyKept + 1
        BY <1>2, <1>8, <3>1
      <4>. QED
        BY <1>0, <1>1, <2>1, <3>0, <4>1 DEF HyGood
    <3>2. CASE "delete" \notin fails /\ ~full
      <4>1. K = R /\ hyKept' = hyKept /\ ~(Cardinality(R) >= HyLimit)
        BY <1>2, <1>8, <3>2 DEF full
      <4>. QED
        BY <1>0, <1>1, <3>0, <4>1
    <3>3. CASE "delete" \notin fails /\ full
      <4>1. Cardinality(K) = Cardinality(R \ {p})
        BY <1>0, <1>9, <3>3, HyRemoved
      <4>2. Cardinality(R \ {p}) = Cardinality(R) - 1
        BY <1>1, <1>9, <3>3, FS_RemoveElement
      <4>3. hyKept' = hyKept
        BY <1>2, <3>3
      <4>. QED
        BY <1>0, <1>1, <2>1, <3>0, <4>1, <4>2, <4>3 DEF HyGood
    <3>. QED
      BY <3>1, <3>2, <3>3
  <2>3. Cardinality(Q) <= HyLimit + hyKept'
    <3>1. CASE "insert" \in fails
      BY <1>0, <1>2, <1>5, <2>2, <3>1
    <3>2. CASE "insert" \notin fails
      <4>1. hyRows' = Append(kept, row)
        BY <1>2, <3>2
      <4>2. Cardinality(Q) = Cardinality(K) + 1
        BY <1>3, <1>6, <4>1, HyAppended
      <4>. QED
        BY <2>2, <4>2
    <3>. QED
      BY <3>1, <3>2
  <2>4. hyGiven'[<<n, c>>] = given + 1
    BY <1>0, <1>2 DEF HistoryTypeOK, HyPair
  <2>5. ASSUME <<n, c>> \notin hyFailed'
        PROVE  /\ HyNums(hyRows', Q) = HyFirst(given + 1) + 1 .. given + 1
               /\ HyOrdered(hyRows', Q)
    <3> DEFINE first == HyFirst(given)
    <3>1. fails = {} /\ <<n, c>> \notin hyFailed
      BY <1>2, <2>5
    <3>2. HyNums(hyRows, R) = first + 1 .. given /\ HyOrdered(hyRows, R)
      BY <2>1, <3>1 DEF HyGood, given
    <3>3. first \in Nat /\ first <= given /\ (given > HyLimit => first = given - HyLimit)
          /\ (given <= HyLimit => first = 0)
      BY <1>0 DEF HyFirst
    <3> HIDE DEF first, R
    <3>4. Cardinality(R) = given - first
      <4>1. /\ hyRows \in Seq(HyRow) /\ R \subseteq 1 .. Len(hyRows) /\ HyOrdered(hyRows, R)
            /\ first \in Nat /\ given \in Nat /\ first <= given /\ HyNums(hyRows, R) = first + 1 .. given
        BY <1>0, <1>1, <3>2, <3>3
      <4>. QED
        BY <4>1, HyCounted
    <3>5. hyRows' = Append(kept, row)
      BY <1>2, <3>1
    <3>6. HyNums(kept, K) = HyFirst(given + 1) + 1 .. given /\ HyOrdered(kept, K)
      <4>1. CASE ~full
        <5>1. given < HyLimit /\ first = 0 /\ HyFirst(given + 1) = 0
          BY <1>0, <3>3, <3>4, <4>1 DEF full, HyFirst
        <5>2. K = R /\ kept = hyRows
          BY <1>8, <4>1 DEF R
        <5>. QED
          BY <3>2, <5>1, <5>2
      <4>2. CASE full
        <5>1. given >= HyLimit /\ first = given - HyLimit /\ HyFirst(given + 1) = first + 1
          BY <1>0, <3>3, <3>4, <4>2 DEF full, HyFirst
        <5>2. p \in R /\ p \in DOMAIN hyRows /\ kept = RemoveAt(hyRows, p)
          BY <1>9, <3>1, <4>2
        <5>3. HyNums(kept, K) = HyNums(hyRows, R \ {p}) /\ HyOrdered(kept, K)
          BY <1>0, <3>2, <5>2, HyRemoved DEF R
        <5>4. \A j \in R : hyRows[j].number \in first + 1 .. given
          BY <3>2 DEF HyNums
        <5>5. \A j \in R : j # p => hyRows[p].number < hyRows[j].number
          <6>0. R \subseteq Nat
            BY <1>1
          <6>1. \A j \in R : j \in Nat /\ p \in Nat /\ p <= j
            BY <1>4, <4>2, <5>2, <6>0
          <6>2. \A j \in R : j # p => p < j
            BY <6>1
          <6>. QED
            BY <3>2, <5>2, <6>2 DEF HyOrdered
        <5>6. hyRows[p].number = first + 1
          <6>1. first + 1 \in first + 1 .. given
            BY <1>0, <3>3, <5>1
          <6>2. PICK k \in R : hyRows[k].number = first + 1
            BY <3>2, <6>1 DEF HyNums
          <6>3. hyRows[p].number \in first + 1 .. given
            BY <5>2, <5>4
          <6>. QED
            BY <1>0, <3>3, <5>5, <6>2, <6>3
        <5>7. ASSUME NEW j \in R \ {p} PROVE hyRows[j].number \in first + 1 + 1 .. given
          <6>1. hyRows[j].number \in first + 1 .. given /\ first + 1 < hyRows[j].number
            BY <5>4, <5>5, <5>6
          <6>. QED
            BY <1>0, <3>3, <6>1
        <5>8. ASSUME NEW k \in first + 1 + 1 .. given PROVE \E j \in R \ {p} : hyRows[j].number = k
          <6>1. k \in first + 1 .. given /\ k # first + 1
            BY <1>0, <3>3
          <6>2. PICK j \in R : hyRows[j].number = k
            BY <3>2, <6>1 DEF HyNums
          <6>. QED
            BY <5>6, <6>1, <6>2
        <5>9. HyNums(hyRows, R \ {p}) = first + 1 + 1 .. given
          BY <5>7, <5>8 DEF HyNums
        <5>. QED
          BY <5>1, <5>3, <5>9
      <4>. QED
        BY <4>1, <4>2
    <3> DEFINE next == HyFirst(given + 1)
    <3>7. next \in Nat /\ next <= given
      BY <1>0 DEF HyFirst
    <3> HIDE DEF next
    <3>8. \A k \in HyNums(kept, K) : k < given + 1
      BY <1>0, <3>6, <3>7 DEF next
    <3>9. HyNums(hyRows', Q) = HyNums(kept, K) \cup {given + 1} /\ HyOrdered(hyRows', Q)
      <4> DEFINE more == Append(kept, row)
      <4>1. /\ HyNums(more, RowsOf(more, n, c)) = HyNums(kept, K) \cup {row.number}
            /\ HyOrdered(kept, K) /\ (\A k \in HyNums(kept, K) : k < row.number) => HyOrdered(more, RowsOf(more, n, c))
        BY <1>3, <1>6, HyAppended
      <4> HIDE DEF more
      <4>2. hyRows' = more /\ row.number = given + 1
        BY <1>3, <3>5 DEF more
      <4>. QED
        BY <3>6, <3>8, <4>1, <4>2
    <3>10. (next + 1 .. given) \cup {given + 1} = next + 1 .. given + 1
      BY <1>0, <3>7
    <3>. QED
      BY <3>6, <3>9, <3>10 DEF next
  <2>. QED
    BY <2>3, <2>4, <2>5 DEF HyGood, HyFirst, HyNums, HyOrdered, RowsOf
<1>. QED
  <2>1. ASSUME NEW m \in HyNick, NEW d \in HyChan PROVE HyGood(m, d)'
    <3>1. CASE <<m, d>> = <<n, c>>
      <4>1. m = n /\ d = c
        BY <3>1
      <4>. QED
        BY <1>11, <4>1
    <3>2. CASE <<m, d>> # <<n, c>>
      BY <1>10, <3>2
    <3>. QED
      BY <3>1, <3>2
  <2>. QED
    BY <1>7, <2>1

LEMMA HySteps == HyInv /\ [HistoryNext]_hyVars => HyInv'
<1> SUFFICES ASSUME HyInv, [HistoryNext]_hyVars PROVE HyInv'
  OBVIOUS
<1>0. HistoryTypeOK /\ HyMaxCommands \in Nat
  BY HyNumbers DEF HyInv
<1>1. ASSUME NEW n \in HyNick, NEW c \in HyChan, NEW fails \in SUBSET {"delete", "insert"},
             SaveHistory(n, c, fails)
      PROVE  HyInv'
  <2>1. hyRows' \in Seq(HyRow) /\ \A m \in HyNick, d \in HyChan : HyGood(m, d)'
    BY <1>1, HySaved
  <2>2. /\ hyGiven' = [hyGiven EXCEPT ![<<n, c>>] = @ + 1] /\ hyGiven[<<n, c>>] < HyMaxCommands
        /\ hyFailed' = IF fails = {} THEN hyFailed ELSE hyFailed \cup {<<n, c>>}
        /\ hyKept' = IF "delete" \in fails THEN hyKept + 1 ELSE hyKept
        /\ UNCHANGED <<hyRegistered, hyUp>>
    BY <1>1 DEF SaveHistory
  <2>3. <<n, c>> \in HyPair
    BY DEF HyPair
  <2>4. hyGiven' \in [HyPair -> 0 .. HyMaxCommands]
    BY <1>0, <2>2, <2>3 DEF HistoryTypeOK
  <2>5. HistoryTypeOK'
    <3>1. hyRows' \in Seq([nick : HyNick, chan : HyChan, number : Nat])
      BY <2>1 DEF HyRow
    <3>2. hyFailed' \subseteq HyPair /\ hyKept' \in Nat
      <4>1. hyFailed \subseteq HyPair /\ hyKept \in Nat
        BY <1>0 DEF HistoryTypeOK
      <4>2. hyFailed' = hyFailed \/ hyFailed' = hyFailed \cup {<<n, c>>}
        BY <2>2
      <4>3. hyKept' = hyKept \/ hyKept' = hyKept + 1
        BY <2>2
      <4>. QED
        BY <2>3, <4>1, <4>2, <4>3
    <3>3. hyRegistered' \subseteq HyChan /\ hyUp' \in BOOLEAN
      BY <1>0, <2>2 DEF HistoryTypeOK
    <3>. QED
      BY <2>4, <3>1, <3>2, <3>3 DEF HistoryTypeOK
  <2>. QED
    BY <2>1, <2>5 DEF HyInv
<1>2. ASSUME NEW n \in HyNick, NEW c \in HyChan, HistoryClosed(n, c) PROVE HyInv'
  <2>1. /\ hyGiven' = [hyGiven EXCEPT ![<<n, c>>] = @ + 1] /\ hyGiven[<<n, c>>] < HyMaxCommands
        /\ hyFailed' = hyFailed \cup {<<n, c>>}
        /\ UNCHANGED <<hyRows, hyKept, hyRegistered, hyUp>>
    BY <1>2 DEF HistoryClosed
  <2>2. <<n, c>> \in HyPair
    BY DEF HyPair
  <2>3. hyGiven' \in [HyPair -> 0 .. HyMaxCommands]
    BY <1>0, <2>1, <2>2 DEF HistoryTypeOK
  <2>4. HistoryTypeOK'
    BY <1>0, <2>1, <2>2, <2>3 DEF HistoryTypeOK
  <2>5. ASSUME NEW m \in HyNick, NEW d \in HyChan PROVE HyGood(m, d)'
    <3>1. HyGood(m, d)
      BY DEF HyInv
    <3>2. <<m, d>> \in HyPair
      BY DEF HyPair
    <3>3. <<m, d>> \notin hyFailed' => <<m, d>> \notin hyFailed /\ <<m, d>> # <<n, c>>
      BY <2>1
    <3>4. <<m, d>> # <<n, c>> => hyGiven'[<<m, d>>] = hyGiven[<<m, d>>]
      BY <1>0, <2>1, <3>2 DEF HistoryTypeOK
    <3>. QED
      BY <2>1, <3>1, <3>3, <3>4 DEF HyGood, HyFirst, HyNums, HyOrdered, RowsOf
  <2>. QED
    BY <2>4, <2>5 DEF HyInv
<1>3. ASSUME UNCHANGED <<hyRows, hyGiven, hyFailed, hyKept>>,
             hyRegistered' \subseteq HyChan, hyUp' \in BOOLEAN
      PROVE  HyInv'
  <2>1. HistoryTypeOK'
    BY <1>0, <1>3 DEF HistoryTypeOK
  <2>2. ASSUME NEW m \in HyNick, NEW d \in HyChan PROVE HyGood(m, d)'
    <3>1. HyGood(m, d)
      BY DEF HyInv
    <3>. QED
      BY <1>3, <3>1 DEF HyGood, HyFirst, HyNums, HyOrdered, RowsOf
  <2>. QED
    BY <2>1, <2>2 DEF HyInv
<1>4. hyRegistered \subseteq HyChan /\ hyUp \in BOOLEAN
  BY <1>0 DEF HistoryTypeOK
<1>5. ASSUME NEW c \in HyChan, HistoryRegister(c) PROVE HyInv'
  BY <1>3, <1>4, <1>5 DEF HistoryRegister
<1>6. CASE HistoryCrashes \/ HistoryRestart
  BY <1>3, <1>4, <1>6 DEF HistoryCrashes, HistoryRestart
<1>7. CASE UNCHANGED hyVars
  BY <1>3, <1>4, <1>7 DEF hyVars
<1>. QED
  BY <1>1, <1>2, <1>5, <1>6, <1>7 DEF HistoryNext

LEMMA HyStarts == HistoryInit => HyInv
<1> SUFFICES ASSUME HistoryInit PROVE HyInv
  OBVIOUS
<1>1. /\ hyRows = << >> /\ hyGiven = [q \in HyPair |-> 0] /\ hyFailed = {} /\ hyKept = 0
      /\ hyRegistered = HyChan /\ hyUp = TRUE /\ HyLimit \in Nat /\ HyMaxCommands \in Nat
  BY HyNumbers DEF HistoryInit
<1>2. HistoryTypeOK
  BY <1>1 DEF HistoryTypeOK
<1>3. ASSUME NEW n \in HyNick, NEW c \in HyChan PROVE HyGood(n, c)
  <2>1. RowsOf(hyRows, n, c) = {}
    BY <1>1 DEF RowsOf
  <2>2. Cardinality({}) = 0 /\ hyGiven[<<n, c>>] = 0
    BY <1>1, FS_EmptySet DEF HyPair
  <2>3. HyFirst(0) = 0 /\ 0 + 1 .. 0 = {}
    BY <1>1 DEF HyFirst
  <2>. QED
    <3>1. HyNums(hyRows, {}) = {} /\ HyOrdered(hyRows, {})
      BY DEF HyNums, HyOrdered
    <3>. QED
      <4>1. Cardinality(RowsOf(hyRows, n, c)) <= HyLimit + hyKept
        <5>1. Cardinality(RowsOf(hyRows, n, c)) = 0
          BY <2>1, <2>2, Zenon
        <5>2. 0 <= HyLimit + hyKept
          BY <1>1
        <5>. QED
          BY <5>1, <5>2
      <4>2. HyNums(hyRows, RowsOf(hyRows, n, c)) = HyFirst(hyGiven[<<n, c>>]) + 1 .. hyGiven[<<n, c>>]
        BY <2>1, <2>2, <2>3, <3>1
      <4>3. HyOrdered(hyRows, RowsOf(hyRows, n, c))
        BY <2>1, <3>1
      <4>. QED
        BY <4>1, <4>2, <4>3 DEF HyGood
<1>. QED
  BY <1>2, <1>3 DEF HyInv

LEMMA HyLast == HyInv => LastCommandsKept
BY DEF HyInv, HyGood, HyNums, HyOrdered, HyFirst, LastCommandsKept, LastCmds

-----------------------------------------------------------------------------
(* Topics (ChanTopics).                                                    *)

LEMMA CtTypes == ChanTopicsTypeOK /\ [ChanTopicsNext]_ctVars => ChanTopicsTypeOK'
<1> SUFFICES ASSUME ChanTopicsTypeOK, [ChanTopicsNext]_ctVars PROVE ChanTopicsTypeOK'
  OBVIOUS
<1>0. /\ ctTopic \in CtMaybe /\ ctNet \in CtMaybe /\ ctLast \in CtMaybe /\ CtNone \in CtMaybe
      /\ ctExists \in BOOLEAN /\ ctUsers \in BOOLEAN /\ ctStays \in BOOLEAN
      /\ ctLock \in BOOLEAN /\ ctKeep \in BOOLEAN /\ ctReadonly \in BOOLEAN
  BY DEF ChanTopicsTypeOK, CtMaybe
<1>1. CASE RestoreTopic \/ CtJoin \/ CtEmpties
  BY <1>0, <1>1 DEF RestoreTopic, CtJoin, CtEmpties, CtOptions, ChanTopicsTypeOK
<1>2. CASE CtCsJoin \/ CtCsPart \/ CtRestart \/ CtReadonly
  BY <1>0, <1>2 DEF CtCsJoin, CtCsPart, CtRestart, CtReadonly, CtOptions, CtChannel, ChanTopicsTypeOK
<1>3. ASSUME NEW topic \in CtMaybe, DoTopic(topic) PROVE ChanTopicsTypeOK'
  <2>1. ctTopic' \in CtMaybe /\ ctNet' \in CtMaybe /\ ctLast' \in CtMaybe
    BY <1>0, <1>3 DEF DoTopic, CheckTopiclock, RecordTopic
  <2>2. UNCHANGED <<ctExists, ctUsers, ctStays, ctLock, ctKeep, ctReadonly>>
    BY <1>3 DEF DoTopic, CtOptions
  <2>. QED
    BY <1>0, <2>1, <2>2 DEF ChanTopicsTypeOK
<1>4. ASSUME NEW topic \in CtMaybe, CsTopic(topic) PROVE ChanTopicsTypeOK'
  <2>1. ctTopic' \in CtMaybe /\ ctNet' \in CtMaybe /\ ctLast' \in CtMaybe
    BY <1>0, <1>4 DEF CsTopic
  <2>2. UNCHANGED <<ctExists, ctUsers, ctStays, ctLock, ctKeep, ctReadonly>>
    BY <1>4 DEF CsTopic, CtOptions
  <2>. QED
    BY <1>0, <2>1, <2>2 DEF ChanTopicsTypeOK
<1>5. ASSUME NEW on \in BOOLEAN, SetTopiclock(on) PROVE ChanTopicsTypeOK'
  <2>1. ctLock' = on /\ UNCHANGED <<ctTopic, ctNet, ctLast, ctExists, ctUsers, ctStays, ctKeep, ctReadonly>>
    BY <1>5 DEF SetTopiclock, CtChannel
  <2>2. ctLock' \in BOOLEAN
    BY <1>5, <2>1, Zenon
  <2>. QED
    BY <1>0, <2>1, <2>2 DEF ChanTopicsTypeOK
<1>6. CASE UNCHANGED ctVars
  BY <1>0, <1>6 DEF ctVars, ChanTopicsTypeOK
<1>. QED
  BY <1>1, <1>2, <1>3, <1>4, <1>5, <1>6 DEF ChanTopicsNext

LEMMA CtStarts == ChanTopicsInit => ChanTopicsTypeOK
BY DEF ChanTopicsInit, ChanTopicsTypeOK, CtMaybe

CtStep ==
    (ctExists /\ ctExists') =>
        /\ (TopicRecorded /\ ~ctReadonly) => TopicRecorded'
        /\ TopicOnNetwork => (TopicOnNetwork' \/ ~CtOpen)
        /\ (ctLock /\ ctTopic' # ctTopic) =>
              (ctTopic' = ctLast \/ \E topic \in CtMaybe : CsTopic(topic))

\* A topic that somebody sets is recorded or taken back, and the network has
\* what services then know.
LEMMA CtLocks == [ChanTopicsNext]_ctVars => [CtStep]_ctVars
<1> SUFFICES ASSUME ChanTopicsNext, ctExists, ctExists' PROVE CtStep
  BY DEF CtStep
<1>1. CASE RestoreTopic \/ CtRestart
  BY <1>1 DEF RestoreTopic, CtRestart, CtStep
<1>2. ASSUME CtJoin \/ CtEmpties \/ CtCsJoin \/ CtCsPart \/ CtReadonly PROVE CtStep
  <2>1. ctTopic' = ctTopic /\ ctLast' = ctLast
    BY <1>2 DEF CtJoin, CtEmpties, CtCsJoin, CtCsPart, CtReadonly, CtChannel
  <2>2. TopicOnNetwork /\ CtOpen => TopicOnNetwork'
    BY <1>2, <2>1 DEF CtJoin, CtEmpties, CtCsJoin, CtCsPart, CtReadonly, CtChannel, TopicOnNetwork, CtOpen
  <2>. QED
    BY <2>1, <2>2 DEF CtStep, TopicRecorded
<1>3. ASSUME NEW topic \in CtMaybe, DoTopic(topic) PROVE CtStep
  BY <1>3 DEF DoTopic, CheckTopiclock, RecordTopic, CtStep, TopicRecorded, TopicOnNetwork, CtOpen
<1>4. ASSUME NEW topic \in CtMaybe, CsTopic(topic) PROVE CtStep
  <2>1. ctTopic' = topic /\ ctLast' = topic
    BY <1>4 DEF CsTopic
  <2>2. TopicRecorded'
    BY <2>1 DEF TopicRecorded
  <2>3. TopicOnNetwork'
    BY <1>4 DEF CsTopic, TopicOnNetwork, CtOpen
  <2>. QED
    BY <1>4, <2>2, <2>3, Zenon DEF CtStep
<1>5. ASSUME NEW on, SetTopiclock(on) PROVE CtStep
  BY <1>5 DEF SetTopiclock, CtChannel, CtStep, TopicRecorded, TopicOnNetwork, CtOpen
<1>. QED
  BY <1>1, <1>2, <1>3, <1>4, <1>5 DEF ChanTopicsNext

-----------------------------------------------------------------------------
(* The modes of a DEFCON (DefCon).                                         *)

DcChan == [modes: SUBSET DcMode, on: SUBSET DcMode, off: SUBSET DcMode, bouncy: BOOLEAN]

\* A channel never demands and forbids a mode, and has those it demands unless
\* services have given it up; none of them is there because of a DEFCON.
DcGood(ch, forced) ==
    /\ ch.on \cap ch.off = {}
    /\ ch.bouncy = FALSE => ch.on \subseteq ch.modes
    /\ forced \cap ch.on = {}

DcInv == DefConTypeOK /\ \A c \in DcChannels : DcGood(dcChan[c], dcForced[c])

LEMMA DcFields ==
  ASSUME NEW ch \in DcChan
  PROVE  /\ ch.modes \subseteq DcMode /\ ch.on \subseteq DcMode /\ ch.off \subseteq DcMode
         /\ ch.bouncy \in BOOLEAN
         /\ ch = [modes |-> ch.modes, on |-> ch.on, off |-> ch.off, bouncy |-> ch.bouncy]
BY DEF DcChan

\* chan_set_modes() and its check, when the channel bounces and when not.
DcSet(ch, add, modes) == IF add THEN ch.modes \cup modes ELSE ch.modes \ modes
DcWith(ch, add, modes) == [ch EXCEPT !.modes = IF add THEN @ \cup modes ELSE @ \ modes]
DcBounced(ch, add, modes) == [DcWith(ch, add, modes) EXCEPT !.bouncy = TRUE]
DcLocked(ch, add, modes) == [DcWith(ch, add, modes) EXCEPT !.modes = (@ \cup ch.on) \ ch.off]

LEMMA DcForces ==
  ASSUME NEW ch \in DcChan, NEW add \in BOOLEAN, NEW modes, modes \subseteq DcMode
  PROVE  /\ DcBounced(ch, add, modes) =
               [modes |-> DcSet(ch, add, modes), on |-> ch.on, off |-> ch.off, bouncy |-> TRUE]
         /\ DcBounced(ch, add, modes) \in DcChan
         /\ DcLocked(ch, add, modes) =
               [modes |-> (DcSet(ch, add, modes) \cup ch.on) \ ch.off,
                on |-> ch.on, off |-> ch.off, bouncy |-> ch.bouncy]
         /\ DcLocked(ch, add, modes) \in DcChan
<1>0. /\ ch.modes \subseteq DcMode /\ ch.on \subseteq DcMode /\ ch.off \subseteq DcMode /\ ch.bouncy \in BOOLEAN
      /\ ch = [modes |-> ch.modes, on |-> ch.on, off |-> ch.off, bouncy |-> ch.bouncy]
  BY DcFields
<1>1. DcWith(ch, add, modes) = [modes |-> DcSet(ch, add, modes), on |-> ch.on, off |-> ch.off, bouncy |-> ch.bouncy]
  BY <1>0 DEF DcWith, DcSet
<1>2. DcSet(ch, add, modes) \subseteq DcMode
  BY <1>0 DEF DcSet
<1> DEFINE w == DcWith(ch, add, modes)
           st == DcSet(ch, add, modes)
<1> HIDE DEF w, st
<1>a. w = [modes |-> st, on |-> ch.on, off |-> ch.off, bouncy |-> ch.bouncy]
  BY <1>1 DEF w, st
<1>b. [w EXCEPT !.bouncy = TRUE] = [modes |-> st, on |-> ch.on, off |-> ch.off, bouncy |-> TRUE]
  <2>1. \A x : [w EXCEPT !.bouncy = x] = [modes |-> st, on |-> ch.on, off |-> ch.off, bouncy |-> x]
    BY <1>a
  <2>. QED
    BY <2>1, Zenon
<1>c. [w EXCEPT !.modes = (@ \cup ch.on) \ ch.off] =
         [modes |-> (st \cup ch.on) \ ch.off, on |-> ch.on, off |-> ch.off, bouncy |-> ch.bouncy]
  BY <1>a
<1>3. DcBounced(ch, add, modes) = [modes |-> DcSet(ch, add, modes), on |-> ch.on, off |-> ch.off, bouncy |-> TRUE]
  BY <1>b, Zenon DEF DcBounced, w, st
<1>4. DcLocked(ch, add, modes) = [modes |-> (DcSet(ch, add, modes) \cup ch.on) \ ch.off,
                                  on |-> ch.on, off |-> ch.off, bouncy |-> ch.bouncy]
  BY <1>c, Zenon DEF DcLocked, w, st
<1>5. DcBounced(ch, add, modes) \in DcChan
  BY <1>0, <1>2, <1>3 DEF DcChan
<1>6. DcLocked(ch, add, modes) \in DcChan
  BY <1>0, <1>2, <1>4 DEF DcChan
<1>. QED
  BY <1>3, <1>4, <1>5, <1>6

\* Which channels do_mass_mode() reaches.
LEMMA DcReached ==
  ASSUME NEW chans
  PROVE  /\ Reached(chans) \subseteq DcChannels
         /\ \A c \in Reached(chans) : ~chans[c].bouncy
         /\ (\A c \in DcChannels : ~chans[c].bouncy) => Reached(chans) = DcChannels
<1> DEFINE stops == {i \in DOMAIN DcOrder : chans[DcOrder[i]].bouncy}
<1>1. Reached(chans) = {DcOrder[i] : i \in {i \in DOMAIN DcOrder : \A j \in stops : i < j}}
  BY DEF Reached
<1>2. DcChannels = {DcOrder[i] : i \in DOMAIN DcOrder}
  BY DEF DcChannels, ToSet
<1>3. ASSUME NEW i \in DOMAIN DcOrder, \A j \in stops : i < j PROVE ~chans[DcOrder[i]].bouncy
  <2>1. SUFFICES ASSUME chans[DcOrder[i]].bouncy PROVE FALSE
    OBVIOUS
  <2>2. i \in stops
    BY <2>1
  <2>3. i < i
    BY <1>3, <2>2
  <2>4. i \in Nat
    BY DcOrderAssumption
  <2>. QED
    BY <2>3, <2>4
<1>4. (\A c \in DcChannels : ~chans[c].bouncy) => stops = {}
  BY <1>2
<1> HIDE DEF stops
<1>. QED
  BY <1>1, <1>2, <1>3, <1>4

\* What do_mass_mode() makes of a channel.
DcMade(new, chans, add, modes) ==
    /\ new \in [DcChannels -> DcChan]
    /\ \A c \in DcChannels :
          /\ new[c].on = chans[c].on /\ new[c].off = chans[c].off
          /\ c \notin Reached(chans) => new[c] = chans[c]
          /\ c \in Reached(chans) =>
               \/ new[c].modes = DcSet(chans[c], add, modes) /\ new[c].bouncy = TRUE
               \/ new[c].modes = (DcSet(chans[c], add, modes) \cup chans[c].on) \ chans[c].off

LEMMA DcMass ==
  ASSUME NEW chans \in [DcChannels -> DcChan], NEW add \in BOOLEAN,
         NEW modes \in SUBSET DcMode, NEW bounces
  PROVE  DcMade(DoMassMode(chans, add, modes, bounces), chans, add, modes)
<1> DEFINE new == DoMassMode(chans, add, modes, bounces)
           made(c) == IF c \in Reached(chans) THEN Forced(chans[c], add, modes, c \in bounces) ELSE chans[c]
<1>1. new = [c \in DcChannels |-> made(c)]
  BY DEF DoMassMode
<1>2. ASSUME NEW c \in DcChannels
      PROVE  /\ made(c) \in DcChan
             /\ made(c).on = chans[c].on /\ made(c).off = chans[c].off
             /\ c \notin Reached(chans) => made(c) = chans[c]
             /\ c \in Reached(chans) =>
                  \/ made(c).modes = DcSet(chans[c], add, modes) /\ made(c).bouncy = TRUE
                  \/ made(c).modes = (DcSet(chans[c], add, modes) \cup chans[c].on) \ chans[c].off
  <2>1. chans[c] \in DcChan
    OBVIOUS
  <2>2. CASE c \notin Reached(chans)
    BY <2>1, <2>2
  <2>3. CASE c \in Reached(chans)
    <3>1. made(c) = IF c \in bounces THEN DcBounced(chans[c], add, modes)
                    ELSE DcLocked(chans[c], add, modes)
      BY <2>3 DEF Forced, DcBounced, DcLocked, DcWith
    <3> HIDE DEF made
    <3>3. /\ DcBounced(chans[c], add, modes) =
               [modes |-> DcSet(chans[c], add, modes), on |-> chans[c].on, off |-> chans[c].off, bouncy |-> TRUE]
          /\ DcBounced(chans[c], add, modes) \in DcChan
          /\ DcLocked(chans[c], add, modes) =
               [modes |-> (DcSet(chans[c], add, modes) \cup chans[c].on) \ chans[c].off,
                on |-> chans[c].on, off |-> chans[c].off, bouncy |-> chans[c].bouncy]
          /\ DcLocked(chans[c], add, modes) \in DcChan
      BY <2>1, DcForces
    <3>4. CASE c \in bounces
      <4>1. /\ made(c) \in DcChan /\ made(c).on = chans[c].on /\ made(c).off = chans[c].off
            /\ made(c).modes = DcSet(chans[c], add, modes) /\ made(c).bouncy = TRUE
        BY <3>1, <3>3, <3>4
      <4>. QED
        BY <2>3, <4>1, Zenon
    <3>5. CASE c \notin bounces
      <4>1. /\ made(c) \in DcChan /\ made(c).on = chans[c].on /\ made(c).off = chans[c].off
            /\ made(c).modes = (DcSet(chans[c], add, modes) \cup chans[c].on) \ chans[c].off
        BY <3>1, <3>3, <3>5
      <4>. QED
        BY <2>3, <4>1, Zenon
    <3>. QED
      BY <3>4, <3>5, Zenon
  <2>. QED
    BY <2>2, <2>3, Zenon
<1> HIDE DEF made, new
<1>3. new \in [DcChannels -> DcChan] /\ \A c \in DcChannels : new[c] = made(c)
  BY <1>1, <1>2
<1>. QED
  BY <1>2, <1>3, Zenon DEF DcMade, new

LEMMA DcStarts == DefConInit => DcInv
<1> SUFFICES ASSUME DefConInit PROVE DcInv
  OBVIOUS
<1>1. /\ dcLevel \in 1..5 /\ dcTimed \in BOOLEAN /\ dcConf \in DcConfs /\ dcModesSet \in BOOLEAN
      /\ dcForced \in [DcChannels -> SUBSET DcMode] /\ \A c \in DcChannels : dcForced[c] = {}
  BY DcForcingAssumption DEF DefConInit
<1>2. ASSUME NEW c \in DcChannels
      PROVE  dcChan[c] \in DcChan /\ dcChan[c].on = {} 
  <2>1. dcChan[c] \in [modes: {{}}, on: {{}}, off: {{}} \cup {{m} : m \in DcMode}, bouncy: {FALSE}]
    BY DEF DefConInit
  <2>2. \A x \in {{}} \cup {{m} : m \in DcMode} : x \subseteq DcMode
    OBVIOUS
  <2>3. /\ dcChan[c] = [modes |-> dcChan[c].modes, on |-> dcChan[c].on,
                        off |-> dcChan[c].off, bouncy |-> dcChan[c].bouncy]
        /\ dcChan[c].modes = {} /\ dcChan[c].on = {} /\ dcChan[c].bouncy \in {FALSE}
        /\ dcChan[c].off \in {{}} \cup {{m} : m \in DcMode}
    BY <2>1
  <2>4. dcChan[c].bouncy \in BOOLEAN
    BY <2>3, Zenon
  <2>. QED
    BY <2>2, <2>3, <2>4 DEF DcChan
<1>3. dcChan \in [DcChannels -> DcChan]
  <2>1. dcChan = [c \in DcChannels |-> dcChan[c]]
    BY DEF DefConInit
  <2>. QED
    BY <1>2, <2>1
<1>. QED
  BY <1>1, <1>2, <1>3 DEF DcInv, DefConTypeOK, DcGood, DcChan

LEMMA DcTyped ==
  ASSUME DcInv
  PROVE  /\ dcLevel \in 1..5 /\ dcTimed \in BOOLEAN /\ dcConf \subseteq DcMode /\ dcConf \in DcConfs
         /\ dcModesSet \in BOOLEAN
         /\ dcChan \in [DcChannels -> DcChan] /\ dcForced \in [DcChannels -> SUBSET DcMode]
         /\ \A c \in DcChannels : DcGood(dcChan[c], dcForced[c])
BY DcConfsAssumption DEF DcInv, DefConTypeOK, DcChan

\* runDefCon().
LEMMA DcRuns ==
  ASSUME DcInv, NEW level, NEW bounces, RunDefCon(level, bounces)
  PROVE  /\ dcModesSet' \in BOOLEAN
         /\ dcChan' \in [DcChannels -> DcChan] /\ dcForced' \in [DcChannels -> SUBSET DcMode]
         /\ \A c \in DcChannels : DcGood(dcChan'[c], dcForced'[c])
         /\ (dcModesSet /\ ~dcModesSet') =>
               \/ \A c \in DcChannels : dcForced'[c] = {}
               \/ \E c \in DcChannels : dcChan[c].bouncy
               \/ \E c \in DcChannels : ~(dcForced[c] \subseteq dcConf)
<1>0. /\ dcConf \subseteq DcMode /\ dcChan \in [DcChannels -> DcChan]
      /\ dcForced \in [DcChannels -> SUBSET DcMode] /\ dcModesSet \in BOOLEAN
      /\ \A c \in DcChannels : DcGood(dcChan[c], dcForced[c])
  BY DcTyped
<1> DEFINE force == CheckDefCon(level) /\ ~dcModesSet
           lift == ~CheckDefCon(level) /\ dcModesSet
           add == DoMassMode(dcChan, TRUE, dcConf, bounces)
           take == DoMassMode(dcChan, FALSE, dcConf, bounces)
<1>1. /\ dcModesSet' = (force \/ (dcModesSet /\ ~lift))
      /\ dcChan' = IF force THEN add ELSE IF lift THEN take ELSE dcChan
      /\ dcForced' = [c \in DcChannels |->
               (dcForced[c] \cup (IF force THEN dcChan'[c].modes \ dcChan[c].modes ELSE {})) \cap dcChan'[c].modes]
  BY Zenon DEF RunDefCon, DefconReverseModes
<1>2. dcModesSet' \in BOOLEAN /\ ((dcModesSet /\ ~dcModesSet') => (~force /\ lift))
  BY <1>1, Zenon
<1> HIDE DEF force, lift, add, take
<1>3. \A c \in DcChannels : dcForced'[c] \subseteq dcForced[c] \cup (dcChan'[c].modes \ dcChan[c].modes)
                         /\ dcForced'[c] \subseteq dcChan'[c].modes
                         /\ (~force => dcForced'[c] \subseteq dcForced[c])
  BY <1>1
<1>4. /\ dcChan' \in [DcChannels -> DcChan]
      /\ \A c \in DcChannels :
           /\ dcChan'[c].on = dcChan[c].on /\ dcChan'[c].off = dcChan[c].off
           /\ \/ dcChan'[c] = dcChan[c]
              \/ /\ ~dcChan[c].bouncy
                 /\ \/ dcChan'[c].bouncy = TRUE
                    \/ \E set \in SUBSET DcMode :
                         dcChan'[c].modes = (set \cup dcChan[c].on) \ dcChan[c].off
  <2>1. CASE ~force /\ ~lift
    BY <1>0, <1>1, <2>1
  <2>2. ASSUME NEW f \in BOOLEAN, dcChan' = DoMassMode(dcChan, f, dcConf, bounces)
        PROVE  /\ dcChan' \in [DcChannels -> DcChan]
               /\ \A c \in DcChannels :
                    /\ dcChan'[c].on = dcChan[c].on /\ dcChan'[c].off = dcChan[c].off
                    /\ \/ dcChan'[c] = dcChan[c]
                       \/ /\ ~dcChan[c].bouncy
                          /\ \/ dcChan'[c].bouncy = TRUE
                             \/ \E set \in SUBSET DcMode :
                                  dcChan'[c].modes = (set \cup dcChan[c].on) \ dcChan[c].off
    <3>1. /\ dcChan' \in [DcChannels -> DcChan]
          /\ \A c \in DcChannels :
               /\ dcChan'[c].on = dcChan[c].on /\ dcChan'[c].off = dcChan[c].off
               /\ c \notin Reached(dcChan) => dcChan'[c] = dcChan[c]
               /\ c \in Reached(dcChan) =>
                    \/ dcChan'[c].modes = DcSet(dcChan[c], f, dcConf) /\ dcChan'[c].bouncy = TRUE
                    \/ dcChan'[c].modes = (DcSet(dcChan[c], f, dcConf) \cup dcChan[c].on) \ dcChan[c].off
      <4>1. DcMade(DoMassMode(dcChan, f, dcConf, bounces), dcChan, f, dcConf)
        BY <1>0, DcMass
      <4>2. DcMade(dcChan', dcChan, f, dcConf)
        BY <2>2, <4>1, Zenon
      <4>. QED
        BY <4>2, Zenon DEF DcMade
    <3>2. ASSUME NEW c \in DcChannels, c \in Reached(dcChan)
          PROVE  /\ ~dcChan[c].bouncy
                 /\ \/ dcChan'[c].bouncy = TRUE
                    \/ \E set \in SUBSET DcMode :
                         dcChan'[c].modes = (set \cup dcChan[c].on) \ dcChan[c].off
      <4> DEFINE set == DcSet(dcChan[c], f, dcConf)
      <4>1. ~dcChan[c].bouncy
        BY <3>2, DcReached
      <4>2. dcChan[c].modes \subseteq DcMode
        BY <1>0, DcFields
      <4>3. set \in SUBSET DcMode
        BY <1>0, <4>2 DEF DcSet
      <4>4. \/ dcChan'[c].modes = set /\ dcChan'[c].bouncy = TRUE
            \/ dcChan'[c].modes = (set \cup dcChan[c].on) \ dcChan[c].off
        BY <3>1, <3>2, Zenon
      <4> HIDE DEF set
      <4>. QED
        BY <4>1, <4>3, <4>4, Zenon
    <3>. QED
      BY <3>1, <3>2, Zenon
  <2>3. TRUE \in BOOLEAN /\ FALSE \in BOOLEAN
    OBVIOUS
  <2>. QED
    BY <1>1, <2>1, <2>2, <2>3, Zenon DEF add, take
<1>5. dcForced' \in [DcChannels -> SUBSET DcMode]
  <2>1. \A c \in DcChannels : dcChan'[c].modes \subseteq DcMode
    BY <1>4, DcFields
  <2>2. \A c \in DcChannels : dcForced'[c] \in SUBSET DcMode
    BY <1>3, <2>1
  <2>. QED
    BY <1>1, <2>2
<1>6. ASSUME NEW c \in DcChannels PROVE DcGood(dcChan'[c], dcForced'[c])
  <2> DEFINE ch == dcChan[c]
             new == dcChan'[c]
  <2>1. ch.on \cap ch.off = {} /\ (ch.bouncy = FALSE => ch.on \subseteq ch.modes) /\ dcForced[c] \cap ch.on = {}
    BY <1>0 DEF DcGood
  <2>2. new.on = ch.on /\ new.off = ch.off
    BY <1>4
  <2>3. dcForced'[c] \subseteq dcForced[c] \cup (new.modes \ ch.modes)
    BY <1>3
  <2>4. ch.bouncy \in BOOLEAN
    BY <1>0, DcFields
  <2> HIDE DEF ch, new
  <2>5. CASE new = ch
    BY <2>1, <2>2, <2>3, <2>5 DEF DcGood, ch, new
  <2>6. ASSUME ~ch.bouncy PROVE dcForced'[c] \cap new.on = {}
    <3>1. ch.bouncy = FALSE
      BY <2>4, <2>6
    <3>. QED
      BY <2>1, <2>2, <2>3, <3>1
  <2>7. CASE ~ch.bouncy /\ new.bouncy = TRUE
    <3>1. ~(new.bouncy = FALSE)
      BY <2>7, Zenon
    <3>. QED
      BY <2>1, <2>2, <2>6, <2>7, <3>1 DEF DcGood, new
  <2>8. CASE ~ch.bouncy /\ \E set \in SUBSET DcMode : new.modes = (set \cup ch.on) \ ch.off
    <3>1. new.on \subseteq new.modes
      BY <2>1, <2>2, <2>8
    <3>. QED
      BY <2>1, <2>2, <2>6, <2>8, <3>1 DEF DcGood, new
  <2>. QED
    BY <1>4, <2>5, <2>7, <2>8 DEF ch, new
<1>7. ASSUME dcModesSet, ~dcModesSet', \A c \in DcChannels : ~dcChan[c].bouncy,
             \A c \in DcChannels : dcForced[c] \subseteq dcConf, NEW c \in DcChannels
      PROVE  dcForced'[c] = {}
  <2>1. ~force /\ lift
    BY <1>2, <1>7
  <2>2. c \in Reached(dcChan)
    BY <1>7, DcReached
  <2>3. dcChan' = DoMassMode(dcChan, FALSE, dcConf, bounces)
    BY <1>1, <2>1 DEF take
  <2>4. \/ dcChan'[c].modes = dcChan[c].modes \ dcConf
        \/ dcChan'[c].modes = ((dcChan[c].modes \ dcConf) \cup dcChan[c].on) \ dcChan[c].off
    <3>1. FALSE \in BOOLEAN
      OBVIOUS
    <3>2. \/ dcChan'[c].modes = DcSet(dcChan[c], FALSE, dcConf) /\ dcChan'[c].bouncy = TRUE
          \/ dcChan'[c].modes = (DcSet(dcChan[c], FALSE, dcConf) \cup dcChan[c].on) \ dcChan[c].off
      <4>1. DcMade(DoMassMode(dcChan, FALSE, dcConf, bounces), dcChan, FALSE, dcConf)
        BY <1>0, <3>1, DcMass
      <4>2. DcMade(dcChan', dcChan, FALSE, dcConf)
        BY <2>3, <4>1, Zenon
      <4>. QED
        BY <2>2, <4>2, Zenon DEF DcMade
    <3>3. DcSet(dcChan[c], FALSE, dcConf) = dcChan[c].modes \ dcConf
      BY DEF DcSet
    <3>. QED
      BY <3>2, <3>3, Zenon
  <2>5. dcForced'[c] \subseteq dcForced[c] /\ dcForced'[c] \subseteq dcChan'[c].modes
    BY <1>3, <2>1
  <2>6. dcForced[c] \cap dcChan[c].on = {} /\ dcForced[c] \subseteq dcConf
    BY <1>0, <1>7 DEF DcGood
  <2>. QED
    BY <2>4, <2>5, <2>6
<1>. QED
  BY <1>2, <1>4, <1>5, <1>6, <1>7

\* One channel changes, and nothing else.
LEMMA DcOne ==
  ASSUME DcInv, NEW c \in DcChannels, NEW new \in DcChan, NEW left \in SUBSET DcMode,
         DcGood(new, left),
         dcChan' = [dcChan EXCEPT ![c] = new], dcForced' = [dcForced EXCEPT ![c] = left],
         UNCHANGED <<dcLevel, dcTimed, dcConf, dcModesSet>>
  PROVE  DcInv'
<1>0. /\ dcChan \in [DcChannels -> DcChan] /\ dcForced \in [DcChannels -> SUBSET DcMode]
      /\ \A d \in DcChannels : DcGood(dcChan[d], dcForced[d])
  BY DcTyped
<1>1. dcChan' \in [DcChannels -> DcChan] /\ dcForced' \in [DcChannels -> SUBSET DcMode]
  BY <1>0
<1>2. ASSUME NEW d \in DcChannels PROVE DcGood(dcChan'[d], dcForced'[d])
  <2>1. CASE d = c
    <3>1. dcChan'[d] = new /\ dcForced'[d] = left
      BY <1>0, <2>1
    <3>. QED
      BY <3>1
  <2>2. CASE d # c
    <3>1. dcChan'[d] = dcChan[d] /\ dcForced'[d] = dcForced[d]
      BY <1>0, <2>2
    <3>. QED
      BY <1>0, <3>1
  <2>. QED
    BY <2>1, <2>2
<1>. QED
  BY <1>1, <1>2 DEF DcInv, DefConTypeOK, DcChan

\* A fact about one channel.
LEMMA DcOf ==
  ASSUME DcInv, NEW c \in DcChannels
  PROVE  /\ dcChan[c] \in DcChan /\ dcForced[c] \in SUBSET DcMode
         /\ dcChan[c].modes \subseteq DcMode /\ dcChan[c].on \subseteq DcMode /\ dcChan[c].off \subseteq DcMode
         /\ dcChan[c].bouncy \in BOOLEAN
         /\ dcChan[c].on \cap dcChan[c].off = {}
         /\ dcChan[c].bouncy = FALSE => dcChan[c].on \subseteq dcChan[c].modes
         /\ dcForced[c] \cap dcChan[c].on = {}
BY DcTyped, DcFields DEF DcGood

LEMMA DcGoodWhen ==
  ASSUME NEW modes, NEW on, NEW off, NEW bouncy, NEW left,
         on \cap off = {}, bouncy = FALSE => on \subseteq modes, left \cap on = {}
  PROVE  DcGood([modes |-> modes, on |-> on, off |-> off, bouncy |-> bouncy], left)
BY DEF DcGood

LEMMA DcLocks ==
  ASSUME DcInv, NEW c \in DcChannels, NEW m \in DcMode, DcLock(c, m)
  PROVE  DcInv'
<1> DEFINE ch == dcChan[c]
           left == dcForced[c] \ {m}
<1>0. /\ dcChan \in [DcChannels -> DcChan] /\ ch \in DcChan /\ ch.modes \subseteq DcMode /\ ch.bouncy \in BOOLEAN
      /\ dcForced \in [DcChannels -> SUBSET DcMode] /\ dcForced[c] \in SUBSET DcMode
  BY DcTyped, DcOf
<1>1. dcChan' = [dcChan EXCEPT ![c] = [ch EXCEPT !.on = {m}, !.off = {}, !.modes = @ \cup {m}]]
  <2>1. dcChan' = [dcChan EXCEPT ![c].on = {m}, ![c].off = {}, ![c].modes = @ \cup {m}]
    BY DEF DcLock
  <2>. QED
    BY <1>0, <2>1
<1>6. dcForced' = [dcForced EXCEPT ![c] = left]
  BY <1>0 DEF DcLock
<1> DEFINE new == [ch EXCEPT !.on = {m}, !.off = {}, !.modes = @ \cup {m}]
<1>2. new = [modes |-> ch.modes \cup {m}, on |-> {m}, off |-> {}, bouncy |-> ch.bouncy]
  <2> HIDE DEF ch
  <2>1. new \in DcChan /\ new.modes = ch.modes \cup {m} /\ new.on = {m} /\ new.off = {} /\ new.bouncy = ch.bouncy
    BY <1>0 DEF DcChan
  <2> HIDE DEF new
  <2>2. new = [modes |-> new.modes, on |-> new.on, off |-> new.off, bouncy |-> new.bouncy]
    BY <2>1, DcFields
  <2>. QED
    BY <2>1, <2>2
<1>5. left \in SUBSET DcMode /\ left \cap {m} = {}
  BY <1>0
<1> HIDE DEF new, ch, left
<1>3. new \in DcChan
  BY <1>0, <1>2 DEF DcChan
<1>4. DcGood(new, left)
  BY <1>0, <1>2, <1>5 DEF DcGood
<1>. QED
  BY <1>1, <1>3, <1>4, <1>5, <1>6, DcOne DEF DcLock, new, ch

LEMMA DcUsers ==
  ASSUME DcInv, NEW c \in DcChannels, NEW add \in BOOLEAN, NEW m \in DcMode, NEW bounces \in BOOLEAN,
         DcUserMode(c, add, m, bounces)
  PROVE  DcInv'
<1> DEFINE ch == dcChan[c]
           left == dcForced[c] \ {m}
           set == IF add THEN ch.modes \cup {m} ELSE ch.modes \ {m}
<1>0. /\ dcChan \in [DcChannels -> DcChan] /\ ch \in DcChan
      /\ ch.modes \subseteq DcMode /\ ch.on \subseteq DcMode /\ ch.off \subseteq DcMode
      /\ ch.on \cap ch.off = {} /\ ch.bouncy \in BOOLEAN
      /\ dcForced \in [DcChannels -> SUBSET DcMode] /\ dcForced[c] \in SUBSET DcMode
      /\ dcForced[c] \cap ch.on = {}
      /\ ch = [modes |-> ch.modes, on |-> ch.on, off |-> ch.off, bouncy |-> ch.bouncy]
  BY DcTyped, DcOf, DcFields
<1>1. /\ dcForced' = [dcForced EXCEPT ![c] = left]
      /\ UNCHANGED <<dcLevel, dcTimed, dcConf, dcModesSet>>
  BY <1>0 DEF DcUserMode
<1>2. left \in SUBSET DcMode /\ left \cap ch.on = {}
  BY <1>0
<1>3. {m} \in SUBSET DcMode /\ set \subseteq DcMode
  BY <1>0
<1>4. CASE ch.bouncy
  <2> DEFINE new == [ch EXCEPT !.modes = IF add THEN @ \cup {m} ELSE @ \ {m}]
  <2>1. dcChan' = [dcChan EXCEPT ![c] = new]
    BY <1>4 DEF DcUserMode
  <2>2. new = [modes |-> set, on |-> ch.on, off |-> ch.off, bouncy |-> ch.bouncy]
    <3>1. ch = [modes |-> ch.modes, on |-> ch.on, off |-> ch.off, bouncy |-> ch.bouncy]
      BY <1>0
    <3> HIDE DEF ch
    <3>. QED
      BY <3>1
  <2>3. ~(ch.bouncy = FALSE)
    BY <1>4
  <2> HIDE DEF new, left, set, ch
  <2>4. new \in DcChan
    BY <1>0, <1>3, <2>2 DEF DcChan
  <2>5. DcGood(new, left)
    BY <1>0, <1>2, <2>2, <2>3, DcGoodWhen
  <2>. QED
    BY <1>1, <1>2, <2>1, <2>4, <2>5, DcOne
<1>5. CASE ~ch.bouncy
  <2> DEFINE new == IF bounces THEN DcBounced(ch, add, {m}) ELSE DcLocked(ch, add, {m})
  <2>1. dcChan' = [dcChan EXCEPT ![c] = new]
    BY <1>5 DEF DcUserMode, Forced, DcBounced, DcLocked, DcWith
  <2>2. DcSet(ch, add, {m}) = set
    BY DEF DcSet
  <2>3. /\ DcBounced(ch, add, {m}) = [modes |-> set, on |-> ch.on, off |-> ch.off, bouncy |-> TRUE]
        /\ DcLocked(ch, add, {m}) =
              [modes |-> (set \cup ch.on) \ ch.off, on |-> ch.on, off |-> ch.off, bouncy |-> ch.bouncy]
        /\ DcBounced(ch, add, {m}) \in DcChan /\ DcLocked(ch, add, {m}) \in DcChan
    <3> HIDE DEF ch, set
    <3>. QED
      BY <1>0, <1>3, <2>2, DcForces
  <2> HIDE DEF left, set, ch
  <2>4. new \in DcChan
    BY <2>3
  <2>5. CASE bounces
    <3>1. ~(TRUE = FALSE)
      OBVIOUS
    <3>2. DcGood([modes |-> set, on |-> ch.on, off |-> ch.off, bouncy |-> TRUE], left)
      BY <1>0, <1>2, <3>1, DcGoodWhen
    <3>3. new = [modes |-> set, on |-> ch.on, off |-> ch.off, bouncy |-> TRUE]
      BY <2>3, <2>5
    <3>4. DcGood(new, left)
      BY <3>2, <3>3, Zenon
    <3> HIDE DEF new
    <3>. QED
      BY <1>1, <1>2, <2>1, <2>4, <3>4, DcOne
  <2>6. CASE ~bounces
    <3>1. ch.on \subseteq (set \cup ch.on) \ ch.off
      BY <1>0
    <3>2. DcGood([modes |-> (set \cup ch.on) \ ch.off, on |-> ch.on, off |-> ch.off, bouncy |-> ch.bouncy], left)
      BY <1>0, <1>2, <3>1 DEF DcGood
    <3>3. new = [modes |-> (set \cup ch.on) \ ch.off, on |-> ch.on, off |-> ch.off, bouncy |-> ch.bouncy]
      BY <2>3, <2>6
    <3>4. DcGood(new, left)
      BY <3>2, <3>3, Zenon
    <3> HIDE DEF new
    <3>. QED
      BY <1>1, <1>2, <2>1, <2>4, <3>4, DcOne
  <2>. QED
    BY <2>5, <2>6
<1>. QED
  BY <1>4, <1>5

LEMMA DcSteps == DcInv /\ [DefConNext]_dcVars => DcInv'
<1> SUFFICES ASSUME DcInv, [DefConNext]_dcVars PROVE DcInv'
  OBVIOUS
<1>0. /\ dcLevel \in 1..5 /\ dcTimed \in BOOLEAN /\ dcConf \in DcConfs
      /\ dcModesSet \in BOOLEAN
      /\ dcChan \in [DcChannels -> DcChan] /\ dcForced \in [DcChannels -> SUBSET DcMode]
      /\ \A c \in DcChannels : DcGood(dcChan[c], dcForced[c])
  BY DcTyped
<1>1. ASSUME NEW level \in 1..5, NEW bounces, RunDefCon(level, bounces),
             dcLevel' = level, dcTimed' \in BOOLEAN, dcConf' = dcConf
      PROVE  DcInv'
  <2>1. /\ dcModesSet' \in BOOLEAN
        /\ dcChan' \in [DcChannels -> DcChan] /\ dcForced' \in [DcChannels -> SUBSET DcMode]
        /\ \A c \in DcChannels : DcGood(dcChan'[c], dcForced'[c])
    BY <1>1, DcRuns
  <2>. QED
    BY <1>0, <1>1, <2>1 DEF DcInv, DefConTypeOK, DcChan
<1>2. ASSUME NEW level \in DcLevels, SetDefCon(level) PROVE DcInv'
  <2>1. /\ dcLevel' = level /\ dcTimed' = TRUE /\ dcConf' = dcConf
        /\ \E bounces \in SUBSET DcChannels : RunDefCon(level, bounces)
    BY <1>2 DEF SetDefCon
  <2>2. dcTimed' \in BOOLEAN /\ level \in 1..5
    BY <2>1, DcForcingAssumption
  <2>. QED
    BY <1>1, <2>1, <2>2
<1>3. CASE ResetDefCon
  <2>1. /\ dcLevel' = 5 /\ dcTimed' = dcTimed /\ dcConf' = dcConf
        /\ \E bounces \in SUBSET DcChannels : RunDefCon(5, bounces)
    BY <1>3 DEF ResetDefCon
  <2>2. dcTimed' \in BOOLEAN /\ 5 \in 1..5
    BY <1>0, <2>1
  <2>. QED
    BY <1>1, <2>1, <2>2
<1>4. CASE DcReload
  <2>1. dcLevel' \in 1..5 /\ dcConf' \in DcConfs
        /\ UNCHANGED <<dcTimed, dcModesSet, dcChan, dcForced>>
    BY <1>4, DcForcingAssumption DEF DcReload
  <2>. QED
    BY <1>0, <2>1 DEF DcInv, DefConTypeOK, DcChan
<1>6. ASSUME NEW c \in DcChannels, NEW m \in DcMode, DcLock(c, m) PROVE DcInv'
  BY <1>6, DcLocks
<1>7. ASSUME NEW c \in DcChannels, NEW m \in DcMode, NEW add \in BOOLEAN, NEW bounces \in BOOLEAN,
             DcUserMode(c, add, m, bounces)
      PROVE  DcInv'
  BY <1>7, DcUsers
<1>8. CASE UNCHANGED dcVars
  BY <1>0, <1>8 DEF dcVars, DcInv, DefConTypeOK, DcChan
<1>. QED
  BY <1>2, <1>3, <1>4, <1>6, <1>7, <1>8, Zenon DEF DefConNext

DcStep ==
    (dcModesSet /\ ~dcModesSet') =>
          \/ \A c \in DcChannels : dcForced'[c] = {}
          \/ \E c \in DcChannels : dcChan[c].bouncy
          \/ \E c \in DcChannels : ~(dcForced[c] \subseteq dcConf)

LEMMA DcLifts == DcInv /\ [DefConNext]_dcVars => [DcStep]_dcVars
<1> SUFFICES ASSUME DcInv, DefConNext PROVE DcStep
  OBVIOUS
<1>1. ASSUME NEW level, SetDefCon(level) PROVE DcStep
  <2>1. \E bounces \in SUBSET DcChannels : RunDefCon(level, bounces)
    BY <1>1 DEF SetDefCon
  <2>. QED
    BY <2>1, DcRuns, Zenon DEF DcStep
<1>2. CASE ResetDefCon
  <2>1. \E bounces \in SUBSET DcChannels : RunDefCon(5, bounces)
    BY <1>2 DEF ResetDefCon
  <2>. QED
    BY <2>1, DcRuns, Zenon DEF DcStep
<1>3. ASSUME NEW c, NEW m, NEW add, NEW bounces,
             DcReload \/ DcLock(c, m) \/ DcUserMode(c, add, m, bounces)
      PROVE  DcStep
  <2>1. dcModesSet' = dcModesSet
    BY <1>3 DEF DcReload, DcLock, DcUserMode
  <2>. QED
    BY <2>1, Zenon DEF DcStep
<1>. QED
  BY <1>1, <1>2, <1>3, Zenon DEF DefConNext

-----------------------------------------------------------------------------
(* How the modes of a channel follow its lock (ModeLock).                  *)

MlC == [modes: SUBSET MlModes, val: [MlValued -> MlOption],
        sc: 0..MlBounce, sNow: BOOLEAN, cc: 0..MlBounce, cNow: BOOLEAN, bouncy: BOOLEAN]
MlLock == [on: SUBSET MlModes, off: SUBSET MlModes, val: [MlValued -> MlOption]]

\* The modes are those of the lock, as LockHolds says.
MlHolds(c, lock) ==
    /\ lock.on \subseteq c.modes
    /\ lock.off \cap c.modes = {}
    /\ \A v \in lock.on \cap MlValued : c.val[v] \in {MlNone, lock.val[v]}

LEMMA MlFields ==
  ASSUME NEW c \in MlC
  PROVE  /\ c.modes \subseteq MlModes /\ c.val \in [MlValued -> MlOption]
         /\ c.sc \in 0..MlBounce /\ c.sNow \in BOOLEAN /\ c.cc \in 0..MlBounce /\ c.cNow \in BOOLEAN
         /\ c.bouncy \in BOOLEAN
BY DEF MlC

LEMMA MlWith ==
  ASSUME NEW c \in MlC
  PROVE  /\ \A x \in SUBSET MlModes : [c EXCEPT !.modes = x] \in MlC
         /\ \A v \in [MlValued -> MlOption] : [c EXCEPT !.val = v] \in MlC
         /\ \A x \in SUBSET MlModes, v \in [MlValued -> MlOption] :
               /\ [c EXCEPT !.modes = x, !.val = v] \in MlC
               /\ [c EXCEPT !.modes = x, !.val = v].modes = x
               /\ [c EXCEPT !.modes = x, !.val = v].val = v
         /\ \A n \in 0..MlBounce, b \in BOOLEAN :
               /\ [c EXCEPT !.cc = n, !.cNow = b] \in MlC
               /\ [c EXCEPT !.sc = n, !.sNow = b] \in MlC
         /\ \A a, b \in BOOLEAN : [c EXCEPT !.sNow = a, !.cNow = b] \in MlC
         /\ \A b \in BOOLEAN : [c EXCEPT !.bouncy = b] \in MlC /\ [c EXCEPT !.bouncy = b].bouncy = b
BY DEF MlC

LEMMA MlCounts ==
  ASSUME NEW n \in 0..MlBounce, NEW now
  PROVE  Counted(n, now) \in 0..MlBounce
BY MlBounceIsPositive DEF Counted

\* check_modes() puts the lock in force.
LEMMA MlEnforces ==
  ASSUME NEW c \in MlC, NEW lock \in MlLock, MlSound(lock)
  PROVE  Enforce(c, lock) \in MlC /\ MlHolds(Enforce(c, lock), lock)
<1> DEFINE off == (c.modes \cup lock.on) \cap lock.off
           wrong == {v \in lock.on \cap c.modes \cap MlValued : c.val[v] # MlNone /\ lock.val[v] # MlNone}
           modes == (c.modes \cup lock.on) \ lock.off
           val == [v \in MlValued |-> IF v \in off THEN MlNone
                                      ELSE IF v \in wrong \cup (lock.on \ c.modes) THEN lock.val[v]
                                      ELSE c.val[v]]
<1>1. /\ lock.on \subseteq MlModes /\ lock.off \subseteq MlModes /\ lock.val \in [MlValued -> MlOption]
      /\ lock.on \cap lock.off = {}
      /\ \A v \in lock.on \cap MlValued : lock.val[v] \in MlValues \ MlBadValues
  BY DEF MlLock, MlSound
<1>2. Enforce(c, lock) = [c EXCEPT !.modes = modes, !.val = val]
  BY DEF Enforce
<1>3. modes \in SUBSET MlModes
  BY <1>1, MlFields
<1>4. val \in [MlValued -> MlOption]
  <2>1. MlNone \in MlOption /\ c.val \in [MlValued -> MlOption]
    BY MlFields DEF MlOption
  <2>. QED
    BY <1>1, <2>1
<1>5. lock.on \subseteq modes /\ lock.off \cap modes = {}
  BY <1>1
<1>6. ASSUME NEW v \in lock.on \cap MlValued PROVE val[v] \in {MlNone, lock.val[v]}
  <2>1. v \notin off /\ lock.val[v] # MlNone
    BY <1>1, <1>6, MlModesAreDistinct
  <2>2. CASE v \in wrong \cup (lock.on \ c.modes)
    BY <2>1, <2>2
  <2>3. CASE v \notin wrong \cup (lock.on \ c.modes)
    <3>1. c.val[v] = MlNone
      BY <2>1, <2>3
    <3>. QED
      BY <2>1, <2>3, <3>1
  <2>. QED
    BY <2>2, <2>3
<1> HIDE DEF modes, val
<1>7. Enforce(c, lock) \in MlC /\ Enforce(c, lock).modes = modes /\ Enforce(c, lock).val = val
  <2>1. \A x \in SUBSET MlModes, v \in [MlValued -> MlOption] :
               /\ [c EXCEPT !.modes = x, !.val = v] \in MlC
               /\ [c EXCEPT !.modes = x, !.val = v].modes = x
               /\ [c EXCEPT !.modes = x, !.val = v].val = v
    BY MlWith
  <2> DEFINE d == [c EXCEPT !.modes = modes, !.val = val]
  <2>2. d \in MlC /\ d.modes = modes /\ d.val = val
    BY <1>3, <1>4, <2>1
  <2>3. Enforce(c, lock) = d
    BY <1>2
  <2> HIDE DEF d
  <2>. QED
    BY <2>2, <2>3
<1>. QED
  BY <1>5, <1>6, <1>7 DEF MlHolds

LEMMA MlChecked ==
  ASSUME NEW c \in MlC, NEW reg \in BOOLEAN, NEW lock \in MlLock, MlSound(lock)
  PROVE  /\ CheckModes(c, reg, lock) \in MlC
         /\ reg => MlHolds(CheckModes(c, reg, lock), lock) \/ CheckModes(c, reg, lock).bouncy
<1> DEFINE counting == [c EXCEPT !.cc = Counted(@, c.cNow), !.cNow = TRUE]
<1>1. counting \in MlC
  <2>1. Counted(c.cc, c.cNow) \in 0..MlBounce
    BY MlFields, MlCounts
  <2>2. TRUE \in BOOLEAN
    OBVIOUS
  <2>. QED
    BY <2>1, <2>2, MlWith, Zenon
<1>2. CheckModes(c, reg, lock) =
        IF c.bouncy THEN c
        ELSE IF c.sc >= MlBounce /\ c.cc >= MlBounce THEN [c EXCEPT !.bouncy = TRUE]
        ELSE IF reg THEN Enforce(counting, lock)
        ELSE [counting EXCEPT !.modes = @ \ {"r"}]
  BY DEF CheckModes
<1> HIDE DEF counting
<1>3. [c EXCEPT !.bouncy = TRUE] \in MlC /\ [c EXCEPT !.bouncy = TRUE].bouncy
  <2>1. TRUE \in BOOLEAN
    OBVIOUS
  <2>. QED
    BY <2>1, MlWith, Zenon
<1>4. Enforce(counting, lock) \in MlC /\ MlHolds(Enforce(counting, lock), lock)
  BY <1>1, MlEnforces
<1>5. [counting EXCEPT !.modes = @ \ {"r"}] \in MlC
  <2>1. counting.modes \ {"r"} \in SUBSET MlModes
    BY <1>1, MlFields
  <2>. QED
    BY <1>1, <2>1, MlWith, Zenon
<1>. QED
  BY <1>2, <1>3, <1>4, <1>5, Zenon

\* A change that may be applied.
MlChange(ch) == ch.mode \in MlModes \cup MlStatus /\ ch.add \in BOOLEAN /\ (ch.add => ch.arg \in MlOption)

LEMMA MlTyped ==
  ASSUME NEW ch \in Typed
  PROVE  MlChange(ch)
<1>1. ASSUME NEW M, NEW A, NEW V, ch \in [mode : M, add : A, arg : V]
      PROVE  ch.mode \in M /\ ch.add \in A /\ ch.arg \in V
  BY <1>1
<1>2. \/ ch \in [mode : MlFlags \cup MlStatus, add : BOOLEAN, arg : {MlNone}]
      \/ ch \in [mode : MlValued, add : {TRUE}, arg : MlValues]
      \/ ch \in [mode : MlValued, add : {FALSE}, arg : {CHOOSE v \in MlValues : TRUE}]
      \/ ch \in [mode : MlValued, add : BOOLEAN, arg : {MlNone}]
  BY DEF Typed, WellFormed
<1>3. ch.mode \in MlFlags \cup MlStatus \cup MlValued /\ ch.add \in BOOLEAN
      /\ (ch.add => ch.arg \in MlValues \cup {MlNone})
  BY <1>1, <1>2
<1>. QED
  BY <1>3 DEF MlChange, MlModes, MlOption

LEMMA MlApplyOne ==
  ASSUME NEW c \in MlC, NEW ch, MlChange(ch)
  PROVE  ApplyChange(c, ch) \in MlC
<1> DEFINE set == IF ch.add THEN c.modes \cup {ch.mode} ELSE c.modes \ {ch.mode}
           flagged == [c EXCEPT !.modes = set]
           x == IF ch.add THEN ch.arg ELSE MlNone
           val == [flagged.val EXCEPT ![ch.mode] = x]
<1>1. CASE ch.mode \in MlStatus
  BY <1>1 DEF ApplyChange
<1>2. CASE ch.mode \notin MlStatus
  <2>1. ch.mode \in MlModes /\ c.modes \subseteq MlModes
    BY <1>2, MlFields DEF MlChange
  <2>2. set \in SUBSET MlModes
    BY <2>1
  <2> HIDE DEF set
  <2>3. flagged \in MlC
    BY <2>2, MlWith
  <2>4. x \in MlOption
    BY DEF MlChange, MlOption
  <2>5. /\ ApplyChange(c, ch) = IF ch.mode \notin MlValued \/ (NeedsArg(ch) /\ ch.arg = MlNone) THEN flagged
                                ELSE SetValue(flagged, ch)
        /\ SetValue(flagged, ch) = [flagged EXCEPT !.val[ch.mode] = x]
    BY <1>2, Zenon DEF ApplyChange, SetValue, set
  <2>6. flagged.val \in [MlValued -> MlOption]
    BY <2>3, MlFields
  <2> HIDE DEF flagged, x
  <2>7. ASSUME ch.mode \in MlValued PROVE [flagged EXCEPT !.val[ch.mode] = x] \in MlC
    <3>1. val \in [MlValued -> MlOption]
      BY <2>4, <2>6, <2>7
    <3>2. [flagged EXCEPT !.val[ch.mode] = x] = [flagged EXCEPT !.val = val]
      OBVIOUS
    <3> HIDE DEF val
    <3>3. [flagged EXCEPT !.val = val] \in MlC
      BY <2>3, <3>1, MlWith
    <3>. QED
      BY <3>2, <3>3, Zenon
  <2>. QED
    BY <2>3, <2>5, <2>7, Zenon
<1>. QED
  BY <1>1, <1>2

\* chan_set_modes(), whatever the number of its changes.
LEMMA MlApplyTurns ==
  ASSUME NEW h, NEW R, NEW s \in Seq(R)
  PROVE  \E f : /\ Turns([fold |-> "apply", list |-> s], h, Len(s), f)
                /\ f[Len(s)] = FoldLeft(ApplyChange, h, s)
<1> DEFINE a == [fold |-> "apply", list |-> s]
           it == CHOOSE g : g = [t \in SUBSET DOMAIN s |->
                     IF t = {} THEN h ELSE ApplyChange(g[t \ {Max(t)}], s[Max(t)])]
<1>1. FoldLeft(ApplyChange, h, s) = it[DOMAIN s]
  BY Zenon DEF FoldLeft, MapThenFoldSet
<1>2. DOMAIN s = 1..Len(s) /\ Len(s) \in Nat
  OBVIOUS
<1>3. \A w, i : Turn(a, w, i) = ApplyChange(w, s[i])
  BY DEF Turn
<1> HIDE DEF a
<1>4. PICK g : IsFold(a, h, 1..Len(s), g)
  BY <1>2, FoldExists
<1>5. g = [t \in SUBSET DOMAIN s |->
             IF t = {} THEN h ELSE ApplyChange(g[t \ {Max(t)}], s[Max(t)])]
  BY <1>2, <1>3, <1>4 DEF IsFold
<1>6. it = [t \in SUBSET DOMAIN s |->
              IF t = {} THEN h ELSE ApplyChange(it[t \ {Max(t)}], s[Max(t)])]
  BY <1>5
<1> HIDE DEF it
<1>7. IsFold(a, h, 1..Len(s), it)
  BY <1>2, <1>3, <1>6 DEF IsFold
<1>8. \E f : Turns(a, h, Len(s), f) /\ f[Len(s)] = it[1..Len(s)]
  BY <1>2, <1>7, FoldTurns
<1>. QED
  BY <1>1, <1>2, <1>8 DEF a

LEMMA MlApplies ==
  ASSUME NEW c \in MlC, NEW R, NEW s \in Seq(R), \A i \in 1..Len(s) : MlChange(s[i])
  PROVE  FoldLeft(ApplyChange, c, s) \in MlC
<1> DEFINE a == [fold |-> "apply", list |-> s]
<1>1. PICK f : Turns(a, c, Len(s), f) /\ f[Len(s)] = FoldLeft(ApplyChange, c, s)
  BY MlApplyTurns
<1>2. f[0] = c /\ \A k \in Nat : k < Len(s) => f[k + 1] = ApplyChange(f[k], s[k + 1])
  BY <1>1 DEF Turns, Turn
<1> DEFINE P == {k \in Nat : k <= Len(s) => f[k] \in MlC}
<1>3. 0 \in P
  BY <1>2
<1>4. ASSUME NEW k \in Nat, k \in P PROVE k + 1 \in P
  <2>1. SUFFICES ASSUME k + 1 <= Len(s) PROVE f[k + 1] \in MlC
    OBVIOUS
  <2>2. f[k] \in MlC /\ f[k + 1] = ApplyChange(f[k], s[k + 1])
    BY <1>2, <1>4, <2>1
  <2>3. MlChange(s[k + 1])
    BY <2>1
  <2>. QED
    BY <2>2, <2>3, MlApplyOne
<1> HIDE DEF P
<1>5. Len(s) \in Nat
  OBVIOUS
<1>6. Len(s) \in P
  BY <1>3, <1>4, <1>5, NatInd
<1>. QED
  BY <1>1, <1>5, <1>6 DEF P

\* GUARDM keeps to modes that can be locked.
LEMMA MlLockOne ==
  ASSUME NEW lock, MlSound(lock), lock.on \cup lock.off \subseteq MlModes, NEW ch \in Typed, ch.mode \in MlModes
  PROVE  LockChange(lock, ch).on \cup LockChange(lock, ch).off \subseteq MlModes
<1> DEFINE m == ch.mode
<1>0. lock \in MlLocks
  BY DEF MlSound
<1>1. ASSUME NEW l \in MlLocks, NEW v, l.on \cup l.off \subseteq MlModes
      PROVE  CsSetValue(l, m, v).on \cup CsSetValue(l, m, v).off \subseteq MlModes
  BY <1>1 DEF CsSetValue, MlLocks
<1>2. lock.on \cup {m} \in MlSets /\ lock.off \ {m} \in MlSets /\ lock.off \cup {m} \in MlSets /\ lock.on \ {m} \in MlSets
  BY <1>0 DEF MlSets, MlLocks
<1>3. /\ [lock EXCEPT !.on = @ \cup {m}, !.off = @ \ {m}] =
            [on |-> lock.on \cup {m}, off |-> lock.off \ {m}, val |-> lock.val]
      /\ [lock EXCEPT !.off = @ \cup {m}, !.on = @ \ {m}] =
            [on |-> lock.on \ {m}, off |-> lock.off \cup {m}, val |-> lock.val]
  BY <1>0, <1>2, MlLockWith
<1>4. ASSUME NEW on \in MlSets, NEW off \in MlSets, on \cup off \subseteq MlModes, NEW v
      PROVE  LET l == [on |-> on, off |-> off, val |-> lock.val]
             IN  /\ l.on \cup l.off \subseteq MlModes
                 /\ CsSetValue(l, m, v).on \cup CsSetValue(l, m, v).off \subseteq MlModes
  <2> DEFINE l == [on |-> on, off |-> off, val |-> lock.val]
  <2>1. l \in MlLocks /\ l.on \cup l.off \subseteq MlModes
    BY <1>0, <1>4 DEF MlLocks
  <2> HIDE DEF l
  <2>2. CsSetValue(l, m, v).on \cup CsSetValue(l, m, v).off \subseteq MlModes
    BY <1>1, <2>1
  <2>. QED
    BY <2>1, <2>2 DEF l
<1>5. lock.on \cup {m} \cup (lock.off \ {m}) \subseteq MlModes /\ (lock.on \ {m}) \cup (lock.off \cup {m}) \subseteq MlModes
  OBVIOUS
<1> DEFINE up == [on |-> lock.on \cup {m}, off |-> lock.off \ {m}, val |-> lock.val]
           down == [on |-> lock.on \ {m}, off |-> lock.off \cup {m}, val |-> lock.val]
<1>6. \/ LockChange(lock, ch) = up \/ LockChange(lock, ch) = CsSetValue(up, m, ch.arg)
      \/ LockChange(lock, ch) = down \/ LockChange(lock, ch) = CsSetValue(down, m, MlNone)
  BY <1>3, Zenon DEF LockChange
<1>7. /\ \A v : up.on \cup up.off \subseteq MlModes /\ CsSetValue(up, m, v).on \cup CsSetValue(up, m, v).off \subseteq MlModes
      /\ \A v : down.on \cup down.off \subseteq MlModes /\ CsSetValue(down, m, v).on \cup CsSetValue(down, m, v).off \subseteq MlModes
  <2> HIDE DEF m
  <2>1. \A v : up.on \cup up.off \subseteq MlModes /\ CsSetValue(up, m, v).on \cup CsSetValue(up, m, v).off \subseteq MlModes
    BY <1>2, <1>4, <1>5
  <2>2. \A v : down.on \cup down.off \subseteq MlModes /\ CsSetValue(down, m, v).on \cup CsSetValue(down, m, v).off \subseteq MlModes
    <3> DEFINE on == lock.on \ {m}
               off == lock.off \cup {m}
    <3>1. on \in MlSets /\ off \in MlSets /\ on \cup off \subseteq MlModes
      BY <1>2, <1>5
    <3> HIDE DEF on, off
    <3>2. ASSUME NEW v
          PROVE  LET l == [on |-> on, off |-> off, val |-> lock.val]
                 IN  /\ l.on \cup l.off \subseteq MlModes
                     /\ CsSetValue(l, m, v).on \cup CsSetValue(l, m, v).off \subseteq MlModes
      BY <1>4, <3>1
    <3>. QED
      BY <3>2 DEF on, off
  <2>. QED
    BY <2>1, <2>2
<1> HIDE DEF up, down
<1>. QED
  BY <1>6, <1>7, Zenon

LEMMA MlGuards ==
  ASSUME NEW s \in Seq(Typed), \A i \in 1..Len(s) : s[i].mode \in MlModes
  PROVE  FoldLeft(LockChange, NoLock, s) \in MlLock
<1> DEFINE a == [fold |-> "lock", list |-> s]
           lock == FoldLeft(LockChange, NoLock, s)
<1>1. PICK f : Turns(a, NoLock, Len(s), f) /\ f[Len(s)] = lock
  BY MlTurns
<1>2. f[0] = NoLock /\ \A k \in Nat : k < Len(s) => f[k + 1] = LockChange(f[k], s[k + 1])
  BY <1>1 DEF Turns, Turn
<1> DEFINE P == {k \in Nat : k <= Len(s) => MlSound(f[k]) /\ f[k].on \cup f[k].off \subseteq MlModes}
<1>3. 0 \in P
  BY <1>2, MlNoLock DEF NoLock, MlModes
<1>4. ASSUME NEW k \in Nat, k \in P PROVE k + 1 \in P
  <2>1. SUFFICES ASSUME k + 1 <= Len(s)
                 PROVE  MlSound(f[k + 1]) /\ f[k + 1].on \cup f[k + 1].off \subseteq MlModes
    OBVIOUS
  <2>2. MlSound(f[k]) /\ f[k].on \cup f[k].off \subseteq MlModes /\ f[k + 1] = LockChange(f[k], s[k + 1])
    BY <1>2, <1>4, <2>1
  <2>3. s[k + 1] \in Typed /\ s[k + 1].mode \in MlModes
    BY <2>1
  <2>. QED
    BY <2>2, <2>3, MlOneChange, MlLockOne
<1> HIDE DEF P
<1>5. Len(s) \in Nat
  OBVIOUS
<1>6. Len(s) \in P
  BY <1>3, <1>4, <1>5, NatInd
<1>7. MlSound(lock) /\ lock.on \cup lock.off \subseteq MlModes
  BY <1>1, <1>5, <1>6 DEF P
<1> HIDE DEF lock
<1>8. lock \in MlLock
  BY <1>7 DEF MlSound, MlLocks, MlLock, MlVals
<1>. QED
  BY <1>8 DEF lock

-----------------------------------------------------------------------------
MlFull ==
    /\ mlChan \in MlC \cup {MlNone} /\ mlLock \in MlLock
    /\ mlReg \in BOOLEAN /\ mlNoChange \in BOOLEAN /\ MlInv
    /\ mlUsers \in BOOLEAN /\ mlStays \in BOOLEAN /\ mlStale \subseteq MlModes

LEMMA MlFullType == MlFull => ModeLockTypeOK
BY DEF MlFull, ModeLockTypeOK, MlC, MlLock

\* Registration takes modes that can be locked.
MlRegistered == [NoLock EXCEPT !.on = @ \cup MlOnRegister]

LEMMA MlLockSets ==
  /\ NoLock \in MlLock /\ MlSound(NoLock) 
  /\ MlRegistered \in MlLock /\ MlSound(MlRegistered)
  /\ NewChannel \in MlC
<1>1. NoLock \in MlLock
  BY DEF NoLock, NoValues, MlLock, MlModes, MlOption
<1>2. MlRegistered \in MlLock /\ MlRegistered.on = {"r"} \cup MlOnRegister /\ MlRegistered.off = {}
  BY <1>1, MlModesAreDistinct DEF MlRegistered, MlLock, NoLock, MlModes
<1>3. MlSound(MlRegistered)
  BY <1>2, MlModesAreDistinct DEF MlSound, MlLock, MlLocks, MlSets, MlVals
<1>4. NewChannel \in MlC
  BY MlBounceIsPositive DEF NewChannel, NoValues, MlC, MlOption
<1>. QED
  BY <1>1, <1>2, <1>3, <1>4, MlNoLock

LEMMA MlFullStarts == ModeLockInit => MlFull
<1>1. ModeLockInit => MlInv
  BY MlStarts
<1>. QED
  BY <1>1, MlLockSets DEF ModeLockInit, MlFull

\* A step is of services, which may do what they like, or the lock is in force
\* after it.
MlStep ==
    mlChan' # mlChan \/ mlLock' # mlLock =>
          (LockHolds' \/ mlChan'.bouncy \/ ByServices \/ MlTick)


\* chan_set_modes() with and without its check.
LEMMA MlSetModes ==
  ASSUME MlFull, NEW c \in MlC, NEW R, NEW s \in Seq(R), \A i \in 1..Len(s) : MlChange(s[i])
  PROVE  /\ ChanSetModes(c, s, FALSE) \in MlC
         /\ ChanSetModes(c, s, TRUE) \in MlC
         /\ mlReg => MlHolds(ChanSetModes(c, s, TRUE), mlLock) \/ ChanSetModes(c, s, TRUE).bouncy
<1>1. FoldLeft(ApplyChange, c, s) \in MlC
  BY MlApplies
<1> DEFINE d == FoldLeft(ApplyChange, c, s)
<1>2. ChanSetModes(c, s, FALSE) = d /\ ChanSetModes(c, s, TRUE) = CheckModes(d, mlReg, mlLock)
  BY Zenon DEF ChanSetModes
<1> HIDE DEF d
<1>3. mlReg \in BOOLEAN /\ mlLock \in MlLock /\ MlSound(mlLock)
  BY DEF MlFull, MlInv
<1>4. d \in MlC
  BY <1>1 DEF d
<1>5. /\ CheckModes(d, mlReg, mlLock) \in MlC
      /\ mlReg => MlHolds(CheckModes(d, mlReg, mlLock), mlLock) \/ CheckModes(d, mlReg, mlLock).bouncy
  BY <1>3, <1>4, MlChecked
<1>. QED
  BY <1>2, <1>4, <1>5, Zenon

LEMMA MlChecks ==
  ASSUME MlFull, NEW lock \in MlLock, MlSound(lock), NEW c \in MlC
  PROVE  /\ CheckModes(c, TRUE, lock) \in MlC
         /\ MlHolds(CheckModes(c, TRUE, lock), lock) \/ CheckModes(c, TRUE, lock).bouncy
<1>1. TRUE \in BOOLEAN
  OBVIOUS
<1>2. /\ CheckModes(c, TRUE, lock) \in MlC
      /\ TRUE => MlHolds(CheckModes(c, TRUE, lock), lock) \/ CheckModes(c, TRUE, lock).bouncy
  BY <1>1, MlChecked, Zenon
<1>. QED
  BY <1>2, Zenon

\* Where a step leaves the channel.
MlLeft == mlReg' => (mlChan' = MlNone \/ MlHolds(mlChan', mlLock') \/ mlChan'.bouncy)

LEMMA MlLeftIs == MlLeft => (LockHolds' \/ mlChan'.bouncy)
BY DEF MlLeft, LockHolds, MlHolds

\* The modes of a SJOIN are lists of what people type.
LEMMA MlJoined ==
  ASSUME NEW s \in SjoinChanges
  PROVE  s \in Seq(Typed)
<1>1. CASE s = <<>>
  BY <1>1
<1>2. ASSUME NEW ch \in WellFormed, s = <<ch>> PROVE s \in Seq(Typed)
  <2>1. ch \in Typed
    BY DEF Typed
  <2>. QED
    BY <1>2, <2>1
<1>3. s = <<>> \/ \E ch \in WellFormed : s = <<ch>>
  BY DEF SjoinChanges
<1>. QED
  BY <1>1, <1>2, <1>3

LEMMA MlSjoins ==
  ASSUME MlFull, NEW c \in MlC, NEW op \in BOOLEAN, NEW s \in Seq(Typed)
  PROVE  /\ SjoinModes(c, op, s) \in MlC
         /\ mlReg => MlHolds(SjoinModes(c, op, s), mlLock) \/ SjoinModes(c, op, s).bouncy
<1>1. \A i \in 1..Len(s) : MlChange(s[i])
  BY MlTyped
<1>2. mlReg \in BOOLEAN /\ mlLock \in MlLock /\ MlSound(mlLock)
  BY DEF MlFull, MlInv
<1> DEFINE d == IF op THEN CheckModes(c, mlReg, mlLock) ELSE c
<1>3. d \in MlC
  <2>1. CheckModes(c, mlReg, mlLock) \in MlC
    BY <1>2, MlChecked
  <2>. QED
    BY <2>1, Zenon
<1>4. SjoinModes(c, op, s) = ChanSetModes(d, s, TRUE)
  BY Zenon DEF SjoinModes
<1> HIDE DEF d
<1>5. /\ ChanSetModes(d, s, TRUE) \in MlC
      /\ mlReg => MlHolds(ChanSetModes(d, s, TRUE), mlLock) \/ ChanSetModes(d, s, TRUE).bouncy
  BY <1>1, <1>3, MlSetModes, Zenon
<1>. QED
  BY <1>4, <1>5, Zenon

LEMMA MlByModes ==
  ASSUME MlFull, NEW s \in Seq(Typed),
         (\E server \in BOOLEAN : MlCmode(server, s)) \/ CsMode(s) \/ OsMode(s)
  PROVE  /\ mlChan' \in MlC /\ mlLock' = mlLock /\ mlReg' = mlReg /\ mlNoChange' = mlNoChange
         /\ MlLeft \/ CsMode(s) \/ OsMode(s)
<1>1. \A i \in 1..Len(s) : MlChange(s[i])
  BY MlTyped
<1>2. mlChan # MlNone /\ mlLock' = mlLock /\ mlReg' = mlReg /\ mlNoChange' = mlNoChange
  BY DEF MlCmode, CsMode, OsMode, ByMode, MlSettings
<1>3. mlChan \in MlC
  BY <1>2 DEF MlFull
<1>4. CASE CsMode(s) \/ OsMode(s)
  <2>1. mlChan' = ChanSetModes(mlChan, s, FALSE)
    BY <1>4, Zenon DEF CsMode, OsMode, ByMode
  <2>2. mlChan' \in MlC
    BY <1>1, <1>3, <2>1, MlSetModes, Zenon
  <2>. QED
    BY <1>2, <1>4, <2>2
<1>5. ASSUME NEW c \in MlC, mlChan' = ChanSetModes(c, s, TRUE)
      PROVE  mlChan' \in MlC /\ MlLeft
  <2>1. /\ mlChan' \in MlC
        /\ mlReg => MlHolds(mlChan', mlLock) \/ mlChan'.bouncy
    BY <1>1, <1>5, MlSetModes, Zenon
  <2>. QED
    BY <1>2, <2>1, Zenon DEF MlLeft
<1>7. ASSUME NEW server \in BOOLEAN, MlCmode(server, s) PROVE mlChan' \in MlC /\ MlLeft
  <2> DEFINE counts == server /\ \A i \in DOMAIN s : s[i].mode \notin MlStatus
             counted == [mlChan EXCEPT !.sc = Counted(@, mlChan.sNow), !.sNow = TRUE]
  <2>1. counted \in MlC
    <3>1. Counted(mlChan.sc, mlChan.sNow) \in 0..MlBounce
      BY <1>3, MlFields, MlCounts
    <3>2. TRUE \in BOOLEAN
      OBVIOUS
    <3>. QED
      BY <1>3, <3>1, <3>2, MlWith, Zenon
  <2>2. mlChan' = ChanSetModes(IF counts THEN counted ELSE mlChan, s, TRUE)
    BY <1>7, Zenon DEF MlCmode
  <2> HIDE DEF counted, counts
  <2>3. mlChan' = ChanSetModes(counted, s, TRUE) \/ mlChan' = ChanSetModes(mlChan, s, TRUE)
    BY <2>2, Zenon
  <2>. QED
    BY <1>3, <1>5, <2>1, <2>3
<1>. QED
  BY <1>2, <1>4, <1>7, Zenon

LEMMA MlClears ==
  ASSUME MlFull, Clearmodes
  PROVE  mlChan' \in MlC /\ mlLock' = mlLock /\ mlReg' = mlReg /\ mlNoChange' = mlNoChange
<1> DEFINE Xs == {[mode |-> m, add |-> FALSE, arg |-> MlNone] : m \in MlFlags} \cup
                {[mode |-> v, add |-> FALSE, arg |-> mlChan.val[v]] : v \in MlValued}
           s == SetToSeq(Xs)
<1>1. /\ mlChan # MlNone /\ mlChan' = ChanSetModes(mlChan, s, FALSE)
      /\ mlLock' = mlLock /\ mlReg' = mlReg /\ mlNoChange' = mlNoChange
  <2>1. ByMode(s)
    BY Zenon DEF Clearmodes
  <2> HIDE DEF s, Xs
  <2>2. mlChan # MlNone /\ mlChan' = ChanSetModes(mlChan, s, FALSE) /\ MlSettings
    BY <2>1, Zenon DEF ByMode
  <2>. QED
    BY <2>2 DEF MlSettings
<1>2. mlChan \in MlC
  BY <1>1 DEF MlFull
<1>3. \A ch \in Xs : MlChange(ch)
  <2>1. FALSE \in BOOLEAN
    OBVIOUS
  <2>2. ASSUME NEW m \in MlModes, NEW v PROVE MlChange([mode |-> m, add |-> FALSE, arg |-> v])
    BY <2>1 DEF MlChange
  <2>3. MlFlags \subseteq MlModes /\ MlValued \subseteq MlModes
    BY DEF MlModes
  <2>. QED
    BY <2>2, <2>3
<1> HIDE DEF Xs
<1>4. IsFiniteSet(Xs)
  <2> DEFINE Y == {[mode |-> m, add |-> FALSE, arg |-> MlNone] : m \in MlFlags}
             Z == {[mode |-> v, add |-> FALSE, arg |-> mlChan.val[v]] : v \in MlValued}
             g == [m \in MlFlags |-> [mode |-> m, add |-> FALSE, arg |-> MlNone]]
             h == [v \in MlValued |-> [mode |-> v, add |-> FALSE, arg |-> mlChan.val[v]]]
  <2>1. g \in Surjection(MlFlags, Y) /\ h \in Surjection(MlValued, Z)
    BY DEF Surjection
  <2> HIDE DEF Y, Z, g, h
  <2>2. IsFiniteSet(Y) /\ IsFiniteSet(Z)
    BY <2>1, FS_Surjection, MlModesAreFinite
  <2>3. Xs = Y \cup Z
    BY DEF Xs, Y, Z
  <2>. QED
    BY <2>2, <2>3, FS_Union
<1>5. s \in Seq(Xs)
  BY <1>4, SetToSeqLists
<1> HIDE DEF s
<1>6. \A i \in 1..Len(s) : MlChange(s[i])
  BY <1>3, <1>5
<1>7. mlChan' \in MlC
  BY <1>1, <1>2, <1>5, <1>6, MlSetModes, Zenon
<1>. QED
  BY <1>1, <1>7

LEMMA MlGuardmSets ==
  ASSUME NEW ch1 \in Typed, NEW ch2 \in Typed, Lockable(<<ch1, ch2>>)
  PROVE  FoldLeft(LockChange, NoLock, <<ch1, ch2>>) \in MlLock
         /\ MlSound(FoldLeft(LockChange, NoLock, <<ch1, ch2>>))
<1>1. <<ch1, ch2>> \in Seq(Typed) /\ Len(<<ch1, ch2>>) = 2 /\ <<ch1, ch2>>[1] = ch1 /\ <<ch1, ch2>>[2] = ch2
  OBVIOUS
<1>2. ch1.mode \notin MlStatus /\ ch2.mode \notin MlStatus
  BY <1>1 DEF Lockable
<1>3. ch1.mode \in MlModes /\ ch2.mode \in MlModes
  BY <1>2, MlTyped DEF MlChange
<1>4. \A i \in 1..Len(<<ch1, ch2>>) : <<ch1, ch2>>[i].mode \in MlModes
  BY <1>1, <1>3
<1>. QED
  BY <1>1, <1>4, MlGuards, MlGuardm

\* One step.
LEMMA MlOneStep ==
  ASSUME MlFull, ModeLockNext
  PROVE  /\ mlChan' \in MlC \cup {MlNone} /\ mlLock' \in MlLock
         /\ mlReg' \in BOOLEAN /\ mlNoChange' \in BOOLEAN
         /\ MlLeft \/ ByServices \/ MlTick \/ UNCHANGED <<mlChan, mlLock>>
<1> DEFINE Fine == /\ mlChan' \in MlC \cup {MlNone} /\ mlLock' \in MlLock
                   /\ mlReg' \in BOOLEAN /\ mlNoChange' \in BOOLEAN
                   /\ MlLeft \/ ByServices \/ MlTick \/ UNCHANGED <<mlChan, mlLock>>
<1> SUFFICES Fine
  OBVIOUS
<1>0. /\ mlChan \in MlC \cup {MlNone} /\ mlLock \in MlLock /\ MlSound(mlLock)
      /\ mlReg \in BOOLEAN /\ mlNoChange \in BOOLEAN
  BY DEF MlFull, MlInv
<1>1. ASSUME NEW ch \in Typed, NEW s, s = <<ch>>,
             (\E server \in BOOLEAN : MlCmode(server, s)) \/ CsMode(s) \/ OsMode(s)
      PROVE  Fine
  <2>1. s \in Seq(Typed)
    BY <1>1
  <2>2. /\ mlChan' \in MlC /\ mlLock' = mlLock /\ mlReg' = mlReg /\ mlNoChange' = mlNoChange
        /\ MlLeft \/ CsMode(s) \/ OsMode(s)
    BY <1>1, <2>1, MlByModes, Zenon
  <2>3. OsMode(s) => CsMode(s)
    BY DEF OsMode, CsMode
  <2>4. MlLeft \/ ByServices
    BY <1>1, <2>2, <2>3, Zenon DEF ByServices
  <2>. QED
    BY <1>0, <2>2, <2>4
<1>2. ASSUME NEW c \in MlC, NEW op \in BOOLEAN, NEW s \in SjoinChanges,
             mlChan' = SjoinModes(c, op, s), MlSettings
      PROVE  Fine
  <2>1. s \in Seq(Typed)
    BY MlJoined
  <2>2. /\ mlChan' \in MlC
        /\ mlReg => MlHolds(mlChan', mlLock) \/ mlChan'.bouncy
    BY <1>2, <2>1, MlSjoins, Zenon
  <2>3. mlLock' = mlLock /\ mlReg' = mlReg /\ mlNoChange' = mlNoChange
    BY <1>2 DEF MlSettings
  <2>4. MlLeft
    BY <2>2, <2>3, Zenon DEF MlLeft
  <2>. QED
    BY <1>0, <2>2, <2>3, <2>4
<1>3. ASSUME NEW op \in BOOLEAN, NEW s \in SjoinChanges, MlCreate(op, s) \/ MlSjoin(op, s) PROVE Fine
  <2> DEFINE new == IF mlReg THEN CheckModes(NewChannel, TRUE, mlLock) ELSE NewChannel
  <2>1. new \in MlC
    <3>1. CheckModes(NewChannel, TRUE, mlLock) \in MlC
      BY <1>0, MlLockSets, MlChecks
    <3>. QED
      BY <3>1, MlLockSets
  <2>2. CASE MlCreate(op, s)
    <3>1. mlChan' = SjoinModes(new, op, s) /\ MlSettings
      BY <2>2, Zenon DEF MlCreate
    <3> HIDE DEF new, Fine
    <3>. QED
      BY <1>2, <2>1, <3>1
  <2>3. CASE MlSjoin(op, s)
    <3>1. mlChan # MlNone /\ mlChan' = SjoinModes(mlChan, op, s) /\ MlSettings
      BY <2>3, Zenon DEF MlSjoin
    <3>2. mlChan \in MlC
      BY <1>0, <3>1
    <3> HIDE DEF Fine
    <3>. QED
      BY <1>2, <3>1, <3>2
  <2>. QED
    BY <1>3, <2>2, <2>3
<1>14. CASE MlRestart
  <2>1. mlChan' = MlNone /\ mlLock' = mlLock /\ mlReg' = mlReg /\ mlNoChange' = FALSE
    BY <1>14 DEF MlRestart
  <2>2. MlLeft
    BY <2>1, Zenon DEF MlLeft
  <2>3. mlNoChange' \in BOOLEAN
    BY <2>1
  <2>. QED
    BY <1>0, <2>1, <2>2, <2>3
<1>15. CASE MlJoin \/ MlPart \/ MlCsJoin \/ MlCsPart
  <2>1. UNCHANGED <<mlChan, mlLock, mlReg, mlNoChange>>
    BY <1>15 DEF MlJoin, MlPart, MlCsJoin, MlCsPart, MlSettings
  <2>. QED
    BY <1>0, <2>1
<1>4. CASE Clearmodes
  <2>1. mlChan' \in MlC /\ mlLock' = mlLock /\ mlReg' = mlReg /\ mlNoChange' = mlNoChange
    BY <1>4, MlClears
  <2>2. ByServices
    BY <1>4, Zenon DEF ByServices
  <2>. QED
    BY <1>0, <2>1, <2>2
<1>5. ASSUME NEW lock \in MlLock, MlSound(lock), mlLock' = lock, mlNoChange' = mlNoChange, mlReg' \in BOOLEAN,
             mlChan' = IF mlChan = MlNone THEN MlNone ELSE CheckModes(mlChan, TRUE, lock)
      PROVE  Fine
  <2>1. mlChan # MlNone =>
           /\ CheckModes(mlChan, TRUE, lock) \in MlC
           /\ MlHolds(CheckModes(mlChan, TRUE, lock), lock) \/ CheckModes(mlChan, TRUE, lock).bouncy
    BY <1>0, <1>5, MlChecks
  <2>2. mlChan' \in MlC \cup {MlNone} /\ (mlChan' = MlNone \/ MlHolds(mlChan', mlLock') \/ mlChan'.bouncy)
    BY <1>5, <2>1
  <2>3. MlLeft
    BY <2>2, Zenon DEF MlLeft
  <2>. QED
    BY <1>0, <1>5, <2>2, <2>3
<1>6. ASSUME NEW ch1 \in Typed, NEW ch2 \in Typed, Lockable(<<ch1, ch2>>), SetMlock(<<ch1, ch2>>) PROVE Fine
  <2> DEFINE lock == FoldLeft(LockChange, NoLock, <<ch1, ch2>>)
  <2>1. lock \in MlLock /\ MlSound(lock)
    BY <1>6, MlGuardmSets
  <2>2. /\ mlLock' = lock /\ mlReg' = mlReg /\ mlNoChange' = mlNoChange
        /\ mlChan' = IF mlChan = MlNone THEN MlNone ELSE CheckModes(mlChan, TRUE, lock)
    <3>1. /\ mlLock' = lock /\ UNCHANGED <<mlReg, mlNoChange>>
          /\ mlChan' = IF mlChan = MlNone THEN MlNone ELSE CheckModes(mlChan, TRUE, lock)
      BY <1>6, Zenon DEF SetMlock
    <3>. QED
      BY <3>1
  <2> HIDE DEF lock
  <2>3. mlReg' \in BOOLEAN
    BY <1>0, <2>2
  <2> HIDE DEF Fine
  <2>. QED
    BY <1>5, <2>1, <2>2, <2>3, Zenon
<1>7. CASE MlRegister
  <2>1. /\ mlLock' = MlRegistered /\ mlReg' = TRUE /\ mlNoChange' = mlNoChange /\ mlChan # MlNone
        /\ mlChan' = CheckModes(mlChan, TRUE, MlRegistered)
    <3>1. /\ mlLock' = MlRegistered /\ mlReg' = TRUE /\ UNCHANGED <<mlUsers, mlNoChange>> /\ mlChan # MlNone
          /\ mlChan' = CheckModes(mlChan, TRUE, MlRegistered)
      BY <1>7, Zenon DEF MlRegister, MlRegistered
    <3>. QED
      BY <3>1
  <2>2. mlReg' \in BOOLEAN
    BY <2>1
  <2>3. mlChan' = IF mlChan = MlNone THEN MlNone ELSE CheckModes(mlChan, TRUE, MlRegistered)
    BY <2>1, Zenon
  <2> HIDE DEF Fine
  <2>. QED
    BY <1>5, <2>1, <2>2, <2>3, MlLockSets
<1>8. CASE MlDrop
  <2>1. /\ mlReg' = FALSE /\ mlLock' = NoLock /\ mlNoChange' = mlNoChange
        /\ mlChan' = IF mlChan = MlNone THEN MlNone ELSE [mlChan EXCEPT !.modes = @ \ {"r"}]
    BY <1>8 DEF MlDrop
  <2>2. mlChan # MlNone => [mlChan EXCEPT !.modes = @ \ {"r"}] \in MlC
    <3>1. mlChan # MlNone => mlChan.modes \ {"r"} \in SUBSET MlModes
      BY <1>0, MlFields
    <3>. QED
      BY <1>0, <3>1, MlWith
  <2>3. MlLeft
    BY <2>1, Zenon DEF MlLeft
  <2>4. mlChan' \in MlC \cup {MlNone}
    BY <2>1, <2>2
  <2>. QED
    BY <1>0, <2>1, <2>3, <2>4, MlLockSets
<1>9. CASE MlDefCon
  <2>1. mlNoChange' = ~mlNoChange /\ UNCHANGED <<mlChan, mlLock, mlReg>>
    BY <1>9 DEF MlDefCon
  <2>2. mlNoChange' \in BOOLEAN
    BY <2>1, Zenon
  <2>. QED
    BY <1>0, <2>1, <2>2
<1>10. CASE MlTick
  <2>1. /\ mlChan # MlNone /\ mlChan' = [mlChan EXCEPT !.sNow = FALSE, !.cNow = FALSE]
        /\ mlLock' = mlLock /\ mlReg' = mlReg /\ mlNoChange' = mlNoChange
    BY <1>10 DEF MlTick, MlSettings
  <2>2. FALSE \in BOOLEAN
    OBVIOUS
  <2>3. mlChan \in MlC
    BY <1>0, <2>1
  <2>4. mlChan' \in MlC
    BY <2>1, <2>2, <2>3, MlWith, Zenon
  <2>. QED
    BY <1>0, <1>10, <2>1, <2>4
<1> HIDE DEF Fine
<1>11. ASSUME NEW ch \in WellFormed, NEW server \in BOOLEAN, MlCmode(server, <<ch>>) PROVE Fine
  <2>1. ch \in Typed
    BY DEF Typed
  <2>. QED
    BY <1>1, <1>11, <2>1, Zenon
<1>13. ASSUME NEW ch \in Typed, CsMode(<<ch>>) \/ OsMode(<<ch>>) PROVE Fine
  BY <1>1, <1>13, Zenon
<1>. QED
  BY <1>3, <1>4, <1>6, <1>7, <1>8, <1>9, <1>10, <1>11, <1>13, <1>14, <1>15, Zenon DEF ModeLockNext

\* What the network's channel lacks are modes.
LEMMA MlStaleIs ==
  ASSUME MlFull
  PROVE  /\ \A d, told : StaleAfter(mlStale, d, told) \subseteq MlModes
         /\ mlChan # MlNone => StaleOnOpening \subseteq MlModes
         /\ mlChan # MlNone => \A d, told : StaleAfter(StaleOnOpening, d, told) \subseteq MlModes
<1>1. ASSUME NEW stale, NEW d, NEW told, stale \subseteq MlModes
      PROVE  StaleAfter(stale, d, told) \subseteq MlModes
  BY <1>1 DEF StaleAfter
<1>2. mlChan # MlNone => StaleOnOpening \subseteq MlModes
  <2>1. mlChan # MlNone => mlChan.modes \subseteq MlModes
    BY MlFields DEF MlFull
  <2>. QED
    BY <2>1 DEF StaleOnOpening, MlFull
<1>3. mlStale \subseteq MlModes
  BY DEF MlFull
<1>. QED
  BY <1>1, <1>2, <1>3

\* Who is on the channel, and what is stale of the record.
MlNet == mlUsers' \in BOOLEAN /\ mlStays' \in BOOLEAN /\ mlStale' \subseteq MlModes

LEMMA MlNetIs ==
  ASSUME MlFull, ModeLockNext
  PROVE  MlNet
<1>1. /\ mlUsers \in BOOLEAN /\ mlStays \in BOOLEAN /\ mlReg \in BOOLEAN /\ mlStale \subseteq MlModes
      /\ TRUE \in BOOLEAN /\ FALSE \in BOOLEAN /\ {} \subseteq MlModes
  BY DEF MlFull
<1>2. ASSUME MlHere PROVE mlUsers' \in BOOLEAN /\ mlStays' \in BOOLEAN
  BY <1>1, <1>2 DEF MlHere
<1>3. ASSUME NEW server, NEW s, MlCmode(server, s) PROVE MlNet
  <2>1. MlHere /\ \E d, told : mlStale' = StaleAfter(mlStale, d, told)
    BY <1>3, Zenon DEF MlCmode
  <2>. QED
    BY <1>2, <2>1, MlStaleIs DEF MlNet
<1>4. ASSUME NEW s, ByMode(s) PROVE MlNet
  <2>1. MlHere /\ \E d, told : mlStale' = StaleAfter(mlStale, d, told)
    BY <1>4, Zenon DEF ByMode
  <2>. QED
    BY <1>2, <2>1, MlStaleIs DEF MlNet
<1>5. ASSUME NEW op, NEW s, MlCreate(op, s) PROVE MlNet
  <2>1. mlUsers' = TRUE /\ mlStays' = (mlStays \/ mlReg) /\ UNCHANGED mlStale
    BY <1>5, Zenon DEF MlCreate
  <2>2. mlStays' \in BOOLEAN
    BY <2>1, Zenon
  <2>. QED
    BY <1>1, <2>1, <2>2 DEF MlNet
<1>6. ASSUME NEW op, NEW s, MlSjoin(op, s) PROVE MlNet
  <2>1. /\ mlUsers' = TRUE /\ UNCHANGED mlStays /\ mlChan # MlNone
        /\ \E d, told : mlStale' = StaleAfter(StaleOnOpening, d, told)
    BY <1>6, Zenon DEF MlSjoin
  <2>. QED
    BY <1>1, <2>1, MlStaleIs DEF MlNet
<1>7. CASE MlJoin \/ MlPart \/ MlCsPart \/ MlRestart
  BY <1>1, <1>7 DEF MlJoin, MlPart, MlCsPart, MlRestart, StaleOnLeaving, MlNet
<1>8. CASE MlCsJoin
  <2>1. mlStays' = TRUE /\ mlStale' = StaleOnOpening /\ mlUsers' = mlUsers /\ mlChan # MlNone
    BY <1>8 DEF MlCsJoin
  <2>. QED
    BY <1>1, <2>1, MlStaleIs DEF MlNet
<1>9. ASSUME NEW s, SetMlock(s) PROVE MlNet
  <2>1. /\ MlHere
        /\ \E d : mlStale' = IF mlChan = MlNone THEN mlStale ELSE StaleAfter(mlStale, d, {})
    BY <1>9, Zenon DEF SetMlock
  <2>. QED
    BY <1>1, <1>2, <2>1, MlStaleIs DEF MlNet
<1>10. CASE MlRegister
  <2>1. mlStays' = TRUE /\ UNCHANGED <<mlUsers, mlNoChange>> /\ \E d : mlStale' = StaleAfter(mlStale, d, {})
    BY <1>10, Zenon DEF MlRegister
  <2>. QED
    BY <1>1, <2>1, MlStaleIs DEF MlNet
<1>11. CASE MlDrop
  BY <1>1, <1>11 DEF MlDrop, MlNet
<1>12. CASE MlDefCon \/ MlTick
  BY <1>1, <1>2, <1>12 DEF MlDefCon, MlTick, MlNet
<1>13. CASE Clearmodes
  BY <1>4, <1>13, Zenon DEF Clearmodes
<1>. QED
  BY <1>3, <1>4, <1>5, <1>6, <1>7, <1>8, <1>9, <1>10, <1>11, <1>12, <1>13, Zenon DEF ModeLockNext, CsMode, OsMode

LEMMA MlFullSteps == MlFull /\ [ModeLockNext]_mlVars => MlFull'
<1> SUFFICES ASSUME MlFull, [ModeLockNext]_mlVars PROVE MlFull'
  OBVIOUS
<1>1. MlInv'
  BY MlSteps DEF MlFull
<1>2. CASE ModeLockNext
  BY <1>1, <1>2, MlOneStep, MlNetIs DEF MlFull, MlNet
<1>3. CASE UNCHANGED mlVars
  BY <1>1, <1>3 DEF MlFull, mlVars
<1>. QED
  BY <1>2, <1>3

LEMMA MlEnforced == MlFull /\ [ModeLockNext]_mlVars => [MlStep]_mlVars
<1> SUFFICES ASSUME MlFull, ModeLockNext PROVE MlStep
  OBVIOUS
<1>1. MlLeft \/ ByServices \/ MlTick \/ UNCHANGED <<mlChan, mlLock>>
  BY MlOneStep, Zenon
<1>. QED
  BY <1>1, MlLeftIs DEF MlStep

-----------------------------------------------------------------------------
(* Which bans a channel has (ChanBans).                                    *)

\* Bans that services and the network know.
CbState == [bans: Seq(CbMask), net: SUBSET CbMask]

\* T has the bans of S, and hides none that S does not.
CbMore(S, T) ==
    /\ T \in CbState
    /\ ToSet(S.bans) \subseteq ToSet(T.bans)
    /\ S.net \subseteq ToSet(S.bans) => T.net \subseteq ToSet(T.bans)

LEMMA CbStateIs ==
  ASSUME NEW S \in CbState
  PROVE  /\ S.bans \in Seq(CbMask) /\ S.net \subseteq CbMask
         /\ S = [bans |-> S.bans, net |-> S.net]
BY DEF CbState

LEMMA CbMoreIs ==
  ASSUME NEW S \in CbState, NEW T, NEW U, CbMore(S, T), CbMore(T, U)
  PROVE  CbMore(S, U)
BY DEF CbMore

LEMMA CbAppends ==
  ASSUME NEW R, NEW s \in Seq(R), NEW x \in R
  PROVE  Append(s, x) \in Seq(R) /\ ToSet(Append(s, x)) = ToSet(s) \cup {x}
<1>1. /\ Append(s, x) \in Seq(R) /\ Len(Append(s, x)) = Len(s) + 1 /\ Append(s, x)[Len(s) + 1] = x
      /\ \A i \in 1..Len(s) : Append(s, x)[i] = s[i]
  OBVIOUS
<1>2. DOMAIN Append(s, x) = 1..(Len(s) + 1) /\ DOMAIN s = 1..Len(s) /\ Len(s) \in Nat
  BY <1>1
<1>3. 1..(Len(s) + 1) = (1..Len(s)) \cup {Len(s) + 1}
  BY <1>2
<1>. QED
  BY <1>1, <1>2, <1>3 DEF ToSet

LEMMA CbRemoves ==
  ASSUME NEW R, NEW s \in Seq(R), NEW x \in ToSet(s)
  PROVE  /\ RemoveFirst(s, x) \in Seq(R)
         /\ ToSet(s) \ {x} \subseteq ToSet(RemoveFirst(s, x))
<1> DEFINE I == {i \in 1..Len(s) : s[i] = x}
           k == CHOOSE i \in I : \A j \in I : i <= j
           new == RemoveAt(s, k)
<1>1. \E i \in 1..Len(s) : s[i] = x
  BY DEF ToSet
<1>2. I # {} /\ I \subseteq Nat
  BY <1>1
<1>3. RemoveFirst(s, x) = new
  <2>1. SelectInSeq(s, LAMBDA v : v = x) = k
    BY <1>2, Zenon DEF SelectInSeq, Min
  <2>. QED
    BY <1>1, <2>1, Zenon DEF RemoveFirst
<1>4. k \in I
  BY <1>2, LeastNat
<1> HIDE DEF k
<1>5. k \in DOMAIN s /\ s[k] = x
  BY <1>4
<1>6. /\ new \in Seq(R) /\ Len(new) = Len(s) - 1
      /\ \A j \in 1..(Len(s) - 1) : new[j] = IF j < k THEN s[j] ELSE s[j + 1]
  BY <1>5, RemoveAtShifts
<1> HIDE DEF new, I
<1>7. ASSUME NEW j \in 1..Len(s), s[j] # x PROVE \E i \in 1..Len(new) : new[i] = s[j]
  <2>1. k \in 1..Len(s) /\ j # k /\ Len(s) \in Nat
    BY <1>5, <1>7
  <2>2. CASE j < k
    <3>1. j \in 1..(Len(s) - 1)
      BY <2>1, <2>2
    <3>. QED
      BY <1>6, <2>2, <3>1
  <2>3. CASE j > k
    <3>1. j - 1 \in 1..(Len(s) - 1) /\ ~(j - 1 < k) /\ j - 1 + 1 = j
      BY <2>1, <2>3
    <3>. QED
      BY <1>6, <3>1
  <2>. QED
    BY <2>1, <2>2, <2>3
<1>. QED
  BY <1>3, <1>6, <1>7 DEF ToSet

\* A ban that services set.
LEMMA CbSets ==
  ASSUME NEW S \in CbState, NEW bot, NEW m \in CbMask
  PROVE  /\ CbMore(S, CbSet(bot, S, m))
         /\ m \notin CbBotMasks => m \in ToSet(CbSet(bot, S, m).bans)
<1> DEFINE set == [S EXCEPT !.net = @ \cup {m}]
           new == CbSet(bot, S, m)
<1>0. S.bans \in Seq(CbMask) /\ S.net \subseteq CbMask /\ S = [bans |-> S.bans, net |-> S.net]
  BY CbStateIs
<1>1. set = [bans |-> S.bans, net |-> S.net \cup {m}]
  <2>1. set \in CbState /\ set.bans = S.bans /\ set.net = S.net \cup {m}
    BY DEF CbState
  <2> HIDE DEF set
  <2>. QED
    BY <2>1, CbStateIs
<1>2. new = IF bot /\ m \in CbBotMasks THEN [set EXCEPT !.net = @ \ {m}]
            ELSE [set EXCEPT !.bans = Append(@, m)]
  BY Zenon DEF CbSet
<1> HIDE DEF set, new
<1>3. CASE bot /\ m \in CbBotMasks
  <2>1. new = [bans |-> S.bans, net |-> (S.net \cup {m}) \ {m}]
    BY <1>1, <1>2, <1>3
  <2>2. new.bans = S.bans /\ new.net \subseteq S.net /\ new \in CbState
    BY <1>0, <2>1 DEF CbState
  <2>. QED
    BY <1>3, <2>2 DEF CbMore, new
<1>4. CASE ~(bot /\ m \in CbBotMasks)
  <2>1. new = [bans |-> Append(S.bans, m), net |-> S.net \cup {m}]
    BY <1>1, <1>2, <1>4
  <2>2. Append(S.bans, m) \in Seq(CbMask) /\ ToSet(Append(S.bans, m)) = ToSet(S.bans) \cup {m}
    BY <1>0, CbAppends
  <2>3. new \in CbState
    BY <1>0, <2>1, <2>2 DEF CbState
  <2>4. new.bans = Append(S.bans, m) /\ new.net = S.net \cup {m}
    BY <2>1
  <2>. QED
    BY <2>2, <2>3, <2>4 DEF CbMore, new
<1>. QED
  BY <1>3, <1>4

LEMMA CbSetIs ==
  ASSUME NEW S, NEW m
  PROVE  SetBan(S, m) = CbSet(BotThere, S, m)
BY Zenon DEF SetBan, AddBan, CbSet

\* stick_all(), whatever the number of autokicks.
LEMMA CbStickTurns ==
  ASSUME NEW S, cbAkick \in Seq(AkickSlots)
  PROVE  \E f : /\ Turns([fold |-> "stick", list |-> cbAkick, bot |-> BotThere], S, Len(cbAkick), f)
                /\ f[Len(cbAkick)] = StickAll(S)
<1> DEFINE a == [fold |-> "stick", list |-> cbAkick, bot |-> BotThere]
           it == CHOOSE g : g = [t \in SUBSET DOMAIN cbAkick |->
                     IF t = {} THEN S ELSE CbStick(BotThere, g[t \ {Max(t)}], cbAkick[Max(t)])]
<1>1. StickAll(S) = it[DOMAIN cbAkick]
  BY Zenon DEF StickAll, FoldLeft, MapThenFoldSet, CbStick, SetBan, AddBan, CbSet
<1>2. DOMAIN cbAkick = 1..Len(cbAkick) /\ Len(cbAkick) \in Nat
  OBVIOUS
<1>3. \A w, i : Turn(a, w, i) = CbStick(BotThere, w, cbAkick[i])
  BY DEF Turn
<1> HIDE DEF a
<1>4. PICK g : IsFold(a, S, 1..Len(cbAkick), g)
  BY <1>2, FoldExists
<1>5. g = [t \in SUBSET DOMAIN cbAkick |->
             IF t = {} THEN S ELSE CbStick(BotThere, g[t \ {Max(t)}], cbAkick[Max(t)])]
  BY <1>2, <1>3, <1>4 DEF IsFold
<1>6. it = [t \in SUBSET DOMAIN cbAkick |->
              IF t = {} THEN S ELSE CbStick(BotThere, it[t \ {Max(t)}], cbAkick[Max(t)])]
  BY <1>5
<1> HIDE DEF it
<1>7. IsFold(a, S, 1..Len(cbAkick), it)
  BY <1>2, <1>3, <1>6 DEF IsFold
<1>8. \E f : Turns(a, S, Len(cbAkick), f) /\ f[Len(cbAkick)] = it[1..Len(cbAkick)]
  BY <1>2, <1>7, FoldTurns
<1>. QED
  BY <1>1, <1>2, <1>8 DEF a

LEMMA CbSticksAll ==
  ASSUME cbAkick \in Seq(AkickSlots), NEW S \in CbState,
         \A i \in StuckSlots : cbAkick[i].who \in CbMask
  PROVE  /\ CbMore(S, StickAll(S))
         /\ \A i \in StuckSlots : cbAkick[i].who \notin CbBotMasks => cbAkick[i].who \in ToSet(StickAll(S).bans)
<1> DEFINE a == [fold |-> "stick", list |-> cbAkick, bot |-> BotThere]
           n == Len(cbAkick)
<1>1. PICK f : Turns(a, S, n, f) /\ f[n] = StickAll(S)
  BY CbStickTurns
<1>2. f[0] = S /\ \A k \in Nat : k < n => f[k + 1] = CbStick(BotThere, f[k], cbAkick[k + 1])
  BY <1>1 DEF Turns, Turn
<1>3. n \in Nat /\ DOMAIN cbAkick = 1..n
  OBVIOUS
<1> DEFINE On(k) == \A i \in StuckSlots : (i <= k /\ cbAkick[i].who \notin CbBotMasks) => cbAkick[i].who \in ToSet(f[k].bans)
           P == {k \in Nat : k <= n => CbMore(S, f[k]) /\ On(k)}
<1>4. 0 \in P
  <2>1. StuckSlots \subseteq 1..n
    BY <1>3 DEF StuckSlots
  <2>2. CbMore(S, f[0])
    BY <1>2 DEF CbMore
  <2>. QED
    BY <2>1, <2>2
<1>5. ASSUME NEW k \in Nat, k \in P PROVE k + 1 \in P
  <2>1. SUFFICES ASSUME k + 1 <= n PROVE CbMore(S, f[k + 1]) /\ On(k + 1)
    OBVIOUS
  <2>2. CbMore(S, f[k]) /\ On(k) /\ f[k + 1] = CbStick(BotThere, f[k], cbAkick[k + 1])
    BY <1>2, <1>5, <2>1
  <2>3. f[k] \in CbState
    BY <2>2 DEF CbMore
  <2>4. CASE k + 1 \in StuckSlots
    <3> DEFINE who == cbAkick[k + 1].who
    <3>1. f[k + 1] = CbSet(BotThere, f[k], who) /\ who \in CbMask
      BY <2>2, <2>4 DEF StuckSlots, CbStick
    <3> HIDE DEF who
    <3>2. CbMore(f[k], f[k + 1]) /\ (who \notin CbBotMasks => who \in ToSet(f[k + 1].bans))
      BY <2>3, <3>1, CbSets
    <3>3. CbMore(S, f[k + 1])
      BY <2>2, <3>2, CbMoreIs
    <3>4. On(k + 1)
      <4> SUFFICES ASSUME NEW i \in StuckSlots, i <= k + 1, cbAkick[i].who \notin CbBotMasks
                   PROVE  cbAkick[i].who \in ToSet(f[k + 1].bans)
        OBVIOUS
      <4>1. i \in Nat
        BY <1>3 DEF StuckSlots
      <4>2. CASE i = k + 1
        BY <3>2, <4>2 DEF who
      <4>3. CASE i <= k
        BY <2>2, <3>2, <4>3 DEF CbMore
      <4>. QED
        BY <4>1, <4>2, <4>3
    <3>. QED
      BY <3>3, <3>4
  <2>5. CASE k + 1 \notin StuckSlots
    <3>1. ~(cbAkick[k + 1].used /\ cbAkick[k + 1].stuck)
      BY <1>3, <2>1, <2>5 DEF StuckSlots
    <3>2. f[k + 1] = f[k]
      BY <2>2, <3>1 DEF CbStick
    <3>3. On(k + 1)
      <4> SUFFICES ASSUME NEW i \in StuckSlots, i <= k + 1, cbAkick[i].who \notin CbBotMasks
                   PROVE  cbAkick[i].who \in ToSet(f[k + 1].bans)
        OBVIOUS
      <4>1. i \in Nat /\ i # k + 1
        BY <1>3, <2>5 DEF StuckSlots
      <4>. QED
        BY <2>2, <3>2, <4>1
    <3>. QED
      BY <2>2, <3>2, <3>3
  <2>. QED
    BY <2>4, <2>5
<1> HIDE DEF P
<1>6. n \in P
  BY <1>3, <1>4, <1>5, NatInd
<1>7. CbMore(S, f[n]) /\ On(n)
  BY <1>3, <1>6 DEF P
<1>8. \A i \in StuckSlots : i <= n
  BY <1>3 DEF StuckSlots
<1>. QED
  BY <1>1, <1>7, <1>8

\* del_ban(), after the network has lost the ban: what it is without the mask,
\* and what stick_mask() makes of it.
CbWithout(S, m) == [S EXCEPT !.bans = IF m \in ToSet(@) THEN RemoveFirst(@, m) ELSE @]

LEMMA CbTakes ==
  ASSUME NEW S \in CbState, NEW m \in CbMask
  PROVE  /\ CbWithout(S, m) \in CbState /\ CbWithout(S, m).net = S.net
         /\ ToSet(S.bans) \ {m} \subseteq ToSet(CbWithout(S, m).bans)
<1> DEFINE bans == IF m \in ToSet(S.bans) THEN RemoveFirst(S.bans, m) ELSE S.bans
<1>1. bans \in Seq(CbMask) /\ ToSet(S.bans) \ {m} \subseteq ToSet(bans)
  BY CbStateIs, CbRemoves
<1>2. CbWithout(S, m) = [S EXCEPT !.bans = bans]
  BY DEF CbWithout
<1> HIDE DEF bans
<1>3. /\ CbWithout(S, m) \in CbState /\ CbWithout(S, m).net = S.net /\ CbWithout(S, m).bans = bans
  BY <1>1, <1>2 DEF CbState
<1>. QED
  BY <1>1, <1>3

LEMMA CbFirstStuck ==
  ASSUME cbAkick \in Seq(AkickSlots), NEW m
  PROVE  LET I == {i \in StuckSlots : CbCovers(m, cbAkick[i].who)}
         IN  IF I = {} THEN IsStuck(m) = 0 ELSE IsStuck(m) \in I /\ IsStuck(m) # 0
<1> DEFINE I == {i \in StuckSlots : CbCovers(m, cbAkick[i].who)}
<1>1. I \subseteq Nat \ {0}
  BY DEF StuckSlots
<1>2. IsStuck(m) = IF I = {} THEN 0 ELSE CHOOSE i \in I : \A j \in I : i <= j
  BY DEF IsStuck
<1> HIDE DEF I
<1>3. I # {} => (CHOOSE i \in I : \A j \in I : i <= j) \in I
  <2>1. I \subseteq Nat
    BY <1>1
  <2>. QED
    BY <2>1, LeastNat
<1>4. IF I = {} THEN IsStuck(m) = 0 ELSE IsStuck(m) \in I /\ IsStuck(m) # 0
  BY <1>1, <1>2, <1>3
<1>. QED
  BY <1>4 DEF I

LEMMA CbDeletes ==
  ASSUME NEW S \in CbState, NEW m \in CbMask, cbAkick \in Seq(AkickSlots),
         \A i \in StuckSlots : cbAkick[i].who \in CbStuckMasks
  PROVE  /\ CbMore(CbWithout(S, m), DelBan(S, m))
         /\ CbStuckMasks \cap CbBotMasks = {} =>
               \A i \in StuckSlots :
                  (/\ CbCovers(m, cbAkick[i].who)
                   /\ \A j \in StuckSlots : CbCovers(m, cbAkick[j].who) => j = i)
                  => \E b \in ToSet(DelBan(S, m).bans) : CbCovers(b, cbAkick[i].who)
<1> DEFINE T == CbWithout(S, m)
           k == IsStuck(m)
           I == {i \in StuckSlots : CbCovers(m, cbAkick[i].who)}
<1>1. DelBan(S, m) = IF k = 0 THEN T ELSE StickMask(T, k)
  BY Zenon DEF DelBan, CbWithout
<1>2. T \in CbState
  BY CbTakes
<1>3. IF I = {} THEN k = 0 ELSE k \in I /\ k # 0
  BY CbFirstStuck
<1>4. StickMask(T, k) = IF \E b \in ToSet(T.bans) : CbCovers(b, cbAkick[k].who) THEN T
                        ELSE CbSet(BotThere, T, cbAkick[k].who)
  BY CbSetIs DEF StickMask
<1> HIDE DEF T, k
<1>5. CbMore(T, T)
  BY <1>2 DEF CbMore
<1>6. k # 0 => /\ k \in StuckSlots /\ cbAkick[k].who \in CbStuckMasks /\ cbAkick[k].who \in CbMask
  BY <1>3, CbMaskAssumption
<1>7. k # 0 => /\ CbMore(T, CbSet(BotThere, T, cbAkick[k].who))
               /\ cbAkick[k].who \notin CbBotMasks => cbAkick[k].who \in ToSet(CbSet(BotThere, T, cbAkick[k].who).bans)
  BY <1>2, <1>6, CbSets
<1>8. CbMore(T, DelBan(S, m))
  BY <1>1, <1>4, <1>5, <1>7
<1>9. ASSUME CbStuckMasks \cap CbBotMasks = {}, NEW i \in StuckSlots, CbCovers(m, cbAkick[i].who),
             \A j \in StuckSlots : CbCovers(m, cbAkick[j].who) => j = i
      PROVE  \E b \in ToSet(DelBan(S, m).bans) : CbCovers(b, cbAkick[i].who)
  <2>1. i \in I
    BY <1>9
  <2>2. k # 0 /\ k \in I
    BY <1>3, <2>1
  <2>3. k = i
    BY <1>9, <2>2
  <2>4. cbAkick[i].who \notin CbBotMasks /\ CbCovers(cbAkick[i].who, cbAkick[i].who)
    BY <1>9 DEF CbCovers
  <2> DEFINE who == cbAkick[i].who
  <2>5. DelBan(S, m) = IF \E b \in ToSet(T.bans) : CbCovers(b, who) THEN T ELSE CbSet(BotThere, T, who)
    BY <1>1, <1>4, <2>2, <2>3
  <2>6. who \in ToSet(CbSet(BotThere, T, who).bans)
    BY <1>7, <2>2, <2>3, <2>4
  <2> HIDE DEF who
  <2>7. CASE \E b \in ToSet(T.bans) : CbCovers(b, who)
    BY <2>5, <2>7 DEF who
  <2>8. CASE ~\E b \in ToSet(T.bans) : CbCovers(b, who)
    BY <2>4, <2>5, <2>6, <2>8 DEF who
  <2>. QED
    BY <2>7, <2>8
<1>. QED
  BY <1>8, <1>9 DEF T

-----------------------------------------------------------------------------
\* Before there is a record nobody is there, and no ban, unless ChanServ opened
\* the channel for one.
CbQuiet == ~cbExists => cbUsers = {} /\ (~cbInhabit => cbNet = {} /\ ~cbHere)

CbFull ==
    /\ CbInv /\ B \in CbState
    /\ cbUsers \subseteq CbUser /\ cbInhabit \in BOOLEAN /\ cbBot \in BOOLEAN
    /\ \A i \in StuckSlots : cbAkick[i].who \in CbStuckMasks
    /\ cbExists \in BOOLEAN /\ cbHere \in BOOLEAN /\ CbQuiet

LEMMA CbFullIs ==
  ASSUME CbFull
  PROVE  /\ cbAkick \in Seq(AkickSlots) /\ cbBans \in Seq(CbMask) /\ cbNet \subseteq CbMask
         /\ B \in CbState /\ B.bans = cbBans /\ B.net = cbNet
         /\ cbUsers \subseteq CbUser /\ cbInhabit \in BOOLEAN /\ cbBot \in BOOLEAN
         /\ \A i \in StuckSlots : cbAkick[i].who \in CbStuckMasks /\ cbAkick[i].who \in CbMask
         /\ cbExists \in BOOLEAN /\ cbHere \in BOOLEAN
         /\ ~cbExists => cbUsers = {} /\ (~cbInhabit => cbNet = {} /\ ~cbHere)
<1>1. B.bans = cbBans /\ B.net = cbNet
  BY DEF B
<1>. QED
  BY <1>1, CbStateIs, CbMaskAssumption DEF CbFull, CbInv, CbQuiet

LEMMA CbFullStarts == ChanBansInit => CbFull
<1> SUFFICES ASSUME ChanBansInit PROVE CbFull
  OBVIOUS
<1>1. /\ cbUsers = {} /\ cbBans = <<>> /\ cbNet = {} /\ cbInhabit = FALSE /\ cbBot \in BOOLEAN
      /\ cbExists = FALSE /\ cbHere = FALSE
      /\ cbAkick \in {<<>>} \cup {<<StuckAkick(m)>> : m \in CbStuckMasks}
                   \cup {<<StuckAkick(m), StuckAkick(n)>> : m, n \in CbStuckMasks}
  BY DEF ChanBansInit
<1>2. \A i \in DOMAIN cbAkick : cbAkick[i].who \in CbStuckMasks
  <2>1. CASE cbAkick = <<>>
    BY <2>1
  <2>2. ASSUME NEW m \in CbStuckMasks, cbAkick = <<StuckAkick(m)>> 
        PROVE  \A i \in DOMAIN cbAkick : cbAkick[i].who \in CbStuckMasks
    BY <2>2 DEF StuckAkick
  <2>3. ASSUME NEW m \in CbStuckMasks, NEW n \in CbStuckMasks, cbAkick = <<StuckAkick(m), StuckAkick(n)>> 
        PROVE  \A i \in DOMAIN cbAkick : cbAkick[i].who \in CbStuckMasks
    BY <2>3 DEF StuckAkick
  <2>. QED
    BY <1>1, <2>1, <2>2, <2>3
<1>3. B \in CbState
  <2>1. cbBans \in Seq(CbMask) /\ cbNet \in SUBSET CbMask
    BY <1>1
  <2>. QED
    BY <2>1 DEF B, CbState
<1>4. cbUsers \subseteq CbUser /\ cbInhabit \in BOOLEAN /\ CbInv
  BY <1>1, CbStarts
<1>5. \A i \in StuckSlots : cbAkick[i].who \in CbStuckMasks
  BY <1>2 DEF StuckSlots
<1>6. CbQuiet /\ cbExists \in BOOLEAN /\ cbHere \in BOOLEAN
  BY <1>1 DEF CbQuiet
<1>. QED
  BY <1>1, <1>3, <1>4, <1>5, <1>6 DEF CbFull

\* The stuck autokicks were there before.
LEMMA CbStuckBefore ==
  ASSUME CbFull, [ChanBansNext]_cbVars
  PROVE  /\ StuckSlots' \subseteq StuckSlots
         /\ \A i \in StuckSlots' : cbAkick'[i].who = cbAkick[i].who
<1>0. cbAkick \in Seq(AkickSlots)
  BY CbFullIs
<1>1. ASSUME \A i \in DOMAIN cbAkick' : (cbAkick'[i].used /\ cbAkick'[i].stuck) =>
                                          (i \in DOMAIN cbAkick /\ cbAkick'[i] = cbAkick[i])
      PROVE  /\ StuckSlots' \subseteq StuckSlots
             /\ \A i \in StuckSlots' : cbAkick'[i].who = cbAkick[i].who
  BY <1>1 DEF StuckSlots
<1>2. ASSUME NEW who \in CbMask \cup CbGroup, CbBan(who)
      PROVE  /\ StuckSlots' \subseteq StuckSlots
             /\ \A i \in StuckSlots' : cbAkick'[i].who = cbAkick[i].who
  <2> DEFINE e == [used |-> TRUE, who |-> who, stuck |-> FALSE]
             k == CHOOSE i \in CbFreeSlots : \A j \in CbFreeSlots : i <= j
  <2>1. e \in AkickSlots /\ ~e.stuck
    BY DEF AkickSlots
  <2>2. IF CbFreeSlots # {} THEN cbAkick' = [cbAkick EXCEPT ![k] = e] ELSE cbAkick' = Append(cbAkick, e)
    BY <1>2 DEF CbBan, AkicksBecome
  <2> HIDE DEF e, k
  <2>3. \A i \in DOMAIN cbAkick' : cbAkick'[i] = e \/ (i \in DOMAIN cbAkick /\ cbAkick'[i] = cbAkick[i])
    <3>1. CASE CbFreeSlots # {}
      BY <2>2, <3>1
    <3>2. CASE CbFreeSlots = {}
      BY <1>0, <2>1, <2>2, <3>2, EntryAdded
    <3>. QED
      BY <3>1, <3>2
  <2>. QED
    BY <1>1, <2>1, <2>3
<1>3. ASSUME NEW who, CbUnban(who)
      PROVE  /\ StuckSlots' \subseteq StuckSlots
             /\ \A i \in StuckSlots' : cbAkick'[i].who = cbAkick[i].who
  <2>1. PICK i \in DOMAIN cbAkick : cbAkick' = AkickDel(cbAkick, i)
    BY <1>3 DEF CbUnban, NumberOf, AkicksBecome
  <2>2. /\ DOMAIN cbAkick' = DOMAIN cbAkick /\ ~cbAkick'[i].used
        /\ \A j \in DOMAIN cbAkick : j # i => cbAkick'[j] = cbAkick[j]
    BY <1>0, <2>1, CbDel
  <2>. QED
    BY <1>1, <2>2
<1>4. ASSUME NEW numbers, CbUnbanNumbers(numbers)
      PROVE  /\ StuckSlots' \subseteq StuckSlots
             /\ \A i \in StuckSlots' : cbAkick'[i].who = cbAkick[i].who
  <2>1. cbAkick' = [i \in DOMAIN cbAkick |-> IF i \in numbers THEN AkickDel(cbAkick, i)[i] ELSE cbAkick[i]]
    BY <1>4 DEF CbUnbanNumbers, AkicksBecome
  <2>2. ASSUME NEW i \in DOMAIN cbAkick PROVE ~AkickDel(cbAkick, i)[i].used
    BY <1>0, CbDel
  <2>3. DOMAIN cbAkick' = DOMAIN cbAkick
    BY <2>1
  <2>4. \A i \in DOMAIN cbAkick : cbAkick'[i].used => cbAkick'[i] = cbAkick[i]
    BY <2>1, <2>2
  <2>. QED
    BY <1>1, <2>3, <2>4
<1>5. ASSUME UNCHANGED cbAkick
      PROVE  /\ StuckSlots' \subseteq StuckSlots
             /\ \A i \in StuckSlots' : cbAkick'[i].who = cbAkick[i].who
  BY <1>5 DEF StuckSlots
<1>6. ASSUME NEW m, UserBan(m) \/ UserUnban(m) PROVE UNCHANGED cbAkick
  BY <1>6 DEF UserBan, UserUnban, CbSame
<1>7. ASSUME NEW u, CbJoin(u) \/ CbPart(u) PROVE UNCHANGED cbAkick
  BY <1>7 DEF CbJoin, CbPart, CheckKick, CbSame
<1>8. TimeoutLeave \/ CbCsJoin \/ CbCsPart \/ CbRestart \/ UNCHANGED cbVars => UNCHANGED cbAkick
  BY DEF TimeoutLeave, CbCsJoin, CbCsPart, CbRestart, CbSame, cbVars
<1>. QED
  BY <1>2, <1>3, <1>4, <1>5, <1>6, <1>7, <1>8 DEF ChanBansNext

\* What a step makes of the bans: more bans, or one ban less and what
\* del_ban() sets again.
CbBansSet ==
    /\ B' \in CbState /\ CbQuiet'
    /\ BansKnown => (BansKnown' \/ (cbInhabit /\ ~cbExists) \/ KickHitsBot)
    /\ StuckCovered /\ CbStuckMasks \cap CbBotMasks = {} =>
          \/ \A i \in StuckSlots : cbExists' => \E b \in ToSet(cbBans') : CbCovers(b, cbAkick[i].who)
          \/ \E m \in CbMask : /\ UserUnban(m)
                               /\ \E i, j \in StuckSlots : i # j /\ CbCovers(m, cbAkick[i].who)
                                                           /\ CbCovers(m, cbAkick[j].who)

LEMMA CbUserBans ==
  ASSUME CbFull, NEW m \in CbMask, UserBan(m)
  PROVE  CbBansSet
<1>0. /\ B \in CbState /\ B.bans = cbBans /\ B.net = cbNet /\ cbNet \subseteq CbMask
  BY CbFullIs
<1> DEFINE S == [B EXCEPT !.net = @ \cup {m}]
           T == AddBan(S, m)
<1>1. cbExists /\ cbBans' = T.bans /\ cbNet' = T.net /\ cbExists' = cbExists
  BY DEF UserBan, BansBecome, CbThere
<1>2. T = CbSet(BotThere, B, m)
  BY Zenon DEF AddBan, CbSet
<1>3. CbMore(B, T)
  BY <1>0, <1>2, CbSets
<1> HIDE DEF T
<1>4. B' = T
  BY <1>1, <1>3, CbStateIs DEF B, CbMore
<1>5. BansKnown => BansKnown'
  BY <1>0, <1>1, <1>3 DEF BansKnown, CbMore
<1>6. StuckCovered => \A i \in StuckSlots : \E b \in ToSet(cbBans') : CbCovers(b, cbAkick[i].who)
  BY <1>0, <1>1, <1>3 DEF StuckCovered, CbMore
<1>. QED
  BY <1>1, <1>3, <1>4, <1>5, <1>6 DEF CbBansSet, CbMore, CbQuiet

LEMMA CbUserUnbans ==
  ASSUME CbFull, NEW m \in CbMask, UserUnban(m)
  PROVE  CbBansSet
<1>0. /\ B \in CbState /\ B.bans = cbBans /\ B.net = cbNet /\ cbNet \subseteq CbMask
      /\ cbAkick \in Seq(AkickSlots) /\ \A i \in StuckSlots : cbAkick[i].who \in CbStuckMasks
  BY CbFullIs
<1> DEFINE S == [B EXCEPT !.net = @ \ {m}]
           T == DelBan(S, m)
           W == CbWithout(S, m)
<1>1. cbExists /\ cbBans' = T.bans /\ cbNet' = T.net /\ cbExists' = cbExists
  BY DEF UserUnban, BansBecome, CbThere
<1>2. S \in CbState /\ S.bans = cbBans /\ S.net = cbNet \ {m}
  BY <1>0 DEF CbState
<1> HIDE DEF S
<1>3. W \in CbState /\ W.net = S.net /\ ToSet(cbBans) \ {m} \subseteq ToSet(W.bans)
  BY <1>2, CbTakes
<1>4. /\ CbMore(W, T)
      /\ CbStuckMasks \cap CbBotMasks = {} =>
               \A i \in StuckSlots :
                  (/\ CbCovers(m, cbAkick[i].who)
                   /\ \A j \in StuckSlots : CbCovers(m, cbAkick[j].who) => j = i)
                  => \E b \in ToSet(T.bans) : CbCovers(b, cbAkick[i].who)
  BY <1>0, <1>2, CbDeletes
<1> HIDE DEF T, W
<1>5. B' = T
  BY <1>1, <1>4, CbStateIs DEF B, CbMore
<1>6. BansKnown => BansKnown'
  <2> SUFFICES ASSUME BansKnown PROVE BansKnown'
    OBVIOUS
  <2>1. cbNet \subseteq ToSet(cbBans)
    BY <1>1 DEF BansKnown
  <2>2. W.net \subseteq ToSet(W.bans)
    BY <1>2, <1>3, <2>1
  <2>. QED
    BY <1>1, <1>4, <2>2 DEF BansKnown, CbMore
<1>7. ASSUME StuckCovered, CbStuckMasks \cap CbBotMasks = {},
             ~\E i, j \in StuckSlots : i # j /\ CbCovers(m, cbAkick[i].who) /\ CbCovers(m, cbAkick[j].who),
             NEW i \in StuckSlots
      PROVE  \E b \in ToSet(cbBans') : CbCovers(b, cbAkick[i].who)
  <2>1. PICK b \in ToSet(cbBans) : CbCovers(b, cbAkick[i].who)
    BY <1>1, <1>7 DEF StuckCovered
  <2>2. CASE b # m
    <3>1. b \in ToSet(cbBans')
      BY <1>1, <1>3, <1>4, <2>2 DEF CbMore
    <3>. QED
      BY <2>1, <3>1
  <2>3. CASE b = m
    BY <1>1, <1>4, <1>7, <2>1, <2>3
  <2>. QED
    BY <2>2, <2>3
<1>. QED
  BY <1>1, <1>4, <1>5, <1>6, <1>7 DEF CbBansSet, CbMore, CbQuiet

\* What is left of the bans when the channel ends on the network.
LEMMA CbNetLeft ==
  ASSUME NEW net, NEW users, NEW here
  PROVE  NetAfter(net, users, here) \subseteq net
BY DEF NetAfter

LEMMA CbKicks ==
  ASSUME CbFull, NEW u \in CbUser, NEW m \in KickMasks(u), CheckKick(u, m)
  PROVE  CbBansSet
<1>0. /\ B \in CbState /\ B.bans = cbBans /\ B.net = cbNet /\ cbNet \subseteq CbMask /\ cbBans \in Seq(CbMask)
      /\ cbAkick \in Seq(AkickSlots) /\ cbInhabit \in BOOLEAN /\ cbExists \in BOOLEAN
      /\ ~cbExists => cbUsers = {} /\ (~cbInhabit => cbNet = {} /\ ~cbHere)
  BY CbFullIs
<1>1. m \in CbMask
  <2> DEFINE Hits(i) == cbAkick[i].used /\ IF cbAkick[i].who \in CbGroup THEN cbAkick[i].who = u
                                           ELSE u \in CbHits[cbAkick[i].who]
             I == {i \in DOMAIN cbAkick : Hits(i)}
             first == CHOOSE i \in I : \A j \in I : i <= j
  <2>1. KickMasks(u) = IF u \in CbExempt \/ I = {} THEN {}
                       ELSE {IF cbAkick[first].who \in CbGroup THEN CbIdeal[u] ELSE cbAkick[first].who}
    BY Zenon DEF KickMasks
  <2>2. I # {} => first \in I
    <3>1. DOMAIN cbAkick \subseteq Nat /\ I \subseteq DOMAIN cbAkick
      BY <1>0
    <3> HIDE DEF I
    <3>. QED
      BY <3>1, LeastNat
  <2>3. I \subseteq DOMAIN cbAkick
    OBVIOUS
  <2> HIDE DEF I, first
  <2>4. m = IF cbAkick[first].who \in CbGroup THEN CbIdeal[u] ELSE cbAkick[first].who
    BY <2>1
  <2>5. first \in DOMAIN cbAkick
    BY <2>1, <2>2, <2>3
  <2>6. cbAkick[first].who \in CbMask \cup CbGroup
    <3>1. cbAkick[first] \in AkickSlots
      BY <1>0, <2>5
    <3>. QED
      BY <3>1 DEF AkickSlots
  <2>. QED
    BY <2>4, <2>6, CbMaskAssumption
<1> DEFINE opens == cbUsers = {} /\ ~cbInhabit
           S == KickBan(B, m)
<1>2. /\ cbInhabit' = (cbInhabit \/ opens) /\ cbUsers' = cbUsers /\ cbExists' = cbExists
      /\ cbBans' = S.bans /\ cbNet' \subseteq S.net
  <2>1. /\ cbInhabit' = (cbInhabit \/ opens) /\ UNCHANGED <<cbUsers, cbExists>>
        /\ cbBans' = S.bans /\ cbNet' = NetAfter(S.net, cbUsers, cbHere \/ opens)
    BY Zenon DEF CheckKick
  <2> HIDE DEF S
  <2>. QED
    BY <2>1, CbNetLeft
<1>3. CASE ~cbExists
  <2>1. S = [B EXCEPT !.net = @ \cup {m}]
    BY <1>3, Zenon DEF KickBan
  <2>2. S.bans = cbBans /\ S.net = cbNet \cup {m}
    BY <1>0, <2>1 DEF CbState
  <2> HIDE DEF S
  <2>3. cbBans' \in Seq(CbMask) /\ cbNet' \in SUBSET CbMask
    BY <1>0, <1>1, <1>2, <2>2
  <2>4. B' \in CbState
    BY <2>3 DEF B, CbState
  <2>5. ~cbExists' /\ cbUsers' = {} /\ cbInhabit'
    BY <1>0, <1>2, <1>3
  <2>. QED
    BY <2>4, <2>5 DEF CbBansSet, BansKnown, CbQuiet
<1>4. CASE cbExists
  <2>1. S = [AddBan(B, m) EXCEPT !.net = @ \cup {m}]
    BY <1>4, Zenon DEF KickBan
  <2>2. CbQuiet'
    BY <1>2, <1>4 DEF CbQuiet
  <2>3. CASE BotThere /\ m \in CbBotMasks
    <3>1. AddBan(B, m) = [B EXCEPT !.net = @ \ {m}]
      BY <2>3, Zenon DEF AddBan
    <3>2. S.bans = cbBans /\ S.net = (cbNet \ {m}) \cup {m}
      BY <1>0, <2>1, <3>1 DEF CbState
    <3> HIDE DEF S
    <3>3. cbBans' \in Seq(CbMask) /\ cbNet' \in SUBSET CbMask
      BY <1>0, <1>1, <1>2, <3>2
    <3>4. B' \in CbState
      BY <3>3 DEF B, CbState
    <3>5. KickHitsBot
      BY <2>3, Zenon DEF KickHitsBot
    <3>6. StuckCovered => \A i \in StuckSlots : \E b \in ToSet(cbBans') : CbCovers(b, cbAkick[i].who)
      BY <1>2, <1>4, <3>2 DEF StuckCovered
    <3>. QED
      BY <2>2, <3>4, <3>5, <3>6 DEF CbBansSet
  <2>4. CASE ~(BotThere /\ m \in CbBotMasks)
    <3>1. AddBan(B, m) = [B EXCEPT !.bans = Append(@, m)]
      BY <2>4, Zenon DEF AddBan
    <3>2. S.bans = Append(cbBans, m) /\ S.net = cbNet \cup {m}
      BY <1>0, <2>1, <3>1 DEF CbState
    <3> HIDE DEF S
    <3>3. Append(cbBans, m) \in Seq(CbMask) /\ ToSet(Append(cbBans, m)) = ToSet(cbBans) \cup {m}
      BY <1>0, <1>1, CbAppends
    <3>4. cbBans' \in Seq(CbMask) /\ cbNet' \in SUBSET CbMask
      BY <1>0, <1>1, <1>2, <3>2, <3>3
    <3>5. B' \in CbState
      BY <3>4 DEF B, CbState
    <3>6. ToSet(cbBans') = ToSet(cbBans) \cup {m}
      BY <1>2, <3>2, <3>3
    <3>7. BansKnown => BansKnown'
      BY <1>2, <1>4, <3>2, <3>6 DEF BansKnown
    <3>8. StuckCovered => \A i \in StuckSlots : \E b \in ToSet(cbBans') : CbCovers(b, cbAkick[i].who)
      BY <1>4, <3>6 DEF StuckCovered
    <3>. QED
      BY <2>2, <3>5, <3>7, <3>8 DEF CbBansSet
  <2>. QED
    BY <2>3, <2>4
<1>. QED
  BY <1>3, <1>4

LEMMA CbJoins ==
  ASSUME CbFull, NEW u \in CbUser, CbJoin(u)
  PROVE  CbBansSet
<1>0. /\ B \in CbState /\ B.bans = cbBans /\ B.net = cbNet /\ cbAkick \in Seq(AkickSlots)
      /\ \A i \in StuckSlots : cbAkick[i].who \in CbStuckMasks /\ cbAkick[i].who \in CbMask
      /\ ~cbExists => cbUsers = {} /\ (~cbInhabit => cbNet = {} /\ ~cbHere)
  BY CbFullIs
<1>1. CASE \E m \in KickMasks(u) : CheckKick(u, m)
  BY <1>1, CbKicks
<1>2. CASE KickMasks(u) = {} /\ ~\E m \in KickMasks(u) : CheckKick(u, m)
  <2> DEFINE T == IF cbExists THEN B ELSE StickAll(B)
  <2>1. cbBans' = T.bans /\ cbNet' = T.net /\ cbExists' = TRUE
    BY <1>2 DEF CbJoin, BansBecome
  <2>2. CbMore(B, StickAll(B)) /\ CbMore(B, B)
    BY <1>0, CbSticksAll DEF CbMore
  <2>3. CbMore(B, T)
    BY <2>2
  <2>4. ~cbExists => \A i \in StuckSlots : cbAkick[i].who \notin CbBotMasks => cbAkick[i].who \in ToSet(T.bans)
    BY <1>0, CbSticksAll
  <2> HIDE DEF T
  <2>5. B' = T
    BY <2>1, <2>3, CbStateIs DEF B, CbMore
  <2>6. CbQuiet'
    BY <2>1 DEF CbQuiet
  <2>7. BansKnown => (BansKnown' \/ (cbInhabit /\ ~cbExists))
    <3> SUFFICES ASSUME BansKnown, ~(cbInhabit /\ ~cbExists) PROVE BansKnown'
      OBVIOUS
    <3>1. cbNet \subseteq ToSet(cbBans)
      BY <1>0 DEF BansKnown
    <3>. QED
      BY <1>0, <2>1, <2>3, <3>1 DEF BansKnown, CbMore
  <2>8. ASSUME StuckCovered, CbStuckMasks \cap CbBotMasks = {}, NEW i \in StuckSlots
        PROVE  \E b \in ToSet(cbBans') : CbCovers(b, cbAkick[i].who)
    <3>1. CASE ~cbExists
      <4>1. cbAkick[i].who \in ToSet(cbBans')
        BY <1>0, <2>1, <2>4, <2>8, <3>1
      <4>2. CbCovers(cbAkick[i].who, cbAkick[i].who)
        BY DEF CbCovers
      <4>. QED
        BY <4>1, <4>2
    <3>2. CASE cbExists
      BY <1>0, <2>1, <2>3, <2>8, <3>2 DEF StuckCovered, CbMore
    <3>. QED
      BY <3>1, <3>2
  <2>. QED
    BY <2>3, <2>5, <2>6, <2>7, <2>8 DEF CbBansSet, CbMore
<1>. QED
  BY <1>1, <1>2 DEF CbJoin

\* Steps that leave services' bans alone.
LEMMA CbLeaves ==
  ASSUME CbFull, cbBans' = cbBans, cbNet' \subseteq cbNet, cbExists' => cbExists, CbQuiet'
  PROVE  CbBansSet
<1>0. cbBans \in Seq(CbMask) /\ cbNet \subseteq CbMask
  BY CbFullIs
<1>1. cbBans' \in Seq(CbMask) /\ cbNet' \in SUBSET CbMask
  BY <1>0
<1>2. B' \in CbState
  BY <1>1 DEF B, CbState
<1>3. BansKnown => BansKnown'
  BY DEF BansKnown
<1>4. StuckCovered => \A i \in StuckSlots : cbExists' => \E b \in ToSet(cbBans') : CbCovers(b, cbAkick[i].who)
  BY DEF StuckCovered
<1>. QED
  BY <1>2, <1>3, <1>4 DEF CbBansSet

LEMMA CbSet1 ==
  ASSUME CbFull, [ChanBansNext]_cbVars
  PROVE  CbBansSet
<1>0. ~cbExists => cbUsers = {} /\ (~cbInhabit => cbNet = {} /\ ~cbHere)
  BY CbFullIs
<1>1. ASSUME UNCHANGED <<cbUsers, cbExists, cbHere, cbBans, cbNet, cbInhabit>> PROVE CbBansSet
  <2>1. CbQuiet'
    BY <1>0, <1>1 DEF CbQuiet
  <2>. QED
    BY <1>1, <2>1, CbLeaves
<1>2. ASSUME NEW who, NEW numbers, CbBan(who) \/ CbUnban(who) \/ CbUnbanNumbers(numbers)
      PROVE  UNCHANGED <<cbUsers, cbExists, cbHere, cbBans, cbNet, cbInhabit>>
  BY <1>2 DEF CbBan, CbUnban, CbUnbanNumbers, AkicksBecome, CbThere
<1>3. UNCHANGED cbVars => UNCHANGED <<cbUsers, cbExists, cbHere, cbBans, cbNet, cbInhabit>>
  BY DEF cbVars
<1>4. ASSUME NEW u \in CbUser, CbPart(u) PROVE CbBansSet
  <2>1. /\ cbUsers # {} /\ cbNet' = NetAfter(cbNet, cbUsers \ {u}, cbHere)
        /\ UNCHANGED <<cbExists, cbHere, cbBans, cbInhabit>>
    BY <1>4 DEF CbPart
  <2>2. CbQuiet'
    BY <1>0, <2>1 DEF CbQuiet
  <2>3. cbNet' \subseteq cbNet
    BY <2>1, CbNetLeft
  <2>. QED
    BY <2>1, <2>2, <2>3, CbLeaves
<1>5. CASE TimeoutLeave
  <2>1. /\ cbHere' = (cbHere /\ cbExists) /\ cbNet' = NetAfter(cbNet, cbUsers, cbHere /\ cbExists)
        /\ UNCHANGED <<cbUsers, cbExists, cbBans>>
    BY <1>5 DEF TimeoutLeave
  <2>2. ~cbExists => cbUsers = {} /\ ~cbHere' /\ cbNet' = {}
    BY <1>0, <2>1, Zenon DEF NetAfter
  <2>3. CbQuiet'
    BY <2>1, <2>2 DEF CbQuiet
  <2>4. cbNet' \subseteq cbNet
    BY <2>1, CbNetLeft
  <2>. QED
    BY <2>1, <2>3, <2>4, CbLeaves
<1>6. CASE CbCsJoin
  <2>1. cbExists /\ UNCHANGED <<cbUsers, cbExists, cbBans, cbNet, cbInhabit>>
    BY <1>6 DEF CbCsJoin
  <2>2. CbQuiet'
    BY <2>1 DEF CbQuiet
  <2>. QED
    BY <2>1, <2>2, CbLeaves
<1>7. CASE CbCsPart
  <2>1. /\ cbHere /\ cbNet' = NetAfter(cbNet, cbUsers, FALSE)
        /\ UNCHANGED <<cbUsers, cbExists, cbBans, cbInhabit>>
    BY <1>7 DEF CbCsPart
  <2>2. CbQuiet'
    BY <1>0, <2>1 DEF CbQuiet
  <2>3. cbNet' \subseteq cbNet
    BY <2>1, CbNetLeft
  <2>. QED
    BY <2>1, <2>2, <2>3, CbLeaves
<1>8. CASE CbRestart
  <2>1. /\ cbUsers' = {} /\ cbExists' = FALSE /\ cbHere' = FALSE /\ cbBans' = <<>> /\ cbNet' = {}
    BY <1>8 DEF CbRestart
  <2>2. CbQuiet'
    BY <2>1 DEF CbQuiet
  <2>3. B' \in CbState
    <3>1. cbBans' \in Seq(CbMask) /\ cbNet' \in SUBSET CbMask
      BY <2>1
    <3>. QED
      BY <3>1 DEF B, CbState
  <2>. QED
    BY <2>1, <2>2, <2>3 DEF CbBansSet, BansKnown
<1>. QED
  BY <1>1, <1>2, <1>3, <1>4, <1>5, <1>6, <1>7, <1>8, CbUserBans, CbUserUnbans, CbJoins DEF ChanBansNext

\* Who is there.
CbTyped == /\ cbUsers' \subseteq CbUser /\ cbInhabit' \in BOOLEAN /\ cbBot' \in BOOLEAN
           /\ cbExists' \in BOOLEAN /\ cbHere' \in BOOLEAN

LEMMA CbTypes ==
  ASSUME CbFull, [ChanBansNext]_cbVars
  PROVE  CbTyped
<1>0. /\ cbUsers \subseteq CbUser /\ cbInhabit \in BOOLEAN /\ cbBot \in BOOLEAN
      /\ cbExists \in BOOLEAN /\ cbHere \in BOOLEAN /\ TRUE \in BOOLEAN /\ FALSE \in BOOLEAN
  BY CbFullIs
<1>1. ASSUME NEW m, UserBan(m) \/ UserUnban(m) PROVE CbTyped
  BY <1>0, <1>1 DEF UserBan, UserUnban, CbSame, CbThere, CbTyped
<1>2. ASSUME NEW u, NEW m, CheckKick(u, m) PROVE CbTyped
  <2>1. PICK opens \in BOOLEAN : cbInhabit' = (cbInhabit \/ opens) /\ cbHere' = (cbHere \/ opens)
    <3>1. (cbUsers = {} /\ ~cbInhabit) \in BOOLEAN
      OBVIOUS
    <3>. QED
      BY <1>2, <3>1, Zenon DEF CheckKick
  <2>2. UNCHANGED <<cbUsers, cbExists>> /\ cbBot' = cbBot
    BY <1>2 DEF CheckKick, CbSame
  <2>3. cbInhabit' \in BOOLEAN /\ cbHere' \in BOOLEAN
    BY <2>1, Zenon
  <2>. QED
    BY <1>0, <2>2, <2>3 DEF CbTyped
<1>3. ASSUME NEW u \in CbUser, CbJoin(u) PROVE CbTyped
  <2>1. CASE \E m \in KickMasks(u) : CheckKick(u, m)
    BY <1>2, <2>1
  <2>2. CASE /\ cbUsers' = cbUsers \cup {u} /\ cbExists' = TRUE /\ cbHere' = (cbHere \/ ~cbExists)
             /\ CbSame /\ UNCHANGED cbInhabit
    <3>1. cbHere' \in BOOLEAN
      BY <2>2, Zenon
    <3>. QED
      BY <1>0, <2>2, <3>1 DEF CbSame, CbTyped
  <2>. QED
    BY <1>3, <2>1, <2>2, Zenon DEF CbJoin
<1>4. ASSUME NEW u, CbPart(u) PROVE CbTyped
  BY <1>0, <1>4 DEF CbPart, CbSame, CbTyped
<1>5. ASSUME NEW who, NEW numbers, CbBan(who) \/ CbUnban(who) \/ CbUnbanNumbers(numbers) PROVE CbTyped
  BY <1>0, <1>5 DEF CbBan, CbUnban, CbUnbanNumbers, AkicksBecome, CbThere, CbTyped
<1>6. CASE TimeoutLeave
  <2>1. cbHere' \in BOOLEAN
    BY <1>6, Zenon DEF TimeoutLeave
  <2>. QED
    BY <1>0, <1>6, <2>1 DEF TimeoutLeave, CbSame, CbTyped
<1>7. CASE CbCsJoin \/ CbCsPart \/ CbRestart
  BY <1>0, <1>7 DEF CbCsJoin, CbCsPart, CbRestart, CbSame, CbTyped
<1>8. CASE UNCHANGED cbVars
  BY <1>0, <1>8 DEF cbVars, CbTyped
<1>. QED
  BY <1>1, <1>3, <1>4, <1>5, <1>6, <1>7, <1>8 DEF ChanBansNext

LEMMA CbFullSteps == CbFull /\ [ChanBansNext]_cbVars => CbFull'
<1> SUFFICES ASSUME CbFull, [ChanBansNext]_cbVars PROVE CbFull'
  OBVIOUS
<1>0. \A i \in StuckSlots : cbAkick[i].who \in CbStuckMasks
  BY CbFullIs
<1>1. CbInv'
  BY CbSteps DEF CbFull
<1>2. B' \in CbState /\ CbQuiet'
  BY CbSet1 DEF CbBansSet
<1>3. \A i \in StuckSlots' : cbAkick'[i].who \in CbStuckMasks
  BY <1>0, CbStuckBefore
<1>4. CbTyped
  BY CbTypes
<1>. QED
  BY <1>1, <1>2, <1>3, <1>4 DEF CbFull, CbTyped

\* What the runs check of one step.
CbStuckStep ==
    (cbVars' # cbVars /\ StuckCovered) =>
          \/ StuckCovered'
          \/ \E m \in CbMask : /\ UserUnban(m)
                               /\ \E i, j \in StuckSlots : i # j /\ CbCovers(m, cbAkick[i].who)
                                                           /\ CbCovers(m, cbAkick[j].who)
CbKnownStep ==
    (cbVars' # cbVars /\ BansKnown) => (BansKnown' \/ (cbInhabit /\ ~cbExists) \/ KickHitsBot)

LEMMA CbStays ==
  ASSUME CbStuckMasks \cap CbBotMasks = {}, CbFull, [ChanBansNext]_cbVars
  PROVE  [CbStuckStep]_cbVars
<1> SUFFICES ASSUME StuckCovered,
                    ~\E m \in CbMask : /\ UserUnban(m)
                                       /\ \E i, j \in StuckSlots : i # j /\ CbCovers(m, cbAkick[i].who)
                                                                   /\ CbCovers(m, cbAkick[j].who)
             PROVE  StuckCovered'
  BY DEF CbStuckStep
<1>1. \A i \in StuckSlots : cbExists' => \E b \in ToSet(cbBans') : CbCovers(b, cbAkick[i].who)
  BY CbSet1 DEF CbBansSet
<1>. QED
  BY <1>1, CbStuckBefore DEF StuckCovered

LEMMA CbHides == CbFull /\ [ChanBansNext]_cbVars => [CbKnownStep]_cbVars
BY CbSet1 DEF CbBansSet, CbKnownStep

-----------------------------------------------------------------------------
(* What CANCEL takes away (Memos).                                         *)

\* What the run checks of one step.
MmStep ==
    Len(mmMemos') < Len(mmMemos) =>
      \A s \in MmSender : Cancel(s) =>
         \A t \in MmSender, unread \in BOOLEAN :
            LET Kind(m) == m.from = t /\ m.unread = unread
            IN  (t = s /\ unread) \/ MmNums(mmMemos', Kind) = MmNums(mmMemos, Kind)

\* CANCEL takes away the memo it has found: no other has its number.
LEMMA DelmemoAt ==
  ASSUME NEW memos, MmUp(memos), NEW k \in DOMAIN memos
  PROVE  Delmemo(memos, memos[k].num) = RemoveAt(memos, k)
<1>1. /\ memos \in Seq(MemoRecords) /\ DOMAIN memos = 1..Len(memos) /\ Len(memos) \in Nat
      /\ \A i, j \in DOMAIN memos : i < j => memos[i].num < memos[j].num
  BY DEF MmUp
<1>5. \A i \in DOMAIN memos : memos[i].num \in Nat
  <2>1. \A i \in DOMAIN memos : memos[i] \in MemoRecords
    BY <1>1
  <2>. QED
    BY <2>1, MmRecord
<1> DEFINE I == {i \in DOMAIN memos : memos[i].num = memos[k].num}
<1>2. I = {k}
  <2>1. \A i \in DOMAIN memos : i # k => memos[i].num # memos[k].num
    BY <1>1, <1>5
  <2>. QED
    BY <2>1
<1>3. (CHOOSE i \in I : \A j \in I : i <= j) = k
  BY <1>1, <1>2
<1>4. I # {}
  BY <1>2
<1>. QED
  BY <1>3, <1>4 DEF Delmemo

LEMMA MmCancels ==
  ASSUME MmInv, NEW s \in MmSender, Cancel(s)
  PROVE  \E k \in DOMAIN mmMemos : /\ mmMemos[k].unread /\ mmMemos[k].from = s
                                   /\ mmMemos' = RemoveAt(mmMemos, k)
<1> DEFINE I == {i \in DOMAIN mmMemos : mmMemos[i].unread /\ mmMemos[i].from = s}
<1> DEFINE k == CHOOSE i \in I : \A j \in I : j <= i
<1>1. MmUp(mmMemos) /\ DOMAIN mmMemos = 1..Len(mmMemos) /\ Len(mmMemos) \in Nat
  BY DEF MmInv, MmUp
<1>2. I # {} /\ mmMemos' = Delmemo(mmMemos, mmMemos[k].num)
  BY DEF Cancel
<1>3. I \subseteq 1..Len(mmMemos)
  BY <1>1
<1> HIDE DEF I
<1>4. k \in I
  BY <1>1, <1>2, <1>3, GreatestPlace
<1>5. k \in DOMAIN mmMemos /\ mmMemos[k].unread /\ mmMemos[k].from = s
  BY <1>4 DEF I
<1>6. mmMemos' = RemoveAt(mmMemos, k)
  BY <1>1, <1>2, <1>5, DelmemoAt
<1>. QED
  BY <1>5, <1>6

MmOf(memos, t, unread) ==
    {memos[i].num : i \in {i \in DOMAIN memos : memos[i].from = t /\ memos[i].unread = unread}}

LEMMA MmKeepsOthers ==
  ASSUME NEW memos \in Seq(MemoRecords), NEW k \in DOMAIN memos, NEW rest, rest = RemoveAt(memos, k),
         NEW t, NEW unread,
         ~(memos[k].from = t /\ memos[k].unread = unread)
  PROVE  MmOf(rest, t, unread) = MmOf(memos, t, unread)
<1> DEFINE left == {i \in DOMAIN rest : rest[i].from = t /\ rest[i].unread = unread}
           there == {i \in DOMAIN memos : memos[i].from = t /\ memos[i].unread = unread}
           At(i) == IF i < k THEN i ELSE i + 1
<1>1. DOMAIN memos = 1..Len(memos) /\ Len(memos) \in Nat
  OBVIOUS
<1>2. /\ DOMAIN rest = 1..(Len(memos) - 1)
      /\ \A i \in DOMAIN rest : rest[i] = memos[At(i)]
  <2>1. /\ rest \in Seq(MemoRecords) /\ Len(rest) = Len(memos) - 1
        /\ \A j \in 1..(Len(memos) - 1) : rest[j] = IF j < k THEN memos[j] ELSE memos[j + 1]
    BY RemoveAtShifts
  <2>2. DOMAIN rest = 1..(Len(memos) - 1)
    BY <2>1
  <2>. QED
    BY <2>1, <2>2
<1>3. \A i \in left : At(i) \in there /\ rest[i] = memos[At(i)]
  <2>1. \A i \in 1..(Len(memos) - 1) : At(i) \in 1..Len(memos)
    BY <1>1
  <2>. QED
    BY <1>1, <1>2, <2>1
<1>5. \A j \in there : \E i \in left : rest[i] = memos[j]
  <2> SUFFICES ASSUME NEW j \in there PROVE \E i \in left : rest[i] = memos[j]
    OBVIOUS
  <2> DEFINE i == IF j < k THEN j ELSE j - 1
  <2>1. i \in 1..(Len(memos) - 1) /\ At(i) = j
    BY <1>1
  <2>2. rest[i] = memos[j]
    BY <1>2, <2>1
  <2>3. i \in left
    BY <1>2, <2>1, <2>2
  <2>. QED
    BY <2>2, <2>3
<1> HIDE DEF left, there, At
<1>6. {rest[i].num : i \in left} = {memos[i].num : i \in there}
  BY <1>3, <1>5
<1>. QED
  BY <1>6 DEF left, there, MmOf

LEMMA MmOwn == MmInv /\ [MemosNext]_mmVars => [MmStep]_mmVars
<1> SUFFICES ASSUME MmInv, NEW s \in MmSender, Cancel(s),
                    NEW t \in MmSender, NEW unread \in BOOLEAN, ~(t = s /\ unread)
             PROVE  MmOf(mmMemos', t, unread) = MmOf(mmMemos, t, unread)
  BY DEF MmStep, MmNums, MmOf
<1>1. PICK k \in DOMAIN mmMemos : /\ mmMemos[k].unread /\ mmMemos[k].from = s
                                  /\ mmMemos' = RemoveAt(mmMemos, k)
  BY MmCancels
<1>2. mmMemos[k] \in MemoRecords
  BY DEF MmInv, MmUp
<1>3. mmMemos[k].unread \in BOOLEAN
  BY <1>2 DEF MemoRecords
<1>4. ~(mmMemos[k].from = t /\ mmMemos[k].unread = unread)
  BY <1>1, <1>3
<1>5. mmMemos \in Seq(MemoRecords)
  BY DEF MmInv, MmUp
<1>. QED
  BY <1>1, <1>4, <1>5, MmKeepsOthers
================================================================================
