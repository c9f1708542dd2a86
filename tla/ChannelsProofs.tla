---------------------------- MODULE ChannelsProofs ----------------------------
(***************************************************************************)
(* Proofs about Channels for any users, bots and channels, any number of   *)
(* messages in flight and any way the network and services cross.          *)
(***************************************************************************)
EXTENDS Channels, FiniteSetTheorems, SequenceTheorems, TLAPS

-----------------------------------------------------------------------------
(* Natural numbers.                                                        *)

\* A set of natural numbers has a least one.
LEMMA LeastNat ==
  ASSUME NEW S, S \subseteq Nat, S # {}
  PROVE  \E n \in S : \A m \in S : n <= m
<1> DEFINE T == {0..n : n \in S}
           R == StrictSubsetOrdering(Nat)
<1>1. IsWellFoundedOn(R, FiniteSubsetsOf(Nat))
  BY FS_StrictSubsetOrderingWellFounded
<1>2. T \subseteq FiniteSubsetsOf(Nat)
  <2>1. ASSUME NEW n \in S PROVE IsFiniteSet(0..n) /\ 0..n \subseteq Nat
    <3>1. 0 \in Int /\ n \in Int
      OBVIOUS
    <3>2. IsFiniteSet(0..n)
      BY <3>1, FS_Interval
    <3> QED BY <3>2
  <2> QED BY <2>1 DEF FiniteSubsetsOf
<1>3. T # {}
  OBVIOUS
<1> HIDE DEF T, R
<1>4. PICK x \in T : \A y \in T : ~ (<<y, x>> \in R)
  BY <1>1, <1>2, <1>3, WFMin
<1>5. PICK n \in S : x = 0..n
  BY DEF T
<1>6. ASSUME NEW m \in S, m < n PROVE FALSE
  <2>1. 0..m \in T
    BY DEF T
  <2>2. 0..m \in SUBSET Nat /\ 0..n \in SUBSET Nat /\ 0..m \subseteq 0..n
    <3>1. m \in Nat /\ n \in Nat
      OBVIOUS
    <3> QED BY <1>6, <3>1
  <2>3. n \in 0..n /\ n \notin 0..m
    BY <1>6
  <2>4. 0..m # 0..n
    BY <2>3
  <2>5. <<0..m, 0..n>> \in R
    BY <2>2, <2>4 DEF R, StrictSubsetOrdering
  <2> QED BY <2>1, <2>5, <1>4, <1>5
<1> QED BY <1>6

LEMMA NatInd ==
  ASSUME NEW S, 0 \in S, \A n \in Nat : n \in S => n + 1 \in S
  PROVE  Nat \subseteq S
<1> SUFFICES ASSUME Nat \ S # {} PROVE FALSE
  OBVIOUS
<1>1. Nat \ S \subseteq Nat
  OBVIOUS
<1>2. PICK n \in Nat \ S : \A m \in Nat \ S : n <= m
  BY <1>1, LeastNat
<1>3. n # 0 /\ n - 1 \in Nat
  OBVIOUS
<1>4. n - 1 \in S
  BY <1>2, <1>3
<1>5. n - 1 + 1 \in S
  BY <1>3, <1>4
<1> QED BY <1>5

LEMMA MinIn ==
  ASSUME NEW I, I \subseteq Nat, I # {}
  PROVE  Min(I) \in I /\ \A j \in I : Min(I) <= j
BY LeastNat DEF Min

-----------------------------------------------------------------------------
(* Lists of any records: what putting an entry in front, and removing one, *)
(* leaves, and how often entries of a kind are there.                      *)

LEMMA RemoveAtShifts ==
  ASSUME NEW R, NEW s \in Seq(R), NEW i \in DOMAIN s
  PROVE  /\ RemoveAt(s, i) \in Seq(R)
         /\ Len(RemoveAt(s, i)) = Len(s) - 1
         /\ \A j \in 1..(Len(s) - 1) :
               RemoveAt(s, i)[j] = IF j < i THEN s[j] ELSE s[j + 1]
<1> DEFINE a == SubSeq(s, 1, i - 1)
           b == SubSeq(s, i + 1, Len(s))
<1>1. /\ a \in Seq(R) /\ Len(a) = i - 1 /\ \A j \in 1..(i - 1) : a[j] = s[j]
      /\ b \in Seq(R) /\ Len(b) = Len(s) - i /\ \A j \in 1..(Len(s) - i) : b[j] = s[i + j]
  OBVIOUS
<1> HIDE DEF a, b
<1>2. /\ a \o b \in Seq(R) /\ Len(a \o b) = Len(s) - 1
      /\ \A j \in 1..(Len(s) - 1) : (a \o b)[j] = IF j < i THEN a[j] ELSE b[j - i + 1]
  BY <1>1, SMTT(20)
<1>3. RemoveAt(s, i) = a \o b
  BY DEF RemoveAt, a, b
<1>4. ASSUME NEW j \in 1..(Len(s) - 1)
      PROVE  (a \o b)[j] = IF j < i THEN s[j] ELSE s[j + 1]
  <2>1. CASE j < i
    BY <1>1, <1>2, <2>1
  <2>2. CASE ~(j < i)
    <3>1. j - i + 1 \in 1..(Len(s) - i) /\ i + (j - i + 1) = j + 1
      BY <2>2
    <3> QED BY <1>1, <1>2, <2>2, <3>1
  <2> QED BY <2>1, <2>2
<1> QED BY <1>2, <1>3, <1>4

LEMMA PrependShifts ==
  ASSUME NEW R, NEW s \in Seq(R), NEW x \in R
  PROVE  /\ <<x>> \o s \in Seq(R)
         /\ Len(<<x>> \o s) = Len(s) + 1
         /\ (<<x>> \o s)[1] = x
         /\ \A j \in 1..Len(s) : (<<x>> \o s)[j + 1] = s[j]
<1>1. <<x>> \in Seq(R) /\ Len(<<x>>) = 1 /\ <<x>>[1] = x
  OBVIOUS
<1> QED BY <1>1

Bit(x, X) == IF x \in X THEN 1 ELSE 0

\* How many of the first n entries of s are in X, and how many of all.
Upto(s, X, n) == Cardinality({i \in 1..n : s[i] \in X})
Count(s, X) == Cardinality({i \in DOMAIN s : s[i] \in X})

LEMMA BitType == ASSUME NEW x, NEW X PROVE Bit(x, X) \in Nat
BY DEF Bit

LEMMA UptoStep ==
  ASSUME NEW s, NEW X, NEW n \in Nat
  PROVE  /\ Upto(s, X, 0) = 0
         /\ Upto(s, X, n) \in Nat
         /\ Upto(s, X, n + 1) = Upto(s, X, n) + Bit(s[n + 1], X)
<1> DEFINE I(m) == {i \in 1..m : s[i] \in X}
<1>1. IsFiniteSet(1..n) /\ I(n) \subseteq 1..n
  BY FS_Interval
<1>2. IsFiniteSet(I(n))
  BY <1>1, FS_Subset
<1>3. Cardinality(I(n)) \in Nat
  BY <1>2, FS_CardinalityType
<1>4. I(0) = {}
  OBVIOUS
<1>5. Cardinality(I(0)) = 0
  BY <1>4, FS_EmptySet
<1>6. CASE s[n + 1] \in X
  <2>1. I(n + 1) = I(n) \cup {n + 1} /\ n + 1 \notin I(n)
    BY <1>6
  <2> HIDE DEF I
  <2>2. Cardinality(I(n + 1)) = Cardinality(I(n)) + 1
    BY <1>2, <2>1, FS_AddElement
  <2> QED BY <1>3, <1>5, <1>6, <2>2 DEF Upto, I, Bit
<1>7. CASE s[n + 1] \notin X
  <2>1. I(n + 1) = I(n)
    BY <1>7
  <2> QED BY <1>3, <1>5, <1>7, <2>1 DEF Upto, Bit
<1> QED BY <1>6, <1>7

LEMMA CountIsUpto ==
  ASSUME NEW R, NEW s \in Seq(R), NEW X
  PROVE  /\ Len(s) \in Nat
         /\ Count(s, X) = Upto(s, X, Len(s))
         /\ Count(s, X) \in Nat
<1>1. DOMAIN s = 1..Len(s) /\ Len(s) \in Nat
  OBVIOUS
<1>2. Count(s, X) = Upto(s, X, Len(s))
  BY <1>1 DEF Count, Upto
<1> QED BY <1>1, <1>2, UptoStep

LEMMA UptoGrows ==
  ASSUME NEW s, NEW X, NEW n \in Nat, NEW m \in Nat, m <= n
  PROVE  Upto(s, X, m) <= Upto(s, X, n)
<1> DEFINE I(k) == {i \in 1..k : s[i] \in X}
<1>1. IsFiniteSet(1..n) /\ I(n) \subseteq 1..n
  BY FS_Interval
<1>2. IsFiniteSet(I(n))
  BY <1>1, FS_Subset
<1>3. I(m) \in SUBSET I(n)
  OBVIOUS
<1> HIDE DEF I
<1>4. Cardinality(I(m)) <= Cardinality(I(n))
  BY <1>2, <1>3, FS_Subset
<1> QED BY <1>4 DEF Upto, I

LEMMA UptoSame ==
  ASSUME NEW s, NEW t, NEW X, NEW n \in Nat, \A i \in 1..n : s[i] \in X <=> t[i] \in X
  PROVE  Upto(s, X, n) = Upto(t, X, n)
<1>1. {i \in 1..n : s[i] \in X} = {i \in 1..n : t[i] \in X}
  OBVIOUS
<1> QED BY <1>1 DEF Upto

LEMMA CountPositive ==
  ASSUME NEW R, NEW s \in Seq(R), NEW X
  PROVE  Count(s, X) > 0 <=> \E i \in DOMAIN s : s[i] \in X
<1> DEFINE I == {i \in DOMAIN s : s[i] \in X}
<1>1. IsFiniteSet(DOMAIN s) /\ I \subseteq DOMAIN s
  <2>1. DOMAIN s = 1..Len(s) /\ Len(s) \in Nat
    OBVIOUS
  <2> QED BY <2>1, FS_Interval
<1>2. IsFiniteSet(I)
  BY <1>1, FS_Subset
<1>3. Cardinality(I) \in Nat /\ (Cardinality(I) = 0 <=> I = {})
  BY <1>2, FS_CardinalityType, FS_EmptySet
<1> QED BY <1>3 DEF Count

LEMMA CountPrepend ==
  ASSUME NEW R, NEW s \in Seq(R), NEW x \in R, NEW X
  PROVE  Count(<<x>> \o s, X) = Count(s, X) + Bit(x, X)
<1> DEFINE t == <<x>> \o s
           one == Bit(x, X)
           S == {n \in Nat : n <= Len(s) => Upto(t, X, n + 1) = Upto(s, X, n) + one}
<1>1. /\ t \in Seq(R) /\ Len(t) = Len(s) + 1 /\ t[1] = x
      /\ \A j \in 1..Len(s) : t[j + 1] = s[j]
  BY PrependShifts
<1>2. Len(s) \in Nat /\ Len(t) \in Nat
  BY <1>1
<1> HIDE DEF t
<1>3. 0 \in S
  <2>1. /\ Upto(t, X, 0) = 0 /\ Upto(s, X, 0) = 0
        /\ Upto(t, X, 0 + 1) = Upto(t, X, 0) + Bit(t[0 + 1], X)
    BY UptoStep
  <2> QED BY <1>1, <2>1
<1>4. ASSUME NEW n \in Nat, n \in S PROVE n + 1 \in S
  <2> SUFFICES ASSUME n + 1 <= Len(s)
               PROVE  Upto(t, X, (n + 1) + 1) = Upto(s, X, n + 1) + one
    BY <1>2
  <2>1. n <= Len(s) /\ n + 1 \in 1..Len(s) /\ n + 1 \in Nat
    BY <1>2
  <2>2. Upto(t, X, n + 1) = Upto(s, X, n) + one
    BY <1>4, <2>1
  <2>3. t[(n + 1) + 1] = s[n + 1]
    BY <1>1, <2>1
  <2>4. Upto(t, X, (n + 1) + 1) = Upto(t, X, n + 1) + Bit(t[(n + 1) + 1], X)
    BY <2>1, UptoStep
  <2>5. Upto(s, X, n + 1) = Upto(s, X, n) + Bit(s[n + 1], X)
    BY UptoStep
  <2>6. Upto(s, X, n) \in Nat
    BY UptoStep
  <2> QED BY <2>2, <2>3, <2>4, <2>5, <2>6, BitType
<1> HIDE DEF S
<1>5. Nat \subseteq S
  BY <1>3, <1>4, NatInd
<1>6. Upto(t, X, Len(s) + 1) = Upto(s, X, Len(s)) + one
  BY <1>2, <1>5 DEF S
<1>7. Count(t, X) = Upto(t, X, Len(t)) /\ Count(s, X) = Upto(s, X, Len(s))
  BY <1>1, CountIsUpto
<1> QED BY <1>1, <1>6, <1>7 DEF t

LEMMA CountRemove ==
  ASSUME NEW R, NEW s \in Seq(R), NEW p \in DOMAIN s, NEW X
  PROVE  Count(RemoveAt(s, p), X) = Count(s, X) - Bit(s[p], X)
<1> DEFINE t == RemoveAt(s, p)
           one == Bit(s[p], X)
           S == {n \in Nat : p <= n + 1 /\ n < Len(s) => Upto(s, X, n + 1) = Upto(t, X, n) + one}
<1>1. /\ t \in Seq(R) /\ Len(t) = Len(s) - 1
      /\ \A j \in 1..(Len(s) - 1) : t[j] = IF j < p THEN s[j] ELSE s[j + 1]
  BY RemoveAtShifts
<1>2. Len(s) \in Nat /\ Len(t) \in Nat /\ p \in 1..Len(s)
  BY <1>1
<1> HIDE DEF t
<1>3. ASSUME NEW n \in Nat, p = n + 1, n < Len(s)
      PROVE  Upto(s, X, n + 1) = Upto(t, X, n) + one
  <2>1. Upto(s, X, n) = Upto(t, X, n)
    <3>1. \A j \in 1..n : t[j] = s[j]
      BY <1>1, <1>2, <1>3
    <3> QED BY <3>1, UptoSame
  <2>2. Upto(s, X, n + 1) = Upto(s, X, n) + Bit(s[n + 1], X)
    BY UptoStep
  <2> QED BY <1>3, <2>1, <2>2
<1>4. 0 \in S
  <2> SUFFICES ASSUME p <= 0 + 1, 0 < Len(s) PROVE Upto(s, X, 0 + 1) = Upto(t, X, 0) + one
    OBVIOUS
  <2>1. p = 0 + 1 /\ 0 \in Nat
    BY <1>2
  <2> QED BY <1>3, <2>1
<1>5. ASSUME NEW n \in Nat, n \in S PROVE n + 1 \in S
  <2> SUFFICES ASSUME p <= (n + 1) + 1, n + 1 < Len(s)
               PROVE  Upto(s, X, (n + 1) + 1) = Upto(t, X, n + 1) + one
    BY <1>2
  <2>1. n + 1 \in Nat
    OBVIOUS
  <2>2. CASE p = (n + 1) + 1
    BY <1>3, <2>1, <2>2
  <2>3. CASE p # (n + 1) + 1
    <3>1. p <= n + 1 /\ n < Len(s) /\ n + 1 \in 1..(Len(s) - 1)
      BY <1>2, <2>3
    <3>2. Upto(s, X, n + 1) = Upto(t, X, n) + one
      BY <1>5, <3>1
    <3>3. t[n + 1] = s[(n + 1) + 1]
      BY <1>1, <1>2, <3>1
    <3>4. Upto(t, X, n + 1) = Upto(t, X, n) + Bit(t[n + 1], X)
      BY UptoStep
    <3>5. Upto(s, X, (n + 1) + 1) = Upto(s, X, n + 1) + Bit(s[(n + 1) + 1], X)
      BY <2>1, UptoStep
    <3>6. Upto(t, X, n) \in Nat
      BY UptoStep
    <3> QED BY <3>2, <3>3, <3>4, <3>5, <3>6, BitType
  <2> QED BY <2>2, <2>3
<1> HIDE DEF S
<1>6. Nat \subseteq S
  BY <1>4, <1>5, NatInd
<1>7. Upto(s, X, (Len(s) - 1) + 1) = Upto(t, X, Len(s) - 1) + one
  <2>1. Len(s) - 1 \in Nat /\ p <= (Len(s) - 1) + 1 /\ Len(s) - 1 < Len(s)
    BY <1>2
  <2> QED BY <1>6, <2>1 DEF S
<1>8. /\ Count(t, X) = Upto(t, X, Len(t)) /\ Count(s, X) = Upto(s, X, Len(s))
      /\ Count(t, X) \in Nat
  BY <1>1, CountIsUpto
<1>9. (Len(s) - 1) + 1 = Len(s)
  BY <1>2
<1>10. Count(s, X) = Count(t, X) + one
  BY <1>1, <1>7, <1>8, <1>9
<1>11. Count(s, X) \in Nat /\ one \in Nat
  BY CountIsUpto, BitType
<1> HIDE DEF one
<1>12. Count(t, X) = Count(s, X) - one
  BY <1>8, <1>10, <1>11
<1> QED BY <1>12 DEF t, one

-----------------------------------------------------------------------------
(* Places in the lists.                                                    *)

LEMMA PlaceUser ==
  ASSUME NEW v, NEW u, NEW c, v.users[c] \in Seq(User)
  PROVE  /\ PlaceOfUser(v, u, c) = 0 => \A i \in DOMAIN v.users[c] : v.users[c][i] # u
         /\ PlaceOfUser(v, u, c) # 0 => /\ PlaceOfUser(v, u, c) \in DOMAIN v.users[c]
                                        /\ v.users[c][PlaceOfUser(v, u, c)] = u
<1> DEFINE s == v.users[c]
           I == {i \in 1..Len(s) : s[i] = u}
<1>1. DOMAIN s = 1..Len(s) /\ Len(s) \in Nat
  OBVIOUS
<1>2. PlaceOfUser(v, u, c) = IF I # {} THEN Min(I) ELSE 0
  BY DEF PlaceOfUser, SelectInSeq
<1>3. I # {} => Min(I) \in I
  <2>1. I \subseteq Nat
    OBVIOUS
  <2> HIDE DEF I
  <2> QED BY <2>1, MinIn
<1>4. \A i \in I : i # 0
  OBVIOUS
<1> QED BY <1>1, <1>2, <1>3, <1>4

\* e is the first entry of s for the channel c.
FirstIs(s, c, i) ==
    i \in DOMAIN s /\ s[i].chan = c /\ \A j \in DOMAIN s : j < i => s[j].chan # c

LEMMA PlaceChan ==
  ASSUME NEW v, NEW u, NEW c, v.chans[u] \in Seq(ChanEntry)
  PROVE  /\ PlaceOfChan(v, u, c) = 0 => \A i \in DOMAIN v.chans[u] : v.chans[u][i].chan # c
         /\ PlaceOfChan(v, u, c) # 0 => FirstIs(v.chans[u], c, PlaceOfChan(v, u, c))
<1> DEFINE s == v.chans[u]
           I == {i \in 1..Len(s) : s[i].chan = c}
<1>1. DOMAIN s = 1..Len(s) /\ Len(s) \in Nat
  OBVIOUS
<1>2. PlaceOfChan(v, u, c) = IF I # {} THEN Min(I) ELSE 0
  BY DEF PlaceOfChan, SelectInSeq
<1>3. I # {} => Min(I) \in I /\ \A j \in I : Min(I) <= j
  <2>1. I \subseteq Nat
    OBVIOUS
  <2> HIDE DEF I
  <2> QED BY <2>1, MinIn
<1>4. \A i \in I : i # 0
  OBVIOUS
<1>5. CASE I = {}
  BY <1>1, <1>2, <1>5
<1>6. CASE I # {}
  <2>1. Min(I) \in DOMAIN s /\ s[Min(I)].chan = c
    BY <1>1, <1>3, <1>6
  <2>2. \A j \in DOMAIN s : j < Min(I) => s[j].chan # c
    BY <1>1, <1>3, <1>6
  <2> QED BY <1>2, <1>4, <1>3, <1>6, <2>1, <2>2 DEF FirstIs
<1> QED BY <1>5, <1>6

LEMMA FirstIsOnly ==
  ASSUME NEW s \in Seq(ChanEntry), NEW c, NEW i, NEW j, FirstIs(s, c, i), FirstIs(s, c, j)
  PROVE  i = j
<1>1. i \in Nat /\ j \in Nat
  BY DEF FirstIs
<1>2. ~(i < j) /\ ~(j < i)
  BY DEF FirstIs
<1> QED BY <1>1, <1>2

\* The entries for a channel, and when there is one.
ChanOf(c) == {e \in ChanEntry : e.chan = c}

LEMMA OnChanCounts ==
  ASSUME NEW v, NEW u, NEW c, v.chans[u] \in Seq(ChanEntry)
  PROVE  IsOnChan(v, u, c) <=> Count(v.chans[u], ChanOf(c)) > 0
<1>1. Count(v.chans[u], ChanOf(c)) > 0 <=> \E i \in DOMAIN v.chans[u] : v.chans[u][i] \in ChanOf(c)
  BY CountPositive
<1>2. \A i \in DOMAIN v.chans[u] : v.chans[u][i] \in ChanOf(c) <=> v.chans[u][i].chan = c
  BY DEF ChanOf
<1> QED BY <1>1, <1>2, PlaceChan DEF IsOnChan, FirstIs

LEMMA UserCounts ==
  ASSUME NEW v, NEW u, NEW c, v.users[c] \in Seq(User)
  PROVE  /\ PlaceOfUser(v, u, c) # 0 <=> Count(v.users[c], {u}) > 0
         /\ u \in Range(v.users[c]) <=> Count(v.users[c], {u}) > 0
<1>1. Count(v.users[c], {u}) > 0 <=> \E i \in DOMAIN v.users[c] : v.users[c][i] = u
  BY CountPositive
<1> QED BY <1>1, PlaceUser DEF Range

-----------------------------------------------------------------------------
(* Messages.                                                               *)

LEMMA BotMessage ==
  ASSUME NEW c \in Channel, NEW b \in Bot
  PROVE  To("botpart", c, b) \in Message /\ To("botjoin", c, b) \in Message
BY DEF To, Message

LEMMA KickMessage ==
  ASSUME NEW c \in Channel, NEW x \in Member
  PROVE  To("kick", c, x) \in Message
BY DEF To, Message

LEMMA UserMessage ==
  ASSUME NEW c \in Channel, NEW u \in User
  PROVE  /\ \A t \in {"join", "part", "deop", "op"} : To(t, c, u) \in Message
         /\ To("servop", c, u) \in Message
BY DEF To, Message

LEMMA GoneMessage ==
  ASSUME NEW u \in User
  PROVE  \A t \in {"quit", "part0", "kill"} : [type |-> t, who |-> u] \in Message
BY DEF Message

LEMMA BurstMessage ==
  ASSUME NEW c \in Channel, NEW l \in Seq(User)
  PROVE  To("sjoin", c, l) \in Message
BY DEF To, Message

-----------------------------------------------------------------------------
(* Views: the records, and what is to be sent.                             *)

ViewRec ==
    [known: SUBSET User, users: [Channel -> Seq(User)],
     chans: [User -> Seq(ChanEntry)], out: Seq(Message)]

BotTyped == bot \in [Channel -> Bot \cup {NULL}]

\* Both lists agree, and a user without a record is on no list.
Mirrors(v) ==
    \A u \in User :
        /\ \A c \in Channel : Count(v.users[c], {u}) = Count(v.chans[u], ChanOf(c))
        /\ u \notin v.known => v.chans[u] = <<>>

LEMMA SendFields ==
  ASSUME NEW v \in ViewRec, NEW m \in Message
  PROVE  /\ Send(v, m) \in ViewRec
         /\ Send(v, m).known = v.known
         /\ Send(v, m).users = v.users
         /\ Send(v, m).chans = v.chans
         /\ Send(v, m).out = Append(v.out, m)
<1> DEFINE s == Append(v.out, m)
<1>1. v.out \in Seq(Message)
  BY DEF ViewRec
<1>2. s \in Seq(Message)
  BY <1>1
<1>3. Send(v, m) = [v EXCEPT !.out = s]
  BY DEF Send
<1> HIDE DEF s
<1>4. LET w == [v EXCEPT !.out = s]
      IN  w \in ViewRec /\ w.known = v.known /\ w.users = v.users /\ w.chans = v.chans /\ w.out = s
  BY <1>2 DEF ViewRec
<1> QED BY <1>3, <1>4 DEF s

\* The list of users of c becomes s.
LEMMA UsersFields ==
  ASSUME NEW v \in ViewRec, NEW c \in Channel, NEW s \in Seq(User)
  PROVE  LET w == [v EXCEPT !.users[c] = s] IN
         /\ w \in ViewRec
         /\ w.known = v.known /\ w.chans = v.chans /\ w.out = v.out
         /\ w.users[c] = s
         /\ \A d \in Channel \ {c} : w.users[d] = v.users[d]
BY DEF ViewRec

\* The list of channels of u becomes s.
LEMMA ChansFields ==
  ASSUME NEW v \in ViewRec, NEW u \in User, NEW s \in Seq(ChanEntry)
  PROVE  LET w == [v EXCEPT !.chans[u] = s] IN
         /\ w \in ViewRec
         /\ w.known = v.known /\ w.users = v.users /\ w.out = v.out
         /\ w.chans[u] = s
         /\ \A x \in User \ {u} : w.chans[x] = v.chans[x]
BY DEF ViewRec

\* What a handler sends: nothing, or one message.
SameOut(v, w) == w.out = v.out
Sends(v, w, m) == w.out = Append(v.out, m)

LEMMA BotJoinFields ==
  ASSUME NEW v \in ViewRec, NEW c \in Channel, BotTyped
  PROVE  /\ BotJoin(v, c) \in ViewRec
         /\ BotJoin(v, c).known = v.known
         /\ BotJoin(v, c).users = v.users
         /\ BotJoin(v, c).chans = v.chans
         /\ bot[c] = NULL => SameOut(v, BotJoin(v, c))
         /\ bot[c] # NULL => Sends(v, BotJoin(v, c), To("botjoin", c, bot[c]))
<1>1. CASE bot[c] = NULL
  BY <1>1 DEF BotJoin, SameOut
<1>2. CASE bot[c] # NULL
  <2>1. bot[c] \in Bot
    BY <1>2 DEF BotTyped
  <2>2. To("botjoin", c, bot[c]) \in Message
    BY <2>1, BotMessage
  <2>3. BotJoin(v, c) = Send(v, To("botjoin", c, bot[c]))
    BY <1>2 DEF BotJoin
  <2> QED BY <1>2, <2>2, <2>3, SendFields DEF Sends
<1> QED BY <1>1, <1>2

\* chan_deluser().
LEMMA DelUserFields ==
  ASSUME NEW v \in ViewRec, NEW u \in User, NEW c \in Channel, BotTyped
  PROVE  LET w == ChanDelUser(v, u, c) IN
         /\ w \in ViewRec
         /\ w.known = v.known /\ w.chans = v.chans
         /\ \A d \in Channel \ {c} : w.users[d] = v.users[d]
         /\ Count(v.users[c], {u}) = 0 => w = v
         /\ Count(v.users[c], {u}) > 0 =>
               /\ \A x \in User : Count(w.users[c], {x}) = Count(v.users[c], {x}) - Bit(u, {x})
               /\ Len(w.users[c]) = Len(v.users[c]) - 1
               /\ IF bot[c] # NULL /\ Len(w.users[c]) = BSMinUsers - 1
                    THEN Sends(v, w, To("botpart", c, bot[c])) ELSE SameOut(v, w)
<1> DEFINE w == ChanDelUser(v, u, c)
           p == PlaceOfUser(v, u, c)
           s == RemoveAt(v.users[c], p)
           x == [v EXCEPT !.users[c] = s]
<1>1. v.users[c] \in Seq(User)
  BY DEF ViewRec
<1>2. Count(v.users[c], {u}) \in Nat /\ (p # 0 <=> Count(v.users[c], {u}) > 0)
  BY <1>1, UserCounts, CountIsUpto
<1>3. CASE Count(v.users[c], {u}) = 0
  BY <1>2, <1>3 DEF ChanDelUser
<1>4. CASE Count(v.users[c], {u}) > 0
  <2>1. p # 0 /\ p \in DOMAIN v.users[c] /\ v.users[c][p] = u
    BY <1>1, <1>2, <1>4, PlaceUser
  <2>2. /\ s \in Seq(User) /\ Len(s) = Len(v.users[c]) - 1
        /\ \A y \in User : Count(s, {y}) = Count(v.users[c], {y}) - Bit(u, {y})
    BY <1>1, <2>1, RemoveAtShifts, CountRemove
  <2> HIDE DEF s
  <2>3. /\ x \in ViewRec
        /\ x.known = v.known /\ x.chans = v.chans /\ x.out = v.out
        /\ x.users[c] = s
        /\ \A d \in Channel \ {c} : x.users[d] = v.users[d]
    BY <2>2, UsersFields
  <2>4. w = IF bot[c] # NULL /\ UserCount(x, c) = BSMinUsers - 1
              THEN Send(x, To("botpart", c, bot[c])) ELSE x
    BY <2>1 DEF ChanDelUser, s
  <2> HIDE DEF x, w
  <2>5. UserCount(x, c) = Len(s)
    BY <2>3 DEF UserCount
  <2>6. CASE bot[c] # NULL /\ Len(s) = BSMinUsers - 1
    <3>1. To("botpart", c, bot[c]) \in Message
      BY <2>6, BotMessage DEF BotTyped
    <3>2. w = Send(x, To("botpart", c, bot[c]))
      BY <2>4, <2>5, <2>6
    <3>3. w \in ViewRec /\ w.known = v.known /\ w.chans = v.chans /\ w.users = x.users
          /\ Sends(v, w, To("botpart", c, bot[c]))
      BY <2>3, <3>1, <3>2, SendFields DEF Sends
    <3> QED BY <1>4, <2>2, <2>3, <2>6, <3>3 DEF w
  <2>7. CASE ~(bot[c] # NULL /\ Len(s) = BSMinUsers - 1)
    <3>1. w = x
      BY <2>4, <2>5, <2>7
    <3> QED BY <1>4, <2>2, <2>3, <2>7, <3>1 DEF w, SameOut
  <2> QED BY <2>6, <2>7
<1> QED BY <1>2, <1>3, <1>4

\* join_user_update().
Entry(c, op) == [chan |-> c, op |-> op]

\* What has been sent when the user has the status of his access entry.
Welcome(v, u, c) == IF u \in Ignored THEN v ELSE AutoOpped(v, u, c)

LEMMA WelcomeFields ==
  ASSUME NEW v \in ViewRec, NEW u \in User, NEW c \in Channel
  PROVE  LET o == Welcome(v, u, c) IN
         /\ o \in ViewRec
         /\ o.known = v.known /\ o.users = v.users /\ o.chans = v.chans
         /\ IF u \notin Ignored /\ <<u, c>> \in AutoOption
              THEN o = Send(v, To("op", c, u)) /\ Sends(v, o, To("op", c, u)) ELSE o = v
<1>1. To("op", c, u) \in Message
  BY UserMessage
<1>2. LET o == Send(v, To("op", c, u)) IN
      /\ o \in ViewRec
      /\ o.known = v.known /\ o.users = v.users /\ o.chans = v.chans
      /\ Sends(v, o, To("op", c, u))
  BY <1>1, SendFields DEF Sends
<1> QED BY <1>2 DEF Welcome, AutoOpped

LEMMA WelcomeOut ==
  ASSUME NEW v \in ViewRec, NEW y \in ViewRec, NEW u \in User, NEW c \in Channel, y.out = v.out
  PROVE  Welcome(y, u, c).out = Welcome(v, u, c).out
<1> DEFINE P(x) == Welcome(x, u, c)
           m == To("op", c, u)
<1>1. ASSUME NEW x \in ViewRec
      PROVE  IF u \notin Ignored /\ <<u, c>> \in AutoOption
               THEN P(x).out = Append(x.out, m) ELSE P(x) = x
  BY WelcomeFields DEF Sends
<1> HIDE DEF P, m
<1>2. P(y).out = P(v).out
  BY <1>1
<1> QED BY <1>2 DEF P

LEMMA JoinFields ==
  ASSUME NEW v \in ViewRec, NEW u \in User, NEW c \in Channel, BotTyped
  PROVE  LET w == JoinUserUpdate(v, u, c)
             o == Welcome(v, u, c)
         IN
         /\ w \in ViewRec
         /\ w.known = v.known
         /\ w.chans[u] = <<Entry(c, FALSE)>> \o v.chans[u]
         /\ \A x \in User \ {u} : w.chans[x] = v.chans[x]
         /\ w.users[c] = <<u>> \o v.users[c]
         /\ \A d \in Channel \ {c} : w.users[d] = v.users[d]
         /\ IF u \notin Ignored /\ Len(v.users[c]) + 1 = BSMinUsers /\ bot[c] # NULL
              THEN Sends(o, w, To("botjoin", c, bot[c])) ELSE SameOut(o, w)
<1> DEFINE w == JoinUserUpdate(v, u, c)
           o == Welcome(v, u, c)
           l == <<Entry(c, FALSE)>> \o v.chans[u]
           s == <<u>> \o v.users[c]
           x == [v EXCEPT !.chans[u] = l]
           y == [x EXCEPT !.users[c] = s]
<1>1. Entry(c, FALSE) \in ChanEntry /\ v.chans[u] \in Seq(ChanEntry) /\ v.users[c] \in Seq(User)
  BY DEF Entry, ChanEntry, ViewRec
<1>2. l \in Seq(ChanEntry) /\ s \in Seq(User) /\ Len(s) = Len(v.users[c]) + 1
  <2>1. l \in Seq(ChanEntry)
    BY <1>1, PrependShifts
  <2>2. s \in Seq(User) /\ Len(s) = Len(v.users[c]) + 1
    BY <1>1, PrependShifts
  <2> QED BY <2>1, <2>2
<1> HIDE DEF l
<1>3. /\ x \in ViewRec
      /\ x.known = v.known /\ x.users = v.users /\ x.out = v.out
      /\ x.chans[u] = l
      /\ \A z \in User \ {u} : x.chans[z] = v.chans[z]
  BY <1>2, ChansFields
<1>4. w = LET z == [x EXCEPT !.users[c] = <<u>> \o x.users[c]]
          IN  IF u \in Ignored THEN z
              ELSE IF UserCount(z, c) = BSMinUsers THEN BotJoin(AutoOpped(z, u, c), c)
              ELSE AutoOpped(z, u, c)
  BY DEF JoinUserUpdate, ChanAddUser, l, Entry
<1> DEFINE g == Welcome(y, u, c)
<1>5. w = IF u \notin Ignored /\ UserCount(y, c) = BSMinUsers THEN BotJoin(g, c) ELSE g
  BY <1>3, <1>4 DEF Welcome
<1> HIDE DEF x, s, w, g
<1>6. /\ y \in ViewRec
      /\ y.known = x.known /\ y.chans = x.chans /\ y.out = x.out
      /\ y.users[c] = s
      /\ \A d \in Channel \ {c} : y.users[d] = x.users[d]
  BY <1>2, <1>3, UsersFields
<1> HIDE DEF y
<1>7. UserCount(y, c) = Len(v.users[c]) + 1
  BY <1>2, <1>6 DEF UserCount
<1>10. /\ g \in ViewRec
       /\ g.known = y.known /\ g.users = y.users /\ g.chans = y.chans
  BY <1>6, WelcomeFields DEF g
<1>11. g.out = o.out
  BY <1>3, <1>6, WelcomeOut DEF g
<1> HIDE DEF o
<1>8. CASE u \notin Ignored /\ Len(v.users[c]) + 1 = BSMinUsers
  <2>1. w = BotJoin(g, c)
    BY <1>5, <1>7, <1>8
  <2>2. /\ w \in ViewRec
        /\ w.known = g.known /\ w.users = g.users /\ w.chans = g.chans
        /\ bot[c] = NULL => SameOut(g, w)
        /\ bot[c] # NULL => Sends(g, w, To("botjoin", c, bot[c]))
    BY <1>10, <2>1, BotJoinFields
  <2>3. /\ bot[c] = NULL => SameOut(o, w)
        /\ bot[c] # NULL => Sends(o, w, To("botjoin", c, bot[c]))
    BY <1>11, <2>2 DEF SameOut, Sends
  <2> QED BY <1>3, <1>6, <1>8, <1>10, <2>2, <2>3 DEF w, s, l, o
<1>9. CASE ~(u \notin Ignored /\ Len(v.users[c]) + 1 = BSMinUsers)
  <2>1. w = g
    BY <1>5, <1>7, <1>9
  <2>2. SameOut(o, w)
    BY <1>11, <2>1 DEF SameOut
  <2> QED BY <1>3, <1>6, <1>9, <1>10, <2>1, <2>2 DEF w, s, l, o
<1> QED BY <1>8, <1>9

\* do_part(), do_kick().
LEMMA LeaveFields ==
  ASSUME NEW v \in ViewRec, NEW u \in User, NEW c \in Channel, BotTyped, IsOnChan(v, u, c)
  PROVE  LET w == Leave(v, u, c)
             d == ChanDelUser(v, u, c)
             p == PlaceOfChan(v, u, c)
         IN
         /\ w \in ViewRec
         /\ w.known = v.known
         /\ FirstIs(v.chans[u], c, p)
         /\ w.chans[u] = RemoveAt(v.chans[u], p)
         /\ \A x \in User \ {u} : w.chans[x] = v.chans[x]
         /\ w.users = d.users /\ w.out = d.out
<1> DEFINE d == ChanDelUser(v, u, c)
           p == PlaceOfChan(v, u, c)
           s == RemoveAt(v.chans[u], p)
<1>1. v.chans[u] \in Seq(ChanEntry)
  BY DEF ViewRec
<1>2. FirstIs(v.chans[u], c, p)
  BY <1>1, PlaceChan DEF IsOnChan
<1>3. p \in DOMAIN v.chans[u]
  BY <1>2 DEF FirstIs
<1> HIDE DEF p
<1>4. s \in Seq(ChanEntry)
  BY <1>1, <1>3, RemoveAtShifts
<1>5. d \in ViewRec /\ d.known = v.known /\ d.chans = v.chans
  BY DelUserFields
<1> HIDE DEF d
<1>6. Leave(v, u, c) = [d EXCEPT !.chans[u] = RemoveAt(d.chans[u], p)]
  BY DEF Leave, d, p
<1>7. Leave(v, u, c) = [d EXCEPT !.chans[u] = s]
  BY <1>5, <1>6
<1> HIDE DEF s
<1> QED BY <1>2, <1>4, <1>5, <1>7, ChansFields DEF s, d, p

\* chan_set_user_status() and chan_remove_user_status().
LEMMA SetOpFields ==
  ASSUME NEW v \in ViewRec, NEW u \in User, NEW c \in Channel, NEW flag \in BOOLEAN,
         IsOnChan(v, u, c)
  PROVE  LET w == SetOp(v, u, c, flag)
             p == PlaceOfChan(v, u, c)
         IN
         /\ w \in ViewRec
         /\ w.known = v.known /\ w.users = v.users /\ SameOut(v, w)
         /\ FirstIs(v.chans[u], c, p)
         /\ w.chans[u] = [v.chans[u] EXCEPT ![p] = Entry(c, flag)]
         /\ \A x \in User \ {u} : w.chans[x] = v.chans[x]
<1> DEFINE p == PlaceOfChan(v, u, c)
           s == [v.chans[u] EXCEPT ![p] = Entry(c, flag)]
<1>1. v.chans[u] \in Seq(ChanEntry)
  BY DEF ViewRec
<1>2. FirstIs(v.chans[u], c, p)
  BY <1>1, PlaceChan DEF IsOnChan
<1>3. p \in DOMAIN v.chans[u] /\ v.chans[u][p].chan = c /\ v.chans[u][p] \in ChanEntry
  BY <1>1, <1>2 DEF FirstIs
<1>4. [v.chans[u][p] EXCEPT !.op = flag] = Entry(c, flag) /\ Entry(c, flag) \in ChanEntry
  BY <1>3 DEF ChanEntry, Entry
<1> HIDE DEF p
<1>5. s \in Seq(ChanEntry)
  <2>1. v.chans[u] \in [1..Len(v.chans[u]) -> ChanEntry] /\ Len(v.chans[u]) \in Nat
    BY <1>1
  <2>2. s \in [1..Len(v.chans[u]) -> ChanEntry]
    BY <1>4, <2>1
  <2> QED BY <2>1, <2>2
<1>6. SetOp(v, u, c, flag) = [v EXCEPT !.chans[u][p].op = flag]
  BY DEF SetOp, p
<1>7. [v EXCEPT !.chans[u][p].op = flag] =
        [v EXCEPT !.chans[u] = [v.chans[u] EXCEPT ![p] = [v.chans[u][p] EXCEPT !.op = flag]]]
  OBVIOUS
<1>8. SetOp(v, u, c, flag) = [v EXCEPT !.chans[u] = s]
  BY <1>4, <1>6, <1>7
<1> HIDE DEF s
<1>9. LET w == [v EXCEPT !.chans[u] = s] IN
      /\ w \in ViewRec
      /\ w.known = v.known /\ w.users = v.users /\ w.out = v.out
      /\ w.chans[u] = s
      /\ \A x \in User \ {u} : w.chans[x] = v.chans[x]
  BY <1>5, ChansFields
<1> QED BY <1>2, <1>8, <1>9 DEF s, p, SameOut

-----------------------------------------------------------------------------
(* The lists go on agreeing.                                               *)

Good(v) == v \in ViewRec /\ Mirrors(v)

LEMMA ChanOfBit ==
  ASSUME NEW e \in ChanEntry, NEW d
  PROVE  Bit(e, ChanOf(d)) = IF e.chan = d THEN 1 ELSE 0
BY DEF Bit, ChanOf

LEMMA JoinMirrors ==
  ASSUME NEW v, NEW u \in v.known, NEW c \in Channel, BotTyped, Good(v)
  PROVE  Good(JoinUserUpdate(v, u, c))
<1> DEFINE w == JoinUserUpdate(v, u, c)
           e == Entry(c, FALSE)
<1>1. v \in ViewRec /\ u \in User
  BY DEF Good, ViewRec
<1>2. /\ w \in ViewRec
      /\ w.known = v.known
      /\ w.chans[u] = <<e>> \o v.chans[u]
      /\ \A x \in User \ {u} : w.chans[x] = v.chans[x]
      /\ w.users[c] = <<u>> \o v.users[c]
      /\ \A d \in Channel \ {c} : w.users[d] = v.users[d]
  BY <1>1, JoinFields, ZenonT(40)
<1>3. e \in ChanEntry /\ v.chans[u] \in Seq(ChanEntry) /\ v.users[c] \in Seq(User) /\ e.chan = c
  BY <1>1 DEF Entry, ChanEntry, ViewRec
<1> HIDE DEF w, e
<1>4. ASSUME NEW x \in User, NEW d \in Channel
      PROVE  Count(w.users[d], {x}) = Count(w.chans[x], ChanOf(d))
  <2>1. Count(v.users[d], {x}) = Count(v.chans[x], ChanOf(d))
    BY DEF Good, Mirrors
  <2>2. Count(<<u>> \o v.users[c], {x}) = Count(v.users[c], {x}) + Bit(u, {x})
    BY <1>1, <1>3, CountPrepend
  <2>3. Count(<<e>> \o v.chans[u], ChanOf(d)) = Count(v.chans[u], ChanOf(d)) + Bit(e, ChanOf(d))
    BY <1>3, CountPrepend
  <2>4. /\ Bit(u, {x}) = (IF u = x THEN 1 ELSE 0)
        /\ Bit(e, ChanOf(d)) = IF c = d THEN 1 ELSE 0
    BY <1>3, ChanOfBit DEF Bit
  <2>5. Count(v.users[d], {x}) \in Nat /\ Count(v.chans[x], ChanOf(d)) \in Nat
    BY <1>1, CountIsUpto DEF ViewRec
  <2>6. CASE x = u /\ d = c
    BY <1>2, <2>1, <2>2, <2>3, <2>4, <2>5, <2>6
  <2>7. CASE x = u /\ d # c
    <3>1. Count(v.chans[x], ChanOf(d)) + Bit(e, ChanOf(d)) = Count(v.chans[x], ChanOf(d))
      BY <2>4, <2>5, <2>7
    <3> QED BY <1>2, <2>1, <2>3, <2>7, <3>1
  <2>8. CASE x # u /\ d = c
    <3>1. Count(v.users[d], {x}) + Bit(u, {x}) = Count(v.users[d], {x})
      BY <2>4, <2>5, <2>8
    <3> QED BY <1>2, <2>1, <2>2, <2>8, <3>1
  <2>9. CASE x # u /\ d # c
    BY <1>2, <2>1, <2>9
  <2> QED BY <2>6, <2>7, <2>8, <2>9
<1>5. ASSUME NEW x \in User, x \notin w.known PROVE w.chans[x] = <<>>
  BY <1>2, <1>5 DEF Good, Mirrors
<1> QED BY <1>2, <1>4, <1>5 DEF Good, Mirrors, w

LEMMA LeaveMirrors ==
  ASSUME NEW v, NEW u \in User, NEW c \in Channel, BotTyped, Good(v)
  PROVE  Good(Leave(v, u, c))
<1>1. CASE ~IsOnChan(v, u, c)
  BY <1>1 DEF Leave
<1>2. CASE IsOnChan(v, u, c)
  <2> DEFINE w == Leave(v, u, c)
             d == ChanDelUser(v, u, c)
             p == PlaceOfChan(v, u, c)
             s == RemoveAt(v.chans[u], p)
  <2>1. v \in ViewRec /\ v.chans[u] \in Seq(ChanEntry)
    BY DEF Good, ViewRec
  <2>2. /\ w \in ViewRec
        /\ w.known = v.known
        /\ FirstIs(v.chans[u], c, p)
        /\ w.chans[u] = s
        /\ \A x \in User \ {u} : w.chans[x] = v.chans[x]
        /\ w.users = d.users
    BY <1>2, <2>1, LeaveFields
  <2>3. Count(v.users[c], {u}) = Count(v.chans[u], ChanOf(c)) /\ Count(v.users[c], {u}) > 0
    <3>1. Count(v.users[c], {u}) = Count(v.chans[u], ChanOf(c))
      BY DEF Good, Mirrors
    <3>2. Count(v.chans[u], ChanOf(c)) > 0
      BY <1>2, <2>1, OnChanCounts
    <3> QED BY <3>1, <3>2
  <2>4. /\ \A e \in Channel \ {c} : d.users[e] = v.users[e]
        /\ \A x \in User : Count(d.users[c], {x}) = Count(v.users[c], {x}) - Bit(u, {x})
    BY <2>1, <2>3, DelUserFields
  <2>5. /\ p \in DOMAIN v.chans[u] /\ v.chans[u][p].chan = c /\ v.chans[u][p] \in ChanEntry
    BY <2>1, <2>2 DEF FirstIs
  <2>6. \A e : Count(s, ChanOf(e)) = Count(v.chans[u], ChanOf(e)) - Bit(v.chans[u][p], ChanOf(e))
    BY <2>1, <2>5, CountRemove
  <2> HIDE DEF w, d, s
  <2>7. ASSUME NEW x \in User, NEW e \in Channel
        PROVE  Count(w.users[e], {x}) = Count(w.chans[x], ChanOf(e))
    <3>1. Count(v.users[e], {x}) = Count(v.chans[x], ChanOf(e))
      BY DEF Good, Mirrors
    <3>2. /\ Bit(u, {x}) = (IF u = x THEN 1 ELSE 0)
          /\ Bit(v.chans[u][p], ChanOf(e)) = IF c = e THEN 1 ELSE 0
      BY <2>5, ChanOfBit DEF Bit
    <3>3. Count(v.users[e], {x}) \in Nat /\ Count(v.chans[x], ChanOf(e)) \in Nat
      BY <2>1, CountIsUpto DEF ViewRec
    <3>4. CASE x = u /\ e = c
      BY <2>2, <2>4, <2>6, <3>1, <3>2, <3>3, <3>4
    <3>5. CASE x = u /\ e # c
      BY <2>2, <2>4, <2>6, <3>1, <3>2, <3>3, <3>5
    <3>6. CASE x # u /\ e = c
      BY <2>2, <2>4, <3>1, <3>2, <3>3, <3>6
    <3>7. CASE x # u /\ e # c
      BY <2>2, <2>4, <3>1, <3>7
    <3> QED BY <3>4, <3>5, <3>6, <3>7
  <2>8. ASSUME NEW x \in User, x \notin w.known PROVE w.chans[x] = <<>>
    <3>1. v.chans[x] = <<>>
      BY <2>2, <2>8 DEF Good, Mirrors
    <3>2. x # u
      BY <2>5, <3>1
    <3> QED BY <2>2, <3>1, <3>2
  <2> QED BY <2>2, <2>7, <2>8 DEF Good, Mirrors, w
<1> QED BY <1>1, <1>2

LEMMA SetOpMirrors ==
  ASSUME NEW v, NEW u \in User, NEW c \in Channel, NEW flag \in BOOLEAN, Good(v)
  PROVE  Good(SetOp(v, u, c, flag))
<1>1. CASE ~IsOnChan(v, u, c)
  BY <1>1 DEF SetOp
<1>2. CASE IsOnChan(v, u, c)
  <2> DEFINE w == SetOp(v, u, c, flag)
             p == PlaceOfChan(v, u, c)
             s == v.chans[u]
             t == [s EXCEPT ![p] = Entry(c, flag)]
  <2>1. v \in ViewRec /\ s \in Seq(ChanEntry)
    BY DEF Good, ViewRec
  <2>2. /\ w \in ViewRec
        /\ w.known = v.known /\ w.users = v.users
        /\ FirstIs(s, c, p)
        /\ w.chans[u] = t
        /\ \A x \in User \ {u} : w.chans[x] = v.chans[x]
    BY <1>2, <2>1, SetOpFields
  <2>3. DOMAIN t = DOMAIN s /\ p \in DOMAIN s
    BY <2>2 DEF FirstIs
  <2>4. ASSUME NEW i \in DOMAIN s, NEW d \in Channel
        PROVE  t[i] \in ChanOf(d) <=> s[i] \in ChanOf(d)
    <3>1. CASE i = p
      <4>1. Entry(c, flag) \in ChanEntry /\ Entry(c, flag).chan = c
        BY DEF Entry, ChanEntry
      <4>2. s[p] \in ChanEntry /\ s[p].chan = c /\ t[p] = Entry(c, flag)
        BY <2>1, <2>2, <2>3 DEF FirstIs
      <4> QED BY <3>1, <4>1, <4>2 DEF ChanOf
    <3>2. CASE i # p
      BY <3>2
    <3> QED BY <3>1, <3>2
  <2> HIDE DEF w, t, s
  <2>5. ASSUME NEW d \in Channel PROVE Count(t, ChanOf(d)) = Count(s, ChanOf(d))
    <3>1. {i \in DOMAIN t : t[i] \in ChanOf(d)} = {i \in DOMAIN s : s[i] \in ChanOf(d)}
      BY <2>3, <2>4
    <3> QED BY <3>1 DEF Count
  <2>6. ASSUME NEW x \in User, NEW d \in Channel
        PROVE  Count(w.users[d], {x}) = Count(w.chans[x], ChanOf(d))
    BY <2>2, <2>5, ZenonT(40) DEF Good, Mirrors, s
  <2>7. ASSUME NEW x \in User, x \notin w.known PROVE w.chans[x] = <<>>
    <3>1. v.chans[x] = <<>>
      BY <2>2, <2>7 DEF Good, Mirrors
    <3>2. x # u
      BY <2>3, <3>1 DEF s
    <3> QED BY <2>2, <3>1, <3>2
  <2> QED BY <2>2, <2>6, <2>7 DEF Good, Mirrors, w
<1> QED BY <1>1, <1>2

-----------------------------------------------------------------------------
(* What is sent to the bots while a handler goes from view to view.        *)

Has(s, m) == \E i \in DOMAIN s : s[i] = m

\* j is in s, and p is not after the last j.
Ends(s, j, p) ==
    \E i \in DOMAIN s : s[i] = j /\ \A k \in DOMAIN s : i < k => s[k] # p

PartBot(c) == To("botpart", c, bot[c])
JoinBot(c) == To("botjoin", c, bot[c])
Big(v, c) == UserCount(v, c) >= BSMinUsers

\* Since the view v0, the bot was sent away if the channel fell below
\* BSMinUsers, and called back, or not sent away, if it is not below.
BotTold(v0, v, c) ==
    /\ Big(v0, c) /\ ~Big(v, c) => Has(v.out, PartBot(c))
    /\ Ignored = {} /\ Big(v, c) =>
          \/ Big(v0, c) /\ ~Has(v.out, PartBot(c))
          \/ Ends(v.out, JoinBot(c), PartBot(c))
BotsTold(v0, v) == \A c \in Channel : bot[c] # NULL => BotTold(v0, v, c)

\* One step of a handler, seen from one channel: its bot hears nothing and
\* the channel stays as large as BSMinUsers, or as small; or the bot is sent
\* away from a small channel, or called.
NotForBot(m, c) == m # PartBot(c) /\ m # JoinBot(c)
BotStep(v, w, c) ==
    \/ /\ SameOut(v, w) \/ \E m \in Message : Sends(v, w, m) /\ NotForBot(m, c)
       /\ Big(w, c) => Big(v, c) \/ Ignored # {}
       /\ Big(v, c) => Big(w, c)
    \/ Sends(v, w, PartBot(c)) /\ ~Big(w, c)
    \/ Sends(v, w, JoinBot(c)) /\ (Big(v, c) => Big(w, c))
BotSteps(v, w) == \A c \in Channel : bot[c] # NULL => BotStep(v, w, c)

LEMMA AppendHas ==
  ASSUME NEW s \in Seq(Message), NEW m \in Message, NEW x
  PROVE  Has(Append(s, m), x) <=> Has(s, x) \/ x = m
<1> DEFINE t == Append(s, m)
<1>1. /\ DOMAIN s = 1..Len(s) /\ Len(s) \in Nat /\ DOMAIN t = 1..(Len(s) + 1)
      /\ \A i \in 1..Len(s) : t[i] = s[i]
      /\ t[Len(s) + 1] = m
  OBVIOUS
<1> HIDE DEF t
<1> QED BY <1>1 DEF Has, t

LEMMA AppendEnds ==
  ASSUME NEW s \in Seq(Message), NEW m \in Message, NEW j, NEW p
  PROVE  Ends(Append(s, m), j, p) <=> m = j \/ (Ends(s, j, p) /\ m # p)
<1> DEFINE t == Append(s, m)
<1>1. /\ DOMAIN s = 1..Len(s) /\ Len(s) \in Nat /\ DOMAIN t = 1..(Len(s) + 1)
      /\ \A i \in 1..Len(s) : t[i] = s[i]
      /\ t[Len(s) + 1] = m
  OBVIOUS
<1> HIDE DEF t
<1>2. CASE m = j
  <2>1. \A k \in DOMAIN t : ~(Len(s) + 1 < k)
    BY <1>1
  <2>2. Len(s) + 1 \in DOMAIN t
    BY <1>1
  <2> QED BY <1>1, <1>2, <2>1, <2>2 DEF Ends, t
<1>3. ASSUME Ends(s, j, p), m # p PROVE Ends(t, j, p)
  <2>1. PICK i \in DOMAIN s : s[i] = j /\ \A k \in DOMAIN s : i < k => s[k] # p
    BY <1>3 DEF Ends
  <2>2. \A k \in DOMAIN t : i < k => t[k] # p
    BY <1>1, <1>3, <2>1
  <2> QED BY <1>1, <2>1, <2>2 DEF Ends
<1>4. ASSUME Ends(t, j, p), m # j PROVE Ends(s, j, p) /\ m # p
  <2>1. PICK i \in DOMAIN t : t[i] = j /\ \A k \in DOMAIN t : i < k => t[k] # p
    BY <1>4 DEF Ends
  <2>2. i \in DOMAIN s /\ i < Len(s) + 1 /\ s[i] = j
    BY <1>1, <1>4, <2>1
  <2>3. \A k \in DOMAIN s : i < k => s[k] # p
    BY <1>1, <2>1
  <2>4. m # p
    BY <1>1, <2>1, <2>2
  <2> QED BY <2>2, <2>3, <2>4 DEF Ends
<1> QED BY <1>2, <1>3, <1>4 DEF t

LEMMA TwoForBot ==
  ASSUME NEW c
  PROVE  PartBot(c) # JoinBot(c)
BY DEF PartBot, JoinBot, To

LEMMA ToldStep ==
  ASSUME NEW v0, NEW v \in ViewRec, NEW w, BotTyped, BotsTold(v0, v), BotSteps(v, w)
  PROVE  BotsTold(v0, w)
<1> SUFFICES ASSUME NEW c \in Channel, bot[c] # NULL PROVE BotTold(v0, w, c)
  BY DEF BotsTold
<1>1. BotTold(v0, v, c) /\ BotStep(v, w, c)
  BY DEF BotsTold, BotSteps
<1>2. v.out \in Seq(Message) /\ PartBot(c) \in Message /\ JoinBot(c) \in Message
  BY BotMessage DEF ViewRec, BotTyped, PartBot, JoinBot
<1>3. ASSUME NEW m \in Message, Sends(v, w, m)
      PROVE  /\ \A x : Has(w.out, x) <=> Has(v.out, x) \/ x = m
             /\ \A j, p : Ends(w.out, j, p) <=> m = j \/ (Ends(v.out, j, p) /\ m # p)
  <2>1. w.out = Append(v.out, m) /\ v.out \in Seq(Message)
    BY <1>2, <1>3 DEF Sends
  <2>2. \A x : Has(w.out, x) <=> Has(v.out, x) \/ x = m
    BY <2>1, AppendHas
  <2>3. \A j, p : Ends(w.out, j, p) <=> m = j \/ (Ends(v.out, j, p) /\ m # p)
    BY <2>1, AppendEnds
  <2> QED BY <2>2, <2>3
<1>4. CASE SameOut(v, w) /\ (Big(w, c) => Big(v, c) \/ Ignored # {}) /\ (Big(v, c) => Big(w, c))
  BY <1>1, <1>4 DEF BotTold, SameOut
<1>5. ASSUME NEW m \in Message, Sends(v, w, m), NotForBot(m, c),
             Big(w, c) => Big(v, c) \/ Ignored # {}, Big(v, c) => Big(w, c)
      PROVE  BotTold(v0, w, c)
  <2>1. /\ Has(w.out, PartBot(c)) <=> Has(v.out, PartBot(c))
        /\ Ends(w.out, JoinBot(c), PartBot(c)) <=> Ends(v.out, JoinBot(c), PartBot(c))
    BY <1>3, <1>5 DEF NotForBot
  <2> QED BY <1>1, <1>5, <2>1 DEF BotTold
<1>6. CASE Sends(v, w, PartBot(c)) /\ ~Big(w, c)
  BY <1>2, <1>3, <1>6 DEF BotTold
<1>7. CASE Sends(v, w, JoinBot(c)) /\ (Big(v, c) => Big(w, c))
  <2>1. Has(v.out, PartBot(c)) => Has(w.out, PartBot(c))
    BY <1>2, <1>3, <1>7
  <2>2. Ends(w.out, JoinBot(c), PartBot(c))
    BY <1>2, <1>3, <1>7
  <2> QED BY <1>1, <1>7, <2>1, <2>2 DEF BotTold
<1> QED BY <1>1, <1>4, <1>5, <1>6, <1>7 DEF BotStep

LEMMA OtherBot ==
  ASSUME NEW c \in Channel, NEW d \in Channel, c # d
  PROVE  NotForBot(PartBot(c), d) /\ NotForBot(JoinBot(c), d)
BY DEF NotForBot, PartBot, JoinBot, To

LEMMA BotInMessage ==
  ASSUME NEW c \in Channel, BotTyped, bot[c] # NULL
  PROVE  PartBot(c) \in Message /\ JoinBot(c) \in Message
BY BotMessage DEF BotTyped, PartBot, JoinBot

\* The records are left alone, and what is sent is not for a bot.
LEMMA QuietStep ==
  ASSUME NEW v, NEW w, w.users = v.users,
         \/ SameOut(v, w)
         \/ \E m \in Message : Sends(v, w, m) /\ m.type \notin {"botpart", "botjoin"}
  PROVE  BotSteps(v, w)
<1> SUFFICES ASSUME NEW c \in Channel PROVE BotStep(v, w, c)
  BY DEF BotSteps
<1>1. Big(v, c) <=> Big(w, c)
  BY DEF Big, UserCount
<1>2. PartBot(c).type = "botpart" /\ JoinBot(c).type = "botjoin"
  BY DEF PartBot, JoinBot, To
<1>3. SameOut(v, w) \/ \E m \in Message : Sends(v, w, m) /\ NotForBot(m, c)
  BY <1>2 DEF NotForBot
<1> QED BY <1>1, <1>3 DEF BotStep

LEMMA DelUserBots ==
  ASSUME NEW v \in ViewRec, NEW u \in User, NEW c \in Channel, BotTyped
  PROVE  BotSteps(v, ChanDelUser(v, u, c))
<1> DEFINE w == ChanDelUser(v, u, c)
<1>1. /\ w \in ViewRec
      /\ \A d \in Channel \ {c} : w.users[d] = v.users[d]
      /\ Count(v.users[c], {u}) = 0 => w = v
      /\ Count(v.users[c], {u}) > 0 =>
            /\ Len(w.users[c]) = Len(v.users[c]) - 1
            /\ IF bot[c] # NULL /\ Len(w.users[c]) = BSMinUsers - 1
                 THEN Sends(v, w, To("botpart", c, bot[c])) ELSE SameOut(v, w)
  BY DelUserFields
<1>2. Len(v.users[c]) \in Nat /\ Len(w.users[c]) \in Nat /\ Count(v.users[c], {u}) \in Nat
  BY <1>1, CountIsUpto DEF ViewRec
<1>3. PartBot(c) = To("botpart", c, bot[c])
  BY DEF PartBot
<1> HIDE DEF w
<1> SUFFICES ASSUME NEW d \in Channel, bot[d] # NULL PROVE BotStep(v, w, d)
  BY DEF BotSteps, w
<1>4. CASE Count(v.users[c], {u}) = 0
  BY <1>1, <1>4 DEF BotStep, SameOut
<1>5. CASE Count(v.users[c], {u}) > 0 /\ d # c
  <2>1. Big(v, d) <=> Big(w, d)
    BY <1>1, <1>5 DEF Big, UserCount
  <2>2. SameOut(v, w) \/ (bot[c] # NULL /\ Sends(v, w, PartBot(c)))
    BY <1>1, <1>3, <1>5
  <2>3. SameOut(v, w) \/ \E m \in Message : Sends(v, w, m) /\ NotForBot(m, d)
    BY <1>5, <2>2, OtherBot, BotInMessage
  <2> QED BY <2>1, <2>3 DEF BotStep
<1>6. CASE Count(v.users[c], {u}) > 0 /\ d = c
  <2>1. CASE Len(w.users[c]) = BSMinUsers - 1
    <3>1. ~Big(w, c)
      BY <1>2, <2>1, MinUsersIsPositive DEF Big, UserCount
    <3> QED BY <1>1, <1>3, <1>6, <2>1, <3>1 DEF BotStep
  <2>2. CASE Len(w.users[c]) # BSMinUsers - 1
    <3>1. Big(v, c) <=> Big(w, c)
      BY <1>1, <1>2, <1>6, <2>2, MinUsersIsPositive DEF Big, UserCount
    <3> QED BY <1>1, <1>6, <2>2, <3>1 DEF BotStep
  <2> QED BY <2>1, <2>2
<1> QED BY <1>2, <1>4, <1>5, <1>6

LEMMA JoinBots ==
  ASSUME NEW v \in ViewRec, NEW u \in User, NEW c \in Channel, BotTyped
  PROVE  BotSteps(Welcome(v, u, c), JoinUserUpdate(v, u, c))
<1> DEFINE w == JoinUserUpdate(v, u, c)
           o == Welcome(v, u, c)
<1>1. /\ w \in ViewRec
      /\ w.users[c] = <<u>> \o v.users[c]
      /\ \A d \in Channel \ {c} : w.users[d] = v.users[d]
      /\ IF u \notin Ignored /\ Len(v.users[c]) + 1 = BSMinUsers /\ bot[c] # NULL
           THEN Sends(o, w, To("botjoin", c, bot[c])) ELSE SameOut(o, w)
  BY JoinFields
<1>2. Len(v.users[c]) \in Nat /\ Len(w.users[c]) = Len(v.users[c]) + 1
  BY <1>1, CountIsUpto, PrependShifts DEF ViewRec
<1>3. JoinBot(c) = To("botjoin", c, bot[c])
  BY DEF JoinBot
<1>6. o.users = v.users
  BY WelcomeFields
<1> HIDE DEF w, o
<1> SUFFICES ASSUME NEW d \in Channel, bot[d] # NULL PROVE BotStep(o, w, d)
  BY DEF BotSteps, w, o
<1>4. CASE d # c
  <2>1. Big(o, d) <=> Big(w, d)
    BY <1>1, <1>4, <1>6 DEF Big, UserCount
  <2>2. SameOut(o, w) \/ (bot[c] # NULL /\ Sends(o, w, JoinBot(c)))
    BY <1>1, <1>3
  <2>3. SameOut(o, w) \/ \E m \in Message : Sends(o, w, m) /\ NotForBot(m, d)
    BY <1>4, <2>2, OtherBot, BotInMessage
  <2> QED BY <2>1, <2>3 DEF BotStep
<1>5. CASE d = c
  <2>1. Big(o, c) => Big(w, c)
    BY <1>2, <1>6, MinUsersIsPositive DEF Big, UserCount
  <2>2. CASE u \notin Ignored /\ Len(v.users[c]) + 1 = BSMinUsers
    BY <1>1, <1>3, <1>5, <2>1, <2>2 DEF BotStep
  <2>3. CASE u \in Ignored
    BY <1>1, <1>5, <2>1, <2>3 DEF BotStep
  <2>4. CASE Len(v.users[c]) + 1 # BSMinUsers
    <3>1. Big(w, c) => Big(o, c)
      BY <1>2, <1>6, <2>4, MinUsersIsPositive DEF Big, UserCount
    <3> QED BY <1>1, <1>5, <2>1, <2>4, <3>1 DEF BotStep
  <2> QED BY <2>2, <2>3, <2>4
<1> QED BY <1>4, <1>5

LEMMA LeaveBots ==
  ASSUME NEW v \in ViewRec, NEW u \in User, NEW c \in Channel, BotTyped
  PROVE  BotSteps(v, Leave(v, u, c))
<1>1. CASE ~IsOnChan(v, u, c)
  BY <1>1, QuietStep DEF Leave, SameOut
<1>2. CASE IsOnChan(v, u, c)
  <2> DEFINE w == Leave(v, u, c)
             d == ChanDelUser(v, u, c)
  <2>1. w.users = d.users /\ w.out = d.out
    BY <1>2, LeaveFields
  <2>2. BotSteps(v, d)
    BY DelUserBots
  <2> HIDE DEF w, d
  <2>3. BotSteps(v, w)
    BY <2>1, <2>2 DEF BotSteps, BotStep, SameOut, Sends, Big, UserCount
  <2> QED BY <2>3 DEF w
<1> QED BY <1>1, <1>2

-----------------------------------------------------------------------------
(* Every channel of a user, or every user of an SJOIN, one after another.  *)
(* Both are folds; Turn is what happens for the i-th.                      *)

LeaveFold(v, u) == FoldLeft(LAMBDA w, e : ChanDelUser(w, u, e.chan), v, v.chans[u])
JoinFold(v, c, list, n) ==
    FoldLeft(LAMBDA w, i : SJoinUser(w, list[i], c, i = 1), v, [i \in 1 .. n |-> i])
JoinNth(w, c, list, i) == SJoinUser(w, list[i], c, i = 1)

Turn(a, w, i) ==
    IF a.leave THEN ChanDelUser(w, a.who, a.list[i].chan)
    ELSE JoinNth(w, a.chan, a.list, i)
Leaver(u, s) == [leave |-> TRUE, who |-> u, list |-> s]
Joiners(c, s) == [leave |-> FALSE, chan |-> c, list |-> s]

\* g is the function a fold over D is defined by.
IsFold(a, v, D, g) ==
    g = [t \in SUBSET D |-> IF t = {} THEN v ELSE Turn(a, g[t \ {Max(t)}], Max(t))]

LEMMA MaxOf ==
  ASSUME NEW n \in Nat, NEW t, t \subseteq 1..n, n \in t
  PROVE  Max(t) = n
<1>1. \A y \in t : n >= y
  OBVIOUS
<1>2. \A x \in t : (\A y \in t : x >= y) => x = n
  OBVIOUS
<1> QED BY <1>1, <1>2 DEF Max

LEMMA MaxIn ==
  ASSUME NEW n \in Nat, NEW t, t \subseteq 1..n, t # {}
  PROVE  Max(t) \in t
<1> DEFINE I == {n - x : x \in t}
<1>1. I \subseteq Nat /\ I # {}
  <2>1. \A x \in t : x \in Nat /\ x <= n
    OBVIOUS
  <2>2. \A x \in t : n - x \in Nat
    BY <2>1
  <2> QED BY <2>2
<1>2. PICK m \in I : \A j \in I : m <= j
  BY <1>1, LeastNat
<1>3. PICK y \in t : m = n - y
  BY <1>2
<1>4. \A x \in t : y >= x
  <2> SUFFICES ASSUME NEW x \in t PROVE y >= x
    OBVIOUS
  <2>1. n - x \in I /\ m <= n - x
    BY <1>2
  <2>2. x \in Nat /\ y \in Nat
    OBVIOUS
  <2> QED BY <1>3, <2>1, <2>2
<1> QED BY <1>4 DEF Max

LEMMA FoldExists ==
  ASSUME NEW a, NEW v, NEW k \in Nat
  PROVE  \E g : IsFold(a, v, 1..k, g)
<1> DEFINE Step(g, t) == IF t = {} THEN v ELSE Turn(a, g[t \ {Max(t)}], Max(t))
           S == {n \in Nat : \E g : g = [t \in SUBSET (1..n) |-> Step(g, t)]}
<1>1. \A g, h, t : (t # {} => g[t \ {Max(t)}] = h[t \ {Max(t)}]) => Step(g, t) = Step(h, t)
  OBVIOUS
<1>2. \A g : Step(g, {}) = v
  OBVIOUS
<1> HIDE DEF Step
<1>3. 0 \in S
  <2> DEFINE g == [t \in SUBSET (1..0) |-> v]
  <2>1. \A t \in SUBSET (1..0) : t = {}
    OBVIOUS
  <2>2. \A t \in SUBSET (1..0) : Step(g, t) = v
    BY <1>2, <2>1
  <2>3. g = [t \in SUBSET (1..0) |-> Step(g, t)]
    BY <2>2
  <2> QED BY <2>3
<1>4. ASSUME NEW n \in Nat, n \in S PROVE n + 1 \in S
  <2>1. PICK g : g = [t \in SUBSET (1..n) |-> Step(g, t)]
    BY <1>4
  <2> DEFINE h == [t \in SUBSET (1..(n + 1)) |-> IF n + 1 \in t THEN Step(g, t) ELSE g[t]]
  <2>2. ASSUME NEW t \in SUBSET (1..(n + 1)) PROVE h[t] = Step(h, t)
    <3>1. CASE n + 1 \in t
      <4>1. Max(t) = n + 1
        <5>1. n + 1 \in Nat
          OBVIOUS
        <5> QED BY <3>1, <5>1, MaxOf
      <4>2. t \ {n + 1} \in SUBSET (1..(n + 1)) /\ n + 1 \notin t \ {n + 1}
        OBVIOUS
      <4>3. h[t \ {n + 1}] = g[t \ {n + 1}]
        BY <4>2
      <4>4. Step(g, t) = Step(h, t)
        BY <1>1, <4>1, <4>3
      <4> QED BY <3>1, <4>4
    <3>2. CASE n + 1 \notin t
      <4>1. t \in SUBSET (1..n)
        BY <3>2
      <4>2. h[t] = g[t] /\ g[t] = Step(g, t)
        BY <2>1, <3>2, <4>1
      <4>3. t \ {Max(t)} \in SUBSET (1..(n + 1)) /\ n + 1 \notin t \ {Max(t)}
        BY <3>2
      <4>4. h[t \ {Max(t)}] = g[t \ {Max(t)}]
        BY <4>3
      <4>5. Step(g, t) = Step(h, t)
        BY <1>1, <4>4
      <4> QED BY <4>2, <4>5
    <3> QED BY <3>1, <3>2
  <2>3. h = [t \in SUBSET (1..(n + 1)) |-> h[t]]
    OBVIOUS
  <2> HIDE DEF h
  <2>4. h = [t \in SUBSET (1..(n + 1)) |-> Step(h, t)]
    BY <2>2, <2>3
  <2> QED BY <2>4
<1> HIDE DEF S
<1>5. k \in S
  BY <1>3, <1>4, NatInd
<1> QED BY <1>5 DEF S, Step, IsFold

\* f[k] is the view after the first k turns.
Turns(a, v, n, f) == f[0] = v /\ \A k \in Nat : k < n => f[k + 1] = Turn(a, f[k], k + 1)

LEMMA FoldTurns ==
  ASSUME NEW a, NEW v, NEW n \in Nat, NEW it, IsFold(a, v, 1..n, it)
  PROVE  \E f : Turns(a, v, n, f) /\ f[n] = it[1..n]
<1> DEFINE f == [k \in Nat |-> it[1..k]]
<1>0. it = [t \in SUBSET (1..n) |-> IF t = {} THEN v ELSE Turn(a, it[t \ {Max(t)}], Max(t))]
  BY DEF IsFold
<1>1. f[0] = v
  <2>1. 1..0 = {} /\ {} \in SUBSET (1..n)
    OBVIOUS
  <2> QED BY <1>0, <2>1
<1>2. ASSUME NEW k \in Nat, k < n
      PROVE  f[k + 1] = Turn(a, f[k], k + 1)
  <2>1. 1..(k + 1) \in SUBSET (1..n) /\ 1..(k + 1) # {} /\ (1..(k + 1)) \ {k + 1} = 1..k
    <3>1. 1..(k + 1) \subseteq 1..n
      BY <1>2
    <3>2. k + 1 \in 1..(k + 1)
      OBVIOUS
    <3>3. (1..(k + 1)) \ {k + 1} = 1..k
      OBVIOUS
    <3> QED BY <3>1, <3>2, <3>3
  <2>2. Max(1..(k + 1)) = k + 1
    BY MaxOf
  <2>3. it[1..(k + 1)] = Turn(a, it[(1..(k + 1)) \ {Max(1..(k + 1))}], Max(1..(k + 1)))
    BY <1>0, <2>1
  <2>4. it[1..(k + 1)] = Turn(a, it[1..k], k + 1)
    BY <2>1, <2>2, <2>3
  <2> QED BY <2>4
<1>3. f[n] = it[1..n]
  OBVIOUS
<1> HIDE DEF f
<1> QED BY <1>1, <1>2, <1>3 DEF Turns

LEMMA LeaveFoldSteps ==
  ASSUME NEW v, NEW u, v.chans[u] \in Seq(ChanEntry)
  PROVE  \E f : /\ Turns(Leaver(u, v.chans[u]), v, Len(v.chans[u]), f)
                /\ f[Len(v.chans[u])] = LeaveFold(v, u)
<1> DEFINE s == v.chans[u]
           a == Leaver(u, s)
           it == CHOOSE g : g = [t \in SUBSET DOMAIN s |->
                     IF t = {} THEN v ELSE ChanDelUser(g[t \ {Max(t)}], u, s[Max(t)].chan)]
<1>1. LeaveFold(v, u) = it[DOMAIN s]
  BY Zenon DEF LeaveFold, FoldLeft, MapThenFoldSet
<1>2. DOMAIN s = 1..Len(s) /\ Len(s) \in Nat
  OBVIOUS
<1>3. \A w, i : Turn(a, w, i) = ChanDelUser(w, u, s[i].chan)
  BY DEF Turn, Leaver
<1> HIDE DEF s, a
<1>4. PICK g : IsFold(a, v, 1..Len(s), g)
  BY <1>2, FoldExists
<1>5. g = [t \in SUBSET DOMAIN s |->
             IF t = {} THEN v ELSE ChanDelUser(g[t \ {Max(t)}], u, s[Max(t)].chan)]
  BY <1>2, <1>3, <1>4 DEF IsFold
<1>6. it = [t \in SUBSET DOMAIN s |->
              IF t = {} THEN v ELSE ChanDelUser(it[t \ {Max(t)}], u, s[Max(t)].chan)]
  BY <1>5
<1> HIDE DEF it
<1>7. IsFold(a, v, 1..Len(s), it)
  BY <1>2, <1>3, <1>6, ZenonT(40) DEF IsFold
<1>8. \E f : Turns(a, v, Len(s), f) /\ f[Len(s)] = it[1..Len(s)]
  BY <1>2, <1>7, FoldTurns
<1> QED BY <1>1, <1>2, <1>8 DEF s, a

LEMMA JoinFoldSteps ==
  ASSUME NEW v, NEW c, NEW list, NEW n \in Nat
  PROVE  \E f : Turns(Joiners(c, list), v, n, f) /\ f[n] = JoinFold(v, c, list, n)
<1> DEFINE a == Joiners(c, list)
           s == [i \in 1 .. n |-> i]
           it == CHOOSE g : g = [t \in SUBSET DOMAIN s |->
                     IF t = {} THEN v ELSE JoinNth(g[t \ {Max(t)}], c, list, s[Max(t)])]
<1>1. JoinFold(v, c, list, n) = it[DOMAIN s]
  BY Zenon DEF JoinFold, FoldLeft, MapThenFoldSet, JoinNth
<1>2. DOMAIN s = 1..n
  OBVIOUS
<1>3. \A w, i : Turn(a, w, i) = JoinNth(w, c, list, i)
  BY DEF Turn, Joiners
<1>4. \A t \in SUBSET (1..n) : t # {} => s[Max(t)] = Max(t)
  <2>1. ASSUME NEW t \in SUBSET (1..n), t # {} PROVE Max(t) \in 1..n
    BY <2>1, MaxIn
  <2> QED BY <2>1
<1> HIDE DEF s, a
<1>5. PICK g : IsFold(a, v, 1..n, g)
  BY FoldExists
<1> DEFINE T(h, t) == IF t = {} THEN v ELSE Turn(a, h[t \ {Max(t)}], Max(t))
           N(h, t) == IF t = {} THEN v ELSE JoinNth(h[t \ {Max(t)}], c, list, s[Max(t)])
<1>10. \A h : \A t \in SUBSET (1..n) : T(h, t) = N(h, t)
  BY <1>3, <1>4
<1>11. g = [t \in SUBSET (1..n) |-> T(g, t)]
  BY <1>5 DEF IsFold
<1>6. g = [t \in SUBSET DOMAIN s |->
             IF t = {} THEN v ELSE JoinNth(g[t \ {Max(t)}], c, list, s[Max(t)])]
  <2>1. g = [t \in SUBSET DOMAIN s |-> T(g, t)]
    BY <1>2, <1>11
  <2>2. \A t \in SUBSET DOMAIN s : T(g, t) = N(g, t)
    BY <1>2, <1>10
  <2> HIDE DEF T, N
  <2>3. g = [t \in SUBSET DOMAIN s |-> N(g, t)]
    BY <2>1, <2>2
  <2> QED BY <2>3 DEF N
<1>7. it = [t \in SUBSET DOMAIN s |->
              IF t = {} THEN v ELSE JoinNth(it[t \ {Max(t)}], c, list, s[Max(t)])]
  BY <1>6
<1> HIDE DEF it
<1>8. IsFold(a, v, 1..n, it)
  <2>1. it = [t \in SUBSET (1..n) |-> N(it, t)]
    BY <1>2, <1>7
  <2> HIDE DEF T, N
  <2>2. it = [t \in SUBSET (1..n) |-> T(it, t)]
    BY <1>10, <2>1
  <2> QED BY <2>2 DEF IsFold, T
<1>9. \E f : Turns(a, v, n, f) /\ f[n] = it[1..n]
  BY <1>8, FoldTurns
<1> QED BY <1>1, <1>2, <1>9 DEF a

-----------------------------------------------------------------------------
(* What a handler sends is added to what it has sent: kicks for users,     *)
(* deops and ops for whom the access list says so, messages for bots.      *)

Due(m) ==
    /\ m.type \in {"kick", "deop", "op", "botjoin", "botpart"}
    /\ m.type = "kick" => m.who \in User
    /\ m.type = "deop" => <<m.who, m.chan>> \in AutoDeop
    /\ m.type = "op" => <<m.who, m.chan>> \in AutoOption

Grows(v, w) ==
    /\ \A m : Has(v.out, m) => Has(w.out, m)
    /\ \A m : Has(w.out, m) => Has(v.out, m) \/ Due(m)

LEMMA GrowsSame ==
  ASSUME NEW v, NEW w, SameOut(v, w)
  PROVE  Grows(v, w)
BY DEF Grows, SameOut

LEMMA GrowsSends ==
  ASSUME NEW v \in ViewRec, NEW w, NEW m \in Message, Sends(v, w, m), Due(m)
  PROVE  Grows(v, w) /\ Has(w.out, m)
<1>1. w.out = Append(v.out, m) /\ v.out \in Seq(Message)
  BY DEF Sends, ViewRec
<1>2. \A x : Has(w.out, x) <=> Has(v.out, x) \/ x = m
  BY <1>1, AppendHas
<1> QED BY <1>2 DEF Grows

LEMMA GrowsTrans ==
  ASSUME NEW v, NEW w, NEW x, Grows(v, w), Grows(w, x)
  PROVE  Grows(v, x)
BY DEF Grows

LEMMA DelUserGrows ==
  ASSUME NEW v \in ViewRec, NEW u \in User, NEW c \in Channel, BotTyped
  PROVE  Grows(v, ChanDelUser(v, u, c))
<1> DEFINE w == ChanDelUser(v, u, c)
<1>1. Count(v.users[c], {u}) \in Nat
  BY CountIsUpto DEF ViewRec
<1>2. w = v \/ SameOut(v, w) \/ (bot[c] # NULL /\ Sends(v, w, PartBot(c)))
  <2>1. /\ Count(v.users[c], {u}) = 0 => w = v
        /\ Count(v.users[c], {u}) > 0 =>
             IF bot[c] # NULL /\ Len(w.users[c]) = BSMinUsers - 1
               THEN Sends(v, w, To("botpart", c, bot[c])) ELSE SameOut(v, w)
    BY DelUserFields
  <2>2. PartBot(c) = To("botpart", c, bot[c])
    BY DEF PartBot
  <2> HIDE DEF w
  <2> QED BY <1>1, <2>1, <2>2
<1> HIDE DEF w
<1>3. Due(PartBot(c))
  BY DEF Due, PartBot, To
<1>4. ASSUME bot[c] # NULL, Sends(v, w, PartBot(c)) PROVE Grows(v, w)
  <2>1. PartBot(c) \in Message
    BY <1>4, BotInMessage
  <2> QED BY <1>3, <1>4, <2>1, GrowsSends
<1>5. w = v => SameOut(v, w)
  BY DEF SameOut
<1>6. Grows(v, w)
  BY <1>2, <1>4, <1>5, GrowsSame
<1> QED BY <1>6 DEF w

LEMMA LeaveGrows ==
  ASSUME NEW v \in ViewRec, NEW u \in User, NEW c \in Channel, BotTyped
  PROVE  Grows(v, Leave(v, u, c))
<1>1. CASE ~IsOnChan(v, u, c)
  BY <1>1, GrowsSame DEF Leave, SameOut
<1>2. CASE IsOnChan(v, u, c)
  <2>1. Leave(v, u, c).out = ChanDelUser(v, u, c).out
    BY <1>2, LeaveFields
  <2>2. Grows(v, ChanDelUser(v, u, c))
    BY DelUserGrows
  <2> QED BY <2>1, <2>2 DEF Grows
<1> QED BY <1>1, <1>2

LEMMA JoinGrows ==
  ASSUME NEW v \in ViewRec, NEW u \in User, NEW c \in Channel, BotTyped
  PROVE  Grows(Welcome(v, u, c), JoinUserUpdate(v, u, c))
<1> DEFINE w == JoinUserUpdate(v, u, c)
           o == Welcome(v, u, c)
<1>1. SameOut(o, w) \/ (bot[c] # NULL /\ Sends(o, w, JoinBot(c)))
  BY JoinFields DEF JoinBot
<1>5. o \in ViewRec
  BY WelcomeFields
<1> HIDE DEF w, o
<1>2. Due(JoinBot(c))
  BY DEF Due, JoinBot, To
<1>3. ASSUME bot[c] # NULL, Sends(o, w, JoinBot(c)) PROVE Grows(o, w)
  <2>1. JoinBot(c) \in Message
    BY <1>3, BotInMessage
  <2> QED BY <1>2, <1>3, <1>5, <2>1, GrowsSends
<1>4. Grows(o, w)
  BY <1>1, <1>3, GrowsSame
<1> QED BY <1>4 DEF w, o

-----------------------------------------------------------------------------
(* JOIN 0 and delete_user().                                               *)

\* After k channels of u: nobody else's entries have changed, u is off the
\* lists as often as his own list names them, and bots have been told.
AfterSome(v0, v, u, k, w) ==
    /\ w \in ViewRec
    /\ w.known = v.known /\ w.chans = v.chans
    /\ \A d \in Channel :
          /\ \A x \in User \ {u} : Count(w.users[d], {x}) = Count(v.users[d], {x})
          /\ Count(w.users[d], {u}) = Count(v.users[d], {u}) - Upto(v.chans[u], ChanOf(d), k)
    /\ Grows(v, w)
    /\ BotsTold(v0, v) => BotsTold(v0, w)

LEMMA LeaveOneMore ==
  ASSUME NEW v0, NEW v, NEW u \in User, NEW k \in Nat, NEW w, BotTyped, Good(v),
         k < Len(v.chans[u]), AfterSome(v0, v, u, k, w)
  PROVE  AfterSome(v0, v, u, k + 1, ChanDelUser(w, u, v.chans[u][k + 1].chan))
<1> DEFINE s == v.chans[u]
           c == s[k + 1].chan
           x == ChanDelUser(w, u, c)
<1>1. v \in ViewRec /\ s \in Seq(ChanEntry) /\ Len(s) \in Nat /\ w \in ViewRec
  BY DEF Good, ViewRec, AfterSome
<1>2. s[k + 1] \in ChanEntry /\ c \in Channel
  <2>1. k + 1 \in DOMAIN s
    BY <1>1
  <2> HIDE DEF s
  <2>2. s[k + 1] \in ChanEntry
    BY <1>1, <2>1
  <2> QED BY <2>2 DEF ChanEntry
<1>3. \A d \in Channel : Upto(s, ChanOf(d), k + 1) = Upto(s, ChanOf(d), k) + Bit(s[k + 1], ChanOf(d))
  BY UptoStep
<1>4. \A d \in Channel : Bit(s[k + 1], ChanOf(d)) = IF c = d THEN 1 ELSE 0
  BY <1>2, ChanOfBit
<1>5. \A d \in Channel : Upto(s, ChanOf(d), k) \in Nat
  BY UptoStep
<1> HIDE DEF s, c
<1>6. Count(w.users[c], {u}) > 0
  <2>1. Count(v.users[c], {u}) = Upto(s, ChanOf(c), Len(s))
    BY <1>1, <1>2, CountIsUpto DEF Good, Mirrors, s
  <2>2. Upto(s, ChanOf(c), k + 1) <= Upto(s, ChanOf(c), Len(s))
    <3>1. k + 1 \in Nat /\ k + 1 <= Len(s)
      BY <1>1 DEF s
    <3> QED BY <1>1, <3>1, UptoGrows
  <2>3. Upto(s, ChanOf(c), k + 1) = Upto(s, ChanOf(c), k) + 1
    BY <1>2, <1>3, <1>4
  <2>4. Count(w.users[c], {u}) = Count(v.users[c], {u}) - Upto(s, ChanOf(c), k)
    BY <1>2 DEF AfterSome, s
  <2>5. Upto(s, ChanOf(c), Len(s)) \in Nat /\ Upto(s, ChanOf(c), k) \in Nat
    BY <1>1, UptoStep
  <2> QED BY <2>1, <2>2, <2>3, <2>4, <2>5
<1>7. /\ x \in ViewRec
      /\ x.known = w.known /\ x.chans = w.chans
      /\ \A d \in Channel \ {c} : x.users[d] = w.users[d]
      /\ \A y \in User : Count(x.users[c], {y}) = Count(w.users[c], {y}) - Bit(u, {y})
  BY <1>1, <1>2, <1>6, DelUserFields
<1>8. Grows(w, x) /\ BotSteps(w, x)
  BY <1>1, <1>2, DelUserGrows, DelUserBots
<1> HIDE DEF x
<1>9. x.known = v.known /\ x.chans = v.chans /\ Grows(v, x) /\ (BotsTold(v0, v) => BotsTold(v0, x))
  BY <1>1, <1>7, <1>8, GrowsTrans, ToldStep DEF AfterSome
<1>10. ASSUME NEW d \in Channel, NEW y \in User \ {u}
       PROVE  Count(x.users[d], {y}) = Count(v.users[d], {y})
  <2>1. Count(w.users[d], {y}) = Count(v.users[d], {y}) /\ Count(w.users[d], {y}) \in Nat
    BY <1>1, CountIsUpto DEF AfterSome, ViewRec
  <2>2. Bit(u, {y}) = 0
    BY DEF Bit
  <2> QED BY <1>7, <2>1, <2>2
<1>11. ASSUME NEW d \in Channel
       PROVE  Count(x.users[d], {u}) = Count(v.users[d], {u}) - Upto(s, ChanOf(d), k + 1)
  <2>1. Count(w.users[d], {u}) = Count(v.users[d], {u}) - Upto(s, ChanOf(d), k)
    BY DEF AfterSome, s
  <2>2. Count(v.users[d], {u}) \in Nat
    BY <1>1, CountIsUpto DEF ViewRec
  <2>3. CASE d = c
    <3>1. Bit(u, {u}) = 1
      BY DEF Bit
    <3>2. Count(x.users[c], {u}) = Count(w.users[c], {u}) - 1
      BY <1>7, <3>1
    <3>3. Upto(s, ChanOf(d), k + 1) = Upto(s, ChanOf(d), k) + 1
      BY <1>3, <1>4, <2>3
    <3> QED BY <1>5, <2>1, <2>2, <2>3, <3>2, <3>3
  <2>4. CASE d # c
    <3>1. Upto(s, ChanOf(d), k + 1) = Upto(s, ChanOf(d), k)
      BY <1>3, <1>4, <1>5, <2>4
    <3> QED BY <1>7, <2>1, <2>4, <3>1
  <2> QED BY <2>3, <2>4
<1> QED BY <1>7, <1>9, <1>10, <1>11 DEF AfterSome, x, c, s

LEMMA LeaveFoldDone ==
  ASSUME NEW v0, NEW v, NEW u \in User, BotTyped, Good(v)
  PROVE  AfterSome(v0, v, u, Len(v.chans[u]), LeaveFold(v, u))
<1> DEFINE s == v.chans[u]
<1>1. v \in ViewRec /\ s \in Seq(ChanEntry) /\ Len(s) \in Nat
  BY DEF Good, ViewRec
<1>2. PICK f : /\ f[0] = v /\ f[Len(s)] = LeaveFold(v, u)
               /\ \A k \in Nat : k < Len(s) => f[k + 1] = ChanDelUser(f[k], u, s[k + 1].chan)
  <2>1. \A w, i : Turn(Leaver(u, s), w, i) = ChanDelUser(w, u, s[i].chan)
    BY DEF Turn, Leaver
  <2>2. PICK f : Turns(Leaver(u, s), v, Len(s), f) /\ f[Len(s)] = LeaveFold(v, u)
    BY <1>1, LeaveFoldSteps
  <2> QED BY <2>1, <2>2 DEF Turns
<1> DEFINE S == {k \in Nat : k <= Len(s) => AfterSome(v0, v, u, k, f[k])}
<1>3. 0 \in S
  <2>1. \A d \in Channel : Upto(s, ChanOf(d), 0) = 0
    <3>1. 0 \in Nat
      OBVIOUS
    <3> QED BY <3>1, UptoStep
  <2>2. \A d \in Channel : Count(v.users[d], {u}) \in Nat
    BY <1>1, CountIsUpto DEF ViewRec
  <2>3. \A d \in Channel : Count(v.users[d], {u}) = Count(v.users[d], {u}) - Upto(s, ChanOf(d), 0)
    BY <2>1, <2>2
  <2>4. Grows(v, v)
    BY DEF Grows
  <2> HIDE DEF s
  <2>5. AfterSome(v0, v, u, 0, v)
    BY <1>1, <2>3, <2>4 DEF AfterSome, s
  <2> QED BY <1>2, <2>5
<1>4. ASSUME NEW k \in Nat, k \in S PROVE k + 1 \in S
  <2> SUFFICES ASSUME k + 1 <= Len(s) PROVE AfterSome(v0, v, u, k + 1, f[k + 1])
    OBVIOUS
  <2>1. k < Len(s) /\ k <= Len(s)
    BY <1>1
  <2>2. AfterSome(v0, v, u, k, f[k])
    BY <1>4, <2>1
  <2>3. AfterSome(v0, v, u, k + 1, ChanDelUser(f[k], u, s[k + 1].chan))
    BY <2>1, <2>2, LeaveOneMore
  <2> QED BY <1>2, <2>1, <2>3
<1> HIDE DEF S
<1>5. Len(s) \in S
  BY <1>1, <1>3, <1>4, NatInd
<1> QED BY <1>1, <1>2, <1>5 DEF S

\* What every step of a handler does: the lists go on agreeing, nothing that
\* was to be sent is lost, and the bots are told.
Fine(v, w) ==
    /\ Good(w)
    /\ Grows(v, w)
    /\ \A v0 : BotsTold(v0, v) => BotsTold(v0, w)

LEMMA FineSame ==
  ASSUME NEW v, Good(v)
  PROVE  Fine(v, v)
BY DEF Fine, Grows

LEMMA FineTrans ==
  ASSUME NEW v, NEW w, NEW x, Fine(v, w), Fine(w, x)
  PROVE  Fine(v, x)
<1>1. Grows(v, x)
  BY GrowsTrans DEF Fine
<1> QED BY <1>1 DEF Fine

LEMMA LeaveAllFields ==
  ASSUME NEW v, NEW u \in User, BotTyped, Good(v)
  PROVE  LET w == LeaveAll(v, u) IN
         /\ Fine(v, w)
         /\ w.known = v.known
         /\ w.chans[u] = <<>>
         /\ \A x \in User \ {u} : w.chans[x] = v.chans[x]
<1> DEFINE s == v.chans[u]
           f == LeaveFold(v, u)
           w == [f EXCEPT !.chans[u] = <<>>]
<1>1. v \in ViewRec /\ s \in Seq(ChanEntry) /\ Len(s) \in Nat
  BY DEF Good, ViewRec
<1>2. LeaveAll(v, u) = w
  BY DEF LeaveAll, LeaveFold
<1>3. \A v0 : AfterSome(v0, v, u, Len(s), f)
  BY LeaveFoldDone
<1> HIDE DEF f
<1>4. /\ f \in ViewRec /\ f.known = v.known /\ f.chans = v.chans
      /\ Grows(v, f)
      /\ \A v0 : BotsTold(v0, v) => BotsTold(v0, f)
  BY <1>3 DEF AfterSome
<1>5. ASSUME NEW d \in Channel
      PROVE  /\ \A x \in User \ {u} : Count(f.users[d], {x}) = Count(v.users[d], {x})
             /\ Count(f.users[d], {u}) = Count(v.users[d], {u}) - Upto(s, ChanOf(d), Len(s))
  BY <1>3 DEF AfterSome
<1>6. <<>> \in Seq(ChanEntry)
  OBVIOUS
<1>7. /\ w \in ViewRec
      /\ w.known = f.known /\ w.users = f.users /\ w.out = f.out
      /\ w.chans[u] = <<>>
      /\ \A x \in User \ {u} : w.chans[x] = f.chans[x]
  BY <1>4, <1>6, ChansFields
<1> HIDE DEF w, s
<1>8. ASSUME NEW x \in User, NEW d \in Channel
      PROVE  Count(w.users[d], {x}) = Count(w.chans[x], ChanOf(d))
  <2>1. Count(v.users[d], {x}) = Count(v.chans[x], ChanOf(d))
    BY DEF Good, Mirrors
  <2>2. CASE x = u
    <3>1. Count(v.chans[u], ChanOf(d)) = Upto(s, ChanOf(d), Len(s))
      BY <1>1, CountIsUpto DEF s
    <3>2. Upto(s, ChanOf(d), Len(s)) \in Nat
      BY <1>1, UptoStep
    <3>3. Count(f.users[d], {u}) = 0
      <4>1. Count(v.users[d], {u}) = Upto(s, ChanOf(d), Len(s))
        BY <2>1, <2>2, <3>1
      <4>2. Count(f.users[d], {u}) = Count(v.users[d], {u}) - Upto(s, ChanOf(d), Len(s))
        BY <1>5
      <4> QED BY <3>2, <4>1, <4>2
    <3>4. Count(<<>>, ChanOf(d)) = 0
      <4>1. {i \in DOMAIN <<>> : <<>>[i] \in ChanOf(d)} = {}
        OBVIOUS
      <4> QED BY <4>1, FS_EmptySet DEF Count
    <3> QED BY <1>7, <2>2, <3>3, <3>4
  <2>3. CASE x # u
    BY <1>4, <1>5, <1>7, <2>1, <2>3
  <2> QED BY <2>2, <2>3
<1>9. ASSUME NEW x \in User, x \notin w.known PROVE w.chans[x] = <<>>
  BY <1>4, <1>7, <1>9 DEF Good, Mirrors
<1>10. Good(w)
  BY <1>7, <1>8, <1>9 DEF Good, Mirrors
<1>11. Grows(v, w)
  BY <1>4, <1>7 DEF Grows
<1>12. ASSUME NEW v0, BotsTold(v0, v) PROVE BotsTold(v0, w)
  <2>1. BotsTold(v0, f)
    BY <1>4, <1>12
  <2> QED BY <1>7, <2>1 DEF BotsTold, BotTold, Big, UserCount
<1>13. Fine(v, w)
  BY <1>10, <1>11, <1>12 DEF Fine
<1> QED BY <1>2, <1>4, <1>7, <1>13

LEMMA DeleteUserFields ==
  ASSUME NEW v, NEW u \in User, BotTyped, Good(v)
  PROVE  LET w == DeleteUser(v, u) IN
         /\ Fine(v, w)
         /\ w.known = v.known \ {u}
         /\ w.chans[u] = <<>>
         /\ \A x \in User \ {u} : w.chans[x] = v.chans[x]
<1> DEFINE f == LeaveAll(v, u)
           k == f.known \ {u}
           w == [f EXCEPT !.known = k]
<1>1. DeleteUser(v, u) = w
  BY DEF DeleteUser
<1>2. /\ Fine(v, f)
      /\ f.known = v.known
      /\ f.chans[u] = <<>>
      /\ \A x \in User \ {u} : f.chans[x] = v.chans[x]
  BY LeaveAllFields
<1> HIDE DEF f
<1>3. f \in ViewRec /\ k \subseteq User
  BY <1>2 DEF Fine, Good, ViewRec
<1> HIDE DEF k
<1>4. w \in ViewRec /\ w.known = k /\ w.users = f.users /\ w.chans = f.chans /\ w.out = f.out
  BY <1>3 DEF ViewRec
<1> HIDE DEF w
<1>5. Good(w)
  <2>1. ASSUME NEW x \in User, x \notin w.known PROVE w.chans[x] = <<>>
    BY <1>2, <1>4, <2>1 DEF Fine, Good, Mirrors, k
  <2>2. \A x \in User, d \in Channel : Count(w.users[d], {x}) = Count(w.chans[x], ChanOf(d))
    BY <1>2, <1>4 DEF Fine, Good, Mirrors
  <2> QED BY <1>4, <2>1, <2>2 DEF Good, Mirrors
<1>6. Grows(v, w)
  BY <1>2, <1>4 DEF Fine, Grows
<1>7. ASSUME NEW v0, BotsTold(v0, v) PROVE BotsTold(v0, w)
  <2>1. BotsTold(v0, f)
    BY <1>2, <1>7 DEF Fine
  <2> QED BY <1>4, <2>1 DEF BotsTold, BotTold, Big, UserCount
<1>8. Fine(v, w)
  BY <1>5, <1>6, <1>7 DEF Fine
<1> QED BY <1>1, <1>2, <1>4, <1>8 DEF k

-----------------------------------------------------------------------------
(* The handlers.                                                           *)

LEMMA FineSteps ==
  ASSUME NEW v, NEW w, BotTyped, Good(v), Good(w), Grows(v, w), BotSteps(v, w)
  PROVE  Fine(v, w)
<1>1. ASSUME NEW v0, BotsTold(v0, v) PROVE BotsTold(v0, w)
  BY <1>1, ToldStep DEF Good
<1> QED BY <1>1 DEF Fine

\* A message that is not for a bot.
LEMMA SendFine ==
  ASSUME NEW v, NEW m \in Message, BotTyped, Good(v),
         m.type \notin {"botpart", "botjoin"}, Due(m)
  PROVE  Fine(v, Send(v, m)) /\ Send(v, m).known = v.known
<1>1. v \in ViewRec
  BY DEF Good
<1>2. /\ Send(v, m) \in ViewRec
      /\ Send(v, m).known = v.known
      /\ Send(v, m).users = v.users
      /\ Send(v, m).chans = v.chans
      /\ Sends(v, Send(v, m), m)
  BY <1>1, SendFields DEF Sends
<1>3. Good(Send(v, m))
  BY <1>2 DEF Good, Mirrors
<1>4. Grows(v, Send(v, m)) /\ BotSteps(v, Send(v, m))
  BY <1>1, <1>2, GrowsSends, QuietStep
<1> QED BY <1>2, <1>3, <1>4, FineSteps

LEMMA WelcomeFine ==
  ASSUME NEW v, NEW u \in User, NEW c \in Channel, BotTyped, Good(v)
  PROVE  Fine(v, Welcome(v, u, c)) /\ Welcome(v, u, c).known = v.known
<1> DEFINE m == To("op", c, u)
<1>1. v \in ViewRec
  BY DEF Good
<1>2. CASE u \notin Ignored /\ <<u, c>> \in AutoOption
  <2>1. m \in Message
    BY UserMessage
  <2>2. m.type \notin {"botpart", "botjoin"} /\ Due(m)
    BY <1>2 DEF To, Due
  <2>3. Welcome(v, u, c) = Send(v, m)
    BY <1>1, <1>2, WelcomeFields
  <2> QED BY <2>1, <2>2, <2>3, SendFine
<1>3. CASE ~(u \notin Ignored /\ <<u, c>> \in AutoOption)
  <2>1. Welcome(v, u, c) = v
    BY <1>1, <1>3, WelcomeFields
  <2> QED BY <2>1, FineSame
<1> QED BY <1>2, <1>3

LEMMA JoinFine ==
  ASSUME NEW v, NEW u \in v.known, NEW c \in Channel, BotTyped, Good(v)
  PROVE  Fine(v, JoinUserUpdate(v, u, c)) /\ JoinUserUpdate(v, u, c).known = v.known
<1> DEFINE w == JoinUserUpdate(v, u, c)
           o == Welcome(v, u, c)
<1>1. v \in ViewRec /\ u \in User
  BY DEF Good, ViewRec
<1>2. Good(w)
  BY JoinMirrors
<1>3. Grows(o, w) /\ BotSteps(o, w)
  BY <1>1, JoinGrows, JoinBots
<1>4. w.known = v.known
  BY <1>1, JoinFields
<1>5. Fine(v, o)
  BY <1>1, WelcomeFine
<1> HIDE DEF w, o
<1>6. Fine(o, w)
  BY <1>2, <1>3, <1>5, FineSteps DEF Fine
<1>7. Fine(v, w)
  BY <1>5, <1>6, FineTrans
<1> QED BY <1>4, <1>7 DEF w

LEMMA LeaveFine ==
  ASSUME NEW v, NEW u \in User, NEW c \in Channel, BotTyped, Good(v)
  PROVE  Fine(v, Leave(v, u, c))
<1>1. v \in ViewRec
  BY DEF Good
<1>2. Good(Leave(v, u, c))
  BY LeaveMirrors
<1>3. Grows(v, Leave(v, u, c)) /\ BotSteps(v, Leave(v, u, c))
  BY <1>1, LeaveGrows, LeaveBots
<1> QED BY <1>2, <1>3, FineSteps

LEMMA SetOpFine ==
  ASSUME NEW v, NEW u \in User, NEW c \in Channel, NEW flag \in BOOLEAN, BotTyped, Good(v)
  PROVE  Fine(v, SetOp(v, u, c, flag)) /\ SetOp(v, u, c, flag).known = v.known
<1>1. v \in ViewRec
  BY DEF Good
<1>2. Good(SetOp(v, u, c, flag))
  BY SetOpMirrors
<1>3. /\ SetOp(v, u, c, flag).known = v.known
      /\ SetOp(v, u, c, flag).users = v.users
      /\ SameOut(v, SetOp(v, u, c, flag))
  <2>1. CASE IsOnChan(v, u, c)
    <3> DEFINE w == SetOp(v, u, c, flag)
               p == PlaceOfChan(v, u, c)
    <3>1. /\ w \in ViewRec
          /\ w.known = v.known /\ w.users = v.users /\ SameOut(v, w)
          /\ FirstIs(v.chans[u], c, p)
          /\ w.chans[u] = [v.chans[u] EXCEPT ![p] = Entry(c, flag)]
          /\ \A x \in User \ {u} : w.chans[x] = v.chans[x]
      BY <1>1, <2>1, SetOpFields
    <3> QED BY <3>1
  <2>2. CASE ~IsOnChan(v, u, c)
    BY <2>2 DEF SetOp, SameOut
  <2> QED BY <2>1, <2>2
<1>4. Grows(v, SetOp(v, u, c, flag)) /\ BotSteps(v, SetOp(v, u, c, flag))
  BY <1>3, GrowsSame, QuietStep
<1> QED BY <1>2, <1>3, <1>4, FineSteps

LEMMA JoinOrKickFine ==
  ASSUME NEW v, NEW u \in v.known, NEW c \in Channel, BotTyped, Good(v)
  PROVE  Fine(v, JoinOrKick(v, u, c)) /\ JoinOrKick(v, u, c).known = v.known
<1>1. CASE <<u, c>> \in Unwelcome
  <2>1. u \in User /\ u \in Member
    BY DEF Good, ViewRec, Member
  <2>2. To("kick", c, u) \in Message
    BY <2>1, KickMessage
  <2>3. /\ To("kick", c, u).type \notin {"botpart", "botjoin"}
        /\ Due(To("kick", c, u))
    BY <2>1 DEF To, Due
  <2> QED BY <1>1, <2>2, <2>3, SendFine DEF JoinOrKick
<1>2. CASE <<u, c>> \notin Unwelcome
  BY <1>2, JoinFine DEF JoinOrKick
<1> QED BY <1>1, <1>2

LEMMA AddOpFine ==
  ASSUME NEW v, NEW u \in User, NEW c \in Channel, NEW servermode \in BOOLEAN, BotTyped, Good(v)
  PROVE  Fine(v, AddOp(v, u, c, servermode)) /\ AddOp(v, u, c, servermode).known = v.known
<1>1. CASE AddOp(v, u, c, servermode) = v
  BY <1>1, FineSame
<1>2. CASE AddOp(v, u, c, servermode) = SetOp(v, u, c, TRUE)
  <2>1. Fine(v, SetOp(v, u, c, TRUE)) /\ SetOp(v, u, c, TRUE).known = v.known
    BY SetOpFine, ZenonT(30)
  <2> QED BY <1>2, <2>1
<1>3. CASE Deopped(u, c, servermode) /\ AddOp(v, u, c, servermode) = Send(v, To("deop", c, u))
  <2>1. To("deop", c, u) \in Message
    BY UserMessage
  <2>2. /\ To("deop", c, u).type \notin {"botpart", "botjoin"}
        /\ Due(To("deop", c, u))
    BY <1>3 DEF To, Due, Deopped
  <2> QED BY <1>3, <2>1, <2>2, SendFine
<1> QED BY <1>1, <1>2, <1>3 DEF AddOp

LEMMA SJoinUserFine ==
  ASSUME NEW v, NEW u \in v.known, NEW c \in Channel, NEW op \in BOOLEAN, BotTyped, Good(v)
  PROVE  Fine(v, SJoinUser(v, u, c, op)) /\ SJoinUser(v, u, c, op).known = v.known
<1> DEFINE w == JoinOrKick(v, u, c)
<1>1. Fine(v, w) /\ w.known = v.known
  BY JoinOrKickFine
<1>2. SJoinUser(v, u, c, op) = IF op /\ <<u, c>> \notin Unwelcome THEN AddOp(w, u, c, TRUE) ELSE w
  BY DEF SJoinUser
<1>3. u \in User /\ Good(w)
  BY <1>1 DEF Good, ViewRec, Fine
<1> HIDE DEF w
<1>4. Fine(w, AddOp(w, u, c, TRUE)) /\ AddOp(w, u, c, TRUE).known = w.known
  BY <1>3, AddOpFine
<1> QED BY <1>1, <1>2, <1>4, FineTrans

\* How many users of the list services go through.
Heard(v, list) ==
    LET unknown == SelectInSeq(list, LAMBDA u : u \notin v.known)
    IN  IF unknown = 0 THEN Len(list) ELSE unknown - 1

LEMMA SJoinIsFold ==
  ASSUME NEW v, NEW c, NEW list
  PROVE  SJoin(v, c, list) = JoinFold(v, c, list, Heard(v, list))
BY Zenon DEF SJoin, JoinFold, Heard

LEMMA HeardAreKnown ==
  ASSUME NEW v, NEW list \in Seq(User)
  PROVE  /\ Heard(v, list) \in Nat
         /\ \A i \in 1..Heard(v, list) : i \in DOMAIN list /\ list[i] \in v.known
         /\ (\A i \in DOMAIN list : list[i] \in v.known) => Heard(v, list) = Len(list)
<1> DEFINE I == {i \in 1..Len(list) : list[i] \notin v.known}
           p == SelectInSeq(list, LAMBDA u : u \notin v.known)
<1>1. DOMAIN list = 1..Len(list) /\ Len(list) \in Nat
  OBVIOUS
<1>2. p = IF I # {} THEN Min(I) ELSE 0
  BY DEF SelectInSeq
<1>3. Heard(v, list) = IF p = 0 THEN Len(list) ELSE p - 1
  BY DEF Heard
<1> HIDE DEF p
<1>4. CASE I = {}
  BY <1>1, <1>2, <1>3, <1>4
<1>5. CASE I # {}
  <2>1. I \subseteq Nat
    BY <1>1
  <2>2. Min(I) \in I /\ \A j \in I : Min(I) <= j
    <3> HIDE DEF I
    <3> QED BY <1>5, <2>1, MinIn
  <2> DEFINE m == Min(I)
  <2>3. m \in 1..Len(list) /\ list[m] \notin v.known /\ \A j \in I : m <= j
    BY <2>2
  <2> HIDE DEF m
  <2>4. Heard(v, list) = m - 1
    BY <1>2, <1>3, <1>5, <2>3 DEF m
  <2>5. \A i \in 1..(m - 1) : i \in 1..Len(list) /\ i \notin I
    BY <1>1, <2>3
  <2> QED BY <1>1, <2>3, <2>4, <2>5
<1> QED BY <1>4, <1>5

LEMMA SJoinFine ==
  ASSUME NEW v, NEW c \in Channel, NEW list \in Seq(User), BotTyped, Good(v)
  PROVE  Fine(v, SJoin(v, c, list)) /\ SJoin(v, c, list).known = v.known
<1> DEFINE n == Heard(v, list)
<1>1. n \in Nat /\ \A i \in 1..n : list[i] \in v.known
  BY HeardAreKnown
<1> HIDE DEF n
<1>2. \A w, i : Turn(Joiners(c, list), w, i) = SJoinUser(w, list[i], c, i = 1)
  BY DEF Turn, Joiners, JoinNth
<1>3. PICK f : Turns(Joiners(c, list), v, n, f) /\ f[n] = JoinFold(v, c, list, n)
  BY <1>1, JoinFoldSteps
<1> DEFINE S == {k \in Nat : k <= n => Fine(v, f[k]) /\ f[k].known = v.known}
<1>4. 0 \in S
  BY <1>3, FineSame DEF Turns
<1>5. ASSUME NEW k \in Nat, k \in S PROVE k + 1 \in S
  <2> SUFFICES ASSUME k + 1 <= n PROVE Fine(v, f[k + 1]) /\ f[k + 1].known = v.known
    OBVIOUS
  <2>1. k < n /\ k <= n /\ k + 1 \in 1..n
    BY <1>1
  <2>2. Fine(v, f[k]) /\ f[k].known = v.known
    BY <1>5, <2>1
  <2>3. list[k + 1] \in f[k].known /\ Good(f[k])
    BY <1>1, <2>1, <2>2 DEF Fine
  <2> DEFINE w == SJoinUser(f[k], list[k + 1], c, k + 1 = 1)
  <2>4. Fine(f[k], w) /\ w.known = f[k].known
    <3>1. ASSUME NEW op \in BOOLEAN
          PROVE  /\ Fine(f[k], SJoinUser(f[k], list[k + 1], c, op))
                 /\ SJoinUser(f[k], list[k + 1], c, op).known = f[k].known
      BY <2>3, SJoinUserFine
    <3>2. (k + 1 = 1) \in BOOLEAN
      OBVIOUS
    <3> HIDE DEF S
    <3> QED BY <3>1, <3>2, Zenon
  <2>5. f[k + 1] = w
    BY <1>2, <1>3, <2>1 DEF Turns
  <2> HIDE DEF w
  <2> QED BY <2>2, <2>4, <2>5, FineTrans
<1> HIDE DEF S
<1>6. n \in S
  BY <1>1, <1>4, <1>5, NatInd
<1> QED BY <1>1, <1>3, <1>6, SJoinIsFold DEF S, n

\* What the network tells services.
FromNetwork == {"join", "part", "part0", "kick", "sjoin", "op", "servop", "deop", "quit"}

LEMMA MessageFields ==
  ASSUME NEW m \in Message
  PROVE  /\ m.type \in {"join", "part", "deop", "op", "servop"} => m.chan \in Channel /\ m.who \in User
         /\ m.type = "kick" => m.chan \in Channel /\ m.who \in Member
         /\ m.type = "sjoin" => m.chan \in Channel /\ m.who \in Seq(User)
         /\ m.type \in {"botjoin", "botpart"} => m.chan \in Channel /\ m.who \in Bot
         /\ m.type \in {"quit", "part0", "kill"} => m.who \in User
BY DEF Message

LEMMA ViewFields ==
  ASSUME TypeOK
  PROVE  /\ View \in ViewRec
         /\ View.known = known /\ View.users = users /\ View.chans = chans
         /\ View.out = <<>> /\ DOMAIN View.out = {}
         /\ BotTyped
<1>1. <<>> \in Seq(Message)
  OBVIOUS
<1> QED BY <1>1 DEF TypeOK, View, ViewRec, BotTyped

LEMMA BotJoinFine ==
  ASSUME NEW v, NEW c \in Channel, BotTyped, Good(v)
  PROVE  Fine(v, BotJoin(v, c))
<1> DEFINE w == BotJoin(v, c)
<1>1. v \in ViewRec
  BY DEF Good
<1>2. /\ w \in ViewRec
      /\ w.known = v.known /\ w.users = v.users /\ w.chans = v.chans
      /\ SameOut(v, w) \/ (bot[c] # NULL /\ Sends(v, w, JoinBot(c)))
  BY <1>1, BotJoinFields DEF JoinBot
<1> HIDE DEF w
<1>3. Good(w)
  BY <1>2 DEF Good, Mirrors
<1>4. Due(JoinBot(c))
  BY DEF Due, JoinBot, To
<1>5. Grows(v, w)
  BY <1>1, <1>2, <1>4, GrowsSame, GrowsSends, BotInMessage
<1>6. ASSUME NEW d \in Channel, bot[d] # NULL PROVE BotStep(v, w, d)
  <2>1. Big(w, d) <=> Big(v, d)
    BY <1>2 DEF Big, UserCount
  <2>2. CASE d = c
    BY <1>2, <2>1, <2>2 DEF BotStep
  <2>3. CASE d # c
    <3>1. SameOut(v, w) \/ \E m \in Message : Sends(v, w, m) /\ NotForBot(m, d)
      BY <1>2, <2>3, OtherBot, BotInMessage
    <3> QED BY <2>1, <3>1 DEF BotStep
  <2> QED BY <2>2, <2>3
<1>7. BotSteps(v, w)
  BY <1>6 DEF BotSteps
<1>8. Fine(v, w)
  BY <1>3, <1>5, <1>7, FineSteps
<1> QED BY <1>8 DEF w

LEMMA HandleFine ==
  ASSUME NEW m \in Message, m.type \in FromNetwork, TypeOK, Good(View)
  PROVE  Fine(View, Handle(m))
<1>0. View.known = known /\ known \subseteq User /\ BotTyped
  BY ViewFields DEF TypeOK
<1>1. Fine(View, View)
  BY FineSame
<1>2. TRUE \in BOOLEAN /\ FALSE \in BOOLEAN
  OBVIOUS
<1>3. CASE m.type = "join"
  <2>1. Handle(m) = IF m.who \in known THEN JoinOrKick(View, m.who, m.chan) ELSE View
    BY <1>3 DEF Handle
  <2>2. m.chan \in Channel
    BY <1>3, MessageFields
  <2>3. m.who \in known => Fine(View, JoinOrKick(View, m.who, m.chan))
    BY <1>0, <2>2, JoinOrKickFine
  <2> QED BY <1>1, <2>1, <2>3
<1>4. CASE m.type = "part"
  <2>1. Handle(m) = IF m.who \in known THEN Leave(View, m.who, m.chan) ELSE View
    BY <1>4 DEF Handle
  <2>2. m.chan \in Channel /\ m.who \in User
    BY <1>4, MessageFields
  <2>3. Fine(View, Leave(View, m.who, m.chan))
    BY <1>0, <2>2, LeaveFine
  <2> QED BY <1>1, <2>1, <2>3
<1>5. CASE m.type = "part0"
  <2>1. Handle(m) = IF m.who \in known THEN LeaveAll(View, m.who) ELSE View
    BY <1>5 DEF Handle
  <2>2. m.who \in User
    BY <1>5, MessageFields
  <2>3. Fine(View, LeaveAll(View, m.who))
    BY <1>0, <2>2, LeaveAllFields
  <2> QED BY <1>1, <2>1, <2>3
<1>6. CASE m.type = "kick"
  <2>1. Handle(m) = IF m.who \in Bot THEN BotJoin(View, m.chan)
                    ELSE IF m.who \in known THEN Leave(View, m.who, m.chan) ELSE View
    BY <1>6 DEF Handle
  <2>2. m.chan \in Channel
    BY <1>6, MessageFields
  <2>3. Fine(View, BotJoin(View, m.chan))
    BY <1>0, <2>2, BotJoinFine
  <2>4. m.who \in known => Fine(View, Leave(View, m.who, m.chan))
    BY <1>0, <2>2, LeaveFine
  <2> QED BY <1>1, <2>1, <2>3, <2>4
<1>7. CASE m.type = "sjoin"
  <2>1. Handle(m) = SJoin(View, m.chan, m.who)
    BY <1>7 DEF Handle
  <2>2. m.chan \in Channel /\ m.who \in Seq(User)
    BY <1>7, MessageFields
  <2>3. Fine(View, SJoin(View, m.chan, m.who))
    BY <1>0, <2>2, SJoinFine
  <2> QED BY <2>1, <2>3
<1>8. CASE m.type = "op"
  <2>1. Handle(m) = AddOp(View, m.who, m.chan, FALSE)
    BY <1>8 DEF Handle
  <2>2. m.chan \in Channel /\ m.who \in User
    BY <1>8, MessageFields
  <2>3. Fine(View, AddOp(View, m.who, m.chan, FALSE))
    BY <1>0, <1>2, <2>2, AddOpFine, ZenonT(30)
  <2> QED BY <2>1, <2>3
<1>9. CASE m.type = "servop"
  <2>1. Handle(m) = AddOp(View, m.who, m.chan, TRUE)
    BY <1>9 DEF Handle
  <2>2. m.chan \in Channel /\ m.who \in User
    BY <1>9, MessageFields
  <2>3. Fine(View, AddOp(View, m.who, m.chan, TRUE))
    BY <1>0, <1>2, <2>2, AddOpFine, ZenonT(30)
  <2> QED BY <2>1, <2>3
<1>10. CASE m.type = "deop"
  <2>1. Handle(m) = IF m.who \in known THEN SetOp(View, m.who, m.chan, FALSE) ELSE View
    BY <1>10 DEF Handle
  <2>2. m.chan \in Channel /\ m.who \in User
    BY <1>10, MessageFields
  <2>3. Fine(View, SetOp(View, m.who, m.chan, FALSE))
    BY <1>0, <1>2, <2>2, SetOpFine, ZenonT(30)
  <2> QED BY <1>1, <2>1, <2>3
<1>11. CASE m.type = "quit"
  <2>1. Handle(m) = IF m.who \in known THEN DeleteUser(View, m.who) ELSE View
    BY <1>11 DEF Handle
  <2>2. m.who \in User
    BY <1>11, MessageFields
  <2>3. Fine(View, DeleteUser(View, m.who))
    BY <1>0, <2>2, DeleteUserFields
  <2> QED BY <1>1, <2>1, <2>3
<1> QED BY <1>3, <1>4, <1>5, <1>6, <1>7, <1>8, <1>9, <1>10, <1>11 DEF FromNetwork

-----------------------------------------------------------------------------
(* The steps of services that change the records.                          *)

KicksUsers(s) == \A m : Has(s, m) /\ m.type = "kick" => m.who \in User

\* What such a step makes of the records, and sends.
Told(w) == Good(w) /\ BotsTold(View, w) /\ KicksUsers(w.out)

FromNet == \A i \in DOMAIN uplink : uplink[i].type \in FromNetwork
CInv == TypeOK /\ FromNet /\ Good(View)

RecordsStep == \E w : Told(w) /\ Becomes(w)

LEMMA ViewTold ==
  ASSUME TypeOK, Good(View)
  PROVE  Told(View) /\ \A w : Fine(View, w) => Told(w)
<1>1. \A m : ~Has(View.out, m)
  BY ViewFields DEF Has
<1>2. BotsTold(View, View)
  BY <1>1 DEF BotsTold, BotTold
<1>3. ASSUME NEW w, Fine(View, w) PROVE Told(w)
  <2>1. Good(w) /\ BotsTold(View, w) /\ Grows(View, w)
    BY <1>2, <1>3 DEF Fine
  <2>2. KicksUsers(w.out)
    BY <1>1, <2>1 DEF Grows, Due, KicksUsers
  <2> QED BY <2>1, <2>2 DEF Told
<1>4. KicksUsers(View.out)
  BY <1>1 DEF KicksUsers
<1> QED BY <1>2, <1>3, <1>4 DEF Told

\* A message is sent before the records are changed.
LEMMA SendTold ==
  ASSUME NEW m \in Message, TypeOK, Good(View), m.type \in {"kick", "deop", "op", "kill"},
         m.type = "kick" => m.who \in User
  PROVE  LET v == Send(View, m) IN
         /\ v.known = known /\ v.users = users /\ v.chans = chans
         /\ Good(v)
         /\ \A w : Fine(v, w) => Told(w)
<1> DEFINE v == Send(View, m)
<1>1. /\ v \in ViewRec
      /\ v.known = known /\ v.users = users /\ v.chans = chans
      /\ Sends(View, v, m) /\ v.users = View.users
  BY ViewFields, SendFields DEF Sends
<1>2. Good(v)
  BY <1>1, ViewFields DEF Good, Mirrors
<1>3. BotsTold(View, v)
  <2>1. m.type \notin {"botpart", "botjoin"}
    OBVIOUS
  <2>2. BotSteps(View, v)
    <3> HIDE DEF v
    <3> QED BY <1>1, <2>1, QuietStep
  <2>3. BotsTold(View, View) /\ View \in ViewRec /\ BotTyped
    BY ViewTold, ViewFields DEF Told
  <2> HIDE DEF v
  <2> QED BY <2>2, <2>3, ToldStep
<1>4. KicksUsers(v.out)
  <2>1. v.out = Append(View.out, m) /\ View.out \in Seq(Message)
    BY <1>1, ViewFields DEF Sends, ViewRec
  <2>2. \A x : Has(v.out, x) <=> Has(View.out, x) \/ x = m
    BY <2>1, AppendHas
  <2>3. \A x : ~Has(View.out, x)
    BY ViewFields DEF Has
  <2> QED BY <2>2, <2>3 DEF KicksUsers
<1> HIDE DEF v
<1>5. ASSUME NEW w, Fine(v, w) PROVE Told(w)
  <2>1. Good(w) /\ BotsTold(View, w) /\ Grows(v, w)
    BY <1>3, <1>5 DEF Fine
  <2>2. KicksUsers(w.out)
    BY <1>4, <2>1 DEF Grows, Due, KicksUsers
  <2> QED BY <2>1, <2>2 DEF Told
<1> QED BY <1>1, <1>2, <1>5 DEF v

LEMMA HeadIsMessage ==
  ASSUME CInv, uplink # <<>>
  PROVE  Head(uplink) \in Message /\ Head(uplink).type \in FromNetwork /\ Head(uplink) = uplink[1]
<1>1. uplink \in Seq(Message)
  BY DEF CInv, TypeOK
<1>2. 1 \in DOMAIN uplink /\ Head(uplink) = uplink[1] /\ uplink[1] \in Message
  BY <1>1
<1> QED BY <1>2 DEF CInv, FromNet

LEMMA ReceiveTold ==
  ASSUME CInv, Receive
  PROVE  RecordsStep
<1>1. Fine(View, Handle(Head(uplink)))
  BY HeadIsMessage, HandleFine DEF Receive, CInv
<1>2. Told(Handle(Head(uplink)))
  BY <1>1, ViewTold DEF CInv
<1> QED BY <1>2 DEF Receive, RecordsStep

LEMMA CsKickTold ==
  ASSUME CInv, NEW u \in User, NEW c \in Channel, CsKick(u, c)
  PROVE  RecordsStep
<1> DEFINE m == To("kick", c, u)
           v == Send(View, m)
<1>1. m \in Message
  BY KickMessage DEF Member
<1>2. m.type = "kick" /\ m.who = u
  BY DEF To
<1>3. Good(v) /\ \A w : Fine(v, w) => Told(w)
  <2> HIDE DEF m
  <2> QED BY <1>1, <1>2, SendTold DEF CInv
<1>4. BotTyped
  BY ViewFields DEF CInv
<1> HIDE DEF v
<1>5. Told(Leave(v, u, c))
  BY <1>3, <1>4, LeaveFine
<1> QED BY <1>5 DEF CsKick, RecordsStep, v, m

LEMMA CsDeopTold ==
  ASSUME CInv, NEW u \in User, NEW c \in Channel, CsDeop(u, c)
  PROVE  RecordsStep
<1> DEFINE m == To("deop", c, u)
           v == Send(View, m)
<1>1. m \in Message
  BY UserMessage
<1>2. m.type = "deop"
  BY DEF To
<1>3. Good(v) /\ \A w : Fine(v, w) => Told(w)
  <2> HIDE DEF m
  <2> QED BY <1>1, <1>2, SendTold DEF CInv
<1>4. BotTyped
  BY ViewFields DEF CInv
<1> HIDE DEF v
<1>5. Told(SetOp(v, u, c, FALSE))
  <2>1. Fine(v, SetOp(v, u, c, FALSE))
    BY <1>3, <1>4, SetOpFine, ZenonT(30)
  <2> QED BY <1>3, <2>1
<1> QED BY <1>5 DEF CsDeop, RecordsStep, v, m

LEMMA CsOpTold ==
  ASSUME CInv, NEW u \in User, NEW c \in Channel, CsOp(u, c)
  PROVE  RecordsStep
<1> DEFINE m == To("op", c, u)
           v == Send(View, m)
<1>1. m \in Message
  BY UserMessage
<1>2. m.type = "op"
  BY DEF To
<1>3. Good(v) /\ \A w : Fine(v, w) => Told(w)
  <2> HIDE DEF m
  <2> QED BY <1>1, <1>2, SendTold DEF CInv
<1>4. BotTyped
  BY ViewFields DEF CInv
<1> HIDE DEF v
<1>5. Told(AddOp(v, u, c, FALSE))
  <2>1. Fine(v, AddOp(v, u, c, FALSE))
    BY <1>3, <1>4, AddOpFine, ZenonT(30)
  <2> QED BY <1>3, <2>1
<1> QED BY <1>5 DEF CsOp, RecordsStep, v, m

LEMMA KillTold ==
  ASSUME CInv, NEW u \in User, Kill(u)
  PROVE  RecordsStep
<1> DEFINE m == [type |-> "kill", who |-> u]
           v == Send(View, m)
<1>1. m \in Message
  BY GoneMessage
<1>3. Good(v) /\ \A w : Fine(v, w) => Told(w)
  <2>1. m.type = "kill"
    OBVIOUS
  <2> HIDE DEF m
  <2> QED BY <1>1, <2>1, SendTold DEF CInv
<1>4. BotTyped
  BY ViewFields DEF CInv
<1> HIDE DEF v
<1>5. Told(DeleteUser(v, u))
  BY <1>3, <1>4, DeleteUserFields
<1> QED BY <1>5 DEF Kill, RecordsStep, v, m

LEMMA EmptyCount ==
  ASSUME NEW X
  PROVE  Count(<<>>, X) = 0
<1>1. {i \in DOMAIN <<>> : <<>>[i] \in X} = {}
  OBVIOUS
<1> QED BY <1>1, FS_EmptySet DEF Count

LEMMA InitHolds ==
  ASSUME Init
  PROVE  CInv
<1>1. <<>> \in Seq(Message) /\ <<>> \in Seq(User) /\ <<>> \in Seq(ChanEntry) /\ 0 \in 0..MaxEvents
  BY BoundsAreNat
<1>2. TypeOK
  BY <1>1 DEF Init, TypeOK
<1>3. FromNet
  BY DEF Init, FromNet
<1>4. Mirrors(View)
  <2>1. \A u \in User, c \in Channel : View.users[c] = <<>> /\ View.chans[u] = <<>>
    BY DEF Init, View
  <2>2. ASSUME NEW u \in User, NEW c \in Channel
        PROVE  Count(View.users[c], {u}) = Count(View.chans[u], ChanOf(c))
    <3>1. Count(<<>>, {u}) = 0 /\ Count(<<>>, ChanOf(c)) = 0
      BY EmptyCount
    <3> QED BY <2>1, <3>1
  <2>3. ASSUME NEW u \in User PROVE u \notin View.known => View.chans[u] = <<>>
    BY DEF Init, View
  <2> QED BY <2>2, <2>3 DEF Mirrors
<1>5. View \in ViewRec
  BY <1>2, ViewFields
<1> QED BY <1>2, <1>3, <1>4, <1>5 DEF CInv, Good

\* The records after a step that changes them.
LEMMA RecordsKept ==
  ASSUME CInv, RecordsStep
  PROVE  /\ known' \subseteq User
         /\ users' \in [Channel -> Seq(User)]
         /\ chans' \in [User -> Seq(ChanEntry)]
         /\ downlink' \in Seq(Message)
         /\ Mirrors(View)'
<1>1. PICK w : Told(w) /\ Becomes(w)
  BY DEF RecordsStep
<1>2. w \in ViewRec /\ Mirrors(w)
  BY <1>1 DEF Told, Good
<1>3. downlink' \in Seq(Message)
  <2>1. w.out \in Seq(Message) /\ downlink \in Seq(Message) /\ downlink' = downlink \o w.out
    BY <1>1, <1>2 DEF ViewRec, CInv, TypeOK, Becomes
  <2> QED BY <2>1
<1>4. known' = w.known /\ users' = w.users /\ chans' = w.chans
  BY <1>1 DEF Becomes
<1>5. Mirrors(View)'
  <2>1. View'.known = w.known /\ View'.users = w.users /\ View'.chans = w.chans
    BY <1>4 DEF View
  <2> QED BY <1>2, <2>1 DEF Mirrors
<1> QED BY <1>2, <1>3, <1>4, <1>5 DEF ViewRec

\* The records are left alone.
LEMMA RecordsAlone ==
  ASSUME CInv, UNCHANGED records
  PROVE  Mirrors(View)'
<1>1. View'.known = View.known /\ View'.users = View.users /\ View'.chans = View.chans
  BY DEF View, records
<1> QED BY <1>1 DEF CInv, Good, Mirrors

\* A message the network tells services.
LEMMA TellKept ==
  ASSUME CInv, NEW m \in Message, m.type \in FromNetwork, Tell(m)
  PROVE  uplink' \in Seq(Message) /\ FromNet'
<1>1. uplink \in Seq(Message) /\ uplink' = Append(uplink, m)
  BY DEF CInv, TypeOK, Tell
<1> DEFINE t == Append(uplink, m)
<1>2. /\ t \in Seq(Message)
      /\ DOMAIN uplink = 1..Len(uplink) /\ Len(uplink) \in Nat /\ DOMAIN t = 1..(Len(uplink) + 1)
      /\ \A i \in 1..Len(uplink) : t[i] = uplink[i]
      /\ t[Len(uplink) + 1] = m
  BY <1>1
<1> HIDE DEF t
<1>3. \A i \in DOMAIN t : t[i].type \in FromNetwork
  BY <1>2 DEF CInv, FromNet
<1>4. uplink' = t
  BY <1>1 DEF t
<1> QED BY <1>2, <1>3, <1>4 DEF FromNet

LEMMA ReceiveLeaves ==
  ASSUME CInv, Receive
  PROVE  /\ uplink' \in Seq(Message) /\ FromNet'
         /\ DOMAIN uplink' = 1..(Len(uplink) - 1)
         /\ \A i \in DOMAIN uplink' : i + 1 \in DOMAIN uplink /\ uplink'[i] = uplink[i + 1]
<1>1. uplink \in Seq(Message) /\ uplink # <<>> /\ uplink' = Tail(uplink)
  BY DEF CInv, TypeOK, Receive
<1> DEFINE t == Tail(uplink)
<1>2. /\ t \in Seq(Message)
      /\ DOMAIN uplink = 1..Len(uplink) /\ Len(uplink) \in Nat
      /\ DOMAIN t = 1..(Len(uplink) - 1)
      /\ \A i \in 1..(Len(uplink) - 1) : t[i] = uplink[i + 1]
  BY <1>1
<1> HIDE DEF t
<1>3. \A i \in DOMAIN t : i + 1 \in DOMAIN uplink /\ t[i] = uplink[i + 1]
  BY <1>2
<1>4. \A i \in DOMAIN t : t[i].type \in FromNetwork
  BY <1>3 DEF CInv, FromNet
<1>5. uplink' = t
  BY <1>1 DEF t
<1> QED BY <1>2, <1>3, <1>4, <1>5 DEF FromNet

LEMMA DeliverLeaves ==
  ASSUME CInv, Deliver
  PROVE  /\ downlink' \in Seq(Message)
         /\ DOMAIN downlink' = 1..(Len(downlink) - 1)
         /\ \A i \in DOMAIN downlink' : i + 1 \in DOMAIN downlink /\ downlink'[i] = downlink[i + 1]
         /\ Head(downlink) = downlink[1] /\ 1 \in DOMAIN downlink /\ Head(downlink) \in Message
<1>1. downlink \in Seq(Message) /\ downlink # <<>> /\ downlink' = Tail(downlink)
  BY DEF CInv, TypeOK, Deliver
<1> DEFINE t == Tail(downlink)
<1>2. /\ t \in Seq(Message)
      /\ DOMAIN downlink = 1..Len(downlink) /\ Len(downlink) \in Nat
      /\ DOMAIN t = 1..(Len(downlink) - 1)
      /\ \A i \in 1..(Len(downlink) - 1) : t[i] = downlink[i + 1]
      /\ Head(downlink) = downlink[1] /\ 1 \in DOMAIN downlink /\ downlink[1] \in Message
  BY <1>1
<1> HIDE DEF t
<1>3. \A i \in DOMAIN t : i + 1 \in DOMAIN downlink /\ t[i] = downlink[i + 1]
  BY <1>2
<1>5. downlink' = t
  BY <1>1 DEF t
<1> QED BY <1>2, <1>3, <1>5

LEMMA ServicesKeep ==
  ASSUME CInv, Services
  PROVE  CInv'
<1> USE DEF CInv
<1>1. BoundsAreNat /\ events \in 0..MaxEvents
  BY BoundsAreNat DEF TypeOK
<1>2. ASSUME Command PROVE events' \in 0..MaxEvents /\ uplink' = uplink /\ UNCHANGED network
  BY <1>1, <1>2 DEF Command
<1>3. ASSUME TypeOK', FromNet', Mirrors(View)' PROVE CInv'
  <2>1. View' \in ViewRec
    <3>1. <<>> \in Seq(Message)
      OBVIOUS
    <3> QED BY <1>3, <3>1 DEF TypeOK, View, ViewRec
  <2> QED BY <1>3, <2>1 DEF Good
<1>4. CASE Receive
  <2>1. RecordsStep
    BY <1>4, ReceiveTold
  <2>2. TypeOK'
    BY <1>4, <2>1, RecordsKept, ReceiveLeaves DEF TypeOK, Receive, network
  <2>3. FromNet' /\ Mirrors(View)'
    BY <1>4, <2>1, RecordsKept, ReceiveLeaves
  <2> QED BY <1>3, <2>2, <2>3
<1>5. ASSUME Command, RecordsStep, UNCHANGED bot PROVE CInv'
  <2>1. TypeOK'
    BY <1>2, <1>5, RecordsKept DEF TypeOK, network
  <2>2. FromNet'
    BY <1>2, <1>5 DEF FromNet
  <2>3. Mirrors(View)'
    BY <1>5, RecordsKept
  <2> QED BY <1>3, <2>1, <2>2, <2>3
<1>6. ASSUME NEW u \in User, NEW c \in Channel, CsKick(u, c) PROVE CInv'
  BY <1>5, <1>6, CsKickTold DEF CsKick
<1>7. ASSUME NEW u \in User, NEW c \in Channel, CsDeop(u, c) PROVE CInv'
  BY <1>5, <1>7, CsDeopTold DEF CsDeop
<1>13. ASSUME NEW u \in User, NEW c \in Channel, CsOp(u, c) PROVE CInv'
  BY <1>5, <1>13, CsOpTold DEF CsOp
<1>8. ASSUME NEW u \in User, Kill(u) PROVE CInv'
  BY <1>5, <1>8, KillTold DEF Kill
<1>9. ASSUME Command, UNCHANGED records, bot' \in [Channel -> Bot \cup {NULL}],
             downlink' \in Seq(Message)
      PROVE  CInv'
  <2>1. TypeOK'
    BY <1>2, <1>9 DEF TypeOK, network, records
  <2>2. FromNet' /\ Mirrors(View)'
    BY <1>2, <1>9, RecordsAlone DEF FromNet
  <2> QED BY <1>3, <2>1, <2>2
<1>10. ASSUME NEW c \in Channel PROVE PartOfBot(c) \in Seq(Message)
  <2>1. bot[c] # NULL => To("botpart", c, bot[c]) \in Message
    BY BotMessage DEF TypeOK
  <2> QED BY <2>1 DEF PartOfBot
<1>11. ASSUME NEW b \in Bot, NEW c \in Channel, Assign(b, c) PROVE CInv'
  <2> DEFINE j == IF UserCount(View, c) >= BSMinUsers THEN <<To("botjoin", c, b)>> ELSE <<>>
  <2>1. j \in Seq(Message)
    BY BotMessage
  <2>2. downlink' = downlink \o PartOfBot(c) \o j
    BY <1>11 DEF Assign
  <2> HIDE DEF j
  <2>3. downlink' \in Seq(Message)
    BY <1>10, <2>1, <2>2 DEF TypeOK
  <2>4. bot' \in [Channel -> Bot \cup {NULL}]
    BY <1>11 DEF Assign, TypeOK
  <2> QED BY <1>9, <1>11, <2>3, <2>4 DEF Assign
<1>12. ASSUME NEW c \in Channel, Unassign(c) PROVE CInv'
  <2>1. downlink' \in Seq(Message)
    BY <1>10, <1>12 DEF TypeOK, Unassign
  <2>2. bot' \in [Channel -> Bot \cup {NULL}]
    BY <1>12 DEF Unassign, TypeOK
  <2> QED BY <1>9, <1>12, <2>1, <2>2 DEF Unassign
<1> QED BY <1>4, <1>6, <1>7, <1>8, <1>11, <1>12, <1>13 DEF Services

LEMMA ListIsSeq ==
  ASSUME NEW l \in Lists
  PROVE  l \in Seq(User) /\ l[1] \in User /\ Range(l) \subseteq User
<1>1. CASE l \in {<<u>> : u \in User}
  <2>1. PICK x \in User : l = <<x>>
    BY <1>1
  <2> QED BY <2>1 DEF Range
<1>2. CASE l \in {p \in User \X User : p[1] # p[2]}
  <2>1. PICK x \in User, y \in User : l = <<x, y>>
    BY <1>2
  <2> QED BY <2>1 DEF Range
<1> QED BY <1>1, <1>2 DEF Lists

LEMMA NetworkKeeps ==
  ASSUME CInv, Network
  PROVE  CInv'
<1> USE DEF CInv
<1>1. ASSUME online' \subseteq User, on' \in [Channel -> SUBSET Member],
             ops' \in [Channel -> SUBSET User], uplink' \in Seq(Message), FromNet',
             downlink' \in Seq(Message), events' \in 0..MaxEvents, UNCHANGED <<records, bot>>
      PROVE  CInv'
  <2>1. TypeOK'
    BY <1>1 DEF TypeOK, records
  <2>2. Mirrors(View)'
    BY <1>1, RecordsAlone
  <2>3. View' \in ViewRec
    <3>1. <<>> \in Seq(Message)
      OBVIOUS
    <3> QED BY <2>1, <3>1 DEF TypeOK, View, ViewRec
  <2> QED BY <1>1, <2>1, <2>2, <2>3 DEF Good
<1>2. events \in 0..MaxEvents /\ online \subseteq User /\ on \in [Channel -> SUBSET Member]
      /\ ops \in [Channel -> SUBSET User]
  BY DEF TypeOK
<1>3. ASSUME NEW x, NEW c, Off(x, c)
      PROVE  on' \in [Channel -> SUBSET Member] /\ ops' \in [Channel -> SUBSET User]
  BY <1>2, <1>3 DEF Off
<1>4. ASSUME NEW x, OffAll(x)
      PROVE  on' \in [Channel -> SUBSET Member] /\ ops' \in [Channel -> SUBSET User]
  BY <1>2, <1>4 DEF OffAll
<1>5. CASE Deliver
  <2>1. downlink' \in Seq(Message) /\ Head(downlink) \in Message
    BY <1>5, DeliverLeaves
  <2> DEFINE m == Head(downlink)
  <2>2. Obey(m) /\ uplink' = uplink /\ events' = events /\ UNCHANGED <<records, bot>>
    BY <1>5 DEF Deliver
  <2>3. uplink' \in Seq(Message) /\ FromNet'
    BY <2>2 DEF TypeOK, FromNet
  <2> HIDE DEF m
  <2>4. m \in Message
    BY <2>1 DEF m
  <2>5. online' \subseteq User /\ on' \in [Channel -> SUBSET Member] /\ ops' \in [Channel -> SUBSET User]
    <3>1. CASE m.type = "kick" /\ Off(m.who, m.chan) /\ UNCHANGED online
      BY <1>2, <1>3, <3>1
    <3>2. CASE m.type = "deop" /\ ops' = [ops EXCEPT ![m.chan] = @ \ {m.who}] /\ UNCHANGED <<online, on>>
      BY <1>2, <3>2
    <3>6. CASE m.type = "op" /\ ops' = [ops EXCEPT ![m.chan] = @ \cup ({m.who} \cap on[m.chan])] /\ UNCHANGED <<online, on>>
      <4>1. m.who \in User
        BY <2>4, <3>6, MessageFields
      <4> QED BY <1>2, <3>6, <4>1
    <3>3. CASE m.type = "kill" /\ online' = online \ {m.who} /\ OffAll(m.who)
      BY <1>2, <1>4, <3>3
    <3>4. CASE m.type = "botjoin" /\ on' = [on EXCEPT ![m.chan] = @ \cup {m.who}] /\ UNCHANGED <<online, ops>>
      <4>1. m.who \in Member
        BY <2>4, <3>4, MessageFields DEF Member
      <4> QED BY <1>2, <3>4, <4>1
    <3>5. CASE m.type = "botpart" /\ Off(m.who, m.chan) /\ UNCHANGED online
      BY <1>2, <1>3, <3>5
    <3> QED BY <2>2, <3>1, <3>2, <3>3, <3>4, <3>5, <3>6 DEF Obey
  <2>6. events' \in 0..MaxEvents
    BY <1>2, <2>2
  <2> QED BY <1>1, <2>1, <2>2, <2>3, <2>5, <2>6
<1>6. ASSUME Event, NEW m \in Message, m.type \in FromNetwork, Tell(m),
             online' \subseteq User, on' \in [Channel -> SUBSET Member],
             ops' \in [Channel -> SUBSET User]
      PROVE  CInv'
  <2>1. uplink' \in Seq(Message) /\ FromNet'
    BY <1>6, TellKept
  <2>2. events' \in 0..MaxEvents /\ downlink' = downlink /\ UNCHANGED <<records, bot>>
    BY <1>2, <1>6, BoundsAreNat DEF Event
  <2>3. downlink' \in Seq(Message)
    BY <2>2 DEF TypeOK
  <2> QED BY <1>1, <1>6, <2>1, <2>2, <2>3
<1>7. ASSUME NEW t \in {"join", "part", "deop", "op", "servop"}, NEW u \in User, NEW c \in Channel
      PROVE  To(t, c, u) \in Message /\ To(t, c, u).type \in FromNetwork
  <2>1. To(t, c, u) \in Message
    BY UserMessage
  <2> QED BY <2>1 DEF To, FromNetwork
<1>8. ASSUME NEW u \in User, NEW c \in Channel, NetJoin(u, c) PROVE CInv'
  <2>1. on' \in [Channel -> SUBSET Member] /\ online' = online /\ ops' = ops
    BY <1>2, <1>8 DEF NetJoin, Member
  <2> QED BY <1>2, <1>6, <1>7, <1>8, <2>1 DEF NetJoin
<1>9. ASSUME NEW u \in User, NEW c \in Channel, NetPart(u, c) PROVE CInv'
  BY <1>2, <1>3, <1>6, <1>7, <1>9 DEF NetPart
<1>10. ASSUME NEW u \in User, NEW c \in Channel, NetOp(u, c) PROVE CInv'
  <2>1. ops' \in [Channel -> SUBSET User] /\ online' = online /\ on' = on
    BY <1>2, <1>10 DEF NetOp
  <2>2. Tell(To("op", c, u)) \/ Tell(To("servop", c, u))
    BY <1>10 DEF NetOp
  <2> QED BY <1>2, <1>6, <1>7, <1>10, <2>1, <2>2 DEF NetOp
<1>11. ASSUME NEW u \in User, NEW c \in Channel, NetDeop(u, c) PROVE CInv'
  <2>1. ops' \in [Channel -> SUBSET User] /\ online' = online /\ on' = on
    BY <1>2, <1>11 DEF NetDeop
  <2> QED BY <1>2, <1>6, <1>7, <1>11, <2>1 DEF NetDeop
<1>12. ASSUME NEW l \in Lists, NEW c \in Channel, NetSJoin(l, c) PROVE CInv'
  <2>1. l \in Seq(User) /\ l[1] \in User /\ Range(l) \subseteq User
    BY ListIsSeq
  <2> DEFINE m == To("sjoin", c, l)
  <2>2. m \in Message
    BY <2>1, BurstMessage
  <2>3. m.type \in FromNetwork
    BY DEF To, FromNetwork
  <2>4. on' = [on EXCEPT ![c] = Range(l)] /\ ops' = [ops EXCEPT ![c] = {l[1]}] /\ online' = online
    BY <1>12 DEF NetSJoin
  <2>5. on' \in [Channel -> SUBSET Member] /\ ops' \in [Channel -> SUBSET User]
    BY <1>2, <2>1, <2>4 DEF Member
  <2>6. Event /\ Tell(m)
    BY <1>12 DEF NetSJoin
  <2> HIDE DEF m
  <2> QED BY <1>2, <1>6, <2>2, <2>3, <2>4, <2>5, <2>6
<1>13. ASSUME NEW t \in {"quit", "part0"}, NEW u \in User
       PROVE  [type |-> t, who |-> u] \in Message /\ [type |-> t, who |-> u].type \in FromNetwork
  BY GoneMessage DEF FromNetwork
<1>14. ASSUME NEW u \in User, NetPartAll(u) PROVE CInv'
  BY <1>2, <1>4, <1>6, <1>13, <1>14 DEF NetPartAll
<1>15. ASSUME NEW u \in User, NetQuit(u) PROVE CInv'
  BY <1>2, <1>4, <1>6, <1>13, <1>15 DEF NetQuit
<1>16. ASSUME NEW x \in Member, NEW c \in Channel, NetKick(x, c) PROVE CInv'
  <2>1. To("kick", c, x) \in Message
    BY KickMessage
  <2>2. To("kick", c, x).type \in FromNetwork
    BY DEF To, FromNetwork
  <2> QED BY <1>2, <1>3, <1>6, <1>16, <2>1, <2>2 DEF NetKick
<1> QED BY <1>5, <1>8, <1>9, <1>10, <1>11, <1>12, <1>14, <1>15, <1>16 DEF Network

-----------------------------------------------------------------------------
(* Both lists.                                                             *)

LEMMA StutterKeeps ==
  ASSUME CInv, UNCHANGED vars
  PROVE  CInv'
<1>1. TypeOK' /\ FromNet'
  BY DEF CInv, TypeOK, FromNet, vars
<1>2. Mirrors(View)'
  BY RecordsAlone DEF vars, records
<1>3. View' \in ViewRec
  <2>1. View' = View
    BY DEF View, vars
  <2> QED BY <2>1 DEF CInv, Good
<1> QED BY <1>1, <1>2, <1>3 DEF CInv, Good

THEOREM Invariance == Spec => []CInv
<1>1. Init => CInv
  BY InitHolds
<1>2. CInv /\ [Next]_vars => CInv'
  <2> SUFFICES ASSUME CInv, [Next]_vars PROVE CInv'
    OBVIOUS
  <2>1. CASE Services
    BY <2>1, ServicesKeep
  <2>2. CASE Network
    BY <2>2, NetworkKeeps
  <2>3. CASE UNCHANGED vars
    BY <2>3, StutterKeeps
  <2> QED BY <2>1, <2>2, <2>3 DEF Next
<1> QED BY <1>1, <1>2, PTL DEF Spec

LEMMA TimesOfUser ==
  ASSUME NEW u, NEW s
  PROVE  Times(u, s, LAMBDA x, y : x = y) = Count(s, {u})
<1>1. {i \in DOMAIN s : s[i] = u} = {i \in DOMAIN s : s[i] \in {u}}
  OBVIOUS
<1> QED BY <1>1 DEF Times, Count

LEMMA TimesOfChan ==
  ASSUME NEW c, NEW s \in Seq(ChanEntry)
  PROVE  Times(c, s, LAMBDA x, y : x.chan = y) = Count(s, ChanOf(c))
<1>1. \A i \in DOMAIN s : s[i] \in ChanEntry
  OBVIOUS
<1>2. {i \in DOMAIN s : s[i].chan = c} = {i \in DOMAIN s : s[i] \in ChanOf(c)}
  BY <1>1 DEF ChanOf
<1> QED BY <1>2 DEF Times, Count

\* However many users, channels and messages: c->users and user->chans name
\* each other equally often, and who has no record is on no list
\* (chan_adduser2(), chan_deluser(), delete_user(); channels.c, users.c).
THEOREM ListsAgree == Spec => []ListsMirror
<1>1. CInv => ListsMirror
  <2> SUFFICES ASSUME CInv PROVE ListsMirror
    OBVIOUS
  <2>1. TypeOK /\ Mirrors(View) /\ View.known = known /\ View.users = users /\ View.chans = chans
    BY ViewFields DEF CInv, Good
  <2>2. ASSUME NEW u \in User, NEW c \in Channel
        PROVE  /\ Times(u, users[c], LAMBDA x, y : x = y) =
                      Times(c, chans[u], LAMBDA x, y : x.chan = y)
               /\ u \notin known => chans[u] = <<>>
    <3>1. Count(users[c], {u}) = Count(chans[u], ChanOf(c)) /\ (u \notin known => chans[u] = <<>>)
      BY <2>1 DEF Mirrors
    <3>2. chans[u] \in Seq(ChanEntry)
      BY <2>1 DEF TypeOK
    <3>3. Times(u, users[c], LAMBDA x, y : x = y) = Count(users[c], {u})
      BY TimesOfUser
    <3>4. Times(c, chans[u], LAMBDA x, y : x.chan = y) = Count(chans[u], ChanOf(c))
      BY <3>2, TimesOfChan
    <3> QED BY <3>1, <3>3, <3>4
  <2> QED BY <2>1, <2>2 DEF ListsMirror
<1> QED BY <1>1, Invariance, PTL

-----------------------------------------------------------------------------
(* The bots.                                                               *)

LEMMA ConcatHas ==
  ASSUME NEW s \in Seq(Message), NEW t \in Seq(Message)
  PROVE  /\ s \o t \in Seq(Message)
         /\ \A x : Has(s \o t, x) <=> Has(s, x) \/ Has(t, x)
         /\ \A j, p : Ends(t, j, p) => Ends(s \o t, j, p)
         /\ \A j, p : Ends(s, j, p) /\ ~Has(t, p) => Ends(s \o t, j, p)
<1> DEFINE r == s \o t
           n == Len(s)
<1>1. /\ r \in Seq(Message) /\ n \in Nat /\ Len(t) \in Nat
      /\ DOMAIN s = 1..n /\ DOMAIN t = 1..Len(t) /\ DOMAIN r = 1..(n + Len(t))
      /\ \A i \in 1..n : r[i] = s[i]
      /\ \A i \in 1..(n + Len(t)) : i > n => r[i] = t[i - n]
  OBVIOUS
<1> HIDE DEF r, n
<1>2. \A i \in DOMAIN s : i \in DOMAIN r /\ r[i] = s[i]
  BY <1>1
<1>3. \A i \in DOMAIN t : i + n \in DOMAIN r /\ r[i + n] = t[i]
  <2> SUFFICES ASSUME NEW i \in DOMAIN t PROVE i + n \in DOMAIN r /\ r[i + n] = t[i]
    OBVIOUS
  <2>1. i \in Nat /\ i + n \in 1..(n + Len(t)) /\ i + n > n /\ (i + n) - n = i
    BY <1>1
  <2> QED BY <1>1, <2>1
<1>4. \A i \in DOMAIN r : i \in DOMAIN s \/ (i - n \in DOMAIN t /\ r[i] = t[i - n] /\ i > n)
  BY <1>1
<1>5. \A x : Has(r, x) <=> Has(s, x) \/ Has(t, x)
  BY <1>2, <1>3, <1>4 DEF Has
<1>6. ASSUME NEW j, NEW p, Ends(t, j, p) PROVE Ends(r, j, p)
  <2>1. PICK i \in DOMAIN t : t[i] = j /\ \A k \in DOMAIN t : i < k => t[k] # p
    BY <1>6 DEF Ends
  <2>2. ASSUME NEW k \in DOMAIN r, i + n < k PROVE r[k] # p
    <3>1. k \notin DOMAIN s /\ i \in Nat /\ k \in Nat
      BY <1>1, <2>2
    <3>2. k - n \in DOMAIN t /\ r[k] = t[k - n]
      BY <1>4, <3>1
    <3>3. i < k - n
      BY <1>1, <2>2, <3>1
    <3> QED BY <2>1, <3>2, <3>3
  <2> QED BY <1>3, <2>1, <2>2 DEF Ends
<1>7. ASSUME NEW j, NEW p, Ends(s, j, p), ~Has(t, p) PROVE Ends(r, j, p)
  <2>1. PICK i \in DOMAIN s : s[i] = j /\ \A k \in DOMAIN s : i < k => s[k] # p
    BY <1>7 DEF Ends
  <2>2. ASSUME NEW k \in DOMAIN r, i < k PROVE r[k] # p
    BY <1>2, <1>4, <1>7, <2>1, <2>2 DEF Has
  <2> QED BY <1>2, <2>1, <2>2 DEF Ends
<1> QED BY <1>1, <1>5, <1>6, <1>7 DEF r

LEMMA HasCounts ==
  ASSUME NEW s \in Seq(Message), NEW t \in Seq(Message), NEW x, Has(t, x)
  PROVE  Count(s \o t, {x}) > Count(s, {x})
<1> DEFINE r == s \o t
           A == {i \in DOMAIN s : s[i] \in {x}}
           B == {i \in DOMAIN r : r[i] \in {x}}
<1>1. /\ Len(s) \in Nat /\ Len(t) \in Nat
      /\ DOMAIN s = 1..Len(s) /\ DOMAIN t = 1..Len(t) /\ DOMAIN r = 1..(Len(s) + Len(t))
      /\ \A i \in 1..Len(s) : r[i] = s[i]
      /\ \A i \in 1..(Len(s) + Len(t)) : i > Len(s) => r[i] = t[i - Len(s)]
  OBVIOUS
<1> HIDE DEF r
<1>2. PICK i \in DOMAIN t : t[i] = x
  BY DEF Has
<1>3. i + Len(s) \in DOMAIN r /\ r[i + Len(s)] = x /\ i + Len(s) \notin DOMAIN s
  <2>1. i \in Nat /\ i + Len(s) \in 1..(Len(s) + Len(t)) /\ i + Len(s) > Len(s)
        /\ (i + Len(s)) - Len(s) = i
    BY <1>1, <1>2
  <2> QED BY <1>1, <1>2, <2>1
<1>4. A \subseteq B
  BY <1>1
<1>5. A # B
  BY <1>3
<1>6. IsFiniteSet(B)
  <2>1. B \subseteq 1..(Len(s) + Len(t))
    BY <1>1
  <2>2. 1 \in Int /\ Len(s) + Len(t) \in Int
    BY <1>1
  <2> QED BY <2>1, <2>2, FS_Interval, FS_Subset
<1> HIDE DEF A, B
<1>7. Cardinality(A) < Cardinality(B)
  <2>1. Cardinality(A) <= Cardinality(B) /\ (Cardinality(A) = Cardinality(B) => A = B)
        /\ IsFiniteSet(A)
    BY <1>4, <1>6, FS_Subset
  <2>2. Cardinality(A) \in Nat /\ Cardinality(B) \in Nat
    BY <1>6, <2>1, FS_CardinalityType
  <2> QED BY <1>5, <2>1, <2>2
<1> QED BY <1>7 DEF Count, r, A, B

\* A PART for the bot, put behind what is on its way.
LEMMA MoreParts ==
  ASSUME NEW c, NEW s \in Seq(Message), NEW t \in Seq(Message), Has(t, PartBot(c))
  PROVE  Partings(PartBot(c), s \o t) > Partings(PartBot(c), s)
<1>1. \A r : Partings(PartBot(c), r) = Count(r, {PartBot(c)})
  <2> SUFFICES ASSUME NEW r PROVE Partings(PartBot(c), r) = Count(r, {PartBot(c)})
    OBVIOUS
  <2>1. {i \in DOMAIN r : r[i] = PartBot(c)} = {i \in DOMAIN r : r[i] \in {PartBot(c)}}
    OBVIOUS
  <2> QED BY <2>1 DEF Partings, Times, Count
<1>2. Count(s \o t, {PartBot(c)}) > Count(s, {PartBot(c)})
  BY HasCounts
<1> QED BY <1>1, <1>2

BotLeft(c) ==
    (/\ bot[c] # NULL /\ UserCount(View, c) >= BSMinUsers
     /\ Len(users'[c]) < BSMinUsers \/ bot'[c] # bot[c]) =>
        Partings(To("botpart", c, bot[c]), downlink') > Partings(To("botpart", c, bot[c]), downlink)

LEMMA RecordsStepBots ==
  ASSUME CInv, RecordsStep, UNCHANGED bot, NEW c \in Channel
  PROVE  BotLeft(c)
<1> SUFFICES ASSUME bot[c] # NULL, Big(View, c), Len(users'[c]) < BSMinUsers
             PROVE  Partings(PartBot(c), downlink') > Partings(PartBot(c), downlink)
  BY DEF BotLeft, Big, PartBot
<1>1. PICK w : Told(w) /\ Becomes(w)
  BY DEF RecordsStep
<1>2. w \in ViewRec /\ BotsTold(View, w)
  BY <1>1 DEF Told, Good
<1>3. ~Big(w, c)
  <2>1. w.users[c] = users'[c] /\ Len(w.users[c]) \in Nat
    BY <1>1, <1>2 DEF Becomes, ViewRec
  <2> QED BY <2>1, MinUsersIsPositive DEF Big, UserCount
<1>4. Has(w.out, PartBot(c))
  BY <1>2, <1>3 DEF BotsTold, BotTold
<1>5. downlink \in Seq(Message) /\ w.out \in Seq(Message) /\ downlink' = downlink \o w.out
  BY <1>1, <1>2 DEF CInv, TypeOK, ViewRec, Becomes
<1> QED BY <1>4, <1>5, MoreParts

LEMMA RecordsAloneBots ==
  ASSUME CInv, UNCHANGED <<records, bot>>, NEW c \in Channel
  PROVE  BotLeft(c)
<1>1. users'[c] = users[c] /\ bot' = bot /\ UserCount(View, c) = Len(users[c]) /\ Len(users[c]) \in Nat
  BY ViewFields DEF records, UserCount, CInv, TypeOK
<1> QED BY <1>1, MinUsersIsPositive DEF BotLeft

LEMMA GivenBots ==
  ASSUME CInv, NEW c \in Channel, UNCHANGED records, NEW t \in Seq(Message),
         downlink' = downlink \o PartOfBot(c) \o t,
         \A d \in Channel \ {c} : bot'[d] = bot[d]
  PROVE  \A d \in Channel : BotLeft(d)
<1> SUFFICES ASSUME NEW d \in Channel PROVE BotLeft(d)
  OBVIOUS
<1>1. users'[d] = users[d] /\ UserCount(View, d) = Len(users[d]) /\ Len(users[d]) \in Nat
  BY ViewFields DEF records, UserCount, CInv, TypeOK
<1>2. CASE d # c
  BY <1>1, <1>2, MinUsersIsPositive DEF BotLeft
<1>3. CASE d = c
  <2> SUFFICES ASSUME bot[c] # NULL, Big(View, c)
               PROVE  Partings(PartBot(c), downlink') > Partings(PartBot(c), downlink)
    BY <1>3 DEF BotLeft, Big, PartBot
  <2>1. PartOfBot(c) = <<PartBot(c)>>
    BY DEF PartOfBot, Big, PartBot
  <2>2. PartBot(c) \in Message /\ downlink \in Seq(Message)
    BY BotInMessage, ViewFields DEF CInv, TypeOK
  <2> DEFINE r == <<PartBot(c)>> \o t
  <2>3. r \in Seq(Message) /\ downlink' = downlink \o r
    BY <2>1, <2>2
  <2>4. <<PartBot(c)>> \in Seq(Message) /\ Has(<<PartBot(c)>>, PartBot(c))
    BY <2>2 DEF Has
  <2>5. Has(r, PartBot(c))
    BY <2>4, ConcatHas
  <2> HIDE DEF r
  <2> QED BY <2>2, <2>3, <2>5, MoreParts
<1> QED BY <1>2, <1>3

\* However a channel falls below BSMinUsers, by a message or a command, and
\* whatever bot it is given, the bot that was there is sent away
\* (chan_deluser(), do_assign(), unassign(); channels.c, botserv.c).
THEOREM BotsLeave == Spec => BotLeaves
<1>1. CInv /\ [Next]_vars => \A c \in Channel : BotLeft(c)
  <2> SUFFICES ASSUME CInv, [Next]_vars, NEW c \in Channel PROVE BotLeft(c)
    OBVIOUS
  <2>1. CASE UNCHANGED vars
    BY <2>1, RecordsAloneBots DEF vars, records
  <2>2. CASE Network
    <3>1. UNCHANGED <<records, bot>>
      BY <2>2 DEF Network, Deliver, Event, NetJoin, NetPart, NetOp, NetDeop, NetSJoin, NetPartAll,
                  NetQuit, NetKick
    <3> QED BY <3>1, RecordsAloneBots
  <2>3. CASE Services
    <3>1. CASE Receive
      BY <3>1, ReceiveTold, RecordsStepBots DEF Receive
    <3>2. ASSUME NEW u \in User, NEW d \in Channel, CsKick(u, d) PROVE BotLeft(c)
      BY <3>2, CsKickTold, RecordsStepBots DEF CsKick
    <3>3. ASSUME NEW u \in User, NEW d \in Channel, CsDeop(u, d) PROVE BotLeft(c)
      BY <3>3, CsDeopTold, RecordsStepBots DEF CsDeop
    <3>7. ASSUME NEW u \in User, NEW d \in Channel, CsOp(u, d) PROVE BotLeft(c)
      BY <3>7, CsOpTold, RecordsStepBots DEF CsOp
    <3>4. ASSUME NEW u \in User, Kill(u) PROVE BotLeft(c)
      BY <3>4, KillTold, RecordsStepBots DEF Kill
    <3>5. ASSUME NEW b \in Bot, NEW d \in Channel, Assign(b, d) PROVE BotLeft(c)
      <4> DEFINE j == IF UserCount(View, d) >= BSMinUsers THEN <<To("botjoin", d, b)>> ELSE <<>>
      <4>1. j \in Seq(Message)
        BY BotMessage
      <4>2. downlink' = downlink \o PartOfBot(d) \o j /\ UNCHANGED records
        BY <3>5 DEF Assign
      <4>3. \A e \in Channel \ {d} : bot'[e] = bot[e]
        BY <3>5 DEF Assign, CInv, TypeOK
      <4> HIDE DEF j
      <4> QED BY <4>1, <4>2, <4>3, GivenBots
    <3>6. ASSUME NEW d \in Channel, Unassign(d) PROVE BotLeft(c)
      <4>1. downlink' = downlink \o PartOfBot(d) /\ UNCHANGED records
        BY <3>6 DEF Unassign
      <4>2. downlink \o PartOfBot(d) = downlink \o PartOfBot(d) \o <<>> /\ <<>> \in Seq(Message)
        <5>1. PartOfBot(d) \in Seq(Message) /\ downlink \in Seq(Message)
          <6>1. bot[d] # NULL => To("botpart", d, bot[d]) \in Message
            BY BotMessage DEF CInv, TypeOK
          <6> QED BY <6>1 DEF PartOfBot, CInv, TypeOK
        <5> QED BY <5>1
      <4>3. \A e \in Channel \ {d} : bot'[e] = bot[e]
        BY <3>6 DEF Unassign, CInv, TypeOK
      <4> QED BY <4>1, <4>2, <4>3, GivenBots
    <3> QED BY <2>3, <3>1, <3>2, <3>3, <3>4, <3>5, <3>6, <3>7 DEF Services
  <2> QED BY <2>1, <2>2, <2>3 DEF Next
<1>2. (\A c \in Channel : BotLeft(c)) =>
        \A c \in Channel :
          (/\ bot[c] # NULL /\ UserCount(View, c) >= BSMinUsers
           /\ Len(users'[c]) < BSMinUsers \/ bot'[c] # bot[c]) =>
              Partings(To("botpart", c, bot[c]), downlink')
                > Partings(To("botpart", c, bot[c]), downlink)
  BY DEF BotLeft
<1> QED BY <1>1, <1>2, Invariance, PTL DEF Spec, BotLeaves

\* A bot that should be on c is there, or its JOIN is on the way, or services
\* will hear that it was kicked.
KickOfBot(c) ==
    \E i \in DOMAIN uplink :
        uplink[i].type = "kick" /\ uplink[i].chan = c /\ uplink[i].who \in Bot
BotThere(c) == bot[c] \in on[c] /\ ~Has(downlink, PartBot(c))
Placed(c) ==
    \/ Ends(downlink, JoinBot(c), PartBot(c))
    \/ BotThere(c)
    \/ KickOfBot(c)
ShouldBeThere(c) == bot[c] # NULL /\ Big(View, c)
BotsPlaced == KicksUsers(downlink) /\ \A c \in Channel : ShouldBeThere(c) => Placed(c)

LEMMA RecordsStepPlaces ==
  ASSUME CInv, BotsPlaced, Ignored = {}, NEW w, Told(w), Becomes(w), UNCHANGED <<bot, on>>,
         \A c \in Channel : bot[c] # NULL =>
             (KickOfBot(c) => KickOfBot(c)' \/ Ends(w.out, JoinBot(c), PartBot(c)))
  PROVE  BotsPlaced'
<1>1. w \in ViewRec /\ BotsTold(View, w) /\ KicksUsers(w.out)
  BY DEF Told, Good
<1>2. downlink \in Seq(Message) /\ w.out \in Seq(Message) /\ downlink' = downlink \o w.out
  BY <1>1 DEF CInv, TypeOK, ViewRec, Becomes
<1>3. /\ \A x : Has(downlink', x) <=> Has(downlink, x) \/ Has(w.out, x)
      /\ \A j, p : Ends(w.out, j, p) => Ends(downlink', j, p)
      /\ \A j, p : Ends(downlink, j, p) /\ ~Has(w.out, p) => Ends(downlink', j, p)
  BY <1>2, ConcatHas
<1>4. KicksUsers(downlink)'
  BY <1>1, <1>3 DEF KicksUsers, BotsPlaced
<1>5. ASSUME NEW c \in Channel, ShouldBeThere(c)' PROVE Placed(c)'
  <2>1. PartBot(c)' = PartBot(c) /\ JoinBot(c)' = JoinBot(c)
    BY DEF PartBot, JoinBot
  <2>2. bot[c] # NULL /\ Big(w, c)
    BY <1>5 DEF ShouldBeThere, Big, UserCount, View, Becomes
  <2>3. CASE Ends(w.out, JoinBot(c), PartBot(c))
    <3>1. Ends(downlink', JoinBot(c), PartBot(c))
      BY <1>3, <2>3
    <3> QED BY <2>1, <3>1 DEF Placed
  <2>4. CASE ~Ends(w.out, JoinBot(c), PartBot(c))
    <3>1. Big(View, c) /\ ~Has(w.out, PartBot(c))
      BY <1>1, <2>2, <2>4 DEF BotsTold, BotTold
    <3>2. Placed(c)
      BY <2>2, <3>1 DEF BotsPlaced, ShouldBeThere
    <3>3. CASE Ends(downlink, JoinBot(c), PartBot(c))
      <4>1. Ends(downlink', JoinBot(c), PartBot(c))
        BY <1>3, <3>1, <3>3
      <4> QED BY <2>1, <4>1 DEF Placed
    <3>4. CASE BotThere(c)
      <4>1. ~Has(downlink', PartBot(c))
        BY <1>3, <3>1, <3>4 DEF BotThere
      <4>2. BotThere(c)'
        BY <2>1, <3>4, <4>1 DEF BotThere
      <4> QED BY <4>2 DEF Placed
    <3>5. CASE KickOfBot(c)
      <4>1. KickOfBot(c)'
        BY <2>2, <2>4, <3>5
      <4> QED BY <4>1 DEF Placed
    <3> QED BY <3>2, <3>3, <3>4, <3>5 DEF Placed
  <2> QED BY <2>3, <2>4
<1> QED BY <1>4, <1>5 DEF BotsPlaced

LEMMA SentJoin ==
  ASSUME TypeOK, NEW c \in Channel, bot[c] # NULL
  PROVE  Ends(BotJoin(View, c).out, JoinBot(c), PartBot(c))
<1>1. Sends(View, BotJoin(View, c), JoinBot(c))
  BY ViewFields, BotJoinFields DEF JoinBot
<1>2. JoinBot(c) \in Message /\ View.out \in Seq(Message)
  BY ViewFields, BotInMessage DEF ViewRec
<1>3. BotJoin(View, c).out = Append(View.out, JoinBot(c))
  BY <1>1 DEF Sends
<1> QED BY <1>2, <1>3, AppendEnds

LEMMA ReceivePlaces ==
  ASSUME CInv, BotsPlaced, Ignored = {}, Receive
  PROVE  BotsPlaced'
<1> DEFINE m == Head(uplink)
           w == Handle(m)
<1>1. m \in Message /\ m.type \in FromNetwork /\ m = uplink[1]
  BY HeadIsMessage DEF Receive
<1>2. Told(w) /\ Becomes(w) /\ UNCHANGED <<bot, on>>
  <2>1. Fine(View, w)
    <3> HIDE DEF m
    <3> QED BY <1>1, HandleFine DEF CInv
  <2>2. Told(w)
    <3> HIDE DEF w
    <3> QED BY <2>1, ViewTold DEF CInv
  <2> QED BY <2>2 DEF Receive, network
<1>3. ASSUME NEW c \in Channel, bot[c] # NULL, KickOfBot(c)
      PROVE  KickOfBot(c)' \/ Ends(w.out, JoinBot(c), PartBot(c))
  <2>1. PICK i \in DOMAIN uplink :
           uplink[i].type = "kick" /\ uplink[i].chan = c /\ uplink[i].who \in Bot
    BY <1>3 DEF KickOfBot
  <2>2. CASE i = 1
    <3>1. m.type = "kick" /\ m.chan = c /\ m.who \in Bot
      BY <1>1, <2>1, <2>2
    <3>2. w = BotJoin(View, c)
      BY <3>1 DEF Handle
    <3> HIDE DEF w
    <3>3. Ends(BotJoin(View, c).out, JoinBot(c), PartBot(c))
      BY <1>3, SentJoin DEF CInv
    <3> QED BY <3>2, <3>3
  <2>3. CASE i # 1
    <3>1. DOMAIN uplink = 1..Len(uplink) /\ Len(uplink) \in Nat
      BY DEF CInv, TypeOK
    <3>2. i - 1 \in 1..(Len(uplink) - 1) /\ (i - 1) + 1 = i
      BY <2>3, <3>1
    <3>3. i - 1 \in DOMAIN uplink' /\ uplink'[i - 1] = uplink[i]
      BY <3>2, ReceiveLeaves
    <3> QED BY <2>1, <3>3 DEF KickOfBot
  <2> QED BY <2>2, <2>3
<1> HIDE DEF w
<1>4. \A c \in Channel : bot[c] # NULL => (KickOfBot(c) => KickOfBot(c)' \/ Ends(w.out, JoinBot(c), PartBot(c)))
  BY <1>3
<1> QED BY <1>2, <1>4, RecordsStepPlaces

LEMMA CommandPlaces ==
  ASSUME CInv, BotsPlaced, Ignored = {}, Command, RecordsStep, UNCHANGED bot
  PROVE  BotsPlaced'
<1>1. PICK w : Told(w) /\ Becomes(w)
  BY DEF RecordsStep
<1>2. UNCHANGED <<bot, on>> /\ uplink' = uplink
  BY DEF Command, network
<1>3. \A c \in Channel : KickOfBot(c) => KickOfBot(c)'
  BY <1>2 DEF KickOfBot
<1> QED BY <1>1, <1>2, <1>3, RecordsStepPlaces

\* A channel gets another bot, or none.
LEMMA AssignPlaces ==
  ASSUME CInv, BotsPlaced, NEW c \in Channel, Command, UNCHANGED records, NEW j \in Seq(Message),
         downlink' = downlink \o PartOfBot(c) \o j,
         \A d \in Channel \ {c} : bot'[d] = bot[d],
         \A d \in Channel \ {c} : ~Has(j, PartBot(d)),
         KicksUsers(j),
         ShouldBeThere(c)' => Ends(j, JoinBot(c)', PartBot(c)')
  PROVE  BotsPlaced'
<1> DEFINE p == PartOfBot(c)
           s == downlink \o p
<1>1. bot[c] # NULL => PartBot(c) \in Message
  BY BotInMessage, ViewFields DEF CInv
<1>2. p = <<>> \/ (bot[c] # NULL /\ p = <<PartBot(c)>>)
  BY DEF PartOfBot, PartBot
<1>3. p \in Seq(Message) /\ downlink \in Seq(Message)
  <2>1. downlink \in Seq(Message)
    BY DEF CInv, TypeOK
  <2>2. bot[c] # NULL => <<PartBot(c)>> \in Seq(Message)
    BY <1>1
  <2>3. <<>> \in Seq(Message)
    OBVIOUS
  <2> HIDE DEF p
  <2> QED BY <1>2, <2>1, <2>2, <2>3
<1>4. \A x : Has(p, x) => x = PartBot(c)
  BY <1>2 DEF Has
<1>5. PartBot(c).type = "botpart"
  BY DEF PartBot, To
<1> HIDE DEF p
<1>6. /\ s \in Seq(Message)
      /\ \A x : Has(s, x) <=> Has(downlink, x) \/ Has(p, x)
      /\ \A i, e : Ends(downlink, i, e) /\ ~Has(p, e) => Ends(s, i, e)
  BY <1>3, ConcatHas
<1> HIDE DEF s
<1>7. downlink' = s \o j
  BY DEF s, p
<1>8. /\ \A x : Has(downlink', x) <=> Has(s, x) \/ Has(j, x)
      /\ \A i, e : Ends(j, i, e) => Ends(downlink', i, e)
      /\ \A i, e : Ends(s, i, e) /\ ~Has(j, e) => Ends(downlink', i, e)
  BY <1>6, <1>7, ConcatHas
<1>9. KicksUsers(downlink)'
  BY <1>4, <1>5, <1>6, <1>8 DEF KicksUsers, BotsPlaced
<1>10. ASSUME NEW d \in Channel, ShouldBeThere(d)' PROVE Placed(d)'
  <2>1. CASE d = c
    BY <1>8, <1>10, <2>1 DEF Placed
  <2>2. CASE d # c
    <3>1. bot'[d] = bot[d] /\ on' = on /\ uplink' = uplink /\ users' = users
      BY <2>2 DEF Command, network, records
    <3>2. PartBot(d)' = PartBot(d) /\ JoinBot(d)' = JoinBot(d) /\ (KickOfBot(d)' <=> KickOfBot(d))
      BY <3>1 DEF PartBot, JoinBot, KickOfBot
    <3>3. ShouldBeThere(d)
      BY <1>10, <3>1 DEF ShouldBeThere, Big, UserCount, View
    <3>4. Placed(d)
      BY <3>3 DEF BotsPlaced
    <3>5. ~Has(p, PartBot(d)) /\ ~Has(j, PartBot(d))
      BY <1>4, <2>2 DEF PartBot, To
    <3>6. CASE Ends(downlink, JoinBot(d), PartBot(d))
      <4>1. Ends(downlink', JoinBot(d), PartBot(d))
        BY <1>6, <1>8, <3>5, <3>6
      <4> QED BY <3>2, <4>1 DEF Placed
    <3>7. CASE BotThere(d)
      <4>1. ~Has(downlink', PartBot(d))
        BY <1>6, <1>8, <3>5, <3>7 DEF BotThere
      <4>2. BotThere(d)'
        BY <3>1, <3>2, <3>7, <4>1 DEF BotThere
      <4> QED BY <4>2 DEF Placed
    <3>8. CASE KickOfBot(d)
      BY <3>2, <3>8 DEF Placed
    <3> QED BY <3>4, <3>6, <3>7, <3>8 DEF Placed
  <2> QED BY <2>1, <2>2
<1> QED BY <1>9, <1>10 DEF BotsPlaced

LEMMA ServicesPlace ==
  ASSUME CInv, BotsPlaced, Ignored = {}, Services
  PROVE  BotsPlaced'
<1>1. CASE Receive
  BY <1>1, ReceivePlaces
<1>2. ASSUME NEW u \in User, NEW d \in Channel, CsKick(u, d) PROVE BotsPlaced'
  BY <1>2, CsKickTold, CommandPlaces DEF CsKick
<1>3. ASSUME NEW u \in User, NEW d \in Channel, CsDeop(u, d) PROVE BotsPlaced'
  BY <1>3, CsDeopTold, CommandPlaces DEF CsDeop
<1>8. ASSUME NEW u \in User, NEW d \in Channel, CsOp(u, d) PROVE BotsPlaced'
  BY <1>8, CsOpTold, CommandPlaces DEF CsOp
<1>4. ASSUME NEW u \in User, Kill(u) PROVE BotsPlaced'
  BY <1>4, KillTold, CommandPlaces DEF Kill
<1>5. ASSUME NEW b \in Bot, NEW c \in Channel, Assign(b, c) PROVE BotsPlaced'
  <2> DEFINE m == To("botjoin", c, b)
             j == IF UserCount(View, c) >= BSMinUsers THEN <<m>> ELSE <<>>
  <2>1. m \in Message /\ m.type = "botjoin"
    BY BotMessage DEF To
  <2>2. downlink' = downlink \o PartOfBot(c) \o j /\ UNCHANGED records /\ Command
    BY <1>5 DEF Assign
  <2>3. bot'[c] = b /\ \A e \in Channel \ {c} : bot'[e] = bot[e]
    BY <1>5 DEF Assign, CInv, TypeOK
  <2>4. \A d \in Channel : PartBot(d).type = "botpart"
    BY DEF PartBot, To
  <2>5. JoinBot(c)' = m
    BY <2>3 DEF JoinBot
  <2> HIDE DEF m
  <2>6. j \in Seq(Message) /\ KicksUsers(j) /\ \A d \in Channel : ~Has(j, PartBot(d))
    BY <2>1, <2>4 DEF Has, KicksUsers
  <2>7. ASSUME ShouldBeThere(c)' PROVE Ends(j, JoinBot(c)', PartBot(c)')
    <3>1. UserCount(View, c) >= BSMinUsers
      BY <2>2, <2>7 DEF ShouldBeThere, Big, UserCount, View, records
    <3>2. j = <<m>>
      BY <3>1
    <3>3. DOMAIN j = {1} /\ j[1] = m
      BY <3>2
    <3> HIDE DEF j
    <3> QED BY <2>5, <3>3 DEF Ends
  <2> HIDE DEF j
  <2> QED BY <2>2, <2>3, <2>6, <2>7, AssignPlaces
<1>6. ASSUME NEW c \in Channel, Unassign(c) PROVE BotsPlaced'
  <2>1. downlink' = downlink \o PartOfBot(c) /\ UNCHANGED records /\ Command
    BY <1>6 DEF Unassign
  <2>2. downlink \o PartOfBot(c) = downlink \o PartOfBot(c) \o <<>> /\ <<>> \in Seq(Message)
    <3>1. PartOfBot(c) \in Seq(Message) /\ downlink \in Seq(Message)
      <4>1. bot[c] # NULL => To("botpart", c, bot[c]) \in Message
        BY BotMessage DEF CInv, TypeOK
      <4> QED BY <4>1 DEF PartOfBot, CInv, TypeOK
    <3> QED BY <3>1
  <2>3. bot'[c] = NULL /\ \A e \in Channel \ {c} : bot'[e] = bot[e]
    BY <1>6 DEF Unassign, CInv, TypeOK
  <2>4. KicksUsers(<<>>) /\ \A d \in Channel : ~Has(<<>>, PartBot(d))
    BY DEF Has, KicksUsers
  <2>5. ~ShouldBeThere(c)'
    BY <2>3 DEF ShouldBeThere
  <2>6. downlink' = downlink \o PartOfBot(c) \o <<>>
    BY <2>1, <2>2
  <2> QED BY <2>1, <2>2, <2>3, <2>4, <2>5, <2>6, AssignPlaces
<1> QED BY <1>1, <1>2, <1>3, <1>4, <1>5, <1>6, <1>8 DEF Services

\* Steps that leave the records and what services have sent.
LEMMA EventPlaces ==
  ASSUME CInv, BotsPlaced, UNCHANGED <<records, bot, downlink>>,
         \A c \in Channel : KickOfBot(c) => KickOfBot(c)',
         \A c \in Channel : bot[c] # NULL /\ bot[c] \in on[c] => bot[c] \in on'[c] \/ KickOfBot(c)'
  PROVE  BotsPlaced'
<1>1. KicksUsers(downlink)'
  BY DEF BotsPlaced, KicksUsers
<1>2. ASSUME NEW c \in Channel, ShouldBeThere(c)' PROVE Placed(c)'
  <2>1. PartBot(c)' = PartBot(c) /\ JoinBot(c)' = JoinBot(c) /\ bot' = bot /\ downlink' = downlink
    BY DEF PartBot, JoinBot
  <2>2. ShouldBeThere(c)
    BY <1>2 DEF ShouldBeThere, Big, UserCount, View, records
  <2>3. Placed(c) /\ bot[c] # NULL
    BY <2>2 DEF BotsPlaced, ShouldBeThere
  <2>4. CASE Ends(downlink, JoinBot(c), PartBot(c))
    BY <2>1, <2>4 DEF Placed
  <2>5. CASE BotThere(c)
    <3>1. bot[c] \in on'[c] \/ KickOfBot(c)'
      BY <2>3, <2>5 DEF BotThere
    <3>2. ~Has(downlink', PartBot(c)')
      BY <2>1, <2>5 DEF BotThere
    <3> QED BY <2>1, <3>1, <3>2 DEF Placed, BotThere
  <2>6. CASE KickOfBot(c)
    BY <2>6 DEF Placed
  <2> QED BY <2>3, <2>4, <2>5, <2>6 DEF Placed
<1> QED BY <1>1, <1>2 DEF BotsPlaced

LEMMA TellKeepsKick ==
  ASSUME CInv, NEW m \in Message, Tell(m)
  PROVE  /\ \A c \in Channel : KickOfBot(c) => KickOfBot(c)'
         /\ m.type = "kick" /\ m.who \in Bot => KickOfBot(m.chan)'
<1>1. uplink \in Seq(Message) /\ uplink' = Append(uplink, m)
  BY DEF CInv, TypeOK, Tell
<1> DEFINE t == Append(uplink, m)
<1>2. /\ DOMAIN uplink = 1..Len(uplink) /\ Len(uplink) \in Nat /\ DOMAIN t = 1..(Len(uplink) + 1)
      /\ \A i \in 1..Len(uplink) : t[i] = uplink[i]
      /\ t[Len(uplink) + 1] = m
  BY <1>1
<1> HIDE DEF t
<1>3. \A i \in DOMAIN uplink : i \in DOMAIN t /\ t[i] = uplink[i]
  BY <1>2
<1>4. Len(uplink) + 1 \in DOMAIN t
  BY <1>2
<1>5. uplink' = t
  BY <1>1 DEF t
<1> QED BY <1>2, <1>3, <1>4, <1>5 DEF KickOfBot

LEMMA NetworkPlaces ==
  ASSUME CInv, BotsPlaced, Network, ~Deliver
  PROVE  BotsPlaced'
<1>1. on \in [Channel -> SUBSET Member] /\ bot \in [Channel -> Bot \cup {NULL}]
  BY DEF CInv, TypeOK
<1>2. ASSUME Event, NEW m \in Message, Tell(m),
             \A c \in Channel : bot[c] # NULL /\ bot[c] \in on[c] =>
                 bot[c] \in on'[c] \/ (m.type = "kick" /\ m.who \in Bot /\ m.chan = c)
      PROVE  BotsPlaced'
  <2>1. UNCHANGED <<records, bot, downlink>>
    BY <1>2 DEF Event
  <2>2. /\ \A c \in Channel : KickOfBot(c) => KickOfBot(c)'
        /\ m.type = "kick" /\ m.who \in Bot => KickOfBot(m.chan)'
    BY <1>2, TellKeepsKick
  <2>3. \A c \in Channel : bot[c] # NULL /\ bot[c] \in on[c] => bot[c] \in on'[c] \/ KickOfBot(c)'
    BY <1>2, <2>2
  <2> QED BY <2>1, <2>2, <2>3, EventPlaces
<1>3. \A u \in User, c \in Channel : bot[c] # NULL => bot[c] # u
  BY <1>1, NamesDiffer
<1>4. ASSUME NEW t \in {"join", "part", "deop", "op", "servop"}, NEW u \in User, NEW c \in Channel
      PROVE  To(t, c, u) \in Message
  BY UserMessage
<1>5. ASSUME NEW t \in {"quit", "part0"}, NEW u \in User
      PROVE  [type |-> t, who |-> u] \in Message
  BY GoneMessage
<1>6. ASSUME NEW u \in User, NEW c \in Channel, NetJoin(u, c) PROVE BotsPlaced'
  <2>1. \A d \in Channel : on[d] \subseteq on'[d]
    BY <1>1, <1>6 DEF NetJoin
  <2> QED BY <1>2, <1>4, <1>6, <2>1 DEF NetJoin
<1>7. ASSUME NEW u \in User, NEW c \in Channel, NetPart(u, c) PROVE BotsPlaced'
  <2>1. \A d \in Channel : on[d] \ {u} \subseteq on'[d]
    BY <1>1, <1>7 DEF NetPart, Off
  <2>2. \A d \in Channel : bot[d] # NULL /\ bot[d] \in on[d] => bot[d] \in on'[d]
    BY <1>3, <2>1
  <2> QED BY <1>2, <1>4, <1>7, <2>2 DEF NetPart
<1>8. ASSUME NEW u \in User, NEW c \in Channel, NetOp(u, c) \/ NetDeop(u, c) PROVE BotsPlaced'
  <2>1. on' = on
    BY <1>8 DEF NetOp, NetDeop
  <2> QED BY <1>2, <1>4, <1>8, <2>1 DEF NetOp, NetDeop
<1>9. ASSUME NEW l \in Lists, NEW c \in Channel, NetSJoin(l, c) PROVE BotsPlaced'
  <2>1. on[c] = {} /\ \A d \in Channel \ {c} : on'[d] = on[d]
    BY <1>1, <1>9 DEF NetSJoin
  <2>2. \A d \in Channel : bot[d] # NULL /\ bot[d] \in on[d] => bot[d] \in on'[d]
    BY <2>1
  <2>3. l \in Seq(User)
    BY ListIsSeq
  <2>4. To("sjoin", c, l) \in Message
    BY <2>3, BurstMessage
  <2> QED BY <1>2, <1>9, <2>2, <2>4 DEF NetSJoin
<1>10. ASSUME NEW u \in User, NetPartAll(u) \/ NetQuit(u) PROVE BotsPlaced'
  <2>1. \A d \in Channel : on[d] \ {u} \subseteq on'[d]
    BY <1>10 DEF NetPartAll, NetQuit, OffAll
  <2>2. \A d \in Channel : bot[d] # NULL /\ bot[d] \in on[d] => bot[d] \in on'[d]
    BY <1>3, <2>1
  <2> QED BY <1>2, <1>5, <1>10, <2>2 DEF NetPartAll, NetQuit
<1>11. ASSUME NEW x \in Member, NEW c \in Channel, NetKick(x, c) PROVE BotsPlaced'
  <2>1. \A d \in Channel : (d # c \/ bot[d] # x) /\ bot[d] \in on[d] => bot[d] \in on'[d]
    BY <1>1, <1>11 DEF NetKick, Off
  <2> DEFINE m == To("kick", c, x)
  <2>2. m \in Message /\ m.type = "kick" /\ m.who = x /\ m.chan = c
    BY KickMessage DEF To
  <2> HIDE DEF m
  <2>3. \A d \in Channel : bot[d] # NULL /\ bot[d] \in on[d] =>
           bot[d] \in on'[d] \/ (m.type = "kick" /\ m.who \in Bot /\ m.chan = d)
    BY <1>1, <2>1, <2>2
  <2>4. Event /\ Tell(m)
    BY <1>11 DEF NetKick, m
  <2> QED BY <1>2, <2>2, <2>3, <2>4
<1> QED BY <1>6, <1>7, <1>8, <1>9, <1>10, <1>11 DEF Network

\* A message of services reaches the network.
LEMMA DeliverPlaces ==
  ASSUME CInv, BotsPlaced, Deliver
  PROVE  BotsPlaced'
<1> DEFINE m == Head(downlink)
<1>1. /\ DOMAIN downlink' = 1..(Len(downlink) - 1)
      /\ \A i \in DOMAIN downlink' : i + 1 \in DOMAIN downlink /\ downlink'[i] = downlink[i + 1]
      /\ m = downlink[1] /\ 1 \in DOMAIN downlink /\ m \in Message
  BY DeliverLeaves
<1>2. Obey(m) /\ uplink' = uplink /\ UNCHANGED <<records, bot>>
  BY DEF Deliver
<1> HIDE DEF m
<1>3. DOMAIN downlink = 1..Len(downlink) /\ Len(downlink) \in Nat
  BY DEF CInv, TypeOK
<1>4. \A i \in DOMAIN downlink : i = 1 \/ (i - 1 \in DOMAIN downlink' /\ downlink'[i - 1] = downlink[i])
  BY <1>1, <1>3
<1>5. \A x : Has(downlink', x) => Has(downlink, x)
  BY <1>1 DEF Has
<1>6. KicksUsers(downlink)' /\ (m.type = "kick" => m.who \in User)
  BY <1>1, <1>5 DEF KicksUsers, BotsPlaced, Has
<1>7. on \in [Channel -> SUBSET Member] /\ bot \in [Channel -> Bot \cup {NULL}]
  BY DEF CInv, TypeOK
<1>8. ASSUME NEW c \in Channel, ShouldBeThere(c)' PROVE Placed(c)'
  <2> DEFINE j == JoinBot(c)
             p == PartBot(c)
  <2>1. p' = p /\ j' = j /\ (KickOfBot(c)' <=> KickOfBot(c)) /\ bot' = bot
    BY <1>2 DEF PartBot, JoinBot, KickOfBot
  <2>2. ShouldBeThere(c)
    BY <1>2, <1>8 DEF ShouldBeThere, Big, UserCount, View, records
  <2>3. Placed(c) /\ bot[c] # NULL /\ bot[c] \in Bot /\ bot[c] \notin User
    BY <1>7, <2>2, NamesDiffer DEF BotsPlaced, ShouldBeThere
  <2>4. /\ j.type = "botjoin" /\ j.chan = c /\ j.who = bot[c]
        /\ p.type = "botpart" /\ p.chan = c /\ p.who = bot[c]
    BY DEF JoinBot, PartBot, To
  <2>5. CASE Ends(downlink, j, p)
    <3>1. PICK i \in DOMAIN downlink :
             downlink[i] = j /\ \A k \in DOMAIN downlink : i < k => downlink[k] # p
      BY <2>5 DEF Ends
    <3>2. CASE i = 1
      <4>1. m = j
        BY <1>1, <3>1, <3>2
      <4>2. bot[c] \in on'[c]
        BY <1>2, <1>7, <2>4, <4>1 DEF Obey
      <4>3. \A k \in DOMAIN downlink' : downlink'[k] # p
        BY <1>1, <1>3, <3>1, <3>2
      <4> QED BY <2>1, <4>2, <4>3 DEF Placed, BotThere, Has
    <3>3. CASE i # 1
      <4>1. i - 1 \in DOMAIN downlink' /\ downlink'[i - 1] = j
        BY <1>4, <3>1, <3>3
      <4>2. \A k \in DOMAIN downlink' : i - 1 < k => downlink'[k] # p
        BY <1>1, <1>3, <3>1, <3>3
      <4>3. Ends(downlink', j, p)
        BY <4>1, <4>2 DEF Ends
      <4> QED BY <2>1, <4>3 DEF Placed
    <3> QED BY <3>2, <3>3
  <2>6. CASE BotThere(c)
    <3>1. m # p
      BY <1>1, <2>6 DEF BotThere, Has
    <3>2. ~Has(downlink', p)
      BY <1>5, <2>6 DEF BotThere
    <3>3. bot[c] \in on'[c]
      <4>1. bot[c] \in on[c]
        BY <2>6 DEF BotThere
      <4>2. CASE m.type = "kick" /\ Off(m.who, m.chan)
        <5>1. m.who # bot[c]
          BY <1>6, <2>3, <4>2
        <5> QED BY <1>7, <4>1, <4>2, <5>1 DEF Off
      <4>3. CASE on' = on
        BY <4>1, <4>3
      <4>4. CASE m.type = "kill" /\ OffAll(m.who)
        <5>1. m.who # bot[c]
          BY <1>1, <2>3, <4>4, MessageFields
        <5> QED BY <4>1, <4>4, <5>1 DEF OffAll
      <4>5. CASE m.type = "botjoin" /\ on' = [on EXCEPT ![m.chan] = @ \cup {m.who}]
        BY <1>7, <4>1, <4>5
      <4>6. CASE m.type = "botpart" /\ Off(m.who, m.chan)
        <5>1. m.who # bot[c] \/ m.chan # c
          <6>1. m.type = "botpart" /\ m.chan = c /\ m.who = bot[c] => m = p
            BY <1>1 DEF Message, PartBot, To
          <6> QED BY <3>1, <4>6, <6>1
        <5> QED BY <1>7, <4>1, <4>6, <5>1 DEF Off
      <4> QED BY <1>2, <4>2, <4>3, <4>4, <4>5, <4>6 DEF Obey
    <3> QED BY <2>1, <3>2, <3>3 DEF Placed, BotThere
  <2>7. CASE KickOfBot(c)
    BY <2>1, <2>7 DEF Placed
  <2> QED BY <2>3, <2>5, <2>6, <2>7 DEF Placed
<1> QED BY <1>6, <1>8 DEF BotsPlaced

\* When services ignore nobody, the bot of a channel that has BSMinUsers
\* users is on it once nothing is on its way, whoever came, left or was
\* removed, whatever bot the channel was given, and whether or not operators
\* kick bots (chan_adduser2(), bot_join(), do_kick(); channels.c, botserv.c).
THEOREM BotsCome == ASSUME Ignored = {} PROVE Spec => []BotComes
<1>1. Init => BotsPlaced
  <2> SUFFICES ASSUME Init PROVE BotsPlaced
    OBVIOUS
  <2>1. KicksUsers(downlink)
    BY DEF Init, KicksUsers, Has
  <2>2. \A c \in Channel : UserCount(View, c) = 0
    BY DEF Init, View, UserCount
  <2>3. \A c \in Channel : ~ShouldBeThere(c)
    BY <2>2, MinUsersIsPositive DEF ShouldBeThere, Big
  <2> QED BY <2>1, <2>3 DEF BotsPlaced
<1>2. CInv /\ BotsPlaced /\ [Next]_vars => BotsPlaced'
  <2> SUFFICES ASSUME CInv, BotsPlaced, [Next]_vars PROVE BotsPlaced'
    OBVIOUS
  <2>1. CASE Services
    BY <2>1, ServicesPlace
  <2>2. CASE Network
    BY <2>2, NetworkPlaces, DeliverPlaces
  <2>3. CASE UNCHANGED vars
    <3>1. UNCHANGED <<records, bot, downlink, uplink, on>>
      BY <2>3 DEF vars, records
    <3>2. \A c \in Channel : KickOfBot(c) => KickOfBot(c)'
      BY <3>1 DEF KickOfBot
    <3> QED BY <3>1, <3>2, EventPlaces
  <2> QED BY <2>1, <2>2, <2>3 DEF Next
<1>3. CInv /\ BotsPlaced => BotComes
  <2> SUFFICES ASSUME CInv, BotsPlaced, Settled, NEW c \in Channel,
                      bot[c] # NULL, UserCount(View, c) >= BSMinUsers
               PROVE  bot[c] \in on[c]
    BY DEF BotComes
  <2>1. Placed(c)
    BY DEF BotsPlaced, ShouldBeThere, Big
  <2>2. DOMAIN downlink = {} /\ DOMAIN uplink = {}
    BY DEF Settled
  <2> QED BY <2>1, <2>2 DEF Placed, Ends, KickOfBot, BotThere
<1> QED BY <1>1, <1>2, <1>3, Invariance, PTL DEF Spec


-----------------------------------------------------------------------------
(* Whom services have on a channel, and with what status.                  *)

\* The first entry of s for the channel c says whether he has +o.
OnAs(s, c, op) == \E i \in DOMAIN s : FirstIs(s, c, i) /\ s[i].op = op
On(s, c) == \E op \in BOOLEAN : OnAs(s, c, op)

\* Nothing changes for user u on channel c.
Stays(v, w, u, c) == \A op \in BOOLEAN : OnAs(v.chans[u], c, op) => OnAs(w.chans[u], c, op)

LEMMA OnIsOnChan ==
  ASSUME NEW v, NEW u, NEW c, v.chans[u] \in Seq(ChanEntry)
  PROVE  /\ IsOnChan(v, u, c) <=> On(v.chans[u], c)
         /\ \A op : OnAs(v.chans[u], c, op) => v.chans[u][PlaceOfChan(v, u, c)].op = op
<1> DEFINE s == v.chans[u]
           p == PlaceOfChan(v, u, c)
<1>1. /\ p = 0 => \A i \in DOMAIN s : s[i].chan # c
      /\ p # 0 => FirstIs(s, c, p)
  BY PlaceChan
<1>2. IsOnChan(v, u, c) <=> p # 0
  BY DEF IsOnChan
<1>3. \A i \in DOMAIN s : s[i].op \in BOOLEAN
  <2>1. \A i \in DOMAIN s : s[i] \in ChanEntry
    OBVIOUS
  <2> HIDE DEF s
  <2> QED BY <2>1 DEF ChanEntry
<1>4. \A i, j : FirstIs(s, c, i) /\ FirstIs(s, c, j) => i = j
  BY FirstIsOnly
<1> HIDE DEF s, p
<1>5. IsOnChan(v, u, c) <=> On(s, c)
  BY <1>1, <1>2, <1>3 DEF On, OnAs, FirstIs
<1>6. ASSUME NEW op, OnAs(s, c, op) PROVE s[p].op = op
  <2>1. PICK i \in DOMAIN s : FirstIs(s, c, i) /\ s[i].op = op
    BY <1>6 DEF OnAs
  <2>2. p # 0
    BY <1>1, <2>1 DEF FirstIs
  <2> QED BY <1>1, <1>4, <2>1, <2>2
<1> QED BY <1>5, <1>6 DEF s, p

LEMMA StaysSame ==
  ASSUME NEW v, NEW w, NEW u, NEW c, w.chans[u] = v.chans[u]
  PROVE  Stays(v, w, u, c)
BY DEF Stays

LEMMA StaysTrans ==
  ASSUME NEW v, NEW w, NEW x, NEW u, NEW c, Stays(v, w, u, c), Stays(w, x, u, c)
  PROVE  Stays(v, x, u, c)
BY DEF Stays

LEMMA StaysOn ==
  ASSUME NEW v, NEW w, NEW u, NEW c, Stays(v, w, u, c), On(v.chans[u], c)
  PROVE  On(w.chans[u], c)
BY DEF Stays, On

\* A new entry in front: the status on its channel is its, on others it stays.
LEMMA PrependOn ==
  ASSUME NEW s \in Seq(ChanEntry), NEW c \in Channel, NEW f \in BOOLEAN
  PROVE  /\ OnAs(<<Entry(c, f)>> \o s, c, f)
         /\ \A d, op : d # c /\ OnAs(s, d, op) => OnAs(<<Entry(c, f)>> \o s, d, op)
<1> DEFINE e == Entry(c, f)
           t == <<e>> \o s
<1>0. e \in ChanEntry /\ e.chan = c /\ e.op = f
  BY DEF Entry, ChanEntry
<1> HIDE DEF e
<1>1. /\ t \in Seq(ChanEntry) /\ Len(t) = Len(s) + 1 /\ t[1] = e
      /\ \A j \in 1..Len(s) : t[j + 1] = s[j]
  BY <1>0, PrependShifts
<1>2. DOMAIN s = 1..Len(s) /\ Len(s) \in Nat /\ DOMAIN t = 1..(Len(s) + 1)
  BY <1>1
<1> HIDE DEF t
<1>3. FirstIs(t, c, 1)
  BY <1>0, <1>1, <1>2 DEF FirstIs
<1>4. OnAs(t, c, f)
  BY <1>0, <1>1, <1>2, <1>3 DEF OnAs
<1>5. ASSUME NEW d, NEW op, d # c, OnAs(s, d, op) PROVE OnAs(t, d, op)
  <2>1. PICK i \in DOMAIN s : FirstIs(s, d, i) /\ s[i].op = op
    BY <1>5 DEF OnAs
  <2>2. i \in 1..Len(s) /\ i + 1 \in DOMAIN t /\ t[i + 1] = s[i]
    BY <1>1, <1>2
  <2>3. ASSUME NEW j \in DOMAIN t, j < i + 1 PROVE t[j].chan # d
    <3>1. CASE j = 1
      BY <1>0, <1>1, <1>5, <3>1
    <3>2. CASE j # 1
      <4>1. j - 1 \in 1..Len(s) /\ (j - 1) + 1 = j /\ j - 1 < i
        BY <1>2, <2>2, <2>3, <3>2
      <4>2. t[j] = s[j - 1]
        BY <1>1, <4>1
      <4> QED BY <1>2, <2>1, <4>1, <4>2 DEF FirstIs
    <3> QED BY <3>1, <3>2
  <2>4. FirstIs(t, d, i + 1)
    BY <2>1, <2>2, <2>3 DEF FirstIs
  <2> QED BY <2>1, <2>2, <2>4 DEF OnAs
<1> QED BY <1>4, <1>5 DEF t, e

\* Without an entry of c, other channels stay.
LEMMA RemoveOn ==
  ASSUME NEW s \in Seq(ChanEntry), NEW p \in DOMAIN s, NEW d, NEW op,
         s[p].chan # d, OnAs(s, d, op)
  PROVE  OnAs(RemoveAt(s, p), d, op)
<1> DEFINE t == RemoveAt(s, p)
<1>1. /\ t \in Seq(ChanEntry) /\ Len(t) = Len(s) - 1
      /\ \A j \in 1..(Len(s) - 1) : t[j] = IF j < p THEN s[j] ELSE s[j + 1]
  BY RemoveAtShifts
<1>2. DOMAIN s = 1..Len(s) /\ Len(s) \in Nat /\ DOMAIN t = 1..(Len(s) - 1) /\ p \in 1..Len(s)
  BY <1>1
<1> HIDE DEF t
<1>3. PICK i \in DOMAIN s : FirstIs(s, d, i) /\ s[i].op = op
  BY DEF OnAs
<1>4. i # p /\ i \in 1..Len(s) /\ \A j \in 1..Len(s) : j < i => s[j].chan # d
  BY <1>2, <1>3 DEF FirstIs
<1> DEFINE k == IF i < p THEN i ELSE i - 1
<1>5. k \in 1..(Len(s) - 1) /\ t[k] = s[i]
  BY <1>1, <1>2, <1>4
<1>6. ASSUME NEW j \in 1..(Len(s) - 1), j < k PROVE t[j].chan # d
  <2>1. CASE j < p
    BY <1>1, <1>2, <1>4, <1>6, <2>1
  <2>2. CASE ~(j < p)
    <3>1. j + 1 \in 1..Len(s) /\ j + 1 < i
      BY <1>2, <1>4, <1>6, <2>2
    <3> QED BY <1>1, <1>4, <2>2, <3>1
  <2> QED BY <2>1, <2>2
<1>7. FirstIs(t, d, k)
  BY <1>2, <1>3, <1>5, <1>6 DEF FirstIs
<1> QED BY <1>2, <1>3, <1>5, <1>7 DEF OnAs, t

\* The first entry of c gets another status.
LEMMA ReplaceOn ==
  ASSUME NEW s \in Seq(ChanEntry), NEW c \in Channel, NEW p, FirstIs(s, c, p), NEW f \in BOOLEAN
  PROVE  LET t == [s EXCEPT ![p] = Entry(c, f)] IN
         /\ OnAs(t, c, f)
         /\ \A d, op : d # c /\ OnAs(s, d, op) => OnAs(t, d, op)
<1> DEFINE e == Entry(c, f)
           t == [s EXCEPT ![p] = e]
<1>0. e.chan = c /\ e.op = f
  BY DEF Entry
<1> HIDE DEF e
<1>1. p \in DOMAIN s /\ s[p].chan = c
  BY DEF FirstIs
<1>2. DOMAIN t = DOMAIN s /\ t[p] = e /\ \A j \in DOMAIN s : j # p => t[j] = s[j]
  BY <1>1
<1> HIDE DEF t
<1>3. \A j \in DOMAIN s : t[j].chan = s[j].chan
  BY <1>0, <1>1, <1>2
<1>4. \A d, i : FirstIs(s, d, i) => FirstIs(t, d, i)
  BY <1>2, <1>3 DEF FirstIs
<1>5. OnAs(t, c, f)
  BY <1>0, <1>1, <1>2, <1>4 DEF OnAs
<1>6. ASSUME NEW d, NEW op, d # c, OnAs(s, d, op) PROVE OnAs(t, d, op)
  <2>1. PICK i \in DOMAIN s : FirstIs(s, d, i) /\ s[i].op = op
    BY <1>6 DEF OnAs
  <2>2. i # p
    BY <1>1, <1>6, <2>1 DEF FirstIs
  <2> QED BY <1>2, <1>4, <2>1, <2>2 DEF OnAs
<1> QED BY <1>5, <1>6 DEF t, e

\* Pairs services may leave with +o.
Trusted == AutoOp \ AutoDeop

\* Services have u on c, as an op or not where they may leave him with +o.
Put(w, u, c, op) == On(w.chans[u], c) /\ (<<u, c>> \in Trusted => OnAs(w.chans[u], c, op))

LEMMA PutStays ==
  ASSUME NEW v, NEW w, NEW u, NEW c, NEW op \in BOOLEAN, Put(v, u, c, op), Stays(v, w, u, c)
  PROVE  Put(w, u, c, op)
<1>1. On(w.chans[u], c)
  BY StaysOn DEF Put
<1>2. OnAs(v.chans[u], c, op) => OnAs(w.chans[u], c, op)
  BY DEF Stays
<1> QED BY <1>1, <1>2 DEF Put

LEMMA JoinPuts ==
  ASSUME NEW v \in ViewRec, NEW u \in User, NEW c \in Channel, BotTyped
  PROVE  LET w == JoinUserUpdate(v, u, c) IN
         /\ Put(w, u, c, FALSE)
         /\ \A x \in User, d \in Channel : x # u \/ d # c => Stays(v, w, x, d)
<1> DEFINE w == JoinUserUpdate(v, u, c)
<1>1. /\ w.chans[u] = <<Entry(c, FALSE)>> \o v.chans[u]
      /\ \A x \in User \ {u} : w.chans[x] = v.chans[x]
  BY JoinFields
<1>2. v.chans[u] \in Seq(ChanEntry) /\ FALSE \in BOOLEAN
  BY DEF ViewRec
<1> HIDE DEF w
<1>3. /\ OnAs(w.chans[u], c, FALSE)
      /\ \A d, op : d # c /\ OnAs(v.chans[u], d, op) => OnAs(w.chans[u], d, op)
  BY <1>1, <1>2, PrependOn
<1>4. Put(w, u, c, FALSE)
  BY <1>2, <1>3 DEF Put, On
<1>5. ASSUME NEW x \in User, NEW d \in Channel, x # u \/ d # c PROVE Stays(v, w, x, d)
  <2>1. CASE x # u
    BY <1>1, <2>1, StaysSame
  <2>2. CASE x = u /\ d # c
    BY <1>3, <2>2 DEF Stays
  <2> QED BY <1>5, <2>1, <2>2
<1> QED BY <1>4, <1>5 DEF w

LEMMA LeaveStays ==
  ASSUME NEW v \in ViewRec, NEW u \in User, NEW c \in Channel, BotTyped,
         NEW x \in User, NEW d \in Channel, x # u \/ d # c
  PROVE  Stays(v, Leave(v, u, c), x, d)
<1>1. CASE ~IsOnChan(v, u, c)
  BY <1>1, StaysSame DEF Leave
<1>2. CASE IsOnChan(v, u, c)
  <2> DEFINE w == Leave(v, u, c)
             p == PlaceOfChan(v, u, c)
             s == v.chans[u]
  <2>1. /\ FirstIs(s, c, p)
        /\ w.chans[u] = RemoveAt(s, p)
        /\ \A y \in User \ {u} : w.chans[y] = v.chans[y]
    BY <1>2, LeaveFields
  <2>2. s \in Seq(ChanEntry)
    BY DEF ViewRec
  <2> HIDE DEF w, p, s
  <2>3. CASE x # u
    BY <2>1, <2>3, StaysSame DEF w
  <2>4. CASE x = u /\ d # c
    <3>1. p \in DOMAIN s /\ s[p].chan # d
      BY <2>1, <2>4 DEF FirstIs
    <3>2. \A op \in BOOLEAN : OnAs(s, d, op) => OnAs(RemoveAt(s, p), d, op)
      BY <2>2, <3>1, RemoveOn
    <3>3. Stays(v, w, x, d)
      BY <2>1, <2>4, <3>2 DEF Stays, s
    <3> QED BY <3>3 DEF w
  <2> QED BY <2>3, <2>4
<1> QED BY <1>1, <1>2

LEMMA SetOpPuts ==
  ASSUME NEW v \in ViewRec, NEW u \in User, NEW c \in Channel, NEW flag \in BOOLEAN
  PROVE  LET w == SetOp(v, u, c, flag) IN
         /\ On(v.chans[u], c) => OnAs(w.chans[u], c, flag)
         /\ \A x \in User, d \in Channel : x # u \/ d # c => Stays(v, w, x, d)
<1>0. v.chans[u] \in Seq(ChanEntry)
  BY DEF ViewRec
<1>1. CASE ~IsOnChan(v, u, c)
  BY <1>0, <1>1, OnIsOnChan, StaysSame DEF SetOp
<1>2. CASE IsOnChan(v, u, c)
  <2> DEFINE w == SetOp(v, u, c, flag)
             p == PlaceOfChan(v, u, c)
             s == v.chans[u]
             t == [s EXCEPT ![p] = Entry(c, flag)]
  <2>1. /\ FirstIs(s, c, p)
        /\ w.chans[u] = t
        /\ \A y \in User \ {u} : w.chans[y] = v.chans[y]
    BY <1>2, SetOpFields
  <2> HIDE DEF w, p
  <2>2. /\ OnAs(t, c, flag)
        /\ \A d, op : d # c /\ OnAs(s, d, op) => OnAs(t, d, op)
    <3> HIDE DEF s
    <3> QED BY <1>0, <2>1, ReplaceOn DEF s
  <2> HIDE DEF s, t
  <2>3. ASSUME NEW x \in User, NEW d \in Channel, x # u \/ d # c PROVE Stays(v, w, x, d)
    <3>1. CASE x # u
      BY <2>1, <3>1, StaysSame
    <3>2. CASE x = u /\ d # c
      BY <2>1, <2>2, <3>2 DEF Stays, s
    <3> QED BY <2>3, <3>1, <3>2
  <2> QED BY <2>1, <2>2, <2>3 DEF w
<1> QED BY <1>1, <1>2

\* chan_set_modes(): a user who may be an op becomes one, others stay.
LEMMA AddOpPuts ==
  ASSUME NEW v \in ViewRec, NEW u \in User, NEW c \in Channel, NEW servermode \in BOOLEAN
  PROVE  LET w == AddOp(v, u, c, servermode) IN
         /\ On(v.chans[u], c) => On(w.chans[u], c)
         /\ u \in v.known /\ On(v.chans[u], c) => Put(w, u, c, TRUE)
         /\ \A x \in User, d \in Channel : x # u \/ d # c => Stays(v, w, x, d)
<1> DEFINE w == AddOp(v, u, c, servermode)
<1>1. CASE u \in v.known /\ ValidOp(u, c, servermode)
  <2> DEFINE y == SetOp(v, u, c, TRUE)
  <2>1. w = y
    BY <1>1 DEF AddOp
  <2>2. /\ On(v.chans[u], c) => OnAs(y.chans[u], c, TRUE)
        /\ \A x \in User, d \in Channel : x # u \/ d # c => Stays(v, y, x, d)
    <3>1. ASSUME NEW f \in BOOLEAN
          PROVE  /\ On(v.chans[u], c) => OnAs(SetOp(v, u, c, f).chans[u], c, f)
                 /\ \A x \in User, d \in Channel : x # u \/ d # c => Stays(v, SetOp(v, u, c, f), x, d)
      BY SetOpPuts
    <3>2. TRUE \in BOOLEAN
      OBVIOUS
    <3> QED BY <3>1, <3>2, Zenon
  <2> HIDE DEF w, y
  <2>3. On(v.chans[u], c) => On(w.chans[u], c) /\ OnAs(w.chans[u], c, TRUE)
    BY <2>1, <2>2 DEF On
  <2> QED BY <2>1, <2>2, <2>3 DEF w, Put
<1>2. CASE ~(u \in v.known /\ ValidOp(u, c, servermode))
  <2>1. w.chans = v.chans
    <3>1. w = v \/ w = Send(v, To("deop", c, u))
      BY <1>2 DEF AddOp
    <3>2. Send(v, To("deop", c, u)).chans = v.chans
      BY UserMessage, SendFields
    <3> HIDE DEF w
    <3> QED BY <3>1, <3>2
  <2>2. u \in v.known => <<u, c>> \notin Trusted
    BY <1>2 DEF ValidOp, Trusted
  <2> HIDE DEF w
  <2>3. \A x, d : Stays(v, w, x, d)
    BY <2>1, StaysSame
  <2> QED BY <2>1, <2>2, <2>3 DEF w, Put
<1> QED BY <1>1, <1>2

Kicked(w, u, c) == Has(w.out, To("kick", c, u))

LEMMA JoinOrKickPuts ==
  ASSUME NEW v, NEW u \in v.known, NEW c \in Channel, BotTyped, Good(v)
  PROVE  LET w == JoinOrKick(v, u, c) IN
         /\ IF <<u, c>> \in Unwelcome THEN Kicked(w, u, c) ELSE Put(w, u, c, FALSE)
         /\ \A x \in User, d \in Channel : x # u \/ d # c => Stays(v, w, x, d)
<1>0. v \in ViewRec /\ u \in User /\ v.out \in Seq(Message)
  BY DEF Good, ViewRec
<1>1. CASE <<u, c>> \in Unwelcome
  <2> DEFINE m == To("kick", c, u)
             w == Send(v, m)
  <2>1. m \in Message
    BY <1>0, KickMessage DEF Member
  <2> HIDE DEF m
  <2>2. w.out = Append(v.out, m) /\ w.chans = v.chans
    BY <1>0, <2>1, SendFields
  <2>3. JoinOrKick(v, u, c) = w
    BY <1>1 DEF JoinOrKick, m
  <2> HIDE DEF w
  <2>4. Kicked(w, u, c)
    BY <1>0, <2>1, <2>2, AppendHas DEF Kicked, m
  <2>5. \A x, d : Stays(v, w, x, d)
    BY <2>2, StaysSame
  <2> QED BY <1>1, <2>3, <2>4, <2>5
<1>2. CASE <<u, c>> \notin Unwelcome
  <2> DEFINE w == JoinUserUpdate(v, u, c)
  <2>1. /\ Put(w, u, c, FALSE)
        /\ \A x \in User, d \in Channel : x # u \/ d # c => Stays(v, w, x, d)
    BY <1>0, JoinPuts
  <2>2. JoinOrKick(v, u, c) = w
    BY <1>2 DEF JoinOrKick
  <2> HIDE DEF w
  <2> QED BY <1>2, <2>1, <2>2
<1> QED BY <1>1, <1>2

LEMMA SJoinUserPuts ==
  ASSUME NEW v, NEW u \in v.known, NEW c \in Channel, NEW op \in BOOLEAN, BotTyped, Good(v)
  PROVE  LET w == SJoinUser(v, u, c, op) IN
         /\ Kicked(w, u, c) \/ Put(w, u, c, op)
         /\ \A x \in User, d \in Channel : x # u \/ d # c => Stays(v, w, x, d)
<1> DEFINE y == JoinOrKick(v, u, c)
           w == SJoinUser(v, u, c, op)
<1>1. /\ IF <<u, c>> \in Unwelcome THEN Kicked(y, u, c) ELSE Put(y, u, c, FALSE)
      /\ \A x \in User, d \in Channel : x # u \/ d # c => Stays(v, y, x, d)
      /\ Fine(v, y) /\ y.known = v.known
  BY JoinOrKickPuts, JoinOrKickFine
<1>2. w = IF op /\ <<u, c>> \notin Unwelcome THEN AddOp(y, u, c, TRUE) ELSE y
  BY DEF SJoinUser
<1>3. y \in ViewRec /\ u \in User /\ u \in y.known
  BY <1>1 DEF Fine, Good, ViewRec
<1> HIDE DEF y, w
<1>4. CASE op /\ <<u, c>> \notin Unwelcome
  <2> DEFINE z == AddOp(y, u, c, TRUE)
  <2>1. On(y.chans[u], c)
    BY <1>1, <1>4 DEF Put
  <2>2. /\ Put(z, u, c, TRUE)
        /\ \A x \in User, d \in Channel : x # u \/ d # c => Stays(y, z, x, d)
    <3>1. ASSUME NEW f \in BOOLEAN
          PROVE  /\ Put(AddOp(y, u, c, f), u, c, TRUE)
                 /\ \A x \in User, d \in Channel : x # u \/ d # c => Stays(y, AddOp(y, u, c, f), x, d)
      BY <1>3, <2>1, AddOpPuts
    <3>2. TRUE \in BOOLEAN
      OBVIOUS
    <3> QED BY <3>1, <3>2, Zenon
  <2>3. w = z /\ op = TRUE
    BY <1>2, <1>4
  <2> HIDE DEF z
  <2>4. \A x \in User, d \in Channel : x # u \/ d # c => Stays(v, z, x, d)
    BY <1>1, <2>2, StaysTrans
  <2> QED BY <2>2, <2>3, <2>4 DEF w
<1>5. CASE ~op /\ <<u, c>> \notin Unwelcome
  <2>1. w = y /\ op = FALSE
    BY <1>2, <1>5
  <2> QED BY <1>1, <1>5, <2>1 DEF w
<1>6. CASE <<u, c>> \in Unwelcome
  BY <1>1, <1>2, <1>6 DEF w
<1> QED BY <1>4, <1>5, <1>6

\* do_sjoin() with one or two users: who is named, and known like the other,
\* is kicked, or put on the channel; the others stay.
LEMMA SJoinPuts ==
  ASSUME NEW v, NEW c \in Channel, NEW list \in Lists, BotTyped, Good(v)
  PROVE  LET w == SJoin(v, c, list) IN
         /\ Range(list) \subseteq v.known =>
               \A u \in Range(list) : Kicked(w, u, c) \/ Put(w, u, c, u = list[1])
         /\ \A x \in User, d \in Channel : x \notin Range(list) \/ d # c => Stays(v, w, x, d)
<1> DEFINE n == Heard(v, list)
           w == SJoin(v, c, list)
<1>1. list \in Seq(User) /\ Len(list) \in {1, 2} /\ DOMAIN list = 1..Len(list)
  <2>1. CASE list \in {<<u>> : u \in User}
    <3>1. PICK x \in User : list = <<x>>
      BY <2>1
    <3> QED BY <3>1
  <2>2. CASE list \in {p \in User \X User : p[1] # p[2]}
    <3>1. PICK x \in User, y \in User : list = <<x, y>>
      BY <2>2
    <3> QED BY <3>1
  <2> QED BY <2>1, <2>2 DEF Lists
<1>2. Len(list) = 2 => list[1] # list[2]
  <2>1. CASE list \in {<<u>> : u \in User}
    <3>1. PICK x \in User : list = <<x>>
      BY <2>1
    <3> QED BY <3>1
  <2>2. CASE list \in {p \in User \X User : p[1] # p[2]}
    BY <2>2
  <2> QED BY <2>1, <2>2 DEF Lists
<1>3. /\ n \in Nat
      /\ \A i \in 1..n : i \in DOMAIN list /\ list[i] \in v.known
      /\ (\A i \in DOMAIN list : list[i] \in v.known) => n = Len(list)
  BY <1>1, HeardAreKnown
<1> HIDE DEF n
<1>4. n \in {0, 1, 2} /\ n <= Len(list)
  <2>1. n = 0 \/ n \in 1..n
    BY <1>3
  <2>2. n = 0 \/ n \in DOMAIN list
    BY <1>3, <2>1
  <2>3. n \in Nat /\ (n = 0 \/ n \in 1..Len(list)) /\ Len(list) \in {1, 2}
    BY <1>1, <1>3, <2>2
  <2>4. ASSUME NEW k \in {1, 2}, n = 0 \/ n \in 1..k PROVE n \in {0, 1, 2} /\ n <= k
    BY <2>4
  <2> QED BY <2>3, <2>4, Zenon
<1>5. /\ \A y, i : Turn(Joiners(c, list), y, i) = JoinNth(y, c, list, i)
      /\ \A y : JoinNth(y, c, list, 1) = SJoinUser(y, list[1], c, TRUE)
      /\ \A y : JoinNth(y, c, list, 2) = SJoinUser(y, list[2], c, FALSE)
  <2>1. \A y, i : Turn(Joiners(c, list), y, i) = JoinNth(y, c, list, i)
    BY DEF Turn, Joiners
  <2>2. (1 = 1) = TRUE /\ (2 = 1) = FALSE
    OBVIOUS
  <2>3. \A y : JoinNth(y, c, list, 1) = SJoinUser(y, list[1], c, TRUE)
    BY <2>2, Zenon DEF JoinNth
  <2>4. \A y : JoinNth(y, c, list, 2) = SJoinUser(y, list[2], c, FALSE)
    BY <2>2, Zenon DEF JoinNth
  <2> QED BY <2>1, <2>3, <2>4
<1>6. PICK f : Turns(Joiners(c, list), v, n, f) /\ f[n] = JoinFold(v, c, list, n)
  BY <1>3, JoinFoldSteps
<1>7. w = f[n]
  BY <1>6, SJoinIsFold DEF n
<1> HIDE DEF w
<1>8. f[0] = v /\ \A k \in Nat : k < n => f[k + 1] = JoinNth(f[k], c, list, k + 1)
  BY <1>5, <1>6 DEF Turns
<1>9. \A i \in DOMAIN list : list[i] \in Range(list)
  BY DEF Range
<1>10. \A u \in Range(list) : \E i \in DOMAIN list : u = list[i]
  BY DEF Range
<1>11. ASSUME n >= 1
       PROVE  /\ f[1] = SJoinUser(v, list[1], c, TRUE)
              /\ Fine(v, f[1]) /\ f[1].known = v.known
              /\ Kicked(f[1], list[1], c) \/ Put(f[1], list[1], c, TRUE)
              /\ \A x \in User, d \in Channel : x # list[1] \/ d # c => Stays(v, f[1], x, d)
  <2>1. f[1] = JoinNth(v, c, list, 1)
    <3>1. 0 \in Nat /\ 0 < n /\ 0 + 1 = 1
      BY <1>4, <1>11
    <3>2. f[0 + 1] = JoinNth(f[0], c, list, 0 + 1)
      BY <1>8, <3>1
    <3> QED BY <1>8, <3>1, <3>2
  <2>2. f[1] = SJoinUser(v, list[1], c, TRUE)
    BY <1>5, <2>1, Zenon
  <2>3. list[1] \in v.known
    BY <1>3, <1>11
  <2>4. ASSUME NEW b \in BOOLEAN
        PROVE  LET y == SJoinUser(v, list[1], c, b) IN
               /\ Fine(v, y) /\ y.known = v.known
               /\ Kicked(y, list[1], c) \/ Put(y, list[1], c, b)
               /\ \A x \in User, d \in Channel : x # list[1] \/ d # c => Stays(v, y, x, d)
    BY <2>3, SJoinUserPuts, SJoinUserFine
  <2>5. TRUE \in BOOLEAN
    OBVIOUS
  <2> QED BY <2>2, <2>4, <2>5, Zenon
<1>12. ASSUME n = 2
       PROVE  /\ Fine(f[1], f[2])
              /\ Kicked(f[2], list[2], c) \/ Put(f[2], list[2], c, FALSE)
              /\ \A x \in User, d \in Channel : x # list[2] \/ d # c => Stays(f[1], f[2], x, d)
  <2>1. f[2] = JoinNth(f[1], c, list, 2)
    <3>1. 1 \in Nat /\ 1 < n /\ 1 + 1 = 2
      BY <1>12
    <3>2. f[1 + 1] = JoinNth(f[1], c, list, 1 + 1)
      BY <1>8, <3>1
    <3> QED BY <3>1, <3>2
  <2>2. f[2] = SJoinUser(f[1], list[2], c, FALSE)
    BY <1>5, <2>1, Zenon
  <2>3. list[2] \in f[1].known /\ Good(f[1])
    BY <1>3, <1>11, <1>12 DEF Fine
  <2>4. ASSUME NEW b \in BOOLEAN
        PROVE  LET y == SJoinUser(f[1], list[2], c, b) IN
               /\ Fine(f[1], y)
               /\ Kicked(y, list[2], c) \/ Put(y, list[2], c, b)
               /\ \A x \in User, d \in Channel : x # list[2] \/ d # c => Stays(f[1], y, x, d)
    BY <2>3, SJoinUserPuts, SJoinUserFine
  <2>5. FALSE \in BOOLEAN
    OBVIOUS
  <2> QED BY <2>2, <2>4, <2>5, Zenon
<1>13. ASSUME NEW x \in User, NEW d \in Channel, x \notin Range(list) \/ d # c
       PROVE  Stays(v, w, x, d)
  <2>1. CASE n = 0
    BY <1>7, <1>8, <2>1, StaysSame
  <2>2. CASE n = 1
    <3>1. x # list[1] \/ d # c
      BY <1>1, <1>9, <1>13
    <3> QED BY <1>7, <1>11, <2>2, <3>1
  <2>3. CASE n = 2
    <3>1. 1 \in DOMAIN list /\ 2 \in DOMAIN list
      BY <1>1, <1>4, <2>3
    <3>2. (x # list[1] /\ x # list[2]) \/ d # c
      BY <1>9, <1>13, <3>1
    <3>3. Stays(v, f[1], x, d)
      BY <1>11, <2>3, <3>2
    <3>4. Stays(f[1], f[2], x, d)
      BY <1>12, <2>3, <3>2
    <3> QED BY <1>7, <2>3, <3>3, <3>4, StaysTrans
  <2> QED BY <1>4, <2>1, <2>2, <2>3
<1>14. ASSUME Range(list) \subseteq v.known, NEW u \in Range(list)
       PROVE  Kicked(w, u, c) \/ Put(w, u, c, u = list[1])
  <2>1. n = Len(list)
    BY <1>3, <1>9, <1>14
  <2>2. PICK i \in DOMAIN list : u = list[i]
    BY <1>10
  <2>3. u \in User
    BY <1>1, <2>2
  <2>4. CASE n = 1
    <3>1. i = 1
      BY <1>1, <2>1, <2>2, <2>4
    <3>2. (u = list[1]) = TRUE
      BY <2>2, <3>1
    <3>3. Kicked(f[1], u, c) \/ Put(f[1], u, c, TRUE)
      <4>1. n >= 1 /\ u = list[1]
        BY <2>2, <2>4, <3>1
      <4> QED BY <1>11, <4>1, Zenon
    <3> QED BY <1>7, <2>4, <3>2, <3>3
  <2>5. CASE n = 2 /\ i = 1
    <3>1. (u = list[1]) = TRUE
      BY <2>2, <2>5
    <3>2. Kicked(f[1], u, c) \/ Put(f[1], u, c, TRUE)
      <4>1. n >= 1 /\ u = list[1]
        BY <2>2, <2>5
      <4> QED BY <1>11, <4>1, Zenon
    <3>3. u # list[2]
      BY <1>2, <2>1, <2>2, <2>5
    <3>4. Stays(f[1], f[2], u, c)
      BY <1>12, <2>3, <2>5, <3>3
    <3>5. Put(f[1], u, c, TRUE) => Put(f[2], u, c, TRUE)
      <4>1. TRUE \in BOOLEAN
        OBVIOUS
      <4> QED BY <3>4, <4>1, PutStays, Zenon
    <3>6. Kicked(f[1], u, c) => Kicked(f[2], u, c)
      BY <1>12, <2>5 DEF Fine, Grows, Kicked
    <3> QED BY <1>7, <2>5, <3>1, <3>2, <3>5, <3>6
  <2>6. CASE n = 2 /\ i # 1
    <3>1. i = 2
      BY <1>1, <2>1, <2>2, <2>6
    <3>2. (u = list[1]) = FALSE
      BY <1>2, <2>1, <2>2, <2>6, <3>1
    <3>3. Kicked(f[2], u, c) \/ Put(f[2], u, c, FALSE)
      BY <1>12, <2>2, <2>6, <3>1
    <3> QED BY <1>7, <2>6, <3>2, <3>3
  <2> QED BY <1>1, <1>4, <2>1, <2>4, <2>5, <2>6
<1> QED BY <1>13, <1>14 DEF w

-----------------------------------------------------------------------------
(* What a message tells services of user u on channel c.                   *)

Joins(u, c) ==
    {m \in Message : \/ m.type = "join" /\ m.who = u /\ m.chan = c
                     \/ m.type = "sjoin" /\ u \in Range(m.who) /\ m.chan = c}
Leaves(u, c) ==
    {m \in Message : \/ m.type \in {"part", "kick"} /\ m.who = u /\ m.chan = c
                     \/ m.type \in {"part0", "quit"} /\ m.who = u}
Modes(u, c) == {m \in Message : m.type \in {"op", "servop", "deop"} /\ m.who = u /\ m.chan = c}
Touches(u, c) == Joins(u, c) \cup Leaves(u, c) \cup Modes(u, c)

\* Those after which he is on it as an op, or not as an op.
Sets(u, c, op) ==
    {m \in Joins(u, c) \cup Modes(u, c) :
        op <=> (m.type \in {"op", "servop"} \/ (m.type = "sjoin" /\ u = m.who[1]))}

\* Those after which he is not.
Unsets(u, c, op) == Touches(u, c) \ Sets(u, c, op)

\* Services have done what m tells of him.
Tracks(m, u, c, w) ==
    /\ m \in Joins(u, c) => On(w.chans[u], c)
    /\ m \notin Leaves(u, c) /\ On(chans[u], c) => On(w.chans[u], c)
    /\ <<u, c>> \in Trusted => \A op \in BOOLEAN :
          /\ m \in Sets(u, c, op) /\ (m \in Joins(u, c) \/ On(chans[u], c)) => OnAs(w.chans[u], c, op)
          /\ m \notin Touches(u, c) /\ OnAs(chans[u], c, op) => OnAs(w.chans[u], c, op)

LEMMA TracksOthers ==
  ASSUME NEW m, NEW u, NEW c, NEW w, View.chans = chans, Stays(View, w, u, c),
         m \notin Joins(u, c), m \notin Modes(u, c)
  PROVE  Tracks(m, u, c, w)
<1>1. \A op \in BOOLEAN : m \notin Sets(u, c, op)
  BY DEF Sets
<1>2. On(chans[u], c) => On(w.chans[u], c)
  BY StaysOn
<1>3. \A op \in BOOLEAN : OnAs(chans[u], c, op) => OnAs(w.chans[u], c, op)
  BY DEF Stays
<1> QED BY <1>1, <1>2, <1>3 DEF Tracks

LEMMA TracksLeaving ==
  ASSUME NEW m, NEW u, NEW c, NEW w, m \in Leaves(u, c)
  PROVE  Tracks(m, u, c, w)
<1>1. m \notin Joins(u, c) /\ m \notin Modes(u, c) /\ m \in Touches(u, c)
  BY DEF Leaves, Joins, Modes, Touches
<1>2. \A op \in BOOLEAN : m \notin Sets(u, c, op)
  BY <1>1 DEF Sets
<1> QED BY <1>1, <1>2 DEF Tracks

LEMMA TracksPut ==
  ASSUME NEW m, NEW u, NEW c, NEW w, NEW op \in BOOLEAN,
         m \in Joins(u, c) \/ On(chans[u], c) => Put(w, u, c, op),
         m \in Sets(u, c, op)
  PROVE  Tracks(m, u, c, w)
<1>1. m \in Touches(u, c)
  BY DEF Sets, Touches
<1>2. ASSUME NEW b \in BOOLEAN, m \in Sets(u, c, b) PROVE b = op
  BY <1>2 DEF Sets
<1>3. m \in Joins(u, c) \/ On(chans[u], c) =>
         On(w.chans[u], c) /\ (<<u, c>> \in Trusted => OnAs(w.chans[u], c, op))
  BY DEF Put
<1> QED BY <1>1, <1>2, <1>3 DEF Tracks

LEMMA HandleTracks ==
  ASSUME NEW m \in Message, m.type \in FromNetwork, TypeOK, Good(View),
         NEW u \in known, NEW c \in Channel,
         m.type = "sjoin" => m.who \in Lists /\ (u \in Range(m.who) => Range(m.who) \subseteq known)
  PROVE  Kicked(Handle(m), u, c) \/ Tracks(m, u, c, Handle(m))
<1> DEFINE w == Handle(m)
<1>0. /\ View.known = known /\ View.chans = chans /\ View \in ViewRec
      /\ known \subseteq User /\ u \in User /\ BotTyped
  BY ViewFields DEF TypeOK
<1>1. TRUE \in BOOLEAN /\ FALSE \in BOOLEAN
  OBVIOUS
<1>2. ASSUME w.chans = View.chans \/ Stays(View, w, u, c), m \notin Joins(u, c), m \notin Modes(u, c)
      PROVE  Tracks(m, u, c, w)
  <2> HIDE DEF w
  <2> QED BY <1>0, <1>2, StaysSame, TracksOthers
<1>3. CASE m.type = "join"
  <2>1. w = IF m.who \in known THEN JoinOrKick(View, m.who, m.chan) ELSE View
    BY <1>3 DEF Handle
  <2>2. m.chan \in Channel
    BY <1>3, MessageFields
  <2> HIDE DEF w
  <2>3. CASE m.who = u /\ m.chan = c
    <3>1. Kicked(w, u, c) \/ Put(w, u, c, FALSE)
      BY <1>0, <2>1, <2>3, JoinOrKickPuts
    <3>2. m \in Sets(u, c, FALSE)
      BY <1>3, <2>3 DEF Sets, Joins
    <3> QED BY <1>1, <3>1, <3>2, TracksPut DEF w
  <2>4. CASE ~(m.who = u /\ m.chan = c)
    <3>1. Stays(View, w, u, c)
      BY <1>0, <2>1, <2>2, <2>4, JoinOrKickPuts, StaysSame
    <3>2. m \notin Joins(u, c) /\ m \notin Modes(u, c)
      BY <1>3, <2>4 DEF Joins, Modes
    <3> QED BY <1>2, <3>1, <3>2 DEF w
  <2> QED BY <2>3, <2>4
<1>4. CASE m.type \in {"part", "kick"}
  <2>1. w = IF m.type = "kick" /\ m.who \in Bot THEN BotJoin(View, m.chan)
            ELSE IF m.who \in known THEN Leave(View, m.who, m.chan) ELSE View
    BY <1>4 DEF Handle
  <2>2. m.chan \in Channel
    BY <1>4, MessageFields
  <2> HIDE DEF w
  <2>3. CASE m.who = u /\ m.chan = c
    <3>1. m \in Leaves(u, c)
      BY <1>4, <2>3 DEF Leaves
    <3> QED BY <3>1, TracksLeaving
  <2>4. CASE ~(m.who = u /\ m.chan = c)
    <3>1. m.who \in known => Stays(View, Leave(View, m.who, m.chan), u, c)
      BY <1>0, <2>2, <2>4, LeaveStays
    <3>2. BotJoin(View, m.chan).chans = View.chans
      BY <1>0, <2>2, BotJoinFields
    <3>3. w.chans = View.chans \/ Stays(View, w, u, c)
      BY <2>1, <3>1, <3>2
    <3>4. m \notin Joins(u, c) /\ m \notin Modes(u, c)
      BY <1>4 DEF Joins, Modes
    <3> QED BY <1>2, <3>3, <3>4 DEF w
  <2> QED BY <2>3, <2>4
<1>5. CASE m.type \in {"part0", "quit"}
  <2>1. w = IF m.who \notin known THEN View
            ELSE IF m.type = "quit" THEN DeleteUser(View, m.who) ELSE LeaveAll(View, m.who)
    BY <1>5 DEF Handle
  <2>2. m.who \in User
    BY <1>5, MessageFields
  <2> HIDE DEF w
  <2>3. CASE m.who = u
    <3>1. m \in Leaves(u, c)
      BY <1>5, <2>3 DEF Leaves
    <3> QED BY <3>1, TracksLeaving
  <2>4. CASE m.who # u
    <3>1. DeleteUser(View, m.who).chans[u] = View.chans[u]
      BY <1>0, <2>2, <2>4, DeleteUserFields
    <3>2. LeaveAll(View, m.who).chans[u] = View.chans[u]
      BY <1>0, <2>2, <2>4, LeaveAllFields
    <3>3. Stays(View, w, u, c)
      BY <2>1, <3>1, <3>2, StaysSame
    <3>4. m \notin Joins(u, c) /\ m \notin Modes(u, c)
      BY <1>5 DEF Joins, Modes
    <3> QED BY <1>2, <3>3, <3>4 DEF w
  <2> QED BY <2>3, <2>4
<1>6. CASE m.type = "sjoin"
  <2> DEFINE d == m.chan
             l == m.who
  <2>1. w = SJoin(View, d, l)
    BY <1>6 DEF Handle
  <2>2. d \in Channel /\ l \in Lists
    BY <1>6, MessageFields
  <2> HIDE DEF w
  <2>3. /\ Range(l) \subseteq known =>
              \A x \in Range(l) : Kicked(w, x, d) \/ Put(w, x, d, x = l[1])
        /\ \A x \in User, e \in Channel : x \notin Range(l) \/ e # d => Stays(View, w, x, e)
    BY <1>0, <2>1, <2>2, SJoinPuts
  <2>4. CASE u \in Range(l) /\ d = c
    <3> DEFINE op == (u = l[1])
    <3>1. Kicked(w, u, c) \/ Put(w, u, c, op)
      BY <1>6, <2>3, <2>4
    <3>2. m \in Sets(u, c, op)
      BY <1>6, <2>4 DEF Sets, Joins
    <3>3. op \in BOOLEAN
      OBVIOUS
    <3> HIDE DEF op
    <3> QED BY <3>1, <3>2, <3>3, TracksPut DEF w
  <2>5. CASE ~(u \in Range(l) /\ d = c)
    <3>1. Stays(View, w, u, c)
      BY <1>0, <2>3, <2>5
    <3>2. m \notin Joins(u, c) /\ m \notin Modes(u, c)
      BY <1>6, <2>5 DEF Joins, Modes
    <3> QED BY <1>2, <3>1, <3>2 DEF w
  <2> QED BY <2>4, <2>5
<1>7. ASSUME m.type \in {"op", "servop", "deop"}, NEW op \in BOOLEAN, op <=> m.type # "deop",
             On(chans[m.who], m.chan) /\ m.who \in known => Put(w, m.who, m.chan, op),
             \A x \in User, d \in Channel : x # m.who \/ d # m.chan => Stays(View, w, x, d)
      PROVE  Tracks(m, u, c, w)
  <2> HIDE DEF w
  <2>1. m \notin Joins(u, c)
    BY <1>7 DEF Joins
  <2>2. CASE m.who = u /\ m.chan = c
    <3>1. m \in Sets(u, c, op)
      BY <1>7, <2>2 DEF Sets, Modes
    <3>2. On(chans[u], c) => Put(w, u, c, op)
      BY <1>7, <2>2
    <3> QED BY <2>1, <3>1, <3>2, TracksPut
  <2>3. CASE ~(m.who = u /\ m.chan = c)
    <3>1. m \notin Modes(u, c)
      BY <1>7, <2>3 DEF Modes
    <3>2. Stays(View, w, u, c)
      BY <1>0, <1>7, <2>3
    <3> QED BY <1>0, <2>1, <3>1, <3>2, TracksOthers
  <2> QED BY <2>2, <2>3
<1>8. CASE m.type \in {"op", "servop"}
  <2> DEFINE A(s) == AddOp(View, m.who, m.chan, s)
  <2>1. w = IF m.type = "op" THEN A(FALSE) ELSE A(TRUE)
    BY <1>8 DEF Handle
  <2>2. m.chan \in Channel /\ m.who \in User
    BY <1>8, MessageFields
  <2>3. \A s \in BOOLEAN :
          /\ m.who \in known /\ On(chans[m.who], m.chan) => Put(A(s), m.who, m.chan, TRUE)
          /\ \A x \in User, d \in Channel : x # m.who \/ d # m.chan => Stays(View, A(s), x, d)
    BY <1>0, <2>2, AddOpPuts
  <2> HIDE DEF w, A
  <2>4. PICK s \in BOOLEAN : w = A(s)
    BY <1>1, <2>1, Zenon
  <2>5. /\ m.who \in known /\ On(chans[m.who], m.chan) => Put(w, m.who, m.chan, TRUE)
        /\ \A x \in User, d \in Channel : x # m.who \/ d # m.chan => Stays(View, w, x, d)
    BY <2>3, <2>4, Zenon
  <2>6. TRUE <=> m.type # "deop"
    BY <1>8
  <2>7. m.type \in {"op", "servop", "deop"}
    BY <1>8
  <2> QED BY <1>1, <1>7, <2>5, <2>6, <2>7, Zenon DEF w
<1>9. CASE m.type = "deop"
  <2> DEFINE A(f) == SetOp(View, m.who, m.chan, f)
  <2>1. w = IF m.who \in known THEN A(FALSE) ELSE View
    BY <1>9 DEF Handle
  <2>2. m.chan \in Channel /\ m.who \in User
    BY <1>9, MessageFields
  <2>3. \A f \in BOOLEAN :
          /\ On(chans[m.who], m.chan) => OnAs(A(f).chans[m.who], m.chan, f)
          /\ \A x \in User, d \in Channel : x # m.who \/ d # m.chan => Stays(View, A(f), x, d)
    BY <1>0, <2>2, SetOpPuts
  <2> HIDE DEF w, A
  <2>4. On(chans[m.who], m.chan) => OnAs(A(FALSE).chans[m.who], m.chan, FALSE)
    BY <1>1, <2>3, Zenon
  <2>5. m.who \in known /\ On(chans[m.who], m.chan) => Put(w, m.who, m.chan, FALSE)
    BY <1>1, <2>1, <2>4 DEF Put, On
  <2>6. \A x \in User, d \in Channel : x # m.who \/ d # m.chan => Stays(View, w, x, d)
    <3>1. \A x \in User, d \in Channel : x # m.who \/ d # m.chan => Stays(View, A(FALSE), x, d)
      BY <1>1, <2>3, Zenon
    <3> QED BY <2>1, <3>1, StaysSame
  <2>7. (FALSE <=> m.type # "deop") /\ m.type \in {"op", "servop", "deop"}
    BY <1>9
  <2> QED BY <1>1, <1>7, <2>5, <2>6, <2>7, Zenon DEF w
<1> QED BY <1>3, <1>4, <1>5, <1>6, <1>8, <1>9 DEF FromNetwork

LEMMA SJoinKnown ==
  ASSUME NEW v, NEW c \in Channel, NEW list \in Seq(User), BotTyped, Good(v)
  PROVE  SJoin(v, c, list).known = v.known
BY SJoinFine

\* Only a QUIT takes a record away.
LEMMA HandleKnown ==
  ASSUME NEW m \in Message, m.type \in FromNetwork, TypeOK, Good(View)
  PROVE  Handle(m).known = IF m.type = "quit" THEN known \ {m.who} ELSE known
<1>0. View.known = known /\ known \subseteq User /\ View \in ViewRec /\ BotTyped
  BY ViewFields DEF TypeOK
<1>1. ASSUME NEW u \in known, NEW c \in Channel
      PROVE  JoinOrKick(View, u, c).known = known /\ Leave(View, u, c).known = known
  <2>1. u \in User
    BY <1>0
  <2>2. JoinOrKick(View, u, c).known = known
    BY <1>0, JoinOrKickFine
  <2>3. CASE IsOnChan(View, u, c)
    BY <1>0, <2>1, <2>2, <2>3, LeaveFields
  <2>4. CASE ~IsOnChan(View, u, c)
    BY <1>0, <2>2, <2>4 DEF Leave
  <2> QED BY <2>3, <2>4
<1>2. ASSUME NEW u \in User
      PROVE  LeaveAll(View, u).known = known /\ DeleteUser(View, u).known = known \ {u}
  BY <1>0, LeaveAllFields, DeleteUserFields
<1>3. ASSUME NEW u \in User, NEW c \in Channel, NEW b \in BOOLEAN
      PROVE  AddOp(View, u, c, b).known = known /\ SetOp(View, u, c, b).known = known
  BY <1>0, AddOpFine, SetOpFine
<1>4. \A c \in Channel : BotJoin(View, c).known = known
  BY <1>0, BotJoinFields
<1>5. CASE m.type \in {"join", "part", "kick"}
  <2>1. m.chan \in Channel
    BY <1>5, MessageFields
  <2> QED BY <1>0, <1>1, <1>4, <1>5, <2>1 DEF Handle
<1>6. CASE m.type \in {"part0", "quit"}
  <2>1. m.who \in User
    BY <1>6, MessageFields
  <2>2. Handle(m) = IF m.who \notin known THEN View
                    ELSE IF m.type = "quit" THEN DeleteUser(View, m.who) ELSE LeaveAll(View, m.who)
    BY <1>6 DEF Handle
  <2>3. m.who \notin known => known \ {m.who} = known
    OBVIOUS
  <2> QED BY <1>0, <1>2, <1>6, <2>1, <2>2, <2>3
<1>7. CASE m.type = "sjoin"
  <2>1. m.chan \in Channel /\ m.who \in Seq(User)
    BY <1>7, MessageFields
  <2>2. Handle(m) = SJoin(View, m.chan, m.who)
    BY <1>7 DEF Handle
  <2> QED BY <1>0, <1>7, <2>1, <2>2, SJoinKnown
<1>8. CASE m.type \in {"op", "servop", "deop"}
  <2>1. m.chan \in Channel /\ m.who \in User
    BY <1>8, MessageFields
  <2>2. TRUE \in BOOLEAN /\ FALSE \in BOOLEAN
    OBVIOUS
  <2>3. /\ AddOp(View, m.who, m.chan, TRUE).known = known
        /\ AddOp(View, m.who, m.chan, FALSE).known = known
        /\ SetOp(View, m.who, m.chan, FALSE).known = known
    BY <1>3, <2>1, <2>2, Zenon
  <2> QED BY <1>0, <1>8, <2>3 DEF Handle
<1> QED BY <1>5, <1>6, <1>7, <1>8 DEF FromNetwork

-----------------------------------------------------------------------------
(* What the last message of a kind on its way leads to.                    *)

\* The last of the messages T in s is one of Q; without any, start holds.
Latest(s, Q, T, start) ==
    \/ \E i \in DOMAIN s : s[i] \in Q /\ \A j \in DOMAIN s : i < j => s[j] \notin T
    \/ start /\ \A j \in DOMAIN s : s[j] \notin T

LEMMA LastAppend ==
  ASSUME NEW s \in Seq(Message), NEW m \in Message, NEW Q, NEW T, NEW start
  PROVE  /\ m \in Q => Latest(Append(s, m), Q, T, start)
         /\ m \notin T /\ Latest(s, Q, T, start) => Latest(Append(s, m), Q, T, start)
<1> DEFINE t == Append(s, m)
<1>1. /\ DOMAIN s = 1..Len(s) /\ Len(s) \in Nat /\ DOMAIN t = 1..(Len(s) + 1)
      /\ \A i \in 1..Len(s) : t[i] = s[i]
      /\ t[Len(s) + 1] = m
  OBVIOUS
<1> HIDE DEF t
<1>2. ASSUME m \in Q PROVE Latest(t, Q, T, start)
  <2>1. \A j \in DOMAIN t : ~(Len(s) + 1 < j)
    BY <1>1
  <2>2. Len(s) + 1 \in DOMAIN t /\ t[Len(s) + 1] \in Q
    BY <1>1, <1>2
  <2> QED BY <2>1, <2>2 DEF Latest
<1>3. ASSUME m \notin T, Latest(s, Q, T, start) PROVE Latest(t, Q, T, start)
  <2>1. \A j \in DOMAIN t : (j \in DOMAIN s /\ t[j] = s[j]) \/ t[j] \notin T
    BY <1>1, <1>3
  <2>2. ASSUME NEW i \in DOMAIN s, s[i] \in Q, \A j \in DOMAIN s : i < j => s[j] \notin T
        PROVE  Latest(t, Q, T, start)
    <3>1. i \in DOMAIN t /\ t[i] \in Q
      BY <1>1, <2>2
    <3>2. \A j \in DOMAIN t : i < j => t[j] \notin T
      BY <2>1, <2>2
    <3> QED BY <3>1, <3>2 DEF Latest
  <2>3. ASSUME start, \A j \in DOMAIN s : s[j] \notin T PROVE Latest(t, Q, T, start)
    BY <2>1, <2>3 DEF Latest
  <2> QED BY <1>3, <2>2, <2>3 DEF Latest
<1> QED BY <1>2, <1>3 DEF t

\* The first message has been received.
LEMMA LastTail ==
  ASSUME NEW s \in Seq(Message), s # <<>>, NEW Q, NEW T, NEW start, NEW after,
         Latest(s, Q, T, start),
         /\ \A j \in DOMAIN s : 1 < j => s[j] \notin T \cup Q
         /\ s[1] \in Q \/ (start /\ s[1] \notin T)
         => after
  PROVE  Latest(Tail(s), Q, T, after)
<1> DEFINE t == Tail(s)
<1>1. /\ DOMAIN s = 1..Len(s) /\ Len(s) \in Nat /\ 1 \in DOMAIN s
      /\ DOMAIN t = 1..(Len(s) - 1)
      /\ \A i \in 1..(Len(s) - 1) : t[i] = s[i + 1]
  OBVIOUS
<1> HIDE DEF t
<1>2. \A j \in DOMAIN t : j + 1 \in DOMAIN s /\ 1 < j + 1 /\ t[j] = s[j + 1]
  BY <1>1
<1>0. ASSUME NEW k \in DOMAIN s, 1 < k, s[k] \in Q, \A j \in DOMAIN t : t[j] \notin T
      PROVE  Latest(t, Q, T, after)
  <2>1. k - 1 \in DOMAIN t /\ t[k - 1] = s[k]
    <3>1. k - 1 \in 1..(Len(s) - 1) /\ (k - 1) + 1 = k
      BY <1>1, <1>0
    <3> QED BY <1>1, <3>1
  <2> QED BY <1>0, <2>1 DEF Latest
<1>3. ASSUME NEW i \in DOMAIN s, s[i] \in Q, \A j \in DOMAIN s : i < j => s[j] \notin T
      PROVE  Latest(t, Q, T, after)
  <2>1. CASE i = 1
    <3>1. \A j \in DOMAIN t : t[j] \notin T
      BY <1>2, <1>3, <2>1
    <3>2. CASE \E k \in DOMAIN s : 1 < k /\ s[k] \in Q
      BY <1>0, <3>1, <3>2
    <3>3. CASE ~\E k \in DOMAIN s : 1 < k /\ s[k] \in Q
      <4>1. after
        BY <1>3, <2>1, <3>3
      <4> QED BY <3>1, <4>1 DEF Latest
    <3> QED BY <3>2, <3>3
  <2>2. CASE i # 1
    <3>1. i - 1 \in DOMAIN t /\ t[i - 1] = s[i]
      <4>1. i - 1 \in 1..(Len(s) - 1) /\ (i - 1) + 1 = i
        BY <1>1, <2>2
      <4> QED BY <1>1, <4>1
    <3>2. \A j \in DOMAIN t : i - 1 < j => i < j + 1
      BY <1>1
    <3>3. \A j \in DOMAIN t : i - 1 < j => t[j] \notin T
      BY <1>2, <1>3, <3>2
    <3> QED BY <1>3, <3>1, <3>3 DEF Latest
  <2> QED BY <2>1, <2>2
<1>4. ASSUME start, \A j \in DOMAIN s : s[j] \notin T PROVE Latest(t, Q, T, after)
  <2>1. \A j \in DOMAIN t : t[j] \notin T
    BY <1>2, <1>4
  <2>2. CASE \E k \in DOMAIN s : 1 < k /\ s[k] \in Q
    BY <1>0, <2>1, <2>2
  <2>3. CASE ~\E k \in DOMAIN s : 1 < k /\ s[k] \in Q
    <3>1. after
      BY <1>1, <1>4, <2>3
    <3> QED BY <2>1, <3>1 DEF Latest
  <2> QED BY <2>2, <2>3
<1> QED BY <1>3, <1>4 DEF Latest, t

\* And back: what is so now was so before.
LEMMA LastTailBack ==
  ASSUME NEW s \in Seq(Message), s # <<>>, NEW Q, NEW T, NEW start, NEW after,
         Latest(Tail(s), Q, T, after),
         after => s[1] \in Q \/ (start /\ s[1] \notin T)
  PROVE  Latest(s, Q, T, start)
<1> DEFINE t == Tail(s)
<1>1. /\ DOMAIN s = 1..Len(s) /\ Len(s) \in Nat /\ 1 \in DOMAIN s
      /\ DOMAIN t = 1..(Len(s) - 1)
      /\ \A i \in 1..(Len(s) - 1) : t[i] = s[i + 1]
  OBVIOUS
<1>2. Latest(t, Q, T, after)
  OBVIOUS
<1> HIDE DEF t
<1>3. \A j \in DOMAIN s : 1 < j => j - 1 \in DOMAIN t /\ t[j - 1] = s[j]
  <2> SUFFICES ASSUME NEW j \in DOMAIN s, 1 < j PROVE j - 1 \in DOMAIN t /\ t[j - 1] = s[j]
    OBVIOUS
  <2>1. j - 1 \in 1..(Len(s) - 1) /\ (j - 1) + 1 = j
    BY <1>1
  <2> QED BY <1>1, <2>1
<1>4. ASSUME NEW i \in DOMAIN t, t[i] \in Q, \A j \in DOMAIN t : i < j => t[j] \notin T
      PROVE  Latest(s, Q, T, start)
  <2>1. i + 1 \in DOMAIN s /\ s[i + 1] \in Q
    BY <1>1, <1>4
  <2>2. \A j \in DOMAIN s : i + 1 < j => 1 < j /\ i < j - 1
    BY <1>1, <1>4
  <2>3. \A j \in DOMAIN s : i + 1 < j => s[j] \notin T
    BY <1>3, <1>4, <2>2
  <2> QED BY <2>1, <2>3 DEF Latest
<1>5. ASSUME after, \A j \in DOMAIN t : t[j] \notin T PROVE Latest(s, Q, T, start)
  <2>1. \A j \in DOMAIN s : 1 < j => s[j] \notin T
    BY <1>3, <1>5
  <2>2. \A j \in DOMAIN s : j = 1 \/ 1 < j
    BY <1>1
  <2> QED BY <1>1, <1>5, <2>1, <2>2 DEF Latest
<1> QED BY <1>2, <1>4, <1>5 DEF Latest

\* Several messages follow.
LEMMA LastConcat ==
  ASSUME NEW s \in Seq(Message), NEW t \in Seq(Message), NEW q, NEW d, NEW start
  PROVE  /\ ~Has(t, d) /\ Latest(s, {q}, {d}, start) => Latest(s \o t, {q}, {d}, start)
         /\ ~Has(t, d) /\ Has(t, q) => Latest(s \o t, {q}, {d}, start)
         /\ ~Has(t, d) /\ ~Has(t, q) /\ Latest(s \o t, {q}, {d}, start) => Latest(s, {q}, {d}, start)
         /\ Has(t, d) /\ ~Has(t, q) => ~Latest(s \o t, {q}, {d}, start)
<1> DEFINE r == s \o t
           n == Len(s)
<1>1. /\ n \in Nat /\ Len(t) \in Nat /\ DOMAIN s = 1..n /\ DOMAIN t = 1..Len(t)
      /\ DOMAIN r = 1..(n + Len(t))
      /\ \A i \in 1..n : r[i] = s[i]
      /\ \A i \in 1..Len(t) : r[n + i] = t[i]
  OBVIOUS
<1> HIDE DEF r, n
<1>2. \A i \in DOMAIN s : i \in DOMAIN r /\ r[i] = s[i]
  BY <1>1
<1>3. \A i \in DOMAIN t : n + i \in DOMAIN r /\ r[n + i] = t[i]
  BY <1>1
<1>4. \A i \in DOMAIN r : i \notin DOMAIN s => n < i /\ i - n \in DOMAIN t /\ r[i] = t[i - n]
  <2> SUFFICES ASSUME NEW i \in DOMAIN r, i \notin DOMAIN s
               PROVE  n < i /\ i - n \in DOMAIN t /\ r[i] = t[i - n]
    OBVIOUS
  <2>1. n < i /\ i - n \in 1..Len(t) /\ n + (i - n) = i
    BY <1>1
  <2> QED BY <1>1, <2>1
<1>5. \A i \in DOMAIN s, j \in DOMAIN r : j \notin DOMAIN s => i < j
  BY <1>1
<1>6. ASSUME ~Has(t, d) PROVE \A j \in DOMAIN r : j \notin DOMAIN s => r[j] # d
  BY <1>4, <1>6 DEF Has
<1>7. ASSUME ~Has(t, d), Latest(s, {q}, {d}, start) PROVE Latest(r, {q}, {d}, start)
  <2>1. ASSUME NEW i \in DOMAIN s, s[i] \in {q}, \A j \in DOMAIN s : i < j => s[j] \notin {d}
        PROVE  Latest(r, {q}, {d}, start)
    <3>1. i \in DOMAIN r /\ r[i] \in {q}
      BY <1>2, <2>1
    <3>2. \A j \in DOMAIN r : i < j => r[j] \notin {d}
      BY <1>2, <1>6, <1>7, <2>1
    <3> QED BY <3>1, <3>2 DEF Latest
  <2>2. ASSUME start, \A j \in DOMAIN s : s[j] \notin {d} PROVE Latest(r, {q}, {d}, start)
    <3>1. \A j \in DOMAIN r : r[j] \notin {d}
      BY <1>2, <1>6, <1>7, <2>2
    <3> QED BY <2>2, <3>1 DEF Latest
  <2> QED BY <1>7, <2>1, <2>2 DEF Latest
<1>8. ASSUME ~Has(t, d), Has(t, q) PROVE Latest(r, {q}, {d}, start)
  <2>1. PICK i \in DOMAIN t : t[i] = q
    BY <1>8 DEF Has
  <2>2. n + i \in DOMAIN r /\ r[n + i] \in {q}
    BY <1>3, <2>1
  <2>3. \A j \in DOMAIN r : n + i < j => j \notin DOMAIN s
    BY <1>1, <2>1
  <2>4. \A j \in DOMAIN r : n + i < j => r[j] \notin {d}
    BY <1>6, <1>8, <2>3
  <2> QED BY <2>2, <2>4 DEF Latest
<1>9. ASSUME ~Has(t, d), ~Has(t, q), Latest(r, {q}, {d}, start) PROVE Latest(s, {q}, {d}, start)
  <2>1. \A j \in DOMAIN r : j \notin DOMAIN s => r[j] # q
    BY <1>4, <1>9 DEF Has
  <2>2. ASSUME NEW i \in DOMAIN r, r[i] \in {q}, \A j \in DOMAIN r : i < j => r[j] \notin {d}
        PROVE  Latest(s, {q}, {d}, start)
    <3>1. i \in DOMAIN s /\ s[i] \in {q}
      BY <1>2, <2>1, <2>2
    <3>2. \A j \in DOMAIN s : i < j => s[j] \notin {d}
      BY <1>2, <2>2
    <3> QED BY <3>1, <3>2 DEF Latest
  <2>3. ASSUME start, \A j \in DOMAIN r : r[j] \notin {d} PROVE Latest(s, {q}, {d}, start)
    BY <1>2, <2>3 DEF Latest
  <2> QED BY <1>9, <2>2, <2>3 DEF Latest
<1>10. ASSUME Has(t, d), ~Has(t, q) PROVE ~Latest(r, {q}, {d}, start)
  <2>1. \A j \in DOMAIN r : j \notin DOMAIN s => r[j] # q
    BY <1>4, <1>10 DEF Has
  <2>2. PICK k \in DOMAIN t : t[k] = d
    BY <1>10 DEF Has
  <2>3. n + k \in DOMAIN r /\ r[n + k] = d
    BY <1>3, <2>2
  <2>4. \A i \in DOMAIN s : i < n + k
    BY <1>1, <2>2
  <2>5. \A i \in DOMAIN r : r[i] \in {q} => i \in DOMAIN s
    BY <2>1
  <2>6. ~\E i \in DOMAIN r : r[i] \in {q} /\ \A j \in DOMAIN r : i < j => r[j] \notin {d}
    BY <2>3, <2>4, <2>5
  <2> QED BY <2>3, <2>6 DEF Latest
<1> QED BY <1>7, <1>8, <1>9, <1>10 DEF r

\* Another state to start from.
LEMMA LastStart ==
  ASSUME NEW s, NEW Q, NEW T, NEW start, NEW after, Latest(s, Q, T, start), start => after
  PROVE  Latest(s, Q, T, after)
BY DEF Latest

-----------------------------------------------------------------------------
(* What services know of who is on a channel.                              *)

Gone(u) == [type |-> "kill", who |-> u]

\* He is about to be removed from c.
Away(u, c) == Has(downlink, To("kick", c, u)) \/ Has(downlink, Gone(u))

\* He will be an op on c, if he is on it, when everything services sent has
\* arrived.
IsOp(u, c) == Latest(downlink, {To("op", c, u)}, {To("deop", c, u)}, u \in ops[c])

Heard1(u, c) == Latest(uplink, Joins(u, c), Leaves(u, c), On(chans[u], c))
Heard2(u, c) ==
    Latest(uplink, Sets(u, c, IsOp(u, c)), Unsets(u, c, IsOp(u, c)), OnAs(chans[u], c, IsOp(u, c)))

\* The +o that he got as he joined is not recorded.
Given(u, c) == <<u, c>> \in AutoOption /\ IsOp(u, c)
HeardOp(u, c) == <<u, c>> \in Trusted => Given(u, c) \/ Heard2(u, c)

\* Whoever is on a channel is about to be removed, or services have him on it,
\* and with his status, once they have read what is on its way.
Tracked(u, c) == u \in on[c] => Away(u, c) \/ (Heard1(u, c) /\ HeardOp(u, c))

OnlineOnly == \A c \in Channel : on[c] \cap User \subseteq online /\ ops[c] \subseteq on[c]
KilledOnly == \A u \in online \ known : Has(downlink, Gone(u))

\* Who has quit never comes back, nor in an SJOIN of several.
QuitsLast ==
    \A i \in DOMAIN uplink : uplink[i].type = "quit" =>
        /\ uplink[i].who \notin online
        /\ \A j \in DOMAIN uplink :
              i < j /\ IsBurst(uplink[j]) => uplink[i].who \notin Range(uplink[j].who)
BurstsKnown ==
    \A i \in DOMAIN uplink : uplink[i].type = "sjoin" =>
        /\ uplink[i].who \in Lists
        /\ IsBurst(uplink[i]) => Range(uplink[i].who) \subseteq known

AllTracked == \A u \in User, c \in Channel : Tracked(u, c)
UInv == OnlineOnly /\ KilledOnly /\ QuitsLast /\ BurstsKnown /\ AllTracked

\* The two events services cannot follow do not happen.
Followed == {"burst_kill", "deop_op"} \cap Allowed = {}

LEMMA HasInRange ==
  ASSUME NEW s, NEW m
  PROVE  m \in Range(s) <=> Has(s, m)
BY DEF Range, Has

LEMMA UInvStart ==
  ASSUME Init
  PROVE  UInv
<1>1. DOMAIN uplink = {} /\ \A c \in Channel : on[c] = {} /\ ops[c] = {}
  BY DEF Init
<1>2. OnlineOnly /\ AllTracked
  BY <1>1 DEF OnlineOnly, AllTracked, Tracked
<1>3. KilledOnly
  BY DEF Init, KilledOnly
<1>4. QuitsLast /\ BurstsKnown
  BY <1>1 DEF QuitsLast, BurstsKnown
<1> QED BY <1>2, <1>3, <1>4 DEF UInv

\* Services know who is online and not about to be killed.
LEMMA OnAreKnown ==
  ASSUME UInv, NEW u \in User, NEW c \in Channel, u \in on[c], ~Away(u, c)
  PROVE  u \in known
BY DEF UInv, OnlineOnly, KilledOnly, Away

-----------------------------------------------------------------------------
(* Steps of services.                                                      *)

\* The downlink after a step that sends out.
LEMMA OutHas ==
  ASSUME CInv, NEW out \in Seq(Message), downlink' = downlink \o out
  PROVE  \A x : Has(downlink', x) <=> Has(downlink, x) \/ Has(out, x)
BY ConcatHas DEF CInv, TypeOK

\* What services send says nothing of u's status on c, but that he may have
\* it as he joined.
Silent(out, u, c) ==
    <<u, c>> \in Trusted =>
        /\ ~Has(out, To("deop", c, u))
        /\ Has(out, To("op", c, u)) => <<u, c>> \in AutoOption

LEMMA DueIsSilent ==
  ASSUME NEW out, NEW u, NEW c,
         /\ Has(out, To("deop", c, u)) => Due(To("deop", c, u))
         /\ Has(out, To("op", c, u)) => Due(To("op", c, u))
  PROVE  Silent(out, u, c)
BY DEF Silent, Due, To, Trusted

LEMMA SilentKeeps ==
  ASSUME CInv, NEW out \in Seq(Message), downlink' = downlink \o out, ops' = ops,
         NEW u, NEW c, Silent(out, u, c), <<u, c>> \in Trusted
  PROVE  Given(u, c)' \/ (IsOp(u, c)' <=> IsOp(u, c))
<1> DEFINE q == To("op", c, u)
           d == To("deop", c, u)
           start == u \in ops[c]
<1>1. downlink \in Seq(Message) /\ ~Has(out, d) /\ (Has(out, q) => <<u, c>> \in AutoOption)
  BY DEF CInv, TypeOK, Silent
<1>2. /\ IsOp(u, c) <=> Latest(downlink, {q}, {d}, start)
      /\ IsOp(u, c)' <=> Latest(downlink \o out, {q}, {d}, start)
      /\ Given(u, c)' <=> <<u, c>> \in AutoOption /\ IsOp(u, c)'
  BY DEF IsOp, Given
<1> HIDE DEF q, d, start
<1>3. Latest(downlink, {q}, {d}, start) => Latest(downlink \o out, {q}, {d}, start)
  BY <1>1, LastConcat
<1>4. Has(out, q) => Latest(downlink \o out, {q}, {d}, start)
  BY <1>1, LastConcat
<1>5. ~Has(out, q) /\ Latest(downlink \o out, {q}, {d}, start) => Latest(downlink, {q}, {d}, start)
  BY <1>1, LastConcat
<1> QED BY <1>1, <1>2, <1>3, <1>4, <1>5

\* OP, or DEOP, after everything else.
LEMMA SaidLast ==
  ASSUME CInv, NEW out \in Seq(Message), downlink' = downlink \o out, NEW u, NEW c
  PROVE  /\ Has(out, To("op", c, u)) /\ ~Has(out, To("deop", c, u)) => IsOp(u, c)'
         /\ ~Has(out, To("op", c, u)) /\ Has(out, To("deop", c, u)) => ~IsOp(u, c)'
<1> DEFINE q == To("op", c, u)
           d == To("deop", c, u)
           start == (u \in ops[c])'
<1>1. downlink \in Seq(Message)
  BY DEF CInv, TypeOK
<1>2. IsOp(u, c)' <=> Latest(downlink \o out, {q}, {d}, start)
  BY DEF IsOp
<1> HIDE DEF q, d, start
<1>3. /\ Has(out, q) /\ ~Has(out, d) => Latest(downlink \o out, {q}, {d}, start)
      /\ ~Has(out, q) /\ Has(out, d) => ~Latest(downlink \o out, {q}, {d}, start)
  BY <1>1, LastConcat
<1> QED BY <1>2, <1>3 DEF q, d

LEMMA ReceiveTracks ==
  ASSUME CInv, UInv, Receive
  PROVE  UInv'
<1> DEFINE m == Head(uplink)
           w == Handle(m)
<1>0. /\ m \in Message /\ m.type \in FromNetwork /\ m = uplink[1]
      /\ uplink \in Seq(Message) /\ uplink # <<>> /\ uplink' = Tail(uplink)
      /\ UNCHANGED <<online, on, ops>>
  BY HeadIsMessage DEF Receive, CInv, TypeOK, network
<1>1. Fine(View, w) /\ w.known = IF m.type = "quit" THEN known \ {m.who} ELSE known
  <2> HIDE DEF m
  <2> QED BY <1>0, HandleFine, HandleKnown DEF CInv
<1>2. known' = w.known /\ chans' = w.chans /\ downlink' = downlink \o w.out
  BY DEF Receive, Becomes
<1>3. w \in ViewRec /\ w.out \in Seq(Message)
  <2> HIDE DEF w
  <2> QED BY <1>1 DEF Fine, Good, ViewRec
<1>4. View.known = known /\ View.chans = chans /\ \A x : ~Has(View.out, x)
  BY ViewFields DEF CInv, Has
<1> HIDE DEF w
<1>5. \A x : Has(downlink', x) <=> Has(downlink, x) \/ Has(w.out, x)
  BY <1>2, <1>3, OutHas
<1>6. \A x : Has(w.out, x) => Due(x)
  BY <1>1, <1>4 DEF Fine, Grows
<1>7. /\ DOMAIN uplink = 1..Len(uplink) /\ Len(uplink) \in Nat /\ 1 \in DOMAIN uplink
      /\ DOMAIN uplink' = 1..(Len(uplink) - 1)
      /\ \A i \in DOMAIN uplink' : i + 1 \in DOMAIN uplink /\ uplink'[i] = uplink[i + 1]
  BY <1>0, ReceiveLeaves
<1> HIDE DEF m
<1>8. OnlineOnly'
  BY <1>0 DEF OnlineOnly, UInv
<1>9. m.type = "quit" => m.who \notin online
  BY <1>0, <1>7 DEF UInv, QuitsLast
<1>10. KilledOnly'
  <2> SUFFICES ASSUME NEW u \in online', u \notin known' PROVE Has(downlink', Gone(u))
    BY DEF KilledOnly, Gone
  <2>1. u \in online \ known
    BY <1>0, <1>1, <1>2, <1>9
  <2> QED BY <1>5, <2>1 DEF UInv, KilledOnly
<1>11. QuitsLast'
  BY <1>0, <1>7 DEF UInv, QuitsLast
<1>12. BurstsKnown'
  <2> SUFFICES ASSUME NEW i \in DOMAIN uplink', uplink'[i].type = "sjoin"
               PROVE  /\ uplink'[i].who \in Lists
                      /\ IsBurst(uplink'[i]) => Range(uplink'[i].who) \subseteq known'
    BY DEF BurstsKnown
  <2>1. i + 1 \in DOMAIN uplink /\ uplink'[i] = uplink[i + 1] /\ 1 < i + 1
    BY <1>7
  <2>2. /\ uplink'[i].who \in Lists
        /\ IsBurst(uplink'[i]) => Range(uplink'[i].who) \subseteq known
    BY <2>1 DEF UInv, BurstsKnown
  <2>3. m.type = "quit" /\ IsBurst(uplink'[i]) => m.who \notin Range(uplink'[i].who)
    BY <1>0, <1>7, <2>1 DEF UInv, QuitsLast
  <2> QED BY <1>1, <1>2, <2>2, <2>3
<1>13. ASSUME NEW u \in User, NEW c \in Channel, u \in on'[c], ~Away(u, c)'
       PROVE  Heard1(u, c)' /\ HeardOp(u, c)'
  <2>1. u \in on[c] /\ ~Away(u, c) /\ ~Kicked(w, u, c)
    BY <1>0, <1>5, <1>13 DEF Away, Kicked
  <2>2. u \in known /\ Heard1(u, c) /\ HeardOp(u, c)
    BY <2>1, OnAreKnown DEF UInv, AllTracked, Tracked
  <2>3. m.type = "sjoin" => m.who \in Lists /\ (u \in Range(m.who) => Range(m.who) \subseteq known)
    <3> SUFFICES ASSUME m.type = "sjoin"
                 PROVE  m.who \in Lists /\ (u \in Range(m.who) => Range(m.who) \subseteq known)
      OBVIOUS
    <3>1. m.who \in Lists /\ (IsBurst(m) => Range(m.who) \subseteq known)
      BY <1>0, <1>7 DEF UInv, BurstsKnown
    <3>2. ~IsBurst(m) => ~(Len(m.who) > 1)
      BY DEF IsBurst
    <3>3. CASE m.who \in {<<x>> : x \in User}
      <4>1. PICK x \in User : m.who = <<x>>
        BY <3>3
      <4>2. Range(m.who) = {x}
        BY <4>1 DEF Range
      <4> QED BY <2>2, <3>1, <4>2
    <3>4. CASE m.who \in {p \in User \X User : p[1] # p[2]}
      <4>1. PICK x \in User, y \in User : m.who = <<x, y>>
        BY <3>4
      <4>2. Len(m.who) > 1
        BY <4>1
      <4> QED BY <3>1, <3>2, <4>2
    <3> QED BY <3>1, <3>3, <3>4 DEF Lists
  <2>4. Tracks(m, u, c, w)
    BY <1>0, <2>1, <2>2, <2>3, HandleTracks DEF w, CInv
  <2>5. uplink[1] = m /\ Joins(u, c) \subseteq Touches(u, c) /\ Leaves(u, c) \subseteq Touches(u, c)
    BY <1>0 DEF Touches
  <2> DEFINE on1 == On(chans[u], c)
             on2 == On(w.chans[u], c)
  <2>6. /\ \A j \in DOMAIN uplink : 1 < j => uplink[j] \notin Leaves(u, c) \cup Joins(u, c)
        /\ uplink[1] \in Joins(u, c) \/ (on1 /\ uplink[1] \notin Leaves(u, c))
        => on2
    BY <2>4, <2>5 DEF Tracks
  <2>7. Latest(uplink, Joins(u, c), Leaves(u, c), on1)
    BY <2>2 DEF Heard1
  <2> HIDE DEF on1, on2
  <2>8. Latest(Tail(uplink), Joins(u, c), Leaves(u, c), on2)
    BY <1>0, <2>6, <2>7, LastTail
  <2>9. Heard1(u, c)'
    BY <1>0, <1>2, <2>8 DEF Heard1, on2
  <2>10. ASSUME <<u, c>> \in Trusted, ~Given(u, c)' PROVE Heard2(u, c)'
    <3> DEFINE op == IsOp(u, c)
               as1 == OnAs(chans[u], c, op)
               as2 == OnAs(w.chans[u], c, op)
    <3>1. IsOp(u, c)' = op /\ op \in BOOLEAN
      <4>1. Silent(w.out, u, c)
        BY <1>6, DueIsSilent
      <4>2. IsOp(u, c)' <=> IsOp(u, c)
        BY <1>0, <1>2, <1>3, <2>10, <4>1, SilentKeeps
      <4> QED BY <4>2 DEF IsOp, Latest
    <3>2. Latest(uplink, Sets(u, c, op), Unsets(u, c, op), as1)
      <4>1. ~Given(u, c)
        BY <2>10, <3>1 DEF Given
      <4> QED BY <2>2, <2>10, <4>1 DEF HeardOp, Heard2
    <3> HIDE DEF op
    <3>3. ASSUME \A j \in DOMAIN uplink : 1 < j => uplink[j] \notin Unsets(u, c, op) \cup Sets(u, c, op),
                 uplink[1] \in Sets(u, c, op) \/ (as1 /\ uplink[1] \notin Unsets(u, c, op))
          PROVE  as2
      <4>1. CASE m \in Sets(u, c, op)
        <5>1. m \in Joins(u, c) \/ on1
          <6>1. \A j \in DOMAIN uplink : j = 1 \/ 1 < j
            BY <1>7
          <6>2. \A j \in DOMAIN uplink : 1 < j => uplink[j] \notin Joins(u, c)
            BY <2>5, <3>3 DEF Unsets
          <6> QED BY <2>5, <2>7, <6>1, <6>2 DEF Latest
        <5> QED BY <2>4, <2>10, <3>1, <4>1, <5>1 DEF Tracks, on1
      <4>2. CASE m \notin Sets(u, c, op)
        BY <2>4, <2>5, <2>10, <3>1, <3>3, <4>2 DEF Tracks, Unsets
      <4> QED BY <4>1, <4>2
    <3> HIDE DEF as1, as2
    <3>4. Latest(Tail(uplink), Sets(u, c, op), Unsets(u, c, op), as2)
      BY <1>0, <3>2, <3>3, LastTail
    <3> QED BY <1>0, <1>2, <3>1, <3>4 DEF Heard2, as2
  <2> QED BY <2>9, <2>10 DEF HeardOp
<1>14. AllTracked'
  <2> SUFFICES ASSUME NEW u \in User, NEW c \in Channel PROVE Tracked(u, c)'
    BY DEF AllTracked
  <2> QED BY <1>13 DEF Tracked
<1> QED BY <1>8, <1>10, <1>11, <1>12, <1>14 DEF UInv

\* A command leaves the network and what it has told services.
LEMMA CommandTracks ==
  ASSUME CInv, UInv, Command, NEW w \in ViewRec, Becomes(w), KilledOnly', BurstsKnown',
         \A u \in User, c \in Channel :
             \/ Kicked(w, u, c) \/ Has(w.out, Gone(u))
             \/ Stays(View, w, u, c) /\ Silent(w.out, u, c)
             \/ Tracked(u, c)'
  PROVE  UInv'
<1>1. w.out \in Seq(Message) /\ downlink' = downlink \o w.out /\ chans' = w.chans
  BY DEF ViewRec, Becomes
<1>2. \A x : Has(downlink', x) <=> Has(downlink, x) \/ Has(w.out, x)
  BY <1>1, OutHas
<1>3. UNCHANGED <<online, on, ops, uplink>> /\ View.chans = chans
  BY ViewFields DEF Command, network, CInv
<1>4. OnlineOnly' /\ QuitsLast'
  BY <1>3 DEF OnlineOnly, QuitsLast, UInv
<1>5. ASSUME NEW u \in User, NEW c \in Channel, u \in on[c], ~Away(u, c)', Stays(View, w, u, c),
             Silent(w.out, u, c)
      PROVE  Heard1(u, c)' /\ HeardOp(u, c)'
  <2>1. ~Away(u, c)
    BY <1>2, <1>5 DEF Away
  <2>2. Heard1(u, c) /\ HeardOp(u, c)
    BY <1>5, <2>1 DEF UInv, AllTracked, Tracked
  <2>3. On(chans[u], c) => On(chans'[u], c)
    BY <1>1, <1>3, <1>5, StaysOn
  <2>4. Heard1(u, c)'
    <3> DEFINE a == On(chans[u], c)
               b == On(chans'[u], c)
    <3>1. Latest(uplink, Joins(u, c), Leaves(u, c), a) /\ (a => b)
      BY <2>2, <2>3 DEF Heard1
    <3> HIDE DEF a, b
    <3>2. Latest(uplink, Joins(u, c), Leaves(u, c), b)
      BY <3>1, LastStart
    <3> QED BY <1>3, <3>2 DEF Heard1, b
  <2>5. ASSUME <<u, c>> \in Trusted, ~Given(u, c)' PROVE Heard2(u, c)'
    <3> DEFINE op == IsOp(u, c)
               a == OnAs(chans[u], c, op)
               b == OnAs(chans'[u], c, op)
    <3>1. IsOp(u, c)' = op /\ op \in BOOLEAN
      <4>1. IsOp(u, c)' <=> IsOp(u, c)
        BY <1>1, <1>3, <1>5, <2>5, SilentKeeps
      <4> QED BY <4>1 DEF IsOp, Latest
    <3>2. Latest(uplink, Sets(u, c, op), Unsets(u, c, op), a)
      <4>1. ~Given(u, c)
        BY <2>5, <3>1 DEF Given
      <4> QED BY <2>2, <2>5, <4>1 DEF HeardOp, Heard2
    <3> HIDE DEF op
    <3>3. a => b
      BY <1>1, <1>3, <1>5, <3>1 DEF Stays
    <3> HIDE DEF a, b
    <3>4. Latest(uplink, Sets(u, c, op), Unsets(u, c, op), b)
      BY <3>2, <3>3, LastStart
    <3> QED BY <1>3, <3>1, <3>4 DEF Heard2, b
  <2> QED BY <2>4, <2>5 DEF HeardOp
<1>6. ASSUME NEW u \in User, NEW c \in Channel PROVE Tracked(u, c)'
  <2>1. CASE Kicked(w, u, c) \/ Has(w.out, Gone(u))
    <3>1. Away(u, c)'
      BY <1>2, <2>1 DEF Away, Kicked, Gone
    <3> QED BY <3>1 DEF Tracked
  <2>2. CASE Stays(View, w, u, c) /\ Silent(w.out, u, c)
    BY <1>3, <1>5, <2>2 DEF Tracked
  <2> QED BY <2>1, <2>2
<1>7. AllTracked'
  BY <1>6 DEF AllTracked
<1> QED BY <1>4, <1>7 DEF UInv

\* A message sent before anything else.
LEMMA SentFirst ==
  ASSUME CInv, NEW m \in Message
  PROVE  LET v == Send(View, m) IN
         /\ v \in ViewRec /\ v.known = known /\ v.chans = chans
         /\ \A x : Has(v.out, x) <=> x = m
<1> DEFINE v == Send(View, m)
<1>1. View \in ViewRec /\ View.known = known /\ View.chans = chans /\ \A x : ~Has(View.out, x)
  BY ViewFields DEF CInv, Has
<1>2. v \in ViewRec /\ v.known = known /\ v.chans = chans /\ v.out = Append(View.out, m)
  BY <1>1, SendFields
<1>3. View.out \in Seq(Message)
  BY <1>1 DEF ViewRec
<1> HIDE DEF v
<1>4. \A x : Has(v.out, x) <=> x = m
  BY <1>1, <1>2, <1>3, AppendHas
<1> QED BY <1>2, <1>4 DEF v

LEMMA CsKickTracks ==
  ASSUME CInv, UInv, NEW u \in User, NEW c \in Channel, CsKick(u, c)
  PROVE  UInv'
<1> DEFINE m == To("kick", c, u)
           v == Send(View, m)
           w == Leave(v, u, c)
<1>1. m \in Message /\ m.type = "kick" /\ m.who = u
  BY KickMessage DEF Member, To
<1>2. Good(v)
  <2> HIDE DEF m
  <2> QED BY <1>1, SendTold DEF CInv
<1>3. v \in ViewRec /\ v.known = known /\ v.chans = chans /\ \A x : Has(v.out, x) <=> x = m
  <2> HIDE DEF m
  <2> QED BY <1>1, SentFirst
<1>4. BotTyped /\ View.chans = chans
  BY ViewFields DEF CInv
<1>5. Command /\ Becomes(w)
  BY DEF CsKick
<1> HIDE DEF v
<1>6. Fine(v, w)
  BY <1>2, <1>4, LeaveFine
<1>7. \A x \in User, d \in Channel : x # u \/ d # c => Stays(v, w, x, d)
  BY <1>3, <1>4, LeaveStays
<1>8. w.known = known
  <2>1. CASE IsOnChan(v, u, c)
    BY <1>3, <1>4, <2>1, LeaveFields
  <2>2. CASE ~IsOnChan(v, u, c)
    BY <1>3, <2>2 DEF Leave
  <2> QED BY <2>1, <2>2
<1> HIDE DEF w
<1>9. w \in ViewRec
  BY <1>6 DEF Fine, Good
<1>10. known' = known /\ online' = online /\ uplink' = uplink /\ downlink' = downlink \o w.out
  BY <1>5, <1>8 DEF Becomes, Command, network
<1>11. \A x : Has(downlink', x) <=> Has(downlink, x) \/ Has(w.out, x)
  <2>1. w.out \in Seq(Message)
    BY <1>9 DEF ViewRec
  <2> QED BY <1>10, <2>1, OutHas
<1>12. KilledOnly' /\ BurstsKnown'
  BY <1>10, <1>11 DEF UInv, KilledOnly, BurstsKnown, Gone
<1>13. ASSUME NEW x \in User, NEW d \in Channel
       PROVE  Kicked(w, x, d) \/ (Stays(View, w, x, d) /\ Silent(w.out, x, d))
  <2>1. CASE x = u /\ d = c
    <3>1. Has(v.out, m)
      BY <1>3
    <3> QED BY <1>6, <2>1, <3>1 DEF Fine, Grows, Kicked
  <2>2. CASE x # u \/ d # c
    <3>1. Stays(View, w, x, d)
      BY <1>3, <1>4, <1>7, <2>2 DEF Stays
    <3>2. ~Has(v.out, To("deop", d, x)) /\ ~Has(v.out, To("op", d, x))
      BY <1>1, <1>3 DEF To
    <3>3. \A y \in {To("deop", d, x), To("op", d, x)} : Has(w.out, y) => Due(y)
      BY <1>6, <3>2 DEF Fine, Grows
    <3> QED BY <3>1, <3>3, DueIsSilent
  <2> QED BY <2>1, <2>2
<1> QED BY <1>5, <1>9, <1>12, <1>13, CommandTracks

LEMMA KillTracks ==
  ASSUME CInv, UInv, Followed, NEW u \in User, Kill(u)
  PROVE  UInv'
<1> DEFINE m == Gone(u)
           v == Send(View, m)
           w == DeleteUser(v, u)
<1>1. m \in Message /\ m.type = "kill" /\ m.who = u
  BY GoneMessage DEF Gone
<1>2. Good(v)
  <2> HIDE DEF m
  <2> QED BY <1>1, SendTold DEF CInv
<1>3. v \in ViewRec /\ v.known = known /\ v.chans = chans /\ \A x : Has(v.out, x) <=> x = m
  <2> HIDE DEF m
  <2> QED BY <1>1, SentFirst
<1>4. BotTyped /\ View.chans = chans
  BY ViewFields DEF CInv
<1>5. Command /\ Becomes(w)
  BY DEF Kill, Gone
<1> HIDE DEF v
<1>6. /\ Fine(v, w)
      /\ w.known = known \ {u}
      /\ \A x \in User \ {u} : w.chans[x] = chans[x]
  BY <1>2, <1>3, <1>4, DeleteUserFields
<1> HIDE DEF w
<1>7. w \in ViewRec
  BY <1>6 DEF Fine, Good
<1>8. known' = known \ {u} /\ online' = online /\ uplink' = uplink /\ downlink' = downlink \o w.out
  BY <1>5, <1>6 DEF Becomes, Command, network
<1>9. \A x : Has(downlink', x) <=> Has(downlink, x) \/ Has(w.out, x)
  <2>1. w.out \in Seq(Message)
    BY <1>7 DEF ViewRec
  <2> QED BY <1>8, <2>1, OutHas
<1>10. Has(w.out, Gone(u))
  BY <1>3, <1>6 DEF Fine, Grows
<1>11. KilledOnly'
  BY <1>8, <1>9, <1>10 DEF UInv, KilledOnly, Gone
<1>12. BurstsKnown'
  <2>1. \A i \in DOMAIN uplink : ~IsBurst(uplink[i])
    <3>1. ~\E b \in Range(uplink) : IsBurst(b)
      BY DEF Kill, Followed
    <3> QED BY <3>1 DEF Range
  <2>2. \A i \in DOMAIN uplink : uplink[i].type = "sjoin" => uplink[i].who \in Lists
    BY DEF UInv, BurstsKnown
  <2> QED BY <1>8, <2>1, <2>2 DEF BurstsKnown
<1>13. ASSUME NEW x \in User, NEW d \in Channel
       PROVE  Has(w.out, Gone(x)) \/ (Stays(View, w, x, d) /\ Silent(w.out, x, d))
  <2>1. CASE x = u
    BY <1>10, <2>1
  <2>2. CASE x # u
    <3>1. Stays(View, w, x, d)
      BY <1>4, <1>6, <2>2, StaysSame
    <3>2. ~Has(v.out, To("deop", d, x)) /\ ~Has(v.out, To("op", d, x))
      BY <1>1, <1>3 DEF To
    <3>3. \A y \in {To("deop", d, x), To("op", d, x)} : Has(w.out, y) => Due(y)
      BY <1>6, <3>2 DEF Fine, Grows
    <3> QED BY <3>1, <3>3, DueIsSilent
  <2> QED BY <2>1, <2>2
<1> QED BY <1>5, <1>7, <1>11, <1>12, <1>13, CommandTracks

\* When all that tells of him but that he leaves says the same of his status.
LEMMA HeardAs ==
  ASSUME NEW s, NEW P, NEW L, NEW start, NEW Q, NEW T, NEW after, Latest(s, P, L, start), after,
         \A i \in DOMAIN s : s[i] \in T => s[i] \in L,
         \A i \in DOMAIN s : s[i] \in P => s[i] \in Q
  PROVE  Latest(s, Q, T, after)
BY DEF Latest

LEMMA CsDeopTracks ==
  ASSUME CInv, UInv, Followed, NEW u \in User, NEW c \in Channel, CsDeop(u, c)
  PROVE  UInv'
<1> DEFINE m == To("deop", c, u)
           v == Send(View, m)
           w == SetOp(v, u, c, FALSE)
<1>1. m \in Message /\ m.type = "deop"
  BY UserMessage DEF To
<1>2. Good(v)
  <2> HIDE DEF m
  <2> QED BY <1>1, SendTold DEF CInv
<1>3. v \in ViewRec /\ v.known = known /\ v.chans = chans /\ \A x : Has(v.out, x) <=> x = m
  <2> HIDE DEF m
  <2> QED BY <1>1, SentFirst
<1>4. BotTyped /\ View.chans = chans /\ chans[u] \in Seq(ChanEntry)
  BY ViewFields DEF CInv, TypeOK
<1>5. Command /\ Becomes(w) /\ On(chans[u], c)
  <2>1. IsOnChan(View, u, c)
    BY DEF CsDeop
  <2> QED BY <1>4, <2>1, OnIsOnChan DEF CsDeop
<1> HIDE DEF v
<1>6. Fine(v, w) /\ w.known = known
  BY <1>2, <1>3, <1>4, SetOpFine, ZenonT(30)
<1>7. /\ OnAs(w.chans[u], c, FALSE)
      /\ \A x \in User, d \in Channel : x # u \/ d # c => Stays(v, w, x, d)
  <2>1. ASSUME NEW f \in BOOLEAN
        PROVE  /\ On(chans[u], c) => OnAs(SetOp(v, u, c, f).chans[u], c, f)
               /\ \A x \in User, d \in Channel : x # u \/ d # c => Stays(v, SetOp(v, u, c, f), x, d)
    BY <1>3, SetOpPuts
  <2>2. FALSE \in BOOLEAN
    OBVIOUS
  <2> QED BY <1>5, <2>1, <2>2, Zenon
<1> HIDE DEF w
<1>8. w \in ViewRec
  BY <1>6 DEF Fine, Good
<1>9. /\ known' = known /\ UNCHANGED <<online, on, ops, uplink>> /\ chans' = w.chans
      /\ downlink' = downlink \o w.out
  BY <1>5, <1>6 DEF Becomes, Command, network
<1>10. \A x : Has(downlink', x) <=> Has(downlink, x) \/ Has(w.out, x)
  <2>1. w.out \in Seq(Message)
    BY <1>8 DEF ViewRec
  <2> QED BY <1>9, <2>1, OutHas
<1>11. KilledOnly' /\ BurstsKnown'
  BY <1>9, <1>10 DEF UInv, KilledOnly, BurstsKnown, Gone
<1>12. ASSUME NEW x \in User, NEW d \in Channel, x # u \/ d # c
       PROVE  Stays(View, w, x, d) /\ Silent(w.out, x, d)
  <2>1. Stays(View, w, x, d)
    BY <1>3, <1>4, <1>7, <1>12 DEF Stays
  <2>2. ~Has(v.out, To("deop", d, x)) /\ ~Has(v.out, To("op", d, x))
    BY <1>3, <1>12 DEF To
  <2>3. \A y \in {To("deop", d, x), To("op", d, x)} : Has(w.out, y) => Due(y)
    BY <1>6, <2>2 DEF Fine, Grows
  <2> QED BY <2>1, <2>3, DueIsSilent
<1>13. Tracked(u, c)'
  <2> SUFFICES ASSUME u \in on[c], ~Away(u, c)'
               PROVE  Heard1(u, c)' /\ HeardOp(u, c)'
    BY <1>9 DEF Tracked
  <2>1. ~Away(u, c)
    BY <1>10 DEF Away
  <2>2. Heard1(u, c) /\ HeardOp(u, c)
    BY <2>1 DEF UInv, AllTracked, Tracked
  <2>3. Heard1(u, c)'
    <3>1. On(chans'[u], c)
      BY <1>7, <1>9 DEF On
    <3> DEFINE a == On(chans[u], c)
               b == On(chans'[u], c)
    <3>2. Latest(uplink, Joins(u, c), Leaves(u, c), a)
      BY <2>2 DEF Heard1
    <3>3. b
      BY <3>1
    <3> HIDE DEF a, b
    <3>4. Latest(uplink, Joins(u, c), Leaves(u, c), b)
      BY <3>2, <3>3, LastStart
    <3> QED BY <1>9, <3>4 DEF Heard1, b
  <2>4. ASSUME <<u, c>> \in Trusted PROVE Given(u, c)' \/ Heard2(u, c)'
    <3> DEFINE b == OnAs(chans'[u], c, FALSE)
    <3>1. Given(u, c)' \/ IsOp(u, c)' = FALSE
      <4>1. Has(v.out, m) /\ ~Has(v.out, To("op", c, u))
        BY <1>3 DEF To
      <4>2. Has(w.out, To("deop", c, u)) /\ (Has(w.out, To("op", c, u)) => Due(To("op", c, u)))
        BY <1>6, <4>1 DEF Fine, Grows
      <4>3. CASE Has(w.out, To("op", c, u))
        <5>1. <<u, c>> \in AutoOption
          BY <4>2, <4>3 DEF Due, To
        <5>2. IsOp(u, c)' \in BOOLEAN
          BY DEF IsOp, Latest
        <5> QED BY <5>1, <5>2 DEF Given
      <4>4. CASE ~Has(w.out, To("op", c, u))
        <5>1. w.out \in Seq(Message)
          BY <1>8 DEF ViewRec
        <5>2. ~IsOp(u, c)'
          BY <1>9, <4>2, <4>4, <5>1, SaidLast
        <5> QED BY <5>2
      <4> QED BY <4>3, <4>4
    <3>2. \A i \in DOMAIN uplink : uplink[i].type \notin {"op", "servop", "sjoin"}
      <4>1. ~\E x \in Range(uplink) : x.type \in {"op", "servop", "sjoin"}
        BY DEF CsDeop, Followed
      <4> QED BY <4>1 DEF Range
    <3>3. b
      BY <1>7, <1>9
    <3>4. Latest(uplink, Sets(u, c, FALSE), Unsets(u, c, FALSE), b)
      <4> HIDE DEF b
      <4>1. \A i \in DOMAIN uplink : uplink[i] \in Unsets(u, c, FALSE) => uplink[i] \in Leaves(u, c)
        BY <3>2 DEF Unsets, Touches, Sets
      <4>2. \A i \in DOMAIN uplink : uplink[i] \in Joins(u, c) => uplink[i] \in Sets(u, c, FALSE)
        BY <3>2 DEF Sets
      <4> QED BY <2>2, <3>3, <4>1, <4>2, HeardAs DEF Heard1
    <3> QED BY <1>9, <3>1, <3>4 DEF Heard2, b
  <2> QED BY <2>3, <2>4 DEF HeardOp
<1>14. \A x \in User, d \in Channel :
          (Stays(View, w, x, d) /\ Silent(w.out, x, d)) \/ Tracked(x, d)'
  BY <1>12, <1>13
<1> QED BY <1>5, <1>8, <1>11, <1>14, CommandTracks

LEMMA CsOpTracks ==
  ASSUME CInv, UInv, Followed, NEW u \in User, NEW c \in Channel, CsOp(u, c)
  PROVE  UInv'
<1> DEFINE m == To("op", c, u)
           v == Send(View, m)
           w == AddOp(v, u, c, FALSE)
<1>1. m \in Message /\ m.type = "op"
  BY UserMessage DEF To
<1>2. Good(v)
  <2> HIDE DEF m
  <2> QED BY <1>1, SendTold DEF CInv
<1>3. v \in ViewRec /\ v.known = known /\ v.chans = chans /\ \A x : Has(v.out, x) <=> x = m
  <2> HIDE DEF m
  <2> QED BY <1>1, SentFirst
<1>4. BotTyped /\ View.chans = chans /\ chans[u] \in Seq(ChanEntry)
  BY ViewFields DEF CInv, TypeOK
<1>5. Command /\ Becomes(w) /\ On(chans[u], c)
  <2>1. IsOnChan(View, u, c)
    BY DEF CsOp
  <2> QED BY <1>4, <2>1, OnIsOnChan DEF CsOp
<1> HIDE DEF v
<1>6. Fine(v, w) /\ w.known = known
  <2>1. \A b \in BOOLEAN : Fine(v, AddOp(v, u, c, b)) /\ AddOp(v, u, c, b).known = v.known
    BY <1>2, <1>4, AddOpFine
  <2> QED BY <1>3, <2>1, Zenon
<1>7. /\ On(w.chans[u], c)
      /\ u \in known => Put(w, u, c, TRUE)
      /\ \A x \in User, d \in Channel : x # u \/ d # c => Stays(v, w, x, d)
  <2>1. ASSUME NEW f \in BOOLEAN
        PROVE  /\ On(chans[u], c) => On(AddOp(v, u, c, f).chans[u], c)
               /\ u \in known /\ On(chans[u], c) => Put(AddOp(v, u, c, f), u, c, TRUE)
               /\ \A x \in User, d \in Channel : x # u \/ d # c => Stays(v, AddOp(v, u, c, f), x, d)
    BY <1>3, AddOpPuts
  <2>2. FALSE \in BOOLEAN
    OBVIOUS
  <2> QED BY <1>5, <2>1, <2>2, Zenon
<1> HIDE DEF w
<1>8. w \in ViewRec
  BY <1>6 DEF Fine, Good
<1>9. /\ known' = known /\ UNCHANGED <<online, on, ops, uplink>> /\ chans' = w.chans
      /\ downlink' = downlink \o w.out
  BY <1>5, <1>6 DEF Becomes, Command, network
<1>10. \A x : Has(downlink', x) <=> Has(downlink, x) \/ Has(w.out, x)
  <2>1. w.out \in Seq(Message)
    BY <1>8 DEF ViewRec
  <2> QED BY <1>9, <2>1, OutHas
<1>11. KilledOnly' /\ BurstsKnown'
  BY <1>9, <1>10 DEF UInv, KilledOnly, BurstsKnown, Gone
<1>12. ASSUME NEW x \in User, NEW d \in Channel, x # u \/ d # c
       PROVE  Stays(View, w, x, d) /\ Silent(w.out, x, d)
  <2>1. Stays(View, w, x, d)
    BY <1>3, <1>4, <1>7, <1>12 DEF Stays
  <2>2. ~Has(v.out, To("deop", d, x)) /\ ~Has(v.out, To("op", d, x))
    BY <1>3, <1>12 DEF To
  <2>3. \A y \in {To("deop", d, x), To("op", d, x)} : Has(w.out, y) => Due(y)
    BY <1>6, <2>2 DEF Fine, Grows
  <2> QED BY <2>1, <2>3, DueIsSilent
<1>13. Tracked(u, c)'
  <2> SUFFICES ASSUME u \in on[c], ~Away(u, c)'
               PROVE  Heard1(u, c)' /\ HeardOp(u, c)'
    BY <1>9 DEF Tracked
  <2>1. ~Away(u, c)
    BY <1>10 DEF Away
  <2>2. Heard1(u, c) /\ u \in known
    BY <2>1, OnAreKnown DEF UInv, AllTracked, Tracked
  <2>3. Heard1(u, c)'
    <3> DEFINE a == On(chans[u], c)
               b == On(chans'[u], c)
    <3>1. Latest(uplink, Joins(u, c), Leaves(u, c), a)
      BY <2>2 DEF Heard1
    <3>2. b
      BY <1>7, <1>9
    <3> HIDE DEF a, b
    <3>3. Latest(uplink, Joins(u, c), Leaves(u, c), b)
      BY <3>1, <3>2, LastStart
    <3> QED BY <1>9, <3>3 DEF Heard1, b
  <2>4. ASSUME <<u, c>> \in Trusted PROVE Heard2(u, c)'
    <3> DEFINE b == OnAs(chans'[u], c, TRUE)
    <3>1. IsOp(u, c)' = TRUE
      <4>1. Has(v.out, m) /\ ~Has(v.out, To("deop", c, u))
        BY <1>3 DEF To
      <4>2. Has(w.out, To("op", c, u)) /\ (Has(w.out, To("deop", c, u)) => Due(To("deop", c, u)))
        BY <1>6, <4>1 DEF Fine, Grows
      <4>3. ~Has(w.out, To("deop", c, u))
        BY <2>4, <4>2 DEF Due, To, Trusted
      <4>4. w.out \in Seq(Message)
        BY <1>8 DEF ViewRec
      <4>5. IsOp(u, c)'
        BY <1>9, <4>2, <4>3, <4>4, SaidLast
      <4> QED BY <4>5 DEF IsOp, Latest
    <3>2. \A i \in DOMAIN uplink : uplink[i].type \notin {"deop", "join", "sjoin"}
      <4>1. ~\E x \in Range(uplink) : x.type \in {"deop", "join", "sjoin"}
        BY DEF CsOp, Followed, Unsettled
      <4> QED BY <4>1 DEF Range
    <3>3. b
      BY <1>5, <1>7, <1>9, <2>2, <2>4 DEF Put
    <3>4. Latest(uplink, Sets(u, c, TRUE), Unsets(u, c, TRUE), b)
      <4> HIDE DEF b
      <4>1. \A i \in DOMAIN uplink : uplink[i] \in Unsets(u, c, TRUE) => uplink[i] \in Leaves(u, c)
        BY <3>2 DEF Unsets, Touches, Sets, Joins, Modes
      <4>2. \A i \in DOMAIN uplink : uplink[i] \in Joins(u, c) => uplink[i] \in Sets(u, c, TRUE)
        BY <3>2 DEF Joins
      <4> QED BY <2>2, <3>3, <4>1, <4>2, HeardAs DEF Heard1
    <3> QED BY <1>9, <3>1, <3>4 DEF Heard2, b
  <2> QED BY <2>3, <2>4 DEF HeardOp
<1>14. \A x \in User, d \in Channel :
          (Stays(View, w, x, d) /\ Silent(w.out, x, d)) \/ Tracked(x, d)'
  BY <1>12, <1>13
<1> QED BY <1>5, <1>8, <1>11, <1>14, CommandTracks

\* The bots come and go.
LEMMA QuietTracks ==
  ASSUME UInv, UNCHANGED <<online, on, ops, uplink, known, chans>>,
         \A x : x.type \in {"kick", "kill"} => (Has(downlink', x) <=> Has(downlink, x)),
         \A u, c : IsOp(u, c)' <=> IsOp(u, c)
  PROVE  UInv'
<1>1. \A u, c : Has(downlink', To("kick", c, u)) <=> Has(downlink, To("kick", c, u))
  BY DEF To
<1>3. \A u : Has(downlink', Gone(u)) <=> Has(downlink, Gone(u))
  BY DEF Gone
<1>4. OnlineOnly' /\ QuitsLast' /\ BurstsKnown'
  BY DEF UInv, OnlineOnly, QuitsLast, BurstsKnown
<1>5. KilledOnly'
  BY <1>3 DEF UInv, KilledOnly, Gone
<1>6. ASSUME NEW u \in User, NEW c \in Channel PROVE Tracked(u, c)'
  <2>1. Tracked(u, c)
    BY DEF UInv, AllTracked
  <2>2. Away(u, c)' <=> Away(u, c)
    BY <1>1, <1>3 DEF Away
  <2>3. IsOp(u, c)' = IsOp(u, c)
    <3>1. IsOp(u, c)' \in BOOLEAN /\ IsOp(u, c) \in BOOLEAN
      BY DEF IsOp, Latest
    <3> QED BY <3>1
  <2>4. Heard1(u, c)' <=> Heard1(u, c)
    BY DEF Heard1
  <2>5. HeardOp(u, c)' <=> HeardOp(u, c)
    BY <2>3 DEF Heard2, HeardOp, Given
  <2> QED BY <2>1, <2>2, <2>4, <2>5 DEF Tracked
<1> QED BY <1>4, <1>5, <1>6 DEF UInv, AllTracked


-----------------------------------------------------------------------------
(* Steps of the network.                                                   *)

\* After this step m tells services of u's status on c, or need not.
Says(m, u, c) == m \in Sets(u, c, IsOp(u, c)') \/ Given(u, c)'

\* The network does something and tells services: whoever is on a channel
\* then is named by the message, with his status, or was there as before.
LEMMA EventTracks ==
  ASSUME CInv, UInv, Event, NEW m \in Message, Tell(m), OnlineOnly', online' \subseteq online,
         m.type = "quit" => m.who \notin online',
         m.type = "sjoin" =>
            m.who \in Lists /\ Range(m.who) \subseteq online
            /\ (IsBurst(m) => Range(m.who) \subseteq known),
         \A u \in User, c \in Channel : u \in on'[c] =>
            \/ m \in Joins(u, c) /\ Says(m, u, c)
            \/ /\ u \in on[c] /\ m \notin Leaves(u, c)
               /\ \/ Says(m, u, c)
                  \/ m \notin Touches(u, c) /\ (u \in ops'[c] <=> u \in ops[c])
  PROVE  UInv'
<1>1. uplink \in Seq(Message) /\ uplink' = Append(uplink, m) /\ UNCHANGED <<downlink, known, chans>>
  BY DEF CInv, TypeOK, Tell, Event, records
<1>2. /\ DOMAIN uplink = 1..Len(uplink) /\ Len(uplink) \in Nat
      /\ DOMAIN uplink' = 1..(Len(uplink) + 1)
      /\ \A i \in DOMAIN uplink : uplink'[i] = uplink[i]
      /\ uplink'[Len(uplink) + 1] = m
  BY <1>1
<1>3. KilledOnly'
  BY <1>1 DEF UInv, KilledOnly
<1>4. BurstsKnown'
  <2> SUFFICES ASSUME NEW i \in DOMAIN uplink', uplink'[i].type = "sjoin"
               PROVE  /\ uplink'[i].who \in Lists
                      /\ IsBurst(uplink'[i]) => Range(uplink'[i].who) \subseteq known
    BY <1>1 DEF BurstsKnown
  <2>1. CASE i \in DOMAIN uplink
    BY <1>2, <2>1 DEF UInv, BurstsKnown
  <2>2. CASE i \notin DOMAIN uplink
    <3>1. uplink'[i] = m
      BY <1>2, <2>2
    <3> QED BY <3>1
  <2> QED BY <2>1, <2>2
<1>5. QuitsLast'
  <2> SUFFICES ASSUME NEW i \in DOMAIN uplink', uplink'[i].type = "quit"
               PROVE  /\ uplink'[i].who \notin online'
                      /\ \A j \in DOMAIN uplink' :
                            i < j /\ IsBurst(uplink'[j]) => uplink'[i].who \notin Range(uplink'[j].who)
    BY DEF QuitsLast
  <2>1. CASE i \in DOMAIN uplink
    <3>1. /\ uplink[i].who \notin online
          /\ \A j \in DOMAIN uplink :
                i < j /\ IsBurst(uplink[j]) => uplink[i].who \notin Range(uplink[j].who)
      BY <1>2, <2>1 DEF UInv, QuitsLast
    <3>2. IsBurst(m) => m.type = "sjoin"
      BY DEF IsBurst
    <3>3. IsBurst(m) => uplink[i].who \notin Range(m.who)
      BY <3>1, <3>2
    <3>4. \A j \in DOMAIN uplink' : j \in DOMAIN uplink \/ uplink'[j] = m
      BY <1>2
    <3> QED BY <1>2, <2>1, <3>1, <3>3, <3>4
  <2>2. CASE i \notin DOMAIN uplink
    <3>1. i = Len(uplink) + 1 /\ uplink'[i] = m
      BY <1>2, <2>2
    <3>2. \A j \in DOMAIN uplink' : ~(i < j)
      BY <1>2, <3>1
    <3> QED BY <3>1, <3>2
  <2> QED BY <2>1, <2>2
<1>6. ASSUME NEW u \in User, NEW c \in Channel, u \in on'[c], ~Away(u, c)'
      PROVE  Heard1(u, c)' /\ HeardOp(u, c)'
  <2> DEFINE op == IsOp(u, c)'
             a == On(chans[u], c)
             b == OnAs(chans[u], c, op)
  <2>1. ~Away(u, c)
    BY <1>1, <1>6 DEF Away
  <2>2. u \in on[c] => Heard1(u, c) /\ HeardOp(u, c)
    BY <2>1 DEF UInv, AllTracked, Tracked
  <2>3. Heard1(u, c)' <=> Latest(uplink', Joins(u, c), Leaves(u, c), a)
    BY <1>1 DEF Heard1
  <2>4. Heard2(u, c)' <=> Latest(uplink', Sets(u, c, op), Unsets(u, c, op), b)
    BY <1>1 DEF Heard2
  <2>5. ASSUME m \in Joins(u, c) PROVE Heard1(u, c)'
    <3> HIDE DEF a, b, op
    <3>1. Latest(Append(uplink, m), Joins(u, c), Leaves(u, c), a)
      BY <1>1, <2>5, LastAppend
    <3> QED BY <1>1, <2>3, <3>1
  <2>6. ASSUME u \in on[c], m \notin Leaves(u, c) PROVE Heard1(u, c)'
    <3>1. Latest(uplink, Joins(u, c), Leaves(u, c), a)
      BY <2>2, <2>6 DEF Heard1
    <3> HIDE DEF a, b, op
    <3>2. Latest(Append(uplink, m), Joins(u, c), Leaves(u, c), a)
      BY <1>1, <2>6, <3>1, LastAppend
    <3> QED BY <1>1, <2>3, <3>2
  <2>7. ASSUME Says(m, u, c) PROVE HeardOp(u, c)'
    <3>1. CASE m \in Sets(u, c, op)
      <4> HIDE DEF a, b, op
      <4>1. Latest(Append(uplink, m), Sets(u, c, op), Unsets(u, c, op), b)
        BY <1>1, <3>1, LastAppend
      <4> QED BY <1>1, <2>4, <4>1 DEF HeardOp
    <3>2. CASE Given(u, c)'
      BY <3>2 DEF HeardOp
    <3> QED BY <2>7, <3>1, <3>2 DEF Says
  <2>8. ASSUME u \in on[c], m \notin Touches(u, c), u \in ops'[c] <=> u \in ops[c]
        PROVE  HeardOp(u, c)'
    <3>1. op = IsOp(u, c)
      <4>1. (u \in ops'[c]) = (u \in ops[c])
        BY <2>8
      <4> QED BY <1>1, <4>1 DEF IsOp
    <3>2. CASE <<u, c>> \in Trusted /\ ~Given(u, c)
      <4>1. Latest(uplink, Sets(u, c, op), Unsets(u, c, op), b)
        BY <2>2, <2>8, <3>1, <3>2 DEF Heard2, HeardOp
      <4>2. m \notin Unsets(u, c, op)
        BY <2>8 DEF Unsets
      <4> HIDE DEF a, b, op
      <4>3. Latest(Append(uplink, m), Sets(u, c, op), Unsets(u, c, op), b)
        BY <1>1, <4>1, <4>2, LastAppend
      <4> QED BY <1>1, <2>4, <4>3 DEF HeardOp
    <3>3. CASE <<u, c>> \notin Trusted
      BY <3>3 DEF HeardOp
    <3>4. CASE Given(u, c)
      BY <3>1, <3>4 DEF HeardOp, Given
    <3> QED BY <3>2, <3>3, <3>4
  <2> QED BY <1>6, <2>5, <2>6, <2>7, <2>8
<1>7. ASSUME NEW u \in User, NEW c \in Channel PROVE Tracked(u, c)'
  BY <1>6 DEF Tracked
<1> QED BY <1>3, <1>4, <1>5, <1>7 DEF UInv, AllTracked

\* Who is no op, and about to become one at most as he joined.
LEMMA NotOpped ==
  ASSUME NEW u, NEW c, u \notin ops'[c], Has(downlink', To("op", c, u)) => <<u, c>> \in AutoOption
  PROVE  IsOp(u, c)' = FALSE \/ Given(u, c)'
<1>1. IsOp(u, c)' \in BOOLEAN
  BY DEF IsOp, Latest
<1>2. IsOp(u, c)' => Has(downlink', To("op", c, u))
  BY DEF IsOp, Latest, Has
<1> QED BY <1>1, <1>2 DEF Given

\* Who is an op, and about to lose nothing.
LEMMA StaysOp ==
  ASSUME NEW u, NEW c, u \in ops'[c], ~Has(downlink', To("deop", c, u))
  PROVE  IsOp(u, c)' = TRUE
<1>1. IsOp(u, c)'
  BY DEF IsOp, Latest, Has
<1> QED BY <1>1 DEF IsOp, Latest

\* What the messages of the network say of a user on a channel.
LEMMA MessageTouches ==
  ASSUME NEW u, NEW c, NEW x, NEW d
  PROVE  /\ \A t \in {"join", "part", "kick", "op", "servop", "deop"} :
               To(t, d, x) \in Touches(u, c) => x = u /\ d = c
         /\ \A t \in {"join", "op", "servop", "deop"} : To(t, d, x) \notin Leaves(u, c)
         /\ To("sjoin", d, x) \in Touches(u, c) => u \in Range(x) /\ d = c
         /\ To("sjoin", d, x) \notin Leaves(u, c)
         /\ \A t \in {"part0", "quit"} : [type |-> t, who |-> x] \in Touches(u, c) => x = u
BY DEF To, Touches, Joins, Leaves, Modes

LEMMA MessageSets ==
  ASSUME NEW u \in User, NEW c \in Channel
  PROVE  /\ To("join", c, u) \in Joins(u, c) /\ To("join", c, u) \in Sets(u, c, FALSE)
         /\ To("deop", c, u) \in Sets(u, c, FALSE)
         /\ To("op", c, u) \in Sets(u, c, TRUE)
         /\ To("servop", c, u) \in Sets(u, c, TRUE)
         /\ \A l \in Seq(User) : u \in Range(l) =>
               To("sjoin", c, l) \in Joins(u, c) /\ To("sjoin", c, l) \in Sets(u, c, u = l[1])
<1>1. /\ \A t \in {"join", "part", "deop", "op"} : To(t, c, u) \in Message
      /\ To("servop", c, u) \in Message
      /\ \A l \in Seq(User) : To("sjoin", c, l) \in Message
  BY UserMessage, BurstMessage
<1>2. \A t, x : To(t, c, x).type = t /\ To(t, c, x).chan = c /\ To(t, c, x).who = x
  BY DEF To
<1> QED BY <1>1, <1>2 DEF Joins, Modes, Sets


NetTyped ==
    /\ online \subseteq User /\ on \in [Channel -> SUBSET Member]
    /\ ops \in [Channel -> SUBSET User]

LEMMA NotOpping ==
  ASSUME Followed, NEW u \in User, NEW c \in Channel, "deop_op" \in Allowed \/ ~Opping(u, c)
  PROVE  Has(downlink, To("op", c, u)) => <<u, c>> \in AutoOption
BY HasInRange DEF Followed, Opping

LEMMA NetJoinTracks ==
  ASSUME CInv, UInv, Followed, NEW u \in User, NEW c \in Channel, NetJoin(u, c)
  PROVE  UInv'
<1> DEFINE m == To("join", c, u)
<1>0. NetTyped /\ OnlineOnly
  BY DEF CInv, TypeOK, UInv, NetTyped
<1>1. /\ Event /\ Tell(m) /\ online' = online /\ ops' = ops /\ downlink' = downlink
      /\ on' = [on EXCEPT ![c] = @ \cup {u}] /\ u \in online \ on[c]
  BY DEF NetJoin, Event
<1>2. /\ \A d \in Channel : \A x : x \in on'[d] => x \in on[d] \/ (x = u /\ d = c)
      /\ \A d \in Channel : on[d] \subseteq on'[d]
  BY <1>0, <1>1 DEF NetTyped
<1>3. OnlineOnly'
  BY <1>0, <1>1, <1>2 DEF OnlineOnly
<1>4. m \in Message /\ m.type = "join"
  BY UserMessage DEF To
<1>5. ASSUME NEW x \in User, NEW d \in Channel, x \in on'[d]
      PROVE  \/ m \in Joins(x, d) /\ Says(m, x, d)
             \/ /\ x \in on[d] /\ m \notin Leaves(x, d)
                /\ \/ Says(m, x, d)
                   \/ m \notin Touches(x, d) /\ (x \in ops'[d] <=> x \in ops[d])
  <2>1. CASE x = u /\ d = c
    <3>1. u \notin ops'[c]
      BY <1>0, <1>1 DEF OnlineOnly
    <3>2. Has(downlink', To("op", c, u)) => <<u, c>> \in AutoOption
      BY <1>1, NotOpping DEF NetJoin
    <3> QED BY <2>1, <3>1, <3>2, NotOpped, MessageSets DEF Says
  <2>2. CASE x # u \/ d # c
    BY <1>1, <1>2, <1>5, <2>2, MessageTouches
  <2> QED BY <2>1, <2>2
<1> HIDE DEF m
<1> QED BY <1>1, <1>3, <1>4, <1>5, EventTracks

LEMMA NetSJoinTracks ==
  ASSUME CInv, UInv, Followed, NEW l \in Lists, NEW c \in Channel, NetSJoin(l, c)
  PROVE  UInv'
<1> DEFINE m == To("sjoin", c, l)
<1>0. NetTyped /\ OnlineOnly /\ l \in Seq(User) /\ l[1] \in User /\ l[1] \in Range(l)
  <2>1. l[1] \in Range(l)
    <3>1. CASE l \in {<<x>> : x \in User}
      <4>1. PICK x \in User : l = <<x>>
        BY <3>1
      <4> QED BY <4>1 DEF Range
    <3>2. CASE l \in {p \in User \X User : p[1] # p[2]}
      <4>1. PICK x \in User, y \in User : l = <<x, y>>
        BY <3>2
      <4> QED BY <4>1 DEF Range
    <3> QED BY <3>1, <3>2 DEF Lists
  <2> QED BY <2>1, ListIsSeq DEF CInv, TypeOK, UInv, NetTyped
<1>1. /\ Event /\ Tell(m) /\ online' = online /\ downlink' = downlink
      /\ on' = [on EXCEPT ![c] = Range(l)] /\ ops' = [ops EXCEPT ![c] = {l[1]}]
      /\ Range(l) \subseteq online
      /\ Len(l) > 1 => Range(l) \subseteq known
      /\ ~Has(downlink, To("deop", c, l[1]))
      /\ \A u \in Range(l) : Has(downlink, To("op", c, u)) => <<u, c>> \in AutoOption
  <2>1. ~Deopping(l[1], c)
    BY DEF NetSJoin, Followed
  <2>2. ~Has(downlink, To("deop", c, l[1]))
    BY <2>1, HasInRange DEF Deopping
  <2>3. ASSUME NEW u \in Range(l) PROVE Has(downlink, To("op", c, u)) => <<u, c>> \in AutoOption
    <3>1. ~Opping(u, c)
      BY DEF NetSJoin, Followed
    <3> QED BY <3>1, HasInRange DEF Opping
  <2> QED BY <2>2, <2>3 DEF NetSJoin, Event, Followed
<1>2. /\ on'[c] = Range(l) /\ ops'[c] = {l[1]}
      /\ \A d \in Channel : d # c => on'[d] = on[d] /\ ops'[d] = ops[d]
  BY <1>0, <1>1 DEF NetTyped
<1>3. OnlineOnly'
  BY <1>0, <1>1, <1>2 DEF OnlineOnly
<1>4. m \in Message /\ m.type = "sjoin" /\ m.who = l /\ (IsBurst(m) => Len(l) > 1)
  BY <1>0, BurstMessage DEF To, IsBurst
<1>5. ASSUME NEW x \in User, NEW d \in Channel, x \in on'[d]
      PROVE  \/ m \in Joins(x, d) /\ Says(m, x, d)
             \/ /\ x \in on[d] /\ m \notin Leaves(x, d)
                /\ \/ Says(m, x, d)
                   \/ m \notin Touches(x, d) /\ (x \in ops'[d] <=> x \in ops[d])
  <2>1. CASE d = c
    <3>1. x \in Range(l) /\ (Has(downlink', To("op", c, x)) => <<x, c>> \in AutoOption)
      BY <1>1, <1>2, <1>5, <2>1
    <3>2. m \in Joins(x, d) /\ m \in Sets(x, d, x = l[1])
      BY <1>0, <2>1, <3>1, MessageSets
    <3>3. IsOp(x, d)' = (x = l[1]) \/ Given(x, d)'
      <4>1. CASE x = l[1]
        <5>1. IsOp(x, c)' = TRUE
          BY <1>1, <1>2, <4>1, StaysOp
        <5> QED BY <2>1, <4>1, <5>1
      <4>2. CASE x # l[1]
        <5>1. IsOp(x, c)' = FALSE \/ Given(x, c)'
          BY <1>2, <3>1, <4>2, NotOpped
        <5> QED BY <2>1, <4>2, <5>1
      <4> QED BY <4>1, <4>2
    <3> QED BY <3>2, <3>3 DEF Says
  <2>2. CASE d # c
    BY <1>1, <1>2, <1>5, <2>2, MessageTouches
  <2> QED BY <2>1, <2>2
<1> HIDE DEF m
<1> QED BY <1>1, <1>3, <1>4, <1>5, EventTracks

\* Somebody leaves a channel, or several.
LEMMA OffTracks ==
  ASSUME CInv, UInv, Event, NEW m \in Message, Tell(m), online' \subseteq online,
         m.type = "quit" => m.who \notin online',
         m.type # "sjoin",
         \A c \in Channel : /\ on'[c] \subseteq on[c] /\ ops'[c] \subseteq on'[c]
                            /\ on'[c] \cap User \subseteq online',
         \A u \in User, c \in Channel :
            u \in on'[c] => m \notin Touches(u, c) /\ (u \in ops'[c] <=> u \in ops[c])
  PROVE  UInv'
<1>1. OnlineOnly'
  BY DEF OnlineOnly
<1>2. \A u \in User, c \in Channel : u \in on'[c] =>
         /\ u \in on[c] /\ m \notin Leaves(u, c) /\ m \notin Touches(u, c)
         /\ u \in ops'[c] <=> u \in ops[c]
  BY DEF Touches
<1> QED BY <1>1, <1>2, EventTracks

LEMMA OffFields ==
  ASSUME NetTyped, OnlineOnly, NEW x, NEW c \in Channel, Off(x, c), online' = online
  PROVE  /\ \A d \in Channel : /\ on'[d] \subseteq on[d] /\ ops'[d] \subseteq on'[d]
                               /\ on'[d] \cap User \subseteq online'
         /\ \A d \in Channel : \A u : u \in on'[d] => (u # x \/ d # c) /\ (u \in ops'[d] <=> u \in ops[d])
<1>1. \A d \in Channel : /\ on'[d] = IF d = c THEN on[d] \ {x} ELSE on[d]
                         /\ ops'[d] = IF d = c THEN ops[d] \ {x} ELSE ops[d]
  BY DEF Off, NetTyped
<1> QED BY <1>1 DEF OnlineOnly

LEMMA OffAllFields ==
  ASSUME NetTyped, OnlineOnly, NEW x, OffAll(x), online' = online \/ online' = online \ {x}
  PROVE  /\ \A d \in Channel : /\ on'[d] \subseteq on[d] /\ ops'[d] \subseteq on'[d]
                               /\ on'[d] \cap User \subseteq online'
         /\ \A d \in Channel : \A u : u \in on'[d] => u # x /\ (u \in ops'[d] <=> u \in ops[d])
<1>1. \A d \in Channel : on'[d] = on[d] \ {x} /\ ops'[d] = ops[d] \ {x}
  BY DEF OffAll
<1> QED BY <1>1 DEF OnlineOnly

LEMMA NetPartTracks ==
  ASSUME CInv, UInv, NEW u \in User, NEW c \in Channel, NetPart(u, c)
  PROVE  UInv'
<1> DEFINE m == To("part", c, u)
<1>0. NetTyped /\ OnlineOnly
  BY DEF CInv, TypeOK, UInv, NetTyped
<1>1. Event /\ Tell(m) /\ online' = online /\ Off(u, c)
  BY DEF NetPart
<1>2. m \in Message /\ m.type = "part"
  BY UserMessage DEF To
<1>3. \A x \in User, d \in Channel : x # u \/ d # c => m \notin Touches(x, d)
  BY MessageTouches
<1> HIDE DEF m
<1> QED BY <1>0, <1>1, <1>2, <1>3, OffFields, OffTracks

LEMMA NetKickTracks ==
  ASSUME CInv, UInv, NEW x \in Member, NEW c \in Channel, NetKick(x, c)
  PROVE  UInv'
<1> DEFINE m == To("kick", c, x)
<1>0. NetTyped /\ OnlineOnly
  BY DEF CInv, TypeOK, UInv, NetTyped
<1>1. Event /\ Tell(m) /\ online' = online /\ Off(x, c)
  BY DEF NetKick
<1>2. m \in Message /\ m.type = "kick"
  BY KickMessage DEF To
<1>3. \A u \in User, d \in Channel : u # x \/ d # c => m \notin Touches(u, d)
  BY MessageTouches
<1> HIDE DEF m
<1> QED BY <1>0, <1>1, <1>2, <1>3, OffFields, OffTracks

LEMMA NetPartAllTracks ==
  ASSUME CInv, UInv, NEW u \in User, NetPartAll(u)
  PROVE  UInv'
<1> DEFINE m == [type |-> "part0", who |-> u]
<1>0. NetTyped /\ OnlineOnly
  BY DEF CInv, TypeOK, UInv, NetTyped
<1>1. Event /\ Tell(m) /\ online' = online /\ OffAll(u)
  BY DEF NetPartAll
<1>2. m \in Message /\ m.type = "part0"
  BY GoneMessage
<1>3. \A x \in User, d \in Channel : x # u => m \notin Touches(x, d)
  BY MessageTouches
<1> HIDE DEF m
<1> QED BY <1>0, <1>1, <1>2, <1>3, OffAllFields, OffTracks

LEMMA NetQuitTracks ==
  ASSUME CInv, UInv, NEW u \in User, NetQuit(u)
  PROVE  UInv'
<1> DEFINE m == [type |-> "quit", who |-> u]
<1>0. NetTyped /\ OnlineOnly
  BY DEF CInv, TypeOK, UInv, NetTyped
<1>1. Event /\ Tell(m) /\ online' = online \ {u} /\ OffAll(u)
  BY DEF NetQuit
<1>2. m \in Message /\ m.type = "quit" /\ m.who = u
  BY GoneMessage
<1>3. \A x \in User, d \in Channel : x # u => m \notin Touches(x, d)
  BY MessageTouches
<1> HIDE DEF m
<1>4. online' \subseteq online /\ m.who \notin online' /\ m.type # "sjoin"
  BY <1>1, <1>2
<1> QED BY <1>0, <1>1, <1>2, <1>3, <1>4, OffAllFields, OffTracks

\* The status of u on c changes.
LEMMA StatusTracks ==
  ASSUME CInv, UInv, Event, NEW u \in User, NEW c \in Channel, NEW m \in Message, Tell(m),
         m.type \notin {"quit", "sjoin"}, UNCHANGED <<online, on>>, ops' \in [Channel -> SUBSET User],
         ops'[c] \subseteq on[c],
         \A d \in Channel : \A x : x # u \/ d # c => (x \in ops'[d] <=> x \in ops[d]),
         \A x \in User, d \in Channel : m \notin Leaves(x, d)
                                        /\ (x # u \/ d # c => m \notin Touches(x, d)),
         Says(m, u, c)
  PROVE  UInv'
<1>1. OnlineOnly'
  <2>1. OnlineOnly
    BY DEF UInv
  <2> QED BY <2>1 DEF OnlineOnly
<1>2. ASSUME NEW x \in User, NEW d \in Channel, x \in on'[d]
      PROVE  /\ x \in on[d] /\ m \notin Leaves(x, d)
             /\ \/ Says(m, x, d)
                \/ m \notin Touches(x, d) /\ (x \in ops'[d] <=> x \in ops[d])
  <2>1. CASE x = u /\ d = c
    BY <1>2, <2>1
  <2>2. CASE x # u \/ d # c
    BY <1>2, <2>2
  <2> QED BY <2>1, <2>2
<1> QED BY <1>1, <1>2, EventTracks

LEMMA NetOpTracks ==
  ASSUME CInv, UInv, Followed, NEW u \in User, NEW c \in Channel, NetOp(u, c)
  PROVE  UInv'
<1>0. NetTyped /\ OnlineOnly
  BY DEF CInv, TypeOK, UInv, NetTyped
<1>1. /\ Event /\ UNCHANGED <<online, on>> /\ u \in on[c] /\ downlink' = downlink
      /\ ops' = [ops EXCEPT ![c] = @ \cup {u}]
      /\ ~Has(downlink, To("deop", c, u))
  <2>1. ~Has(downlink, To("deop", c, u))
    BY HasInRange DEF NetOp, Followed, Deopping
  <2> QED BY <2>1 DEF NetOp, Event
<1>2. /\ ops' \in [Channel -> SUBSET User] /\ u \in ops'[c] /\ ops'[c] \subseteq on[c]
      /\ \A d \in Channel : \A x : x # u \/ d # c => (x \in ops'[d] <=> x \in ops[d])
  BY <1>0, <1>1 DEF NetTyped, OnlineOnly
<1>3. IsOp(u, c)' = TRUE
  BY <1>1, <1>2, StaysOp
<1>4. ASSUME NEW t \in {"op", "servop"}, Tell(To(t, c, u)) PROVE UInv'
  <2> DEFINE m == To(t, c, u)
  <2>1. m \in Message /\ m.type \notin {"quit", "sjoin"}
    BY UserMessage DEF To
  <2>2. \A x \in User, d \in Channel : m \notin Leaves(x, d) /\ (x # u \/ d # c => m \notin Touches(x, d))
    BY MessageTouches
  <2>3. Says(m, u, c)
    BY <1>3, MessageSets DEF Says
  <2> HIDE DEF m
  <2> QED BY <1>1, <1>2, <1>4, <2>1, <2>2, <2>3, StatusTracks DEF m
<1> QED BY <1>4 DEF NetOp

LEMMA NetDeopTracks ==
  ASSUME CInv, UInv, Followed, NEW u \in User, NEW c \in Channel, NetDeop(u, c)
  PROVE  UInv'
<1>0. NetTyped /\ OnlineOnly
  BY DEF CInv, TypeOK, UInv, NetTyped
<1> DEFINE m == To("deop", c, u)
<1>1. /\ Event /\ UNCHANGED <<online, on>> /\ Tell(m) /\ downlink' = downlink
      /\ ops' = [ops EXCEPT ![c] = @ \ {u}]
  BY DEF NetDeop, Event
<1>2. /\ ops' \in [Channel -> SUBSET User] /\ u \notin ops'[c] /\ ops'[c] \subseteq on[c]
      /\ \A d \in Channel : \A x : x # u \/ d # c => (x \in ops'[d] <=> x \in ops[d])
  BY <1>0, <1>1 DEF NetTyped, OnlineOnly
<1>3. IsOp(u, c)' = FALSE \/ Given(u, c)'
  <2>1. Has(downlink, To("op", c, u)) => <<u, c>> \in AutoOption
    BY NotOpping DEF NetDeop
  <2> QED BY <1>1, <1>2, <2>1, NotOpped
<1>4. m \in Message /\ m.type \notin {"quit", "sjoin"}
  BY UserMessage DEF To
<1>5. \A x \in User, d \in Channel : m \notin Leaves(x, d) /\ (x # u \/ d # c => m \notin Touches(x, d))
  BY MessageTouches
<1>6. Says(m, u, c)
  BY <1>3, MessageSets DEF Says
<1> HIDE DEF m
<1> QED BY <1>1, <1>2, <1>4, <1>5, <1>6, StatusTracks


\* A message of services' has arrived, and been carried out.
LEMMA ArrivalTracks ==
  ASSUME UInv, UNCHANGED <<uplink, known, chans>>, NEW m,
         \A x : Has(downlink, x) <=> Has(downlink', x) \/ x = m,
         OnlineOnly', online' \subseteq online,
         \A u \in online' : m # Gone(u),
         \A u \in User, c \in Channel : u \in on'[c] =>
            /\ u \in on[c] /\ m # Gone(u) /\ m # To("kick", c, u)
            /\ IsOp(u, c)' = IsOp(u, c)
  PROVE  UInv'
<1>1. QuitsLast' /\ BurstsKnown'
  BY DEF UInv, QuitsLast, BurstsKnown
<1>2. KilledOnly'
  <2> SUFFICES ASSUME NEW u \in online', u \notin known PROVE Has(downlink', Gone(u))
    BY DEF KilledOnly, Gone
  <2>1. Has(downlink, Gone(u)) /\ m # Gone(u)
    BY DEF UInv, KilledOnly
  <2> QED BY <2>1
<1>3. ASSUME NEW u \in User, NEW c \in Channel, u \in on'[c], ~Away(u, c)'
      PROVE  Heard1(u, c)' /\ HeardOp(u, c)'
  <2>1. u \in on[c] /\ ~Away(u, c) /\ IsOp(u, c)' = IsOp(u, c)
    BY <1>3 DEF Away
  <2>2. Heard1(u, c) /\ HeardOp(u, c)
    BY <2>1 DEF UInv, AllTracked, Tracked
  <2>3. Heard1(u, c)' <=> Heard1(u, c)
    BY DEF Heard1
  <2>4. HeardOp(u, c)' <=> HeardOp(u, c)
    BY <2>1 DEF Heard2, HeardOp, Given
  <2> QED BY <2>2, <2>3, <2>4
<1>4. AllTracked'
  BY <1>3 DEF AllTracked, Tracked
<1> QED BY <1>1, <1>2, <1>4 DEF UInv

LEMMA DeliverTracks ==
  ASSUME CInv, UInv, Deliver
  PROVE  UInv'
<1> DEFINE m == Head(downlink)
<1>0. NetTyped /\ OnlineOnly
  BY DEF CInv, TypeOK, UInv, NetTyped
<1>1. UNCHANGED <<uplink, known, chans>> /\ Obey(m)
  BY DEF Deliver, records
<1>2. m \in Message /\ \A x : Has(downlink, x) <=> Has(downlink', x) \/ x = m
  <2>1. /\ DOMAIN downlink' = 1..(Len(downlink) - 1)
        /\ \A i \in DOMAIN downlink' : i + 1 \in DOMAIN downlink /\ downlink'[i] = downlink[i + 1]
        /\ m = downlink[1] /\ 1 \in DOMAIN downlink /\ m \in Message
    BY DeliverLeaves
  <2>2. DOMAIN downlink = 1..Len(downlink) /\ Len(downlink) \in Nat
    BY DEF CInv, TypeOK
  <2> HIDE DEF m
  <2>3. ASSUME NEW x, Has(downlink', x) \/ x = m PROVE Has(downlink, x)
    BY <2>1, <2>3 DEF Has
  <2>4. ASSUME NEW x, Has(downlink, x) PROVE Has(downlink', x) \/ x = m
    <3>1. PICK i \in DOMAIN downlink : downlink[i] = x
      BY <2>4 DEF Has
    <3>2. CASE i = 1
      BY <2>1, <3>1, <3>2
    <3>3. CASE i # 1
      <4>1. i - 1 \in DOMAIN downlink' /\ (i - 1) + 1 = i
        BY <2>1, <2>2, <3>1, <3>3
      <4>2. downlink'[i - 1] = x
        BY <2>1, <3>1, <4>1
      <4> QED BY <4>1, <4>2 DEF Has
    <3> QED BY <3>2, <3>3
  <2> QED BY <2>1, <2>3, <2>4
<1>11. downlink \in Seq(Message) /\ downlink # <<>> /\ downlink' = Tail(downlink) /\ m = downlink[1]
  BY DEF CInv, TypeOK, Deliver
<1> HIDE DEF m
<1>12. ASSUME NEW u, NEW c,
             \/ m = To("op", c, u) /\ u \in ops'[c]
             \/ m = To("deop", c, u) /\ u \notin ops'[c]
             \/ m # To("op", c, u) /\ m # To("deop", c, u) /\ (u \in ops'[c] <=> u \in ops[c])
      PROVE  IsOp(u, c)' = IsOp(u, c)
  <2> DEFINE q == To("op", c, u)
             d == To("deop", c, u)
             start == u \in ops[c]
             after == u \in ops'[c]
  <2>1. /\ IsOp(u, c) <=> Latest(downlink, {q}, {d}, start)
        /\ IsOp(u, c)' <=> Latest(Tail(downlink), {q}, {d}, after)
    BY <1>11 DEF IsOp
  <2>2. q # d
    BY DEF To
  <2>3. \/ m = q /\ after
        \/ m = d /\ ~after
        \/ m # q /\ m # d /\ (after <=> start)
    BY <1>12
  <2> HIDE DEF q, d, start, after
  <2>4. Latest(downlink, {q}, {d}, start) => Latest(Tail(downlink), {q}, {d}, after)
    <3> SUFFICES ASSUME Latest(downlink, {q}, {d}, start) PROVE Latest(Tail(downlink), {q}, {d}, after)
      OBVIOUS
    <3>1. downlink[1] \in {q} \/ (start /\ downlink[1] \notin {d}) => after
      BY <1>11, <2>2, <2>3
    <3> QED BY <1>11, <3>1, LastTail
  <2>5. Latest(Tail(downlink), {q}, {d}, after) => Latest(downlink, {q}, {d}, start)
    <3> SUFFICES ASSUME Latest(Tail(downlink), {q}, {d}, after) PROVE Latest(downlink, {q}, {d}, start)
      OBVIOUS
    <3>1. after => downlink[1] \in {q} \/ (start /\ downlink[1] \notin {d})
      BY <1>11, <2>2, <2>3
    <3> QED BY <1>11, <3>1, LastTailBack
  <2>6. IsOp(u, c)' \in BOOLEAN /\ IsOp(u, c) \in BOOLEAN
    BY DEF IsOp, Latest
  <2> QED BY <2>1, <2>4, <2>5, <2>6
<1>3. ASSUME NEW u, NEW c, m.type \notin {"op", "deop"}, u \in ops'[c] <=> u \in ops[c]
      PROVE  IsOp(u, c)' = IsOp(u, c)
  <2>1. m # To("op", c, u) /\ m # To("deop", c, u)
    BY <1>3 DEF To
  <2> QED BY <1>3, <1>12, <2>1
<1>4. CASE m.type = "kick" /\ Off(m.who, m.chan) /\ UNCHANGED online
  <2>1. m.chan \in Channel
    BY <1>2, <1>4, MessageFields
  <2>2. /\ \A d \in Channel : /\ on'[d] \subseteq on[d] /\ ops'[d] \subseteq on'[d]
                              /\ on'[d] \cap User \subseteq online'
        /\ \A d \in Channel : \A u : u \in on'[d] =>
              (u # m.who \/ d # m.chan) /\ (u \in ops'[d] <=> u \in ops[d])
    BY <1>0, <1>4, <2>1, OffFields
  <2>3. OnlineOnly'
    BY <2>2 DEF OnlineOnly
  <2>4. /\ \A u, c : m # Gone(u) /\ (m = To("kick", c, u) => m.who = u /\ m.chan = c)
        /\ m.type \notin {"op", "deop"}
    BY <1>4 DEF Gone, To
  <2>5. \A u \in User, d \in Channel : u \in on'[d] =>
           /\ u \in on[d] /\ m # Gone(u) /\ m # To("kick", d, u)
           /\ IsOp(u, d)' = IsOp(u, d)
    <3> SUFFICES ASSUME NEW u \in User, NEW d \in Channel, u \in on'[d]
                 PROVE  /\ u \in on[d] /\ m # Gone(u) /\ m # To("kick", d, u)
                        /\ IsOp(u, d)' = IsOp(u, d)
      OBVIOUS
    <3>1. u \in on[d] /\ (u # m.who \/ d # m.chan) /\ (u \in ops'[d] <=> u \in ops[d])
      BY <2>2
    <3> QED BY <1>3, <2>4, <3>1
  <2>6. online' \subseteq online /\ \A u \in online' : m # Gone(u)
    BY <1>4, <2>4
  <2> QED BY <1>1, <1>2, <2>3, <2>5, <2>6, ArrivalTracks
<1>5. CASE m.type = "deop" /\ ops' = [ops EXCEPT ![m.chan] = @ \ {m.who}] /\ UNCHANGED <<online, on>>
  <2>1. m.chan \in Channel
    BY <1>2, <1>5, MessageFields
  <2>2. \A d \in Channel : ops'[d] = IF d = m.chan THEN ops[d] \ {m.who} ELSE ops[d]
    BY <1>0, <1>5 DEF NetTyped
  <2>3. OnlineOnly'
    BY <1>0, <1>5, <2>2 DEF OnlineOnly
  <2>4. \A u, c : m # Gone(u) /\ m # To("kick", c, u)
    BY <1>5 DEF Gone, To
  <2>5. ASSUME NEW u \in User, NEW c \in Channel PROVE IsOp(u, c)' = IsOp(u, c)
    <3>1. CASE u = m.who /\ c = m.chan
      <4>1. m = To("deop", c, u)
        BY <1>2, <1>5, <3>1 DEF Message, To
      <4>2. u \notin ops'[c]
        BY <2>2, <3>1
      <4> QED BY <1>12, <4>1, <4>2
    <3>2. CASE u # m.who \/ c # m.chan
      <4>1. \A t : To(t, c, u).who = u /\ To(t, c, u).chan = c
        BY DEF To
      <4>2. m # To("op", c, u) /\ m # To("deop", c, u) /\ (u \in ops'[c] <=> u \in ops[c])
        BY <2>2, <3>2, <4>1
      <4> QED BY <1>12, <4>2
    <3> QED BY <3>1, <3>2
  <2> QED BY <1>1, <1>2, <1>5, <2>3, <2>4, <2>5, ArrivalTracks
<1>13. CASE m.type = "op" /\ ops' = [ops EXCEPT ![m.chan] = @ \cup ({m.who} \cap on[m.chan])] /\ UNCHANGED <<online, on>>
  <2>1. m.chan \in Channel
    BY <1>2, <1>13, MessageFields
  <2>2. \A d \in Channel : ops'[d] = IF d = m.chan THEN ops[d] \cup ({m.who} \cap on[d]) ELSE ops[d]
    BY <1>0, <1>13 DEF NetTyped
  <2>3. OnlineOnly'
    BY <1>0, <1>13, <2>2 DEF OnlineOnly
  <2>4. \A u, c : m # Gone(u) /\ m # To("kick", c, u)
    BY <1>13 DEF Gone, To
  <2>5. ASSUME NEW u \in User, NEW c \in Channel, u \in on[c] PROVE IsOp(u, c)' = IsOp(u, c)
    <3>1. CASE u = m.who /\ c = m.chan
      <4>1. m = To("op", c, u)
        BY <1>2, <1>13, <3>1 DEF Message, To
      <4>2. u \in ops'[c]
        BY <2>2, <2>5, <3>1
      <4> QED BY <1>12, <4>1, <4>2
    <3>2. CASE u # m.who \/ c # m.chan
      <4>1. \A t : To(t, c, u).who = u /\ To(t, c, u).chan = c
        BY DEF To
      <4>2. m # To("op", c, u) /\ m # To("deop", c, u) /\ (u \in ops'[c] <=> u \in ops[c])
        BY <2>2, <3>2, <4>1
      <4> QED BY <1>12, <4>2
    <3> QED BY <3>1, <3>2
  <2> QED BY <1>1, <1>2, <1>13, <2>3, <2>4, <2>5, ArrivalTracks
<1>6. CASE m.type = "kill" /\ online' = online \ {m.who} /\ OffAll(m.who)
  <2>1. /\ \A d \in Channel : /\ on'[d] \subseteq on[d] /\ ops'[d] \subseteq on'[d]
                              /\ on'[d] \cap User \subseteq online'
        /\ \A d \in Channel : \A u : u \in on'[d] => u # m.who /\ (u \in ops'[d] <=> u \in ops[d])
    BY <1>0, <1>6, OffAllFields
  <2>2. OnlineOnly'
    BY <2>1 DEF OnlineOnly
  <2>3. /\ \A u, c : (m = Gone(u) => m.who = u) /\ m # To("kick", c, u)
        /\ m.type \notin {"op", "deop"}
    BY <1>6 DEF Gone, To
  <2>4. \A u \in online' : m # Gone(u)
    BY <1>6, <2>3
  <2> QED BY <1>1, <1>2, <1>3, <1>6, <2>1, <2>2, <2>3, <2>4, ArrivalTracks
<1>7. ASSUME m.type \in {"botjoin", "botpart"}, UNCHANGED online,
             \A d \in Channel : on'[d] \cap User = on[d] \cap User /\ ops'[d] = ops[d]
                                /\ on'[d] \cup Bot = on[d] \cup Bot
      PROVE  UInv'
  <2>1. OnlineOnly'
    <3>1. \A d \in Channel : ops'[d] \subseteq User
      BY <1>0, <1>7 DEF NetTyped
    <3> QED BY <1>0, <1>7, <3>1 DEF OnlineOnly
  <2>2. (\A u, c : m # Gone(u) /\ m # To("kick", c, u)) /\ m.type \notin {"op", "deop"}
    BY <1>7 DEF Gone, To
  <2>3. \A u \in User, c \in Channel : u \in on'[c] => u \in on[c] /\ IsOp(u, c)' = IsOp(u, c)
    BY <1>3, <1>7, <2>2
  <2> QED BY <1>1, <1>2, <1>7, <2>1, <2>2, <2>3, ArrivalTracks
<1>8. m.type \in {"botjoin", "botpart"} => m.who \in Bot /\ m.who \notin User
  BY <1>2, MessageFields, NamesDiffer
<1>9. CASE m.type = "botjoin" /\ on' = [on EXCEPT ![m.chan] = @ \cup {m.who}] /\ UNCHANGED <<online, ops>>
  <2>1. \A d \in Channel : on'[d] = IF d = m.chan THEN on[d] \cup {m.who} ELSE on[d]
    BY <1>0, <1>9 DEF NetTyped
  <2> QED BY <1>7, <1>8, <1>9, <2>1
<1>10. CASE m.type = "botpart" /\ Off(m.who, m.chan) /\ UNCHANGED online
  <2>1. \A d \in Channel : /\ on'[d] = IF d = m.chan THEN on[d] \ {m.who} ELSE on[d]
                           /\ ops'[d] = IF d = m.chan THEN ops[d] \ {m.who} ELSE ops[d]
    BY <1>0, <1>10 DEF NetTyped, Off
  <2>2. \A d \in Channel : ops[d] \subseteq User
    BY <1>0 DEF NetTyped
  <2>3. ASSUME NEW d \in Channel PROVE ops'[d] = ops[d]
    <3>1. ops[d] \ {m.who} = ops[d]
      BY <1>8, <1>10, <2>2
    <3> QED BY <2>1, <3>1
  <2>4. \A d \in Channel : on'[d] \cap User = on[d] \cap User /\ on'[d] \cup Bot = on[d] \cup Bot
    BY <1>8, <1>10, <2>1
  <2> QED BY <1>7, <1>10, <2>3, <2>4
<1> QED BY <1>1, <1>4, <1>5, <1>6, <1>9, <1>10, <1>13 DEF Obey

LEMMA PartOfBotHas ==
  ASSUME CInv, NEW c \in Channel
  PROVE  /\ PartOfBot(c) \in Seq(Message)
         /\ \A x : Has(PartOfBot(c), x) => x.type = "botpart"
<1>1. bot[c] # NULL => To("botpart", c, bot[c]) \in Message
  BY BotMessage DEF CInv, TypeOK
<1>2. CASE PartOfBot(c) = <<>>
  BY <1>2 DEF Has
<1>3. CASE bot[c] # NULL /\ PartOfBot(c) = <<To("botpart", c, bot[c])>>
  BY <1>1, <1>3 DEF Has, To
<1> QED BY <1>2, <1>3 DEF PartOfBot

OpIn(s, u, c) == Latest(s, {To("op", c, u)}, {To("deop", c, u)}, u \in ops[c])

LEMMA BotsOnly ==
  ASSUME NEW s \in Seq(Message), NEW t \in Seq(Message), NEW u, NEW c,
         \A x : Has(t, x) => x.type \in {"botjoin", "botpart"}
  PROVE  OpIn(s \o t, u, c) <=> OpIn(s, u, c)
<1> DEFINE q == To("op", c, u)
           d == To("deop", c, u)
           start == u \in ops[c]
<1>1. ~Has(t, q) /\ ~Has(t, d)
  BY DEF To
<1>2. /\ OpIn(s, u, c) <=> Latest(s, {q}, {d}, start)
      /\ OpIn(s \o t, u, c) <=> Latest(s \o t, {q}, {d}, start)
  BY DEF OpIn
<1> HIDE DEF q, d, start
<1> QED BY <1>1, <1>2, LastConcat

LEMMA ServicesTrack ==
  ASSUME CInv, UInv, Followed, Services
  PROVE  UInv'
<1>1. CASE Receive
  BY <1>1, ReceiveTracks
<1>2. ASSUME NEW u \in User, NEW c \in Channel, CsKick(u, c) \/ CsDeop(u, c) \/ CsOp(u, c) PROVE UInv'
  BY <1>2, CsKickTracks, CsDeopTracks, CsOpTracks
<1>3. ASSUME NEW u \in User, Kill(u) PROVE UInv'
  BY <1>3, KillTracks
<1>4. downlink \in Seq(Message)
  BY DEF CInv, TypeOK
<1>5. ASSUME NEW b \in Bot, NEW c \in Channel, Assign(b, c) PROVE UInv'
  <2> DEFINE p == PartOfBot(c)
             j == IF UserCount(View, c) >= BSMinUsers THEN <<To("botjoin", c, b)>> ELSE <<>>
  <2>1. j \in Seq(Message) /\ \A x : Has(j, x) => x.type = "botjoin"
    <3>1. CASE j = <<>>
      BY <3>1 DEF Has
    <3>2. CASE j = <<To("botjoin", c, b)>>
      <4> DEFINE m == To("botjoin", c, b)
      <4>1. m \in Message /\ m.type = "botjoin"
        BY BotMessage DEF To
      <4>2. j = <<m>>
        BY <3>2
      <4> HIDE DEF m, j
      <4> QED BY <4>1, <4>2 DEF Has
    <3> QED BY <3>1, <3>2
  <2>2. p \in Seq(Message) /\ \A x : Has(p, x) => x.type = "botpart"
    BY PartOfBotHas
  <2>3. downlink' = downlink \o p \o j
    BY <1>5 DEF Assign
  <2> HIDE DEF p, j
  <2> DEFINE q == downlink \o p
  <2>4. q \in Seq(Message) /\ \A x : Has(q, x) <=> Has(downlink, x) \/ Has(p, x)
    BY <1>4, <2>2, ConcatHas
  <2>5. downlink' = q \o j
    BY <2>3
  <2>10. q = downlink \o p
    OBVIOUS
  <2> HIDE DEF q
  <2>6. \A x : Has(downlink', x) <=> Has(q, x) \/ Has(j, x)
    BY <2>1, <2>4, <2>5, ConcatHas
  <2>7. \A x : x.type \in {"kick", "kill"} => (Has(downlink', x) <=> Has(downlink, x))
    BY <2>1, <2>2, <2>4, <2>6
  <2>9. \A u, d : IsOp(u, d)' <=> IsOp(u, d)
    <3> SUFFICES ASSUME NEW u, NEW d PROVE IsOp(u, d)' <=> IsOp(u, d)
      OBVIOUS
    <3>1. OpIn(q, u, d) <=> OpIn(downlink, u, d)
      BY <1>4, <2>2, <2>10, BotsOnly
    <3>2. OpIn(q \o j, u, d) <=> OpIn(q, u, d)
      BY <2>1, <2>4, BotsOnly
    <3> QED BY <1>5, <2>5, <3>1, <3>2 DEF OpIn, IsOp, Assign, Command, network
  <2>8. UNCHANGED <<online, on, ops, uplink, known, chans>>
    BY <1>5 DEF Assign, Command, network, records
  <2> QED BY <2>7, <2>8, <2>9, QuietTracks
<1>6. ASSUME NEW c \in Channel, Unassign(c) PROVE UInv'
  <2>1. downlink' = downlink \o PartOfBot(c)
    BY <1>6 DEF Unassign
  <2>2. PartOfBot(c) \in Seq(Message) /\ \A x : Has(PartOfBot(c), x) => x.type = "botpart"
    BY PartOfBotHas
  <2>3. \A x : Has(downlink', x) <=> Has(downlink, x) \/ Has(PartOfBot(c), x)
    BY <1>4, <2>1, <2>2, ConcatHas
  <2>4. \A x : x.type \in {"kick", "kill"} => (Has(downlink', x) <=> Has(downlink, x))
    BY <2>2, <2>3
  <2>5. UNCHANGED <<online, on, ops, uplink, known, chans>>
    BY <1>6 DEF Unassign, Command, network, records
  <2>6. \A u, d : IsOp(u, d)' <=> IsOp(u, d)
    <3> SUFFICES ASSUME NEW u, NEW d PROVE IsOp(u, d)' <=> IsOp(u, d)
      OBVIOUS
    <3>1. OpIn(downlink \o PartOfBot(c), u, d) <=> OpIn(downlink, u, d)
      BY <1>4, <2>2, BotsOnly
    <3> QED BY <2>1, <2>5, <3>1 DEF OpIn, IsOp
  <2> QED BY <2>4, <2>5, <2>6, QuietTracks
<1> QED BY <1>1, <1>2, <1>3, <1>5, <1>6 DEF Services

LEMMA NetworkTracks ==
  ASSUME CInv, UInv, Followed, Network
  PROVE  UInv'
<1>1. CASE Deliver
  BY <1>1, DeliverTracks
<1>2. ASSUME NEW u \in User, NEW c \in Channel,
             NetJoin(u, c) \/ NetPart(u, c) \/ NetOp(u, c) \/ NetDeop(u, c)
      PROVE  UInv'
  BY <1>2, NetJoinTracks, NetPartTracks, NetOpTracks, NetDeopTracks
<1>3. ASSUME NEW l \in Lists, NEW c \in Channel, NetSJoin(l, c) PROVE UInv'
  BY <1>3, NetSJoinTracks
<1>4. ASSUME NEW u \in User, NetPartAll(u) \/ NetQuit(u) PROVE UInv'
  BY <1>4, NetPartAllTracks, NetQuitTracks
<1>5. ASSUME NEW x \in Member, NEW c \in Channel, NetKick(x, c) PROVE UInv'
  BY <1>5, NetKickTracks
<1> QED BY <1>1, <1>2, <1>3, <1>4, <1>5 DEF Network

\* With nothing in flight, whom UInv speaks of is on the lists.
LEMMA SettledKnown ==
  ASSUME CInv, UInv
  PROVE  UsersKnown
<1> SUFFICES ASSUME Settled, NEW c \in Channel, NEW u \in on[c] \cap User
             PROVE  /\ u \in Range(users[c])
                    /\ <<u, c>> \in Trusted =>
                          /\ StatusOf(u, c) => u \in ops[c]
                          /\ u \in ops[c] => StatusOf(u, c) \/ <<u, c>> \in AutoOption
  BY DEF UsersKnown, NoneOverlooked, OpsKnown, Trusted
<1>1. \A x : ~Has(downlink, x)
  BY DEF Settled, Has
<1>2. Heard1(u, c) /\ HeardOp(u, c)
  BY <1>1 DEF UInv, AllTracked, Tracked, Away
<1>3. \A Q, T, start : Latest(uplink, Q, T, start) => start
  BY DEF Settled, Latest
<1>4. On(chans[u], c)
  BY <1>2, <1>3 DEF Heard1
<1>5. /\ View.chans = chans /\ View.users = users /\ chans[u] \in Seq(ChanEntry)
      /\ users[c] \in Seq(User)
  BY ViewFields DEF CInv, TypeOK
<1>6. u \in Range(users[c])
  <2>1. IsOnChan(View, u, c)
    BY <1>4, <1>5, OnIsOnChan
  <2>2. Count(chans[u], ChanOf(c)) > 0
    BY <1>5, <2>1, OnChanCounts
  <2>3. Count(users[c], {u}) = Count(chans[u], ChanOf(c))
    BY <1>5 DEF CInv, Good, Mirrors
  <2> QED BY <1>5, <2>2, <2>3, UserCounts
<1>7. ASSUME <<u, c>> \in Trusted
      PROVE  /\ StatusOf(u, c) => u \in ops[c]
             /\ u \in ops[c] => StatusOf(u, c) \/ <<u, c>> \in AutoOption
  <2>1. IsOp(u, c) = (u \in ops[c])
    <3>1. DOMAIN downlink = {}
      BY DEF Settled
    <3>2. IsOp(u, c) <=> u \in ops[c]
      BY <3>1 DEF IsOp, Latest
    <3>3. IsOp(u, c) \in BOOLEAN
      BY DEF IsOp, Latest
    <3> QED BY <3>2, <3>3
  <2>2. CASE Given(u, c)
    BY <2>1, <2>2 DEF Given
  <2>3. CASE Heard2(u, c)
    <3>1. OnAs(chans[u], c, IsOp(u, c))
      BY <1>3, <2>3 DEF Heard2
    <3>2. StatusOf(u, c) = IsOp(u, c)
      BY <1>5, <3>1, OnIsOnChan DEF StatusOf
    <3> QED BY <2>1, <3>2
  <2> QED BY <1>2, <1>7, <2>2, <2>3 DEF HeardOp
<1> QED BY <1>6, <1>7

\* However many users, channels and messages in flight: when nothing is in
\* flight, services have everyone who is on a channel on its list, with +o
\* where they may leave him with it, provided that nobody is killed while an
\* SJOIN of several is on its way, nor opped or deopped with OP or DEOP while
\* news of his status is; a +o that an access entry with auto_option gave him
\* as he joined is not recorded
\* (do_join(), do_sjoin(), do_part(), do_kick(), do_cmode(), do_quit();
\* chan_set_modes(); do_cs_kick(), do_util(), kill_user()).
THEOREM UsersAreKnown ==
  ASSUME {"burst_kill", "deop_op"} \cap Allowed = {}
  PROVE  Spec => []UsersKnown
<1>0. Followed
  BY DEF Followed
<1>1. Init => UInv
  BY UInvStart
<1>2. CInv /\ UInv /\ [Next]_vars => UInv'
  <2> SUFFICES ASSUME CInv, UInv, [Next]_vars PROVE UInv'
    OBVIOUS
  <2>1. CASE Services
    BY <1>0, <2>1, ServicesTrack
  <2>2. CASE Network
    BY <1>0, <2>2, NetworkTracks
  <2>3. CASE UNCHANGED vars
    <3>1. UNCHANGED <<online, on, ops, uplink, known, chans>> /\ downlink' = downlink
      BY <2>3 DEF vars
    <3>2. \A u, c : IsOp(u, c)' <=> IsOp(u, c)
      BY <3>1 DEF IsOp
    <3> QED BY <3>1, <3>2, QuietTracks
  <2> QED BY <2>1, <2>2, <2>3 DEF Next
<1>3. CInv /\ UInv => UsersKnown
  BY SettledKnown
<1> QED BY <1>1, <1>2, <1>3, Invariance, PTL DEF Spec
================================================================================
