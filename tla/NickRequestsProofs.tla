-------------------------- MODULE NickRequestsProofs --------------------------
(***************************************************************************)
(* Proofs about NickRequests for any nicks, number of chains, hash and     *)
(* expiry time: a nick is never requested twice, and when no two nicks     *)
(* share a chain the hash table implements the set of requests.            *)
(***************************************************************************)
EXTENDS NickRequests, FiniteSetTheorems, SequenceTheorems, TLAPS

\* A chain of bucket b: its requests belong there and have different nicks.
Good(chain, b) ==
    /\ chain \in Seq(Request)
    /\ \A i \in DOMAIN chain : HASH[chain[i].nick] = b
    /\ \A i, j \in DOMAIN chain : chain[i].nick = chain[j].nick => i = j

IInv ==
    /\ TypeOK
    /\ \A b \in Bucket : Good(nrlists[b], b) /\ Good(file[b], b)

-----------------------------------------------------------------------------
LEMMA InsertGood ==
  ASSUME NEW b, NEW chain, Good(chain, b), NEW r \in Request, HASH[r.nick] = b,
         \A i \in DOMAIN chain : chain[i].nick # r.nick
  PROVE  Good(InsertRequestNick(chain, r), b)
<1> DEFINE new == <<r>> \o chain
<1>1. /\ new \in Seq(Request) /\ Len(new) = Len(chain) + 1
      /\ new[1] = r
      /\ \A i \in DOMAIN new : i # 1 => i - 1 \in DOMAIN chain /\ new[i] = chain[i - 1]
  BY DEF Good
<1> HIDE DEF new
<1>2. \A i \in DOMAIN new : HASH[new[i].nick] = b
  BY <1>1 DEF Good
<1>3. \A i, j \in DOMAIN new : new[i].nick = new[j].nick => i = j
  <2> SUFFICES ASSUME NEW i \in DOMAIN new, NEW j \in DOMAIN new,
                      new[i].nick = new[j].nick
               PROVE  i = j
    OBVIOUS
  <2>1. i \in Nat /\ j \in Nat
    BY <1>1
  <2>2. CASE i = 1 \/ j = 1
    BY <1>1, <2>2
  <2>3. CASE i # 1 /\ j # 1
    <3>1. i - 1 = j - 1
      BY <1>1, <2>3 DEF Good
    <3> QED BY <2>1, <3>1
  <2> QED BY <2>2, <2>3
<1>4. Good(new, b)
  BY <1>1, <1>2, <1>3 DEF Good
<1> QED BY <1>4 DEF new, InsertRequestNick

LEMMA AfterGood ==
  ASSUME NEW b, NEW chain, Good(chain, b), NEW i \in DOMAIN chain
  PROVE  Good(DelNickRequest(chain, i), b)
<1> DEFINE rest == SubSeq(chain, i + 1, Len(chain))
<1>1. i \in Nat /\ Len(chain) \in Nat /\ i <= Len(chain)
  BY DEF Good
<1>2. \A k \in (i + 1)..Len(chain) : chain[k] \in Request
  BY <1>1 DEF Good
<1>3. /\ rest \in Seq(Request)
      /\ Len(rest) = Len(chain) - i
      /\ \A k \in DOMAIN rest : i + k \in DOMAIN chain /\ rest[k] = chain[i + k]
  BY <1>1, <1>2 DEF Good
<1> HIDE DEF rest
<1>4. \A k \in DOMAIN rest : HASH[rest[k].nick] = b
  BY <1>3 DEF Good
<1>5. ASSUME NEW k \in DOMAIN rest, NEW l \in DOMAIN rest, rest[k].nick = rest[l].nick
      PROVE  k = l
  <2>1. i + k = i + l
    BY <1>3, <1>5 DEF Good
  <2>2. k \in Nat /\ l \in Nat
    BY <1>3
  <2> QED BY <1>1, <2>1, <2>2
<1>6. Good(rest, b)
  BY <1>3, <1>4, <1>5 DEF Good
<1> QED BY <1>6 DEF rest, DelNickRequest, After

\* A finite set of naturals that is not empty has a greatest element.
LEMMA Greatest ==
  ASSUME NEW S \in SUBSET Nat, S # {}, NEW n \in Nat, \A i \in S : i <= n
  PROVE  \E i \in S : \A j \in S : j <= i
<1> DEFINE R == OpToRel(<, Nat)
<1> DEFINE T == {m \in Nat : \A j \in S : j <= m}
<1>1. IsWellFoundedOn(R, Nat)
  BY NatLessThanWellFounded
<1>2. T \subseteq Nat /\ T # {}
  OBVIOUS
<1>3. \A x, y \in Nat : y < x => <<y, x>> \in R
  BY DEF OpToRel
<1> HIDE DEF R, T
<1>4. PICK x \in T : \A y \in T : <<y, x>> \notin R
  BY <1>1, <1>2, WFMin
<1>5. \A y \in T : ~(y < x)
  BY <1>2, <1>3, <1>4
<1>6. x \in Nat /\ \A j \in S : j <= x
  BY <1>4 DEF T
<1>7. x \in S
  <2> SUFFICES ASSUME x \notin S PROVE FALSE
    OBVIOUS
  <2>1. \A j \in S : j \in Nat /\ j <= x - 1 /\ x - 1 \in Nat
    BY <1>6
  <2>2. x - 1 \in T
    BY <2>1 DEF T
  <2> QED BY <2>2, <1>5, <1>6
<1> QED BY <1>6, <1>7

LEMMA ExpiredGood ==
  ASSUME NEW b, NEW chain, Good(chain, b)
  PROVE  Good(Expired(chain), b)
<1> DEFINE due == {i \in DOMAIN chain : Due(chain[i])}
<1>1. CASE due = {}
  BY <1>1 DEF Expired
<1>2. CASE due # {}
  <2>1. due \in SUBSET Nat /\ Len(chain) \in Nat /\ \A i \in due : i <= Len(chain)
    BY DEF Good
  <2> HIDE DEF due
  <2>2. \E i \in due : \A j \in due : j <= i
    BY <1>2, <2>1, Greatest
  <2> DEFINE last == CHOOSE i \in due : \A j \in due : j <= i
  <2>3. last \in DOMAIN chain
    BY <2>2 DEF due
  <2> HIDE DEF last
  <2>4. Good(DelNickRequest(chain, last), b)
    BY <2>3, AfterGood
  <2>5. Expired(chain) = DelNickRequest(chain, last)
    BY <1>2 DEF Expired, due, last
  <2> QED BY <2>4, <2>5
<1> QED BY <1>1, <1>2

\* The number of records before those of a bucket is a natural number.
LEMMA InFileType ==
  ASSUME IInv, NEW b \in Bucket
  PROVE  InFile(b) \in Nat
<1> DEFINE S == 0..(b - 1)
<1> DEFINE T == {{c} \X DOMAIN file[c] : c \in S}
<1> DEFINE f == [c \in S |-> {c} \X DOMAIN file[c]]
<1>1. b \in Int /\ S \subseteq Bucket
  BY BucketsAssumption DEF Bucket
<1>2. IsFiniteSet(S)
  BY <1>1, FS_Interval
<1>3. f \in Surjection(S, T)
  BY DEF Surjection
<1>4. IsFiniteSet(T)
  <2> HIDE DEF f, S, T
  <2> QED BY <1>2, <1>3, FS_Surjection
<1>5. ASSUME NEW U \in T PROVE IsFiniteSet(U)
  <2>1. PICK c \in S : U = {c} \X DOMAIN file[c]
    OBVIOUS
  <2>2. file[c] \in Seq(Request)
    BY <1>1 DEF IInv, TypeOK
  <2>3. IsFiniteSet(DOMAIN file[c])
    <3>1. DOMAIN file[c] = 1..Len(file[c]) /\ Len(file[c]) \in Nat
      BY <2>2
    <3> QED BY <3>1, FS_Interval
  <2> QED BY <2>1, <2>3, FS_Singleton, FS_Product
<1>6. IsFiniteSet(UNION T)
  <2> HIDE DEF T
  <2> QED BY <1>4, <1>5, FS_UNION
<1> QED BY <1>6, FS_CardinalityType DEF InFile

LEMMA LoadedGood ==
  ASSUME IInv, NEW b \in Bucket
  PROVE  Good(Loaded(b), b)
<1> DEFINE n == Loadable(b)
<1> DEFINE new == [i \in 1..n |-> file[b][n + 1 - i]]
<1>1. Good(file[b], b) /\ Len(file[b]) \in Nat
  BY DEF IInv, Good
<1>2. n \in Nat /\ n <= Len(file[b])
  BY <1>1, InFileType, BucketsAssumption DEF Loadable
<1> HIDE DEF n
<1>3. \A i \in 1..n : n + 1 - i \in DOMAIN file[b] /\ n + 1 - i \in Nat
  BY <1>1, <1>2 DEF Good
<1>4. \A i \in 1..n : new[i] \in Request
  BY <1>1, <1>3 DEF Good
<1>5. new \in Seq(Request) /\ DOMAIN new = 1..n
  BY <1>2, <1>4
<1>6. \A i \in DOMAIN new : HASH[new[i].nick] = b
  BY <1>1, <1>3, <1>5 DEF Good
<1>7. ASSUME NEW i \in 1..n, NEW j \in 1..n, new[i].nick = new[j].nick PROVE i = j
  <2>1. n + 1 - i = n + 1 - j
    BY <1>1, <1>3, <1>7 DEF Good
  <2> QED BY <1>2, <2>1
<1> HIDE DEF new
<1>8. Good(new, b)
  BY <1>5, <1>6, <1>7 DEF Good
<1> QED BY <1>8 DEF Loaded, new, n

-----------------------------------------------------------------------------
LEMMA InitIInv == Init => IInv
  BY BucketsAssumption DEF Init, IInv, TypeOK, Good, Bucket

LEMMA Hashed == \A n \in Nick : HASH[n] \in Bucket
  BY BucketsAssumption

LEMMA StepIInv == IInv /\ [Next]_vars => IInv'
<1> SUFFICES ASSUME IInv, [Next]_vars PROVE IInv'
  OBVIOUS
<1>1. ASSUME NEW n \in Nick, Register(n) PROVE IInv'
  <2> DEFINE b == HASH[n]
  <2> DEFINE r == [nick |-> n, requested |-> now]
  <2>1. b \in Bucket /\ r \in Request /\ HASH[r.nick] = b
    BY Hashed DEF IInv, TypeOK, Request
  <2>2. \A i \in DOMAIN nrlists[b] : nrlists[b][i].nick # r.nick
    BY <1>1 DEF Register, Requested
  <2>3. Good(nrlists[b], b)
    BY <2>1 DEF IInv
  <2>4. Good(InsertRequestNick(nrlists[b], r), b)
    <3> HIDE DEF b, r
    <3> QED BY <2>1, <2>2, <2>3, InsertGood
  <2>5. /\ nrlists' = [nrlists EXCEPT ![b] = InsertRequestNick(nrlists[b], r)]
        /\ UNCHANGED <<now, file>>
    BY <1>1 DEF Register
  <2> HIDE DEF b, r
  <2> QED BY <2>1, <2>4, <2>5 DEF IInv, TypeOK, Good
<1>2. ASSUME NEW n \in Nick, Remove(n) PROVE IInv'
  <2>1. PICK i \in DOMAIN nrlists[HASH[n]] :
           nrlists' = [nrlists EXCEPT ![HASH[n]] = DelNickRequest(nrlists[HASH[n]], i)]
    BY <1>2 DEF Remove
  <2>2. HASH[n] \in Bucket /\ Good(nrlists[HASH[n]], HASH[n])
    BY Hashed DEF IInv
  <2>3. Good(DelNickRequest(nrlists[HASH[n]], i), HASH[n])
    BY <2>2, AfterGood
  <2>4. UNCHANGED <<now, file>>
    BY <1>2 DEF Remove
  <2> QED BY <2>1, <2>2, <2>3, <2>4 DEF IInv, TypeOK, Good
<1>3. CASE ExpireRequests
  <2>1. \A b \in Bucket : Good(Expired(nrlists[b]), b)
    BY ExpiredGood DEF IInv
  <2> QED BY <1>3, <2>1 DEF ExpireRequests, IInv, TypeOK, Good
<1>4. CASE Save
  BY <1>4 DEF Save, IInv, TypeOK
<1>5. CASE Restart
  <2>1. \A b \in Bucket : Good(Loaded(b), b)
    BY LoadedGood
  <2> QED BY <1>5, <2>1 DEF Restart, IInv, TypeOK, Good
<1>6. CASE Tick
  BY <1>6 DEF Tick, IInv, TypeOK
<1>7. CASE UNCHANGED vars
  BY <1>7 DEF vars, IInv, TypeOK
<1> QED BY <1>1, <1>2, <1>3, <1>4, <1>5, <1>6, <1>7 DEF Next

\* The chains stay lists of requests of their own nicks.
THEOREM Invariance == Spec => []IInv
  BY InitIInv, StepIInv, PTL DEF Spec

\* Every chain is a sequence of requests.
THEOREM TypeCorrect == Spec => []TypeOK
<1>1. IInv => TypeOK
  BY DEF IInv
<1> QED BY <1>1, Invariance, PTL

\* No nick is requested twice, whatever shares a chain and however often
\* services are restarted.
THEOREM RequestedOnce == Spec => []OneRequestPerNick
<1>1. IInv => OneRequestPerNick
  BY DEF IInv, Good, OneRequestPerNick
<1> QED BY <1>1, Invariance, PTL

-----------------------------------------------------------------------------
(* With a chain for every nick the table implements the set.               *)

Injective == \A n, m \in Nick : HASH[n] = HASH[m] => n = m

LEMMA ShortChains ==
  ASSUME Injective, NEW b, NEW chain, Good(chain, b)
  PROVE  chain = <<>> \/ \E r \in Request : chain = <<r>>
<1>1. Len(chain) \in Nat /\ chain \in Seq(Request)
  BY DEF Good
<1>2. \A i, j \in DOMAIN chain : i = j
  <2>1. \A i \in DOMAIN chain : chain[i] \in Request
    BY <1>1
  <2>2. \A i \in DOMAIN chain : chain[i].nick \in Nick
    BY <2>1 DEF Request
  <2> QED BY <2>2 DEF Good, Injective
<1>3. Len(chain) <= 1
  <2> SUFFICES ASSUME Len(chain) > 1 PROVE FALSE
    BY <1>1
  <2>1. 1 \in DOMAIN chain /\ 2 \in DOMAIN chain
    BY <1>1
  <2> QED BY <2>1, <1>2
<1>4. CASE Len(chain) = 0
  BY <1>1, <1>4
<1>5. CASE Len(chain) = 1
  <2>1. chain[1] \in Request /\ chain = <<chain[1]>>
    BY <1>1, <1>5
  <2> QED BY <2>1
<1> QED BY <1>1, <1>3, <1>4, <1>5

\* The requests in the table are those that make up the chain of their nick.
LEMMA InTable ==
  ASSUME Injective, NEW lists, \A b \in Bucket : Good(lists[b], b), NEW r
  PROVE  r \in RequestsIn(lists) <=> r \in Request /\ lists[HASH[r.nick]] = <<r>>
<1>1. ASSUME r \in RequestsIn(lists)
      PROVE  r \in Request /\ lists[HASH[r.nick]] = <<r>>
  <2>1. PICK b \in Bucket : \E i \in DOMAIN lists[b] : r = lists[b][i]
    BY <1>1 DEF RequestsIn
  <2>2. PICK i \in DOMAIN lists[b] : r = lists[b][i]
    BY <2>1
  <2>3. r \in Request /\ HASH[r.nick] = b
    BY <2>2 DEF Good
  <2>4. lists[b] = <<r>>
    BY <2>2, ShortChains
  <2> QED BY <2>3, <2>4
<1>2. ASSUME r \in Request, lists[HASH[r.nick]] = <<r>>
      PROVE  r \in RequestsIn(lists)
  <2>1. HASH[r.nick] \in Bucket
    BY <1>2, Hashed DEF Request
  <2>2. r \in {lists[HASH[r.nick]][i] : i \in DOMAIN lists[HASH[r.nick]]}
    BY <1>2
  <2> QED BY <2>1, <2>2 DEF RequestsIn
<1> QED BY <1>1, <1>2

LEMMA RegisterIsAsk ==
  ASSUME Injective, IInv, IInv', NEW n \in Nick, Register(n)
  PROVE  Abs!Ask(n)
<1> DEFINE new == [nick |-> n, requested |-> now]
<1>1. HASH[n] \in Bucket /\ new \in Request /\ new.nick = n
  BY Hashed DEF IInv, TypeOK, Request
<1>2. nrlists[HASH[n]] = <<>>
  <2>1. ASSUME NEW q \in Request, nrlists[HASH[n]] = <<q>> PROVE FALSE
    <3>1. 1 \in DOMAIN nrlists[HASH[n]] /\ nrlists[HASH[n]][1] = q
      BY <2>1
    <3>2. q.nick \in Nick /\ HASH[q.nick] = HASH[n]
      BY <1>1, <3>1 DEF IInv, Good, Request
    <3> QED BY <1>1, <3>1, <3>2 DEF Register, Requested, Injective
  <2>2. Good(nrlists[HASH[n]], HASH[n])
    BY <1>1 DEF IInv
  <2> QED BY <2>1, <2>2, ShortChains
<1>3. /\ nrlists' = [nrlists EXCEPT ![HASH[n]] = <<new>>]
      /\ UNCHANGED <<now, file>>
  BY <1>2 DEF Register, InsertRequestNick
<1> HIDE DEF new
<1>4. ASSUME NEW r
      PROVE  r \in RequestsIn(nrlists)' <=> r \in RequestsIn(nrlists) \/ r = new
  <2>1. r \in RequestsIn(nrlists) <=> r \in Request /\ nrlists[HASH[r.nick]] = <<r>>
    BY InTable DEF IInv
  <2>2. r \in RequestsIn(nrlists)' <=> r \in Request /\ nrlists'[HASH[r.nick]] = <<r>>
    BY InTable DEF IInv
  <2>3. CASE r \in Request /\ r.nick = n
    <3>1. nrlists'[HASH[r.nick]] = <<new>> /\ nrlists[HASH[r.nick]] = <<>>
      BY <1>1, <1>2, <1>3, <2>3 DEF IInv, TypeOK
    <3> QED BY <2>1, <2>2, <2>3, <3>1
  <2>4. CASE r \in Request /\ r.nick # n
    <3>1. HASH[r.nick] # HASH[n] /\ r # new
      BY <1>1, <2>4 DEF Injective, Request
    <3>2. nrlists'[HASH[r.nick]] = nrlists[HASH[r.nick]]
      BY <1>3, <3>1, <2>4, Hashed DEF IInv, TypeOK, Request
    <3> QED BY <2>1, <2>2, <3>1, <3>2
  <2>5. CASE r \notin Request
    BY <1>1, <2>1, <2>2, <2>5
  <2> QED BY <2>3, <2>4, <2>5
<1>5. ASSUME NEW r \in RequestsIn(nrlists), r.nick = n PROVE FALSE
  <2>1. nrlists[HASH[n]] = <<r>>
    BY <1>5, InTable DEF IInv
  <2> QED BY <1>2, <2>1
<1>6. RequestsIn(nrlists)' = RequestsIn(nrlists) \cup {new}
  BY <1>4
<1>7. RequestsIn(file)' = RequestsIn(file) /\ now' = now
  BY <1>3 DEF RequestsIn
<1> QED BY <1>5, <1>6, <1>7 DEF Abs!Ask, new

LEMMA RemoveIsEnd ==
  ASSUME Injective, IInv, IInv', NEW n \in Nick, Remove(n)
  PROVE  \E q \in RequestsIn(nrlists) : Abs!End(q)
<1>1. HASH[n] \in Bucket /\ Good(nrlists[HASH[n]], HASH[n])
  BY Hashed DEF IInv
<1>2. PICK i \in DOMAIN nrlists[HASH[n]] :
         /\ nrlists[HASH[n]][i].nick = n
         /\ nrlists' = [nrlists EXCEPT ![HASH[n]] = DelNickRequest(nrlists[HASH[n]], i)]
  BY DEF Remove
<1>3. PICK q \in Request : nrlists[HASH[n]] = <<q>>
  BY <1>1, <1>2, ShortChains
<1>4. i = 1 /\ q.nick = n
  BY <1>2, <1>3
<1>5. DelNickRequest(<<q>>, 1) = <<>>
  BY DEF DelNickRequest, After
<1>6. /\ nrlists' = [nrlists EXCEPT ![HASH[n]] = <<>>]
      /\ UNCHANGED <<now, file>>
  BY <1>2, <1>3, <1>4, <1>5 DEF Remove
<1>7. ASSUME NEW r
      PROVE  r \in RequestsIn(nrlists)' <=> r \in RequestsIn(nrlists) /\ r # q
  <2>1. r \in RequestsIn(nrlists) <=> r \in Request /\ nrlists[HASH[r.nick]] = <<r>>
    BY InTable DEF IInv
  <2>2. r \in RequestsIn(nrlists)' <=> r \in Request /\ nrlists'[HASH[r.nick]] = <<r>>
    BY InTable DEF IInv
  <2>3. CASE r \in Request /\ r.nick = n
    <3>1. nrlists'[HASH[r.nick]] = <<>> /\ nrlists[HASH[r.nick]] = <<q>>
      BY <1>1, <1>3, <1>6, <2>3 DEF IInv, TypeOK
    <3> QED BY <2>1, <2>2, <2>3, <3>1
  <2>4. CASE r \in Request /\ r.nick # n
    <3>1. HASH[r.nick] # HASH[n] /\ r # q
      BY <1>4, <2>4 DEF Injective, Request
    <3>2. nrlists'[HASH[r.nick]] = nrlists[HASH[r.nick]]
      BY <1>6, <3>1, <2>4, Hashed DEF IInv, TypeOK, Request
    <3> QED BY <2>1, <2>2, <3>1, <3>2
  <2>5. CASE r \notin Request
    BY <2>1, <2>2, <2>5
  <2> QED BY <2>3, <2>4, <2>5
<1>8. q \in RequestsIn(nrlists)
  BY <1>3, <1>4, InTable DEF IInv
<1>9. RequestsIn(nrlists)' = RequestsIn(nrlists) \ {q}
  BY <1>7
<1>10. RequestsIn(file)' = RequestsIn(file) /\ now' = now
  BY <1>6 DEF RequestsIn
<1> QED BY <1>8, <1>9, <1>10 DEF Abs!End

LEMMA ExpireIsExpire ==
  ASSUME Injective, IInv, IInv', ExpireRequests
  PROVE  Abs!Expire
<1>1. ASSUME NEW r
      PROVE  r \in RequestsIn(nrlists)' <=> r \in RequestsIn(nrlists) /\ ~Abs!Due(r)
  <2>1. r \in RequestsIn(nrlists) <=> r \in Request /\ nrlists[HASH[r.nick]] = <<r>>
    BY InTable DEF IInv
  <2>2. r \in RequestsIn(nrlists)' <=> r \in Request /\ nrlists'[HASH[r.nick]] = <<r>>
    BY InTable DEF IInv
  <2>3. CASE r \in Request
    <3> DEFINE b == HASH[r.nick]
    <3>1. b \in Bucket /\ Good(nrlists[b], b) /\ nrlists'[b] = Expired(nrlists[b])
      BY <2>3, Hashed DEF Request, IInv, ExpireRequests
    <3>4. r \in RequestsIn(nrlists) <=> nrlists[b] = <<r>>
      BY <2>1, <2>3
    <3>5. r \in RequestsIn(nrlists)' <=> nrlists'[b] = <<r>>
      BY <2>2, <2>3
    <3> HIDE DEF b
    <3>2. CASE nrlists[b] = <<>>
      <4>1. Expired(<<>>) = <<>>
        BY DEF Expired
      <4>2. nrlists'[b] = <<>>
        BY <3>1, <3>2, <4>1
      <4> QED BY <3>2, <3>4, <3>5, <4>2
    <3>3. ASSUME NEW q \in Request, nrlists[b] = <<q>>
          PROVE  r \in RequestsIn(nrlists)' <=> r \in RequestsIn(nrlists) /\ ~Abs!Due(r)
      <4>1. {i \in DOMAIN <<q>> : Due(<<q>>[i])} = IF Due(q) THEN {1} ELSE {}
        BY DEF Due
      <4>2. (CHOOSE i \in {1} : \A j \in {1} : j <= i) = 1
        OBVIOUS
      <4>3. DelNickRequest(<<q>>, 1) = <<>>
        BY DEF DelNickRequest, After
      <4>4. Expired(<<q>>) = IF Due(q) THEN <<>> ELSE <<q>>
        <5>1. CASE Due(q)
          BY <5>1, <4>1, <4>2, <4>3 DEF Expired
        <5>2. CASE ~Due(q)
          BY <5>2, <4>1 DEF Expired
        <5> QED BY <5>1, <5>2
      <4>5. nrlists'[b] = IF Due(q) THEN <<>> ELSE <<q>>
        BY <3>1, <3>3, <4>4
      <4>6. <<q>> = <<r>> <=> q = r
        OBVIOUS
      <4>7. Due(r) <=> Abs!Due(r)
        BY DEF Due, Abs!Due
      <4> QED BY <3>3, <3>4, <3>5, <4>5, <4>6, <4>7
    <3> QED BY <3>1, <3>2, <3>3, ShortChains
  <2>4. CASE r \notin Request
    BY <2>1, <2>2, <2>4
  <2> QED BY <2>3, <2>4
<1>2. RequestsIn(nrlists)' = {r \in RequestsIn(nrlists) : ~Abs!Due(r)}
  BY <1>1
<1>3. RequestsIn(file)' = RequestsIn(file) /\ now' = now
  BY DEF ExpireRequests, RequestsIn
<1> QED BY <1>2, <1>3 DEF Abs!Expire

\* At most one record comes from each earlier bucket: the file is read to
\* its end.
LEMMA WholeFileLoaded ==
  ASSUME Injective, IInv, NEW b \in Bucket
  PROVE  Loaded(b) = file[b]
<1> DEFINE S == 0..(b - 1)
<1> DEFINE F == UNION {{c} \X DOMAIN file[c] : c \in S}
<1>1. b \in Nat /\ b + 1 <= Buckets /\ S \subseteq Bucket
  BY BucketsAssumption DEF Bucket
<1>2. \A c \in Bucket : Good(file[c], c)
  BY DEF IInv
<1>3. F \subseteq S \X {1}
  <2> SUFFICES ASSUME NEW c \in S, NEW i \in DOMAIN file[c] PROVE i = 1
    OBVIOUS
  <2>1. file[c] = <<>> \/ \E r \in Request : file[c] = <<r>>
    BY <1>1, <1>2, ShortChains
  <2> QED BY <2>1
<1>4. IsFiniteSet(S) /\ Cardinality(S) = b
  <2>1. 0 \in Int /\ b - 1 \in Int
    BY <1>1
  <2>2. IsFiniteSet(S) /\ Cardinality(S) = IF 0 > b - 1 THEN 0 ELSE (b - 1) - 0 + 1
    BY <2>1, FS_Interval
  <2> HIDE DEF S
  <2> QED BY <1>1, <2>2
<1>5. IsFiniteSet(S \X {1}) /\ Cardinality(S \X {1}) = b
  <2>1. IsFiniteSet({1}) /\ Cardinality({1}) = 1
    BY FS_Singleton
  <2>2. IsFiniteSet(S \X {1}) /\ Cardinality(S \X {1}) = b * 1
    <3> HIDE DEF S
    <3> QED BY <1>4, <2>1, FS_Product
  <2> QED BY <1>1, <2>2
<1>6. InFile(b) <= b
  <2>1. Cardinality(F) <= Cardinality(S \X {1})
    <3> HIDE DEF F, S
    <3> QED BY <1>3, <1>5, FS_Subset
  <2>2. InFile(b) = Cardinality(F)
    BY DEF InFile
  <2> QED BY <2>1, <2>2, <1>5
<1>7. CASE file[b] = <<>>
  <2>1. Loadable(b) = 0
    BY <1>1, <1>6, <1>7, InFileType, BucketsAssumption DEF Loadable
  <2> QED BY <1>7, <2>1 DEF Loaded
<1>8. ASSUME NEW r \in Request, file[b] = <<r>> PROVE Loaded(b) = file[b]
  <2>1. Loadable(b) = 1
    BY <1>1, <1>6, <1>8, InFileType, BucketsAssumption DEF Loadable
  <2>2. Loaded(b) = [i \in 1..1 |-> <<r>>[2 - i]]
    BY <1>8, <2>1 DEF Loaded
  <2>3. \A i \in 1..1 : <<r>>[2 - i] = r
    OBVIOUS
  <2> QED BY <1>8, <2>2, <2>3
<1> QED BY <1>2, <1>7, <1>8, ShortChains

LEMMA RestartIsRestart ==
  ASSUME Injective, IInv, Restart
  PROVE  Abs!Restart
<1>1. \A b \in Bucket : nrlists'[b] = file[b]
  BY WholeFileLoaded DEF Restart
<1>2. RequestsIn(nrlists)' = RequestsIn(file)
  BY <1>1 DEF RequestsIn
<1> QED BY <1>2 DEF Restart, Abs!Restart, RequestsIn

LEMMA StepIsStep ==
  ASSUME Injective, IInv, IInv', [Next]_vars
  PROVE  [Abs!Next]_(Abs!vars)
<1>1. CASE Save
  BY <1>1 DEF Save, RequestsIn, Abs!Save, Abs!Next
<1>2. CASE Tick
  BY <1>2 DEF Tick, RequestsIn, Abs!Tick, Abs!Next
<1>3. CASE UNCHANGED vars
  BY <1>3 DEF vars, RequestsIn, Abs!vars
<1> QED BY <1>1, <1>2, <1>3, RegisterIsAsk, RemoveIsEnd, ExpireIsExpire, RestartIsRestart
        DEF Next, Abs!Next

LEMMA InitIsInit == Init => Abs!Init
  BY DEF Init, Abs!Init, RequestsIn

\* When no two nicks share a chain, only CONFIRM, DROP and expiry end a
\* request: the chains implement the set of module NickRequestSet.  Some
\* hypothesis of the kind is needed: delnickrequest loses the requests that
\* are newer than the one it deletes.
THEOREM ImplementsRequestSet ==
  ASSUME Injective
  PROVE  Spec => AbsSpec
<1>1. IInv /\ IInv' /\ [Next]_vars => [Abs!Next]_(Abs!vars)
  BY StepIsStep
<1> QED BY <1>1, InitIsInit, Invariance, PTL DEF Spec, AbsSpec, Abs!Spec
===============================================================================
