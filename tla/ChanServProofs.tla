---------------------------- MODULE ChanServProofs ----------------------------
(***************************************************************************)
(* Proofs about ChanServ for any users, groups, channels and limits, and   *)
(* for all of the sequences in Allowed.  A record is described by itself   *)
(* (RecOK) and against the Channel of its name (LinkOK); a command changes *)
(* one record, so that most of the steps are instances of PutKeeps.        *)
(***************************************************************************)
EXTENDS ChanServ, FiniteSetTheorems, TLAPS

\* A record is well-typed, refers to groups of G only, and its successor is
\* not its founder.
RecOK(r, G) ==
    /\ r \in ChannelInfo
    /\ {r.founder, r.successor} \subseteq G \cup {NULL}
    /\ \A n \in Core \ G : r.access[n] = 0
    /\ r.founder # NULL => r.successor # r.founder

\* l is what the Channel of that name points to, if there is one (rec).
LinkOK(r, l, rec) ==
    /\ l # NULL => r # NULL /\ r.id = l /\ r.c /\ rec
    /\ (r # NULL /\ r.founder # NULL) => (r.c <=> rec) /\ (r.c <=> l # NULL)

Rest ==
    /\ now \in Nat /\ events \in Nat
    /\ up \in BOOLEAN
    /\ cores \subseteq Core
    /\ count \in [Core -> Int]
    /\ account \in [User -> Core \cup {NULL}]
    /\ clink \in [Channel -> Id \cup {NULL}]
    /\ record \subseteq Channel
    /\ occupied \subseteq Channel
    /\ identified \in [User -> SUBSET Id]

Records ==
    /\ ci \in [Channel -> ChannelInfo \cup {NULL}]
    /\ \A x \in Channel : ci[x] # NULL => RecOK(ci[x], cores)
    /\ \A x \in Channel : LinkOK(ci[x], clink[x], x \in record)

Disk ==
    /\ disk \in [nick: [Core -> Int \cup {NULL}],
                 chan: [Channel -> ChannelInfo \cup {NULL}]]
    /\ \A x \in Channel : disk.chan[x] # NULL => RecOK(disk.chan[x], Core)

IInv == Rest /\ Records /\ Disk

-----------------------------------------------------------------------------
(* Records.                                                                *)

\* Constants that are not NULL.
LEMMA NullFacts ==
  /\ NULL \notin Core /\ NULL \notin Id /\ NULL \notin ChannelInfo
  /\ Level \subseteq Int
  /\ MaxTime \in Nat /\ CSExpire \in Nat
BY NullIsNothing, LevelsAreInt, NumbersAreNat

LEMMA ShellOK ==
  ASSUME NEW id \in Id, NEW G
  PROVE  /\ RecOK(Shell(id), G)
         /\ Shell(id).founder = NULL /\ ~Shell(id).c /\ Shell(id).id = id
         /\ Shell(id).flags = {}
BY DEF RecOK, Shell, Nothing, ChannelInfo, Entry

\* Access checks change nothing but the time of last use.
LEMMA UsedKeeps ==
  ASSUME NEW u, NEW r, NEW G, RecOK(r, G), now \in Nat
  PROVE  /\ RecOK(Used(u, r), G)
         /\ Used(u, r).id = r.id /\ Used(u, r).c = r.c
         /\ Used(u, r).founder = r.founder /\ Used(u, r).successor = r.successor
         /\ Used(u, r).access = r.access /\ Used(u, r).junk = r.junk
         /\ Used(u, r).flags = r.flags
<1>1. r \in ChannelInfo
  BY DEF RecOK
<1>2. CASE GetAccess(u, r) > 0
  <2>1. Used(u, r) = [r EXCEPT !.last_used = now]
    BY <1>2 DEF Used
  <2> QED BY <1>1, <2>1 DEF RecOK, ChannelInfo
<1>3. CASE ~(GetAccess(u, r) > 0)
  BY <1>3 DEF Used
<1> QED BY <1>2, <1>3

LEMMA CheckedKeeps ==
  ASSUME NEW u, NEW r, NEW G, RecOK(r, G), now \in Nat
  PROVE  /\ RecOK(Checked(u, r), G)
         /\ Checked(u, r).id = r.id /\ Checked(u, r).c = r.c
         /\ Checked(u, r).founder = r.founder
BY UsedKeeps DEF Checked

\* The changes commands make to a record.
LEMMA FlagsKeep ==
  ASSUME NEW r, NEW G, RecOK(r, G), NEW f \in SUBSET Flag
  PROVE  LET s == [r EXCEPT !.flags = f]
         IN  RecOK(s, G) /\ s.id = r.id /\ s.c = r.c /\ s.founder = r.founder
BY DEF RecOK, ChannelInfo

LEMMA AccessKeeps ==
  ASSUME NEW r, NEW G, RecOK(r, G), NEW n \in G \cap Core, NEW l \in Entry
  PROVE  LET s == [r EXCEPT !.access[n] = l]
         IN  RecOK(s, G) /\ s.id = r.id /\ s.c = r.c /\ s.founder = r.founder
<1> DEFINE a == [r.access EXCEPT ![n] = l]
<1>1. r \in ChannelInfo
  BY DEF RecOK
<1>2. a \in [Core -> Entry] /\ \A m \in Core \ G : a[m] = r.access[m]
  BY <1>1 DEF ChannelInfo
<1>3. [r EXCEPT !.access[n] = l] = [r EXCEPT !.access = a]
  BY <1>1 DEF ChannelInfo
<1> HIDE DEF a
<1> QED BY <1>1, <1>2, <1>3 DEF RecOK, ChannelInfo

LEMMA SuccessorKeeps ==
  ASSUME NEW r, NEW G, RecOK(r, G), NEW n \in G \cup {NULL}, n \in Core \cup {NULL},
         r.founder # NULL => n # r.founder
  PROVE  LET s == [r EXCEPT !.successor = n]
         IN  RecOK(s, G) /\ s.id = r.id /\ s.c = r.c /\ s.founder = r.founder
BY DEF RecOK, ChannelInfo

\* A record put in the place of another one with the same links.
LEMMA PutKeeps ==
  ASSUME Records, NEW x \in Channel, NEW r, Put(x, r), ci[x] # NULL,
         RecOK(r, cores), r.id = ci[x].id, r.c = ci[x].c,
         r.founder = NULL <=> ci[x].founder = NULL,
         UNCHANGED <<cores, clink, record>>
  PROVE  Records'
<1>1. r \in ChannelInfo /\ r # NULL
  BY NullFacts DEF RecOK
<1>2. ci' = [ci EXCEPT ![x] = r]
  BY DEF Put
<1>3. ci' \in [Channel -> ChannelInfo \cup {NULL}]
  BY <1>1, <1>2 DEF Records
<1>4. ci'[x] = r /\ \A y \in Channel \ {x} : ci'[y] = ci[y]
  BY <1>2 DEF Records
<1>5. ASSUME NEW y \in Channel PROVE LinkOK(ci'[y], clink'[y], y \in record')
  <2>1. LinkOK(ci[y], clink[y], y \in record)
    BY DEF Records
  <2> QED BY <1>1, <1>4, <2>1 DEF LinkOK
<1>6. ASSUME NEW y \in Channel, ci'[y] # NULL PROVE RecOK(ci'[y], cores')
  <2>1. ci[y] # NULL => RecOK(ci[y], cores)
    BY DEF Records
  <2> QED BY <1>4, <1>6, <2>1 DEF RecOK
<1> QED BY <1>3, <1>5, <1>6 DEF Records

-----------------------------------------------------------------------------
(* Deleting.                                                               *)

\* Channels a record is taken from, together with the link of its Channel.
LEMMA DeletedKeeps ==
  ASSUME Records, Rest, NEW X,
         ci' = [x \in Channel |-> IF x \in X THEN NULL ELSE ci[x]],
         clink' = [x \in Channel |->
                     IF x \in X /\ ci[x] # NULL /\ ci[x].c THEN NULL ELSE clink[x]],
         UNCHANGED <<cores, record>>
  PROVE  Records' /\ clink' \in [Channel -> Id \cup {NULL}]
<1>1. ci' \in [Channel -> ChannelInfo \cup {NULL}]
  BY DEF Records
<1>2. clink' \in [Channel -> Id \cup {NULL}]
  BY DEF Rest
<1>3. ASSUME NEW x \in Channel
      PROVE  /\ ci'[x] # NULL => RecOK(ci'[x], cores')
             /\ LinkOK(ci'[x], clink'[x], x \in record')
  <2>1. /\ ci[x] # NULL => RecOK(ci[x], cores)
        /\ LinkOK(ci[x], clink[x], x \in record)
    BY DEF Records
  <2>2. CASE x \in X
    BY <2>1, <2>2 DEF LinkOK
  <2>3. CASE x \notin X
    BY <2>1, <2>3 DEF LinkOK, RecOK
  <2> QED BY <2>2, <2>3
<1> QED BY <1>1, <1>2, <1>3 DEF Records

LEMMA FoundedFinite ==
  ASSUME NEW n, NEW X \in SUBSET Channel
  PROVE  Cardinality(Founded(n, X)) \in Nat
<1>1. IsFiniteSet(Founded(n, X))
  BY SetsAreFinite, FS_Subset DEF Founded
<1> QED BY <1>1, FS_CardinalityType

LEMMA CountsType ==
  ASSUME Rest, NEW X \in SUBSET Channel
  PROVE  [n \in Core |-> count[n] - Cardinality(Founded(n, X))] \in [Core -> Int]
BY FoundedFinite DEF Rest

LEMMA DelChansKeeps ==
  ASSUME IInv, NEW X \in SUBSET Channel, DelChans(X), UNCHANGED <<cores, record>>
  PROVE  Records' /\ clink' \in [Channel -> Id \cup {NULL}] /\ count' \in [Core -> Int]
<1>1. count' \in [Core -> Int]
  BY CountsType DEF DelChans, IInv
<1>2. Records' /\ clink' \in [Channel -> Id \cup {NULL}]
  BY DeletedKeeps DEF DelChans, IInv
<1> QED BY <1>1, <1>2

-----------------------------------------------------------------------------
(* Initial states, and steps that leave the records alone.                 *)

LEMMA InitIInv == Init => IInv
<1> SUFFICES ASSUME Init PROVE IInv
  OBVIOUS
<1>1. Rest
  BY NullFacts, NumbersAreNat, StartAreCores DEF Init, Rest, Nothing
<1>2. Records
  BY NullFacts DEF Init, Records, LinkOK
<1>3. Disk
  BY DEF Init, Disk
<1> QED BY <1>1, <1>2, <1>3 DEF IInv

LEMMA RecordsFrame ==
  ASSUME Records, UNCHANGED <<cores, ci, clink, record>>
  PROVE  Records'
BY DEF Records, RecOK, LinkOK

LEMMA DiskFrame ==
  ASSUME Disk, UNCHANGED disk
  PROVE  Disk'
BY DEF Disk, RecOK

LEMMA StutterIInv == ASSUME IInv, UNCHANGED vars PROVE IInv'
<1>1. Records' /\ Disk'
  BY RecordsFrame, DiskFrame DEF vars, IInv
<1>2. Rest'
  BY DEF vars, IInv, Rest
<1> QED BY <1>1, <1>2 DEF IInv

LEMMA CrashIInv == ASSUME IInv, Crash, events' \in Nat PROVE IInv'
<1>1. Records' /\ Disk'
  BY RecordsFrame, DiskFrame DEF Crash, IInv
<1>2. Rest'
  BY DEF Crash, IInv, Rest
<1> QED BY <1>1, <1>2 DEF IInv

LEMMA EventCount == ASSUME Rest, Event PROVE events' \in Nat
BY DEF Event, Rest

LEMMA TickIInv == ASSUME IInv, Tick PROVE IInv'
<1>1. Records' /\ Disk'
  BY RecordsFrame, DiskFrame DEF Tick, IInv
<1>2. Rest'
  BY DEF Tick, IInv, Rest
<1> QED BY <1>1, <1>2 DEF IInv

-----------------------------------------------------------------------------
(* Users, groups and Channel records.                                      *)

LEMMA RecMonotone ==
  ASSUME NEW r, NEW G, NEW H, G \subseteq H, RecOK(r, G)
  PROVE  RecOK(r, H)
BY DEF RecOK

LEMMA RegisterNickIInv == ASSUME IInv, NEW n \in Core, RegisterNick(n) PROVE IInv'
<1>1. Disk'
  BY DiskFrame DEF RegisterNick, IInv
<1>2. Rest'
  BY DEF RegisterNick, Event, IInv, Rest
<1>3. \A x \in Channel : ci'[x] # NULL => RecOK(ci'[x], cores')
  <2>1. ci' = ci /\ cores \subseteq cores'
    BY DEF RegisterNick
  <2>2. \A x \in Channel : ci[x] # NULL => RecOK(ci[x], cores)
    BY DEF IInv, Records
  <2> QED BY <2>1, <2>2, RecMonotone
<1>4. UNCHANGED <<ci, clink, record>>
  BY DEF RegisterNick
<1> QED BY <1>1, <1>2, <1>3, <1>4 DEF IInv, Records, LinkOK

LEMMA LoginIInv ==
  ASSUME IInv, NEW u \in User, NEW n \in Core, Login(u, n)
  PROVE  IInv'
<1>1. Records' /\ Disk'
  BY RecordsFrame, DiskFrame DEF Login, IInv
<1>2. Rest'
  BY DEF Login, IInv, Rest
<1> QED BY <1>1, <1>2 DEF IInv

LEMMA QuitIInv == ASSUME IInv, NEW u \in User, Quit(u) PROVE IInv'
<1>1. Records' /\ Disk'
  BY RecordsFrame, DiskFrame DEF Quit, IInv
<1>2. Rest'
  BY DEF Quit, IInv, Rest
<1> QED BY <1>1, <1>2 DEF IInv

LEMMA PartIInv == ASSUME IInv, NEW x \in Channel, Part(x) PROVE IInv'
<1>1. Records' /\ Disk'
  BY RecordsFrame, DiskFrame DEF Part, IInv
<1>2. Rest'
  BY DEF Part, IInv, Rest
<1> QED BY <1>1, <1>2 DEF IInv

\* A record that becomes linked, or is not there.
LEMMA LinkKeeps ==
  ASSUME NEW r, NEW G, RecOK(r, G)
  PROVE  LET s == [r EXCEPT !.c = TRUE]
         IN  RecOK(s, G) /\ s.id = r.id /\ s.c /\ r.id \in Id
BY DEF RecOK, ChannelInfo

LEMMA JoinIInv == ASSUME IInv, NEW x \in Channel, Join(x) PROVE IInv'
<1>1. Disk'
  BY DiskFrame DEF Join, IInv
<1>2. /\ ci[x] # NULL => RecOK(ci[x], cores)
      /\ \A y \in Channel : LinkOK(ci[y], clink[y], y \in record)
      /\ \A y \in Channel : ci[y] # NULL => RecOK(ci[y], cores)
      /\ ci \in [Channel -> ChannelInfo \cup {NULL}]
      /\ clink \in [Channel -> Id \cup {NULL}]
  BY DEF IInv, Records, Rest
<1>3. CASE x \in record \/ ci[x] = NULL
  <2>1. UNCHANGED <<cores, ci, clink>> /\ record' = record \cup {x}
    BY <1>3 DEF Join
  <2>2. Rest'
    BY <2>1 DEF Join, IInv, Rest
  <2>3. Records'
    BY <1>2, <1>3, <2>1 DEF Records, LinkOK, RecOK
  <2> QED BY <1>1, <2>2, <2>3 DEF IInv
<1>4. CASE x \notin record /\ ci[x] # NULL
  <2> DEFINE r == [ci[x] EXCEPT !.c = TRUE]
  <2>1. /\ ci' = [ci EXCEPT ![x] = r]
        /\ clink' = [clink EXCEPT ![x] = ci[x].id]
        /\ record' = record \cup {x}
        /\ cores' = cores
    BY <1>4 DEF Join, Put
  <2>2. RecOK(r, cores) /\ r.id = ci[x].id /\ r.c /\ r.id \in Id
    BY <1>2, <1>4, LinkKeeps
  <2>3. r \in ChannelInfo /\ r # NULL
    BY <2>2, NullFacts DEF RecOK
  <2> HIDE DEF r
  <2>4. Rest'
    BY <1>2, <2>1, <2>2 DEF Join, IInv, Rest
  <2>5. ci' \in [Channel -> ChannelInfo \cup {NULL}]
    BY <1>2, <2>1, <2>3
  <2>6. ASSUME NEW y \in Channel
        PROVE  /\ ci'[y] # NULL => RecOK(ci'[y], cores')
               /\ LinkOK(ci'[y], clink'[y], y \in record')
    <3>1. CASE y = x
      <4>1. ci'[y] = r /\ clink'[y] = r.id /\ y \in record'
        BY <1>2, <2>1, <2>2, <3>1
      <4> QED BY <4>1, <2>1, <2>2, <2>3, NullFacts DEF LinkOK
    <3>2. CASE y # x
      <4>1. ci'[y] = ci[y] /\ clink'[y] = clink[y] /\ (y \in record' <=> y \in record)
        BY <1>2, <2>1, <3>2
      <4> QED BY <4>1, <1>2, <2>1 DEF LinkOK
    <3> QED BY <3>1, <3>2
  <2>7. Records'
    BY <2>5, <2>6 DEF Records
  <2> QED BY <1>1, <2>4, <2>7 DEF IInv
<1> QED BY <1>3, <1>4

\* cs_remove_nick() leaves no reference, and the heir has no successor.
LEMMA WithoutNickKeeps ==
  ASSUME NEW r, NEW G \in SUBSET Core, RecOK(r, G), NEW n \in Core,
         r.founder = n => r.successor # NULL
  PROVE  /\ RecOK(WithoutNick(r, n), G \ {n})
         /\ WithoutNick(r, n).id = r.id /\ WithoutNick(r, n).c = r.c
         /\ WithoutNick(r, n).founder = NULL <=> r.founder = NULL
<1> DEFINE a == [r.access EXCEPT ![n] = 0]
           f == IF r.founder = n THEN r.successor ELSE r.founder
           g == IF r.founder = n \/ r.successor = n THEN NULL ELSE r.successor
<1>1. r \in ChannelInfo /\ NULL # n
  BY NullFacts DEF RecOK
<1>2. a \in [Core -> Entry] /\ \A m \in Core \ (G \ {n}) : a[m] = 0
  BY <1>1 DEF RecOK, ChannelInfo, Entry
<1>3. WithoutNick(r, n) = [r EXCEPT !.founder = f, !.successor = g, !.access = a]
  BY <1>1 DEF WithoutNick, ChannelInfo
<1>4. /\ {f, g} \subseteq (G \ {n}) \cup {NULL}
      /\ f # NULL => g # f
      /\ f = NULL <=> r.founder = NULL
  BY <1>1 DEF RecOK
<1> DEFINE s == [r EXCEPT !.founder = f, !.successor = g, !.access = a]
<1>5. f \in Core \cup {NULL} /\ g \in Core \cup {NULL}
  BY <1>4
<1> HIDE DEF a, f, g
<1>6. /\ s \in ChannelInfo
      /\ s.founder = f /\ s.successor = g /\ s.access = a
      /\ s.id = r.id /\ s.c = r.c
  BY <1>1, <1>2, <1>5 DEF ChannelInfo
<1>7. WithoutNick(r, n) = s
  BY <1>3
<1> HIDE DEF s
<1>8. RecOK(s, G \ {n})
  BY <1>2, <1>4, <1>6 DEF RecOK
<1> QED BY <1>4, <1>6, <1>7, <1>8

LEMMA RemoveNickIInv == ASSUME IInv, NEW n \in Core, RemoveNick(n) PROVE IInv'
<1>1. PICK Kept \in SUBSET {x \in Channel : Successor(x, n)} : RemoveNickKeeping(n, Kept)
  BY DEF RemoveNick
<1> DEFINE X == {x \in Channel : ci[x] # NULL /\ ci[x].founder = n} \ Kept
<1>2. Disk'
  BY <1>1, DiskFrame DEF IInv, RemoveNickKeeping
<1>3. ASSUME NEW x \in Channel
      PROVE  /\ ci'[x] \in ChannelInfo \cup {NULL}
             /\ ci'[x] # NULL => RecOK(ci'[x], cores')
             /\ LinkOK(ci'[x], clink'[x], x \in record')
  <2>1. /\ ci[x] # NULL => RecOK(ci[x], cores)
        /\ LinkOK(ci[x], clink[x], x \in record)
        /\ cores \in SUBSET Core
    BY DEF IInv, Records, Rest
  <2>2. CASE ci[x] = NULL
    BY <1>1, <2>1, <2>2 DEF LinkOK, RemoveNickKeeping
  <2>3. CASE ci[x] # NULL /\ x \in X
    BY <1>1, <2>1, <2>3 DEF LinkOK, RemoveNickKeeping
  <2>4. CASE ci[x] # NULL /\ x \notin X
    <3>1. ci'[x] = WithoutNick(ci[x], n) /\ clink'[x] = clink[x]
      BY <1>1, <2>4 DEF RemoveNickKeeping
    <3>2. ci[x].founder = n => ci[x].successor # NULL
      BY <2>4 DEF Successor
    <3>3. /\ RecOK(WithoutNick(ci[x], n), cores \ {n})
          /\ WithoutNick(ci[x], n).id = ci[x].id /\ WithoutNick(ci[x], n).c = ci[x].c
          /\ WithoutNick(ci[x], n).founder = NULL <=> ci[x].founder = NULL
      BY <2>1, <2>4, <3>2, WithoutNickKeeps
    <3>4. ci'[x] \in ChannelInfo
      BY <3>1, <3>3 DEF RecOK
    <3>5. ci'[x] # NULL /\ cores' = cores \ {n} /\ record' = record
      BY <1>1, <3>4, NullFacts DEF RemoveNickKeeping
    <3>6. LinkOK(ci'[x], clink'[x], x \in record')
      BY <2>1, <2>4, <3>1, <3>3, <3>5 DEF LinkOK
    <3> QED BY <3>1, <3>3, <3>4, <3>5, <3>6
  <2> QED BY <2>2, <2>3, <2>4
<1>4. Records'
  BY <1>1, <1>3 DEF Records, RemoveNickKeeping
<1>5. count' \in [Core -> Int]
  <2> DEFINE h(m) == Cardinality({x \in Kept : ci[x].successor = m})
  <2>1. ASSUME NEW m \in Core PROVE h(m) \in Nat
    <3>1. IsFiniteSet({x \in Kept : ci[x].successor = m})
      BY SetsAreFinite, FS_Subset
    <3> QED BY <3>1, FS_CardinalityType
  <2>2. \A m \in Core : count[m] \in Int
    BY DEF IInv, Rest
  <2>3. count' = [m \in Core |-> IF m = n THEN 0 ELSE count[m] + h(m)]
    BY <1>1 DEF RemoveNickKeeping
  <2> HIDE DEF h
  <2> QED BY <2>1, <2>2, <2>3
<1>6. clink' \in [Channel -> Id \cup {NULL}]
  BY <1>1 DEF IInv, Rest, RemoveNickKeeping
<1>7. Rest'
  BY <1>1, <1>5, <1>6, EventCount DEF RemoveNick, RemoveNickKeeping, IInv, Rest
<1> QED BY <1>2, <1>4, <1>7 DEF IInv

-----------------------------------------------------------------------------
(* Commands.                                                               *)

\* A command that changes one record and not its links.
LEMMA ChannelStep ==
  ASSUME IInv, Event, NEW x \in Channel, NEW r, Put(x, r), OnlyChannel, ci[x] # NULL,
         RecOK(r, cores), r.id = ci[x].id, r.c = ci[x].c,
         r.founder = NULL <=> ci[x].founder = NULL
  PROVE  IInv'
<1>1. Records'
  BY PutKeeps DEF IInv, OnlyChannel
<1>2. Disk'
  BY DiskFrame DEF IInv, OnlyChannel
<1>3. Rest'
  BY EventCount DEF IInv, OnlyChannel, Rest
<1> QED BY <1>1, <1>2, <1>3 DEF IInv

\* The record a command works on.
LEMMA TheRecord ==
  ASSUME IInv, NEW x \in Channel, ci[x] # NULL
  PROVE  /\ RecOK(ci[x], cores) /\ ci[x] \in ChannelInfo
         /\ now \in Nat /\ cores \subseteq Core
BY DEF IInv, Records, RecOK, Rest

LEMMA UseAccessIInv ==
  ASSUME IInv, NEW u \in User, NEW x \in Channel, UseAccess(u, x)
  PROVE  IInv'
<1>1. ci[x] # NULL /\ Event /\ OnlyChannel /\ Put(x, Used(u, ci[x]))
  BY DEF UseAccess
<1> QED BY <1>1, TheRecord, UsedKeeps, ChannelStep

LEMMA SetSuccessorIInv ==
  ASSUME IInv, NEW u \in User, NEW x \in Channel, NEW n \in Core \cup {NULL},
         SetSuccessor(u, x, n)
  PROVE  IInv'
<1> DEFINE r == Used(u, ci[x])
           s == [r EXCEPT !.successor = n]
<1>1. /\ ci[x] # NULL /\ Event /\ OnlyChannel /\ Put(x, s)
      /\ n \in cores \cup {NULL}
      /\ ci[x].founder # NULL => n # ci[x].founder
  BY DEF SetSuccessor
<1>2. RecOK(r, cores) /\ r.id = ci[x].id /\ r.c = ci[x].c /\ r.founder = ci[x].founder
  BY <1>1, TheRecord, UsedKeeps
<1>3. RecOK(s, cores) /\ s.id = r.id /\ s.c = r.c /\ s.founder = r.founder
  BY <1>1, <1>2, SuccessorKeeps
<1> HIDE DEF r, s
<1> QED BY <1>1, <1>2, <1>3, ChannelStep

LEMMA SetNoExpireIInv ==
  ASSUME IInv, NEW u \in User, NEW x \in Channel, NEW on \in BOOLEAN,
         SetNoExpire(u, x, on)
  PROVE  IInv'
<1> DEFINE r == Used(u, ci[x])
           f == IF on THEN r.flags \cup {"NO_EXPIRE"} ELSE r.flags \ {"NO_EXPIRE"}
           s == [r EXCEPT !.flags = f]
<1>1. ci[x] # NULL /\ Event /\ OnlyChannel /\ Put(x, s)
  BY DEF SetNoExpire
<1>2. RecOK(r, cores) /\ r.id = ci[x].id /\ r.c = ci[x].c /\ r.founder = ci[x].founder
  BY <1>1, TheRecord, UsedKeeps
<1>3. f \in SUBSET Flag
  BY <1>2 DEF RecOK, ChannelInfo, Flag
<1>4. RecOK(s, cores) /\ s.id = r.id /\ s.c = r.c /\ s.founder = r.founder
  BY <1>2, <1>3, FlagsKeep
<1> HIDE DEF r, s
<1> QED BY <1>1, <1>2, <1>4, ChannelStep

LEMMA UnsuspendIInv ==
  ASSUME IInv, NEW u \in User, NEW x \in Channel, Unsuspend(u, x)
  PROVE  IInv'
<1> DEFINE r == Used(u, ci[x])
           f == r.flags \ {"SUSPENDED"}
           s == [r EXCEPT !.flags = f]
<1>1. /\ ci[x] # NULL /\ Event /\ OnlyChannel
      /\ Put(x, s) \/ Put(x, r)
  BY DEF Unsuspend
<1>2. RecOK(r, cores) /\ r.id = ci[x].id /\ r.c = ci[x].c /\ r.founder = ci[x].founder
  BY <1>1, TheRecord, UsedKeeps
<1>3. f \in SUBSET Flag
  BY <1>2 DEF RecOK, ChannelInfo
<1>4. RecOK(s, cores) /\ s.id = r.id /\ s.c = r.c /\ s.founder = r.founder
  BY <1>2, <1>3, FlagsKeep
<1> HIDE DEF r, s
<1>5. CASE Put(x, s)
  BY <1>1, <1>2, <1>4, <1>5, ChannelStep
<1>6. CASE Put(x, r)
  BY <1>1, <1>2, <1>6, ChannelStep
<1> QED BY <1>1, <1>5, <1>6

\* ADDUSER, MODUSER and REMUSER change at most one entry.
LEMMA AccessStep ==
  ASSUME IInv, NEW u \in User, NEW x \in Channel, NEW n \in cores, NEW l \in Entry,
         ci[x] # NULL, Event, OnlyChannel,
         \/ Put(x, [Checked(u, ci[x]) EXCEPT !.access[n] = l])
         \/ Put(x, Checked(u, ci[x]))
  PROVE  IInv'
<1> DEFINE r == Checked(u, ci[x])
           s == [r EXCEPT !.access[n] = l]
<1>1. RecOK(r, cores) /\ r.id = ci[x].id /\ r.c = ci[x].c /\ r.founder = ci[x].founder
  BY TheRecord, CheckedKeeps
<1>2. n \in cores \cap Core
  BY DEF IInv, Rest
<1>3. RecOK(s, cores) /\ s.id = r.id /\ s.c = r.c /\ s.founder = r.founder
  BY <1>1, <1>2, AccessKeeps
<1>4. Put(x, s) \/ Put(x, r)
  OBVIOUS
<1> HIDE DEF r, s
<1>5. CASE Put(x, s)
  BY <1>1, <1>3, <1>5, ChannelStep
<1>6. CASE Put(x, r)
  BY <1>1, <1>6, ChannelStep
<1> QED BY <1>4, <1>5, <1>6

LEMMA AddUserIInv ==
  ASSUME IInv, NEW u \in User, NEW x \in Channel, NEW n \in Core, NEW l \in Level,
         AddUser(u, x, n, l)
  PROVE  IInv'
<1>1. l \in Entry
  BY DEF Entry
<1>2. /\ ci[x] # NULL /\ Event /\ OnlyChannel /\ n \in cores
      /\ \/ Put(x, [Checked(u, ci[x]) EXCEPT !.access[n] = l])
         \/ Put(x, Checked(u, ci[x]))
  BY DEF AddUser
<1> QED BY <1>1, <1>2, AccessStep

LEMMA ModUserIInv ==
  ASSUME IInv, NEW u \in User, NEW x \in Channel, NEW n \in Core, NEW l \in Level,
         ModUser(u, x, n, l)
  PROVE  IInv'
<1>1. l \in Entry
  BY DEF Entry
<1>2. /\ ci[x] # NULL /\ Event /\ OnlyChannel /\ n \in cores
      /\ \/ Put(x, [Checked(u, ci[x]) EXCEPT !.access[n] = l])
         \/ Put(x, Checked(u, ci[x]))
  BY DEF ModUser
<1> QED BY <1>1, <1>2, AccessStep

LEMMA RemUserIInv ==
  ASSUME IInv, NEW u \in User, NEW x \in Channel, NEW n \in Core, RemUser(u, x, n)
  PROVE  IInv'
<1>1. 0 \in Entry
  BY DEF Entry
<1>2. /\ ci[x] # NULL /\ Event /\ OnlyChannel /\ n \in cores
      /\ \/ Put(x, [Checked(u, ci[x]) EXCEPT !.access[n] = 0])
         \/ Put(x, Checked(u, ci[x]))
  BY DEF RemUser
<1> QED BY <1>1, <1>2, AccessStep

LEMMA JunkKeeps ==
  ASSUME NEW r, NEW G, RecOK(r, G), NEW j \in {0, 1}
  PROVE  LET s == [r EXCEPT !.junk = r.junk + j]
         IN  RecOK(s, G) /\ s.id = r.id /\ s.c = r.c /\ s.founder = r.founder
BY DEF RecOK, ChannelInfo

LEMMA ModUserAbsentIInv ==
  ASSUME IInv, NEW u \in User, NEW x \in Channel, NEW n \in Core, NEW l \in Level,
         ModUserAbsent(u, x, n, l)
  PROVE  IInv'
<1> DEFINE r == Checked(u, ci[x])
<1>1. PICK j \in {0, 1} : Put(x, [r EXCEPT !.junk = r.junk + j])
  BY DEF ModUserAbsent
<1> DEFINE s == [r EXCEPT !.junk = r.junk + j]
<1>2. ci[x] # NULL /\ Event /\ OnlyChannel
  BY DEF ModUserAbsent
<1>3. RecOK(r, cores) /\ r.id = ci[x].id /\ r.c = ci[x].c /\ r.founder = ci[x].founder
  BY <1>2, TheRecord, CheckedKeeps
<1>4. RecOK(s, cores) /\ s.id = r.id /\ s.c = r.c /\ s.founder = r.founder
  BY <1>3, JunkKeeps
<1>5. Put(x, s)
  BY <1>1
<1> HIDE DEF r, s
<1> QED BY <1>2, <1>3, <1>4, <1>5, ChannelStep

LEMMA IdentifyIInv ==
  ASSUME IInv, NEW u \in User, NEW x \in Channel, Identify(u, x)
  PROVE  IInv'
<1> DEFINE r == Used(u, ci[x])
<1>1. /\ ci[x] # NULL /\ Event /\ Put(x, r)
      /\ identified' = identified \/ identified' = [identified EXCEPT ![u] = @ \cup {ci[x].id}]
      /\ UNCHANGED <<now, up, cores, count, account, clink, record, occupied, disk>>
  BY DEF Identify
<1>2. RecOK(r, cores) /\ r.id = ci[x].id /\ r.c = ci[x].c /\ r.founder = ci[x].founder
  BY <1>1, TheRecord, UsedKeeps
<1>3. ci[x].id \in Id
  BY <1>1, TheRecord DEF ChannelInfo
<1> HIDE DEF r
<1>4. Records'
  BY <1>1, <1>2, PutKeeps DEF IInv
<1>5. Disk'
  BY <1>1, DiskFrame DEF IInv
<1>6. identified' \in [User -> SUBSET Id]
  BY <1>1, <1>3 DEF IInv, Rest
<1>7. Rest'
  BY <1>1, <1>6, EventCount DEF IInv, Rest
<1> QED BY <1>4, <1>5, <1>7 DEF IInv

LEMMA DropIInv ==
  ASSUME IInv, NEW u \in User, NEW x \in Channel, Drop(u, x)
  PROVE  IInv'
<1>1. /\ DelChans({x}) /\ {x} \in SUBSET Channel /\ Event
      /\ UNCHANGED <<now, up, cores, account, record, occupied, identified, disk>>
  BY DEF Drop
<1>2. Records' /\ clink' \in [Channel -> Id \cup {NULL}] /\ count' \in [Core -> Int]
  BY <1>1, DelChansKeeps
<1>3. Disk'
  BY <1>1, DiskFrame DEF IInv
<1>4. Rest'
  BY <1>1, <1>2, EventCount DEF IInv, Rest
<1> QED BY <1>2, <1>3, <1>4 DEF IInv

LEMMA InfoIInv == ASSUME IInv, NEW x \in Channel, Info(x) PROVE IInv'
<1>1. /\ DelChans({x}) /\ {x} \in SUBSET Channel /\ Event
      /\ UNCHANGED <<now, up, cores, account, record, occupied, identified, disk>>
  BY DEF Info
<1>2. Records' /\ clink' \in [Channel -> Id \cup {NULL}] /\ count' \in [Core -> Int]
  BY <1>1, DelChansKeeps
<1>3. Disk'
  BY <1>1, DiskFrame DEF IInv
<1>4. Rest'
  BY <1>1, <1>2, EventCount DEF IInv, Rest
<1> QED BY <1>2, <1>3, <1>4 DEF IInv

LEMMA SetFounderIInv ==
  ASSUME IInv, NEW u \in User, NEW x \in Channel, NEW n \in Core, SetFounder(u, x, n)
  PROVE  IInv'
<1> DEFINE r == Used(u, ci[x])
           m == IF r.successor = n THEN NULL ELSE r.successor
           s == [r EXCEPT !.founder = n, !.successor = m]
<1>1. /\ ci[x] # NULL /\ ci[x].founder # NULL /\ Event /\ n \in cores
      /\ Put(x, s)
      /\ count' = [k \in Core |-> count[k] - (IF k = ci[x].founder THEN 1 ELSE 0)
                                           + (IF k = n THEN 1 ELSE 0)]
      /\ UNCHANGED <<now, up, cores, account, clink, record, occupied, identified, disk>>
  BY DEF SetFounder
<1>2. RecOK(r, cores) /\ r.id = ci[x].id /\ r.c = ci[x].c /\ r.founder = ci[x].founder
  BY <1>1, TheRecord, UsedKeeps
<1>3. RecOK(s, cores) /\ s.id = r.id /\ s.c = r.c /\ s.founder = n
  <2>1. n \in cores \cap Core
    BY <1>1
  <2> HIDE DEF r
  <2>2. m \in {r.successor, NULL} /\ m # n
    BY NullFacts
  <2> HIDE DEF m
  <2>3. r \in ChannelInfo /\ {r.founder, r.successor} \subseteq cores \cup {NULL}
        /\ \A k \in Core \ cores : r.access[k] = 0
    BY <1>2 DEF RecOK
  <2>4. /\ s \in ChannelInfo
        /\ s.founder = n /\ s.successor = m /\ s.access = r.access
        /\ s.id = r.id /\ s.c = r.c
    BY <2>1, <2>2, <2>3 DEF ChannelInfo
  <2> HIDE DEF s
  <2> QED BY <2>1, <2>2, <2>3, <2>4 DEF RecOK
<1> HIDE DEF r, m, s
<1>4. n # NULL
  BY NullFacts
<1>5. Records'
  BY <1>1, <1>2, <1>3, <1>4, PutKeeps DEF IInv
<1>6. Disk'
  BY <1>1, DiskFrame DEF IInv
<1>7. count' \in [Core -> Int]
  <2>1. \A k \in Core : count[k] \in Int
    BY DEF IInv, Rest
  <2> QED BY <1>1, <2>1
<1>8. Rest'
  BY <1>1, <1>7, EventCount DEF IInv, Rest
<1> QED BY <1>5, <1>6, <1>8 DEF IInv

\* A new record in the place of another one, or of none.
LEMMA NewRecordKeeps ==
  ASSUME Records, Rest, NEW x \in Channel, NEW r, Put(x, r), RecOK(r, cores),
         NEW l, clink' = [clink EXCEPT ![x] = l], l \in Id \cup {NULL},
         LinkOK(r, l, x \in record),
         UNCHANGED <<cores, record>>
  PROVE  Records' /\ clink' \in [Channel -> Id \cup {NULL}]
<1>1. r \in ChannelInfo
  BY DEF RecOK
<1>2. ci' = [ci EXCEPT ![x] = r]
  BY DEF Put
<1>3. ci' \in [Channel -> ChannelInfo \cup {NULL}]
  BY <1>1, <1>2 DEF Records
<1>4. clink' \in [Channel -> Id \cup {NULL}]
  BY DEF Rest
<1>5. ASSUME NEW y \in Channel
      PROVE  /\ ci'[y] # NULL => RecOK(ci'[y], cores')
             /\ LinkOK(ci'[y], clink'[y], y \in record')
  <2>1. /\ ci[y] # NULL => RecOK(ci[y], cores)
        /\ LinkOK(ci[y], clink[y], y \in record)
    BY DEF Records
  <2>2. CASE y = x
    <3>1. ci'[y] = r /\ clink'[y] = l
      BY <1>2, <2>2 DEF Records, Rest
    <3> QED BY <2>2, <3>1
  <2>3. CASE y # x
    <3>1. ci'[y] = ci[y] /\ clink'[y] = clink[y]
      BY <1>2, <2>3 DEF Records, Rest
    <3> QED BY <2>1, <3>1
  <2> QED BY <2>2, <2>3
<1> QED BY <1>3, <1>4, <1>5 DEF Records

LEMMA RegisterIInv ==
  ASSUME IInv, NEW u \in User, NEW x \in Channel, NEW n \in Core, NEW id \in Id,
         Register(u, x, n, id)
  PROVE  IInv'
<1> DEFINE s == Shell(id)
           a == [s.access EXCEPT ![n] = 500]
           r == [s EXCEPT !.founder = n, !.access[n] = 500, !.last_used = now, !.c = TRUE]
<1>1. /\ Event /\ n \in cores /\ x \in record /\ Put(x, r)
      /\ clink' = [clink EXCEPT ![x] = id]
      /\ count' = [count EXCEPT ![n] = @ + 1]
      /\ identified' = [identified EXCEPT ![u] = @ \cup {id}]
      /\ UNCHANGED <<now, up, cores, account, record, occupied, disk>>
  BY DEF Register
<1>2. now \in Nat /\ cores \subseteq Core /\ NULL \notin Id /\ n # NULL
  BY NullFacts DEF IInv, Rest
<1>3. r = [id |-> id, founder |-> n, successor |-> NULL, access |-> a,
           junk |-> 0, flags |-> {}, last_used |-> now, c |-> TRUE]
  <2>1. s \in ChannelInfo
    BY ShellOK DEF RecOK
  <2>2. s.id = id /\ s.successor = NULL /\ s.junk = 0 /\ s.flags = {}
    BY DEF Shell
  <2> HIDE DEF s
  <2>3. r = [s EXCEPT !.founder = n, !.access = a, !.last_used = now, !.c = TRUE]
    BY <2>1 DEF ChannelInfo
  <2> HIDE DEF a, r
  <2> QED BY <2>1, <2>2, <2>3 DEF ChannelInfo
<1>4. a \in [Core -> Entry] /\ \A m \in Core \ {n} : a[m] = 0
  BY DEF Shell, Nothing, Entry
<1> HIDE DEF a, r, s
<1>5. RecOK(r, cores) /\ LinkOK(r, id, x \in record)
  <2>1. r \in ChannelInfo
    BY <1>2, <1>3, <1>4 DEF ChannelInfo
  <2>2. /\ r.id = id /\ r.founder = n /\ r.successor = NULL /\ r.access = a
        /\ r.c = TRUE
    BY <1>3
  <2>3. RecOK(r, cores)
    BY <1>1, <1>2, <1>4, <2>1, <2>2 DEF RecOK
  <2>4. r # NULL
    BY <2>1, NullFacts
  <2>5. LinkOK(r, id, x \in record)
    BY <1>1, <1>2, <2>2, <2>4 DEF LinkOK
  <2> QED BY <2>3, <2>5
<1>6. Records' /\ clink' \in [Channel -> Id \cup {NULL}]
  BY <1>1, <1>5, NewRecordKeeps DEF IInv
<1>7. Disk'
  BY <1>1, DiskFrame DEF IInv
<1>8. Rest'
  BY <1>1, <1>6, EventCount DEF IInv, Rest
<1> QED BY <1>6, <1>7, <1>8 DEF IInv

-----------------------------------------------------------------------------
(* FCHAN, SCHAN and UNSCHAN.                                               *)

\* A channel whose record does not say that it is linked has no link.
LEMMA Unlinked ==
  ASSUME IInv, NEW x \in Channel, ci[x] = NULL \/ ~ci[x].c
  PROVE  clink = [clink EXCEPT ![x] = NULL]
<1>1. clink[x] = NULL
  BY DEF IInv, Records, LinkOK
<1> QED BY <1>1 DEF IInv, Rest

LEMMA ForbidIInv ==
  ASSUME IInv, NEW u \in User, NEW x \in Channel, NEW id \in Id, Forbid(u, x, id)
  PROVE  IInv'
<1> DEFINE s == Shell(id)
           t == Used(u, s)
           r == [t EXCEPT !.flags = {"VERBOTEN"}]
<1>1. /\ Event
      /\ Put(x, r) \/ Put(x, s)
      /\ clink' = IF ci[x] # NULL /\ ci[x].c THEN [clink EXCEPT ![x] = NULL] ELSE clink
      /\ count' = [k \in Core |-> count[k] - Cardinality(Founded(k, {x}))]
      /\ occupied' = occupied \/ occupied' = occupied \ {x}
      /\ UNCHANGED <<now, up, cores, account, record, identified, disk>>
  BY DEF Forbid
<1>2. RecOK(s, cores) /\ s.founder = NULL
  BY ShellOK
<1>3. RecOK(t, cores) /\ t.founder = NULL
  BY <1>2, UsedKeeps DEF IInv, Rest
<1> HIDE DEF s, t
<1>4. RecOK(r, cores) /\ r.founder = NULL
  <2>1. {"VERBOTEN"} \in SUBSET Flag
    BY DEF Flag
  <2> QED BY <1>3, <2>1, FlagsKeep
<1> HIDE DEF r
<1>5. LinkOK(r, NULL, x \in record) /\ LinkOK(s, NULL, x \in record)
  BY <1>2, <1>4 DEF LinkOK
<1>6. clink' = [clink EXCEPT ![x] = NULL]
  BY <1>1, Unlinked
<1>7. Records' /\ clink' \in [Channel -> Id \cup {NULL}]
  BY <1>1, <1>2, <1>4, <1>5, <1>6, NewRecordKeeps DEF IInv
<1>8. Disk'
  BY <1>1, DiskFrame DEF IInv
<1>9. count' \in [Core -> Int]
  BY <1>1, CountsType DEF IInv
<1>10. Rest'
  BY <1>1, <1>7, <1>9, EventCount DEF IInv, Rest
<1> QED BY <1>7, <1>8, <1>10 DEF IInv

LEMMA SuspendIInv ==
  ASSUME IInv, NEW u \in User, NEW x \in Channel, NEW id \in Id, Suspend(u, x, id)
  PROVE  IInv'
<1> DEFINE s == IF ci[x] = NULL THEN Shell(id) ELSE ci[x]
           t == Used(u, s)
           f == t.flags \cup {"SUSPENDED"}
           r == [t EXCEPT !.flags = f]
<1>1. /\ Event
      /\ Put(x, r) \/ Put(x, t)
      /\ occupied' = occupied \/ occupied' = occupied \ {x}
      /\ UNCHANGED <<now, up, cores, count, account, clink, record, identified, disk>>
  BY DEF Suspend
<1>2. /\ RecOK(s, cores)
      /\ ci[x] = NULL => s.founder = NULL
      /\ ci[x] # NULL => s = ci[x]
  <2>1. CASE ci[x] = NULL
    BY <2>1, ShellOK
  <2>2. CASE ci[x] # NULL
    BY <2>2, TheRecord
  <2> QED BY <2>1, <2>2
<1> HIDE DEF s
<1>3. RecOK(t, cores) /\ t.id = s.id /\ t.c = s.c /\ t.founder = s.founder
  BY <1>2, UsedKeeps DEF IInv, Rest
<1>4. f \in SUBSET Flag
  BY <1>3 DEF RecOK, ChannelInfo, Flag
<1> HIDE DEF t, f
<1>5. RecOK(r, cores) /\ r.id = t.id /\ r.c = t.c /\ r.founder = t.founder
  BY <1>3, <1>4, FlagsKeep
<1> HIDE DEF r
<1>6. Records'
  <2>1. CASE ci[x] = NULL
    <3>1. clink' = [clink EXCEPT ![x] = NULL]
      BY <1>1, <2>1, Unlinked
    <3>2. LinkOK(r, NULL, x \in record) /\ LinkOK(t, NULL, x \in record)
      BY <1>2, <1>3, <1>5, <2>1 DEF LinkOK
    <3> QED BY <1>1, <1>3, <1>5, <3>1, <3>2, NewRecordKeeps DEF IInv
  <2>2. CASE ci[x] # NULL
    <3>1. /\ r.id = ci[x].id /\ r.c = ci[x].c /\ r.founder = ci[x].founder
          /\ t.id = ci[x].id /\ t.c = ci[x].c /\ t.founder = ci[x].founder
      BY <1>2, <1>3, <1>5, <2>2
    <3> QED BY <1>1, <1>3, <1>5, <2>2, <3>1, PutKeeps DEF IInv
  <2> QED BY <2>1, <2>2
<1>7. Disk'
  BY <1>1, DiskFrame DEF IInv
<1>8. Rest'
  BY <1>1, EventCount DEF IInv, Rest
<1> QED BY <1>6, <1>7, <1>8 DEF IInv

-----------------------------------------------------------------------------
(* Expiry, the database files, crashes.                                    *)

LEMMA ExpireChansIInv == ASSUME IInv, ExpireChans PROVE IInv'
<1> DEFINE X == {x \in Channel : ci[x] # NULL /\ ~ci[x].c /\ Expirable(ci[x])}
<1>1. /\ DelChans(X) /\ X \in SUBSET Channel
      /\ UNCHANGED <<now, up, cores, account, record, occupied, identified, disk, events>>
  BY DEF ExpireChans
<1> HIDE DEF X
<1>2. Records' /\ clink' \in [Channel -> Id \cup {NULL}] /\ count' \in [Core -> Int]
  BY <1>1, DelChansKeeps
<1>3. Disk'
  BY <1>1, DiskFrame DEF IInv
<1>4. Rest'
  BY <1>1, <1>2 DEF IInv, Rest
<1> QED BY <1>2, <1>3, <1>4 DEF IInv

LEMMA SaveIInv == ASSUME IInv, NEW chans \in BOOLEAN, Save(chans) PROVE IInv'
<1> DEFINE d == IF chans THEN ci ELSE disk.chan
           k == [n \in Core |-> IF n \in cores THEN count[n] ELSE NULL]
<1>1. /\ disk' = [nick |-> k, chan |-> d]
      /\ UNCHANGED <<now, up, cores, count, account, ci, clink, record, occupied,
                     identified, events>>
  BY DEF Save
<1>2. k \in [Core -> Int \cup {NULL}]
  BY DEF IInv, Rest
<1>3. /\ d \in [Channel -> ChannelInfo \cup {NULL}]
      /\ \A x \in Channel : d[x] # NULL => RecOK(d[x], Core)
  <2>1. CASE chans
    BY <2>1, RecMonotone DEF IInv, Rest, Records
  <2>2. CASE ~chans
    BY <2>2 DEF IInv, Disk
  <2> QED BY <2>1, <2>2
<1> HIDE DEF d, k
<1>4. disk'.nick = k /\ disk'.chan = d
  BY <1>1
<1>5. Disk'
  BY <1>1, <1>2, <1>3, <1>4 DEF Disk, RecOK
<1>6. Records'
  BY <1>1, RecordsFrame DEF IInv
<1>7. Rest'
  BY <1>1 DEF IInv, Rest
<1> QED BY <1>5, <1>6, <1>7 DEF IInv

LEMMA StopIInv == ASSUME IInv, Stop PROVE IInv'
<1>1. Records' /\ Disk'
  BY RecordsFrame, DiskFrame DEF Stop, IInv
<1>2. Rest'
  BY EventCount DEF Stop, IInv, Rest
<1> QED BY <1>1, <1>2 DEF IInv

\* What load_cs_dbase() makes of a record in the file.
LEMMA LoadedOK ==
  ASSUME NEW r, r # NULL => RecOK(r, Core), NEW G \in SUBSET Core,
         NEW b \in BOOLEAN, Loaded(r, G, b) # NULL
  PROVE  RecOK(Loaded(r, G, b), G) /\ Loaded(r, G, b).c = b
<1> DEFINE f == IF r.founder \in G THEN r.founder ELSE NULL
           h == IF r.successor \in G THEN r.successor ELSE NULL
           a == [n \in Core |-> IF n \in G THEN r.access[n] ELSE 0]
           s == [r EXCEPT !.founder = f, !.successor = h, !.access = a, !.junk = 0,
                          !.c = b]
<1>1. RecOK(r, Core) /\ r \in ChannelInfo /\ Loaded(r, G, b) = s
  BY DEF Loaded, RecOK
<1>2. f \in G \cup {NULL} /\ h \in G \cup {NULL} /\ (f # NULL => h # f)
  BY <1>1 DEF RecOK
<1>3. a \in [Core -> Entry] /\ \A n \in Core \ G : a[n] = 0
  BY <1>1 DEF ChannelInfo, Entry
<1> HIDE DEF f, h, a
<1>4. s \in ChannelInfo
  BY <1>1, <1>2, <1>3 DEF ChannelInfo
<1>5. s.founder = f /\ s.successor = h /\ s.access = a /\ s.c = b
  BY <1>1 DEF ChannelInfo
<1> HIDE DEF s
<1>6. RecOK(s, G)
  BY <1>2, <1>3, <1>4, <1>5 DEF RecOK
<1> QED BY <1>1, <1>5, <1>6

LEMMA RestartIInv == ASSUME IInv, Restart PROVE IInv'
<1> DEFINE G == {n \in Core : disk.nick[n] # NULL}
           L(x) == Loaded(disk.chan[x], G, x \in occupied)
           loaded == [x \in Channel |-> L(x)]
<1>1. /\ up' = TRUE /\ cores' = G /\ record' = occupied
      /\ count' = [n \in Core |-> IF n \in G THEN disk.nick[n] ELSE 0]
      /\ account' = [v \in User |-> NULL]
      /\ identified' = [v \in User |-> {}]
      /\ ci' = loaded
      /\ clink' = [x \in Channel |-> IF loaded[x] # NULL /\ x \in occupied
                                       THEN loaded[x].id ELSE NULL]
      /\ UNCHANGED <<now, occupied, disk, events>>
  BY DEF Restart
<1>2. count' \in [Core -> Int]
  BY <1>1 DEF IInv, Disk
<1>3. G \in SUBSET Core
  OBVIOUS
<1> HIDE DEF G
<1>4. ASSUME NEW x \in Channel, L(x) # NULL
      PROVE  RecOK(L(x), G) /\ L(x).c = (x \in occupied) /\ L(x).id \in Id
  <2>1. disk.chan[x] # NULL => RecOK(disk.chan[x], Core)
    BY DEF IInv, Disk
  <2>2. RecOK(L(x), G) /\ L(x).c = (x \in occupied)
    <3> DEFINE r == disk.chan[x]
               b == x \in occupied
    <3>1. b \in BOOLEAN /\ L(x) = Loaded(r, G, b) /\ (r # NULL => RecOK(r, Core))
      BY <2>1
    <3> HIDE DEF r, b, L
    <3>2. RecOK(L(x), G) /\ L(x).c = b
      BY <1>3, <1>4, <3>1, LoadedOK
    <3> QED BY <3>2 DEF b
  <2> HIDE DEF L
  <2> QED BY <2>2 DEF RecOK, ChannelInfo
<1> HIDE DEF L
<1>5. ASSUME NEW x \in Channel
      PROVE  /\ ci'[x] \in ChannelInfo \cup {NULL}
             /\ clink'[x] \in Id \cup {NULL}
             /\ ci'[x] # NULL => RecOK(ci'[x], cores')
             /\ LinkOK(ci'[x], clink'[x], x \in record')
  <2>1. /\ ci'[x] = L(x)
        /\ clink'[x] = IF L(x) # NULL /\ x \in occupied THEN L(x).id ELSE NULL
    BY <1>1
  <2>2. CASE L(x) = NULL
    BY <2>1, <2>2 DEF LinkOK
  <2>3. CASE L(x) # NULL
    <3>1. RecOK(L(x), G) /\ L(x).c = (x \in occupied) /\ L(x).id \in Id
      BY <1>4, <2>3
    <3>2. ci'[x] \in ChannelInfo /\ clink'[x] \in Id \cup {NULL}
      BY <2>1, <3>1 DEF RecOK
    <3>3. LinkOK(ci'[x], clink'[x], x \in record')
      BY <1>1, <2>1, <2>3, <3>1, NullFacts DEF LinkOK
    <3> QED BY <1>1, <2>1, <3>1, <3>2, <3>3
  <2> QED BY <2>2, <2>3
<1>6. /\ ci' \in [Channel -> ChannelInfo \cup {NULL}]
      /\ clink' \in [Channel -> Id \cup {NULL}]
  BY <1>1, <1>5
<1>7. Records'
  BY <1>5, <1>6 DEF Records
<1>8. Disk'
  BY <1>1, DiskFrame DEF IInv
<1>9. Rest'
  BY <1>1, <1>2, <1>3, <1>6 DEF IInv, Rest
<1> QED BY <1>7, <1>8, <1>9 DEF IInv

-----------------------------------------------------------------------------
(* Theorems.                                                               *)

LEMMA WorldIInv == ASSUME IInv, World PROVE IInv'
BY RegisterNickIInv, RemoveNickIInv, QuitIInv, LoginIInv, JoinIInv, PartIInv DEF World

\* The commands that need not have a record.
LEMMA CrashedIInv ==
  ASSUME IInv, NEW u \in User, NEW x \in Channel,
         NotRegistered(u, x) \/ SetFounderCrashes(u, x)
  PROVE  IInv'
<1>1. Event /\ Crash
  BY DEF NotRegistered, SetFounderCrashes
<1> QED BY <1>1, EventCount, CrashIInv DEF IInv

LEMMA CommandIInv == ASSUME IInv, Command PROVE IInv'
<1>1. PICK u \in User, x \in Channel :
        \/ \E n \in Core, id \in Id : Register(u, x, n, id)
        \/ \E id \in Id : Forbid(u, x, id) \/ Suspend(u, x, id)
        \/ Identify(u, x) \/ Drop(u, x) \/ Info(x) \/ UseAccess(u, x)
        \/ Unsuspend(u, x) \/ NotRegistered(u, x) \/ SetFounderCrashes(u, x)
        \/ \E n \in Core : SetFounder(u, x, n) \/ RemUser(u, x, n)
        \/ \E n \in Core \cup {NULL} : SetSuccessor(u, x, n)
        \/ \E on \in BOOLEAN : SetNoExpire(u, x, on)
        \/ \E n \in Core, l \in Level :
              AddUser(u, x, n, l) \/ ModUser(u, x, n, l) \/ ModUserAbsent(u, x, n, l)
  BY DEF Command
<1>2. CASE \/ \E n \in Core, id \in Id : Register(u, x, n, id)
           \/ \E id \in Id : Forbid(u, x, id) \/ Suspend(u, x, id)
  BY <1>2, RegisterIInv, ForbidIInv, SuspendIInv
<1>3. CASE \/ Identify(u, x) \/ Drop(u, x) \/ Info(x) \/ UseAccess(u, x)
           \/ Unsuspend(u, x) \/ NotRegistered(u, x) \/ SetFounderCrashes(u, x)
  BY <1>3, IdentifyIInv, DropIInv, InfoIInv, UseAccessIInv, UnsuspendIInv, CrashedIInv
<1>4. CASE \/ \E n \in Core : SetFounder(u, x, n) \/ RemUser(u, x, n)
           \/ \E n \in Core \cup {NULL} : SetSuccessor(u, x, n)
           \/ \E on \in BOOLEAN : SetNoExpire(u, x, on)
  BY <1>4, SetFounderIInv, RemUserIInv, SetSuccessorIInv, SetNoExpireIInv
<1>5. CASE \E n \in Core, l \in Level :
              AddUser(u, x, n, l) \/ ModUser(u, x, n, l) \/ ModUserAbsent(u, x, n, l)
  BY <1>5, AddUserIInv, ModUserIInv, ModUserAbsentIInv
<1> QED BY <1>1, <1>2, <1>3, <1>4, <1>5

LEMMA ProgramIInv == ASSUME IInv, Program PROVE IInv'
<1>1. CASE SaveCrashes
  <2>1. events' \in Nat /\ Crash
    BY <1>1 DEF SaveCrashes, IInv, Rest
  <2> QED BY <2>1, CrashIInv
<1>2. CASE ExpireChans \/ Stop \/ Restart \/ \E chans \in BOOLEAN : Save(chans)
  BY <1>2, ExpireChansIInv, StopIInv, RestartIInv, SaveIInv
<1> QED BY <1>1, <1>2 DEF Program

\* The inductive invariant: records refer to groups that exist, links agree
\* with the records, and what is in the file was right when it was written.
THEOREM Invariance == Spec => []IInv
<1>1. IInv /\ [Next]_vars => IInv'
  <2> SUFFICES ASSUME IInv, [Next]_vars PROVE IInv'
    OBVIOUS
  <2> QED BY WorldIInv, CommandIInv, ProgramIInv, TickIInv, StutterIInv DEF Next
<1> QED BY InitIInv, <1>1, PTL DEF Spec

\* Every variable has its type in every reachable state.
THEOREM TypeCorrect == Spec => []TypeOK
<1>1. IInv => TypeOK
  BY DEF IInv, Rest, Records, Disk, TypeOK
<1> QED BY <1>1, Invariance, PTL

\* No channel refers to a group that was deleted, after any sequence of
\* commands, transfers, saves and restarts.
THEOREM RefsAreAlive == Spec => []RefsAlive
<1>1. IInv => RefsAlive
  BY DEF IInv, Records, RecOK, RefsAlive
<1> QED BY <1>1, Invariance, PTL

\* A channel's successor is not its founder, whatever order founder and
\* successor are changed, inherit or are deleted in.
THEOREM SuccessorIsAnother == Spec => []SuccessorIsNotFounder
<1>1. IInv => SuccessorIsNotFounder
  BY DEF IInv, Records, RecOK, SuccessorIsNotFounder
<1> QED BY <1>1, Invariance, PTL

\* A Channel and the ChannelInfo of its name point to each other.
THEOREM LinksAreSound == Spec => []LinksSound
<1>1. IInv => LinksSound
  BY DEF IInv, Records, LinkOK, LinksSound
<1> QED BY <1>1, Invariance, PTL

\* No pointer between groups, channels and Channel records is left over,
\* through transfers, saves of one file alone and restarts.
THEOREM RecordsAreSound == Spec => []RecordsSound
  BY RefsAreAlive, SuccessorIsAnother, LinksAreSound, PTL DEF RecordsSound

-----------------------------------------------------------------------------
(* What commands do to the founder of a channel.                           *)

\* The record of x is changed, but not its founder, and it remains forbidden.
Minor(x, r) ==
    /\ ci[x] # NULL /\ r \in ChannelInfo /\ Put(x, r)
    /\ r.founder = ci[x].founder
    /\ "VERBOTEN" \in ci[x].flags => "VERBOTEN" \in r.flags
    /\ UNCHANGED <<up, cores, count, disk>>

IsMinor(x) == \E r : Minor(x, r)

LEMMA CheckedSame ==
  ASSUME IInv, NEW u, NEW x \in Channel, ci[x] # NULL
  PROVE  LET s == Checked(u, ci[x])
         IN  s \in ChannelInfo /\ s.founder = ci[x].founder /\ s.flags = ci[x].flags
<1>1. RecOK(Used(u, ci[x]), cores) /\ Used(u, ci[x]).founder = ci[x].founder
      /\ Used(u, ci[x]).flags = ci[x].flags /\ ci[x] \in ChannelInfo
  BY TheRecord, UsedKeeps
<1> QED BY <1>1 DEF Checked, RecOK

LEMMA UsedIsMinor ==
  ASSUME IInv, NEW u, NEW x \in Channel, NEW r, ci[x] # NULL, Put(x, r),
         UNCHANGED <<up, cores, count, disk>>,
         r \in {Used(u, ci[x]), Checked(u, ci[x])}
  PROVE  IsMinor(x)
<1>1. RecOK(r, cores) /\ r.founder = ci[x].founder /\ r.flags = ci[x].flags
  BY TheRecord, UsedKeeps DEF Checked
<1>2. Minor(x, r)
  BY <1>1 DEF Minor, RecOK
<1> QED BY <1>2 DEF IsMinor

LEMMA FlagsAreMinor ==
  ASSUME IInv, NEW u, NEW x \in Channel, NEW f \in SUBSET Flag, ci[x] # NULL,
         Put(x, [Used(u, ci[x]) EXCEPT !.flags = f]),
         UNCHANGED <<up, cores, count, disk>>,
         "VERBOTEN" \in ci[x].flags => "VERBOTEN" \in f
  PROVE  IsMinor(x)
<1> DEFINE s == Used(u, ci[x])
           r == [s EXCEPT !.flags = f]
<1>1. s \in ChannelInfo /\ s.founder = ci[x].founder
  BY TheRecord, UsedKeeps DEF RecOK
<1> HIDE DEF s
<1>2. r \in ChannelInfo /\ r.founder = s.founder /\ r.flags = f
  BY <1>1 DEF ChannelInfo
<1>3. Minor(x, r)
  BY <1>1, <1>2 DEF Minor, s
<1> QED BY <1>3 DEF IsMinor

LEMMA AccessIsMinor ==
  ASSUME IInv, NEW u, NEW x \in Channel, NEW n \in Core, NEW l \in Entry, ci[x] # NULL,
         \/ Put(x, [Checked(u, ci[x]) EXCEPT !.access[n] = l])
         \/ Put(x, Checked(u, ci[x])),
         UNCHANGED <<up, cores, count, disk>>
  PROVE  IsMinor(x)
<1> DEFINE s == Checked(u, ci[x])
           r == [s EXCEPT !.access[n] = l]
<1>1. s \in ChannelInfo /\ s.founder = ci[x].founder /\ s.flags = ci[x].flags
  BY CheckedSame
<1> HIDE DEF s
<1>2. r \in ChannelInfo /\ r.founder = s.founder /\ r.flags = s.flags
  BY <1>1 DEF ChannelInfo
<1>3. CASE Put(x, r)
  <2>1. Minor(x, r)
    BY <1>1, <1>2, <1>3 DEF Minor
  <2> QED BY <2>1 DEF IsMinor
<1>4. CASE Put(x, s)
  BY <1>4, UsedIsMinor DEF s
<1> QED BY <1>3, <1>4 DEF s

\* The commands that leave every founder as he is.
Plain(u, x) ==
    \/ Identify(u, x) \/ UseAccess(u, x) \/ Unsuspend(u, x)
    \/ \E n \in Core : RemUser(u, x, n)
    \/ \E n \in Core \cup {NULL} : SetSuccessor(u, x, n)
    \/ \E on \in BOOLEAN : SetNoExpire(u, x, on)
    \/ \E n \in Core, l \in Level :
          AddUser(u, x, n, l) \/ ModUser(u, x, n, l) \/ ModUserAbsent(u, x, n, l)

LEMMA PlainIsMinor ==
  ASSUME IInv, NEW u \in User, NEW x \in Channel, Plain(u, x)
  PROVE  IsMinor(x)
<1> DEFINE s == Used(u, ci[x])
<1>1. CASE Identify(u, x) \/ UseAccess(u, x)
  <2>1. ci[x] # NULL /\ Put(x, s) /\ UNCHANGED <<up, cores, count, disk>>
    BY <1>1 DEF Identify, UseAccess, OnlyChannel
  <2> QED BY <2>1, UsedIsMinor
<1>2. ASSUME ci[x] # NULL
      PROVE  s \in ChannelInfo /\ s.flags = ci[x].flags /\ s.founder = ci[x].founder
             /\ s.flags \in SUBSET Flag
  BY <1>2, TheRecord, UsedKeeps DEF RecOK, ChannelInfo
<1>3. CASE Unsuspend(u, x)
  <2> DEFINE f == s.flags \ {"SUSPENDED"}
  <2>1. /\ ci[x] # NULL /\ UNCHANGED <<up, cores, count, disk>>
        /\ Put(x, s) \/ Put(x, [s EXCEPT !.flags = f])
    BY <1>3 DEF Unsuspend, OnlyChannel
  <2>2. f \in SUBSET Flag /\ ("VERBOTEN" \in ci[x].flags => "VERBOTEN" \in f)
    BY <1>2, <2>1
  <2> HIDE DEF f
  <2> QED BY <2>1, <2>2, UsedIsMinor, FlagsAreMinor
<1>4. ASSUME NEW on \in BOOLEAN, SetNoExpire(u, x, on) PROVE IsMinor(x)
  <2> DEFINE f == IF on THEN s.flags \cup {"NO_EXPIRE"} ELSE s.flags \ {"NO_EXPIRE"}
  <2>1. /\ ci[x] # NULL /\ UNCHANGED <<up, cores, count, disk>>
        /\ Put(x, [s EXCEPT !.flags = f])
    BY <1>4 DEF SetNoExpire, OnlyChannel
  <2>2. f \in SUBSET Flag /\ ("VERBOTEN" \in ci[x].flags => "VERBOTEN" \in f)
    BY <1>2, <2>1 DEF Flag
  <2> HIDE DEF f
  <2> QED BY <2>1, <2>2, FlagsAreMinor
<1>5. ASSUME NEW n \in Core \cup {NULL}, SetSuccessor(u, x, n) PROVE IsMinor(x)
  <2> DEFINE r == [s EXCEPT !.successor = n]
  <2>1. ci[x] # NULL /\ UNCHANGED <<up, cores, count, disk>> /\ Put(x, r)
    BY <1>5 DEF SetSuccessor, OnlyChannel
  <2>2. s \in ChannelInfo /\ s.flags = ci[x].flags /\ s.founder = ci[x].founder
    BY <1>2, <2>1
  <2> HIDE DEF s
  <2>3. r \in ChannelInfo /\ r.founder = s.founder /\ r.flags = s.flags
    BY <2>2 DEF ChannelInfo
  <2> HIDE DEF r
  <2>4. Minor(x, r)
    BY <2>1, <2>2, <2>3 DEF Minor
  <2> QED BY <2>4 DEF IsMinor
<1>6. ASSUME NEW n \in Core, RemUser(u, x, n) PROVE IsMinor(x)
  <2>1. /\ ci[x] # NULL /\ UNCHANGED <<up, cores, count, disk>> /\ 0 \in Entry
        /\ \/ Put(x, [Checked(u, ci[x]) EXCEPT !.access[n] = 0])
           \/ Put(x, Checked(u, ci[x]))
    BY <1>6 DEF RemUser, OnlyChannel, Entry
  <2> QED BY <2>1, AccessIsMinor
<1>7. ASSUME NEW n \in Core, NEW l \in Level, AddUser(u, x, n, l) \/ ModUser(u, x, n, l)
      PROVE  IsMinor(x)
  <2>1. /\ ci[x] # NULL /\ UNCHANGED <<up, cores, count, disk>> /\ l \in Entry
        /\ \/ Put(x, [Checked(u, ci[x]) EXCEPT !.access[n] = l])
           \/ Put(x, Checked(u, ci[x]))
    BY <1>7 DEF AddUser, ModUser, OnlyChannel, Entry
  <2> QED BY <2>1, AccessIsMinor
<1>8. ASSUME NEW n \in Core, NEW l \in Level, ModUserAbsent(u, x, n, l)
      PROVE  IsMinor(x)
  <2> DEFINE t == Checked(u, ci[x])
  <2>1. ci[x] # NULL /\ UNCHANGED <<up, cores, count, disk>>
    BY <1>8 DEF ModUserAbsent, OnlyChannel
  <2>2. PICK j \in {0, 1} : Put(x, [t EXCEPT !.junk = t.junk + j])
    BY <1>8 DEF ModUserAbsent
  <2>3. t \in ChannelInfo /\ t.flags = ci[x].flags /\ t.founder = ci[x].founder
    BY <2>1, CheckedSame
  <2> HIDE DEF t
  <2> DEFINE r == [t EXCEPT !.junk = t.junk + j]
  <2>4. r \in ChannelInfo /\ r.founder = t.founder /\ r.flags = t.flags
    BY <2>3 DEF ChannelInfo
  <2>5. Minor(x, r)
    BY <2>1, <2>2, <2>3, <2>4 DEF Minor
  <2> QED BY <2>5 DEF IsMinor
<1> QED BY <1>1, <1>3, <1>4, <1>5, <1>6, <1>7, <1>8 DEF Plain

-----------------------------------------------------------------------------
(* No command but two leaves a channel without a founder.                  *)

LEMMA MinorKeepsFounder ==
  ASSUME IInv, NEW x \in Channel, IsMinor(x), NEW y \in Channel, Founderless(y)'
  PROVE  Founderless(y)
<1>1. PICK r : Minor(x, r)
  BY DEF IsMinor
<1>2. ci' = [ci EXCEPT ![x] = r] /\ r # NULL
  BY <1>1, NullFacts DEF Minor, Put
<1>3. CASE y = x
  <2>1. ci'[y] = r
    BY <1>2, <1>3 DEF IInv, Records
  <2> QED BY <1>1, <1>3, <2>1 DEF Founderless, Is, Minor
<1>4. CASE y # x
  <2>1. ci'[y] = ci[y]
    BY <1>2, <1>4 DEF IInv, Records
  <2> QED BY <2>1 DEF Founderless, Is
<1> QED BY <1>3, <1>4

\* A record put where there may have been none.
LEMMA PutFounder ==
  ASSUME IInv, NEW x \in Channel, NEW r, Put(x, r), NEW y \in Channel, Founderless(y)',
         r.founder # NULL \/ "VERBOTEN" \in r.flags
  PROVE  Founderless(y)
<1>1. ci' = [ci EXCEPT ![x] = r]
  BY DEF Put
<1>2. y # x
  BY <1>1 DEF IInv, Records, Founderless, Is
<1>3. ci'[y] = ci[y]
  BY <1>1, <1>2 DEF IInv, Records
<1> QED BY <1>3 DEF Founderless, Is

LEMMA DelChansFounder ==
  ASSUME NEW X, DelChans(X), NEW y \in Channel, Founderless(y)'
  PROVE  Founderless(y)
BY DEF DelChans, Founderless, Is

\* FCHAN and SCHAN, but for the two cases.
LEMMA ForbidFounder ==
  ASSUME IInv, NEW u \in User, NEW x \in Channel, NEW id \in Id, Forbid(u, x, id),
         NEW y \in Channel, ~Founderless(y), Founderless(y)'
  PROVE  Forbid(u, y, id) /\ ~CheckAccess(u, Shell(id), CA_FORBID)
<1> DEFINE s == Used(u, Shell(id))
           r == [s EXCEPT !.flags = {"VERBOTEN"}]
<1>1. s \in ChannelInfo
  <2>1. RecOK(s, cores)
    BY ShellOK, UsedKeeps DEF IInv, Rest
  <2> QED BY <2>1 DEF RecOK
<1>2. r.flags = {"VERBOTEN"}
  <2> HIDE DEF s
  <2> QED BY <1>1 DEF ChannelInfo
<1>3. CASE CheckAccess(u, Shell(id), CA_FORBID)
  <2>1. Put(x, r)
    BY <1>3 DEF Forbid
  <2> QED BY <1>2, <2>1, PutFounder
<1>4. CASE ~CheckAccess(u, Shell(id), CA_FORBID)
  <2>1. ci' = [ci EXCEPT ![x] = Shell(id)]
    BY <1>4 DEF Forbid, Put
  <2>2. y = x
    BY <2>1 DEF IInv, Records, Founderless, Is
  <2> QED BY <1>4, <2>2
<1> QED BY <1>3, <1>4

LEMMA SuspendIsMinor ==
  ASSUME IInv, NEW u \in User, NEW x \in Channel, NEW id \in Id, Suspend(u, x, id),
         ci[x] # NULL
  PROVE  IsMinor(x)
<1> DEFINE s == Used(u, ci[x])
           f == s.flags \cup {"SUSPENDED"}
<1>1. /\ UNCHANGED <<up, cores, count, disk>>
      /\ Put(x, s) \/ Put(x, [s EXCEPT !.flags = f])
  BY DEF Suspend
<1>2. s \in ChannelInfo /\ s.flags = ci[x].flags
  <2>1. RecOK(s, cores) /\ s.flags = ci[x].flags
    BY TheRecord, UsedKeeps
  <2> QED BY <2>1 DEF RecOK
<1>3. f \in SUBSET Flag /\ ("VERBOTEN" \in ci[x].flags => "VERBOTEN" \in f)
  BY <1>2 DEF ChannelInfo, Flag
<1> HIDE DEF f
<1> QED BY <1>1, <1>3, UsedIsMinor, FlagsAreMinor

LEMMA SuspendFounder ==
  ASSUME IInv, NEW u \in User, NEW x \in Channel, NEW id \in Id, Suspend(u, x, id),
         NEW y \in Channel, ~Founderless(y), Founderless(y)'
  PROVE  Suspend(u, y, id) /\ ci[y] = NULL
<1>1. ci[x] = NULL
  BY SuspendIsMinor, MinorKeepsFounder
<1>2. \E r : ci' = [ci EXCEPT ![x] = r]
  BY DEF Suspend, Put
<1>3. y = x
  BY <1>2 DEF IInv, Records, Founderless, Is
<1> QED BY <1>1, <1>3

LEMMA RegisterFounder ==
  ASSUME IInv, NEW u \in User, NEW x \in Channel, NEW n \in Core, NEW id \in Id,
         Register(u, x, n, id)
  PROVE  \E r \in ChannelInfo : Put(x, r) /\ r.founder = n
<1> DEFINE s == Shell(id)
           a == [s.access EXCEPT ![n] = 500]
           r == [s EXCEPT !.founder = n, !.access = a, !.last_used = now, !.c = TRUE]
<1>1. s \in ChannelInfo /\ now \in Nat
  BY ShellOK DEF RecOK, IInv, Rest
<1>2. Put(x, [s EXCEPT !.founder = n, !.access[n] = 500, !.last_used = now, !.c = TRUE])
  BY DEF Register
<1> HIDE DEF s
<1>3. a \in [Core -> Entry]
  BY <1>1 DEF ChannelInfo, Entry
<1>4. [s EXCEPT !.founder = n, !.access[n] = 500, !.last_used = now, !.c = TRUE] = r
  BY <1>1 DEF ChannelInfo
<1> HIDE DEF a
<1>5. r \in ChannelInfo /\ r.founder = n
  BY <1>1, <1>3 DEF ChannelInfo
<1> QED BY <1>2, <1>4, <1>5

LEMMA SetFounderFounder ==
  ASSUME IInv, NEW u \in User, NEW x \in Channel, NEW n \in Core, SetFounder(u, x, n)
  PROVE  \E r \in ChannelInfo : Put(x, r) /\ r.founder = n
<1> DEFINE s == Used(u, ci[x])
           m == IF s.successor = n THEN NULL ELSE s.successor
           r == [s EXCEPT !.founder = n, !.successor = m]
<1>1. s \in ChannelInfo
  BY TheRecord, UsedKeeps DEF RecOK, SetFounder
<1>2. Put(x, r)
  BY DEF SetFounder
<1> HIDE DEF s
<1>3. m \in Core \cup {NULL}
  BY <1>1 DEF ChannelInfo
<1> HIDE DEF m
<1>4. r \in ChannelInfo /\ r.founder = n
  BY <1>1, <1>3 DEF ChannelInfo
<1> QED BY <1>2, <1>4

LEMMA RemoveNickFounder ==
  ASSUME IInv, NEW n \in Core, RemoveNick(n), NEW y \in Channel, Founderless(y)'
  PROVE  Founderless(y)
<1>1. PICK Kept \in SUBSET {x \in Channel : Successor(x, n)} : RemoveNickKeeping(n, Kept)
  BY DEF RemoveNick
<1> DEFINE X == {x \in Channel : ci[x] # NULL /\ ci[x].founder = n} \ Kept
<1>2. ci[y] # NULL /\ y \notin X /\ ci'[y] = WithoutNick(ci[y], n)
  BY <1>1 DEF Founderless, RemoveNickKeeping
<1>3. ci[y].founder = n => ci[y].successor # NULL
  BY <1>2 DEF Successor
<1>4. WithoutNick(ci[y], n).founder = NULL <=> ci[y].founder = NULL
  BY <1>2, <1>3, TheRecord, WithoutNickKeeps
<1>5. WithoutNick(ci[y], n).flags = ci[y].flags
  BY <1>2, TheRecord DEF WithoutNick, ChannelInfo
<1> QED BY <1>2, <1>4, <1>5 DEF Founderless, Is

LEMMA JoinFounder ==
  ASSUME IInv, NEW x \in Channel, Join(x), NEW y \in Channel, Founderless(y)'
  PROVE  Founderless(y)
<1>1. CASE UNCHANGED ci
  BY <1>1 DEF Founderless, Is
<1>2. CASE ~UNCHANGED ci
  <2> DEFINE r == [ci[x] EXCEPT !.c = TRUE]
  <2>1. ci[x] # NULL /\ Put(x, r) /\ UNCHANGED <<up, cores, count, disk>>
    BY <1>2 DEF Join
  <2>2. r \in ChannelInfo /\ r.founder = ci[x].founder /\ r.flags = ci[x].flags
    BY <2>1, TheRecord DEF ChannelInfo
  <2> HIDE DEF r
  <2>3. Minor(x, r)
    BY <2>1, <2>2 DEF Minor
  <2>4. IsMinor(x)
    BY <2>3 DEF IsMinor
  <2> QED BY <2>4, MinorKeepsFounder
<1> QED BY <1>1, <1>2

\* The action of FounderStays.
Foundering ==
    \A x \in Channel :
        (up /\ up' /\ ~Founderless(x) /\ Founderless(x)') =>
            \E u \in User, id \in Id :
                \/ Forbid(u, x, id) /\ ~CheckAccess(u, Shell(id), CA_FORBID)
                \/ Suspend(u, x, id) /\ ci[x] = NULL

LEMMA CommandFounder ==
  ASSUME IInv, Command, NEW y \in Channel, up', ~Founderless(y), Founderless(y)'
  PROVE  \E u \in User, id \in Id :
            \/ Forbid(u, y, id) /\ ~CheckAccess(u, Shell(id), CA_FORBID)
            \/ Suspend(u, y, id) /\ ci[y] = NULL
<1>1. PICK u \in User, x \in Channel :
        \/ \E n \in Core, id \in Id : Register(u, x, n, id)
        \/ \E id \in Id : Forbid(u, x, id) \/ Suspend(u, x, id)
        \/ Drop(u, x) \/ Info(x)
        \/ NotRegistered(u, x) \/ SetFounderCrashes(u, x)
        \/ \E n \in Core : SetFounder(u, x, n)
        \/ Plain(u, x)
  BY DEF Command, Plain
<1>2. CASE \E id \in Id : Forbid(u, x, id) \/ Suspend(u, x, id)
  BY <1>2, ForbidFounder, SuspendFounder
<1>3. ASSUME NEW n \in Core,
             SetFounder(u, x, n) \/ \E id \in Id : Register(u, x, n, id)
      PROVE  FALSE
  <2>1. PICK r : Put(x, r) /\ r.founder = n
    BY <1>3, RegisterFounder, SetFounderFounder
  <2> QED BY <2>1, NullFacts, PutFounder
<1>4. ~Plain(u, x)
  BY PlainIsMinor, MinorKeepsFounder
<1>5. ~Drop(u, x) /\ ~Info(x)
  BY DelChansFounder DEF Drop, Info
<1>6. ~NotRegistered(u, x) /\ ~SetFounderCrashes(u, x)
  BY DEF NotRegistered, SetFounderCrashes, Crash
<1> QED BY <1>1, <1>2, <1>3, <1>4, <1>5, <1>6

LEMMA NextFounder == ASSUME IInv, Next PROVE Foundering
<1> SUFFICES ASSUME NEW y \in Channel, up, up', ~Founderless(y), Founderless(y)'
             PROVE  \E u \in User, id \in Id :
                       \/ Forbid(u, y, id) /\ ~CheckAccess(u, Shell(id), CA_FORBID)
                       \/ Suspend(u, y, id) /\ ci[y] = NULL
  BY DEF Foundering
<1>1. ci' # ci
  BY DEF Founderless, Is
<1>2. \A n \in Core : ~RegisterNick(n) /\ ~RemoveNick(n)
  BY <1>1, RemoveNickFounder DEF RegisterNick
<1>3. \A u \in User : ~Quit(u) /\ \A n \in Core : ~Login(u, n)
  BY <1>1 DEF Quit, Login
<1>4. \A x \in Channel : ~Join(x) /\ ~Part(x)
  BY <1>1, JoinFounder DEF Part
<1>5. ~World /\ ~Tick
  BY <1>1, <1>2, <1>3, <1>4 DEF World, Tick
<1>6. ~Program
  <2>1. ~ExpireChans
    BY DelChansFounder DEF ExpireChans
  <2>2. ~SaveCrashes /\ ~Stop /\ ~Restart /\ \A chans \in BOOLEAN : ~Save(chans)
    BY <1>1 DEF SaveCrashes, Crash, Stop, Restart, Save
  <2> QED BY <2>1, <2>2 DEF Program
<1> QED BY <1>5, <1>6, CommandFounder DEF Next

\* While services run a channel comes to be without a founder, and not
\* forbidden, by a denied FCHAN or by SCHAN of one that is not registered:
\* not by any transfer, drop, expiry or access command, however they mix.
THEOREM FoundersStay == Spec => FounderStays
<1>1. IInv /\ [Next]_vars => [Foundering]_vars
  BY NextFounder
<1> QED BY <1>1, Invariance, PTL DEF Spec, FounderStays, Foundering

-----------------------------------------------------------------------------
(* Channels in use.                                                        *)

\* Somebody on a channel means that there is a Channel record for it.
Present == occupied \subseteq record

LEMMA CommandPresent == ASSUME Present, Command PROVE Present'
<1>1. record' = record /\ occupied' \subseteq occupied
  <2>1. PICK u \in User, x \in Channel :
          \/ \E n \in Core, id \in Id : Register(u, x, n, id)
          \/ \E id \in Id : Forbid(u, x, id) \/ Suspend(u, x, id)
          \/ Identify(u, x) \/ Drop(u, x) \/ Info(x) \/ UseAccess(u, x)
          \/ Unsuspend(u, x) \/ NotRegistered(u, x) \/ SetFounderCrashes(u, x)
          \/ \E n \in Core : SetFounder(u, x, n) \/ RemUser(u, x, n)
          \/ \E n \in Core \cup {NULL} : SetSuccessor(u, x, n)
          \/ \E on \in BOOLEAN : SetNoExpire(u, x, on)
          \/ \E n \in Core, l \in Level :
                AddUser(u, x, n, l) \/ ModUser(u, x, n, l) \/ ModUserAbsent(u, x, n, l)
    BY DEF Command
  <2>2. ASSUME NEW id \in Id, Forbid(u, x, id) \/ Suspend(u, x, id)
        PROVE  record' = record /\ occupied' \subseteq occupied
    BY <2>2 DEF Forbid, Suspend
  <2>3. ASSUME NEW n \in Core, (\E id \in Id : Register(u, x, n, id)) \/ SetFounder(u, x, n)
                                                                   \/ RemUser(u, x, n)
        PROVE  UNCHANGED <<record, occupied>>
    BY <2>3 DEF Register, SetFounder, RemUser, OnlyChannel
  <2>4. CASE \/ Identify(u, x) \/ Drop(u, x) \/ Info(x) \/ UseAccess(u, x)
             \/ Unsuspend(u, x) \/ NotRegistered(u, x) \/ SetFounderCrashes(u, x)
    BY <2>4 DEF Identify, Drop, Info, UseAccess, Unsuspend, NotRegistered,
                SetFounderCrashes, Crash, OnlyChannel
  <2>5. CASE \/ \E n \in Core \cup {NULL} : SetSuccessor(u, x, n)
             \/ \E on \in BOOLEAN : SetNoExpire(u, x, on)
    BY <2>5 DEF SetSuccessor, SetNoExpire, OnlyChannel
  <2>6. ASSUME NEW n \in Core, NEW l \in Level,
               AddUser(u, x, n, l) \/ ModUser(u, x, n, l) \/ ModUserAbsent(u, x, n, l)
        PROVE  UNCHANGED <<record, occupied>>
    BY <2>6 DEF AddUser, ModUser, ModUserAbsent, OnlyChannel
  <2> QED BY <2>1, <2>2, <2>3, <2>4, <2>5, <2>6
<1> QED BY <1>1 DEF Present

LEMMA NextPresent == ASSUME Present, [Next]_vars PROVE Present'
<1>1. CASE World
  <2>1. ASSUME NEW n \in Core, RegisterNick(n) \/ RemoveNick(n)
        PROVE  UNCHANGED <<record, occupied>>
    BY <2>1 DEF RegisterNick, RemoveNick, RemoveNickKeeping
  <2>2. ASSUME NEW u \in User, Quit(u) \/ \E n \in Core : Login(u, n)
        PROVE  UNCHANGED <<record, occupied>>
    BY <2>2 DEF Quit, Login
  <2>3. ASSUME NEW x \in Channel, Join(x) \/ Part(x)
        PROVE  Present'
    BY <2>3 DEF Join, Part, Present
  <2> QED BY <1>1, <2>1, <2>2, <2>3 DEF World, Present
<1>2. CASE Program
  <2>1. CASE ExpireChans \/ SaveCrashes \/ Stop \/ \E chans \in BOOLEAN : Save(chans)
    BY <2>1 DEF ExpireChans, SaveCrashes, Crash, Stop, Save, Present
  <2>2. CASE Restart
    BY <2>2 DEF Restart, Present
  <2> QED BY <1>2, <2>1, <2>2 DEF Program
<1>3. CASE Tick \/ UNCHANGED vars
  BY <1>3 DEF Tick, vars, Present
<1> QED BY <1>1, <1>2, <1>3, CommandPresent DEF Next

LEMMA UsersArePresent == Spec => []Present
<1>1. Init => Present
  BY DEF Init, Present
<1>2. Present /\ [Next]_vars => Present'
  BY NextPresent
<1> QED BY <1>1, <1>2, PTL DEF Spec

\* The action of InUseNeverExpires.
Sparing ==
    ExpireChans => \A x \in occupied : (ci[x] # NULL /\ ci[x].founder # NULL) => ci'[x] # NULL

LEMMA ExpireSpares == ASSUME IInv, Present PROVE Sparing
<1> SUFFICES ASSUME ExpireChans, NEW x \in occupied, ci[x] # NULL, ci[x].founder # NULL
             PROVE  ci'[x] # NULL
  BY DEF Sparing
<1>1. x \in Channel /\ x \in record
  BY DEF IInv, Rest, Present
<1>2. ci[x].c
  BY <1>1 DEF IInv, Records, LinkOK
<1> QED BY <1>1, <1>2 DEF ExpireChans, DelChans

\* Whatever became of its record and its Channel before, in whichever order
\* they were made, linked and loaded, a channel with a founder and somebody
\* on it is not expired.
THEOREM UsedIsKept == Spec => InUseNeverExpires
<1>1. IInv /\ Present => Sparing
  BY ExpireSpares
<1>2. IInv /\ Present /\ [Next]_vars => [Sparing]_vars
  BY <1>1
<1> QED BY <1>2, Invariance, UsersArePresent, PTL DEF Spec, InUseNeverExpires, Sparing

-----------------------------------------------------------------------------
(* Counts and limits.                                                      *)

Owner(x) == IF ci[x] = NULL THEN NULL ELSE ci[x].founder

Owned(n) == {x \in Channel : Owner(x) = n}

\* What the file says.
Saved(n) == {x \in Channel : disk.chan[x] # NULL /\ disk.chan[x].founder = n}

MayOwn(k) == (ChannelMax > 0 /\ Admin = {}) => k <= ChannelMax

CountOK(n) == count[n] = Cardinality(Owned(n)) /\ MayOwn(count[n])

SavedOK(n) == disk.nick[n] = Cardinality(Saved(n)) /\ MayOwn(disk.nick[n])

\* With services down as with services up, and in the two files together.
Counted ==
    /\ \A n \in cores : CountOK(n)
    /\ \A n \in Core : disk.nick[n] # NULL => SavedOK(n)

\* The two databases are written together.
Together == "partial_save" \notin Allowed

LEMMA OwnedFinite ==
  ASSUME NEW n
  PROVE  IsFiniteSet(Owned(n)) /\ Cardinality(Owned(n)) \in Nat
<1>1. IsFiniteSet(Owned(n))
  BY SetsAreFinite, FS_Subset DEF Owned
<1> QED BY <1>1, FS_CardinalityType

LEMMA FoundedIsOwned ==
  ASSUME NEW n \in Core, NEW X \in SUBSET Channel
  PROVE  Founded(n, X) = Owned(n) \cap X
BY NullFacts DEF Founded, Owned, Owner

LEMMA PutOwner ==
  ASSUME IInv, NEW x \in Channel, NEW r \in ChannelInfo, Put(x, r)
  PROVE  /\ Owner(x)' = r.founder
         /\ \A y \in Channel \ {x} : Owner(y)' = Owner(y)
<1>1. ci' = [ci EXCEPT ![x] = r] /\ r # NULL
  BY NullFacts DEF Put
<1> QED BY <1>1 DEF IInv, Records, Owner

SameOwners == \A x \in Channel : Owner(x)' = Owner(x)

LEMMA SavedFrame ==
  ASSUME Counted, UNCHANGED disk
  PROVE  \A n \in Core : (disk.nick[n])' # NULL => SavedOK(n)'
<1>1. \A n : Saved(n)' = Saved(n)
  BY DEF Saved
<1> QED BY <1>1 DEF Counted, SavedOK, MayOwn

LEMMA CountedFrame ==
  ASSUME Counted, SameOwners, UNCHANGED <<cores, count, disk>>
  PROVE  Counted'
<1>1. \A n : Owned(n)' = Owned(n)
  BY DEF Owned, SameOwners
<1>2. \A n \in cores' : CountOK(n)'
  BY <1>1 DEF Counted, CountOK, MayOwn
<1> QED BY <1>2, SavedFrame DEF Counted

LEMMA MinorCounted ==
  ASSUME IInv, Counted, NEW x \in Channel, IsMinor(x)
  PROVE  Counted'
<1>1. PICK r : Minor(x, r)
  BY DEF IsMinor
<1>2. SameOwners
  <2>1. Owner(x)' = r.founder /\ \A y \in Channel \ {x} : Owner(y)' = Owner(y)
    BY <1>1, PutOwner DEF Minor
  <2>2. Owner(x) = r.founder
    BY <1>1 DEF Minor, Owner
  <2> QED BY <2>1, <2>2 DEF SameOwners
<1> QED BY <1>1, <1>2, CountedFrame DEF Minor

\* The channels of X lose their founders, who are told so.
LEMMA DisownedCounted ==
  ASSUME IInv, Counted, NEW X \in SUBSET Channel, UNCHANGED <<cores, disk>>,
         \A x \in Channel : Owner(x)' = IF x \in X THEN NULL ELSE Owner(x),
         count' = [n \in Core |-> count[n] - Cardinality(Founded(n, X))]
  PROVE  Counted'
<1>1. ASSUME NEW n \in cores PROVE CountOK(n)'
  <2>1. n \in Core /\ count[n] = Cardinality(Owned(n)) /\ MayOwn(count[n])
    BY DEF IInv, Rest, Counted, CountOK
  <2>2. Owned(n)' = Owned(n) \ X
    BY <2>1, NullFacts DEF Owned
  <2>3. Cardinality(Owned(n) \ X) = Cardinality(Owned(n)) - Cardinality(Owned(n) \cap X)
    BY OwnedFinite, FS_Difference
  <2>4. count'[n] = Cardinality(Owned(n) \ X)
    BY <2>1, <2>3, FoundedIsOwned
  <2>5. Cardinality(Owned(n)) \in Nat /\ Cardinality(Owned(n) \cap X) \in Nat
    BY <2>1, OwnedFinite, FoundedFinite, FoundedIsOwned
  <2>6. count'[n] <= count[n] /\ count'[n] \in Int
    BY <2>1, <2>3, <2>4, <2>5
  <2>7. MayOwn(count'[n])
    BY <2>1, <2>5, <2>6, NumbersAreNat DEF MayOwn
  <2> QED BY <2>2, <2>4, <2>7 DEF CountOK, MayOwn
<1> QED BY <1>1, SavedFrame DEF Counted

LEMMA DelChansCounted ==
  ASSUME IInv, Counted, NEW X \in SUBSET Channel, DelChans(X), UNCHANGED <<cores, disk>>
  PROVE  Counted'
<1>1. \A x \in Channel : Owner(x)' = IF x \in X THEN NULL ELSE Owner(x)
  BY DEF DelChans, Owner
<1> QED BY <1>1, DisownedCounted DEF DelChans

LEMMA ForbidCounted ==
  ASSUME IInv, Counted, NEW u \in User, NEW x \in Channel, NEW id \in Id,
         Forbid(u, x, id)
  PROVE  Counted'
<1> DEFINE s == Used(u, Shell(id))
           r == [s EXCEPT !.flags = {"VERBOTEN"}]
<1>1. RecOK(s, cores) /\ s.founder = NULL
  BY ShellOK, UsedKeeps DEF IInv, Rest
<1>2. Shell(id) \in ChannelInfo /\ Shell(id).founder = NULL
  BY ShellOK DEF RecOK
<1>3. r \in ChannelInfo /\ r.founder = NULL
  <2> HIDE DEF s
  <2> QED BY <1>1 DEF RecOK, ChannelInfo, Flag
<1>4. PICK t \in ChannelInfo : Put(x, t) /\ t.founder = NULL
  <2>1. Put(x, r) \/ Put(x, Shell(id))
    BY DEF Forbid
  <2> HIDE DEF r
  <2> QED BY <1>2, <1>3, <2>1
<1>5. \A y \in Channel : Owner(y)' = IF y \in {x} THEN NULL ELSE Owner(y)
  BY <1>4, PutOwner
<1>6. /\ UNCHANGED <<cores, disk>>
      /\ count' = [n \in Core |-> count[n] - Cardinality(Founded(n, {x}))]
  BY DEF Forbid
<1> QED BY <1>5, <1>6, DisownedCounted

LEMMA SuspendCounted ==
  ASSUME IInv, Counted, NEW u \in User, NEW x \in Channel, NEW id \in Id,
         Suspend(u, x, id)
  PROVE  Counted'
<1>1. CASE ci[x] # NULL
  BY <1>1, SuspendIsMinor, MinorCounted
<1>2. CASE ci[x] = NULL
  <2> DEFINE s == Used(u, Shell(id))
             f == s.flags \cup {"SUSPENDED"}
             r == [s EXCEPT !.flags = f]
  <2>1. Put(x, r) \/ Put(x, s)
    BY <1>2 DEF Suspend
  <2>2. RecOK(s, cores) /\ s.founder = NULL
    BY ShellOK, UsedKeeps DEF IInv, Rest
  <2> HIDE DEF s
  <2>3. r \in ChannelInfo /\ r.founder = NULL /\ s \in ChannelInfo
    BY <2>2 DEF RecOK, ChannelInfo, Flag
  <2>4. PICK t \in ChannelInfo : Put(x, t) /\ t.founder = NULL
    BY <2>1, <2>2, <2>3
  <2>5. SameOwners
    <3>1. Owner(x) = NULL
      BY <1>2 DEF Owner
    <3> QED BY <2>4, <3>1, PutOwner DEF SameOwners
  <2> QED BY <2>5, CountedFrame DEF Suspend
<1> QED BY <1>1, <1>2

\* x comes from f, who may be nobody, to n.
LEMMA HandedCounted ==
  ASSUME IInv, Counted, NEW x \in Channel, NEW f \in Core \cup {NULL}, NEW n \in cores,
         UNCHANGED <<cores, disk>>,
         Owner(x) = f, Owner(x)' = n, \A y \in Channel \ {x} : Owner(y)' = Owner(y),
         \A m \in Core : count'[m] = count[m] - (IF m = f THEN 1 ELSE 0)
                                              + (IF m = n THEN 1 ELSE 0),
         (ChannelMax > 0 /\ Admin = {}) => count[n] < ChannelMax
  PROVE  Counted'
<1>1. ASSUME NEW m \in cores PROVE CountOK(m)'
  <2>1. /\ m \in Core /\ n \in Core
        /\ count[m] = Cardinality(Owned(m)) /\ MayOwn(count[m]) /\ count[m] \in Nat
        /\ ChannelMax \in Nat
    BY OwnedFinite, NumbersAreNat DEF IInv, Rest, Counted, CountOK
  <2>2. IsFiniteSet(Owned(m))
    BY OwnedFinite
  <2>3. CASE m = n /\ m # f
    <3>1. x \notin Owned(m) /\ Owned(m)' = Owned(m) \cup {x}
      BY <2>1, <2>3 DEF Owned
    <3>2. Cardinality(Owned(m) \cup {x}) = Cardinality(Owned(m)) + 1
      BY <2>2, <3>1, FS_AddElement
    <3>3. count'[m] = count[m] + 1 /\ MayOwn(count'[m])
      BY <2>1, <2>3 DEF MayOwn
    <3> QED BY <2>1, <3>1, <3>2, <3>3 DEF CountOK, MayOwn
  <2>4. CASE m = f /\ m # n
    <3>1. x \in Owned(m) /\ Owned(m)' = Owned(m) \ {x}
      BY <2>1, <2>4 DEF Owned
    <3>2. Cardinality(Owned(m) \ {x}) = Cardinality(Owned(m)) - 1
      BY <2>2, <3>1, FS_RemoveElement
    <3>3. count'[m] = count[m] - 1 /\ MayOwn(count'[m])
      BY <2>1, <2>4 DEF MayOwn
    <3> QED BY <2>1, <3>1, <3>2, <3>3 DEF CountOK, MayOwn
  <2>5. CASE (m = f /\ m = n) \/ (m # f /\ m # n)
    <3>1. Owned(m)' = Owned(m)
      BY <2>1, <2>5 DEF Owned
    <3>2. count'[m] = count[m]
      BY <2>1, <2>5
    <3> QED BY <2>1, <3>1, <3>2 DEF CountOK, MayOwn
  <2> QED BY <2>3, <2>4, <2>5
<1> QED BY <1>1, SavedFrame DEF Counted

\* Nobody is a services admin where there are none.
LEMMA RoomForMore ==
  ASSUME NEW u, NEW n, MayHaveMore(u, n), ChannelMax > 0, Admin = {}
  PROVE  count[n] < ChannelMax
BY NumbersAreNat DEF MayHaveMore, IsServicesAdmin

LEMMA RegisterCounted ==
  ASSUME IInv, Counted, NEW u \in User, NEW x \in Channel, NEW n \in Core, NEW id \in Id,
         Register(u, x, n, id)
  PROVE  Counted'
<1>1. /\ n \in cores /\ ci[x] = NULL /\ MayHaveMore(u, n)
      /\ count' = [count EXCEPT ![n] = @ + 1]
      /\ UNCHANGED <<cores, disk>>
  BY DEF Register
<1>2. PICK r \in ChannelInfo : Put(x, r) /\ r.founder = n
  BY RegisterFounder
<1>3. /\ Owner(x) = NULL /\ Owner(x)' = n
      /\ \A y \in Channel \ {x} : Owner(y)' = Owner(y)
  BY <1>1, <1>2, PutOwner DEF Owner
<1>4. ASSUME NEW m \in Core
      PROVE  count'[m] = count[m] - (IF m = NULL THEN 1 ELSE 0) + (IF m = n THEN 1 ELSE 0)
  BY <1>1, NullFacts DEF IInv, Rest
<1> QED BY <1>1, <1>3, <1>4, RoomForMore, HandedCounted

LEMMA SetFounderCounted ==
  ASSUME IInv, Counted, NEW u \in User, NEW x \in Channel, NEW n \in Core,
         SetFounder(u, x, n)
  PROVE  Counted'
<1> DEFINE f == ci[x].founder
<1>1. /\ n \in cores /\ ci[x] # NULL /\ MayHaveMore(u, n)
      /\ count' = [m \in Core |-> count[m] - (IF m = f THEN 1 ELSE 0)
                                           + (IF m = n THEN 1 ELSE 0)]
      /\ UNCHANGED <<cores, disk>>
  BY DEF SetFounder
<1>2. PICK r \in ChannelInfo : Put(x, r) /\ r.founder = n
  BY SetFounderFounder
<1>3. /\ Owner(x) = f /\ Owner(x)' = n
      /\ \A y \in Channel \ {x} : Owner(y)' = Owner(y)
  BY <1>1, <1>2, PutOwner DEF Owner
<1>4. f \in Core \cup {NULL}
  BY <1>1, TheRecord DEF ChannelInfo
<1> HIDE DEF f
<1>5. \A m \in Core : count'[m] = count[m] - (IF m = f THEN 1 ELSE 0)
                                           + (IF m = n THEN 1 ELSE 0)
  BY <1>1
<1> QED BY <1>1, <1>3, <1>4, <1>5, RoomForMore, HandedCounted

LEMMA CiFrame ==
  ASSUME Counted, UNCHANGED <<cores, ci, count, disk>>
  PROVE  Counted'
<1>1. SameOwners
  BY DEF SameOwners, Owner
<1> QED BY <1>1, CountedFrame

LEMMA RegisterNickCounted == ASSUME IInv, Counted, NEW n \in Core, RegisterNick(n) PROVE Counted'
<1>1. /\ n \notin cores /\ cores' = cores \cup {n}
      /\ count' = [count EXCEPT ![n] = 0]
      /\ UNCHANGED <<ci, disk>>
  BY DEF RegisterNick
<1>2. \A m : Owned(m)' = Owned(m)
  BY <1>1 DEF Owned, Owner
<1>3. CountOK(n)'
  <2>1. Owned(n) = {}
    BY <1>1, NullFacts DEF Owned, Owner, IInv, Records, RecOK
  <2>2. count'[n] = 0
    BY <1>1 DEF IInv, Rest
  <2>3. Cardinality(Owned(n)) = 0
    BY <2>1, FS_EmptySet
  <2> QED BY <1>2, <2>2, <2>3, NumbersAreNat DEF CountOK, MayOwn
<1>4. ASSUME NEW m \in cores PROVE CountOK(m)'
  <2>1. count'[m] = count[m]
    BY <1>1 DEF IInv, Rest
  <2> QED BY <1>2, <2>1 DEF Counted, CountOK, MayOwn
<1> QED BY <1>1, <1>3, <1>4, SavedFrame DEF Counted

LEMMA JoinCounted == ASSUME IInv, Counted, NEW x \in Channel, Join(x) PROVE Counted'
<1>1. CASE UNCHANGED ci
  BY <1>1, CiFrame DEF Join
<1>2. CASE ~UNCHANGED ci
  <2> DEFINE r == [ci[x] EXCEPT !.c = TRUE]
  <2>1. ci[x] # NULL /\ Put(x, r) /\ UNCHANGED <<up, cores, count, disk>>
    BY <1>2 DEF Join
  <2>2. r \in ChannelInfo /\ r.founder = ci[x].founder /\ r.flags = ci[x].flags
    BY <2>1, TheRecord DEF ChannelInfo
  <2> HIDE DEF r
  <2>3. Minor(x, r)
    BY <2>1, <2>2 DEF Minor
  <2>4. IsMinor(x)
    BY <2>3 DEF IsMinor
  <2> QED BY <2>4, MinorCounted
<1> QED BY <1>1, <1>2

\* The successors get the channels and the count, and have room for them.
LEMMA RemoveNickCounted == ASSUME IInv, Counted, NEW n \in Core, RemoveNick(n) PROVE Counted'
<1>1. PICK Kept \in SUBSET {x \in Channel : Successor(x, n)} :
        (\A s \in Core : Transferred(s, n, Kept)) /\ RemoveNickKeeping(n, Kept)
  BY DEF RemoveNick
<1> DEFINE X == {x \in Channel : ci[x] # NULL /\ ci[x].founder = n} \ Kept
           Heired(m) == {x \in Kept : ci[x].successor = m}
<1>2. /\ cores' = cores \ {n} /\ UNCHANGED disk
      /\ ci' = [x \in Channel |->
                  IF x \in X \/ ci[x] = NULL THEN NULL ELSE WithoutNick(ci[x], n)]
      /\ \A m \in Core \ {n} : count'[m] = count[m] + Cardinality(Heired(m))
  BY <1>1 DEF RemoveNickKeeping
<1>3. ASSUME NEW x \in Channel, ci[x] # NULL
      PROVE  WithoutNick(ci[x], n).founder =
                IF ci[x].founder = n THEN ci[x].successor ELSE ci[x].founder
  <2>1. ci[x] \in ChannelInfo
    BY <1>3, TheRecord
  <2> QED BY <2>1 DEF WithoutNick, ChannelInfo
<1>4. ASSUME NEW m \in cores, m # n PROVE CountOK(m)'
  <2>1. /\ m \in Core /\ m # NULL /\ n # NULL
        /\ count[m] = Cardinality(Owned(m)) /\ MayOwn(count[m]) /\ count[m] \in Nat
        /\ ChannelMax \in Nat
    BY OwnedFinite, NumbersAreNat, NullFacts DEF IInv, Rest, Counted, CountOK
  <2>2. Kept \subseteq Channel /\ \A x \in Kept : ci[x] # NULL /\ ci[x].founder = n
    BY DEF Successor
  <2>3. Owned(m)' = Owned(m) \cup Heired(m)
    <3>1. ASSUME NEW x \in Channel
          PROVE  x \in Owned(m)' <=> x \in Owned(m) \cup Heired(m)
      <4>1. CASE ci[x] = NULL
        BY <1>2, <2>1, <2>2, <4>1 DEF Owned, Owner
      <4>2. CASE ci[x] # NULL /\ x \in X
        BY <1>2, <1>4, <2>1, <4>2 DEF Owned, Owner
      <4>3. CASE ci[x] # NULL /\ x \notin X
        <5>1. ci'[x] = WithoutNick(ci[x], n)
          BY <1>2, <4>3
        <5>2. ci'[x] # NULL
          <6>1. ci[x].founder = n => ci[x].successor # NULL
            BY <4>3 DEF Successor
          <6>2. RecOK(ci[x], cores) /\ cores \in SUBSET Core
            BY <4>3, TheRecord
          <6>3. RecOK(WithoutNick(ci[x], n), cores \ {n})
            BY <6>1, <6>2, WithoutNickKeeps
          <6> QED BY <5>1, <6>3, NullFacts DEF RecOK
        <5>3. Owner(x)' = IF ci[x].founder = n THEN ci[x].successor ELSE ci[x].founder
          BY <1>3, <4>3, <5>1, <5>2 DEF Owner
        <5>4. ci[x].founder = n <=> x \in Kept
          BY <2>2, <4>3
        <5> QED BY <1>4, <4>3, <5>3, <5>4 DEF Owned, Owner
      <4> QED BY <4>1, <4>2, <4>3
    <3>2. Owned(m)' \subseteq Channel /\ Owned(m) \subseteq Channel /\ Heired(m) \subseteq Channel
      BY <2>2 DEF Owned
    <3> QED BY <3>1, <3>2
  <2>4. IsFiniteSet(Heired(m)) /\ Cardinality(Heired(m)) \in Nat
    <3>1. IsFiniteSet(Heired(m))
      BY <2>2, SetsAreFinite, FS_Subset
    <3> QED BY <3>1, FS_CardinalityType
  <2>5. Owned(m) \cap Heired(m) = {}
    BY <1>4, <2>2 DEF Owned, Owner
  <2>6. Cardinality(Owned(m) \cup Heired(m)) = Cardinality(Owned(m)) + Cardinality(Heired(m))
    <3> HIDE DEF Heired
    <3>1. Cardinality(Owned(m) \cup Heired(m)) =
             Cardinality(Owned(m)) + Cardinality(Heired(m)) - Cardinality({})
      BY <2>4, <2>5, OwnedFinite, FS_Union
    <3> QED BY <2>1, <2>4, <3>1, FS_EmptySet
  <2>7. count'[m] = count[m] + Cardinality(Heired(m))
    BY <1>2, <1>4, <2>1
  <2>8. MayOwn(count'[m])
    <3> SUFFICES ASSUME ChannelMax > 0, Admin = {} PROVE count'[m] <= ChannelMax
      BY DEF MayOwn
    <3> DEFINE Mine == {x \in Channel : Successor(x, n) /\ ci[x].successor = m}
    <3>1. Transferred(m, n, Kept)
      BY <1>1, <2>1
    <3>2. Cardinality(Mine \cap Kept) =
            IF Cardinality(Mine) < Room(m) THEN Cardinality(Mine) ELSE Room(m)
      BY <3>1 DEF Transferred
    <3>3. Mine \cap Kept = Heired(m)
      BY <2>2
    <3>4. Cardinality(Mine) \in Nat
      <4>1. IsFiniteSet(Mine)
        BY SetsAreFinite, FS_Subset
      <4> QED BY <4>1, FS_CardinalityType
    <3> HIDE DEF Mine, Heired
    <3>5. Cardinality(Heired(m)) <= Room(m)
      <4>1. Room(m) \in Nat
        BY <2>1 DEF Room
      <4> QED BY <3>2, <3>3, <3>4, <4>1
    <3>6. count[m] <= ChannelMax
      BY <2>1 DEF MayOwn
    <3> QED BY <2>1, <2>4, <2>7, <3>5, <3>6 DEF Room
  <2> HIDE DEF Heired
  <2> QED BY <2>1, <2>3, <2>6, <2>7, <2>8 DEF CountOK, MayOwn
<1> QED BY <1>2, <1>4, SavedFrame DEF Counted

LEMMA SaveCounted ==
  ASSUME IInv, Counted, Together, NEW chans \in BOOLEAN, Save(chans)
  PROVE  Counted'
<1>1. /\ disk' = [nick |-> [n \in Core |-> IF n \in cores THEN count[n] ELSE NULL],
                  chan |-> ci]
      /\ UNCHANGED <<cores, ci, count>>
  BY DEF Save, Together
<1>2. \A n : Owned(n)' = Owned(n)
  BY <1>1 DEF Owned, Owner
<1>3. ASSUME NEW n \in Core, (disk.nick[n])' # NULL PROVE SavedOK(n)'
  <2>1. n \in cores /\ (disk.nick[n])' = count[n] /\ disk'.chan = ci
    BY <1>1, <1>3
  <2>2. Saved(n)' = Owned(n)
    BY <2>1, NullFacts DEF Saved, Owned, Owner
  <2> QED BY <2>1, <2>2 DEF SavedOK, Counted, CountOK, MayOwn
<1>4. \A n \in cores' : CountOK(n)'
  BY <1>1, <1>2 DEF Counted, CountOK, MayOwn
<1> QED BY <1>3, <1>4 DEF Counted

LEMMA LoadedFounder ==
  ASSUME NEW r, r # NULL => RecOK(r, Core), NEW G \in SUBSET Core, NEW b \in BOOLEAN,
         NEW n \in G
  PROVE  (r # NULL /\ r.founder = n) <=>
           (Loaded(r, G, b) # NULL /\ Loaded(r, G, b).founder = n)
<1>1. CASE r = NULL \/ (r.founder \notin G /\ ~Is(r, "VERBOTEN"))
  BY <1>1 DEF Loaded
<1>2. CASE r # NULL /\ (r.founder \in G \/ Is(r, "VERBOTEN"))
  <2> DEFINE f == IF r.founder \in G THEN r.founder ELSE NULL
             h == IF r.successor \in G THEN r.successor ELSE NULL
             a == [m \in Core |-> IF m \in G THEN r.access[m] ELSE 0]
             s == [r EXCEPT !.founder = f, !.successor = h, !.access = a, !.junk = 0,
                            !.c = b]
  <2>1. r \in ChannelInfo /\ Loaded(r, G, b) = s
    BY <1>2 DEF Loaded, RecOK
  <2>2. f = n <=> r.founder = n
    BY NullFacts
  <2>3. f \in Core \cup {NULL} /\ h \in Core \cup {NULL} /\ a \in [Core -> Entry]
    BY <2>1 DEF ChannelInfo, Entry
  <2> HIDE DEF f, h, a
  <2>4. s \in ChannelInfo /\ s.founder = f
    BY <2>1, <2>3 DEF ChannelInfo
  <2> HIDE DEF s
  <2> QED BY <1>2, <2>1, <2>2, <2>4, NullFacts
<1> QED BY <1>1, <1>2

LEMMA RestartCounted == ASSUME IInv, Counted, Restart PROVE Counted'
<1> DEFINE G == {n \in Core : disk.nick[n] # NULL}
           L(x) == Loaded(disk.chan[x], G, x \in occupied)
<1>1. /\ cores' = G /\ disk' = disk
      /\ count' = [n \in Core |-> IF n \in G THEN disk.nick[n] ELSE 0]
      /\ ci' = [x \in Channel |-> L(x)]
  BY DEF Restart
<1>2. G \in SUBSET Core /\ \A n \in G : SavedOK(n)
  BY DEF Counted
<1> HIDE DEF G
<1>3. ASSUME NEW n \in G PROVE CountOK(n)'
  <2>1. ASSUME NEW x \in Channel
        PROVE  (disk.chan[x] # NULL /\ disk.chan[x].founder = n) <=> Owner(x)' = n
    <3> DEFINE r == disk.chan[x]
               b == x \in occupied
    <3>1. b \in BOOLEAN /\ L(x) = Loaded(r, G, b) /\ (r # NULL => RecOK(r, Core))
      BY DEF IInv, Disk
    <3>2. ci'[x] = L(x)
      BY <1>1
    <3> HIDE DEF r, b, L
    <3>3. (r # NULL /\ r.founder = n) <=> (L(x) # NULL /\ L(x).founder = n)
      BY <1>2, <3>1, LoadedFounder
    <3>4. Owner(x)' = IF L(x) = NULL THEN NULL ELSE L(x).founder
      BY <3>2 DEF Owner
    <3>5. n # NULL
      BY <1>2, NullFacts
    <3> QED BY <3>3, <3>4, <3>5 DEF r
  <2>2. Owned(n)' = Saved(n)
    BY <2>1 DEF Owned, Saved
  <2>3. count'[n] = disk.nick[n]
    BY <1>1, <1>2
  <2> QED BY <1>2, <2>2, <2>3 DEF CountOK, SavedOK, MayOwn
<1> QED BY <1>1, <1>3, SavedFrame DEF Counted

LEMMA CommandCounted == ASSUME IInv, Counted, Command PROVE Counted'
<1>1. PICK u \in User, x \in Channel :
        \/ \E n \in Core, id \in Id : Register(u, x, n, id)
        \/ \E id \in Id : Forbid(u, x, id) \/ Suspend(u, x, id)
        \/ Drop(u, x) \/ Info(x)
        \/ NotRegistered(u, x) \/ SetFounderCrashes(u, x)
        \/ \E n \in Core : SetFounder(u, x, n)
        \/ Plain(u, x)
  BY DEF Command, Plain
<1>2. CASE \E id \in Id : Forbid(u, x, id) \/ Suspend(u, x, id)
  BY <1>2, ForbidCounted, SuspendCounted
<1>3. CASE \E n \in Core : SetFounder(u, x, n) \/ \E id \in Id : Register(u, x, n, id)
  BY <1>3, RegisterCounted, SetFounderCounted
<1>4. CASE Plain(u, x)
  BY <1>4, PlainIsMinor, MinorCounted
<1>5. CASE Drop(u, x) \/ Info(x)
  <2>1. DelChans({x}) /\ {x} \in SUBSET Channel /\ UNCHANGED <<cores, disk>>
    BY <1>5 DEF Drop, Info
  <2> QED BY <2>1, DelChansCounted
<1>6. CASE NotRegistered(u, x) \/ SetFounderCrashes(u, x)
  BY <1>6, CiFrame DEF NotRegistered, SetFounderCrashes, Crash
<1> QED BY <1>1, <1>2, <1>3, <1>4, <1>5, <1>6

LEMMA NextCounted == ASSUME IInv, Counted, Together, [Next]_vars PROVE Counted'
<1>1. CASE World
  <2>1. ASSUME NEW u \in User, Quit(u) \/ \E n \in Core : Login(u, n) PROVE Counted'
    BY <2>1, CiFrame DEF Quit, Login
  <2>2. ASSUME NEW x \in Channel, Part(x) PROVE Counted'
    BY <2>2, CiFrame DEF Part
  <2> QED BY <1>1, <2>1, <2>2, RegisterNickCounted, RemoveNickCounted, JoinCounted DEF World
<1>2. CASE ExpireChans
  <2> DEFINE X == {x \in Channel : ci[x] # NULL /\ ~ci[x].c /\ Expirable(ci[x])}
  <2>1. DelChans(X) /\ X \in SUBSET Channel /\ UNCHANGED <<cores, disk>>
    BY <1>2 DEF ExpireChans
  <2> HIDE DEF X
  <2> QED BY <2>1, DelChansCounted
<1>3. CASE SaveCrashes \/ Stop \/ Tick \/ UNCHANGED vars
  BY <1>3, CiFrame DEF SaveCrashes, Crash, Stop, Tick, vars
<1> QED BY <1>1, <1>2, <1>3, CommandCounted, SaveCounted, RestartCounted DEF Next, Program

LEMMA InitCounted == Init => Counted
<1> SUFFICES ASSUME Init PROVE Counted
  OBVIOUS
<1>1. \A n \in Core : Owned(n) = {} /\ Saved(n) = {}
  BY NullFacts DEF Init, Owned, Owner, Saved
<1>2. Cardinality({}) = 0 /\ MayOwn(0)
  BY FS_EmptySet, NumbersAreNat DEF MayOwn
<1>3. \A n \in cores : n \in Core /\ count[n] = 0
  BY StartAreCores DEF Init, Nothing
<1>4. \A n \in Core : disk.nick[n] # NULL => disk.nick[n] = 0
  BY DEF Init
<1> QED BY <1>1, <1>2, <1>3, <1>4 DEF Counted, CountOK, SavedOK

LEMMA AlwaysCounted == ASSUME Together PROVE Spec => []Counted
<1>1. IInv /\ Counted /\ [Next]_vars => Counted'
  BY NextCounted
<1> QED BY <1>1, InitCounted, Invariance, PTL DEF Spec

\* Where the two databases are written together, channelcount is the number of
\* channels a group founded: through registering, FOUNDER, inheritance, drops,
\* FCHAN, expiry, and after a restart from the files.
THEOREM CountsAreRight == ASSUME Together PROVE Spec => []CountsRight
<1>1. IInv /\ Counted => CountsRight
  BY FoundedIsOwned DEF IInv, Rest, Counted, CountOK, CountsRight, Owned
<1> QED BY <1>1, Invariance, AlwaysCounted, PTL

\* The same where there are no services admins: nobody comes to own more
\* channels than he may have, however the ways to get one are combined.
THEOREM LimitIsKept == ASSUME Together PROVE Spec => []LimitKept
<1>1. IInv /\ Counted => LimitKept
  BY FoundedIsOwned DEF IInv, Rest, Counted, CountOK, MayOwn, LimitKept, Owned
<1> QED BY <1>1, Invariance, AlwaysCounted, PTL
================================================================================
