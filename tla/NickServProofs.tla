---------------------------- MODULE NickServProofs ----------------------------
(***************************************************************************)
(* Proofs about NickServ for any users, nicks, addresses and delays, and   *)
(* whichever of the troublesome sequences happen.                          *)
(*                                                                         *)
(* A handler is a composition of routines on the database record, so the   *)
(* invariant is stated of a record, each routine is shown to preserve it,  *)
(* and an action follows from the routines it is composed of.  Good and    *)
(* Sound hold whatever happens; the invariants of the second half (links,  *)
(* timeouts and enforcers of a nick, identified and forbidden nicks) need  *)
(* them, and some hold where a sequence that breaks them is left out.      *)
(***************************************************************************)
EXTENDS NickServ, TLAPS

Fields == {"nalists", "alias", "una", "timer", "my", "enf"}

\* s is a database whose private list is sound.
Sound(s) ==
    /\ DOMAIN s = Fields
    /\ s.timer \in [Timer -> TimerRec \cup {NULL}]
    /\ s.my \subseteq [na: Alias, kind: Kind, to: Timer]
    /\ \A m \in s.my :
          /\ s.timer[m.to] # NULL
          /\ s.timer[m.to].na = m.na
          /\ s.timer[m.to].kind = m.kind
    /\ \A m, k \in s.my : m.to = k.to => m = k

-----------------------------------------------------------------------------
(* The routines.                                                           *)

LEMMA SameTimers ==
  ASSUME NEW s, NEW s1, Sound(s), DOMAIN s1 = Fields,
         s1.timer = s.timer, s1.my = s.my
  PROVE  Sound(s1)
  BY DEF Sound

LEMMA SetStatusSound ==
  ASSUME NEW s, NEW a, NEW st, Sound(s)
  PROVE  /\ Sound(SetStatus(s, a, st))
         /\ SetStatus(s, a, st).timer = s.timer
         /\ SetStatus(s, a, st).my = s.my
<1>1. /\ DOMAIN SetStatus(s, a, st) = Fields
      /\ SetStatus(s, a, st).timer = s.timer
      /\ SetStatus(s, a, st).my = s.my
  BY DEF SetStatus, Sound, Fields
<1> QED BY <1>1, SameTimers

LEMMA ForgetSound ==
  ASSUME NEW s, NEW gone, Sound(s), gone \subseteq s.my
  PROVE  Sound(Forget(s, gone))
<1> DEFINE s1 == Forget(s, gone)
<1>1. /\ DOMAIN s1 = Fields
      /\ s1.my = s.my \ gone
      /\ s1.timer = [x \in Timer |-> IF \E m \in gone : m.to = x THEN NULL ELSE s.timer[x]]
  BY DEF Forget, Sound, Fields
<1>2. s1.timer \in [Timer -> TimerRec \cup {NULL}]
  BY <1>1 DEF Sound
<1>3. ASSUME NEW m \in s1.my
      PROVE  s1.timer[m.to] = s.timer[m.to]
  <2>1. m \in s.my /\ m \notin gone /\ m.to \in Timer
    BY <1>1, <1>3 DEF Sound
  <2>2. ~ \E k \in gone : k.to = m.to
    BY <2>1 DEF Sound
  <2> QED BY <1>1, <2>1, <2>2
<1> HIDE DEF s1
<1>4. s1.my \subseteq s.my
  BY <1>1
<1>5. \A m \in s1.my :
         /\ s1.timer[m.to] # NULL
         /\ s1.timer[m.to].na = m.na
         /\ s1.timer[m.to].kind = m.kind
  BY <1>3, <1>4 DEF Sound
<1>6. /\ s1.my \subseteq [na: Alias, kind: Kind, to: Timer]
      /\ \A m, k \in s1.my : m.to = k.to => m = k
  BY <1>4 DEF Sound
<1>7. Sound(s1)
  BY <1>1, <1>2, <1>5, <1>6 DEF Sound
<1> QED BY <1>7 DEF s1

LEMMA DelNsTimeoutSound ==
  ASSUME NEW s, NEW a, NEW kind, Sound(s)
  PROVE  Sound(DelNsTimeout(s, a, kind))
  BY ForgetSound DEF DelNsTimeout

LEMMA RemNsTimeoutSound ==
  ASSUME NEW s, NEW a, NEW kind, Sound(s)
  PROVE  /\ Sound(RemNsTimeout(s, a, kind))
         /\ RemNsTimeout(s, a, kind).timer = s.timer
         /\ RemNsTimeout(s, a, kind).my = {m \in s.my : ~(m.na = a /\ m.kind = kind)}
<1>1. /\ DOMAIN RemNsTimeout(s, a, kind) = Fields
      /\ RemNsTimeout(s, a, kind).timer = s.timer
      /\ RemNsTimeout(s, a, kind).my = {m \in s.my : ~(m.na = a /\ m.kind = kind)}
  BY DEF RemNsTimeout, Sound, Fields
<1> QED BY <1>1 DEF Sound

LEMMA AddNsTimeoutSound ==
  ASSUME NEW s, NEW a \in Alias, NEW kind \in Kind, NEW delay \in Nat, NEW x \in Timer,
         Sound(s), s.timer[x] = NULL, now \in Nat
  PROVE  Sound(AddNsTimeout(s, a, kind, delay, x))
<1> DEFINE s1 == AddNsTimeout(s, a, kind, delay, x)
           r == [due |-> now + delay, set |-> now, na |-> a, kind |-> kind]
           e == [na |-> a, kind |-> kind, to |-> x]
<1>1. /\ DOMAIN s1 = Fields
      /\ s1.timer = [s.timer EXCEPT ![x] = r]
      /\ s1.my = s.my \cup {e}
  BY DEF AddNsTimeout, Sound, Fields
<1>2. r \in TimerRec /\ r # NULL /\ r.na = a /\ r.kind = kind
  BY NullIsNothing DEF TimerRec
<1>3. e \in [na: Alias, kind: Kind, to: Timer] /\ e.na = a /\ e.kind = kind /\ e.to = x
  OBVIOUS
<1>4. s1.timer[x] = r /\ \A y \in Timer : y # x => s1.timer[y] = s.timer[y]
  BY <1>1 DEF Sound
<1>5. \A m \in s.my : m.to \in Timer /\ m.to # x
  BY DEF Sound
<1>6. s1.timer \in [Timer -> TimerRec \cup {NULL}]
  BY <1>1, <1>2 DEF Sound
<1> HIDE DEF s1, r, e
<1>7. ASSUME NEW m \in s1.my
      PROVE  /\ m \in [na: Alias, kind: Kind, to: Timer]
             /\ s1.timer[m.to] # NULL
             /\ s1.timer[m.to].na = m.na
             /\ s1.timer[m.to].kind = m.kind
  <2>1. CASE m = e
    BY <2>1, <1>2, <1>3, <1>4
  <2>2. CASE m \in s.my
    BY <2>2, <1>4, <1>5 DEF Sound
  <2> QED BY <1>1, <2>1, <2>2
<1>8. \A m, k \in s1.my : m.to = k.to => m = k
  BY <1>1, <1>3, <1>5 DEF Sound
<1>9. Sound(s1)
  BY <1>1, <1>6, <1>7, <1>8 DEF Sound
<1> QED BY <1>9 DEF s1

LEMMA CollideSound ==
  ASSUME NEW s, NEW a, NEW fromTimeout \in BOOLEAN, Sound(s)
  PROVE  Sound(Collide(s, a, fromTimeout))
  BY DelNsTimeoutSound, SetStatusSound DEF Collide

LEMMA ReleaseSound ==
  ASSUME NEW s, NEW a, NEW fromTimeout \in BOOLEAN, Sound(s)
  PROVE  /\ Sound(Release(s, a, fromTimeout))
         /\ fromTimeout => /\ Release(s, a, fromTimeout).my = s.my
                           /\ Release(s, a, fromTimeout).timer = s.timer
<1> DEFINE s1 == IF fromTimeout THEN s ELSE DelNsTimeout(s, a, "release")
           s2 == SetStatus(s1, a, s1.alias[a].st \ {"KILL_HELD"})
           s3 == [s2 EXCEPT !.enf = @ \ {s1.alias[a].nick}]
<1>1. Sound(s1)
  BY DelNsTimeoutSound
<1>2. Sound(s2) /\ s2.my = s1.my /\ s2.timer = s1.timer
  BY <1>1, SetStatusSound
<1> HIDE DEF s2
<1>3. DOMAIN s3 = Fields /\ s3.my = s2.my /\ s3.timer = s2.timer
  BY <1>2 DEF Sound, Fields
<1>4. Sound(s3)
  BY <1>2, <1>3, SameTimers
<1>5. Release(s, a, fromTimeout) = s3
  BY DEF Release, s2
<1> HIDE DEF s3
<1> QED BY <1>2, <1>3, <1>4, <1>5

LEMMA CancelUserSound ==
  ASSUME NEW s, NEW u \in User, NEW x \in Timer, Sound(s), s.timer[x] = NULL,
         s.una[u] \in Alias \cup {NULL}, now \in Nat
  PROVE  Sound(CancelUser(s, u, x))
<1> DEFINE a == s.una[u]
           h == AddNsTimeout(s, a, "release", ReleaseDelay, x)
           held == [h EXCEPT !.enf = @ \cup {s.alias[a].nick},
                             !.alias[a].st = (@ \ Temporary) \cup {"KILL_HELD"}]
           left == SetStatus(s, a, s.alias[a].st \ Temporary)
<1>1. CASE a = NULL
  BY <1>1 DEF CancelUser
<1>2. CASE a # NULL
  <2>1. Sound(h)
    BY <1>2, AddNsTimeoutSound, DelaysAreNat DEF Kind
  <2> HIDE DEF h
  <2>2. DOMAIN held = Fields /\ held.my = h.my /\ held.timer = h.timer
    BY <2>1 DEF Sound, Fields
  <2>3. Sound(held)
    BY <2>1, <2>2, SameTimers
  <2>4. Sound(left)
    BY SetStatusSound
  <2>5. CancelUser(s, u, x)
          = DelNsTimeout(IF Has(s, a, "GUESTED") THEN held ELSE left, a, "collide")
    BY <1>2 DEF CancelUser, h
  <2> HIDE DEF held, left
  <2> QED BY <2>3, <2>4, <2>5, DelNsTimeoutSound
<1> QED BY <1>1, <1>2

LEMMA ValidateUserSound ==
  ASSUME NEW s, NEW u \in User, NEW v \in Verdict, NEW x \in Timer, Sound(s),
         s.timer[x] = NULL, s.una[u] \in Alias \cup {NULL}, now \in Nat
  PROVE  Sound(ValidateUser(s, u, v, x))
<1> DEFINE a == s.una[u]
<1>1. CASE a = NULL
  BY <1>1 DEF ValidateUser
<1>2. CASE a # NULL /\ Has(s, a, "VERBOTEN")
  BY <1>2, CollideSound DEF ValidateUser
<1>3. CASE a # NULL /\ ~Has(s, a, "VERBOTEN")
  <2>1. a \in Alias /\ {"collide", "release"} = Kind
    BY <1>3 DEF Kind
  <2>2. CASE v = "recognized"
    BY <1>3, <2>2, SetStatusSound DEF ValidateUser
  <2>3. CASE v = "immed"
    BY <1>3, <2>3, CollideSound DEF ValidateUser
  <2>4. CASE v = "quick"
    BY <1>3, <2>1, <2>4, AddNsTimeoutSound, DelaysAreNat DEF ValidateUser
  <2>5. CASE v = "slow"
    BY <1>3, <2>1, <2>5, AddNsTimeoutSound, DelaysAreNat DEF ValidateUser
  <2>6. CASE v = "unprotected"
    BY <1>3, <2>6 DEF ValidateUser
  <2> QED BY <2>2, <2>3, <2>4, <2>5, <2>6 DEF Verdict
<1> QED BY <1>1, <1>2, <1>3

LEMMA LinkSound ==
  ASSUME NEW s, NEW u, NEW a, Sound(s)
  PROVE  /\ Sound(Link(s, u, a)) /\ Link(s, u, a).timer = s.timer
         /\ Sound(Unlink(s, u)) /\ Unlink(s, u).timer = s.timer
<1>1. /\ DOMAIN Link(s, u, a) = Fields
      /\ Link(s, u, a).timer = s.timer
      /\ Link(s, u, a).my = s.my
  BY DEF Link, Sound, Fields
<1>2. /\ DOMAIN Unlink(s, u) = Fields
      /\ Unlink(s, u).timer = s.timer
      /\ Unlink(s, u).my = s.my
  BY DEF Unlink, Sound, Fields
<1> QED BY <1>1, <1>2, SameTimers

LEMMA MakeAliasSound ==
  ASSUME NEW s, NEW b, NEW n, NEW c, NEW st, Sound(s)
  PROVE  Sound(MakeAlias(s, b, n, c, st))
<1>1. /\ DOMAIN MakeAlias(s, b, n, c, st) = Fields
      /\ MakeAlias(s, b, n, c, st).timer = s.timer
      /\ MakeAlias(s, b, n, c, st).my = s.my
  BY DEF MakeAlias, Sound, Fields
<1> QED BY <1>1, SameTimers

LEMMA DelNickSound ==
  ASSUME NEW s, NEW a, Sound(s)
  PROVE  Sound(DelNick(s, a))
<1> DEFINE mine == {m \in s.my : m.na = a}
           s0 == IF \E m \in mine : m.kind = "release" THEN Release(s, a, TRUE) ELSE s
           s1 == CleanNsTimeouts(s, a)
           s2 == IF s1.alias[a].u = NULL THEN s1
                 ELSE [s1 EXCEPT !.una[s1.alias[a].u] = NULL]
<1>1. Sound(s0) /\ s0.my = s.my
  BY ReleaseSound
<1>2. Sound(s1)
  <2> HIDE DEF s0
  <2>1. Sound(Forget(s0, mine))
    BY <1>1, ForgetSound
  <2> QED BY <2>1 DEF CleanNsTimeouts, s0
<1> HIDE DEF s1
<1>3. Sound(s2)
  <2>1. DOMAIN s2 = Fields /\ s2.timer = s1.timer /\ s2.my = s1.my
    BY <1>2 DEF Sound, Fields
  <2> QED BY <1>2, <2>1, SameTimers
<1> HIDE DEF s2
<1>4. Sound(RemoveAlias(s2, a))
  <2>1. /\ DOMAIN RemoveAlias(s2, a) = Fields
        /\ RemoveAlias(s2, a).timer = s2.timer
        /\ RemoveAlias(s2, a).my = s2.my
    BY <1>3 DEF RemoveAlias, Sound, Fields
  <2> QED BY <1>3, <2>1, SameTimers
<1> QED BY <1>4 DEF DelNick, s1, s2
-----------------------------------------------------------------------------
(* Types and links.  The routines about timeouts and status change neither *)
(* the alias lists nor who is linked to whom.                              *)

DB == [nalists: [Nick -> Alias \cup {NULL}],
       alias: [Alias -> AliasRec \cup {NULL}],
       una: [User -> Alias \cup {NULL}],
       timer: [Timer -> TimerRec \cup {NULL}],
       my: SUBSET [na: Alias, kind: Kind, to: Timer],
       enf: SUBSET Nick]

\* Same lists, same links; only the status of aliases may differ.
Keeps(s, s1) ==
    /\ s1.nalists = s.nalists
    /\ s1.una = s.una
    /\ \A p \in Alias :
          /\ s1.alias[p] = NULL <=> s.alias[p] = NULL
          /\ s.alias[p] # NULL =>
                /\ s1.alias[p].nick = s.alias[p].nick
                /\ s1.alias[p].u = s.alias[p].u
                /\ s1.alias[p].nc = s.alias[p].nc
                /\ s1.alias[p].next = s.alias[p].next

LEMMA KeepsTransitive ==
  ASSUME NEW s, NEW s1, NEW s2, Keeps(s, s1), Keeps(s1, s2)
  PROVE  Keeps(s, s2)
  BY DEF Keeps

LEMMA NullRec == \A r \in AliasRec : r # NULL
  BY NullIsNothing

LEMMA SetStatusKeeps ==
  ASSUME NEW s \in DB, NEW a \in Alias, NEW st \in SUBSET Status, s.alias[a] # NULL
  PROVE  /\ SetStatus(s, a, st) \in DB /\ Keeps(s, SetStatus(s, a, st))
<1> DEFINE s1 == SetStatus(s, a, st)
           r == [s.alias[a] EXCEPT !.st = st]
<1>1. s1 = [s EXCEPT !.alias = [s.alias EXCEPT ![a] = r]]
  BY DEF SetStatus, DB
<1>2. s.alias[a] \in AliasRec
  BY DEF DB
<1>3. r \in AliasRec /\ r.nick = s.alias[a].nick /\ r.u = s.alias[a].u
      /\ r.nc = s.alias[a].nc /\ r.next = s.alias[a].next
  BY <1>2 DEF AliasRec
<1>4. r # NULL
  BY <1>3, NullRec
<1> HIDE DEF r
<1>5. s1 \in DB
  BY <1>1, <1>3 DEF DB
<1>6. s1.nalists = s.nalists /\ s1.una = s.una
      /\ s1.alias = [s.alias EXCEPT ![a] = r]
  BY <1>1 DEF DB
<1> HIDE DEF s1
<1>7. Keeps(s, s1)
  BY <1>3, <1>4, <1>6 DEF Keeps, DB
<1> QED BY <1>5, <1>7 DEF s1

LEMMA TimersKeep ==
  ASSUME NEW s \in DB, NEW s1 \in DB,
         s1.nalists = s.nalists, s1.una = s.una, s1.alias = s.alias
  PROVE  Keeps(s, s1)
  BY DEF Keeps

LEMMA ForgetKeeps ==
  ASSUME NEW s \in DB, NEW gone
  PROVE  Forget(s, gone) \in DB /\ Keeps(s, Forget(s, gone))
<1> DEFINE s1 == Forget(s, gone)
           tm == [x \in Timer |-> IF \E m \in gone : m.to = x THEN NULL ELSE s.timer[x]]
<1>1. s1 = [s EXCEPT !.my = s.my \ gone, !.timer = tm]
  BY DEF Forget, DB
<1>2. tm \in [Timer -> TimerRec \cup {NULL}]
  BY DEF DB
<1> HIDE DEF tm
<1>3. s1 \in DB
  BY <1>1, <1>2 DEF DB
<1>4. s1.nalists = s.nalists /\ s1.una = s.una /\ s1.alias = s.alias
  BY <1>1 DEF DB
<1> QED BY <1>3, <1>4, TimersKeep

LEMMA DelNsTimeoutKeeps ==
  ASSUME NEW s \in DB, NEW a, NEW kind
  PROVE  DelNsTimeout(s, a, kind) \in DB /\ Keeps(s, DelNsTimeout(s, a, kind))
  BY ForgetKeeps DEF DelNsTimeout

LEMMA RemNsTimeoutKeeps ==
  ASSUME NEW s \in DB, NEW a, NEW kind
  PROVE  RemNsTimeout(s, a, kind) \in DB /\ Keeps(s, RemNsTimeout(s, a, kind))
<1> DEFINE s1 == RemNsTimeout(s, a, kind)
           rest == {m \in s.my : ~(m.na = a /\ m.kind = kind)}
<1>0. s1 = [s EXCEPT !.my = rest] /\ rest \in SUBSET [na: Alias, kind: Kind, to: Timer]
  BY DEF RemNsTimeout, DB
<1> HIDE DEF s1, rest
<1>1. s1 \in DB
  BY <1>0 DEF DB
<1>2. s1.nalists = s.nalists /\ s1.una = s.una /\ s1.alias = s.alias
  BY <1>0 DEF DB
<1>3. s1 = RemNsTimeout(s, a, kind)
  BY DEF s1
<1> QED BY <1>1, <1>2, <1>3, TimersKeep

LEMMA AddNsTimeoutKeeps ==
  ASSUME NEW s \in DB, NEW a \in Alias, NEW kind \in Kind, NEW delay \in Nat,
         NEW x \in Timer, now \in Nat
  PROVE  /\ AddNsTimeout(s, a, kind, delay, x) \in DB
         /\ Keeps(s, AddNsTimeout(s, a, kind, delay, x))
<1> DEFINE s1 == AddNsTimeout(s, a, kind, delay, x)
           r == [due |-> now + delay, set |-> now, na |-> a, kind |-> kind]
           e == [na |-> a, kind |-> kind, to |-> x]
           tm == [s.timer EXCEPT ![x] = r]
           my == s.my \cup {e}
<1>1. s1 = [s EXCEPT !.timer = tm, !.my = my]
  BY DEF AddNsTimeout, DB
<1>2. /\ tm \in [Timer -> TimerRec \cup {NULL}]
      /\ my \in SUBSET [na: Alias, kind: Kind, to: Timer]
  BY DEF TimerRec, DB
<1> HIDE DEF tm, my
<1>3. s1 \in DB
  BY <1>1, <1>2 DEF DB
<1>4. s1.nalists = s.nalists /\ s1.una = s.una /\ s1.alias = s.alias
  BY <1>1 DEF DB
<1> QED BY <1>3, <1>4, TimersKeep

LEMMA EnfKeeps ==
  ASSUME NEW s \in DB, NEW e \in SUBSET Nick
  PROVE  [s EXCEPT !.enf = e] \in DB /\ Keeps(s, [s EXCEPT !.enf = e])
<1>1. [s EXCEPT !.enf = e] \in DB
  BY DEF DB
<1> QED BY <1>1, TimersKeep DEF DB

LEMMA CollideKeeps ==
  ASSUME NEW s \in DB, NEW a \in Alias, NEW fromTimeout \in BOOLEAN, s.alias[a] # NULL
  PROVE  Collide(s, a, fromTimeout) \in DB /\ Keeps(s, Collide(s, a, fromTimeout))
<1> DEFINE s1 == IF fromTimeout THEN s ELSE DelNsTimeout(s, a, "collide")
<1>1. s1 \in DB /\ Keeps(s, s1)
  BY DelNsTimeoutKeeps DEF Keeps
<1>2. Collide(s, a, fromTimeout) = SetStatus(s1, a, s1.alias[a].st \cup {"GUESTED"})
  BY DEF Collide
<1> HIDE DEF s1
<1>3. s1.alias[a] # NULL /\ s1.alias[a] \in AliasRec
  BY <1>1 DEF Keeps, DB
<1>4. s1.alias[a].st \cup {"GUESTED"} \in SUBSET Status
  BY <1>3 DEF AliasRec, Status, Temporary
<1>5. /\ SetStatus(s1, a, s1.alias[a].st \cup {"GUESTED"}) \in DB
      /\ Keeps(s1, SetStatus(s1, a, s1.alias[a].st \cup {"GUESTED"}))
  BY <1>1, <1>3, <1>4, SetStatusKeeps
<1> QED BY <1>1, <1>2, <1>5, KeepsTransitive

LEMMA ReleaseKeeps ==
  ASSUME NEW s \in DB, NEW a \in Alias, NEW fromTimeout \in BOOLEAN, s.alias[a] # NULL
  PROVE  Release(s, a, fromTimeout) \in DB /\ Keeps(s, Release(s, a, fromTimeout))
<1> DEFINE s1 == IF fromTimeout THEN s ELSE DelNsTimeout(s, a, "release")
           s2 == SetStatus(s1, a, s1.alias[a].st \ {"KILL_HELD"})
           e == s2.enf \ {s1.alias[a].nick}
<1>1. s1 \in DB /\ Keeps(s, s1)
  BY DelNsTimeoutKeeps DEF Keeps
<1>2. Release(s, a, fromTimeout) = [s2 EXCEPT !.enf = @ \ {s1.alias[a].nick}]
  BY DEF Release
<1> HIDE DEF s1
<1>3. s1.alias[a] # NULL /\ s1.alias[a] \in AliasRec
  BY <1>1 DEF Keeps, DB
<1>4. s1.alias[a].st \ {"KILL_HELD"} \in SUBSET Status
  BY <1>3 DEF AliasRec
<1>5. s2 \in DB /\ Keeps(s1, s2)
  BY <1>1, <1>3, <1>4, SetStatusKeeps
<1> HIDE DEF s2
<1>6. e \in SUBSET Nick
  BY <1>5 DEF DB
<1>7. Release(s, a, fromTimeout) = [s2 EXCEPT !.enf = e]
  BY <1>2, <1>5 DEF DB
<1> HIDE DEF e
<1>8. [s2 EXCEPT !.enf = e] \in DB /\ Keeps(s2, [s2 EXCEPT !.enf = e])
  BY <1>5, <1>6, EnfKeeps
<1> QED BY <1>1, <1>5, <1>7, <1>8, KeepsTransitive

LEMMA CancelUserKeeps ==
  ASSUME NEW s \in DB, NEW u \in User, NEW x \in Timer, now \in Nat,
         s.una[u] # NULL => s.alias[s.una[u]] # NULL
  PROVE  CancelUser(s, u, x) \in DB /\ Keeps(s, CancelUser(s, u, x))
<1> DEFINE a == s.una[u]
           h == AddNsTimeout(s, a, "release", ReleaseDelay, x)
           k == SetStatus(h, a, (h.alias[a].st \ Temporary) \cup {"KILL_HELD"})
           e == h.enf \cup {s.alias[a].nick}
           held == [h EXCEPT !.enf = @ \cup {s.alias[a].nick},
                             !.alias[a].st = (@ \ Temporary) \cup {"KILL_HELD"}]
           left == SetStatus(s, a, s.alias[a].st \ Temporary)
<1>1. CASE a = NULL
  BY <1>1 DEF CancelUser, Keeps
<1>2. CASE a # NULL
  <2>1. a \in Alias /\ s.alias[a] # NULL /\ s.alias[a] \in AliasRec
    BY <1>2 DEF DB
  <2>2. h \in DB /\ Keeps(s, h)
    BY <2>1, AddNsTimeoutKeeps, DelaysAreNat DEF Kind
  <2>3. left \in DB /\ Keeps(s, left)
    BY <2>1, SetStatusKeeps DEF AliasRec
  <2>4. CancelUser(s, u, x)
          = DelNsTimeout(IF Has(s, a, "GUESTED") THEN held ELSE left, a, "collide")
    BY <1>2 DEF CancelUser
  <2> HIDE DEF h, left
  <2>5. h.alias[a] # NULL /\ h.alias[a] \in AliasRec
    BY <2>1, <2>2 DEF Keeps, DB
  <2>6. k \in DB /\ Keeps(h, k)
    <3>1. (h.alias[a].st \ Temporary) \cup {"KILL_HELD"} \in SUBSET Status
      BY <2>5 DEF AliasRec, Status, Temporary
    <3> QED BY <3>1, <2>1, <2>2, <2>5, SetStatusKeeps
  <2>7. e \in SUBSET Nick
    BY <2>1, <2>2 DEF DB, AliasRec
  <2>8. held = [k EXCEPT !.enf = e]
    BY <2>1, <2>2, <2>5 DEF DB, SetStatus, AliasRec
  <2> HIDE DEF k, e
  <2>9. held \in DB /\ Keeps(k, held)
    BY <2>6, <2>7, <2>8, EnfKeeps
  <2>10. Keeps(s, held)
    BY <2>2, <2>6, <2>9, KeepsTransitive
  <2> HIDE DEF held
  <2>11. ASSUME NEW d \in DB, Keeps(s, d)
         PROVE  /\ DelNsTimeout(d, a, "collide") \in DB
                /\ Keeps(s, DelNsTimeout(d, a, "collide"))
    BY <2>11, DelNsTimeoutKeeps, KeepsTransitive
  <2> QED BY <2>3, <2>4, <2>9, <2>10, <2>11
<1> QED BY <1>1, <1>2

LEMMA ValidateUserKeeps ==
  ASSUME NEW s \in DB, NEW u \in User, NEW v \in Verdict, NEW x \in Timer, now \in Nat,
         s.una[u] # NULL => s.alias[s.una[u]] # NULL
  PROVE  ValidateUser(s, u, v, x) \in DB /\ Keeps(s, ValidateUser(s, u, v, x))
<1> DEFINE a == s.una[u]
<1>1. CASE a = NULL
  BY <1>1 DEF ValidateUser, Keeps
<1>2. CASE a # NULL /\ Has(s, a, "VERBOTEN")
  <2>1. a \in Alias /\ s.alias[a] # NULL
    BY <1>2 DEF DB
  <2> QED BY <1>2, <2>1, CollideKeeps DEF ValidateUser
<1>3. CASE a # NULL /\ ~Has(s, a, "VERBOTEN")
  <2>1. a \in Alias /\ s.alias[a] # NULL /\ s.alias[a] \in AliasRec /\ "collide" \in Kind
    BY <1>3 DEF DB, Kind
  <2>2. CASE v = "recognized"
    <3>1. s.alias[a].st \cup {"RECOGNIZED"} \in SUBSET Status
      BY <2>1 DEF AliasRec, Status, Temporary, TransGroup
    <3>2. ValidateUser(s, u, v, x) = SetStatus(s, a, s.alias[a].st \cup {"RECOGNIZED"})
      BY <1>3, <2>2 DEF ValidateUser
    <3> QED BY <2>1, <3>1, <3>2, SetStatusKeeps
  <2>3. CASE v = "immed"
    BY <1>3, <2>1, <2>3, CollideKeeps DEF ValidateUser
  <2>4. CASE v = "quick"
    BY <1>3, <2>1, <2>4, AddNsTimeoutKeeps, DelaysAreNat DEF ValidateUser
  <2>5. CASE v = "slow"
    BY <1>3, <2>1, <2>5, AddNsTimeoutKeeps, DelaysAreNat DEF ValidateUser
  <2>6. CASE v = "unprotected"
    BY <1>3, <2>6 DEF ValidateUser, Keeps
  <2> QED BY <2>2, <2>3, <2>4, <2>5, <2>6 DEF Verdict
<1> QED BY <1>1, <1>2, <1>3
-----------------------------------------------------------------------------
(* The alias lists and the links.                                          *)

\* The lists lead to existing aliases of the right nick, and a user's alias
\* exists and is linked back to him.
Links(s) ==
    /\ \A n \in Nick :
          s.nalists[n] # NULL =>
            s.alias[s.nalists[n]] # NULL /\ s.alias[s.nalists[n]].nick = n
    /\ \A a \in Alias :
          (s.alias[a] # NULL /\ s.alias[a].next # NULL) =>
            /\ s.alias[s.alias[a].next] # NULL
            /\ s.alias[s.alias[a].next].nick = s.alias[a].nick
    /\ \A u \in User :
          s.una[u] # NULL => s.alias[s.una[u]] # NULL /\ s.alias[s.una[u]].u = u

\* The lists have no cycles.
RankedBy(s, f) ==
    \A a \in Alias :
        (s.alias[a] # NULL /\ s.alias[a].next # NULL) => f[s.alias[a].next] < f[a]
Ranked(s) == \E f \in [Alias -> Nat] : RankedBy(s, f)

\* A user's alias has the nick he uses.
NickLinks(s, nk) ==
    \A u \in User : s.una[u] # NULL => s.alias[s.una[u]].nick = nk[u]

Good(s, nk) ==
    /\ s \in DB
    /\ Links(s)
    /\ Ranked(s)
    /\ NickLinks(s, nk)

LEMMA KeepsGood ==
  ASSUME NEW s, NEW s1 \in DB, NEW nk, Good(s, nk), Keeps(s, s1)
  PROVE  Good(s1, nk)
<1>1. s \in DB /\ Links(s) /\ Ranked(s) /\ NickLinks(s, nk)
  BY DEF Good
<1>2. Links(s1)
  BY <1>1 DEF Links, Keeps, DB, AliasRec
<1>3. Ranked(s1)
  <2>1. PICK f \in [Alias -> Nat] : RankedBy(s, f)
    BY <1>1 DEF Ranked
  <2>2. RankedBy(s1, f)
    BY <2>1 DEF RankedBy, Keeps
  <2> QED BY <2>2 DEF Ranked
<1>4. NickLinks(s1, nk)
  BY <1>1 DEF NickLinks, Keeps, Links, DB
<1> QED BY <1>2, <1>3, <1>4 DEF Good

LEMMA UnlinkGood ==
  ASSUME NEW s, NEW nk, NEW u \in User, Good(s, nk)
  PROVE  /\ Good(Unlink(s, u), nk)
         /\ Unlink(s, u).una[u] = NULL
         /\ Unlink(s, u).nalists = s.nalists
         /\ \A w \in User : w # u => Unlink(s, u).una[w] = s.una[w]
         /\ \A p \in Alias :
               /\ Unlink(s, u).alias[p] = NULL <=> s.alias[p] = NULL
               /\ s.alias[p] # NULL =>
                     /\ Unlink(s, u).alias[p].nick = s.alias[p].nick
                     /\ Unlink(s, u).alias[p].st = s.alias[p].st
<1>1. s \in DB /\ Links(s) /\ Ranked(s) /\ NickLinks(s, nk)
  BY DEF Good
<1>2. CASE s.una[u] = NULL
  BY <1>2 DEF Unlink
<1>3. CASE s.una[u] # NULL
  <2> DEFINE a == s.una[u]
             r == [s.alias[a] EXCEPT !.u = NULL]
             al == [s.alias EXCEPT ![a] = r]
             un == [s.una EXCEPT ![u] = NULL]
             s1 == Unlink(s, u)
  <2>1. s1 = [s EXCEPT !.alias = al, !.una = un]
    BY <1>1, <1>3 DEF Unlink, DB
  <2>2. a \in Alias /\ s.alias[a] # NULL /\ s.alias[a] \in AliasRec /\ s.alias[a].u = u
    BY <1>1, <1>3 DEF DB, Links
  <2>3. r \in AliasRec /\ r.nick = s.alias[a].nick /\ r.st = s.alias[a].st
        /\ r.next = s.alias[a].next /\ r.u = NULL /\ r # NULL
    BY <2>2, NullRec DEF AliasRec
  <2> HIDE DEF r
  <2>4. al \in [Alias -> AliasRec \cup {NULL}] /\ al[a] = r
        /\ \A p \in Alias : p # a => al[p] = s.alias[p]
    BY <1>1, <2>2, <2>3 DEF DB
  <2>5. un \in [User -> Alias \cup {NULL}] /\ un[u] = NULL
        /\ \A w \in User : w # u => un[w] = s.una[w]
    BY <1>1 DEF DB
  <2> HIDE DEF al, un
  <2>6. s1 \in DB /\ s1.alias = al /\ s1.una = un /\ s1.nalists = s.nalists
    BY <1>1, <2>1, <2>4, <2>5 DEF DB
  <2> HIDE DEF s1
  <2>a. \A p \in Alias :
          /\ al[p] = NULL <=> s.alias[p] = NULL
          /\ s.alias[p] # NULL =>
                /\ al[p].nick = s.alias[p].nick
                /\ al[p].st = s.alias[p].st
                /\ al[p].next = s.alias[p].next
    BY <2>2, <2>3, <2>4
  <2>7. Links(s1)
    <3>1. \A w \in User : un[w] # NULL => w # u /\ s.una[w] = un[w] /\ un[w] # a
      BY <1>1, <2>2, <2>5 DEF Links
    <3>2. \A w \in User : un[w] # NULL => al[un[w]] # NULL /\ al[un[w]].u = w
      BY <1>1, <2>4, <2>5, <3>1 DEF Links
    <3>3. \A n \in Nick : s.nalists[n] # NULL =>
             al[s.nalists[n]] # NULL /\ al[s.nalists[n]].nick = n
      BY <1>1, <2>a DEF Links, DB
    <3>4. \A p \in Alias : (al[p] # NULL /\ al[p].next # NULL) =>
             al[al[p].next] # NULL /\ al[al[p].next].nick = al[p].nick
      <4> TAKE p \in Alias
      <4> HAVE al[p] # NULL /\ al[p].next # NULL
      <4>1. s.alias[p] # NULL /\ s.alias[p] \in AliasRec /\ al[p].next = s.alias[p].next
        BY <1>1, <2>a DEF DB
      <4>2. s.alias[p].next \in Alias
        BY <4>1 DEF AliasRec
      <4> QED BY <1>1, <2>a, <4>1, <4>2 DEF Links
    <3> QED BY <2>6, <3>2, <3>3, <3>4 DEF Links
  <2>8. Ranked(s1)
    <3>1. PICK f \in [Alias -> Nat] : RankedBy(s, f)
      BY <1>1 DEF Ranked
    <3>2. RankedBy(s1, f)
      BY <3>1, <2>a, <2>6 DEF RankedBy
    <3> QED BY <3>2 DEF Ranked
  <2>9. NickLinks(s1, nk)
    BY <1>1, <2>a, <2>5, <2>6 DEF NickLinks, DB, Links
  <2>10. Good(s1, nk)
    BY <2>6, <2>7, <2>8, <2>9 DEF Good
  <2> QED BY <2>10, <2>5, <2>6, <2>a DEF s1
<1> QED BY <1>2, <1>3

\* A nick somebody cares about is used by one user at a time.
Unique(nk) == \A u, w \in User : (nk[u] \in Nick /\ nk[u] = nk[w]) => u = w

LEMMA LinkGood ==
  ASSUME NEW s, NEW nk, NEW u \in User, NEW a \in Alias, Good(s, nk), Unique(nk),
         s.alias[a] # NULL, s.alias[a].nick = nk[u]
  PROVE  Good(Link(s, u, a), nk)
<1> DEFINE r == [s.alias[a] EXCEPT !.u = u]
           al == [s.alias EXCEPT ![a] = r]
           un == [s.una EXCEPT ![u] = a]
           s1 == Link(s, u, a)
<1>1. s \in DB /\ Links(s) /\ Ranked(s) /\ NickLinks(s, nk)
  BY DEF Good
<1>2. s.alias[a] \in AliasRec /\ a # NULL
  BY <1>1, NullIsNothing DEF DB
<1>3. s1 = [s EXCEPT !.alias = al, !.una = un]
  BY <1>1, <1>2 DEF Link, DB
<1>4. r \in AliasRec /\ r.nick = s.alias[a].nick /\ r.next = s.alias[a].next
      /\ r.u = u /\ r # NULL
  BY <1>2, NullRec DEF AliasRec
<1> HIDE DEF r
<1>5. al \in [Alias -> AliasRec \cup {NULL}] /\ al[a] = r
      /\ \A p \in Alias : p # a => al[p] = s.alias[p]
  BY <1>1, <1>4 DEF DB
<1>6. un \in [User -> Alias \cup {NULL}] /\ un[u] = a
      /\ \A w \in User : w # u => un[w] = s.una[w]
  BY <1>1 DEF DB
<1> HIDE DEF al, un
<1>7. s1 \in DB /\ s1.alias = al /\ s1.una = un /\ s1.nalists = s.nalists
  BY <1>1, <1>3, <1>5, <1>6 DEF DB
<1> HIDE DEF s1
<1>8. \A p \in Alias :
        /\ al[p] = NULL <=> s.alias[p] = NULL
        /\ s.alias[p] # NULL =>
              al[p].nick = s.alias[p].nick /\ al[p].next = s.alias[p].next
  BY <1>4, <1>5
<1>9. \A w \in User : w # u => s.una[w] # a
  <2> SUFFICES ASSUME NEW w \in User, w # u, s.una[w] = a
               PROVE  FALSE
    OBVIOUS
  <2>1. nk[w] = s.alias[a].nick
    BY <1>1, <1>2 DEF NickLinks
  <2> QED BY <1>2, <2>1 DEF Unique, AliasRec
<1>10. Links(s1)
  <2>1. \A w \in User : un[w] # NULL => al[un[w]] # NULL /\ al[un[w]].u = w
    <3> TAKE w \in User
    <3> HAVE un[w] # NULL
    <3>1. CASE w = u
      BY <3>1, <1>4, <1>5, <1>6
    <3>2. CASE w # u
      <4>1. un[w] = s.una[w] /\ un[w] # a /\ un[w] \in Alias
        BY <3>2, <1>6, <1>9
      <4> QED BY <4>1, <1>1, <1>5 DEF Links
    <3> QED BY <3>1, <3>2
  <2>2. \A n \in Nick : s.nalists[n] # NULL =>
           al[s.nalists[n]] # NULL /\ al[s.nalists[n]].nick = n
    BY <1>1, <1>8 DEF Links, DB
  <2>3. \A p \in Alias : (al[p] # NULL /\ al[p].next # NULL) =>
           al[al[p].next] # NULL /\ al[al[p].next].nick = al[p].nick
    <3> TAKE p \in Alias
    <3> HAVE al[p] # NULL /\ al[p].next # NULL
    <3>1. s.alias[p] # NULL /\ s.alias[p] \in AliasRec /\ al[p].next = s.alias[p].next
      BY <1>1, <1>8 DEF DB
    <3>2. s.alias[p].next \in Alias
      BY <3>1 DEF AliasRec
    <3> QED BY <1>1, <1>8, <3>1, <3>2 DEF Links
  <2> QED BY <1>7, <2>1, <2>2, <2>3 DEF Links
<1>11. Ranked(s1)
  <2>1. PICK f \in [Alias -> Nat] : RankedBy(s, f)
    BY <1>1 DEF Ranked
  <2>2. RankedBy(s1, f)
    BY <2>1, <1>7, <1>8 DEF RankedBy
  <2> QED BY <2>2 DEF Ranked
<1>12. NickLinks(s1, nk)
  <2> SUFFICES ASSUME NEW w \in User, un[w] # NULL
               PROVE  al[un[w]].nick = nk[w]
    BY <1>7 DEF NickLinks
  <2>1. CASE w = u
    BY <2>1, <1>4, <1>5, <1>6
  <2>2. CASE w # u
    <3>1. un[w] = s.una[w] /\ un[w] # a /\ un[w] \in Alias
      BY <2>2, <1>6, <1>9
    <3> QED BY <3>1, <1>1, <1>5 DEF NickLinks
  <2> QED BY <2>1, <2>2
<1>13. Good(s1, nk)
  BY <1>7, <1>10, <1>11, <1>12 DEF Good
<1> QED BY <1>13 DEF s1

LEMMA MakeAliasGood ==
  ASSUME NEW s, NEW nk, NEW b \in Alias, NEW n \in Nick, NEW c \in Core,
         NEW st \in SUBSET Status, Good(s, nk), s.alias[b] = NULL
  PROVE  /\ Good(MakeAlias(s, b, n, c, st), nk)
         /\ MakeAlias(s, b, n, c, st).alias[b] # NULL
         /\ MakeAlias(s, b, n, c, st).alias[b].nick = n
<1> DEFINE r == [nick |-> n, nc |-> c, u |-> NULL, st |-> st, next |-> s.nalists[n]]
           al == [s.alias EXCEPT ![b] = r]
           nl == [s.nalists EXCEPT ![n] = b]
           s1 == MakeAlias(s, b, n, c, st)
<1>1. s \in DB /\ Links(s) /\ Ranked(s) /\ NickLinks(s, nk)
  BY DEF Good
<1>2. s1 = [s EXCEPT !.alias = al, !.nalists = nl]
  BY <1>1 DEF MakeAlias, DB
<1>3. r \in AliasRec /\ r.nick = n /\ r.next = s.nalists[n]
  BY <1>1 DEF AliasRec, DB
<1>4. r # NULL
  BY <1>3, NullRec
<1> HIDE DEF r
<1>5. al \in [Alias -> AliasRec \cup {NULL}] /\ al[b] = r
      /\ \A p \in Alias : p # b => al[p] = s.alias[p]
  BY <1>1, <1>3 DEF DB
<1>6. nl \in [Nick -> Alias \cup {NULL}] /\ nl[n] = b
      /\ \A k \in Nick : k # n => nl[k] = s.nalists[k]
  BY <1>1 DEF DB
<1> HIDE DEF al, nl
<1>7. s1 \in DB /\ s1.alias = al /\ s1.una = s.una /\ s1.nalists = nl
  BY <1>1, <1>2, <1>5, <1>6 DEF DB
<1> HIDE DEF s1
<1>8. /\ \A w \in User : s.una[w] # NULL => s.una[w] # b
      /\ \A k \in Nick : s.nalists[k] # NULL => s.nalists[k] # b
      /\ \A p \in Alias : (s.alias[p] # NULL /\ s.alias[p].next # NULL) => s.alias[p].next # b
  BY <1>1 DEF Links
<1>9. Links(s1)
  <2>1. \A w \in User : s.una[w] # NULL => al[s.una[w]] # NULL /\ al[s.una[w]].u = w
    BY <1>1, <1>5, <1>8 DEF Links, DB
  <2>2. \A k \in Nick : nl[k] # NULL => al[nl[k]] # NULL /\ al[nl[k]].nick = k
    <3> TAKE k \in Nick
    <3> HAVE nl[k] # NULL
    <3>1. CASE k = n
      BY <3>1, <1>3, <1>4, <1>5, <1>6
    <3>2. CASE k # n
      <4>1. nl[k] = s.nalists[k] /\ nl[k] # b /\ nl[k] \in Alias
        BY <3>2, <1>6, <1>8
      <4> QED BY <4>1, <1>1, <1>5 DEF Links
    <3> QED BY <3>1, <3>2
  <2>3. \A p \in Alias : (al[p] # NULL /\ al[p].next # NULL) =>
           al[al[p].next] # NULL /\ al[al[p].next].nick = al[p].nick
    <3> TAKE p \in Alias
    <3> HAVE al[p] # NULL /\ al[p].next # NULL
    <3>1. CASE p = b
      <4>1. al[p].next = s.nalists[n] /\ s.nalists[n] \in Alias /\ s.nalists[n] # b
        BY <3>1, <1>1, <1>3, <1>5, <1>8 DEF DB
      <4> QED BY <4>1, <3>1, <1>1, <1>3, <1>5 DEF Links
    <3>2. CASE p # b
      <4>1. al[p] = s.alias[p] /\ al[p] \in AliasRec
        BY <3>2, <1>5
      <4>2. al[p].next \in Alias /\ al[p].next # b
        BY <4>1, <1>8 DEF AliasRec
      <4> QED BY <4>1, <4>2, <1>1, <1>5 DEF Links
    <3> QED BY <3>1, <3>2
  <2> QED BY <1>7, <2>1, <2>2, <2>3 DEF Links
<1>10. Ranked(s1)
  <2>1. PICK f \in [Alias -> Nat] : RankedBy(s, f)
    BY <1>1 DEF Ranked
  <2> DEFINE top == IF s.nalists[n] = NULL THEN 0 ELSE f[s.nalists[n]] + 1
             g == [f EXCEPT ![b] = top]
  <2>2. s.nalists[n] # NULL => f[s.nalists[n]] \in Nat
    BY <1>1 DEF DB
  <2>3. top \in Nat /\ (s.nalists[n] # NULL => f[s.nalists[n]] < top)
    BY <2>2
  <2> HIDE DEF top
  <2>4. g \in [Alias -> Nat] /\ g[b] = top /\ \A p \in Alias : p # b => g[p] = f[p]
    BY <2>3
  <2> HIDE DEF g
  <2>5. \A p \in Alias : (al[p] # NULL /\ al[p].next # NULL) => g[al[p].next] < g[p]
    <3> TAKE p \in Alias
    <3> HAVE al[p] # NULL /\ al[p].next # NULL
    <3>1. CASE p = b
      <4>1. al[p].next = s.nalists[n] /\ s.nalists[n] \in Alias /\ s.nalists[n] # b
        BY <3>1, <1>1, <1>3, <1>5, <1>8 DEF DB
      <4> QED BY <4>1, <3>1, <2>3, <2>4
    <3>2. CASE p # b
      <4>1. al[p] = s.alias[p] /\ al[p] \in AliasRec
        BY <3>2, <1>5
      <4>2. al[p].next \in Alias /\ al[p].next # b
        BY <4>1, <1>8 DEF AliasRec
      <4> QED BY <4>1, <4>2, <3>2, <2>1, <2>4 DEF RankedBy
    <3> QED BY <3>1, <3>2
  <2> QED BY <1>7, <2>4, <2>5 DEF Ranked, RankedBy
<1>11. NickLinks(s1, nk)
  BY <1>1, <1>5, <1>7, <1>8 DEF NickLinks, DB
<1>12. Good(s1, nk)
  BY <1>7, <1>9, <1>10, <1>11 DEF Good
<1> QED BY <1>12, <1>3, <1>4, <1>5, <1>7 DEF s1

LEMMA RemoveAliasGood ==
  ASSUME NEW s, NEW nk, NEW a \in Alias, Good(s, nk), s.alias[a] # NULL,
         \A w \in User : s.una[w] # a
  PROVE  /\ Good(RemoveAlias(s, a), nk)
         /\ \A p \in Alias : p # a => (RemoveAlias(s, a).alias[p] = NULL <=> s.alias[p] = NULL)
<1> DEFINE nx == s.alias[a].next
           al == [p \in Alias |->
                    IF p = a \/ s.alias[p] = NULL THEN IF p = a THEN NULL ELSE s.alias[p]
                    ELSE IF s.alias[p].next = a THEN [s.alias[p] EXCEPT !.next = nx]
                    ELSE s.alias[p]]
           nl == [n \in Nick |-> IF s.nalists[n] = a THEN nx ELSE s.nalists[n]]
           s1 == RemoveAlias(s, a)
<1>1. s \in DB /\ Links(s) /\ Ranked(s) /\ NickLinks(s, nk)
  BY DEF Good
<1>2. s1 = [s EXCEPT !.alias = al, !.nalists = nl]
  BY <1>1 DEF RemoveAlias, DB
<1>3. s.alias[a] \in AliasRec /\ nx \in Alias \cup {NULL}
  BY <1>1 DEF DB, AliasRec
<1>4. PICK f \in [Alias -> Nat] : RankedBy(s, f)
  BY <1>1 DEF Ranked
<1>5. nx # a
  <2> SUFFICES ASSUME nx = a
               PROVE  FALSE
    OBVIOUS
  <2>1. nx # NULL /\ f[a] \in Nat
    BY NullIsNothing
  <2>2. f[a] < f[a]
    BY <2>1, <1>4 DEF RankedBy
  <2> QED BY <2>1, <2>2
<1>6. nx # NULL => s.alias[nx] # NULL /\ s.alias[nx].nick = s.alias[a].nick /\ f[nx] < f[a]
  BY <1>1, <1>4 DEF Links, RankedBy
<1> HIDE DEF nx
<1>7. al[a] = NULL
  OBVIOUS
<1>8. ASSUME NEW p \in Alias, p # a
      PROVE  /\ al[p] = NULL <=> s.alias[p] = NULL
             /\ s.alias[p] # NULL =>
                  /\ s.alias[p] \in AliasRec
                  /\ al[p] \in AliasRec
                  /\ al[p].nick = s.alias[p].nick
                  /\ al[p].u = s.alias[p].u
                  /\ al[p].next = IF s.alias[p].next = a THEN nx ELSE s.alias[p].next
  <2>1. CASE s.alias[p] = NULL
    BY <1>8, <2>1
  <2>2. CASE s.alias[p] # NULL
    <3>1. s.alias[p] \in AliasRec
      BY <1>1, <2>2 DEF DB
    <3>2. al[p] = IF s.alias[p].next = a THEN [s.alias[p] EXCEPT !.next = nx] ELSE s.alias[p]
      BY <1>8, <2>2
    <3>3. /\ al[p] \in AliasRec
          /\ al[p].nick = s.alias[p].nick
          /\ al[p].u = s.alias[p].u
          /\ al[p].next = IF s.alias[p].next = a THEN nx ELSE s.alias[p].next
      BY <1>3, <3>1, <3>2 DEF AliasRec
    <3> HIDE DEF al
    <3> QED BY <2>2, <3>1, <3>3, NullRec
  <2> QED BY <2>1, <2>2
<1>9. nl \in [Nick -> Alias \cup {NULL}]
  BY <1>1, <1>3 DEF DB
<1>10. al \in [Alias -> AliasRec \cup {NULL}]
  <2>1. \A p \in Alias : al[p] \in AliasRec \cup {NULL}
    BY <1>7, <1>8
  <2> QED BY <2>1
<1>11. \A n \in Nick : nl[n] # NULL =>
          /\ nl[n] \in Alias /\ nl[n] # a
          /\ s.alias[nl[n]] # NULL /\ s.alias[nl[n]].nick = n
  <2> SUFFICES ASSUME NEW n \in Nick, nl[n] # NULL
               PROVE  /\ nl[n] \in Alias /\ nl[n] # a
                      /\ s.alias[nl[n]] # NULL /\ s.alias[nl[n]].nick = n
    OBVIOUS
  <2>1. CASE s.nalists[n] = a
    <3>1. nl[n] = nx /\ a # NULL
      BY <2>1, NullIsNothing
    <3>2. s.alias[a].nick = n
      BY <2>1, <3>1, <1>1 DEF Links
    <3> HIDE DEF nl
    <3> QED BY <3>1, <3>2, <1>3, <1>5, <1>6
  <2>2. CASE s.nalists[n] # a
    <3>1. nl[n] = s.nalists[n] /\ nl[n] \in Alias
      BY <2>2, <1>9
    <3> HIDE DEF nl
    <3> QED BY <3>1, <2>2, <1>1 DEF Links
  <2> QED BY <2>1, <2>2
<1> HIDE DEF al, nl
<1>12. s1 \in DB /\ s1.alias = al /\ s1.una = s.una /\ s1.nalists = nl
  BY <1>1, <1>2, <1>9, <1>10 DEF DB
<1> HIDE DEF s1
<1>13. ASSUME NEW p \in Alias, al[p] # NULL, al[p].next # NULL
       PROVE  /\ p # a /\ s.alias[p] # NULL
              /\ al[p].next \in Alias /\ al[p].next # a
              /\ s.alias[al[p].next] # NULL
              /\ s.alias[al[p].next].nick = s.alias[p].nick
              /\ f[al[p].next] < f[p]
  <2>1. p # a /\ s.alias[p] # NULL /\ s.alias[p] \in AliasRec
        /\ al[p].next = IF s.alias[p].next = a THEN nx ELSE s.alias[p].next
    BY <1>7, <1>8, <1>13
  <2>2. CASE s.alias[p].next = a
    <3>1. al[p].next = nx /\ nx \in Alias /\ a # NULL
      BY <2>1, <2>2, <1>3, <1>13, NullIsNothing
    <3>2. s.alias[a].nick = s.alias[p].nick /\ f[a] < f[p]
      BY <2>1, <2>2, <3>1, <1>1, <1>4 DEF Links, RankedBy
    <3>3. f[nx] \in Nat /\ f[a] \in Nat /\ f[p] \in Nat
      BY <3>1
    <3>4. nx # NULL
      BY <3>1, <1>13
    <3>5. f[nx] < f[a] /\ s.alias[nx] # NULL /\ s.alias[nx].nick = s.alias[a].nick
      BY <3>4, <1>6
    <3>6. f[nx] < f[p]
      BY <3>2, <3>3, <3>5
    <3> QED BY <2>1, <3>1, <3>2, <3>5, <3>6, <1>5
  <2>3. CASE s.alias[p].next # a
    <3>1. al[p].next = s.alias[p].next /\ al[p].next \in Alias
      BY <2>1, <2>3, <1>13 DEF AliasRec
    <3>2. s.alias[p].next # NULL
      BY <3>1, <1>13
    <3>3. /\ s.alias[s.alias[p].next] # NULL
          /\ s.alias[s.alias[p].next].nick = s.alias[p].nick
      BY <2>1, <3>2, <1>1 DEF Links
    <3>4. f[s.alias[p].next] < f[p]
      BY <2>1, <3>2, <1>4 DEF RankedBy
    <3> QED BY <2>1, <2>3, <3>1, <3>3, <3>4
  <2> QED BY <2>2, <2>3
<1>14. \A w \in User : s.una[w] # NULL => s.una[w] \in Alias /\ s.una[w] # a
  BY <1>1 DEF DB
<1>15. Links(s1)
  <2>1. \A w \in User : s.una[w] # NULL => al[s.una[w]] # NULL /\ al[s.una[w]].u = w
    BY <1>1, <1>8, <1>14 DEF Links
  <2>2. \A n \in Nick : nl[n] # NULL => al[nl[n]] # NULL /\ al[nl[n]].nick = n
    BY <1>8, <1>11
  <2>3. \A p \in Alias : (al[p] # NULL /\ al[p].next # NULL) =>
           al[al[p].next] # NULL /\ al[al[p].next].nick = al[p].nick
    BY <1>8, <1>13
  <2> QED BY <1>12, <2>1, <2>2, <2>3 DEF Links
<1>16. Ranked(s1)
  BY <1>12, <1>13 DEF Ranked, RankedBy
<1>17. NickLinks(s1, nk)
  BY <1>1, <1>8, <1>12, <1>14 DEF NickLinks, Links
<1>18. Good(s1, nk) /\ \A p \in Alias : p # a => (s1.alias[p] = NULL <=> s.alias[p] = NULL)
  BY <1>8, <1>12, <1>15, <1>16, <1>17 DEF Good
<1> QED BY <1>18 DEF s1

LEMMA CleanNsTimeoutsKeeps ==
  ASSUME NEW s \in DB, NEW a \in Alias, s.alias[a] # NULL
  PROVE  CleanNsTimeouts(s, a) \in DB /\ Keeps(s, CleanNsTimeouts(s, a))
<1> DEFINE mine == {m \in s.my : m.na = a}
           s0 == IF \E m \in mine : m.kind = "release" THEN Release(s, a, TRUE) ELSE s
<1>1. s0 \in DB /\ Keeps(s, s0)
  BY ReleaseKeeps, ZenonT(40) DEF Keeps
<1>2. CleanNsTimeouts(s, a) = Forget(s0, mine)
  BY DEF CleanNsTimeouts
<1> HIDE DEF s0, mine
<1>3. Forget(s0, mine) \in DB /\ Keeps(s0, Forget(s0, mine))
  BY <1>1, ForgetKeeps
<1> QED BY <1>1, <1>2, <1>3, KeepsTransitive

LEMMA DelNickGood ==
  ASSUME NEW s, NEW nk, NEW a \in Alias, Good(s, nk), s.alias[a] # NULL
  PROVE  /\ Good(DelNick(s, a), nk)
         /\ \A p \in Alias : p # a => (DelNick(s, a).alias[p] = NULL <=> s.alias[p] = NULL)
<1> DEFINE s1 == CleanNsTimeouts(s, a)
           w0 == s1.alias[a].u
           un == [s1.una EXCEPT ![w0] = NULL]
           s2 == IF w0 = NULL THEN s1 ELSE [s1 EXCEPT !.una[w0] = NULL]
<1>1. s1 \in DB /\ Keeps(s, s1)
  BY CleanNsTimeoutsKeeps DEF Good
<1>2. DelNick(s, a) = RemoveAlias(s2, a)
  BY DEF DelNick
<1> HIDE DEF s1
<1>3. Good(s1, nk) /\ s1.alias[a] # NULL
  BY <1>1, KeepsGood DEF Keeps
<1>4. \A w \in User : s1.una[w] = a => w0 = w
  BY <1>3, NullIsNothing DEF Good, Links
<1>5. s1.una \in [User -> Alias \cup {NULL}] /\ w0 \in User \cup {NULL}
  BY <1>1, <1>3 DEF DB, AliasRec
<1> HIDE DEF w0
<1>6. un \in [User -> Alias \cup {NULL}]
      /\ \A w \in User : un[w] = IF w = w0 THEN NULL ELSE s1.una[w]
  BY <1>5
<1>7. w0 # NULL => s2 = [s1 EXCEPT !.una = un]
  BY <1>1 DEF DB
<1> HIDE DEF un
<1>8. s2 \in DB /\ s2.alias = s1.alias /\ s2.nalists = s1.nalists
      /\ \A w \in User : s2.una[w] = s1.una[w] \/ s2.una[w] = NULL
  <2>1. CASE w0 = NULL
    BY <2>1, <1>1
  <2>2. CASE w0 # NULL
    <3>1. s2 = [s1 EXCEPT !.una = un]
      BY <2>2, <1>7
    <3> HIDE DEF s2
    <3> QED BY <3>1, <1>1, <1>6 DEF DB
  <2> QED BY <2>1, <2>2
<1>9. \A w \in User : s2.una[w] # a
  <2>0. a # NULL
    BY NullIsNothing
  <2>1. CASE w0 = NULL
    BY <2>1, <1>4, NullIsNothing
  <2>2. CASE w0 # NULL
    <3>1. s2 = [s1 EXCEPT !.una = un]
      BY <2>2, <1>7
    <3>2. s2.una = un
      BY <3>1, <1>1 DEF DB
    <3> HIDE DEF s2
    <3> QED BY <3>2, <2>0, <1>4, <1>6
  <2> QED BY <2>1, <2>2
<1> HIDE DEF s2
<1>10. Good(s2, nk)
  <2>1. Links(s2)
    BY <1>3, <1>8 DEF Good, Links
  <2>2. Ranked(s2)
    BY <1>3, <1>8 DEF Good, Ranked, RankedBy
  <2>3. NickLinks(s2, nk)
    BY <1>3, <1>8 DEF Good, NickLinks
  <2> QED BY <2>1, <2>2, <2>3, <1>8 DEF Good
<1>11. s2.alias[a] # NULL
  BY <1>3, <1>8
<1>12. /\ Good(RemoveAlias(s2, a), nk)
       /\ \A p \in Alias : p # a => (RemoveAlias(s2, a).alias[p] = NULL <=> s2.alias[p] = NULL)
  BY <1>9, <1>10, <1>11, RemoveAliasGood
<1> QED BY <1>1, <1>2, <1>8, <1>12 DEF Keeps

\* A user without an alias may take any nick.
LEMMA NewNickGood ==
  ASSUME NEW s, NEW nk, NEW nk1, NEW u \in User, Good(s, nk), s.una[u] = NULL,
         \A w \in User : w # u => nk1[w] = nk[w]
  PROVE  Good(s, nk1)
  BY DEF Good, NickLinks

\* What findnick returns is an alias of that nick.
LEMMA FoundGood ==
  ASSUME NEW s, NEW nk, NEW n, Good(s, nk), Found(s, n) # NULL
  PROVE  /\ n \in Nick /\ Found(s, n) \in Alias
         /\ s.alias[Found(s, n)] # NULL /\ s.alias[Found(s, n)].nick = n
  BY DEF Found, Good, DB, Links

\* SetStatus on an existing alias.
LEMMA SetStatusGood ==
  ASSUME NEW s, NEW nk, NEW a \in Alias, NEW st \in SUBSET Status, Good(s, nk),
         s.alias[a] # NULL
  PROVE  Good(SetStatus(s, a, st), nk)
  BY SetStatusKeeps, KeepsGood DEF Good

LEMMA CollideGood ==
  ASSUME NEW s, NEW nk, NEW a \in Alias, NEW fromTimeout \in BOOLEAN, Good(s, nk),
         s.alias[a] # NULL
  PROVE  Good(Collide(s, a, fromTimeout), nk)
  BY CollideKeeps, KeepsGood DEF Good

LEMMA ReleaseGood ==
  ASSUME NEW s, NEW nk, NEW a \in Alias, NEW fromTimeout \in BOOLEAN, Good(s, nk),
         s.alias[a] # NULL
  PROVE  Good(Release(s, a, fromTimeout), nk)
  BY ReleaseKeeps, KeepsGood DEF Good

LEMMA CancelUserGood ==
  ASSUME NEW s, NEW nk, NEW u \in User, NEW x \in Timer, now \in Nat, Good(s, nk)
  PROVE  /\ Good(CancelUser(s, u, x), nk)
         /\ CancelUser(s, u, x).una = s.una
         /\ CancelUser(s, u, x).nalists = s.nalists
         /\ \A p \in Alias : s.alias[p] # NULL => CancelUser(s, u, x).alias[p] # NULL
<1>1. s \in DB /\ (s.una[u] # NULL => s.alias[s.una[u]] # NULL)
  BY DEF Good, Links
<1>2. CancelUser(s, u, x) \in DB /\ Keeps(s, CancelUser(s, u, x))
  BY <1>1, CancelUserKeeps
<1>3. Good(CancelUser(s, u, x), nk)
  BY <1>2, KeepsGood
<1> QED BY <1>2, <1>3 DEF Keeps

LEMMA ValidateUserGood ==
  ASSUME NEW s, NEW nk, NEW u \in User, NEW v \in Verdict, NEW x \in Timer, now \in Nat,
         Good(s, nk)
  PROVE  Good(ValidateUser(s, u, v, x), nk)
<1>1. s \in DB /\ (s.una[u] # NULL => s.alias[s.una[u]] # NULL)
  BY DEF Good, Links
<1> QED BY <1>1, ValidateUserKeeps, KeepsGood

\* The timers a routine leaves free.
LEMMA CancelUserTimers ==
  ASSUME NEW s \in DB, NEW u \in User, NEW x \in Timer, NEW y \in Timer, y # x,
         s.timer[y] = NULL
  PROVE  CancelUser(s, u, x).timer[y] = NULL
<1> DEFINE a == s.una[u]
           held == [AddNsTimeout(s, a, "release", ReleaseDelay, x)
                      EXCEPT !.enf = @ \cup {s.alias[a].nick},
                             !.alias[a].st = (@ \ Temporary) \cup {"KILL_HELD"}]
           left == SetStatus(s, a, s.alias[a].st \ Temporary)
           d == IF Has(s, a, "GUESTED") THEN held ELSE left
<1>1. CASE a = NULL
  BY <1>1 DEF CancelUser
<1>2. CASE a # NULL
  <2>1. held.timer[y] = NULL
    BY DEF AddNsTimeout, DB
  <2>2. left.timer[y] = NULL
    BY DEF SetStatus, DB
  <2>3. CancelUser(s, u, x) = DelNsTimeout(d, a, "collide")
    BY <1>2 DEF CancelUser
  <2>4. d.timer[y] = NULL /\ d \in {held, left}
    BY <2>1, <2>2
  <2>5. DOMAIN held = Fields /\ DOMAIN left = Fields
    BY DEF AddNsTimeout, SetStatus, DB, Fields
  <2> HIDE DEF held, left
  <2>6. DOMAIN d = Fields
    BY <2>5
  <2> HIDE DEF d
  <2>7. DelNsTimeout(d, a, "collide").timer[y] = NULL
    BY <2>4, <2>6 DEF DelNsTimeout, Forget, Fields
  <2> QED BY <2>3, <2>7
<1> QED BY <1>1, <1>2
-----------------------------------------------------------------------------
(* The invariant.                                                          *)

IInv ==
    /\ TypeOK
    /\ Good(S, unick)
    /\ Sound(S)
    /\ Unique(unick)

LEMMA InitIInv == Init => IInv
<1> SUFFICES ASSUME Init PROVE IInv
  OBVIOUS
<1>1. TypeOK
  BY DEF Init, TypeOK
<1>2. S \in DB /\ DOMAIN S = Fields
  BY <1>1 DEF S, DB, TypeOK, Fields
<1>3. Links(S) /\ NickLinks(S, unick)
  BY DEF Init, S, Links, NickLinks
<1>4. Ranked(S)
  <2>1. [a \in Alias |-> 0] \in [Alias -> Nat]
    OBVIOUS
  <2> QED BY <2>1 DEF Init, S, Ranked, RankedBy
<1>5. Sound(S)
  BY <1>2 DEF Init, S, Sound, DB
<1>6. Unique(unick)
  BY NullIsNothing DEF Init, Unique
<1> QED BY <1>1, <1>2, <1>3, <1>4, <1>5, <1>6 DEF IInv, Good

\* The variables outside the database.
Outside ==
    /\ now \in Nat
    /\ unick \in [User -> Nick \cup {NoNick, NULL}]
    /\ my_signon \in [User -> Nat]
    /\ requests \subseteq Nick
    /\ auth \in [User -> Core \cup {NULL}]
    /\ Unique(unick)

LEMMA Current ==
  ASSUME IInv
  PROVE  /\ Outside /\ Good(S, unick) /\ Sound(S) /\ S \in DB
         /\ S.una = una /\ S.alias = alias /\ S.nalists = nalists /\ S.timer = timer
         /\ S.my = my_timeouts /\ S.enf = enforcer
  BY DEF IInv, Outside, TypeOK, Good, S

LEMMA Established ==
  ASSUME NEW s, Becomes(s), Good(s, unick'), Sound(s), Outside'
  PROVE  IInv'
<1>1. s \in DB
  BY DEF Good
<1>2. S' = s
  BY <1>1 DEF S, Becomes, DB
<1>3. TypeOK'
  BY <1>1 DEF TypeOK, Outside, Becomes, DB
<1> QED BY <1>2, <1>3 DEF IInv, Outside

\* The users and the commands outside the database are left alone.
LEMMA SameUsers ==
  ASSUME NEW s, IInv, Becomes(s), Good(s, unick), Sound(s),
         UNCHANGED <<now, unick, my_signon>>,
         requests' \subseteq Nick, auth' \in [User -> Core \cup {NULL}]
  PROVE  IInv'
  BY Current, Established DEF Outside

LEMMA LinkFound ==
  ASSUME NEW s, NEW nk, NEW u \in User, NEW n, Good(s, nk), Sound(s), Unique(nk),
         nk[u] = n
  PROVE  /\ Good(Link(s, u, Found(s, n)), nk)
         /\ Sound(Link(s, u, Found(s, n)))
         /\ Link(s, u, Found(s, n)).timer = s.timer
         /\ Found(s, n) # NULL => Link(s, u, Found(s, n)).alias[Found(s, n)] # NULL
<1> DEFINE a == Found(s, n)
<1>1. CASE a = NULL
  BY <1>1, LinkSound DEF Link
<1>2. CASE a # NULL
  <2>1. a \in Alias /\ s.alias[a] # NULL /\ s.alias[a].nick = nk[u]
    BY <1>2, FoundGood
  <2>2. Good(Link(s, u, a), nk)
    BY <2>1, LinkGood
  <2>3. Link(s, u, a).una[u] = a
    BY <1>2 DEF Link, Good, DB
  <2>4. Link(s, u, a).alias[a] # NULL
    BY <1>2, <2>2, <2>3 DEF Good, Links
  <2> QED BY <2>2, <2>4, LinkSound
<1> QED BY <1>1, <1>2

\* A user who takes a free nick.
LEMMA TakeNick ==
  ASSUME NEW u \in User, NEW n \in Nick \cup {NoNick}, NickFree(n), Outside,
         unick' = [unick EXCEPT ![u] = n],
         my_signon' = [my_signon EXCEPT ![u] = now],
         now' = now, requests' = requests, auth' \in [User -> Core \cup {NULL}]
  PROVE  /\ Outside' /\ unick'[u] = n
         /\ \A w \in User : w # u => unick'[w] = unick[w]
<1>1. unick'[u] = n /\ \A w \in User : w # u => unick'[w] = unick[w]
  BY DEF Outside
<1>2. n \in Nick => \A w \in User : unick[w] # n
  BY NoNickIsNoNick DEF NickFree
<1>3. Unique(unick')
  BY <1>1, <1>2 DEF Unique, Outside
<1> QED BY <1>1, <1>3 DEF Outside

LEMMA NoAlias ==
  ASSUME IInv, NEW u \in User, unick[u] = NULL
  PROVE  una[u] = NULL
<1> SUFFICES ASSUME una[u] # NULL PROVE FALSE
  OBVIOUS
<1>1. una[u] \in Alias /\ alias[una[u]] # NULL /\ alias[una[u]].nick = NULL
  BY Current DEF Good, Links, NickLinks, DB
<1>2. alias[una[u]] \in AliasRec
  BY <1>1 DEF IInv, TypeOK
<1> QED BY <1>1, <1>2, NullIsNothing DEF AliasRec

-----------------------------------------------------------------------------
(* The actions.                                                            *)

LEMMA ConnectStep ==
  ASSUME IInv, NEW u \in User, NEW n \in Nick \cup {NoNick}, NEW v \in Verdicts,
         NEW x \in FreeTimer, Connect(u, n, v, x)
  PROVE  IInv'
<1> DEFINE s == Link(S, u, Found(S, n))
<1>1. Outside' /\ unick'[u] = n /\ \A w \in User : w # u => unick'[w] = unick[w]
  BY Current, TakeNick DEF Connect, Outside
<1>2. Good(S, unick')
  <2>1. S.una[u] = NULL /\ Good(S, unick)
    BY NoAlias, Current DEF Connect
  <2> QED BY <1>1, <2>1, NewNickGood
<1>3. Good(s, unick') /\ Sound(s) /\ s.timer = timer
  BY <1>1, <1>2, Current, LinkFound DEF Outside
<1>4. Becomes(ValidateUser(s, u, v, x))
  BY DEF Connect
<1>5. v \in Verdict /\ x \in Timer /\ s.timer[x] = NULL /\ now \in Nat
  BY <1>3, VerdictsAssumption, Current DEF FreeTimer, Outside
<1> HIDE DEF s
<1>6. s.una[u] \in Alias \cup {NULL}
  BY <1>3 DEF Good, DB
<1>7. Good(ValidateUser(s, u, v, x), unick') /\ Sound(ValidateUser(s, u, v, x))
  BY <1>3, <1>5, <1>6, ValidateUserGood, ValidateUserSound
<1> QED BY <1>1, <1>4, <1>7, Established

LEMMA ConnectIdentifiedStep ==
  ASSUME IInv, NEW u \in User, NEW n \in Nick \cup {NoNick}, ConnectIdentified(u, n)
  PROVE  IInv'
<1> DEFINE a == Found(S, n)
           s == Link(S, u, a)
           st == s.alias[a].st \cup {"IDENTIFIED"}
<1>0. a # NULL
  BY DEF ConnectIdentified
<1>1. Good(S, unick) /\ Sound(S) /\ Outside
  BY Current
<1>2. auth' \in [User -> Core \cup {NULL}]
  <2>1. a \in Alias /\ S.alias[a] \in AliasRec
    BY <1>0, <1>1, FoundGood DEF Good, DB
  <2>2. s.alias[a].nc = S.alias[a].nc
    BY <1>0, <1>1, <2>1 DEF Link, AliasRec, Good, DB
  <2>3. auth' = [auth EXCEPT ![u] = s.alias[a].nc]
    BY DEF ConnectIdentified
  <2> HIDE DEF s
  <2> QED BY <2>1, <2>2, <2>3, <1>1 DEF Outside, AliasRec
<1>3. Outside' /\ unick'[u] = n /\ \A w \in User : w # u => unick'[w] = unick[w]
  BY <1>1, <1>2, TakeNick DEF ConnectIdentified
<1>4. Good(S, unick')
  <2>1. S.una[u] = NULL
    BY NoAlias, Current DEF ConnectIdentified
  <2> QED BY <1>1, <1>3, <2>1, NewNickGood
<1>5. Good(s, unick') /\ Sound(s) /\ s.alias[a] # NULL
  BY <1>0, <1>1, <1>3, <1>4, LinkFound DEF Outside
<1>6. Becomes(SetStatus(s, a, st))
  BY DEF ConnectIdentified
<1>7. a \in Alias
  BY <1>0, <1>1, FoundGood
<1> HIDE DEF s, a
<1>8. st \in SUBSET Status
  BY <1>5, <1>7 DEF Good, DB, AliasRec, Status, Temporary, TransGroup
<1>9. Good(SetStatus(s, a, st), unick') /\ Sound(SetStatus(s, a, st))
  BY <1>5, <1>7, <1>8, SetStatusGood, SetStatusSound
<1> QED BY <1>3, <1>6, <1>9, Established

LEMMA ChangeNickStep ==
  ASSUME IInv, NEW u \in User, NEW n \in Nick \cup {NoNick}, NEW qlined \in BOOLEAN,
         NEW v \in Verdicts, NEW x \in FreeTimer, NEW y \in FreeTimer \ {x},
         ChangeNick(u, n, qlined, v, x, y)
  PROVE  IInv'
<1> DEFINE old == una[u]
           new == Found(S, n)
           sameGroup == IF old = NULL \/ new = NULL THEN old = new
                        ELSE alias[old].nc = alias[new].nc
           s1 == CancelUser(S, u, x)
           t1 == Unlink(s1, u)
           s2 == Link(t1, u, new)
           st == s2.alias[new].st \cup (alias[old].st \cap TransGroup)
           s3 == IF sameGroup /\ new # NULL THEN SetStatus(s2, new, st) ELSE s2
<1>1. Good(S, unick) /\ Sound(S) /\ Outside /\ S \in DB
  BY Current
<1>2. auth' \in [User -> Core \cup {NULL}]
  BY <1>1 DEF ChangeNick, Outside
<1>3. Outside' /\ unick'[u] = n /\ \A w \in User : w # u => unick'[w] = unick[w]
  BY <1>1, <1>2, TakeNick DEF ChangeNick
<1>4. x \in Timer /\ y \in Timer /\ x # y /\ timer[x] = NULL /\ timer[y] = NULL
      /\ now \in Nat /\ v \in Verdict
  BY <1>1, VerdictsAssumption DEF FreeTimer, Outside
<1>5. Good(s1, unick) /\ Sound(s1) /\ s1.timer[y] = NULL /\ s1.nalists = nalists
  <2>1. S.timer[x] = NULL /\ S.timer[y] = NULL /\ S.una[u] \in Alias \cup {NULL}
        /\ S.nalists = nalists
    BY <1>1, <1>4, Current DEF DB
  <2>2. Good(s1, unick) /\ s1.nalists = nalists
    BY <1>1, <1>4, <2>1, CancelUserGood
  <2>3. Sound(s1)
    BY <1>1, <1>4, <2>1, CancelUserSound
  <2>4. s1.timer[y] = NULL
    BY <1>1, <1>4, <2>1, CancelUserTimers
  <2> QED BY <2>2, <2>3, <2>4
<1> HIDE DEF s1
<1>6. Good(t1, unick) /\ Sound(t1) /\ t1.una[u] = NULL /\ t1.nalists = nalists
      /\ t1.timer = s1.timer
  BY <1>5, UnlinkGood, LinkSound
<1> HIDE DEF t1
<1>7. Good(t1, unick')
  BY <1>3, <1>6, NewNickGood
<1>8. new = Found(t1, n)
  BY <1>6, Current DEF Found
<1>9. Good(s2, unick') /\ Sound(s2) /\ s2.timer = t1.timer
      /\ (new # NULL => s2.alias[new] # NULL /\ new \in Alias)
  BY <1>3, <1>6, <1>7, <1>8, LinkFound, FoundGood DEF Outside
<1> HIDE DEF s2
<1>11. Good(s3, unick') /\ Sound(s3) /\ s3.timer[y] = NULL
  <2>1. CASE sameGroup /\ new # NULL
    <3>1. new \in Alias /\ s2.alias[new] \in AliasRec
      BY <1>9, <2>1 DEF Good, DB
    <3>2. st \in SUBSET Status
      BY <3>1 DEF AliasRec, Status, Temporary
    <3> HIDE DEF st
    <3>3. Good(SetStatus(s2, new, st), unick') /\ Sound(SetStatus(s2, new, st))
          /\ SetStatus(s2, new, st).timer = s2.timer
      BY <1>9, <2>1, <3>1, <3>2, SetStatusGood, SetStatusSound
    <3> QED BY <2>1, <3>3, <1>5, <1>6, <1>9
  <2>2. CASE ~(sameGroup /\ new # NULL)
    BY <2>2, <1>5, <1>6, <1>9
  <2> QED BY <2>1, <2>2
<1>12. \E cond \in BOOLEAN : Becomes(IF cond THEN s3 ELSE ValidateUser(s3, u, v, y))
  <2>1. Becomes(IF qlined \/ (sameGroup /\ Recognized(s3, new)) THEN s3
                ELSE ValidateUser(s3, u, v, y))
    BY DEF ChangeNick, s1, t1, s2
  <2>2. (qlined \/ (sameGroup /\ Recognized(s3, new))) \in BOOLEAN
    OBVIOUS
  <2> HIDE DEF s3, sameGroup, new
  <2> QED BY <2>1
<1> HIDE DEF s3
<1>13. s3.una[u] \in Alias \cup {NULL}
  BY <1>11 DEF Good, DB
<1>14. Good(ValidateUser(s3, u, v, y), unick') /\ Sound(ValidateUser(s3, u, v, y))
  BY <1>4, <1>11, <1>13, ValidateUserGood, ValidateUserSound
<1>15. CASE Becomes(s3)
  BY <1>3, <1>11, <1>15, Established
<1>16. CASE Becomes(ValidateUser(s3, u, v, y))
  BY <1>3, <1>14, <1>16, Established
<1> QED BY <1>12, <1>15, <1>16

\* The alias of a user exists.
LEMMA UsersAlias ==
  ASSUME IInv, NEW u \in User, una[u] # NULL
  PROVE  /\ una[u] \in Alias /\ S.alias[una[u]] # NULL
         /\ alias[una[u]] \in AliasRec /\ S.alias[una[u]] = alias[una[u]]
  BY Current DEF Good, Links, DB

LEMMA ListedAlias ==
  ASSUME IInv, NEW n \in Nick, nalists[n] # NULL
  PROVE  /\ nalists[n] \in Alias /\ S.alias[nalists[n]] # NULL
         /\ alias[nalists[n]] \in AliasRec /\ alias[nalists[n]].nick = n
  BY Current DEF Good, Links, DB

LEMMA CaseChangeStep ==
  ASSUME IInv, NEW u \in User, NEW v \in Verdicts, NEW x \in FreeTimer, CaseChange(u, v, x)
  PROVE  IInv'
<1> DEFINE s == ValidateUser(S, u, v, x)
<1>1. x \in Timer /\ S.timer[x] = NULL /\ now \in Nat /\ v \in Verdict
      /\ S.una[u] \in Alias \cup {NULL}
  BY Current, VerdictsAssumption DEF FreeTimer, Outside, DB
<1>2. Good(s, unick) /\ Sound(s)
  BY <1>1, Current, ValidateUserGood, ValidateUserSound
<1>3. Becomes(s)
  BY DEF CaseChange
<1> HIDE DEF s
<1> QED BY <1>2, <1>3, Current, SameUsers DEF CaseChange, Outside

LEMMA LeaveStep ==
  ASSUME IInv, NEW u \in User, NEW x \in FreeTimer, Leave(u, x)
  PROVE  IInv'
<1> DEFINE s1 == CancelUser(S, u, x)
           s == Unlink(s1, u)
<1>1. x \in Timer /\ S.timer[x] = NULL /\ now \in Nat /\ S.una[u] \in Alias \cup {NULL}
  BY Current DEF FreeTimer, Outside, DB
<1>2. Good(s1, unick) /\ Sound(s1)
  BY <1>1, Current, CancelUserGood, CancelUserSound
<1>3. Becomes(s)
  BY DEF Leave
<1> HIDE DEF s1
<1>4. Good(s, unick) /\ Sound(s) /\ s.una[u] = NULL
  BY <1>2, UnlinkGood, LinkSound
<1> HIDE DEF s
<1>5. unick'[u] = NULL /\ \A w \in User : w # u => unick'[w] = unick[w]
  BY Current DEF Leave, Outside
<1>6. Good(s, unick')
  BY <1>4, <1>5, NewNickGood
<1>7. Unique(unick')
  BY <1>5, Current, NullIsNothing DEF Unique, Outside
<1>8. Outside'
  BY <1>7, Current DEF Leave, Outside
<1> QED BY <1>3, <1>4, <1>6, <1>8, Established

\* SetStatus of the user's alias, in any command.
LEMMA StatusStep ==
  ASSUME IInv, NEW a \in Alias, alias[a] # NULL, NEW st \in SUBSET Status,
         Becomes(SetStatus(S, a, st)), UNCHANGED <<now, unick, my_signon, requests>>,
         auth' \in [User -> Core \cup {NULL}]
  PROVE  IInv'
<1>1. Good(SetStatus(S, a, st), unick) /\ Sound(SetStatus(S, a, st))
  BY Current, SetStatusGood, SetStatusSound
<1> QED BY <1>1, Current, SameUsers DEF Outside

LEMMA IdentifyStep ==
  ASSUME IInv, NEW u \in User, Identify(u)
  PROVE  IInv'
<1>1. una[u] \in Alias /\ alias[una[u]] \in AliasRec /\ alias[una[u]] # NULL
  BY UsersAlias, Current DEF Identify, Usable
<1>2. alias[una[u]].st \cup {"IDENTIFIED"} \in SUBSET Status
  BY <1>1 DEF AliasRec, Status, Temporary, TransGroup
<1>3. auth' \in [User -> Core \cup {NULL}]
  BY <1>1, Current DEF Identify, Outside, AliasRec
<1> QED BY <1>1, <1>2, <1>3, StatusStep DEF Identify

LEMMA LogoutStep ==
  ASSUME IInv, NEW u \in User, Logout(u)
  PROVE  IInv'
<1>1. una[u] \in Alias /\ alias[una[u]] \in AliasRec /\ alias[una[u]] # NULL
  BY UsersAlias, Current DEF Logout, Usable
<1>2. alias[una[u]].st \ TransGroup \in SUBSET Status
  BY <1>1 DEF AliasRec
<1>3. auth' \in [User -> Core \cup {NULL}]
  BY Current DEF Logout, Outside
<1> QED BY <1>1, <1>2, <1>3, StatusStep DEF Logout

LEMMA LogoutRevalidateStep ==
  ASSUME IInv, NEW u \in User, NEW v \in Verdicts, NEW x \in FreeTimer,
         NEW y \in FreeTimer \ {x}, LogoutRevalidate(u, v, x, y)
  PROVE  IInv'
<1> DEFINE s1 == CancelUser(S, u, x)
           s == ValidateUser(s1, u, v, y)
<1>1. x \in Timer /\ y \in Timer /\ x # y /\ S.timer[x] = NULL /\ S.timer[y] = NULL
      /\ now \in Nat /\ v \in Verdict /\ S.una[u] \in Alias \cup {NULL}
  BY Current, VerdictsAssumption DEF FreeTimer, Outside, DB
<1>2. Good(s1, unick) /\ Sound(s1) /\ s1.timer[y] = NULL
  BY <1>1, Current, CancelUserGood, CancelUserSound, CancelUserTimers
<1>3. Becomes(s)
  BY DEF LogoutRevalidate
<1> HIDE DEF s1
<1>4. s1.una[u] \in Alias \cup {NULL}
  BY <1>2 DEF Good, DB
<1>5. Good(s, unick) /\ Sound(s)
  BY <1>1, <1>2, <1>4, ValidateUserGood, ValidateUserSound
<1> HIDE DEF s
<1>6. auth' \in [User -> Core \cup {NULL}]
  BY Current DEF LogoutRevalidate, Outside
<1> QED BY <1>3, <1>5, <1>6, Current, SameUsers DEF LogoutRevalidate, Outside

LEMMA RecoverStep ==
  ASSUME IInv, NEW u \in User, Recover(u)
  PROVE  IInv'
<1>1. una[u] \in Alias /\ S.alias[una[u]] # NULL
  BY UsersAlias DEF Recover, Usable
<1>2. Good(Collide(S, una[u], FALSE), unick) /\ Sound(Collide(S, una[u], FALSE))
  BY <1>1, Current, CollideGood, CollideSound
<1> QED BY <1>2, Current, SameUsers DEF Recover, Outside

LEMMA ReleaseNickStep ==
  ASSUME IInv, NEW n \in Nick, ReleaseNick(n)
  PROVE  IInv'
<1>1. nalists[n] \in Alias /\ S.alias[nalists[n]] # NULL
  BY ListedAlias DEF ReleaseNick, Usable
<1>2. Good(Release(S, nalists[n], FALSE), unick) /\ Sound(Release(S, nalists[n], FALSE))
  BY <1>1, Current, ReleaseGood, ReleaseSound
<1> QED BY <1>2, Current, SameUsers DEF ReleaseNick, Outside

LEMMA RegisterStep ==
  ASSUME IInv, NEW u \in User, Register(u)
  PROVE  IInv'
<1>1. Becomes(S)
  BY DEF Becomes, S, Register
<1>2. requests' \subseteq Nick
  BY Current DEF Register, Outside
<1> QED BY <1>1, <1>2, Current, SameUsers DEF Register, Outside

LEMMA DropRequestStep ==
  ASSUME IInv, NEW n \in Nick, DropRequest(n)
  PROVE  IInv'
<1>1. Becomes(S)
  BY DEF Becomes, S, DropRequest
<1> QED BY <1>1, Current, SameUsers DEF DropRequest, Outside

LEMMA TransGroupStatus == TransGroup \in SUBSET Status /\ {"VERBOTEN"} \in SUBSET Status
  BY DEF Status, Temporary

LEMMA ConfirmStep ==
  ASSUME IInv, NEW u \in User, NEW b \in Alias, NEW c \in Core, Confirm(u, b, c)
  PROVE  IInv'
<1> DEFINE n == unick[u]
           s1 == MakeAlias(S, b, n, c, TransGroup)
           s == Link(s1, u, b)
<1>1. n \in Nick /\ S.alias[b] = NULL
  BY Current DEF Confirm, FreeAlias, Outside
<1>2. Good(s1, unick) /\ s1.alias[b] # NULL /\ s1.alias[b].nick = n /\ Sound(s1)
  BY <1>1, Current, MakeAliasGood, MakeAliasSound, TransGroupStatus
<1>3. Becomes(s)
  BY DEF Confirm
<1> HIDE DEF s1
<1>4. Good(s, unick) /\ Sound(s)
  BY <1>2, Current, LinkGood, LinkSound DEF Outside
<1> HIDE DEF s
<1>5. auth' \in [User -> Core \cup {NULL}] /\ requests' \subseteq Nick
  BY Current DEF Confirm, Outside
<1> QED BY <1>3, <1>4, <1>5, Current, SameUsers DEF Confirm

LEMMA ConfirmOfflineStep ==
  ASSUME IInv, NEW n \in Nick, NEW b \in Alias, NEW c \in Core, ConfirmOffline(n, b, c)
  PROVE  IInv'
<1> DEFINE s == MakeAlias(S, b, n, c, TransGroup)
<1>1. S.alias[b] = NULL
  BY DEF ConfirmOffline, FreeAlias
<1>2. Good(s, unick) /\ Sound(s)
  BY <1>1, Current, MakeAliasGood, MakeAliasSound, TransGroupStatus
<1>3. Becomes(s)
  BY DEF ConfirmOffline
<1> HIDE DEF s
<1>4. auth' \in [User -> Core \cup {NULL}] /\ requests' \subseteq Nick
  BY Current DEF ConfirmOffline, Outside
<1> QED BY <1>2, <1>3, <1>4, Current, SameUsers DEF ConfirmOffline

LEMMA DelNickStep ==
  ASSUME IInv, NEW a \in Alias, alias[a] # NULL
  PROVE  Good(DelNick(S, a), unick) /\ Sound(DelNick(S, a))
  BY Current, DelNickGood, DelNickSound

LEMMA GroupStep ==
  ASSUME IInv, NEW u \in User, NEW n \in Nick, NEW b \in Alias, Group(u, n, b)
  PROVE  IInv'
<1> DEFINE old == una[u]
           c == alias[nalists[n]].nc
           s1 == IF old = NULL THEN S ELSE DelNick(S, old)
           s2 == MakeAlias(s1, b, unick[u], c, TransGroup)
           s == Link(s2, u, b)
<1>1. nalists[n] # NULL /\ unick[u] \in Nick
  BY DEF Group, Usable
<1>2. c \in Core
  BY <1>1, ListedAlias DEF AliasRec
<1>3. Good(s1, unick) /\ Sound(s1)
  <2>1. old # NULL => old \in Alias /\ alias[old] # NULL
    BY UsersAlias, Current
  <2> QED BY <2>1, Current, DelNickStep
<1>4. s1.alias[b] = NULL
  BY DEF Group, FreeAlias
<1>5. Becomes(s) /\ auth' = [auth EXCEPT ![u] = c]
  BY DEF Group
<1> HIDE DEF s1, c
<1>6. Good(s2, unick) /\ s2.alias[b] # NULL /\ s2.alias[b].nick = unick[u] /\ Sound(s2)
  BY <1>1, <1>2, <1>3, <1>4, MakeAliasGood, MakeAliasSound, TransGroupStatus
<1> HIDE DEF s2
<1>7. Good(s, unick) /\ Sound(s)
  BY <1>6, Current, LinkGood, LinkSound DEF Outside
<1> HIDE DEF s
<1>8. auth' \in [User -> Core \cup {NULL}] /\ requests' \subseteq Nick
  BY <1>2, <1>5, Current DEF Group, Outside
<1> QED BY <1>5, <1>7, <1>8, Current, SameUsers DEF Group

LEMMA DropNickStep ==
  ASSUME IInv, NEW n \in Nick, DropNick(n)
  PROVE  IInv'
<1>1. nalists[n] \in Alias /\ alias[nalists[n]] # NULL
  BY ListedAlias, Current DEF DropNick
<1>2. Good(DelNick(S, nalists[n]), unick) /\ Sound(DelNick(S, nalists[n]))
  BY <1>1, DelNickStep
<1> QED BY <1>2, Current, SameUsers DEF DropNick, Outside

LEMMA ExpireNickStep ==
  ASSUME IInv, NEW a \in Alias, ExpireNick(a)
  PROVE  IInv'
<1>1. Good(DelNick(S, a), unick) /\ Sound(DelNick(S, a))
  BY DelNickStep DEF ExpireNick
<1> QED BY <1>1, Current, SameUsers DEF ExpireNick, Outside

LEMMA ForbidStep ==
  ASSUME IInv, NEW n \in Nick, NEW b \in Alias, NEW c \in Core, Forbid(n, b, c)
  PROVE  IInv'
<1> DEFINE old == nalists[n]
           s1 == IF old = NULL THEN S ELSE DelNick(S, old)
           s2 == MakeAlias(s1, b, n, c, {"VERBOTEN"})
<1>1. Good(s1, unick) /\ Sound(s1)
  BY ListedAlias, Current, DelNickStep
<1>2. s1.alias[b] = NULL
  BY DEF Forbid, FreeAlias
<1>3. \/ Becomes(s2)
      \/ \E w \in User : unick[w] = n /\ Becomes(Collide(Link(s2, w, b), b, FALSE))
  BY DEF Forbid
<1>4. UNCHANGED <<now, unick, my_signon, requests, auth>>
  BY DEF Forbid
<1> HIDE DEF s1
<1>5. Good(s2, unick) /\ s2.alias[b] # NULL /\ s2.alias[b].nick = n /\ Sound(s2)
  BY <1>1, <1>2, MakeAliasGood, MakeAliasSound, TransGroupStatus
<1> HIDE DEF s2
<1>6. requests' \subseteq Nick /\ auth' \in [User -> Core \cup {NULL}]
  BY <1>4, Current DEF Outside
<1>7. CASE Becomes(s2)
  BY <1>4, <1>5, <1>6, <1>7, SameUsers
<1>8. ASSUME NEW w \in User, unick[w] = n, Becomes(Collide(Link(s2, w, b), b, FALSE))
      PROVE  IInv'
  <2> DEFINE s3 == Link(s2, w, b)
  <2>1. Good(s3, unick) /\ Sound(s3)
    BY <1>5, <1>8, Current, LinkGood, LinkSound DEF Outside
  <2>2. s3.alias[b] # NULL
    <3>1. b # NULL
      BY NullIsNothing
    <3>2. s3.una[w] = b
      BY <1>5, <3>1 DEF Link, Good, DB
    <3> HIDE DEF s3
    <3> QED BY <2>1, <3>1, <3>2 DEF Good, Links
  <2>3. Becomes(Collide(s3, b, FALSE))
    BY <1>8
  <2> HIDE DEF s3
  <2>4. Good(Collide(s3, b, FALSE), unick) /\ Sound(Collide(s3, b, FALSE))
    BY <2>1, <2>2, CollideGood, CollideSound
  <2> QED BY <1>4, <1>6, <2>3, <2>4, SameUsers
<1> QED BY <1>3, <1>7, <1>8

\* check_timeouts frees a timeout that no private entry stands for.
LEMMA FreeTimerSound ==
  ASSUME NEW s, NEW x \in Timer, Sound(s), \A m \in s.my : m.to # x
  PROVE  Sound([s EXCEPT !.timer[x] = NULL])
<1> DEFINE s1 == [s EXCEPT !.timer[x] = NULL]
<1>1. DOMAIN s1 = Fields /\ s1.my = s.my /\ s1.timer = [s.timer EXCEPT ![x] = NULL]
  BY DEF Sound, Fields
<1>2. s1.timer \in [Timer -> TimerRec \cup {NULL}]
      /\ \A m \in s.my : s1.timer[m.to] = s.timer[m.to]
  BY <1>1 DEF Sound
<1> HIDE DEF s1
<1>3. Sound(s1)
  BY <1>1, <1>2 DEF Sound
<1> QED BY <1>3 DEF s1

LEMMA FreeTimerGood ==
  ASSUME NEW s, NEW nk, NEW x \in Timer, Good(s, nk)
  PROVE  Good([s EXCEPT !.timer[x] = NULL], nk)
<1> DEFINE tm == [s.timer EXCEPT ![x] = NULL]
           s1 == [s EXCEPT !.timer[x] = NULL]
<1>1. s \in DB
  BY DEF Good
<1>2. tm \in [Timer -> TimerRec \cup {NULL}] /\ s1 = [s EXCEPT !.timer = tm]
  BY <1>1 DEF DB
<1> HIDE DEF tm
<1>3. s1 \in DB
  BY <1>1, <1>2 DEF DB
<1>4. s1.nalists = s.nalists /\ s1.una = s.una /\ s1.alias = s.alias
  BY <1>1, <1>2 DEF DB
<1> HIDE DEF s1
<1>5. Good(s1, nk)
  BY <1>1, <1>3, <1>4, TimersKeep, KeepsGood
<1> QED BY <1>5 DEF s1

LEMMA RunTimeoutStep ==
  ASSUME IInv, NEW x \in Timer, RunTimeout(x)
  PROVE  IInv'
<1> DEFINE t == timer[x]
           a == t.na
           r == RemNsTimeout(S, a, t.kind)
           s == IF alias[a] = NULL THEN r
                ELSE IF t.kind = "collide" THEN TimeoutCollide(S, t)
                ELSE TimeoutRelease(S, t)
<1>1. t \in TimerRec /\ S \in DB /\ Sound(S) /\ Good(S, unick) /\ S.timer[x] = t
  BY Current DEF RunTimeout, DB
<1>2. a \in Alias /\ t.kind \in Kind
  BY <1>1 DEF TimerRec
<1>3. r \in DB /\ Keeps(S, r) /\ Sound(r) /\ r.timer = S.timer
      /\ r.my = {m \in S.my : ~(m.na = a /\ m.kind = t.kind)}
  BY <1>1, RemNsTimeoutKeeps, RemNsTimeoutSound
<1>4. \A m \in r.my : m.to # x
  BY <1>1, <1>3 DEF Sound
<1>5. Good(r, unick)
  BY <1>1, <1>3, KeepsGood
<1>6. Becomes([s EXCEPT !.timer[x] = NULL])
      /\ UNCHANGED <<now, unick, my_signon, requests, auth>>
  BY DEF RunTimeout
<1>7. Good(s, unick) /\ Sound(s) /\ s.my = r.my
  <2>1. CASE alias[a] = NULL
    BY <2>1, <1>3, <1>5
  <2>2. CASE alias[a] # NULL /\ t.kind = "collide"
    <3>1. r.alias[a] # NULL
      BY <2>2, <1>2, <1>3, Current DEF Keeps
    <3>2. s = r \/ s = Collide(r, a, TRUE)
      BY <2>2 DEF TimeoutCollide
    <3> HIDE DEF s, r, a
    <3>3. Good(Collide(r, a, TRUE), unick) /\ Sound(Collide(r, a, TRUE))
      BY <3>1, <1>2, <1>3, <1>5, CollideGood, CollideSound
    <3>4. Collide(r, a, TRUE).my = r.my
      BY <1>3, SetStatusSound DEF Collide
    <3> QED BY <3>2, <3>3, <3>4, <1>3, <1>5
  <2>3. CASE alias[a] # NULL /\ t.kind = "release"
    <3>1. r.alias[a] # NULL
      BY <2>3, <1>2, <1>3, Current DEF Keeps
    <3>2. s = Release(r, a, TRUE)
      BY <2>3 DEF TimeoutRelease
    <3> HIDE DEF s, r, a
    <3> QED BY <3>1, <3>2, <1>2, <1>3, <1>5, ReleaseGood, ReleaseSound
  <2> QED BY <1>2, <2>1, <2>2, <2>3 DEF Kind
<1> HIDE DEF s, r
<1>8. Good([s EXCEPT !.timer[x] = NULL], unick) /\ Sound([s EXCEPT !.timer[x] = NULL])
  BY <1>4, <1>7, FreeTimerGood, FreeTimerSound
<1>9. requests' \subseteq Nick /\ auth' \in [User -> Core \cup {NULL}]
  BY <1>6, Current DEF Outside
<1> QED BY <1>6, <1>8, <1>9, SameUsers

LEMMA TickStep == ASSUME IInv, Tick PROVE IInv'
<1>1. Becomes(S)
  BY DEF Becomes, S, Tick
<1>2. Good(S, unick') /\ Sound(S) /\ Outside'
  BY Current DEF Tick, Outside, Unique
<1> QED BY <1>1, <1>2, Established

LEMMA StutterStep == ASSUME IInv, UNCHANGED vars PROVE IInv'
  BY DEF vars, IInv, TypeOK, S, Unique

LEMMA NextIInv == IInv /\ [Next]_vars => IInv'
<1> SUFFICES ASSUME IInv, [Next]_vars PROVE IInv'
  OBVIOUS
<1>1. CASE Network
  <2>1. PICK u \in User, x \in FreeTimer :
          \/ Leave(u, x)
          \/ \E v \in Verdicts : CaseChange(u, v, x)
          \/ \E n \in Nick \cup {NoNick} :
                \/ ConnectIdentified(u, n)
                \/ \E v \in Verdicts : Connect(u, n, v, x)
                \/ \E v \in Verdicts, y \in FreeTimer \ {x}, qlined \in BOOLEAN :
                      ChangeNick(u, n, qlined, v, x, y)
    BY <1>1 DEF Network
  <2>2. CASE Leave(u, x)
    BY <2>2, LeaveStep
  <2>3. CASE \E v \in Verdicts : CaseChange(u, v, x)
    BY <2>3, CaseChangeStep
  <2>4. ASSUME NEW n \in Nick \cup {NoNick}, ConnectIdentified(u, n)
        PROVE  IInv'
    BY <2>4, ConnectIdentifiedStep
  <2>5. ASSUME NEW n \in Nick \cup {NoNick}, NEW v \in Verdicts, Connect(u, n, v, x)
        PROVE  IInv'
    BY <2>5, ConnectStep
  <2>6. ASSUME NEW n \in Nick \cup {NoNick}, NEW v \in Verdicts,
               NEW y \in FreeTimer \ {x}, NEW qlined \in BOOLEAN,
               ChangeNick(u, n, qlined, v, x, y)
        PROVE  IInv'
    BY <2>6, ChangeNickStep
  <2> QED BY <2>1, <2>2, <2>3, <2>4, <2>5, <2>6
<1>2. CASE Command
  <2>1. ASSUME NEW u \in User, Identify(u) \/ Logout(u) \/ Recover(u) \/ Register(u)
        PROVE  IInv'
    BY <2>1, IdentifyStep, LogoutStep, RecoverStep, RegisterStep
  <2>2. ASSUME NEW u \in User, NEW v \in Verdicts, NEW x \in FreeTimer,
               NEW y \in FreeTimer \ {x}, LogoutRevalidate(u, v, x, y)
        PROVE  IInv'
    BY <2>2, LogoutRevalidateStep
  <2>3. ASSUME NEW u \in User, NEW b \in Alias, NEW c \in Core, Confirm(u, b, c)
        PROVE  IInv'
    BY <2>3, ConfirmStep
  <2>4. ASSUME NEW u \in User, NEW n \in Nick, NEW b \in Alias, Group(u, n, b)
        PROVE  IInv'
    BY <2>4, GroupStep
  <2>5. ASSUME NEW n \in Nick, ReleaseNick(n) \/ DropNick(n) \/ DropRequest(n)
        PROVE  IInv'
    BY <2>5, ReleaseNickStep, DropNickStep, DropRequestStep
  <2>6. ASSUME NEW n \in Nick, NEW b \in Alias, NEW c \in Core,
               ConfirmOffline(n, b, c) \/ Forbid(n, b, c)
        PROVE  IInv'
    BY <2>6, ConfirmOfflineStep, ForbidStep
  <2>7. ASSUME NEW a \in Alias, ExpireNick(a)
        PROVE  IInv'
    BY <2>7, ExpireNickStep
  <2> QED BY <1>2, <2>1, <2>2, <2>3, <2>4, <2>5, <2>6, <2>7 DEF Command
<1>3. CASE Timeout
  BY <1>3, RunTimeoutStep DEF Timeout
<1>4. CASE Tick
  BY <1>4, TickStep
<1>5. CASE UNCHANGED vars
  BY <1>5, StutterStep
<1> QED BY <1>1, <1>2, <1>3, <1>4, <1>5 DEF Next

\* The inductive invariant holds in every reachable state of the nick database.
THEOREM Invariance == Spec => []IInv
  BY InitIInv, NextIInv, PTL DEF Spec

-----------------------------------------------------------------------------

\* The variables keep their types through every handler and timeout: the
\* alias and user pointers lead to records or are NULL (nickserv.c, users.c).
THEOREM TypeCorrect == Spec => []TypeOK
<1>1. IInv => TypeOK
  BY DEF IInv
<1> QED BY <1>1, Invariance, PTL

\* Each entry of my_timeouts stands for a pending timeout of its alias and
\* kind and for no other's: del_ns_timeout never frees a foreign timeout
\* (nickserv.c:1684-1811).
THEOREM PrivateListIsSound == Spec => []PrivateListSound
<1>1. IInv => PrivateListSound
  BY DEF IInv, Sound, S, PrivateListSound
<1> QED BY <1>1, Invariance, PTL

\* A user's alias is there, is the one of the nick he uses, and leads back to
\* him; two users never share one (user->na and na->u; users.c:88-132,
\* nickserv.c:1574).
AliasesAreOwn ==
    \A u \in User :
        una[u] # NULL =>
            /\ alias[una[u]] # NULL /\ alias[una[u]].u = u
            /\ alias[una[u]].nick = unick[u]
            /\ \A w \in User : una[w] = una[u] => w = u

\* With any nicks, groups, users and timers, and also with the sequences that
\* break LinksAgree: what a user's record says of his nick is never another's.
THEOREM AliasesStayOwn == Spec => []AliasesAreOwn
<1>1. IInv => AliasesAreOwn
  BY DEF IInv, Good, Links, NickLinks, S, AliasesAreOwn
<1> QED BY <1>1, Invariance, PTL

-----------------------------------------------------------------------------
(* What the routines about timeouts and status do, field by field.         *)

\* Only the status of the alias a is another: st.
OnlyStatus(s, s1, a, st) ==
    /\ s1 \in DB /\ Keeps(s, s1)
    /\ \A p \in Alias : p # a => s1.alias[p] = s.alias[p]
    /\ s1.alias[a].st = st

\* The entries of gone are off the private list, and their timeouts deleted.
Forgotten(s, s1, gone) ==
    /\ s1.my = s.my \ gone
    /\ \A x \in Timer :
          s1.timer[x] = IF \E m \in gone : m.to = x THEN NULL ELSE s.timer[x]

SameTimeouts(s, s1) == s1.my = s.my /\ s1.timer = s.timer

Mine(s, a, kind) == {m \in s.my : m.na = a /\ m.kind = kind}

LEMMA SetStatusIs ==
  ASSUME NEW s \in DB, NEW a \in Alias, NEW st \in SUBSET Status, s.alias[a] # NULL
  PROVE  /\ OnlyStatus(s, SetStatus(s, a, st), a, st)
         /\ SameTimeouts(s, SetStatus(s, a, st))
         /\ SetStatus(s, a, st).enf = s.enf
<1> DEFINE s1 == SetStatus(s, a, st)
           r == [s.alias[a] EXCEPT !.st = st]
<1>1. s1 \in DB /\ Keeps(s, s1)
  BY SetStatusKeeps
<1>2. s1 = [s EXCEPT !.alias = [s.alias EXCEPT ![a] = r]]
  BY DEF SetStatus, DB
<1>3. r.st = st
  BY DEF DB, AliasRec
<1> HIDE DEF r
<1>4. s1.alias = [s.alias EXCEPT ![a] = r] /\ s1.my = s.my /\ s1.timer = s.timer
      /\ s1.enf = s.enf
  BY <1>2 DEF DB
<1> HIDE DEF s1
<1>5. s1.alias[a] = r /\ \A p \in Alias : p # a => s1.alias[p] = s.alias[p]
  BY <1>4 DEF DB
<1>6. OnlyStatus(s, s1, a, st) /\ SameTimeouts(s, s1) /\ s1.enf = s.enf
  BY <1>1, <1>3, <1>4, <1>5 DEF OnlyStatus, SameTimeouts
<1> QED BY <1>6 DEF s1

LEMMA ForgetIs ==
  ASSUME NEW s \in DB, NEW gone
  PROVE  /\ Forget(s, gone) \in DB /\ Keeps(s, Forget(s, gone))
         /\ Forget(s, gone).alias = s.alias /\ Forget(s, gone).enf = s.enf
         /\ Forgotten(s, Forget(s, gone), gone)
<1> DEFINE s1 == Forget(s, gone)
           tm == [x \in Timer |-> IF \E m \in gone : m.to = x THEN NULL ELSE s.timer[x]]
<1>1. s1 \in DB /\ Keeps(s, s1)
  BY ForgetKeeps
<1>2. s1 = [s EXCEPT !.my = s.my \ gone, !.timer = tm]
  BY DEF Forget, DB
<1> HIDE DEF tm
<1>3. s1.alias = s.alias /\ s1.enf = s.enf /\ s1.my = s.my \ gone /\ s1.timer = tm
  BY <1>2 DEF DB
<1> HIDE DEF s1
<1>4. Forgotten(s, s1, gone)
  BY <1>3 DEF Forgotten, tm
<1> QED BY <1>1, <1>3, <1>4 DEF s1

LEMMA AddNsTimeoutIs ==
  ASSUME NEW s \in DB, NEW a \in Alias, NEW kind \in Kind, NEW delay \in Nat,
         NEW x \in Timer, now \in Nat
  PROVE  LET s1 == AddNsTimeout(s, a, kind, delay, x)
         IN  /\ s1 \in DB /\ Keeps(s, s1)
             /\ s1.alias = s.alias /\ s1.enf = s.enf
             /\ s1.my = s.my \cup {[na |-> a, kind |-> kind, to |-> x]}
             /\ \A y \in Timer : y # x => s1.timer[y] = s.timer[y]
<1> DEFINE s1 == AddNsTimeout(s, a, kind, delay, x)
           r == [due |-> now + delay, set |-> now, na |-> a, kind |-> kind]
           e == [na |-> a, kind |-> kind, to |-> x]
<1>1. s1 \in DB /\ Keeps(s, s1)
  BY AddNsTimeoutKeeps
<1>2. s1 = [s EXCEPT !.timer = [s.timer EXCEPT ![x] = r], !.my = s.my \cup {e}]
  BY DEF AddNsTimeout, DB
<1> HIDE DEF r, e
<1>3. s1.alias = s.alias /\ s1.enf = s.enf /\ s1.my = s.my \cup {e}
      /\ s1.timer = [s.timer EXCEPT ![x] = r]
  BY <1>2 DEF DB
<1> HIDE DEF s1
<1>4. \A y \in Timer : y # x => s1.timer[y] = s.timer[y]
  BY <1>3 DEF DB
<1> QED BY <1>1, <1>3, <1>4 DEF s1, e

LEMMA RemNsTimeoutIs ==
  ASSUME NEW s \in DB, NEW a, NEW kind
  PROVE  LET s1 == RemNsTimeout(s, a, kind)
         IN  /\ s1 \in DB /\ Keeps(s, s1)
             /\ s1.alias = s.alias /\ s1.enf = s.enf /\ s1.timer = s.timer
             /\ s1.my = s.my \ Mine(s, a, kind)
<1> DEFINE s1 == RemNsTimeout(s, a, kind)
           rest == {m \in s.my : ~(m.na = a /\ m.kind = kind)}
<1>1. s1 \in DB /\ Keeps(s, s1)
  BY RemNsTimeoutKeeps
<1>2. s1 = [s EXCEPT !.my = rest] /\ rest = s.my \ Mine(s, a, kind)
  BY DEF RemNsTimeout, DB, Mine
<1> HIDE DEF rest
<1>3. s1.alias = s.alias /\ s1.enf = s.enf /\ s1.timer = s.timer /\ s1.my = rest
  BY <1>2 DEF DB
<1> QED BY <1>1, <1>2, <1>3 DEF s1

LEMMA CollideIs ==
  ASSUME NEW s \in DB, NEW a \in Alias, NEW fromTimeout \in BOOLEAN, s.alias[a] # NULL
  PROVE  LET s1 == Collide(s, a, fromTimeout)
         IN  /\ OnlyStatus(s, s1, a, s.alias[a].st \cup {"GUESTED"})
             /\ s1.enf = s.enf
             /\ IF fromTimeout THEN SameTimeouts(s, s1)
                ELSE Forgotten(s, s1, Mine(s, a, "collide"))
<1> DEFINE s0 == IF fromTimeout THEN s ELSE DelNsTimeout(s, a, "collide")
           s1 == SetStatus(s0, a, s0.alias[a].st \cup {"GUESTED"})
<1>1. /\ s0 \in DB /\ Keeps(s, s0) /\ s0.alias = s.alias /\ s0.enf = s.enf
      /\ IF fromTimeout THEN SameTimeouts(s, s0)
         ELSE Forgotten(s, s0, Mine(s, a, "collide"))
  BY ForgetIs DEF DelNsTimeout, Mine, SameTimeouts, Keeps
<1>2. Collide(s, a, fromTimeout) = s1
  BY DEF Collide
<1> HIDE DEF s0
<1>3. s0.alias[a].st \cup {"GUESTED"} \in SUBSET Status
  BY <1>1 DEF DB, AliasRec, Status, Temporary
<1>4. /\ OnlyStatus(s0, s1, a, s0.alias[a].st \cup {"GUESTED"})
      /\ SameTimeouts(s0, s1) /\ s1.enf = s0.enf
  BY <1>1, <1>3, SetStatusIs
<1> HIDE DEF s1
<1>5. OnlyStatus(s, s1, a, s.alias[a].st \cup {"GUESTED"})
  BY <1>1, <1>4, KeepsTransitive DEF OnlyStatus
<1> QED BY <1>1, <1>2, <1>4, <1>5 DEF SameTimeouts, Forgotten

LEMMA ReleaseIs ==
  ASSUME NEW s \in DB, NEW a \in Alias, NEW fromTimeout \in BOOLEAN, s.alias[a] # NULL
  PROVE  LET s1 == Release(s, a, fromTimeout)
         IN  /\ OnlyStatus(s, s1, a, s.alias[a].st \ {"KILL_HELD"})
             /\ s1.enf = s.enf \ {s.alias[a].nick}
             /\ IF fromTimeout THEN SameTimeouts(s, s1)
                ELSE Forgotten(s, s1, Mine(s, a, "release"))
<1> DEFINE s0 == IF fromTimeout THEN s ELSE DelNsTimeout(s, a, "release")
           s1 == SetStatus(s0, a, s0.alias[a].st \ {"KILL_HELD"})
           s2 == [s1 EXCEPT !.enf = @ \ {s0.alias[a].nick}]
<1>1. /\ s0 \in DB /\ Keeps(s, s0) /\ s0.alias = s.alias /\ s0.enf = s.enf
      /\ IF fromTimeout THEN SameTimeouts(s, s0)
         ELSE Forgotten(s, s0, Mine(s, a, "release"))
  BY ForgetIs DEF DelNsTimeout, Mine, SameTimeouts, Keeps
<1>2. Release(s, a, fromTimeout) = s2
  BY DEF Release
<1> HIDE DEF s0
<1>3. s0.alias[a].st \ {"KILL_HELD"} \in SUBSET Status
  BY <1>1 DEF DB, AliasRec
<1>4. /\ OnlyStatus(s0, s1, a, s0.alias[a].st \ {"KILL_HELD"})
      /\ SameTimeouts(s0, s1) /\ s1.enf = s0.enf
  BY <1>1, <1>3, SetStatusIs
<1> HIDE DEF s1
<1>5. OnlyStatus(s, s1, a, s.alias[a].st \ {"KILL_HELD"}) /\ s1 \in DB
  BY <1>1, <1>4, KeepsTransitive DEF OnlyStatus
<1>6. /\ s2 \in DB /\ s2.nalists = s1.nalists /\ s2.una = s1.una /\ s2.alias = s1.alias
      /\ s2.my = s1.my /\ s2.timer = s1.timer /\ s2.enf = s1.enf \ {s0.alias[a].nick}
  BY <1>5 DEF DB
<1> HIDE DEF s2
<1>7. OnlyStatus(s, s2, a, s.alias[a].st \ {"KILL_HELD"})
  BY <1>5, <1>6 DEF OnlyStatus, Keeps
<1> QED BY <1>1, <1>2, <1>4, <1>6, <1>7 DEF SameTimeouts, Forgotten

\* cancel_user(): the collide timeout goes, and either the nick is held by an
\* enforcer and has a release timeout, or it has no temporary status.
LEMMA CancelUserIs ==
  ASSUME NEW s \in DB, NEW u \in User, NEW x \in Timer, now \in Nat,
         s.una[u] # NULL, s.alias[s.una[u]] # NULL
  PROVE  LET a == s.una[u]
             s1 == CancelUser(s, u, x)
             new == [na |-> a, kind |-> "release", to |-> x]
         IN  IF Has(s, a, "GUESTED")
             THEN /\ OnlyStatus(s, s1, a, (s.alias[a].st \ Temporary) \cup {"KILL_HELD"})
                  /\ s1.enf = s.enf \cup {s.alias[a].nick}
                  /\ s1.my = (s.my \cup {new}) \ Mine(s, a, "collide")
                  /\ \A y \in Timer : y # x =>
                        s1.timer[y] = IF \E m \in Mine(s, a, "collide") : m.to = y
                                      THEN NULL ELSE s.timer[y]
             ELSE /\ OnlyStatus(s, s1, a, s.alias[a].st \ Temporary)
                  /\ s1.enf = s.enf
                  /\ Forgotten(s, s1, Mine(s, a, "collide"))
<1> DEFINE a == s.una[u]
           new == [na |-> a, kind |-> "release", to |-> x]
           s0 == AddNsTimeout(s, a, "release", ReleaseDelay, x)
           st == (s.alias[a].st \ Temporary) \cup {"KILL_HELD"}
           held == [s0 EXCEPT !.enf = @ \cup {s.alias[a].nick},
                              !.alias[a].st = (@ \ Temporary) \cup {"KILL_HELD"}]
           left == SetStatus(s, a, s.alias[a].st \ Temporary)
<1>1. a \in Alias /\ s.alias[a] \in AliasRec /\ s.alias[a].st \in SUBSET Status
      /\ s.alias[a].nick \in Nick /\ ReleaseDelay \in Nat /\ "release" \in Kind
  BY DelaysAreNat DEF DB, AliasRec, Kind
<1>2. CancelUser(s, u, x)
        = DelNsTimeout(IF Has(s, a, "GUESTED") THEN held ELSE left, a, "collide")
  BY DEF CancelUser
<1>3. CASE ~Has(s, a, "GUESTED")
  <2>1. /\ OnlyStatus(s, left, a, s.alias[a].st \ Temporary)
        /\ SameTimeouts(s, left) /\ left.enf = s.enf
    BY <1>1, SetStatusIs
  <2> DEFINE s1 == DelNsTimeout(left, a, "collide")
  <2>2. CancelUser(s, u, x) = s1
    BY <1>2, <1>3
  <2> HIDE DEF left
  <2>3. /\ s1 \in DB /\ Keeps(left, s1) /\ s1.alias = left.alias /\ s1.enf = left.enf
        /\ Forgotten(left, s1, Mine(left, a, "collide"))
    BY <2>1, ForgetIs DEF DelNsTimeout, Mine, OnlyStatus
  <2> HIDE DEF s1
  <2>4. OnlyStatus(s, s1, a, s.alias[a].st \ Temporary)
    BY <2>1, <2>3, KeepsTransitive DEF OnlyStatus
  <2>5. Forgotten(s, s1, Mine(s, a, "collide"))
    BY <2>1, <2>3 DEF SameTimeouts, Forgotten, Mine
  <2> QED BY <1>3, <2>1, <2>2, <2>3, <2>4, <2>5
<1>4. CASE Has(s, a, "GUESTED")
  <2>1. /\ s0 \in DB /\ Keeps(s, s0) /\ s0.alias = s.alias /\ s0.enf = s.enf
        /\ s0.my = s.my \cup {new}
        /\ \A y \in Timer : y # x => s0.timer[y] = s.timer[y]
    BY <1>1, AddNsTimeoutIs
  <2> DEFINE k == SetStatus(s0, a, st)
             s1 == DelNsTimeout(held, a, "collide")
  <2>2. CancelUser(s, u, x) = s1
    BY <1>2, <1>4
  <2> HIDE DEF s0, new
  <2>3. st \in SUBSET Status
    BY <1>1 DEF Status, Temporary
  <2>4. OnlyStatus(s0, k, a, st) /\ SameTimeouts(s0, k) /\ k.enf = s0.enf
    BY <1>1, <2>1, <2>3, SetStatusIs
  <2>5. held = [k EXCEPT !.enf = s.enf \cup {s.alias[a].nick}]
    <3>1. s0.alias[a].st = s.alias[a].st
      BY <2>1
    <3> QED BY <1>1, <2>1, <3>1 DEF SetStatus, DB
  <2> HIDE DEF k, st, held
  <2>6. /\ held \in DB /\ held.nalists = k.nalists /\ held.una = k.una
        /\ held.alias = k.alias /\ held.my = k.my /\ held.timer = k.timer
        /\ held.enf = s.enf \cup {s.alias[a].nick}
    BY <1>1, <2>4, <2>5 DEF OnlyStatus, DB
  <2>7. /\ s1 \in DB /\ Keeps(held, s1) /\ s1.alias = held.alias /\ s1.enf = held.enf
        /\ Forgotten(held, s1, Mine(held, a, "collide"))
    BY <2>6, ForgetIs DEF DelNsTimeout, Mine
  <2> HIDE DEF s1
  <2>8. Keeps(k, held)
    BY <2>4, <2>6, TimersKeep DEF OnlyStatus
  <2>9. OnlyStatus(s, s1, a, st)
    BY <2>1, <2>4, <2>6, <2>7, <2>8, KeepsTransitive DEF OnlyStatus
  <2>10. Mine(held, a, "collide") = Mine(s, a, "collide")
    BY <2>1, <2>4, <2>6 DEF Mine, SameTimeouts, new
  <2>11. s1.my = (s.my \cup {new}) \ Mine(s, a, "collide")
    BY <2>1, <2>4, <2>6, <2>7, <2>10 DEF SameTimeouts, Forgotten
  <2>12. \A y \in Timer : y # x =>
            s1.timer[y] = IF \E m \in Mine(s, a, "collide") : m.to = y
                          THEN NULL ELSE s.timer[y]
    BY <2>1, <2>4, <2>6, <2>7, <2>10 DEF SameTimeouts, Forgotten
  <2> QED BY <1>4, <2>2, <2>6, <2>7, <2>9, <2>11, <2>12 DEF st, new
<1> QED BY <1>3, <1>4

\* What validate_user() makes of the user of a: he is sent an SVSNICK, or is
\* recognized, or is warned by a timeout.
Renamed(s, s1, a) ==
    /\ OnlyStatus(s, s1, a, s.alias[a].st \cup {"GUESTED"})
    /\ s1.enf = s.enf
    /\ Forgotten(s, s1, Mine(s, a, "collide"))
Known(s, s1, a) ==
    /\ OnlyStatus(s, s1, a, s.alias[a].st \cup {"RECOGNIZED"})
    /\ s1.enf = s.enf
    /\ SameTimeouts(s, s1)
GivenTime(s, s1, a, x) ==
    /\ s1 \in DB /\ Keeps(s, s1)
    /\ s1.alias = s.alias /\ s1.enf = s.enf
    /\ s1.my = s.my \cup {[na |-> a, kind |-> "collide", to |-> x]}
    /\ \A y \in Timer : y # x => s1.timer[y] = s.timer[y]

LEMMA ValidateUserIs ==
  ASSUME NEW s \in DB, NEW u \in User, NEW v \in Verdict, NEW x \in Timer, now \in Nat,
         s.una[u] # NULL, s.alias[s.una[u]] # NULL
  PROVE  LET a == s.una[u]
             s1 == ValidateUser(s, u, v, x)
         IN  s1 = s \/ Renamed(s, s1, a) \/ Known(s, s1, a) \/ GivenTime(s, s1, a, x)
<1> DEFINE a == s.una[u]
           st == s.alias[a].st \cup {"RECOGNIZED"}
<1>1. a \in Alias /\ s.alias[a] \in AliasRec /\ st \in SUBSET Status
      /\ {QuickDelay, SlowDelay} \subseteq Nat /\ "collide" \in Kind
  BY DelaysAreNat DEF DB, AliasRec, Kind, Status, Temporary, TransGroup
<1> HIDE DEF a
<1>2. Renamed(s, Collide(s, a, FALSE), a)
  BY <1>1, CollideIs DEF a, Renamed
<1>3. Known(s, SetStatus(s, a, st), a)
  BY <1>1, SetStatusIs DEF a, Known
<1>4. GivenTime(s, AddNsTimeout(s, a, "collide", QuickDelay, x), a, x)
  BY <1>1, AddNsTimeoutIs DEF GivenTime
<1>5. GivenTime(s, AddNsTimeout(s, a, "collide", SlowDelay, x), a, x)
  BY <1>1, AddNsTimeoutIs DEF GivenTime
<1>6. \/ ValidateUser(s, u, v, x) = s
      \/ ValidateUser(s, u, v, x) = Collide(s, a, FALSE)
      \/ ValidateUser(s, u, v, x) = SetStatus(s, a, st)
      \/ ValidateUser(s, u, v, x) = AddNsTimeout(s, a, "collide", QuickDelay, x)
      \/ ValidateUser(s, u, v, x) = AddNsTimeout(s, a, "collide", SlowDelay, x)
  BY DEF ValidateUser, a, Verdict
<1> QED BY <1>2, <1>3, <1>4, <1>5, <1>6 DEF a

\* clean_ns_timeouts(): no entry of the alias is left, and its enforcer quits.
LEMMA CleanNsTimeoutsIs ==
  ASSUME NEW s \in DB, NEW a \in Alias, s.alias[a] # NULL
  PROVE  LET s1 == CleanNsTimeouts(s, a)
             mine == {m \in s.my : m.na = a}
         IN  /\ s1 \in DB /\ Keeps(s, s1)
             /\ \A p \in Alias : p # a => s1.alias[p] = s.alias[p]
             /\ s1.enf = IF \E m \in mine : m.kind = "release"
                         THEN s.enf \ {s.alias[a].nick} ELSE s.enf
             /\ Forgotten(s, s1, mine)
<1> DEFINE mine == {m \in s.my : m.na = a}
           s0 == IF \E m \in mine : m.kind = "release" THEN Release(s, a, TRUE) ELSE s
           s1 == Forget(s0, mine)
<1>1. CleanNsTimeouts(s, a) = s1
  BY DEF CleanNsTimeouts
<1>2. /\ s0 \in DB /\ Keeps(s, s0) /\ SameTimeouts(s, s0)
      /\ \A p \in Alias : p # a => s0.alias[p] = s.alias[p]
      /\ s0.enf = IF \E m \in mine : m.kind = "release"
                  THEN s.enf \ {s.alias[a].nick} ELSE s.enf
  <2>1. CASE \E m \in mine : m.kind = "release"
    <3>1. s0 = Release(s, a, TRUE)
      BY <2>1
    <3>2. /\ OnlyStatus(s, s0, a, s.alias[a].st \ {"KILL_HELD"})
          /\ s0.enf = s.enf \ {s.alias[a].nick} /\ SameTimeouts(s, s0)
      BY <3>1, ReleaseIs
    <3> HIDE DEF s0
    <3> QED BY <2>1, <3>2 DEF OnlyStatus
  <2>2. CASE ~\E m \in mine : m.kind = "release"
    BY <2>2 DEF Keeps, SameTimeouts
  <2> QED BY <2>1, <2>2
<1> HIDE DEF s0
<1>3. /\ s1 \in DB /\ Keeps(s0, s1) /\ s1.alias = s0.alias /\ s1.enf = s0.enf
      /\ Forgotten(s0, s1, mine)
  BY <1>2, ForgetIs
<1> HIDE DEF s1, mine
<1>4. Keeps(s, s1) /\ Forgotten(s, s1, mine)
  BY <1>2, <1>3, KeepsTransitive DEF Forgotten, SameTimeouts
<1> QED BY <1>1, <1>2, <1>3, <1>4 DEF mine

-----------------------------------------------------------------------------
(* What the routines about lists and links do, field by field.             *)

SameProtection(s, s1) == SameTimeouts(s, s1) /\ s1.enf = s.enf

\* The link of u is to, and that of the alias a is back; nothing else changes.
Relinked(s, s1, u, a, to, back) ==
    /\ s1 \in DB /\ s1.nalists = s.nalists /\ SameProtection(s, s1)
    /\ \A w \in User : s1.una[w] = IF w = u THEN to ELSE s.una[w]
    /\ \A p \in Alias : p # a => s1.alias[p] = s.alias[p]
    /\ s1.alias[a] # NULL /\ s1.alias[a].u = back
    /\ s1.alias[a].nick = s.alias[a].nick /\ s1.alias[a].nc = s.alias[a].nc
    /\ s1.alias[a].st = s.alias[a].st /\ s1.alias[a].next = s.alias[a].next

LEMMA UnlinkIs ==
  ASSUME NEW s \in DB, NEW u \in User, s.una[u] # NULL, s.alias[s.una[u]] # NULL
  PROVE  Relinked(s, Unlink(s, u), u, s.una[u], NULL, NULL)
<1> DEFINE a == s.una[u]
           r == [s.alias[a] EXCEPT !.u = NULL]
           al == [s.alias EXCEPT ![a] = r]
           un == [s.una EXCEPT ![u] = NULL]
           s1 == Unlink(s, u)
<1>1. s1 = [s EXCEPT !.alias = al, !.una = un]
  BY DEF Unlink, DB
<1>2. a \in Alias /\ s.alias[a] \in AliasRec
  BY DEF DB
<1>3. r \in AliasRec /\ r.nick = s.alias[a].nick /\ r.st = s.alias[a].st
      /\ r.next = s.alias[a].next /\ r.u = NULL /\ r.nc = s.alias[a].nc
  BY <1>2 DEF AliasRec
<1> HIDE DEF r
<1>4. r # NULL
  BY <1>3, NullRec
<1>5. al \in [Alias -> AliasRec \cup {NULL}] /\ al[a] = r
      /\ \A p \in Alias : p # a => al[p] = s.alias[p]
  BY <1>2, <1>3 DEF DB
<1>6. un \in [User -> Alias \cup {NULL}]
      /\ \A w \in User : un[w] = IF w = u THEN NULL ELSE s.una[w]
  BY DEF DB
<1> HIDE DEF al, un
<1>7. s1 \in DB /\ s1.nalists = s.nalists /\ s1.alias = al /\ s1.una = un
      /\ s1.my = s.my /\ s1.timer = s.timer /\ s1.enf = s.enf
  BY <1>1, <1>5, <1>6 DEF DB
<1> HIDE DEF s1
<1>8. SameProtection(s, s1)
  BY <1>7 DEF SameProtection, SameTimeouts
<1>9. Relinked(s, s1, u, a, NULL, NULL)
  BY <1>2, <1>3, <1>4, <1>5, <1>6, <1>7, <1>8 DEF Relinked
<1> QED BY <1>9 DEF s1

LEMMA LinkIs ==
  ASSUME NEW s \in DB, NEW u \in User, NEW a \in Alias, s.alias[a] # NULL
  PROVE  Relinked(s, Link(s, u, a), u, a, a, u)
<1> DEFINE r == [s.alias[a] EXCEPT !.u = u]
           al == [s.alias EXCEPT ![a] = r]
           un == [s.una EXCEPT ![u] = a]
           s1 == Link(s, u, a)
<1>1. s1 = [s EXCEPT !.alias = al, !.una = un]
  BY NullIsNothing DEF Link, DB
<1>2. s.alias[a] \in AliasRec
  BY DEF DB
<1>3. r \in AliasRec /\ r.nick = s.alias[a].nick /\ r.st = s.alias[a].st
      /\ r.next = s.alias[a].next /\ r.u = u /\ r.nc = s.alias[a].nc
  BY <1>2 DEF AliasRec
<1> HIDE DEF r
<1>4. r # NULL
  BY <1>3, NullRec
<1>5. al \in [Alias -> AliasRec \cup {NULL}] /\ al[a] = r
      /\ \A p \in Alias : p # a => al[p] = s.alias[p]
  BY <1>2, <1>3 DEF DB
<1>6. un \in [User -> Alias \cup {NULL}]
      /\ \A w \in User : un[w] = IF w = u THEN a ELSE s.una[w]
  BY DEF DB
<1> HIDE DEF al, un
<1>7. s1 \in DB /\ s1.nalists = s.nalists /\ s1.alias = al /\ s1.una = un
      /\ s1.my = s.my /\ s1.timer = s.timer /\ s1.enf = s.enf
  BY <1>1, <1>5, <1>6 DEF DB
<1> HIDE DEF s1
<1>8. SameProtection(s, s1)
  BY <1>7 DEF SameProtection, SameTimeouts
<1>9. Relinked(s, s1, u, a, a, u)
  BY <1>2, <1>3, <1>4, <1>5, <1>6, <1>7, <1>8 DEF Relinked
<1> QED BY <1>9 DEF s1

LEMMA MakeAliasIs ==
  ASSUME NEW s \in DB, NEW b \in Alias, NEW n \in Nick, NEW c \in Core,
         NEW st \in SUBSET Status
  PROVE  LET s1 == MakeAlias(s, b, n, c, st)
         IN  /\ s1 \in DB /\ s1.una = s.una /\ SameProtection(s, s1)
             /\ \A k \in Nick : s1.nalists[k] = IF k = n THEN b ELSE s.nalists[k]
             /\ \A p \in Alias : p # b => s1.alias[p] = s.alias[p]
             /\ s1.alias[b] # NULL /\ s1.alias[b].u = NULL
             /\ s1.alias[b].nick = n /\ s1.alias[b].nc = c /\ s1.alias[b].st = st
<1> DEFINE r == [nick |-> n, nc |-> c, u |-> NULL, st |-> st, next |-> s.nalists[n]]
           al == [s.alias EXCEPT ![b] = r]
           nl == [s.nalists EXCEPT ![n] = b]
           s1 == MakeAlias(s, b, n, c, st)
<1>1. s1 = [s EXCEPT !.alias = al, !.nalists = nl]
  BY DEF MakeAlias, DB
<1>2. r \in AliasRec /\ r.nick = n /\ r.st = st /\ r.u = NULL /\ r.nc = c
  BY DEF AliasRec, DB
<1> HIDE DEF r
<1>3. r # NULL
  BY <1>2, NullRec
<1>4. al \in [Alias -> AliasRec \cup {NULL}] /\ al[b] = r
      /\ \A p \in Alias : p # b => al[p] = s.alias[p]
  BY <1>2 DEF DB
<1>5. nl \in [Nick -> Alias \cup {NULL}]
      /\ \A k \in Nick : nl[k] = IF k = n THEN b ELSE s.nalists[k]
  BY DEF DB
<1> HIDE DEF al, nl
<1>6. s1 \in DB /\ s1.nalists = nl /\ s1.alias = al /\ s1.una = s.una
      /\ s1.my = s.my /\ s1.timer = s.timer /\ s1.enf = s.enf
  BY <1>1, <1>4, <1>5 DEF DB
<1> HIDE DEF s1
<1>7. SameProtection(s, s1)
  BY <1>6 DEF SameProtection, SameTimeouts
<1> QED BY <1>2, <1>3, <1>4, <1>5, <1>6, <1>7 DEF s1

\* The alias is freed, and nothing else changes of another.
Freed(s, s1, a) ==
    /\ s1.alias[a] = NULL
    /\ \A p \in Alias : p # a =>
          /\ s1.alias[p] = NULL <=> s.alias[p] = NULL
          /\ s.alias[p] # NULL =>
                /\ s1.alias[p].nick = s.alias[p].nick
                /\ s1.alias[p].u = s.alias[p].u
                /\ s1.alias[p].nc = s.alias[p].nc
                /\ s1.alias[p].st = s.alias[p].st
    /\ \A n \in Nick :
          s1.nalists[n] = IF s.nalists[n] = a THEN s.alias[a].next ELSE s.nalists[n]

LEMMA RemoveAliasIs ==
  ASSUME NEW s \in DB, NEW a \in Alias, s.alias[a] # NULL
  PROVE  LET s1 == RemoveAlias(s, a)
         IN  s1 \in DB /\ s1.una = s.una /\ SameProtection(s, s1) /\ Freed(s, s1, a)
<1> DEFINE nx == s.alias[a].next
           al == [p \in Alias |->
                    IF p = a \/ s.alias[p] = NULL THEN IF p = a THEN NULL ELSE s.alias[p]
                    ELSE IF s.alias[p].next = a THEN [s.alias[p] EXCEPT !.next = nx]
                    ELSE s.alias[p]]
           nl == [n \in Nick |-> IF s.nalists[n] = a THEN nx ELSE s.nalists[n]]
           s1 == RemoveAlias(s, a)
<1>1. s1 = [s EXCEPT !.alias = al, !.nalists = nl]
  BY DEF RemoveAlias, DB
<1>2. nx \in Alias \cup {NULL}
  BY DEF DB, AliasRec
<1> HIDE DEF nx
<1>3. al[a] = NULL
  OBVIOUS
<1>4. ASSUME NEW p \in Alias, p # a
      PROVE  /\ al[p] = NULL <=> s.alias[p] = NULL
             /\ s.alias[p] # NULL =>
                  /\ al[p] \in AliasRec
                  /\ al[p].nick = s.alias[p].nick /\ al[p].u = s.alias[p].u
                  /\ al[p].nc = s.alias[p].nc /\ al[p].st = s.alias[p].st
  <2>1. CASE s.alias[p] = NULL
    BY <1>4, <2>1
  <2>2. CASE s.alias[p] # NULL
    <3>1. s.alias[p] \in AliasRec
      BY <2>2 DEF DB
    <3>2. al[p] = IF s.alias[p].next = a THEN [s.alias[p] EXCEPT !.next = nx] ELSE s.alias[p]
      BY <1>4, <2>2
    <3>3. /\ al[p] \in AliasRec
          /\ al[p].nick = s.alias[p].nick /\ al[p].u = s.alias[p].u
          /\ al[p].nc = s.alias[p].nc /\ al[p].st = s.alias[p].st
      BY <1>2, <3>1, <3>2 DEF AliasRec
    <3> HIDE DEF al
    <3> QED BY <2>2, <3>3, NullRec
  <2> QED BY <2>1, <2>2
<1>5. nl \in [Nick -> Alias \cup {NULL}]
  BY <1>2 DEF DB
<1>6. al \in [Alias -> AliasRec \cup {NULL}]
  <2>1. \A p \in Alias : al[p] \in AliasRec \cup {NULL}
    BY <1>3, <1>4
  <2> QED BY <2>1
<1>7. \A n \in Nick : nl[n] = IF s.nalists[n] = a THEN nx ELSE s.nalists[n]
  OBVIOUS
<1> HIDE DEF al, nl
<1>8. s1 \in DB /\ s1.alias = al /\ s1.una = s.una /\ s1.nalists = nl
      /\ s1.my = s.my /\ s1.timer = s.timer /\ s1.enf = s.enf
  BY <1>1, <1>5, <1>6 DEF DB
<1> HIDE DEF s1
<1>9. Freed(s, s1, a) /\ SameProtection(s, s1)
  BY <1>3, <1>4, <1>7, <1>8 DEF Freed, SameProtection, SameTimeouts, nx
<1> QED BY <1>8, <1>9 DEF s1

LEMMA DelNickIs ==
  ASSUME NEW s \in DB, NEW a \in Alias, s.alias[a] # NULL
  PROVE  LET s1 == DelNick(s, a)
             mine == {m \in s.my : m.na = a}
         IN  /\ s1 \in DB
             /\ Freed(s, s1, a)
             /\ \A w \in User : s1.una[w] = IF w = s.alias[a].u THEN NULL ELSE s.una[w]
             /\ s1.enf = IF \E m \in mine : m.kind = "release"
                         THEN s.enf \ {s.alias[a].nick} ELSE s.enf
             /\ Forgotten(s, s1, mine)
<1> DEFINE mine == {m \in s.my : m.na = a}
           s0 == CleanNsTimeouts(s, a)
           w0 == s0.alias[a].u
           un == [s0.una EXCEPT ![w0] = NULL]
           s2 == IF w0 = NULL THEN s0 ELSE [s0 EXCEPT !.una[w0] = NULL]
           s1 == RemoveAlias(s2, a)
           freed == IF \E m \in mine : m.kind = "release"
                    THEN s.enf \ {s.alias[a].nick} ELSE s.enf
<1>1. DelNick(s, a) = s1
  BY DEF DelNick
<1>2. /\ s0 \in DB /\ Keeps(s, s0)
      /\ \A p \in Alias : p # a => s0.alias[p] = s.alias[p]
      /\ s0.enf = freed
      /\ Forgotten(s, s0, mine)
  BY CleanNsTimeoutsIs
<1>3. s0.alias[a] # NULL /\ w0 = s.alias[a].u /\ s0.alias[a].next = s.alias[a].next
      /\ w0 \in User \cup {NULL}
  BY <1>2 DEF Keeps, DB, AliasRec
<1> HIDE DEF s0, w0, freed, mine
<1>4. un \in [User -> Alias \cup {NULL}]
      /\ \A w \in User : un[w] = IF w = w0 THEN NULL ELSE s0.una[w]
  BY <1>2, <1>3 DEF DB
<1>5. w0 # NULL => s2 = [s0 EXCEPT !.una = un]
  BY <1>2 DEF DB
<1> HIDE DEF un
<1>6. /\ s2 \in DB /\ s2.alias = s0.alias /\ s2.nalists = s0.nalists
      /\ s2.my = s0.my /\ s2.timer = s0.timer /\ s2.enf = s0.enf
      /\ \A w \in User : s2.una[w] = IF w = w0 THEN NULL ELSE s0.una[w]
  <2>1. CASE w0 = NULL
    BY <2>1, <1>2, NullIsNothing
  <2>2. CASE w0 # NULL
    <3>1. s2 = [s0 EXCEPT !.una = un]
      BY <2>2, <1>5
    <3> HIDE DEF s2
    <3> QED BY <3>1, <1>2, <1>4 DEF DB
  <2> QED BY <2>1, <2>2
<1> HIDE DEF s2
<1>7. s1 \in DB /\ s1.una = s2.una /\ SameProtection(s2, s1) /\ Freed(s2, s1, a)
  BY <1>3, <1>6, RemoveAliasIs
<1> HIDE DEF s1
<1>8. Freed(s, s1, a)
  BY <1>2, <1>3, <1>6, <1>7 DEF Freed, Keeps
<1>9. Forgotten(s, s1, mine) /\ s1.enf = freed
  BY <1>2, <1>6, <1>7 DEF SameProtection, SameTimeouts, Forgotten
<1>10. \A w \in User : s1.una[w] = IF w = s.alias[a].u THEN NULL ELSE s.una[w]
  BY <1>2, <1>3, <1>6, <1>7 DEF Keeps
<1> QED BY <1>1, <1>7, <1>8, <1>9, <1>10 DEF freed, mine

-----------------------------------------------------------------------------
(* The invariants of a database.                                           *)

\* An enforcer has an entry for its release.
EnfTimed(s) ==
    \A n \in s.enf : \E m \in s.my :
        m.kind = "release" /\ s.alias[m.na] # NULL /\ s.alias[m.na].nick = n

\* A nick has one alias, the one findnick returns; users and aliases point to
\* each other; and but for the users of W, a user is linked to his nick.
OneAlias(s) == \A a \in Alias : s.alias[a] # NULL => s.nalists[s.alias[a].nick] = a
Mutual(s) ==
    \A a \in Alias, u \in User : s.alias[a] # NULL => (s.alias[a].u = u <=> s.una[u] = a)
LinkedBut(s, nk, W) == \A u \in User : u \notin W => s.una[u] = Found(s, nk[u])
Lists(s, nk, W) == OneAlias(s) /\ Mutual(s) /\ LinkedBut(s, nk, W)

\* Timeouts and entries are the same thing, at most one of a kind for an
\* alias; a collide timeout is for a nick in use, and a release timeout for
\* one that is held; a held nick is in nobody's use and has its enforcer.
OneEach(s) == \A m, k \in s.my : (m.na = k.na /\ m.kind = k.kind) => m = k
Listed(s) == \A x \in Timer : s.timer[x] # NULL => \E m \in s.my : m.to = x
Warned(s) ==
    \A m \in s.my :
        /\ s.alias[m.na] # NULL
        /\ m.kind = "collide" => s.alias[m.na].u # NULL
        /\ m.kind = "release" => "KILL_HELD" \in s.alias[m.na].st
Held(s) ==
    \A a \in Alias :
        (s.alias[a] # NULL /\ "KILL_HELD" \in s.alias[a].st) =>
            s.alias[a].u = NULL /\ s.alias[a].nick \in s.enf
Quiet(s) == OneEach(s) /\ Listed(s) /\ Warned(s) /\ Held(s)

\* An identified nick is in use, by one who has proved to be of its group.
Earned(s, au) ==
    \A a \in Alias :
        (s.alias[a] # NULL /\ "IDENTIFIED" \in s.alias[a].st) =>
            s.alias[a].u # NULL /\ au[s.alias[a].u] = s.alias[a].nc

\* Forbidden aliases stay, but for those of W.
Lasting(s, s1, W) ==
    \A a \in Alias :
        (a \notin W /\ s.alias[a] # NULL /\ "VERBOTEN" \in s.alias[a].st) =>
            /\ s1.alias[a] # NULL /\ s1.alias[a].nick = s.alias[a].nick
            /\ "VERBOTEN" \in s1.alias[a].st

LEMMA LastingTransitive ==
  ASSUME NEW s, NEW s1, NEW s2, NEW V, NEW W, Lasting(s, s1, V), Lasting(s1, s2, W)
  PROVE  Lasting(s, s2, V \cup W)
  BY DEF Lasting

LEMMA KeepsLists ==
  ASSUME NEW s \in DB, NEW s1 \in DB, NEW nk, NEW W, Keeps(s, s1), Lists(s, nk, W)
  PROVE  Lists(s1, nk, W)
<1>1. OneAlias(s1)
  BY DEF Keeps, Lists, OneAlias
<1>2. Mutual(s1)
  BY DEF Keeps, Lists, Mutual
<1>3. LinkedBut(s1, nk, W)
  BY DEF Keeps, Lists, LinkedBut, Found
<1> QED BY <1>1, <1>2, <1>3 DEF Lists

\* A user without an alias may take any nick; see NewNickGood.
LEMMA NewNickLists ==
  ASSUME NEW s, NEW nk, NEW nk1, NEW u \in User, Lists(s, nk, {u}),
         \A w \in User : w # u => nk1[w] = nk[w]
  PROVE  Lists(s, nk1, {u})
  BY DEF Lists, LinkedBut

\* Without an alias, a user's proofs of identity are of no consequence.
LEMMA NewAuthEarned ==
  ASSUME NEW s, NEW nk, NEW W, NEW au, NEW au1, NEW u \in User, s.una[u] = NULL,
         Lists(s, nk, W), Earned(s, au), s \in DB,
         \A w \in User : w # u => au1[w] = au[w]
  PROVE  Earned(s, au1)
<1>1. \A a \in Alias : s.alias[a] # NULL => s.alias[a].u # u /\ s.alias[a].u \in User \cup {NULL}
  BY NullIsNothing DEF Lists, Mutual, DB, AliasRec
<1> QED BY <1>1 DEF Earned

\* No entry of an alias that is freed or in nobody's use.
LEMMA NoCollideEntry ==
  ASSUME NEW s \in DB, Quiet(s), NEW a \in Alias, s.alias[a] # NULL => s.alias[a].u = NULL
  PROVE  Mine(s, a, "collide") = {}
  BY DEF Mine, Quiet, Warned

-----------------------------------------------------------------------------
(* Each routine keeps them.                                                *)

LEMMA StatusLayers ==
  ASSUME NEW s \in DB, NEW s1, NEW a \in Alias, NEW st, s.alias[a] # NULL,
         OnlyStatus(s, s1, a, st), SameTimeouts(s, s1), s1.enf = s.enf, NEW au
  PROVE  /\ EnfTimed(s) => EnfTimed(s1)
         /\ (Quiet(s) /\ ("KILL_HELD" \in st <=> "KILL_HELD" \in s.alias[a].st)) => Quiet(s1)
         /\ (Earned(s, au) /\ ("IDENTIFIED" \in st => "IDENTIFIED" \in s.alias[a].st))
              => Earned(s1, au)
         /\ ("VERBOTEN" \in s.alias[a].st => "VERBOTEN" \in st) => Lasting(s, s1, {})
<1>1. EnfTimed(s) => EnfTimed(s1)
  BY DEF EnfTimed, OnlyStatus, SameTimeouts, Keeps, DB
<1>2. ASSUME Quiet(s), "KILL_HELD" \in st <=> "KILL_HELD" \in s.alias[a].st
      PROVE  Quiet(s1)
  <2>1. OneEach(s1) /\ Listed(s1)
    BY <1>2 DEF Quiet, OneEach, Listed, SameTimeouts
  <2>2. Warned(s1)
    BY <1>2 DEF Quiet, Warned, SameTimeouts, OnlyStatus, Keeps, DB
  <2>3. Held(s1)
    BY <1>2 DEF Quiet, Held, OnlyStatus, Keeps
  <2> QED BY <2>1, <2>2, <2>3 DEF Quiet
<1>3. (Earned(s, au) /\ ("IDENTIFIED" \in st => "IDENTIFIED" \in s.alias[a].st))
         => Earned(s1, au)
  BY DEF Earned, OnlyStatus, Keeps
<1>4. ("VERBOTEN" \in s.alias[a].st => "VERBOTEN" \in st) => Lasting(s, s1, {})
  BY DEF Lasting, OnlyStatus, Keeps
<1> QED BY <1>1, <1>2, <1>3, <1>4

LEMMA CollideLayers ==
  ASSUME NEW s \in DB, NEW s1, NEW a \in Alias, s.alias[a] # NULL, NEW au,
         OnlyStatus(s, s1, a, s.alias[a].st \cup {"GUESTED"}), s1.enf = s.enf,
         Forgotten(s, s1, Mine(s, a, "collide"))
  PROVE  /\ EnfTimed(s) => EnfTimed(s1)
         /\ Quiet(s) => Quiet(s1)
         /\ Earned(s, au) => Earned(s1, au)
         /\ Lasting(s, s1, {})
<1>1. s1.my \subseteq s.my /\ \A m \in s.my : m.kind = "release" => m \in s1.my
  BY DEF Forgotten, Mine
<1>2. EnfTimed(s) => EnfTimed(s1)
  BY <1>1 DEF EnfTimed, OnlyStatus, Keeps, DB
<1>3. ASSUME Quiet(s) PROVE Quiet(s1)
  <2>1. OneEach(s1)
    BY <1>1, <1>3 DEF Quiet, OneEach
  <2>2. Listed(s1)
    BY <1>3 DEF Quiet, Listed, Forgotten
  <2>3. Warned(s1)
    BY <1>1, <1>3 DEF Quiet, Warned, OnlyStatus, Keeps, DB
  <2>4. Held(s1)
    BY <1>3 DEF Quiet, Held, OnlyStatus, Keeps
  <2> QED BY <2>1, <2>2, <2>3, <2>4 DEF Quiet
<1>4. Earned(s, au) => Earned(s1, au)
  BY DEF Earned, OnlyStatus, Keeps
<1>5. Lasting(s, s1, {})
  BY DEF Lasting, OnlyStatus, Keeps
<1> QED BY <1>2, <1>3, <1>4, <1>5

LEMMA ValidateUserLayers ==
  ASSUME NEW s, NEW nk, Good(s, nk), NEW u \in User, NEW v \in Verdict, NEW x \in Timer,
         now \in Nat, NEW au
  PROVE  LET s1 == ValidateUser(s, u, v, x)
         IN  /\ s1 \in DB /\ Keeps(s, s1)
             /\ EnfTimed(s) => EnfTimed(s1)
             /\ (Quiet(s) /\ (s.una[u] # NULL => Mine(s, s.una[u], "collide") = {}))
                  => Quiet(s1)
             /\ Earned(s, au) => Earned(s1, au)
             /\ Lasting(s, s1, {})
<1> DEFINE a == s.una[u]
           s1 == ValidateUser(s, u, v, x)
           new == [na |-> a, kind |-> "collide", to |-> x]
           kept == /\ s1 \in DB /\ Keeps(s, s1)
                   /\ EnfTimed(s) => EnfTimed(s1)
                   /\ (Quiet(s) /\ (a # NULL => Mine(s, a, "collide") = {})) => Quiet(s1)
                   /\ Earned(s, au) => Earned(s1, au)
                   /\ Lasting(s, s1, {})
<1> SUFFICES kept
  OBVIOUS
<1>1. s \in DB /\ (a # NULL => a \in Alias /\ s.alias[a] # NULL /\ s.alias[a].u = u)
  BY DEF Good, Links, DB
<1>2. CASE s1 = s
  BY <1>1, <1>2 DEF Lasting, Keeps
<1>3. \/ s1 = s
      \/ a # NULL /\ (Renamed(s, s1, a) \/ Known(s, s1, a) \/ GivenTime(s, s1, a, x))
  <2>1. CASE a = NULL
    BY <2>1 DEF ValidateUser
  <2>2. CASE a # NULL
    BY <1>1, <2>2, ValidateUserIs
  <2> QED BY <2>1, <2>2
<1> HIDE DEF s1
<1>4. CASE a # NULL /\ Renamed(s, s1, a)
  BY <1>1, <1>4, CollideLayers DEF OnlyStatus, Renamed
<1>5. CASE a # NULL /\ Known(s, s1, a)
  <2>1. s1 \in DB /\ Keeps(s, s1)
    BY <1>5 DEF OnlyStatus, Known
  <2> QED BY <1>1, <1>5, <2>1, StatusLayers DEF Known
<1>6. CASE a # NULL /\ GivenTime(s, s1, a, x)
  <2>0. /\ s1 \in DB /\ Keeps(s, s1) /\ s1.alias = s.alias /\ s1.enf = s.enf
        /\ s1.my = s.my \cup {new}
        /\ \A y \in Timer : y # x => s1.timer[y] = s.timer[y]
    BY <1>6 DEF GivenTime
  <2>1. EnfTimed(s) => EnfTimed(s1)
    BY <2>0 DEF EnfTimed
  <2>2. ASSUME Quiet(s), Mine(s, a, "collide") = {}
        PROVE  Quiet(s1)
    <3>1. new.na = a /\ new.kind = "collide" /\ new.to = x
      OBVIOUS
    <3>2. \A m \in s.my : ~(m.na = a /\ m.kind = "collide")
      BY <2>2 DEF Mine
    <3> HIDE DEF new
    <3>3. OneEach(s1)
      BY <2>0, <2>2, <3>1, <3>2 DEF Quiet, OneEach
    <3>4. Listed(s1)
      BY <2>0, <2>2, <3>1 DEF Quiet, Listed
    <3>5. Warned(s1)
      BY <1>1, <1>6, <2>0, <2>2, <3>1, NullIsNothing DEF Quiet, Warned
    <3>6. Held(s1)
      BY <2>0, <2>2 DEF Quiet, Held
    <3> QED BY <3>3, <3>4, <3>5, <3>6 DEF Quiet
  <2>3. Earned(s, au) => Earned(s1, au)
    BY <2>0 DEF Earned
  <2>4. Lasting(s, s1, {})
    BY <2>0 DEF Lasting
  <2> QED BY <1>6, <2>0, <2>1, <2>2, <2>3, <2>4
<1> QED BY <1>2, <1>3, <1>4, <1>5, <1>6

\* Alone (LOGOUT REVALIDATE), cancel_user() may not find the user renamed.
LEMMA CancelUserLayers ==
  ASSUME NEW s, NEW nk, Good(s, nk), NEW u \in User, NEW x \in Timer, now \in Nat,
         s.una[u] # NULL, NEW au
  PROVE  LET a == s.una[u]
             s1 == CancelUser(s, u, x)
         IN  /\ s1 \in DB /\ Keeps(s, s1)
             /\ s1.alias[a].st \cap {"IDENTIFIED", "RECOGNIZED", "GUESTED"} = {}
             /\ EnfTimed(s) => EnfTimed(s1)
             /\ (Quiet(s) /\ ~Has(s, a, "GUESTED")) => Quiet(s1)
             /\ Mine(s1, a, "collide") = {}
             /\ Earned(s, au) => Earned(s1, au)
             /\ Lasting(s, s1, {})
<1> DEFINE a == s.una[u]
           s1 == CancelUser(s, u, x)
           new == [na |-> a, kind |-> "release", to |-> x]
           kept == /\ s1 \in DB /\ Keeps(s, s1)
                   /\ s1.alias[a].st \cap {"IDENTIFIED", "RECOGNIZED", "GUESTED"} = {}
                   /\ EnfTimed(s) => EnfTimed(s1)
                   /\ (Quiet(s) /\ ~Has(s, a, "GUESTED")) => Quiet(s1)
                   /\ Mine(s1, a, "collide") = {}
                   /\ Earned(s, au) => Earned(s1, au)
                   /\ Lasting(s, s1, {})
<1> SUFFICES kept
  OBVIOUS
<1>1. s \in DB /\ a \in Alias /\ s.alias[a] # NULL /\ s.alias[a].u = u
  BY DEF Good, Links, DB
<1>2. new.na = a /\ new.kind = "release" /\ new.to = x
  OBVIOUS
<1>3. IF Has(s, a, "GUESTED")
      THEN /\ OnlyStatus(s, s1, a, (s.alias[a].st \ Temporary) \cup {"KILL_HELD"})
           /\ s1.enf = s.enf \cup {s.alias[a].nick}
           /\ s1.my = (s.my \cup {new}) \ Mine(s, a, "collide")
      ELSE /\ OnlyStatus(s, s1, a, s.alias[a].st \ Temporary)
           /\ s1.enf = s.enf
           /\ Forgotten(s, s1, Mine(s, a, "collide"))
  BY <1>1, CancelUserIs
<1> HIDE DEF s1, new
<1>4. CASE Has(s, a, "GUESTED")
  <2>1. /\ OnlyStatus(s, s1, a, (s.alias[a].st \ Temporary) \cup {"KILL_HELD"})
        /\ s1.enf = s.enf \cup {s.alias[a].nick}
        /\ s1.my = (s.my \cup {new}) \ Mine(s, a, "collide")
    BY <1>3, <1>4
  <2>2. s1 \in DB /\ Keeps(s, s1) /\ new \in s1.my /\ s1.alias[a] # NULL
        /\ s1.alias[a].nick = s.alias[a].nick
    BY <1>1, <1>2, <2>1 DEF OnlyStatus, Mine, Keeps
  <2>3. EnfTimed(s) => EnfTimed(s1)
    <3> SUFFICES ASSUME EnfTimed(s), NEW n \in s1.enf
                 PROVE  \E m \in s1.my : m.kind = "release" /\ s1.alias[m.na] # NULL
                                         /\ s1.alias[m.na].nick = n
      BY DEF EnfTimed
    <3>1. CASE n = s.alias[a].nick
      BY <1>2, <2>2, <3>1
    <3>2. CASE n \in s.enf
      <4>1. PICK m \in s.my : m.kind = "release" /\ s.alias[m.na] # NULL
                              /\ s.alias[m.na].nick = n
        BY <3>2 DEF EnfTimed
      <4>2. m \in s1.my /\ m.na \in Alias
        BY <1>1, <2>1, <4>1 DEF Mine, DB
      <4> QED BY <2>2, <4>1, <4>2 DEF Keeps
    <3> QED BY <2>1, <3>1, <3>2
  <2>4. Mine(s1, a, "collide") = {}
    BY <1>2, <2>1 DEF Mine
  <2>5. Earned(s, au) => Earned(s1, au)
    BY <2>1 DEF Earned, OnlyStatus, Keeps, Temporary, TransGroup
  <2>6. Lasting(s, s1, {})
    BY <2>1 DEF Lasting, OnlyStatus, Keeps, Temporary, TransGroup
  <2>7. s1.alias[a].st \cap {"IDENTIFIED", "RECOGNIZED", "GUESTED"} = {}
    BY <2>1 DEF OnlyStatus, Temporary, TransGroup
  <2> QED BY <1>4, <2>2, <2>3, <2>4, <2>5, <2>6, <2>7
<1>5. CASE ~Has(s, a, "GUESTED")
  <2>1. /\ OnlyStatus(s, s1, a, s.alias[a].st \ Temporary)
        /\ s1.enf = s.enf
        /\ Forgotten(s, s1, Mine(s, a, "collide"))
    BY <1>3, <1>5
  <2>2. s1 \in DB /\ Keeps(s, s1)
        /\ s1.my \subseteq s.my /\ \A m \in s.my : m.kind = "release" => m \in s1.my
    BY <2>1 DEF OnlyStatus, Forgotten, Mine
  <2>3. EnfTimed(s) => EnfTimed(s1)
    BY <1>1, <2>1, <2>2 DEF EnfTimed, Keeps, DB
  <2>4. Mine(s1, a, "collide") = {}
    BY <2>1 DEF Mine, Forgotten
  <2>5. ASSUME Quiet(s) PROVE Quiet(s1)
    <3>1. OneEach(s1)
      BY <2>2, <2>5 DEF Quiet, OneEach
    <3>2. Listed(s1)
      BY <2>1, <2>5 DEF Quiet, Listed, Forgotten
    <3>3. \A m \in s.my : m.kind = "release" => m.na # a
      BY <1>1, <2>5, NullIsNothing DEF Quiet, Warned, Held
    <3>4. Warned(s1)
      <4> SUFFICES ASSUME NEW m \in s1.my
                   PROVE  /\ s1.alias[m.na] # NULL
                          /\ m.kind = "collide" => s1.alias[m.na].u # NULL
                          /\ m.kind = "release" => "KILL_HELD" \in s1.alias[m.na].st
        BY DEF Warned
      <4>1. m \in s.my /\ m.na \in Alias /\ s.alias[m.na] # NULL
        BY <1>1, <2>2, <2>5 DEF Quiet, Warned, DB
      <4>2. m.kind = "release" => s1.alias[m.na] = s.alias[m.na]
        BY <2>1, <3>3, <4>1 DEF OnlyStatus
      <4> QED BY <2>2, <2>5, <4>1, <4>2 DEF Quiet, Warned, Keeps
    <3>5. Held(s1)
      BY <2>1, <2>5 DEF Quiet, Held, OnlyStatus, Keeps, Temporary
    <3> QED BY <3>1, <3>2, <3>4, <3>5 DEF Quiet
  <2>6. Earned(s, au) => Earned(s1, au)
    BY <2>1 DEF Earned, OnlyStatus, Keeps, Temporary, TransGroup
  <2>7. Lasting(s, s1, {})
    BY <2>1 DEF Lasting, OnlyStatus, Keeps, Temporary, TransGroup
  <2>8. s1.alias[a].st \cap {"IDENTIFIED", "RECOGNIZED", "GUESTED"} = {}
    BY <2>1 DEF OnlyStatus, Temporary, TransGroup
  <2> QED BY <1>5, <2>2, <2>3, <2>4, <2>5, <2>6, <2>7, <2>8
<1> QED BY <1>4, <1>5

\* cancel_user() for a user who leaves the nick: a renamed one leaves it to
\* the enforcer.
LEMMA LeaveNick ==
  ASSUME NEW s, NEW nk, Good(s, nk), NEW u \in User, NEW x \in Timer, now \in Nat, NEW au
  PROVE  LET s1 == Unlink(CancelUser(s, u, x), u)
         IN  /\ s1 \in DB
             /\ EnfTimed(s) => EnfTimed(s1)
             /\ Lists(s, nk, {}) => Lists(s1, nk, {u})
             /\ Quiet(s) => Quiet(s1)
             /\ Earned(s, au) => Earned(s1, au)
             /\ Lasting(s, s1, {})
             /\ \A p \in Alias : p # s.una[u] => s1.alias[p] = s.alias[p]
<1> DEFINE a == s.una[u]
           s0 == CancelUser(s, u, x)
           s1 == Unlink(s0, u)
           new == [na |-> a, kind |-> "release", to |-> x]
           kept == /\ s1 \in DB
                   /\ EnfTimed(s) => EnfTimed(s1)
                   /\ Lists(s, nk, {}) => Lists(s1, nk, {u})
                   /\ Quiet(s) => Quiet(s1)
                   /\ Earned(s, au) => Earned(s1, au)
                   /\ Lasting(s, s1, {})
                   /\ \A p \in Alias : p # a => s1.alias[p] = s.alias[p]
<1> SUFFICES kept
  OBVIOUS
<1>1. CASE a = NULL
  <2>1. s1 = s
    BY <1>1 DEF CancelUser, Unlink
  <2> HIDE DEF s1
  <2> QED BY <2>1 DEF Lists, LinkedBut, Lasting, Good
<1>2. CASE a # NULL
  <2>1. s \in DB /\ a \in Alias /\ s.alias[a] # NULL /\ s.alias[a].u = u
    BY <1>2 DEF Good, Links, DB
  <2>2. /\ s0 \in DB /\ Keeps(s, s0)
        /\ s0.alias[a].st \cap {"IDENTIFIED", "RECOGNIZED", "GUESTED"} = {}
        /\ EnfTimed(s) => EnfTimed(s0)
        /\ Earned(s, au) => Earned(s0, au)
        /\ Lasting(s, s0, {})
    BY <1>2, CancelUserLayers
  <2>3. IF Has(s, a, "GUESTED")
        THEN /\ OnlyStatus(s, s0, a, (s.alias[a].st \ Temporary) \cup {"KILL_HELD"})
             /\ s0.enf = s.enf \cup {s.alias[a].nick}
             /\ s0.my = (s.my \cup {new}) \ Mine(s, a, "collide")
             /\ \A y \in Timer : y # x =>
                   s0.timer[y] = IF \E m \in Mine(s, a, "collide") : m.to = y
                                 THEN NULL ELSE s.timer[y]
        ELSE /\ OnlyStatus(s, s0, a, s.alias[a].st \ Temporary)
             /\ s0.enf = s.enf
             /\ Forgotten(s, s0, Mine(s, a, "collide"))
    BY <1>2, <2>1, CancelUserIs
  <2>4. new.na = a /\ new.kind = "release" /\ new.to = x
    OBVIOUS
  <2>5. ~Has(s, a, "GUESTED") => (Quiet(s) => Quiet(s0))
    BY <1>2, CancelUserLayers
  <2> HIDE DEF s0, new
  <2>6. s0.una[u] = a /\ s0.alias[a] # NULL /\ s0.alias[a].u = u
    BY <2>1, <2>2 DEF Keeps
  <2>7. /\ s1 \in DB /\ s1.nalists = s0.nalists /\ SameProtection(s0, s1)
        /\ \A w \in User : s1.una[w] = IF w = u THEN NULL ELSE s0.una[w]
        /\ \A p \in Alias : p # a => s1.alias[p] = s0.alias[p]
        /\ s1.alias[a] # NULL /\ s1.alias[a].u = NULL
        /\ s1.alias[a].nick = s0.alias[a].nick /\ s1.alias[a].nc = s0.alias[a].nc
        /\ s1.alias[a].st = s0.alias[a].st
    <3>1. Relinked(s0, s1, u, a, NULL, NULL)
      BY <1>2, <2>2, <2>6, UnlinkIs
    <3> HIDE DEF s1
    <3> QED BY <3>1 DEF Relinked
  <2> HIDE DEF s1
  <2>8. EnfTimed(s) => EnfTimed(s1)
    BY <2>2, <2>7 DEF EnfTimed, SameProtection, SameTimeouts, DB
  <2>9. ASSUME Lists(s, nk, {}) PROVE Lists(s1, nk, {u})
    <3>1. Lists(s0, nk, {})
      BY <2>1, <2>2, <2>9, KeepsLists
    <3>2. OneAlias(s1)
      BY <2>6, <2>7, <3>1 DEF Lists, OneAlias
    <3>3. Mutual(s1)
      BY <1>2, <2>6, <2>7, <3>1, NullIsNothing DEF Lists, Mutual
    <3>4. LinkedBut(s1, nk, {u})
      BY <2>7, <3>1 DEF Lists, LinkedBut, Found
    <3> QED BY <3>2, <3>3, <3>4 DEF Lists
  <2>10. Earned(s, au) => Earned(s1, au)
    BY <2>2, <2>7 DEF Earned
  <2>11. Lasting(s, s1, {})
    BY <2>2, <2>7 DEF Lasting
  <2>12. \A p \in Alias : p # a => s1.alias[p] = s.alias[p]
    BY <2>3, <2>7 DEF OnlyStatus
  <2>13. ASSUME Quiet(s) PROVE Quiet(s1)
    <3>1. s1.my = s0.my /\ s1.timer = s0.timer /\ s1.enf = s0.enf
      BY <2>7 DEF SameProtection, SameTimeouts
    <3>2. \A m \in s.my : m.na = a => m.kind = "collide"
      <4>1. \A m \in s.my : m.kind \in Kind
        BY <2>1 DEF DB
      <4> QED BY <2>1, <2>13, <4>1, NullIsNothing DEF Quiet, Warned, Held, Kind
    <3>3. CASE Has(s, a, "GUESTED")
      <4>0. /\ OnlyStatus(s, s0, a, (s.alias[a].st \ Temporary) \cup {"KILL_HELD"})
            /\ s0.enf = s.enf \cup {s.alias[a].nick}
            /\ s0.my = (s.my \cup {new}) \ Mine(s, a, "collide")
            /\ \A y \in Timer : y # x =>
                  s0.timer[y] = IF \E m \in Mine(s, a, "collide") : m.to = y
                                THEN NULL ELSE s.timer[y]
        BY <2>3, <3>3
      <4>1. \A m \in s1.my : m = new \/ (m \in s.my /\ m.na # a)
        BY <3>1, <3>2, <4>0 DEF Mine
      <4>2. OneEach(s1)
        BY <2>4, <2>13, <4>1 DEF Quiet, OneEach
      <4>3. Listed(s1)
        <5> SUFFICES ASSUME NEW y \in Timer, s1.timer[y] # NULL
                     PROVE  \E m \in s1.my : m.to = y
          BY DEF Listed
        <5>1. CASE y = x
          BY <2>4, <3>1, <4>0, <5>1 DEF Mine
        <5>2. CASE y # x
          BY <2>13, <3>1, <4>0, <5>2 DEF Quiet, Listed
        <5> QED BY <5>1, <5>2
      <4>4. Warned(s1)
        <5> SUFFICES ASSUME NEW m \in s1.my
                     PROVE  /\ s1.alias[m.na] # NULL
                            /\ m.kind = "collide" => s1.alias[m.na].u # NULL
                            /\ m.kind = "release" => "KILL_HELD" \in s1.alias[m.na].st
          BY DEF Warned
        <5>1. CASE m = new
          BY <2>4, <2>7, <4>0, <5>1, SMTT(20) DEF OnlyStatus
        <5>2. CASE m \in s.my /\ m.na # a
          <6>1. s1.alias[m.na] = s.alias[m.na]
            BY <2>1, <2>12, <5>2 DEF DB
          <6> QED BY <2>13, <5>2, <6>1 DEF Quiet, Warned
        <5> QED BY <4>1, <5>1, <5>2
      <4>5. Held(s1)
        <5> SUFFICES ASSUME NEW p \in Alias, s1.alias[p] # NULL,
                            "KILL_HELD" \in s1.alias[p].st
                     PROVE  s1.alias[p].u = NULL /\ s1.alias[p].nick \in s1.enf
          BY DEF Held
        <5>1. CASE p = a
          BY <2>1, <2>2, <2>7, <3>1, <4>0, <5>1, ZenonT(40) DEF Keeps
        <5>2. CASE p # a
          BY <2>12, <2>13, <3>1, <4>0, <5>2 DEF Quiet, Held
        <5> QED BY <5>1, <5>2
      <4> QED BY <4>2, <4>3, <4>4, <4>5 DEF Quiet
    <3>4. CASE ~Has(s, a, "GUESTED")
      <4>1. Quiet(s0) /\ \A m \in s0.my : m.na # a
        BY <2>3, <2>5, <2>13, <3>2, <3>4 DEF Forgotten, Mine
      <4>2. OneEach(s1) /\ Listed(s1)
        BY <3>1, <4>1 DEF Quiet, OneEach, Listed
      <4>3. Warned(s1)
        BY <2>2, <2>7, <3>1, <4>1 DEF Quiet, Warned, DB
      <4>4. Held(s1)
        <5> SUFFICES ASSUME NEW p \in Alias, s1.alias[p] # NULL,
                            "KILL_HELD" \in s1.alias[p].st
                     PROVE  s1.alias[p].u = NULL /\ s1.alias[p].nick \in s1.enf
          BY DEF Held
        <5>1. s0.alias[p] # NULL /\ "KILL_HELD" \in s0.alias[p].st
              /\ s1.alias[p].nick = s0.alias[p].nick
              /\ (s1.alias[p].u = s0.alias[p].u \/ s1.alias[p].u = NULL)
          BY <2>6, <2>7
        <5> QED BY <3>1, <4>1, <5>1 DEF Quiet, Held
      <4> QED BY <4>2, <4>3, <4>4 DEF Quiet
    <3> QED BY <3>3, <3>4
  <2> QED BY <2>7, <2>8, <2>9, <2>10, <2>11, <2>12, <2>13
<1> QED BY <1>1, <1>2

\* Every identified alias but a has been earned.
EarnedBut(s, au, a) ==
    \A p \in Alias :
        (p # a /\ s.alias[p] # NULL /\ "IDENTIFIED" \in s.alias[p].st) =>
            s.alias[p].u # NULL /\ au[s.alias[p].u] = s.alias[p].nc

LEMMA LinkLayers ==
  ASSUME NEW s \in DB, NEW u \in User, NEW a \in Alias, s.alias[a] # NULL,
         NEW nk, NEW W, NEW au, NEW au1, \A w \in User : w # u => au1[w] = au[w]
  PROVE  LET s1 == Link(s, u, a)
         IN  /\ Relinked(s, s1, u, a, a, u)
             /\ EnfTimed(s) => EnfTimed(s1)
             /\ (/\ s.una[u] = NULL /\ s.alias[a].u = NULL
                 /\ Lists(s, nk, W) /\ Found(s, nk[u]) = a)
                  => Lists(s1, nk, W \ {u})
             /\ (Quiet(s) /\ ~Has(s, a, "KILL_HELD")) => Quiet(s1)
             /\ (/\ s.una[u] = NULL /\ Mutual(s) /\ EarnedBut(s, au, a)
                 /\ Has(s, a, "IDENTIFIED") => au1[u] = s.alias[a].nc)
                  => Earned(s1, au1)
             /\ Lasting(s, s1, {})
<1> DEFINE s1 == Link(s, u, a)
<1>1. Relinked(s, s1, u, a, a, u)
  BY LinkIs
<1> HIDE DEF s1
<1>2. s1.my = s.my /\ s1.timer = s.timer /\ s1.enf = s.enf
  BY <1>1 DEF Relinked, SameProtection, SameTimeouts
<1>3. EnfTimed(s) => EnfTimed(s1)
  BY <1>1, <1>2 DEF EnfTimed, Relinked, DB
<1>4. ASSUME s.una[u] = NULL, s.alias[a].u = NULL, Lists(s, nk, W), Found(s, nk[u]) = a
      PROVE  Lists(s1, nk, W \ {u})
  <2>1. OneAlias(s1)
    BY <1>1, <1>4 DEF Lists, OneAlias, Relinked
  <2>2. \A w \in User : s.una[w] # a
    BY <1>4, NullIsNothing DEF Lists, Mutual
  <2>3. Mutual(s1)
    <3> SUFFICES ASSUME NEW p \in Alias, NEW w \in User, s1.alias[p] # NULL
                 PROVE  s1.alias[p].u = w <=> s1.una[w] = p
      BY DEF Mutual
    <3>1. CASE p = a
      BY <1>1, <2>2, <3>1 DEF Relinked
    <3>2. CASE p # a
      <4>1. s1.alias[p] = s.alias[p] /\ s.alias[p] # NULL
        BY <1>1, <3>2 DEF Relinked
      <4>2. s.alias[p].u = w <=> s.una[w] = p
        BY <1>4, <4>1 DEF Lists, Mutual
      <4>3. w = u => s.una[w] # p /\ s1.una[w] # p
        BY <1>1, <1>4, <3>2, NullIsNothing DEF Relinked
      <4> QED BY <1>1, <4>1, <4>2, <4>3 DEF Relinked
    <3> QED BY <3>1, <3>2
  <2>4. LinkedBut(s1, nk, W \ {u})
    BY <1>1, <1>4 DEF Lists, LinkedBut, Relinked, Found
  <2> QED BY <2>1, <2>3, <2>4 DEF Lists
<1>5. ASSUME Quiet(s), ~Has(s, a, "KILL_HELD")
      PROVE  Quiet(s1)
  <2>1. OneEach(s1) /\ Listed(s1)
    BY <1>2, <1>5 DEF Quiet, OneEach, Listed
  <2>2. Warned(s1)
    BY <1>1, <1>2, <1>5, NullIsNothing DEF Quiet, Warned, Relinked, DB
  <2>3. Held(s1)
    BY <1>1, <1>2, <1>5 DEF Quiet, Held, Relinked, Has
  <2> QED BY <2>1, <2>2, <2>3 DEF Quiet
<1>6. ASSUME s.una[u] = NULL, Mutual(s), EarnedBut(s, au, a),
             Has(s, a, "IDENTIFIED") => au1[u] = s.alias[a].nc
      PROVE  Earned(s1, au1)
  <2> SUFFICES ASSUME NEW p \in Alias, s1.alias[p] # NULL, "IDENTIFIED" \in s1.alias[p].st
               PROVE  s1.alias[p].u # NULL /\ au1[s1.alias[p].u] = s1.alias[p].nc
    BY DEF Earned
  <2>1. CASE p = a
    BY <1>1, <1>6, <2>1, NullIsNothing DEF Relinked, Has
  <2>2. CASE p # a
    <3>1. s1.alias[p] = s.alias[p] /\ s.alias[p] \in AliasRec
      BY <1>1, <2>2 DEF Relinked, DB
    <3>2. s.alias[p].u # NULL /\ au[s.alias[p].u] = s.alias[p].nc
      BY <1>6, <2>2, <3>1 DEF EarnedBut
    <3>3. s.alias[p].u \in User /\ s.alias[p].u # u
      BY <1>6, <3>1, <3>2, NullIsNothing DEF AliasRec, Mutual
    <3> QED BY <3>1, <3>2, <3>3
  <2> QED BY <2>1, <2>2
<1>7. Lasting(s, s1, {})
  BY <1>1 DEF Lasting, Relinked
<1>8. /\ Relinked(s, s1, u, a, a, u)
      /\ EnfTimed(s) => EnfTimed(s1)
      /\ (/\ s.una[u] = NULL /\ s.alias[a].u = NULL
          /\ Lists(s, nk, W) /\ Found(s, nk[u]) = a)
           => Lists(s1, nk, W \ {u})
      /\ (Quiet(s) /\ ~Has(s, a, "KILL_HELD")) => Quiet(s1)
      /\ (/\ s.una[u] = NULL /\ Mutual(s) /\ EarnedBut(s, au, a)
          /\ Has(s, a, "IDENTIFIED") => au1[u] = s.alias[a].nc)
           => Earned(s1, au1)
      /\ Lasting(s, s1, {})
  BY <1>1, <1>3, <1>4, <1>5, <1>6, <1>7
<1> QED BY <1>8 DEF s1

\* A user takes a nick nobody else has and no enforcer holds.
LEMMA JoinNick ==
  ASSUME NEW s, NEW nk, Good(s, nk), NEW u \in User, s.una[u] = NULL,
         nk[u] \in Nick => \A w \in User : w # u => nk[w] # nk[u],
         NEW au, NEW au1, \A w \in User : w # u => au1[w] = au[w]
  PROVE  LET s1 == Link(s, u, Found(s, nk[u]))
         IN  /\ s1 \in DB
             /\ EnfTimed(s) => EnfTimed(s1)
             /\ Lists(s, nk, {u}) => Lists(s1, nk, {})
             /\ (Lists(s, nk, {u}) /\ Quiet(s) /\ nk[u] \notin s.enf)
                  => Quiet(s1) /\ (s1.una[u] # NULL => Mine(s1, s1.una[u], "collide") = {})
             /\ (Lists(s, nk, {u}) /\ Earned(s, au)) => Earned(s1, au1)
             /\ Lasting(s, s1, {})
             /\ s1.una[u] = Found(s, nk[u])
<1> DEFINE n == nk[u]
           a == Found(s, n)
           s1 == Link(s, u, a)
           kept == /\ s1 \in DB
                   /\ EnfTimed(s) => EnfTimed(s1)
                   /\ Lists(s, nk, {u}) => Lists(s1, nk, {})
                   /\ (Lists(s, nk, {u}) /\ Quiet(s) /\ n \notin s.enf)
                        => Quiet(s1) /\ (s1.una[u] # NULL => Mine(s1, s1.una[u], "collide") = {})
                   /\ (Lists(s, nk, {u}) /\ Earned(s, au)) => Earned(s1, au1)
                   /\ Lasting(s, s1, {})
                   /\ s1.una[u] = a
<1> SUFFICES kept
  OBVIOUS
<1>1. s \in DB
  BY DEF Good
<1>2. CASE a = NULL
  <2>1. s1 = s
    BY <1>2 DEF Link
  <2>2. Lists(s, nk, {u}) => Lists(s, nk, {})
    BY <1>2 DEF Lists, LinkedBut
  <2>3. (Lists(s, nk, {u}) /\ Earned(s, au)) => Earned(s, au1)
    BY <1>1, NewAuthEarned
  <2>4. Lasting(s, s, {})
    BY DEF Lasting
  <2> HIDE DEF s1
  <2> QED BY <1>1, <1>2, <2>1, <2>2, <2>3, <2>4
<1>3. CASE a # NULL
  <2>1. n \in Nick /\ a \in Alias /\ s.alias[a] # NULL /\ s.alias[a].nick = n
    BY <1>3, FoundGood
  <2>2. Lists(s, nk, {u}) => s.alias[a].u = NULL
    <3> SUFFICES ASSUME Lists(s, nk, {u}), s.alias[a].u # NULL PROVE FALSE
      OBVIOUS
    <3>1. s.alias[a].u \in User /\ s.una[s.alias[a].u] = a
      BY <1>1, <2>1 DEF Lists, Mutual, DB, AliasRec
    <3>2. nk[s.alias[a].u] = n /\ s.alias[a].u # u
      BY <1>3, <2>1, <3>1 DEF Good, NickLinks
    <3> QED BY <2>1, <3>1, <3>2
  <2>3. Quiet(s) /\ n \notin s.enf => ~Has(s, a, "KILL_HELD")
    BY <2>1 DEF Quiet, Held, Has
  <2>4. Earned(s, au) => EarnedBut(s, au, a)
    BY DEF Earned, EarnedBut
  <2>5. Earned(s, au) /\ s.alias[a].u = NULL => ~Has(s, a, "IDENTIFIED")
    BY <2>1 DEF Earned, Has
  <2>6. /\ Relinked(s, s1, u, a, a, u)
        /\ EnfTimed(s) => EnfTimed(s1)
        /\ (Lists(s, nk, {u}) /\ s.alias[a].u = NULL) => Lists(s1, nk, {u} \ {u})
        /\ (Quiet(s) /\ ~Has(s, a, "KILL_HELD")) => Quiet(s1)
        /\ (/\ Mutual(s) /\ EarnedBut(s, au, a)
            /\ Has(s, a, "IDENTIFIED") => au1[u] = s.alias[a].nc)
             => Earned(s1, au1)
        /\ Lasting(s, s1, {})
    BY <1>1, <2>1, LinkLayers
  <2> HIDE DEF s1, n
  <2>7. s1 \in DB /\ s1.una[u] = a /\ s1.my = s.my
    BY <2>6 DEF Relinked, SameProtection, SameTimeouts
  <2>8. Lists(s, nk, {u}) /\ Quiet(s) => Mine(s1, a, "collide") = {}
    BY <1>1, <2>1, <2>2, <2>7, NoCollideEntry DEF Mine
  <2>9. {u} \ {u} = {} /\ (Lists(s, nk, {u}) => Mutual(s))
    BY DEF Lists
  <2> HIDE DEF a
  <2> QED BY <2>2, <2>3, <2>4, <2>5, <2>6, <2>7, <2>8, <2>9
<1> QED BY <1>2, <1>3

LEMMA MakeAliasLayers ==
  ASSUME NEW s, NEW nk, Good(s, nk), NEW b \in Alias, s.alias[b] = NULL, NEW n \in Nick,
         NEW c \in Core, NEW st \in SUBSET Status, NEW au, NEW W,
         \A w \in User : nk[w] = n => w \in W
  PROVE  LET s1 == MakeAlias(s, b, n, c, st)
         IN  /\ EnfTimed(s) => EnfTimed(s1)
             /\ (Lists(s, nk, {}) /\ s.nalists[n] = NULL)
                  => Lists(s1, nk, W)
             /\ (Quiet(s) /\ "KILL_HELD" \notin st) => Quiet(s1)
             /\ Earned(s, au) => EarnedBut(s1, au, b)
             /\ Lasting(s, s1, {})
<1> DEFINE s1 == MakeAlias(s, b, n, c, st)
           kept == /\ EnfTimed(s) => EnfTimed(s1)
                   /\ (Lists(s, nk, {}) /\ s.nalists[n] = NULL)
                        => Lists(s1, nk, W)
                   /\ (Quiet(s) /\ "KILL_HELD" \notin st) => Quiet(s1)
                   /\ Earned(s, au) => EarnedBut(s1, au, b)
                   /\ Lasting(s, s1, {})
<1> SUFFICES kept
  OBVIOUS
<1>1. s \in DB /\ Links(s)
  BY DEF Good
<1>2. /\ s1 \in DB /\ s1.una = s.una /\ SameProtection(s, s1)
      /\ \A k \in Nick : s1.nalists[k] = IF k = n THEN b ELSE s.nalists[k]
      /\ \A p \in Alias : p # b => s1.alias[p] = s.alias[p]
      /\ s1.alias[b] # NULL /\ s1.alias[b].u = NULL
      /\ s1.alias[b].nick = n /\ s1.alias[b].nc = c /\ s1.alias[b].st = st
  BY <1>1, MakeAliasIs
<1> HIDE DEF s1
<1>3. s1.my = s.my /\ s1.timer = s.timer /\ s1.enf = s.enf
  BY <1>2 DEF SameProtection, SameTimeouts
<1>4. EnfTimed(s) => EnfTimed(s1)
  BY <1>1, <1>2, <1>3 DEF EnfTimed, DB
<1>5. ASSUME Lists(s, nk, {}), s.nalists[n] = NULL
      PROVE  Lists(s1, nk, W)
  <2>1. OneAlias(s1)
    <3> SUFFICES ASSUME NEW p \in Alias, s1.alias[p] # NULL
                 PROVE  s1.nalists[s1.alias[p].nick] = p
      BY DEF OneAlias
    <3>1. CASE p = b
      BY <1>2, <3>1
    <3>2. CASE p # b
      <4>1. s1.alias[p] = s.alias[p] /\ s.alias[p] \in AliasRec
        BY <1>1, <1>2, <3>2 DEF DB
      <4>2. s.nalists[s.alias[p].nick] = p /\ s.alias[p].nick \in Nick
        BY <1>5, <4>1 DEF Lists, OneAlias, AliasRec
      <4>3. s.alias[p].nick # n
        BY <1>5, <4>2, NullIsNothing
      <4> QED BY <1>2, <4>1, <4>2, <4>3
    <3> QED BY <3>1, <3>2
  <2>2. \A w \in User : s.una[w] # b
    BY <1>1, NullIsNothing DEF Links
  <2>3. Mutual(s1)
    BY <1>2, <1>5, <2>2, NullIsNothing DEF Lists, Mutual
  <2>4. LinkedBut(s1, nk, W)
    BY <1>2, <1>5 DEF Lists, LinkedBut, Found
  <2> QED BY <2>1, <2>3, <2>4 DEF Lists
<1>6. ASSUME Quiet(s), "KILL_HELD" \notin st
      PROVE  Quiet(s1)
  <2>1. OneEach(s1) /\ Listed(s1)
    BY <1>3, <1>6 DEF Quiet, OneEach, Listed
  <2>2. Warned(s1)
    BY <1>1, <1>2, <1>3, <1>6 DEF Quiet, Warned, DB
  <2>3. Held(s1)
    BY <1>2, <1>3, <1>6 DEF Quiet, Held
  <2> QED BY <2>1, <2>2, <2>3 DEF Quiet
<1>7. Earned(s, au) => EarnedBut(s1, au, b)
  BY <1>2 DEF Earned, EarnedBut
<1>8. Lasting(s, s1, {})
  BY <1>2 DEF Lasting
<1> QED BY <1>4, <1>5, <1>6, <1>7, <1>8

\* An alias that is not identified has been earned in any case.
LEMMA NotIdentifiedEarned ==
  ASSUME NEW s, NEW au, NEW b, EarnedBut(s, au, b),
         s.alias[b] # NULL => "IDENTIFIED" \notin s.alias[b].st
  PROVE  Earned(s, au)
  BY DEF Earned, EarnedBut

\* Of the users only u proves something, and of the group c if need be.
Proves(au, au1, u, c, st) ==
    /\ \A w \in User : w # u => au1[w] = au[w]
    /\ "IDENTIFIED" \in st => au1[u] = c

\* A nick newly made, and the user of it, if there is one, linked to it.
LEMMA NewAliasLinked ==
  ASSUME NEW s, NEW nk, Good(s, nk), Unique(nk), NEW b \in Alias, s.alias[b] = NULL,
         NEW u \in User, NEW c \in Core, NEW st \in SUBSET Status, nk[u] \in Nick,
         NEW au, NEW au1, Proves(au, au1, u, c, st), "KILL_HELD" \notin st
  PROVE  LET s1 == Link(MakeAlias(s, b, nk[u], c, st), u, b)
         IN  /\ s1 \in DB /\ s1.una[u] = b
             /\ s1.alias[b] # NULL /\ s1.alias[b].nick = nk[u] /\ s1.alias[b].st = st
             /\ EnfTimed(s) => EnfTimed(s1)
             /\ Quiet(s) => Quiet(s1)
             /\ Lasting(s, s1, {})
             /\ (s.una[u] = NULL /\ s.nalists[nk[u]] = NULL /\ Lists(s, nk, {})) =>
                  Lists(s1, nk, {}) /\ (Earned(s, au) => Earned(s1, au1))
<1> DEFINE n == nk[u]
           s0 == MakeAlias(s, b, n, c, st)
           s1 == Link(s0, u, b)
           kept == /\ s1 \in DB /\ s1.una[u] = b
                   /\ s1.alias[b] # NULL /\ s1.alias[b].nick = n /\ s1.alias[b].st = st
                   /\ EnfTimed(s) => EnfTimed(s1)
                   /\ Quiet(s) => Quiet(s1)
                   /\ Lasting(s, s1, {})
                   /\ (s.una[u] = NULL /\ s.nalists[n] = NULL /\ Lists(s, nk, {})) =>
                        Lists(s1, nk, {}) /\ (Earned(s, au) => Earned(s1, au1))
<1> SUFFICES kept
  OBVIOUS
<1>1. s \in DB
  BY DEF Good
<1>2. /\ s0 \in DB /\ s0.una = s.una
      /\ \A k \in Nick : s0.nalists[k] = IF k = n THEN b ELSE s.nalists[k]
      /\ s0.alias[b] # NULL /\ s0.alias[b].u = NULL
      /\ s0.alias[b].nick = n /\ s0.alias[b].nc = c /\ s0.alias[b].st = st
  BY <1>1, MakeAliasIs
<1>3. /\ EnfTimed(s) => EnfTimed(s0)
      /\ (Lists(s, nk, {}) /\ s.nalists[n] = NULL) => Lists(s0, nk, {u})
      /\ Quiet(s) => Quiet(s0)
      /\ Earned(s, au) => EarnedBut(s0, au, b)
      /\ Lasting(s, s0, {})
  <2>1. n \in Nick /\ \A w \in User : nk[w] = n => w \in {u}
    BY DEF Unique
  <2> HIDE DEF n, kept
  <2> QED BY <2>1, MakeAliasLayers
<1>4. {u} \ {u} = {}
  OBVIOUS
<1> HIDE DEF s0, n
<1>5. Relinked(s0, s1, u, b, b, u)
  BY <1>2, LinkIs
<1>6. /\ EnfTimed(s0) => EnfTimed(s1)
      /\ (s.una[u] = NULL /\ Lists(s0, nk, {u})) => Lists(s1, nk, {u} \ {u})
      /\ Quiet(s0) => Quiet(s1)
      /\ (s.una[u] = NULL /\ Mutual(s0) /\ EarnedBut(s0, au, b)) => Earned(s1, au1)
      /\ Lasting(s0, s1, {})
  <2>1. Found(s0, nk[u]) = b
    BY <1>2 DEF Found, n
  <2> QED BY <1>2, <2>1, LinkLayers DEF Has, Proves
<1> HIDE DEF s1
<1>7. s1 \in DB /\ s1.una[u] = b
      /\ s1.alias[b] # NULL /\ s1.alias[b].nick = n /\ s1.alias[b].st = st
  BY <1>2, <1>5 DEF Relinked
<1>8. Lists(s0, nk, {u}) => Mutual(s0)
  BY DEF Lists
<1>9. Lasting(s, s1, {})
  BY <1>3, <1>6 DEF Lasting
<1> QED BY <1>3, <1>4, <1>6, <1>7, <1>8, <1>9

LEMMA DelNickLayers ==
  ASSUME NEW s, NEW nk, Good(s, nk), NEW a \in Alias, s.alias[a] # NULL, NEW au
  PROVE  LET s1 == DelNick(s, a)
         IN  /\ s1 \in DB /\ s1.alias[a] = NULL
             /\ \A p \in Alias : p # a => (s1.alias[p] = NULL <=> s.alias[p] = NULL)
             /\ EnfTimed(s) => EnfTimed(s1)
             /\ Lists(s, nk, {}) =>
                  /\ Lists(s1, nk, {}) /\ s1.nalists[s.alias[a].nick] = NULL
                  /\ Quiet(s) => Quiet(s1)
                  /\ Earned(s, au) => Earned(s1, au)
             /\ \A u \in User : s.una[u] \in {a, NULL} => s1.una[u] = NULL
             /\ Lasting(s, s1, {a})
<1> DEFINE s1 == DelNick(s, a)
           mine == {m \in s.my : m.na = a}
           kept == /\ s1 \in DB /\ s1.alias[a] = NULL
                   /\ \A p \in Alias : p # a => (s1.alias[p] = NULL <=> s.alias[p] = NULL)
                   /\ EnfTimed(s) => EnfTimed(s1)
                   /\ Lists(s, nk, {}) =>
                        /\ Lists(s1, nk, {}) /\ s1.nalists[s.alias[a].nick] = NULL
                        /\ Quiet(s) => Quiet(s1)
                        /\ Earned(s, au) => Earned(s1, au)
                   /\ \A u \in User : s.una[u] \in {a, NULL} => s1.una[u] = NULL
                   /\ Lasting(s, s1, {a})
<1> SUFFICES kept
  OBVIOUS
<1>1. s \in DB /\ Links(s) /\ Ranked(s) /\ s.alias[a] \in AliasRec
  BY DEF Good, DB
<1>2. /\ s1 \in DB
      /\ Freed(s, s1, a)
      /\ \A w \in User : s1.una[w] = IF w = s.alias[a].u THEN NULL ELSE s.una[w]
      /\ s1.enf = IF \E m \in mine : m.kind = "release"
                  THEN s.enf \ {s.alias[a].nick} ELSE s.enf
      /\ Forgotten(s, s1, mine)
  BY <1>1, DelNickIs
<1> HIDE DEF s1
<1>3. \A m \in s1.my : m \in s.my /\ m.na # a /\ m.na \in Alias
  BY <1>1, <1>2 DEF Forgotten, DB
<1>4. ASSUME EnfTimed(s) PROVE EnfTimed(s1)
  <2> SUFFICES ASSUME NEW n \in s1.enf
               PROVE  \E m \in s1.my : m.kind = "release" /\ s1.alias[m.na] # NULL
                                       /\ s1.alias[m.na].nick = n
    BY DEF EnfTimed
  <2>1. PICK m \in s.my : m.kind = "release" /\ s.alias[m.na] # NULL
                          /\ s.alias[m.na].nick = n
    BY <1>2, <1>4 DEF EnfTimed
  <2>2. m.na # a
    BY <1>2, <2>1
  <2>3. m \in s1.my /\ m.na \in Alias
    BY <1>1, <1>2, <2>2 DEF Forgotten, DB
  <2> QED BY <1>2, <2>1, <2>2, <2>3 DEF Freed
<1>5. \A u \in User : s.una[u] \in {a, NULL} => s1.una[u] = NULL
  BY <1>1, <1>2, NullIsNothing DEF Links
<1>6. Lasting(s, s1, {a})
  BY <1>2 DEF Lasting, Freed
<1>7. ASSUME Lists(s, nk, {})
      PROVE  /\ Lists(s1, nk, {}) /\ s1.nalists[s.alias[a].nick] = NULL
             /\ Quiet(s) => Quiet(s1)
             /\ Earned(s, au) => Earned(s1, au)
  <2>1. s.nalists[s.alias[a].nick] = a /\ s.alias[a].nick \in Nick
    BY <1>1, <1>7 DEF Lists, OneAlias, AliasRec
  <2>2. s.alias[a].next = NULL
    <3> SUFFICES ASSUME s.alias[a].next # NULL PROVE FALSE
      OBVIOUS
    <3> DEFINE nx == s.alias[a].next
    <3>1. nx \in Alias /\ s.alias[nx] # NULL /\ s.alias[nx].nick = s.alias[a].nick
      BY <1>1 DEF Links, AliasRec
    <3>2. nx = a
      BY <1>7, <2>1, <3>1 DEF Lists, OneAlias
    <3>3. PICK f \in [Alias -> Nat] : RankedBy(s, f)
      BY <1>1 DEF Ranked
    <3>4. f[a] < f[a] /\ f[a] \in Nat
      BY <3>2, <3>3 DEF RankedBy
    <3> QED BY <3>4
  <2>3. \A n \in Nick : s1.nalists[n] = IF n = s.alias[a].nick THEN NULL ELSE s.nalists[n]
    BY <1>1, <1>2, <2>1, <2>2, NullIsNothing DEF Freed, Links
  <2>4. OneAlias(s1)
    <3> SUFFICES ASSUME NEW p \in Alias, s1.alias[p] # NULL
                 PROVE  s1.nalists[s1.alias[p].nick] = p
      BY DEF OneAlias
    <3>1. p # a /\ s.alias[p] # NULL /\ s1.alias[p].nick = s.alias[p].nick
          /\ s.alias[p] \in AliasRec
      BY <1>1, <1>2 DEF Freed, DB
    <3>2. s.nalists[s.alias[p].nick] = p /\ s.alias[p].nick \in Nick
      BY <1>7, <3>1 DEF Lists, OneAlias, AliasRec
    <3> QED BY <2>1, <2>3, <3>1, <3>2
  <2>5. Mutual(s1)
    <3> SUFFICES ASSUME NEW p \in Alias, NEW w \in User, s1.alias[p] # NULL
                 PROVE  s1.alias[p].u = w <=> s1.una[w] = p
      BY DEF Mutual
    <3>1. p # a /\ s.alias[p] # NULL /\ s1.alias[p].u = s.alias[p].u
      BY <1>2 DEF Freed
    <3>2. (s.alias[p].u = w <=> s.una[w] = p) /\ (s.alias[a].u = w <=> s.una[w] = a)
      BY <1>7, <3>1 DEF Lists, Mutual
    <3> QED BY <1>2, <3>1, <3>2, NullIsNothing
  <2>6. LinkedBut(s1, nk, {})
    <3> SUFFICES ASSUME NEW w \in User
                 PROVE  s1.una[w] = Found(s1, nk[w])
      BY DEF LinkedBut
    <3>1. s.una[w] = Found(s, nk[w]) /\ (s.alias[a].u = w <=> s.una[w] = a)
      BY <1>7 DEF Lists, LinkedBut, Mutual
    <3>2. s.una[w] = a <=> nk[w] = s.alias[a].nick
      BY <1>1, <2>1, <3>1, NullIsNothing DEF Found, Links
    <3> QED BY <1>2, <2>1, <2>3, <3>1, <3>2 DEF Found
  <2>7. ASSUME Quiet(s) PROVE Quiet(s1)
    <3>1. OneEach(s1)
      BY <1>3, <2>7 DEF Quiet, OneEach
    <3>2. Listed(s1)
      BY <1>2, <2>7 DEF Quiet, Listed, Forgotten
    <3>3. Warned(s1)
      BY <1>2, <1>3, <2>7 DEF Quiet, Warned, Freed
    <3>4. Held(s1)
      <4> SUFFICES ASSUME NEW p \in Alias, s1.alias[p] # NULL,
                          "KILL_HELD" \in s1.alias[p].st
                   PROVE  s1.alias[p].u = NULL /\ s1.alias[p].nick \in s1.enf
        BY DEF Held
      <4>1. /\ p # a /\ s.alias[p] # NULL /\ "KILL_HELD" \in s.alias[p].st
            /\ s1.alias[p].u = s.alias[p].u /\ s1.alias[p].nick = s.alias[p].nick
        BY <1>2 DEF Freed
      <4>2. s.alias[p].nick # s.alias[a].nick
        BY <1>7, <2>1, <4>1 DEF Lists, OneAlias
      <4> QED BY <1>2, <2>7, <4>1, <4>2 DEF Quiet, Held
    <3> QED BY <3>1, <3>2, <3>3, <3>4 DEF Quiet
  <2>8. Earned(s, au) => Earned(s1, au)
    BY <1>2 DEF Earned, Freed
  <2> QED BY <2>1, <2>3, <2>4, <2>5, <2>6, <2>7, <2>8 DEF Lists
<1>8. s1.alias[a] = NULL
      /\ \A p \in Alias : p # a => (s1.alias[p] = NULL <=> s.alias[p] = NULL)
  BY <1>2 DEF Freed
<1> QED BY <1>2, <1>4, <1>5, <1>6, <1>7, <1>8

\* release() from RELEASE; a timeout that runs has taken its entry off first.
LEMMA ReleaseLayers ==
  ASSUME NEW s \in DB, NEW nk, NEW a \in Alias, s.alias[a] # NULL, NEW au, NEW s1,
         OnlyStatus(s, s1, a, s.alias[a].st \ {"KILL_HELD"}),
         s1.enf = s.enf \ {s.alias[a].nick},
         Forgotten(s, s1, Mine(s, a, "release"))
           \/ (s1.my = s.my /\ s1.timer = s.timer /\ Mine(s, a, "release") = {})
  PROVE  /\ EnfTimed(s) => EnfTimed(s1)
         /\ (OneAlias(s) /\ OneEach(s) /\ Warned(s) /\ Held(s))
              => OneEach(s1) /\ Warned(s1) /\ Held(s1)
         /\ Listed(s) => Listed(s1)
         /\ Earned(s, au) => Earned(s1, au)
         /\ Lasting(s, s1, {})
<1>1. s1.my = s.my \ Mine(s, a, "release")
  BY DEF Forgotten
<1>2. s1 \in DB /\ Keeps(s, s1) /\ (\A p \in Alias : p # a => s1.alias[p] = s.alias[p])
      /\ s1.alias[a].st = s.alias[a].st \ {"KILL_HELD"}
  BY DEF OnlyStatus
<1>3. EnfTimed(s) => EnfTimed(s1)
  <2> SUFFICES ASSUME EnfTimed(s), NEW n \in s1.enf
               PROVE  \E m \in s1.my : m.kind = "release" /\ s1.alias[m.na] # NULL
                                       /\ s1.alias[m.na].nick = n
    BY DEF EnfTimed
  <2>1. PICK m \in s.my : m.kind = "release" /\ s.alias[m.na] # NULL
                          /\ s.alias[m.na].nick = n
    BY DEF EnfTimed
  <2>2. m.na # a /\ m.na \in Alias
    BY <2>1 DEF DB
  <2> QED BY <1>1, <1>2, <2>1, <2>2 DEF Mine
<1>4. ASSUME OneAlias(s), OneEach(s), Warned(s), Held(s)
      PROVE  OneEach(s1) /\ Warned(s1) /\ Held(s1)
  <2>1. OneEach(s1)
    BY <1>1, <1>4 DEF OneEach
  <2>2. Warned(s1)
    <3> SUFFICES ASSUME NEW m \in s1.my
                 PROVE  /\ s1.alias[m.na] # NULL
                        /\ m.kind = "collide" => s1.alias[m.na].u # NULL
                        /\ m.kind = "release" => "KILL_HELD" \in s1.alias[m.na].st
      BY DEF Warned
    <3>1. m \in s.my /\ ~(m.na = a /\ m.kind = "release") /\ m.na \in Alias
      BY <1>1 DEF Mine, DB
    <3> QED BY <1>2, <1>4, <3>1 DEF Warned, Keeps
  <2>3. Held(s1)
    <3> SUFFICES ASSUME NEW p \in Alias, s1.alias[p] # NULL, "KILL_HELD" \in s1.alias[p].st
                 PROVE  s1.alias[p].u = NULL /\ s1.alias[p].nick \in s1.enf
      BY DEF Held
    <3>1. p # a /\ s1.alias[p] = s.alias[p]
      BY <1>2
    <3>2. s.alias[p].nick # s.alias[a].nick
      BY <1>4, <3>1 DEF OneAlias
    <3> QED BY <1>4, <3>1, <3>2 DEF Held
  <2> QED BY <2>1, <2>2, <2>3
<1>5. Listed(s) => Listed(s1)
  BY DEF Listed, Forgotten
<1>6. Earned(s, au) => Earned(s1, au)
  BY <1>2 DEF Earned, Keeps
<1>7. Lasting(s, s1, {})
  BY <1>2 DEF Lasting, Keeps
<1> QED BY <1>3, <1>4, <1>5, <1>6, <1>7

-----------------------------------------------------------------------------
(* The actions.                                                            *)

\* No nick gets a second alias; no user escapes from the protection of a
\* nick; nobody is identified without a proof.
OneNick == "confirm_registered" \notin Allowed
Orderly ==
    Allowed \cap {"confirm_registered", "case_change", "crossing", "revalidate_renaming"} = {}
Proven == Allowed \cap {"confirm_registered", "confirm_offline"} = {}

Layers(s, nk, au) ==
    /\ EnfTimed(s)
    /\ OneNick => Lists(s, nk, {})
    /\ Orderly => Quiet(s)
    /\ Proven => Earned(s, au)

LInv == IInv /\ Layers(S, unick, auth)

\* A forbidden alias stays, or is freed, or another keeps the nick forbidden.
Stays ==
    \A a \in Alias :
        (alias[a] # NULL /\ Has(S, a, "VERBOTEN")) =>
            \/ alias'[a] = NULL
            \/ alias'[a].nick = alias[a].nick /\ "VERBOTEN" \in alias'[a].st
            \/ \E n \in Nick : alias[a].nick = n /\ Forbidden(n)'

Kept == Layers(S, unick, auth)' /\ Stays

LEMMA Conditions == (Orderly => OneNick) /\ (Proven => OneNick)
  BY DEF Orderly, Proven, OneNick

LEMMA Became ==
  ASSUME NEW s, Becomes(s), s \in DB
  PROVE  S' = s
  BY DEF S, Becomes, DB

LEMMA IsKept ==
  ASSUME NEW s, Becomes(s), s \in DB, Layers(s, unick', auth'), Lasting(S, s, {})
  PROVE  Kept
<1>1. Layers(S, unick, auth)'
  BY Became
<1>2. alias' = s.alias /\ alias = S.alias
  BY DEF Becomes, S
<1>3. Stays
  BY <1>2 DEF Stays, Lasting, Has
<1> QED BY <1>1, <1>3 DEF Kept

\* The other user has another nick, when one takes a nick.
LEMMA OthersNicks ==
  ASSUME IInv, NEW u \in User, NEW n \in Nick \cup {NoNick}, NickFree(n),
         unick' = [unick EXCEPT ![u] = n]
  PROVE  /\ unick'[u] = n
         /\ \A w \in User : w # u => unick'[w] = unick[w]
         /\ unick'[u] \in Nick => \A w \in User : w # u => unick'[w] # unick'[u]
<1>1. unick'[u] = n /\ \A w \in User : w # u => unick'[w] = unick[w]
  BY Current DEF Outside
<1> QED BY <1>1, NoNickIsNoNick DEF NickFree

LEMMA NickFreeOrderly ==
  ASSUME IInv, NEW n, NickFree(n), Orderly
  PROVE  n \notin enforcer
  BY Current, NoNickIsNoNick DEF NickFree, Orderly, DB

LEMMA ConnectKept ==
  ASSUME LInv, NEW u \in User, NEW n \in Nick \cup {NoNick}, NEW v \in Verdicts,
         NEW x \in FreeTimer, Connect(u, n, v, x)
  PROVE  Kept
<1> DEFINE s1 == Link(S, u, Found(S, unick'[u]))
           s == ValidateUser(s1, u, v, x)
<1>1. IInv /\ Layers(S, unick, auth) /\ S \in DB /\ S.una[u] = NULL /\ Good(S, unick)
      /\ S.enf = enforcer
  BY Current, NoAlias DEF LInv, Connect
<1>2. /\ unick'[u] = n
      /\ \A w \in User : w # u => unick'[w] = unick[w]
      /\ unick'[u] \in Nick => \A w \in User : w # u => unick'[w] # unick'[u]
  BY <1>1, OthersNicks DEF Connect
<1>3. Good(S, unick') /\ (Lists(S, unick, {}) => Lists(S, unick', {u}))
  <2>1. Lists(S, unick, {}) => Lists(S, unick, {u})
    BY DEF Lists, LinkedBut
  <2> QED BY <1>1, <1>2, <2>1, NewNickGood, NewNickLists
<1>4. auth' = auth /\ Becomes(s) /\ (Orderly => unick'[u] \notin S.enf)
  BY <1>1, <1>2, NickFreeOrderly DEF Connect
<1>5. now \in Nat /\ v \in Verdict /\ x \in Timer /\ Sound(S) /\ Unique(unick')
  <2>1. Outside'
    BY <1>1, Current, TakeNick DEF Connect, Outside
  <2> QED BY <1>1, <2>1, Current, VerdictsAssumption DEF FreeTimer, Outside
<1>6. /\ s1 \in DB
      /\ EnfTimed(S) => EnfTimed(s1)
      /\ Lists(S, unick', {u}) => Lists(s1, unick', {})
      /\ (Lists(S, unick', {u}) /\ Quiet(S) /\ unick'[u] \notin S.enf)
           => Quiet(s1) /\ (s1.una[u] # NULL => Mine(s1, s1.una[u], "collide") = {})
      /\ (Lists(S, unick', {u}) /\ Earned(S, auth)) => Earned(s1, auth)
      /\ Lasting(S, s1, {})
  BY <1>1, <1>2, <1>3, JoinNick
<1>7. Good(s1, unick')
  BY <1>3, <1>5, LinkFound
<1> HIDE DEF s1
<1>8. /\ s \in DB /\ Keeps(s1, s)
      /\ EnfTimed(s1) => EnfTimed(s)
      /\ (Quiet(s1) /\ (s1.una[u] # NULL => Mine(s1, s1.una[u], "collide") = {}))
           => Quiet(s)
      /\ Earned(s1, auth) => Earned(s, auth)
      /\ Lasting(s1, s, {})
  BY <1>5, <1>7, ValidateUserLayers
<1> HIDE DEF s
<1>9. Lists(s1, unick', {}) => Lists(s, unick', {})
  BY <1>6, <1>8, KeepsLists
<1>10. Layers(s, unick', auth')
  BY <1>1, <1>3, <1>4, <1>6, <1>8, <1>9, Conditions DEF Layers
<1>11. Lasting(S, s, {})
  BY <1>6, <1>8 DEF Lasting
<1> QED BY <1>4, <1>8, <1>10, <1>11, IsKept

LEMMA ConnectIdentifiedKept ==
  ASSUME LInv, NEW u \in User, NEW n \in Nick \cup {NoNick}, ConnectIdentified(u, n)
  PROVE  Kept
<1> DEFINE a == Found(S, unick'[u])
           s1 == Link(S, u, a)
           st == s1.alias[a].st \cup {"IDENTIFIED"}
           s == SetStatus(s1, a, st)
<1>1. IInv /\ Layers(S, unick, auth) /\ S \in DB /\ S.una[u] = NULL /\ Good(S, unick)
      /\ S.enf = enforcer
  BY Current, NoAlias DEF LInv, ConnectIdentified
<1>2. /\ unick'[u] = n
      /\ \A w \in User : w # u => unick'[w] = unick[w]
      /\ unick'[u] \in Nick => \A w \in User : w # u => unick'[w] # unick'[u]
  BY <1>1, OthersNicks DEF ConnectIdentified
<1>3. Good(S, unick') /\ (Lists(S, unick, {}) => Lists(S, unick', {u}))
  <2>1. Lists(S, unick, {}) => Lists(S, unick, {u})
    BY DEF Lists, LinkedBut
  <2> QED BY <1>1, <1>2, <2>1, NewNickGood, NewNickLists
<1>4. a = Found(S, n) /\ a # NULL /\ Becomes(s) /\ (Orderly => unick'[u] \notin S.enf)
  <2>1. n \notin enforcer \/ ~Orderly
    BY <1>1, NickFreeOrderly DEF ConnectIdentified
  <2>2. Becomes(s)
    BY <1>2 DEF ConnectIdentified
  <2>3. a = Found(S, n) /\ a # NULL
    BY <1>2 DEF ConnectIdentified
  <2> QED BY <1>1, <1>2, <2>1, <2>2, <2>3
<1>5. a \in Alias /\ S.alias[a] # NULL
  BY <1>1, <1>4, FoundGood
<1>6. \A w \in User : w # u => auth'[w] = auth[w]
  BY <1>1, Current DEF ConnectIdentified, Outside
<1>7. auth' = [auth EXCEPT ![u] = s1.alias[a].nc]
  BY <1>4 DEF ConnectIdentified
<1>8. Relinked(S, s1, u, a, a, u)
  BY <1>1, <1>5, LinkIs
<1>9. /\ s1 \in DB
      /\ EnfTimed(S) => EnfTimed(s1)
      /\ Lists(S, unick', {u}) => Lists(s1, unick', {})
      /\ (Lists(S, unick', {u}) /\ Quiet(S) /\ unick'[u] \notin S.enf) => Quiet(s1)
      /\ (Lists(S, unick', {u}) /\ Earned(S, auth)) => Earned(s1, auth')
      /\ Lasting(S, s1, {})
  BY <1>1, <1>2, <1>3, <1>6, JoinNick
<1> HIDE DEF s1, a
<1>10. s1.alias[a] # NULL /\ s1.alias[a].u = u /\ s1.alias[a] \in AliasRec
  BY <1>5, <1>8, <1>9 DEF Relinked, DB
<1>11. st \in SUBSET Status
  BY <1>10 DEF AliasRec, Status, Temporary, TransGroup
<1>12. OnlyStatus(s1, s, a, st) /\ SameTimeouts(s1, s) /\ s.enf = s1.enf
  BY <1>5, <1>9, <1>10, <1>11, SetStatusIs
<1>13. /\ EnfTimed(s1) => EnfTimed(s)
       /\ Quiet(s1) => Quiet(s)
       /\ Lasting(s1, s, {})
  BY <1>5, <1>9, <1>10, <1>12, StatusLayers
<1> HIDE DEF st
<1> HIDE DEF s
<1>14. Keeps(s1, s) /\ s \in DB /\ \A p \in Alias : p # a => s.alias[p] = s1.alias[p]
  BY <1>12 DEF OnlyStatus
<1>15. auth'[u] = s1.alias[a].nc
  BY <1>1, <1>7, Current DEF Outside
<1>16. Earned(s1, auth') => Earned(s, auth')
  BY <1>5, <1>10, <1>14, <1>15, NullIsNothing DEF Earned, Keeps
<1>17. Lists(s1, unick', {}) => Lists(s, unick', {})
  BY <1>9, <1>14, KeepsLists
<1>18. Layers(s, unick', auth')
  BY <1>1, <1>3, <1>4, <1>9, <1>13, <1>16, <1>17, Conditions DEF Layers
<1>19. Lasting(S, s, {})
  BY <1>9, <1>13 DEF Lasting
<1> QED BY <1>4, <1>14, <1>18, <1>19, IsKept

LEMMA ChangeNickKept ==
  ASSUME LInv, NEW u \in User, NEW n \in Nick \cup {NoNick}, NEW qlined \in BOOLEAN,
         NEW v \in Verdicts, NEW x \in FreeTimer, NEW y \in FreeTimer \ {x},
         ChangeNick(u, n, qlined, v, x, y)
  PROVE  Kept
<1> DEFINE old == una[u]
           new == Found(S, n)
           sameGroup == IF old = NULL \/ new = NULL THEN old = new
                        ELSE alias[old].nc = alias[new].nc
           inGroup == sameGroup /\ new # NULL
           s0 == CancelUser(S, u, x)
           s1 == Unlink(s0, u)
           s2 == Link(s1, u, new)
           st == s2.alias[new].st \cup (alias[old].st \cap TransGroup)
           s3 == IF inGroup THEN SetStatus(s2, new, st) ELSE s2
           s4 == ValidateUser(s3, u, v, y)
<1>1. IInv /\ Layers(S, unick, auth) /\ S \in DB /\ Good(S, unick) /\ Sound(S)
      /\ S.enf = enforcer /\ S.nalists = nalists /\ S.una = una /\ S.alias = alias
  BY Current DEF LInv
<1>2. /\ unick'[u] = n
      /\ \A w \in User : w # u => unick'[w] = unick[w]
      /\ unick'[u] \in Nick => \A w \in User : w # u => unick'[w] # unick'[u]
  BY <1>1, OthersNicks DEF ChangeNick
<1>3. now \in Nat /\ v \in Verdict /\ x \in Timer /\ y \in Timer /\ unick[u] # n
      /\ Unique(unick') /\ auth \in [User -> Core \cup {NULL}]
      /\ S.una[u] \in Alias \cup {NULL}
  <2>1. Outside'
    <3>1. Outside /\ auth' \in [User -> Core \cup {NULL}]
      BY <1>1, Current DEF ChangeNick, Outside
    <3> QED BY <3>1, TakeNick DEF ChangeNick
  <2> QED BY <1>1, <2>1, Current, VerdictsAssumption DEF FreeTimer, Outside, ChangeNick, DB
<1>4. auth' = IF inGroup THEN auth ELSE [auth EXCEPT ![u] = NULL]
  BY DEF ChangeNick
<1>5. \E cond \in BOOLEAN : Becomes(IF cond THEN s3 ELSE s4)
  <2>1. Becomes(IF qlined \/ (sameGroup /\ Recognized(s3, new)) THEN s3 ELSE s4)
    BY DEF ChangeNick
  <2>2. (qlined \/ (sameGroup /\ Recognized(s3, new))) \in BOOLEAN
    OBVIOUS
  <2> HIDE DEF s3, s4, sameGroup, new
  <2> QED BY <2>1, <2>2
<1>6. /\ s1 \in DB
      /\ EnfTimed(S) => EnfTimed(s1)
      /\ Lists(S, unick, {}) => Lists(s1, unick, {u})
      /\ Quiet(S) => Quiet(s1)
      /\ Earned(S, auth) => Earned(s1, auth)
      /\ Lasting(S, s1, {})
      /\ \A p \in Alias : p # old => s1.alias[p] = S.alias[p]
  BY <1>1, <1>3, LeaveNick
<1>7. Good(s1, unick) /\ s1.una[u] = NULL /\ s1.nalists = nalists /\ Sound(s1)
  <2>1. Good(s0, unick) /\ s0.nalists = nalists
    BY <1>1, <1>3, CancelUserGood
  <2>2. Sound(s0)
    BY <1>1, <1>3, CancelUserSound DEF FreeTimer, S
  <2> HIDE DEF s0
  <2> QED BY <2>1, <2>2, UnlinkGood, LinkSound
<1>8. (Orderly /\ Quiet(S)) => n \notin s1.enf
  <2> SUFFICES ASSUME Orderly, Quiet(S), n \in s1.enf PROVE FALSE
    OBVIOUS
  <2>1. EnfTimed(s1) /\ Quiet(s1) /\ OneAlias(S)
    BY <1>1, <1>6, Conditions DEF Layers, Lists
  <2>2. PICK m \in s1.my : m.kind = "release" /\ s1.alias[m.na] # NULL
                           /\ s1.alias[m.na].nick = n
    BY <2>1 DEF EnfTimed
  <2>3. m.na \in Alias /\ "KILL_HELD" \in s1.alias[m.na].st
    BY <1>6, <2>1, <2>2 DEF Quiet, Warned, DB
  <2>4. CASE m.na = old
    <3>1. old # NULL
      BY <2>3, <2>4, NullIsNothing
    <3>2. S.alias[old].nick = unick[u] /\ S.alias[old] # NULL
      BY <1>1, <3>1 DEF Good, Links, NickLinks
    <3>3. s0 \in DB /\ Keeps(S, s0)
      BY <1>1, <1>3, <3>1, CancelUserLayers
    <3>4. s0.alias[old].nick = unick[u] /\ s0.una[u] = old /\ s0.alias[old] # NULL
      BY <1>1, <2>3, <2>4, <3>2, <3>3 DEF Keeps
    <3> HIDE DEF s0
    <3>5. Relinked(s0, s1, u, old, NULL, NULL)
      BY <3>1, <3>3, <3>4, UnlinkIs
    <3> QED BY <1>3, <2>2, <2>4, <3>4, <3>5 DEF Relinked
  <2>5. CASE m.na # old
    <3>1. s1.alias[m.na] = S.alias[m.na]
      BY <1>6, <2>3, <2>5
    <3>2. n \in enforcer
      BY <1>1, <2>2, <2>3, <3>1 DEF Quiet, Held
    <3>3. NickFree(n)
      BY DEF ChangeNick
    <3> QED BY <1>1, <3>2, <3>3, NickFreeOrderly
  <2> QED BY <2>4, <2>5
<1> HIDE DEF s0, s1
<1>9. Good(s1, unick') /\ (Lists(s1, unick, {u}) => Lists(s1, unick', {u}))
  BY <1>2, <1>7, NewNickGood, NewNickLists
<1>10. new = Found(s1, unick'[u])
  BY <1>1, <1>2, <1>7 DEF Found
<1>11. /\ s2 \in DB
       /\ EnfTimed(s1) => EnfTimed(s2)
       /\ Lists(s1, unick', {u}) => Lists(s2, unick', {})
       /\ (Lists(s1, unick', {u}) /\ Quiet(s1) /\ unick'[u] \notin s1.enf)
            => Quiet(s2) /\ (s2.una[u] # NULL => Mine(s2, s2.una[u], "collide") = {})
       /\ Lasting(s1, s2, {})
       /\ s2.una[u] = new
  BY <1>2, <1>7, <1>9, <1>10, JoinNick
<1>12. (Lists(s1, unick', {u}) /\ Earned(s1, auth)) => Earned(s2, auth')
  <2>1. \A w \in User : w # u => auth'[w] = auth[w]
    BY <1>3, <1>4
  <2> QED BY <1>2, <1>7, <1>9, <1>10, <2>1, JoinNick
<1>13. Good(s2, unick') /\ Sound(s2)
  BY <1>2, <1>3, <1>7, <1>9, <1>10, LinkFound
<1> HIDE DEF s2
<1>14. /\ s3 \in DB /\ Good(s3, unick')
       /\ EnfTimed(s2) => EnfTimed(s3)
       /\ Lists(s2, unick', {}) => Lists(s3, unick', {})
       /\ Quiet(s2) => Quiet(s3)
       /\ (Earned(S, auth) /\ Earned(s2, auth')) => Earned(s3, auth')
       /\ Lasting(s2, s3, {})
       /\ s3.una = s2.una /\ s3.my = s2.my
  <2>1. CASE ~inGroup
    <3>1. s3 = s2
      BY <2>1
    <3> HIDE DEF s3
    <3> QED BY <1>11, <1>13, <3>1 DEF Lasting
  <2>2. CASE inGroup
    <3>1. old # NULL /\ new # NULL /\ alias[old].nc = alias[new].nc
      BY <2>2
    <3>2. old \in Alias /\ S.alias[old] # NULL /\ S.alias[old].u = u
          /\ new \in Alias /\ S.alias[new] # NULL /\ S.alias[new].nick = n
      BY <1>1, <1>3, <3>1, FoundGood DEF Good, Links
    <3>3. new # old
      BY <1>1, <1>3, <3>1, <3>2 DEF Good, NickLinks
    <3>4. s1.alias[new] = S.alias[new]
      BY <1>6, <3>2, <3>3
    <3>5. Relinked(s1, s2, u, new, new, u)
      BY <1>6, <3>2, <3>4, LinkIs DEF s2
    <3>6. s2.alias[new] # NULL /\ s2.alias[new].u = u /\ s2.alias[new].nc = alias[old].nc
          /\ s2.alias[new] \in AliasRec
      BY <1>1, <1>11, <3>1, <3>2, <3>4, <3>5 DEF Relinked, DB
    <3>7. st \in SUBSET Status
      BY <3>6 DEF AliasRec, Status, Temporary
    <3>8. s3 = SetStatus(s2, new, st)
      BY <2>2
    <3>9. OnlyStatus(s2, s3, new, st) /\ SameTimeouts(s2, s3) /\ s3.enf = s2.enf
      BY <1>11, <3>2, <3>6, <3>7, <3>8, SetStatusIs
    <3>10. ("KILL_HELD" \in st <=> "KILL_HELD" \in s2.alias[new].st)
           /\ ("VERBOTEN" \in s2.alias[new].st => "VERBOTEN" \in st)
           /\ ("IDENTIFIED" \in st =>
                 "IDENTIFIED" \in s2.alias[new].st \/ "IDENTIFIED" \in alias[old].st)
      BY DEF TransGroup
    <3> HIDE DEF st, s3, new, old
    <3>11. /\ EnfTimed(s2) => EnfTimed(s3)
           /\ Quiet(s2) => Quiet(s3)
           /\ Lasting(s2, s3, {})
      BY <1>11, <3>2, <3>6, <3>9, <3>10, StatusLayers
    <3>12. Keeps(s2, s3) /\ s3 \in DB /\ s3.alias[new].st = st
           /\ \A p \in Alias : p # new => s3.alias[p] = s2.alias[p]
      BY <3>9 DEF OnlyStatus
    <3>13. auth' = auth
      BY <1>4, <2>2
    <3>14. (Earned(S, auth) /\ "IDENTIFIED" \in alias[old].st) => auth[u] = alias[old].nc
      BY <1>1, <3>2 DEF Earned
    <3>15. ASSUME Earned(S, auth), Earned(s2, auth') PROVE Earned(s3, auth')
      <4> SUFFICES ASSUME NEW p \in Alias, s3.alias[p] # NULL,
                          "IDENTIFIED" \in s3.alias[p].st
                   PROVE  s3.alias[p].u # NULL /\ auth'[s3.alias[p].u] = s3.alias[p].nc
        BY DEF Earned
      <4>1. CASE p # new
        BY <3>12, <3>15, <4>1 DEF Earned
      <4>2. CASE p = new
        <5>1. s3.alias[p].u = u /\ s3.alias[p].nc = alias[old].nc
          BY <3>2, <3>6, <3>12, <4>2 DEF Keeps
        <5>2. CASE "IDENTIFIED" \in alias[old].st
          BY <3>13, <3>14, <3>15, <5>1, <5>2, NullIsNothing
        <5>3. CASE "IDENTIFIED" \in s2.alias[new].st
          BY <3>2, <3>6, <3>15, <5>1, <5>3, NullIsNothing DEF Earned
        <5> QED BY <3>10, <3>12, <4>2, <5>2, <5>3
      <4> QED BY <4>1, <4>2
    <3>16. Good(s3, unick') /\ (Lists(s2, unick', {}) => Lists(s3, unick', {}))
      BY <1>11, <1>13, <3>12, KeepsGood, KeepsLists
    <3>17. s3.una = s2.una /\ s3.my = s2.my
      BY <3>9, <3>12 DEF Keeps, SameTimeouts
    <3> QED BY <3>11, <3>12, <3>15, <3>16, <3>17
  <2> QED BY <2>1, <2>2
<1> HIDE DEF inGroup, s3
<1>15. Mine(s3, s3.una[u], "collide") = Mine(s2, s2.una[u], "collide")
  BY <1>14 DEF Mine
<1>16. /\ s4 \in DB /\ Keeps(s3, s4)
       /\ EnfTimed(s3) => EnfTimed(s4)
       /\ (Quiet(s3) /\ (s3.una[u] # NULL => Mine(s3, s3.una[u], "collide") = {}))
            => Quiet(s4)
       /\ Earned(s3, auth') => Earned(s4, auth')
       /\ Lasting(s3, s4, {})
  BY <1>3, <1>14, ValidateUserLayers
<1> HIDE DEF s4, new, old
<1>17. Lists(s3, unick', {}) => Lists(s4, unick', {})
  BY <1>14, <1>16, KeepsLists
<1>18. Layers(s3, unick', auth') /\ Lasting(S, s3, {})
  <2>1. Lasting(S, s3, {})
    BY <1>6, <1>11, <1>14 DEF Lasting
  <2>2. EnfTimed(s3)
    BY <1>1, <1>6, <1>11, <1>14 DEF Layers
  <2>3. OneNick => Lists(s1, unick', {u}) /\ Lists(s3, unick', {})
    BY <1>1, <1>6, <1>9, <1>11, <1>14 DEF Layers
  <2>4. Orderly => Quiet(s3)
    BY <1>1, <1>2, <1>6, <1>8, <1>11, <1>14, <2>3, Conditions DEF Layers
  <2>5. Proven => Earned(s3, auth')
    BY <1>1, <1>6, <1>12, <1>14, <2>3, Conditions DEF Layers
  <2> QED BY <2>1, <2>2, <2>3, <2>4, <2>5 DEF Layers
<1>19. Orderly => (s3.una[u] # NULL => Mine(s3, s3.una[u], "collide") = {})
  <2>1. OneNick => Lists(s1, unick', {u})
    BY <1>1, <1>6, <1>9 DEF Layers
  <2>2. Orderly => Quiet(s1) /\ unick'[u] \notin s1.enf
    BY <1>1, <1>2, <1>6, <1>8 DEF Layers
  <2> QED BY <1>11, <1>14, <1>15, <2>1, <2>2, Conditions
<1>20. Layers(s4, unick', auth')
  BY <1>16, <1>17, <1>18, <1>19 DEF Layers
<1>21. Lasting(S, s4, {})
  BY <1>16, <1>18 DEF Lasting
<1>22. CASE Becomes(s3)
  BY <1>14, <1>18, <1>22, IsKept
<1>23. CASE Becomes(s4)
  BY <1>16, <1>20, <1>21, <1>23, IsKept
<1> QED BY <1>5, <1>22, <1>23

\* A command that changes only the status of an alias, and who has proved
\* to be of its group: st has what the alias had, but for TransGroup.
LEMMA StatusKept ==
  ASSUME LInv, NEW a \in Alias, alias[a] # NULL, NEW st \in SUBSET Status,
         Becomes(SetStatus(S, a, st)), unick' = unick, Earned(S, auth) =>
            Earned(SetStatus(S, a, st), auth') \/ ~OneNick,
         st \ TransGroup = alias[a].st \ TransGroup
  PROVE  Kept
<1> DEFINE s == SetStatus(S, a, st)
<1>1. IInv /\ Layers(S, unick, auth) /\ S \in DB /\ S.alias = alias
  BY Current DEF LInv
<1>2. OnlyStatus(S, s, a, st) /\ SameTimeouts(S, s) /\ s.enf = S.enf
  BY <1>1, SetStatusIs
<1>3. ("KILL_HELD" \in st <=> "KILL_HELD" \in S.alias[a].st)
      /\ ("VERBOTEN" \in S.alias[a].st => "VERBOTEN" \in st)
  BY <1>1 DEF TransGroup
<1> HIDE DEF s
<1>4. (EnfTimed(S) => EnfTimed(s)) /\ (Quiet(S) => Quiet(s)) /\ Lasting(S, s, {})
  BY <1>1, <1>2, <1>3, StatusLayers
<1>5. s \in DB /\ (Lists(S, unick, {}) => Lists(s, unick, {}))
  BY <1>1, <1>2, KeepsLists DEF OnlyStatus
<1>6. Earned(S, auth) => Earned(s, auth') \/ ~OneNick
  BY DEF s
<1>7. Layers(s, unick', auth')
  BY <1>1, <1>4, <1>5, <1>6, Conditions DEF Layers
<1>8. Becomes(s)
  BY DEF s
<1> QED BY <1>4, <1>5, <1>7, <1>8, IsKept

\* Proofs of identity of a user matter to his own alias only.
LEMMA EarnedElsewhere ==
  ASSUME NEW s, NEW nk, NEW u \in User, NEW a \in Alias, NEW s1 \in DB, NEW au, NEW au1,
         s.una[u] = a, Lists(s, nk, {}), Earned(s, au), Keeps(s, s1), s \in DB,
         \A p \in Alias : p # a => s1.alias[p] = s.alias[p],
         \A w \in User : w # u => au1[w] = au[w],
         "IDENTIFIED" \in s1.alias[a].st => au1[u] = s.alias[a].nc
  PROVE  Earned(s1, au1)
<1> SUFFICES ASSUME NEW p \in Alias, s1.alias[p] # NULL, "IDENTIFIED" \in s1.alias[p].st
             PROVE  s1.alias[p].u # NULL /\ au1[s1.alias[p].u] = s1.alias[p].nc
  BY DEF Earned
<1>1. s.alias[p] # NULL /\ s1.alias[p].u = s.alias[p].u /\ s1.alias[p].nc = s.alias[p].nc
      /\ (s.alias[p].u = u <=> p = a) /\ s.alias[p].u \in User \cup {NULL}
  BY DEF Keeps, Lists, Mutual, DB, AliasRec
<1>2. CASE p = a
  BY <1>1, <1>2, NullIsNothing
<1>3. CASE p # a
  BY <1>1, <1>3 DEF Earned
<1> QED BY <1>2, <1>3

LEMMA IdentifyKept ==
  ASSUME LInv, NEW u \in User, Identify(u)
  PROVE  Kept
<1> DEFINE a == una[u]
           st == alias[a].st \cup {"IDENTIFIED"}
           s == SetStatus(S, a, st)
<1>1. IInv /\ Layers(S, unick, auth) /\ S \in DB /\ S.alias = alias /\ S.una = una
      /\ auth \in [User -> Core \cup {NULL}]
  BY Current DEF LInv, Outside
<1>2. a \in Alias /\ alias[a] # NULL /\ alias[a] \in AliasRec
  BY <1>1, UsersAlias DEF Identify, Usable
<1>3. st \in SUBSET Status /\ st \ TransGroup = alias[a].st \ TransGroup
  BY <1>2 DEF AliasRec, Status, Temporary, TransGroup
<1>4. OnlyStatus(S, s, a, st)
  BY <1>1, <1>2, <1>3, SetStatusIs
<1>5. auth' = [auth EXCEPT ![u] = alias[a].nc] /\ Becomes(s) /\ unick' = unick
  BY DEF Identify
<1> HIDE DEF st
<1>6. Earned(S, auth) => Earned(s, auth') \/ ~OneNick
  <2> HIDE DEF s
  <2>1. s \in DB /\ Keeps(S, s) /\ \A p \in Alias : p # a => s.alias[p] = S.alias[p]
    BY <1>4 DEF OnlyStatus
  <2>2. (\A w \in User : w # u => auth'[w] = auth[w]) /\ auth'[u] = S.alias[a].nc
    BY <1>1, <1>5
  <2>3. OneNick => Lists(S, unick, {})
    BY <1>1 DEF Layers
  <2>4. S.una[u] = a
    BY <1>1
  <2> HIDE DEF a
  <2>5. (Lists(S, unick, {}) /\ Earned(S, auth)) => Earned(s, auth')
    BY <1>1, <1>2, <2>1, <2>2, <2>4, EarnedElsewhere
  <2> QED BY <2>3, <2>5
<1> QED BY <1>2, <1>3, <1>5, <1>6, StatusKept

LEMMA LogoutKept ==
  ASSUME LInv, NEW u \in User, Logout(u)
  PROVE  Kept
<1> DEFINE a == una[u]
           st == alias[a].st \ TransGroup
           s == SetStatus(S, a, st)
<1>1. IInv /\ Layers(S, unick, auth) /\ S \in DB /\ S.alias = alias /\ S.una = una
      /\ auth \in [User -> Core \cup {NULL}]
  BY Current DEF LInv, Outside
<1>2. a \in Alias /\ alias[a] # NULL /\ alias[a] \in AliasRec
  BY <1>1, UsersAlias DEF Logout, Usable
<1>3. st \in SUBSET Status /\ st \ TransGroup = alias[a].st \ TransGroup
      /\ "IDENTIFIED" \notin st
  BY <1>2 DEF AliasRec, TransGroup
<1>4. OnlyStatus(S, s, a, st)
  BY <1>1, <1>2, <1>3, SetStatusIs
<1>5. auth' = [auth EXCEPT ![u] = NULL] /\ Becomes(s) /\ unick' = unick
  BY DEF Logout
<1> HIDE DEF st
<1>6. Earned(S, auth) => Earned(s, auth') \/ ~OneNick
  <2> HIDE DEF s
  <2>1. s \in DB /\ Keeps(S, s) /\ (\A p \in Alias : p # a => s.alias[p] = S.alias[p])
        /\ "IDENTIFIED" \notin s.alias[a].st
    BY <1>3, <1>4 DEF OnlyStatus
  <2>2. \A w \in User : w # u => auth'[w] = auth[w]
    BY <1>1, <1>5
  <2>3. OneNick => Lists(S, unick, {})
    BY <1>1 DEF Layers
  <2> QED BY <1>1, <1>2, <2>1, <2>2, <2>3, EarnedElsewhere
<1> QED BY <1>2, <1>3, <1>5, <1>6, StatusKept

LEMMA CaseChangeKept ==
  ASSUME LInv, NEW u \in User, NEW v \in Verdicts, NEW x \in FreeTimer, CaseChange(u, v, x)
  PROVE  Kept
<1> DEFINE s == ValidateUser(S, u, v, x)
<1>1. IInv /\ Layers(S, unick, auth) /\ S \in DB /\ Good(S, unick) /\ now \in Nat
      /\ v \in Verdict /\ x \in Timer
  BY Current, VerdictsAssumption DEF LInv, Outside, FreeTimer
<1>2. ~Orderly /\ Becomes(s) /\ unick' = unick /\ auth' = auth
  BY DEF CaseChange, Orderly
<1>3. /\ s \in DB /\ Keeps(S, s)
      /\ EnfTimed(S) => EnfTimed(s)
      /\ Earned(S, auth) => Earned(s, auth)
      /\ Lasting(S, s, {})
  BY <1>1, ValidateUserLayers
<1> HIDE DEF s
<1>4. Layers(s, unick', auth')
  BY <1>1, <1>2, <1>3, KeepsLists DEF Layers
<1> QED BY <1>2, <1>3, <1>4, IsKept

LEMMA LeaveKept ==
  ASSUME LInv, NEW u \in User, NEW x \in FreeTimer, Leave(u, x)
  PROVE  Kept
<1> DEFINE s0 == CancelUser(S, u, x)
           s == Unlink(s0, u)
<1>1. IInv /\ Layers(S, unick, auth) /\ S \in DB /\ Good(S, unick) /\ now \in Nat
      /\ x \in Timer /\ unick \in [User -> Nick \cup {NoNick, NULL}]
      /\ auth \in [User -> Core \cup {NULL}]
  BY Current DEF LInv, Outside, FreeTimer
<1>2. Becomes(s) /\ unick' = [unick EXCEPT ![u] = NULL] /\ auth' = [auth EXCEPT ![u] = NULL]
  BY DEF Leave
<1>3. /\ unick'[u] = NULL /\ auth'[u] = NULL
      /\ \A w \in User : w # u => unick'[w] = unick[w] /\ auth'[w] = auth[w]
  BY <1>1, <1>2
<1>4. /\ s \in DB
      /\ EnfTimed(S) => EnfTimed(s)
      /\ Lists(S, unick, {}) => Lists(s, unick, {u})
      /\ Quiet(S) => Quiet(s)
      /\ Earned(S, auth) => Earned(s, auth)
      /\ Lasting(S, s, {})
  BY <1>1, LeaveNick
<1>5. s.una[u] = NULL
  <2>1. Good(s0, unick)
    BY <1>1, CancelUserGood
  <2> HIDE DEF s0
  <2> QED BY <2>1, UnlinkGood
<1> HIDE DEF s
<1>6. Lists(s, unick, {u}) => Lists(s, unick', {})
  <2>1. Lists(s, unick, {u}) => Lists(s, unick', {u})
    BY <1>3, NewNickLists
  <2>2. Found(s, unick'[u]) = NULL
    BY <1>3, NullIsNothing DEF Found
  <2> QED BY <1>5, <2>1, <2>2 DEF Lists, LinkedBut
<1>7. (Lists(s, unick, {u}) /\ Earned(s, auth)) => Earned(s, auth')
  <2>1. \A w \in User : w # u => auth'[w] = auth[w]
    BY <1>3
  <2> QED BY <1>4, <1>5, <2>1, NewAuthEarned
<1>8. Layers(s, unick', auth')
  BY <1>1, <1>4, <1>6, <1>7, Conditions DEF Layers
<1> QED BY <1>2, <1>4, <1>8, IsKept

LEMMA LogoutRevalidateKept ==
  ASSUME LInv, NEW u \in User, NEW v \in Verdicts, NEW x \in FreeTimer,
         NEW y \in FreeTimer \ {x}, LogoutRevalidate(u, v, x, y)
  PROVE  Kept
<1> DEFINE a == una[u]
           s1 == CancelUser(S, u, x)
           s == ValidateUser(s1, u, v, y)
<1>1. IInv /\ Layers(S, unick, auth) /\ S \in DB /\ Good(S, unick) /\ now \in Nat
      /\ v \in Verdict /\ x \in Timer /\ y \in Timer /\ S.una = una /\ S.alias = alias
      /\ auth \in [User -> Core \cup {NULL}]
  BY Current, VerdictsAssumption DEF LInv, Outside, FreeTimer
<1>2. Becomes(s) /\ unick' = unick /\ auth' = [auth EXCEPT ![u] = NULL]
      /\ (Orderly => ~Has(S, a, "GUESTED")) /\ a # NULL
  BY DEF LogoutRevalidate, Orderly, Usable
<1>3. a \in Alias /\ S.alias[a] # NULL
  BY <1>1, <1>2, UsersAlias
<1>4. /\ s1 \in DB /\ Keeps(S, s1)
      /\ s1.alias[a].st \cap {"IDENTIFIED", "RECOGNIZED", "GUESTED"} = {}
      /\ EnfTimed(S) => EnfTimed(s1)
      /\ (Quiet(S) /\ ~Has(S, a, "GUESTED")) => Quiet(s1)
      /\ Mine(s1, a, "collide") = {}
      /\ Lasting(S, s1, {})
  BY <1>1, <1>2, CancelUserLayers
<1>5. \A p \in Alias : p # a => s1.alias[p] = S.alias[p]
  BY <1>1, <1>2, <1>3, CancelUserIs DEF OnlyStatus
<1> HIDE DEF s1
<1>6. Good(s1, unick) /\ s1.una[u] = a
  BY <1>1, <1>4, KeepsGood DEF Keeps
<1>7. (Lists(S, unick, {}) /\ Earned(S, auth)) => Earned(s1, auth')
  <2>1. "IDENTIFIED" \notin s1.alias[a].st /\ \A w \in User : w # u => auth'[w] = auth[w]
    BY <1>1, <1>2, <1>4
  <2> QED BY <1>1, <1>3, <1>4, <1>5, <2>1, EarnedElsewhere
<1>8. /\ s \in DB /\ Keeps(s1, s)
      /\ EnfTimed(s1) => EnfTimed(s)
      /\ (Quiet(s1) /\ (s1.una[u] # NULL => Mine(s1, s1.una[u], "collide") = {}))
           => Quiet(s)
      /\ Earned(s1, auth') => Earned(s, auth')
      /\ Lasting(s1, s, {})
  BY <1>1, <1>6, ValidateUserLayers
<1> HIDE DEF s
<1>9. Lists(S, unick, {}) => Lists(s, unick, {})
  BY <1>1, <1>4, <1>8, KeepsLists
<1>10. Layers(s, unick', auth')
  BY <1>1, <1>2, <1>4, <1>6, <1>7, <1>8, <1>9, Conditions DEF Layers
<1>11. Lasting(S, s, {})
  BY <1>4, <1>8 DEF Lasting
<1> QED BY <1>2, <1>8, <1>10, <1>11, IsKept

LEMMA RecoverKept ==
  ASSUME LInv, NEW u \in User, Recover(u)
  PROVE  Kept
<1> DEFINE a == una[u]
           s == Collide(S, a, FALSE)
<1>1. IInv /\ Layers(S, unick, auth) /\ S \in DB
  BY Current DEF LInv
<1>2. a \in Alias /\ S.alias[a] # NULL
  BY <1>1, UsersAlias DEF Recover, Usable
<1>3. /\ OnlyStatus(S, s, a, S.alias[a].st \cup {"GUESTED"})
      /\ s.enf = S.enf
      /\ Forgotten(S, s, Mine(S, a, "collide"))
  BY <1>1, <1>2, CollideIs
<1>4. Becomes(s) /\ unick' = unick /\ auth' = auth
  BY DEF Recover
<1> HIDE DEF s
<1>5. /\ EnfTimed(S) => EnfTimed(s)
      /\ Quiet(S) => Quiet(s)
      /\ Earned(S, auth) => Earned(s, auth)
      /\ Lasting(S, s, {})
  BY <1>1, <1>2, <1>3, CollideLayers
<1>6. s \in DB /\ (Lists(S, unick, {}) => Lists(s, unick, {}))
  BY <1>1, <1>3, KeepsLists DEF OnlyStatus
<1>7. Layers(s, unick', auth')
  BY <1>1, <1>4, <1>5, <1>6 DEF Layers
<1> QED BY <1>4, <1>5, <1>6, <1>7, IsKept

LEMMA ReleaseNickKept ==
  ASSUME LInv, NEW n \in Nick, ReleaseNick(n)
  PROVE  Kept
<1> DEFINE a == nalists[n]
           s == Release(S, a, FALSE)
<1>1. IInv /\ Layers(S, unick, auth) /\ S \in DB
  BY Current DEF LInv
<1>2. a \in Alias /\ S.alias[a] # NULL
  BY <1>1, ListedAlias DEF ReleaseNick, Usable
<1>3. /\ OnlyStatus(S, s, a, S.alias[a].st \ {"KILL_HELD"})
      /\ s.enf = S.enf \ {S.alias[a].nick}
      /\ Forgotten(S, s, Mine(S, a, "release"))
  BY <1>1, <1>2, ReleaseIs
<1>4. Becomes(s) /\ unick' = unick /\ auth' = auth
  BY DEF ReleaseNick
<1> HIDE DEF s
<1>5. /\ EnfTimed(S) => EnfTimed(s)
      /\ (OneAlias(S) /\ OneEach(S) /\ Warned(S) /\ Held(S))
           => OneEach(s) /\ Warned(s) /\ Held(s)
      /\ Listed(S) => Listed(s)
      /\ Earned(S, auth) => Earned(s, auth)
      /\ Lasting(S, s, {})
  BY <1>1, <1>2, <1>3, ReleaseLayers
<1>6. s \in DB /\ (Lists(S, unick, {}) => Lists(s, unick, {}))
  BY <1>1, <1>3, KeepsLists DEF OnlyStatus
<1>7. (Lists(S, unick, {}) /\ Quiet(S)) => Quiet(s)
  BY <1>5 DEF Lists, Quiet
<1>8. Layers(s, unick', auth')
  BY <1>1, <1>4, <1>5, <1>6, <1>7, Conditions DEF Layers
<1> QED BY <1>4, <1>5, <1>6, <1>8, IsKept

LEMMA ConfirmKept ==
  ASSUME LInv, NEW u \in User, NEW b \in Alias, NEW c \in Core, Confirm(u, b, c)
  PROVE  Kept
<1> DEFINE s == Link(MakeAlias(S, b, unick[u], c, TransGroup), u, b)
<1>1. IInv /\ Layers(S, unick, auth) /\ S \in DB /\ Good(S, unick) /\ Unique(unick)
      /\ unick[u] \in Nick /\ S.nalists = nalists /\ auth \in [User -> Core \cup {NULL}]
  BY Current DEF LInv, Outside, Confirm
<1>2. /\ Becomes(s) /\ unick' = unick /\ S.alias[b] = NULL
      /\ auth' = [auth EXCEPT ![u] = c] /\ (OneNick => S.nalists[unick[u]] = NULL)
  BY <1>1 DEF Confirm, FreeAlias, MayConfirm, OneNick
<1>3. Proves(auth, auth', u, c, TransGroup)
  BY <1>1, <1>2 DEF Proves
<1>4. TransGroup \in SUBSET Status /\ "KILL_HELD" \notin TransGroup
  BY TransGroupStatus DEF TransGroup
<1>5. /\ s \in DB
      /\ EnfTimed(S) => EnfTimed(s)
      /\ Quiet(S) => Quiet(s)
      /\ Lasting(S, s, {})
      /\ (S.una[u] = NULL /\ S.nalists[unick[u]] = NULL /\ Lists(S, unick, {})) =>
           Lists(s, unick, {}) /\ (Earned(S, auth) => Earned(s, auth'))
  BY <1>1, <1>2, <1>3, <1>4, NewAliasLinked
<1> HIDE DEF s
<1>6. (S.nalists[unick[u]] = NULL /\ Lists(S, unick, {})) => S.una[u] = NULL
  BY <1>1 DEF Lists, LinkedBut, Found
<1>7. Layers(s, unick', auth')
  BY <1>1, <1>2, <1>5, <1>6, Conditions DEF Layers
<1> QED BY <1>2, <1>5, <1>7, IsKept

LEMMA ConfirmOfflineKept ==
  ASSUME LInv, NEW n \in Nick, NEW b \in Alias, NEW c \in Core, ConfirmOffline(n, b, c)
  PROVE  Kept
<1> DEFINE s == MakeAlias(S, b, n, c, TransGroup)
<1>1. IInv /\ Layers(S, unick, auth) /\ S \in DB /\ Good(S, unick) /\ S.nalists = nalists
  BY Current DEF LInv
<1>2. /\ Becomes(s) /\ unick' = unick /\ auth' = auth /\ S.alias[b] = NULL
      /\ ~Proven /\ (OneNick => S.nalists[n] = NULL)
      /\ \A w \in User : unick[w] = n => w \in {}
  BY <1>1 DEF ConfirmOffline, FreeAlias, MayConfirm, OneNick, Proven
<1>3. TransGroup \in SUBSET Status /\ "KILL_HELD" \notin TransGroup
  BY TransGroupStatus DEF TransGroup
<1>4. /\ EnfTimed(S) => EnfTimed(s)
      /\ (Lists(S, unick, {}) /\ S.nalists[n] = NULL) => Lists(s, unick, {})
      /\ Quiet(S) => Quiet(s)
      /\ Lasting(S, s, {})
  BY <1>1, <1>2, <1>3, MakeAliasLayers
<1>5. s \in DB
  BY <1>1, <1>3, MakeAliasIs
<1> HIDE DEF s
<1>6. Layers(s, unick', auth')
  BY <1>1, <1>2, <1>4, Conditions DEF Layers
<1> QED BY <1>2, <1>4, <1>5, <1>6, IsKept

LEMMA GroupKept ==
  ASSUME LInv, NEW u \in User, NEW n \in Nick, NEW b \in Alias, Group(u, n, b)
  PROVE  Kept
<1> DEFINE old == una[u]
           c == alias[nalists[n]].nc
           s1 == IF old = NULL THEN S ELSE DelNick(S, old)
           s == Link(MakeAlias(s1, b, unick[u], c, TransGroup), u, b)
<1>1. IInv /\ Layers(S, unick, auth) /\ S \in DB /\ Good(S, unick) /\ Unique(unick)
      /\ unick[u] \in Nick /\ S.nalists = nalists /\ S.una = una /\ S.alias = alias
      /\ auth \in [User -> Core \cup {NULL}]
  BY Current DEF LInv, Outside, Group
<1>2. c \in Core
  <2>1. nalists[n] # NULL
    BY DEF Group, Usable
  <2> QED BY <1>1, <2>1, ListedAlias DEF AliasRec
<1>3. /\ Becomes(s) /\ unick' = unick /\ auth' = [auth EXCEPT ![u] = c]
      /\ s1.alias[b] = NULL
      /\ old # NULL => ~Has(S, old, "VERBOTEN")
  BY DEF Group, FreeAlias, Usable
<1>4. Proves(auth, auth', u, c, TransGroup)
  BY <1>1, <1>3 DEF Proves
<1>5. /\ s1 \in DB /\ Good(s1, unick)
      /\ EnfTimed(S) => EnfTimed(s1)
      /\ Lists(S, unick, {}) =>
           /\ Lists(s1, unick, {}) /\ s1.nalists[unick[u]] = NULL /\ s1.una[u] = NULL
           /\ Quiet(S) => Quiet(s1)
           /\ Earned(S, auth) => Earned(s1, auth)
      /\ Lasting(S, s1, {})
  <2>1. CASE old = NULL
    <3>1. s1 = S
      BY <2>1
    <3>2. Lists(S, unick, {}) => S.nalists[unick[u]] = NULL /\ S.una[u] = NULL
      BY <1>1, <2>1 DEF Lists, LinkedBut, Found
    <3> HIDE DEF s1
    <3> QED BY <1>1, <3>1, <3>2 DEF Lasting
  <2>2. CASE old # NULL
    <3>1. old \in Alias /\ S.alias[old] # NULL
      BY <1>1, <2>2, UsersAlias
    <3>2. S.alias[old].nick = unick[u]
      BY <1>1, <2>2 DEF Good, NickLinks
    <3>3. s1 = DelNick(S, old)
      BY <2>2
    <3> HIDE DEF s1
    <3>4. Good(s1, unick)
      BY <1>1, <3>1, <3>3, DelNickGood
    <3>5. /\ s1 \in DB
          /\ EnfTimed(S) => EnfTimed(s1)
          /\ Lists(S, unick, {}) =>
               /\ Lists(s1, unick, {}) /\ s1.nalists[S.alias[old].nick] = NULL
               /\ Quiet(S) => Quiet(s1)
               /\ Earned(S, auth) => Earned(s1, auth)
          /\ \A w \in User : S.una[w] \in {old, NULL} => s1.una[w] = NULL
          /\ Lasting(S, s1, {old})
      BY <1>1, <3>1, <3>3, DelNickLayers
    <3>6. Lasting(S, s1, {})
      BY <1>3, <2>2, <3>5 DEF Lasting, Has
    <3>7. s1.una[u] = NULL
      BY <1>1, <3>5
    <3> QED BY <3>2, <3>4, <3>5, <3>6, <3>7
  <2> QED BY <2>1, <2>2
<1> HIDE DEF s1, c
<1>6. TransGroup \in SUBSET Status /\ "KILL_HELD" \notin TransGroup
  BY TransGroupStatus DEF TransGroup
<1>7. /\ s \in DB
      /\ EnfTimed(s1) => EnfTimed(s)
      /\ Quiet(s1) => Quiet(s)
      /\ Lasting(s1, s, {})
      /\ (s1.una[u] = NULL /\ s1.nalists[unick[u]] = NULL /\ Lists(s1, unick, {})) =>
           Lists(s, unick, {}) /\ (Earned(s1, auth) => Earned(s, auth'))
  BY <1>1, <1>2, <1>3, <1>4, <1>5, <1>6, NewAliasLinked
<1> HIDE DEF s
<1>8. Layers(s, unick', auth')
  BY <1>1, <1>3, <1>5, <1>7, Conditions DEF Layers
<1>9. Lasting(S, s, {})
  BY <1>5, <1>7 DEF Lasting
<1> QED BY <1>3, <1>7, <1>8, <1>9, IsKept

\* DROP and expiry: the alias is freed.
LEMMA DelNickKept ==
  ASSUME LInv, NEW a \in Alias, alias[a] # NULL, Becomes(DelNick(S, a)),
         unick' = unick, auth' = auth
  PROVE  Kept
<1> DEFINE s == DelNick(S, a)
<1>1. IInv /\ Layers(S, unick, auth) /\ S \in DB /\ Good(S, unick) /\ S.alias = alias
  BY Current DEF LInv
<1>2. /\ s \in DB /\ s.alias[a] = NULL
      /\ EnfTimed(S) => EnfTimed(s)
      /\ Lists(S, unick, {}) =>
           /\ Lists(s, unick, {})
           /\ Quiet(S) => Quiet(s)
           /\ Earned(S, auth) => Earned(s, auth)
      /\ Lasting(S, s, {a})
  BY <1>1, DelNickLayers
<1>3. Becomes(s)
  OBVIOUS
<1> HIDE DEF s
<1>4. Layers(S, unick, auth)'
  <2>1. S' = s
    BY <1>2, <1>3, Became
  <2>2. Layers(s, unick', auth')
    BY <1>1, <1>2, Conditions DEF Layers
  <2> QED BY <2>1, <2>2
<1>5. Stays
  <2>1. alias' = s.alias
    BY <1>3 DEF Becomes
  <2> QED BY <1>1, <1>2, <2>1 DEF Stays, Lasting, Has
<1> QED BY <1>4, <1>5 DEF Kept

LEMMA LinkSame ==
  ASSUME NEW s, NEW u, NEW a
  PROVE  Link(s, u, a).nalists = s.nalists
  BY DEF Link

LEMMA ForbidKept ==
  ASSUME LInv, NEW n \in Nick, NEW b \in Alias, NEW c \in Core, Forbid(n, b, c)
  PROVE  Kept
<1> DEFINE old == nalists[n]
           s1 == IF old = NULL THEN S ELSE DelNick(S, old)
           s2 == MakeAlias(s1, b, n, c, {"VERBOTEN"})
<1>1. IInv /\ Layers(S, unick, auth) /\ S \in DB /\ Good(S, unick) /\ Unique(unick)
      /\ S.nalists = nalists /\ S.alias = alias
  BY Current DEF LInv, Outside
<1>2. /\ unick' = unick /\ auth' = auth /\ s1.alias[b] = NULL
      /\ \/ Becomes(s2) /\ \A w \in User : unick[w] = n => w \in {}
         \/ \E w \in User : unick[w] = n /\ Becomes(Collide(Link(s2, w, b), b, FALSE))
  BY DEF Forbid, FreeAlias
<1>3. /\ s1 \in DB /\ Good(s1, unick)
      /\ EnfTimed(S) => EnfTimed(s1)
      /\ Lists(S, unick, {}) =>
           /\ Lists(s1, unick, {}) /\ s1.nalists[n] = NULL
           /\ Quiet(S) => Quiet(s1)
           /\ Earned(S, auth) => Earned(s1, auth)
      /\ Lasting(S, s1, {old})
  <2>1. CASE old = NULL
    <3>1. s1 = S
      BY <2>1
    <3> HIDE DEF s1
    <3> QED BY <1>1, <2>1, <3>1 DEF Lasting
  <2>2. CASE old # NULL
    <3>1. old \in Alias /\ S.alias[old] # NULL /\ S.alias[old].nick = n
      BY <1>1, <2>2, ListedAlias
    <3>2. s1 = DelNick(S, old)
      BY <2>2
    <3> HIDE DEF s1
    <3>3. Good(s1, unick)
      BY <1>1, <3>1, <3>2, DelNickGood
    <3>4. /\ s1 \in DB
          /\ EnfTimed(S) => EnfTimed(s1)
          /\ Lists(S, unick, {}) =>
               /\ Lists(s1, unick, {}) /\ s1.nalists[S.alias[old].nick] = NULL
               /\ Quiet(S) => Quiet(s1)
               /\ Earned(S, auth) => Earned(s1, auth)
          /\ Lasting(S, s1, {old})
      BY <1>1, <3>1, <3>2, DelNickLayers
    <3> QED BY <3>1, <3>3, <3>4
  <2> QED BY <2>1, <2>2
<1> HIDE DEF s1
<1>4. {"VERBOTEN"} \in SUBSET Status
  BY TransGroupStatus
\* What is left to show of the database s that the command leaves.
<1>5. ASSUME NEW s, Becomes(s), s \in DB,
             EnfTimed(s1) => EnfTimed(s),
             (Lists(s1, unick, {}) /\ s1.nalists[n] = NULL) =>
               /\ Lists(s, unick, {})
               /\ Quiet(s1) => Quiet(s)
               /\ Earned(s1, auth) => Earned(s, auth),
             Lasting(s1, s, {}), s.nalists[n] = b, s.alias[b] # NULL,
             "VERBOTEN" \in s.alias[b].st
      PROVE  Kept
  <2>1. Layers(S, unick, auth)'
    <3>1. S' = s
      BY <1>5, Became
    <3>2. Layers(s, unick', auth')
      BY <1>1, <1>2, <1>3, <1>5, Conditions DEF Layers
    <3> QED BY <3>1, <3>2
  <2>2. Forbidden(n)'
    <3>1. S' = s /\ nalists'[n] = b
      BY <1>5, Became DEF Becomes
    <3> QED BY <1>5, <3>1, NullIsNothing DEF Forbidden, Has
  <2>3. Stays
    <3> SUFFICES ASSUME NEW a \in Alias, alias[a] # NULL, Has(S, a, "VERBOTEN")
                 PROVE  \/ alias'[a] = NULL
                        \/ alias'[a].nick = alias[a].nick /\ "VERBOTEN" \in alias'[a].st
                        \/ \E m \in Nick : alias[a].nick = m /\ Forbidden(m)'
      BY DEF Stays
    <3>1. CASE a = old
      <4>1. alias[a].nick = n
        BY <1>1, <3>1, ListedAlias, NullIsNothing
      <4> QED BY <2>2, <4>1
    <3>2. CASE a # old
      <4>1. alias' = s.alias
        BY <1>5 DEF Becomes
      <4> QED BY <1>1, <1>3, <1>5, <3>2, <4>1 DEF Lasting, Has
    <3> QED BY <3>1, <3>2
  <2> QED BY <2>1, <2>3 DEF Kept
<1>6. CASE Becomes(s2) /\ \A w \in User : unick[w] = n => w \in {}
  <2>1. /\ EnfTimed(s1) => EnfTimed(s2)
        /\ (Lists(s1, unick, {}) /\ s1.nalists[n] = NULL) => Lists(s2, unick, {})
        /\ Quiet(s1) => Quiet(s2)
        /\ Earned(s1, auth) => EarnedBut(s2, auth, b)
        /\ Lasting(s1, s2, {})
    BY <1>2, <1>3, <1>4, <1>6, MakeAliasLayers
  <2>2. /\ s2 \in DB /\ s2.nalists[n] = b /\ s2.alias[b] # NULL
        /\ s2.alias[b].st = {"VERBOTEN"}
    BY <1>3, <1>4, MakeAliasIs
  <2> HIDE DEF s2
  <2>3. Earned(s1, auth) => Earned(s2, auth)
    BY <2>1, <2>2, NotIdentifiedEarned
  <2> QED BY <1>5, <1>6, <2>1, <2>2, <2>3
<1>7. ASSUME NEW w \in User, unick[w] = n, Becomes(Collide(Link(s2, w, b), b, FALSE))
      PROVE  Kept
  <2> DEFINE s3 == Link(MakeAlias(s1, b, unick[w], c, {"VERBOTEN"}), w, b)
             s == Collide(s3, b, FALSE)
  <2>1. Becomes(s)
    BY <1>7
  <2>2. unick[w] \in Nick /\ Proves(auth, auth, w, c, {"VERBOTEN"})
        /\ "KILL_HELD" \notin {"VERBOTEN"}
    BY <1>7 DEF Proves
  <2>3. /\ s3 \in DB /\ s3.una[w] = b
        /\ s3.alias[b] # NULL /\ s3.alias[b].nick = unick[w] /\ s3.alias[b].st = {"VERBOTEN"}
        /\ EnfTimed(s1) => EnfTimed(s3)
        /\ Quiet(s1) => Quiet(s3)
        /\ Lasting(s1, s3, {})
        /\ (s1.una[w] = NULL /\ s1.nalists[unick[w]] = NULL /\ Lists(s1, unick, {})) =>
             Lists(s3, unick, {}) /\ (Earned(s1, auth) => Earned(s3, auth))
    BY <1>1, <1>2, <1>3, <1>4, <2>2, NewAliasLinked
  <2>4. s3.nalists[n] = b
    <3>1. MakeAlias(s1, b, unick[w], c, {"VERBOTEN"}).nalists[n] = b
      BY <1>3, <1>4, <1>7, MakeAliasIs
    <3> QED BY <2>3, <3>1, LinkSame
  <2> HIDE DEF s3
  <2>5. /\ OnlyStatus(s3, s, b, {"VERBOTEN"} \cup {"GUESTED"})
        /\ s.enf = s3.enf
        /\ Forgotten(s3, s, Mine(s3, b, "collide"))
    BY <2>3, CollideIs
  <2> HIDE DEF s
  <2>6. /\ EnfTimed(s3) => EnfTimed(s)
        /\ Quiet(s3) => Quiet(s)
        /\ Earned(s3, auth) => Earned(s, auth)
        /\ Lasting(s3, s, {})
    BY <2>3, <2>5, CollideLayers
  <2>7. s \in DB /\ (Lists(s3, unick, {}) => Lists(s, unick, {}))
    BY <2>3, <2>5, KeepsLists DEF OnlyStatus
  <2>8. s.nalists[n] = b /\ s.alias[b] # NULL /\ "VERBOTEN" \in s.alias[b].st
    BY <2>3, <2>4, <2>5 DEF OnlyStatus, Keeps
  <2>9. (Lists(s1, unick, {}) /\ s1.nalists[n] = NULL) =>
          /\ s1.una[w] = NULL
          /\ Lists(s, unick, {})
          /\ Quiet(s1) => Quiet(s)
          /\ Earned(s1, auth) => Earned(s, auth)
    <3>1. (Lists(s1, unick, {}) /\ s1.nalists[n] = NULL) => s1.una[w] = NULL
      BY <1>7 DEF Lists, LinkedBut, Found
    <3> QED BY <1>7, <2>3, <2>6, <2>7, <3>1
  <2>10. Lasting(s1, s, {})
    BY <2>3, <2>6 DEF Lasting
  <2> QED BY <1>5, <2>1, <2>3, <2>6, <2>7, <2>8, <2>9, <2>10
<1> QED BY <1>2, <1>6, <1>7

\* The timeout x of the alias a has run and is freed, and its entry is gone:
\* nothing else if there is no alias; else it may have sent an SVSNICK, or has
\* made the enforcer quit.
Ran(s, s1, x, a, kind) ==
    /\ s.timer[x] # NULL /\ s.timer[x].na = a /\ s.timer[x].kind = kind
    /\ Keeps(s, s1) /\ s1.my = s.my \ Mine(s, a, kind) /\ s1.timer[x] = NULL
    /\ \A y \in Timer : y # x => s1.timer[y] = s.timer[y]
    /\ \A p \in Alias : p # a => s1.alias[p] = s.alias[p]
    /\ \/ s.alias[a] = NULL /\ s1.alias[a] = NULL /\ s1.enf = s.enf
       \/ /\ s.alias[a] # NULL /\ s1.enf = s.enf /\ kind = "collide"
          /\ s1.alias[a].st \in {s.alias[a].st, s.alias[a].st \cup {"GUESTED"}}
       \/ /\ s.alias[a] # NULL /\ s1.enf = s.enf \ {s.alias[a].nick} /\ kind = "release"
          /\ s1.alias[a].st = s.alias[a].st \ {"KILL_HELD"}

\* Under Quiet the timeout was on the private list, so that its alias exists
\* and no entry but its own is gone.
LEMMA RanLayers ==
  ASSUME NEW s \in DB, NEW s1 \in DB, Sound(s), NEW x \in Timer, NEW a \in Alias,
         NEW kind \in Kind, NEW au, Ran(s, s1, x, a, kind)
  PROVE  /\ EnfTimed(s) => EnfTimed(s1)
         /\ (OneAlias(s) /\ Quiet(s)) => Quiet(s1)
         /\ Earned(s, au) => Earned(s1, au)
         /\ Lasting(s, s1, {})
<1> USE DEF Ran
<1>1. EnfTimed(s) => EnfTimed(s1)
  <2> SUFFICES ASSUME EnfTimed(s), NEW n \in s1.enf
               PROVE  \E m \in s1.my : m.kind = "release" /\ s1.alias[m.na] # NULL
                                       /\ s1.alias[m.na].nick = n
    BY DEF EnfTimed
  <2>1. PICK m \in s.my : m.kind = "release" /\ s.alias[m.na] # NULL
                          /\ s.alias[m.na].nick = n
    BY DEF EnfTimed
  <2>2. m \notin Mine(s, a, kind) /\ m.na \in Alias
    BY <2>1 DEF DB, Mine
  <2> QED BY <2>1, <2>2 DEF Keeps
<1>2. ASSUME OneAlias(s), Quiet(s)
      PROVE  Quiet(s1)
  <2>1. PICK e \in s.my : e.to = x /\ e \in Mine(s, a, kind) /\ s.alias[a] # NULL
    <3>1. PICK e \in s.my : e.to = x
      BY <1>2 DEF Quiet, Listed
    <3>2. e.na = a /\ e.kind = kind
      BY <3>1 DEF Sound
    <3> QED BY <1>2, <3>1, <3>2 DEF Mine, Quiet, Warned
  <2>2. OneEach(s1)
    BY <1>2 DEF Quiet, OneEach
  <2>3. Listed(s1)
    <3> SUFFICES ASSUME NEW y \in Timer, s1.timer[y] # NULL
                 PROVE  \E m \in s1.my : m.to = y
      BY DEF Listed
    <3>1. y # x /\ s.timer[y] # NULL
      OBVIOUS
    <3>2. PICK m \in s.my : m.to = y
      BY <1>2, <3>1 DEF Quiet, Listed
    <3>3. m \notin Mine(s, a, kind)
      BY <1>2, <2>1, <3>1, <3>2 DEF Mine, Quiet, OneEach
    <3> QED BY <3>2, <3>3
  <2>4. Warned(s1)
    <3> SUFFICES ASSUME NEW m \in s1.my
                 PROVE  /\ s1.alias[m.na] # NULL
                        /\ m.kind = "collide" => s1.alias[m.na].u # NULL
                        /\ m.kind = "release" => "KILL_HELD" \in s1.alias[m.na].st
      BY DEF Warned
    <3>1. m \in s.my /\ ~(m.na = a /\ m.kind = kind) /\ m.na \in Alias
      BY DEF Mine, DB
    <3> QED BY <1>2, <3>1 DEF Quiet, Warned, Keeps
  <2>5. Held(s1)
    <3> SUFFICES ASSUME NEW p \in Alias, s1.alias[p] # NULL, "KILL_HELD" \in s1.alias[p].st
                 PROVE  s1.alias[p].u = NULL /\ s1.alias[p].nick \in s1.enf
      BY DEF Held
    <3>1. s.alias[p] # NULL /\ "KILL_HELD" \in s.alias[p].st /\ s1.alias[p].u = s.alias[p].u
          /\ s1.alias[p].nick = s.alias[p].nick
      BY <2>1 DEF Keeps
    <3>2. s.alias[p].u = NULL /\ s.alias[p].nick \in s.enf
      BY <1>2, <3>1 DEF Quiet, Held
    <3>3. s1.enf = s.enf \/ s.alias[p].nick # s.alias[a].nick
      BY <1>2, <2>1, <3>1 DEF OneAlias
    <3> QED BY <2>1, <3>1, <3>2, <3>3
  <2> QED BY <2>2, <2>3, <2>4, <2>5 DEF Quiet
<1>3. Earned(s, au) => Earned(s1, au)
  BY DEF Earned, Keeps
<1>4. Lasting(s, s1, {})
  BY DEF Lasting, Keeps
<1> QED BY <1>1, <1>2, <1>3, <1>4

LEMMA RunTimeoutKept ==
  ASSUME LInv, NEW x \in Timer, RunTimeout(x)
  PROVE  Kept
<1> DEFINE t == timer[x]
           a == t.na
           r == RemNsTimeout(S, a, t.kind)
           s0 == IF alias[a] = NULL THEN r
                 ELSE IF t.kind = "collide" THEN TimeoutCollide(S, t)
                 ELSE TimeoutRelease(S, t)
           s == [s0 EXCEPT !.timer[x] = NULL]
<1>1. IInv /\ Layers(S, unick, auth) /\ S \in DB /\ Sound(S) /\ S.alias = alias
      /\ S.timer[x] = t /\ t # NULL /\ t \in TimerRec
  BY Current DEF LInv, RunTimeout, DB
<1>2. a \in Alias /\ t.kind \in Kind
  BY <1>1 DEF TimerRec
<1>3. /\ r \in DB /\ Keeps(S, r)
      /\ r.alias = S.alias /\ r.enf = S.enf /\ r.timer = S.timer
      /\ r.my = S.my \ Mine(S, a, t.kind)
  BY <1>1, RemNsTimeoutIs
<1>4. Becomes(s) /\ unick' = unick /\ auth' = auth
  BY DEF RunTimeout
<1>5. /\ s0 \in DB /\ Keeps(S, s0) /\ s0.my = r.my /\ s0.timer = S.timer
      /\ \A p \in Alias : p # a => s0.alias[p] = S.alias[p]
      /\ \/ S.alias[a] = NULL /\ s0.alias[a] = NULL /\ s0.enf = S.enf
         \/ /\ S.alias[a] # NULL /\ s0.enf = S.enf /\ t.kind = "collide"
            /\ s0.alias[a].st \in {S.alias[a].st, S.alias[a].st \cup {"GUESTED"}}
         \/ /\ S.alias[a] # NULL /\ s0.enf = S.enf \ {S.alias[a].nick} /\ t.kind = "release"
            /\ s0.alias[a].st = S.alias[a].st \ {"KILL_HELD"}
  <2>1. CASE alias[a] = NULL
    <3>1. s0 = r
      BY <2>1
    <3> HIDE DEF s0, r
    <3> QED BY <1>1, <1>3, <2>1, <3>1
  <2>2. CASE alias[a] # NULL /\ t.kind = "collide"
    <3>1. s0 = r \/ s0 = Collide(r, a, TRUE)
      BY <2>2 DEF TimeoutCollide
    <3> HIDE DEF s0, r, a
    <3>2. r.alias[a] # NULL
      BY <1>1, <1>3, <2>2
    <3> DEFINE k == Collide(r, a, TRUE)
    <3>3. /\ OnlyStatus(r, k, a, r.alias[a].st \cup {"GUESTED"})
          /\ k.enf = r.enf /\ SameTimeouts(r, k)
      BY <1>2, <1>3, <3>2, CollideIs
    <3> HIDE DEF k
    <3>4. CASE s0 = r
      BY <1>1, <1>3, <2>2, <3>4
    <3>5. CASE s0 = k
      <4>1. Keeps(S, k)
        BY <1>3, <3>3, KeepsTransitive DEF OnlyStatus
      <4> QED BY <1>1, <1>3, <2>2, <3>3, <3>5, <4>1 DEF OnlyStatus, SameTimeouts
    <3> QED BY <3>1, <3>4, <3>5 DEF k
  <2>3. CASE alias[a] # NULL /\ t.kind = "release"
    <3>1. s0 = Release(r, a, TRUE)
      BY <2>3 DEF TimeoutRelease
    <3> HIDE DEF s0, r, a
    <3>2. r.alias[a] # NULL
      BY <1>1, <1>3, <2>3
    <3>3. /\ OnlyStatus(r, s0, a, r.alias[a].st \ {"KILL_HELD"})
          /\ s0.enf = r.enf \ {r.alias[a].nick} /\ SameTimeouts(r, s0)
      BY <1>2, <1>3, <3>1, <3>2, ReleaseIs
    <3>4. Keeps(S, s0)
      BY <1>3, <3>3, KeepsTransitive DEF OnlyStatus
    <3> QED BY <1>1, <1>3, <2>3, <3>3, <3>4 DEF OnlyStatus, SameTimeouts
  <2> QED BY <1>2, <2>1, <2>2, <2>3 DEF Kind
<1> HIDE DEF s0, r
<1>6. /\ s \in DB /\ Keeps(S, s) /\ s.my = S.my \ Mine(S, a, t.kind) /\ s.timer[x] = NULL
      /\ \A y \in Timer : y # x => s.timer[y] = S.timer[y]
      /\ s.alias = s0.alias /\ s.enf = s0.enf
  BY <1>1, <1>3, <1>5 DEF DB, Keeps
<1> HIDE DEF s, t
<1>a. Ran(S, s, x, a, t.kind)
  BY <1>1, <1>5, <1>6 DEF Ran
<1>7. /\ EnfTimed(S) => EnfTimed(s)
      /\ (OneAlias(S) /\ Quiet(S)) => Quiet(s)
      /\ Earned(S, auth) => Earned(s, auth)
      /\ Lasting(S, s, {})
  BY <1>1, <1>2, <1>6, <1>a, RanLayers
<1>8. Lists(S, unick, {}) => Lists(s, unick, {})
  BY <1>1, <1>6, KeepsLists
<1>9. Layers(s, unick', auth')
  BY <1>1, <1>4, <1>7, <1>8, Conditions DEF Layers, Lists
<1> QED BY <1>4, <1>6, <1>7, <1>9, IsKept

\* REGISTER, the end of a request, and the clock leave the database alone.
LEMMA SameKept ==
  ASSUME LInv, UNCHANGED <<unick, nalists, alias, una, timer, my_timeouts, enforcer, auth>>
  PROVE  Kept
<1>1. S' = S
  BY DEF S
<1>2. Layers(S, unick, auth)'
  BY <1>1 DEF LInv
<1>3. Stays
  BY DEF Stays, Has, S
<1> QED BY <1>2, <1>3 DEF Kept

LEMMA NextKept ==
  ASSUME LInv, [Next]_vars
  PROVE  LInv' /\ Kept
<1>1. CASE Network
  <2>1. PICK u \in User, x \in FreeTimer :
          \/ Leave(u, x)
          \/ \E v \in Verdicts : CaseChange(u, v, x)
          \/ \E n \in Nick \cup {NoNick} :
                \/ ConnectIdentified(u, n)
                \/ \E v \in Verdicts : Connect(u, n, v, x)
                \/ \E v \in Verdicts, y \in FreeTimer \ {x}, qlined \in BOOLEAN :
                      ChangeNick(u, n, qlined, v, x, y)
    BY <1>1 DEF Network
  <2>2. Leave(u, x) => Kept
    BY LeaveKept
  <2>3. ASSUME NEW v \in Verdicts, CaseChange(u, v, x)
        PROVE  Kept
    BY <2>3, CaseChangeKept
  <2>4. ASSUME NEW n \in Nick \cup {NoNick}, ConnectIdentified(u, n)
        PROVE  Kept
    BY <2>4, ConnectIdentifiedKept
  <2>5. ASSUME NEW n \in Nick \cup {NoNick}, NEW v \in Verdicts, Connect(u, n, v, x)
        PROVE  Kept
    BY <2>5, ConnectKept
  <2>6. ASSUME NEW n \in Nick \cup {NoNick}, NEW v \in Verdicts,
               NEW y \in FreeTimer \ {x}, NEW qlined \in BOOLEAN,
               ChangeNick(u, n, qlined, v, x, y)
        PROVE  Kept
    BY <2>6, ChangeNickKept
  <2>7. Kept
    BY <2>1, <2>2, <2>3, <2>4, <2>5, <2>6
  <2> QED BY <2>7, NextIInv DEF LInv, Kept
<1>2. CASE Command
  <2>1. ASSUME NEW u \in User, Identify(u) \/ Logout(u) \/ Recover(u)
        PROVE  Kept
    BY <2>1, IdentifyKept, LogoutKept, RecoverKept
  <2>2. ASSUME NEW u \in User, Register(u)
        PROVE  Kept
    BY <2>2, SameKept DEF Register
  <2>3. ASSUME NEW u \in User, NEW v \in Verdicts, NEW x \in FreeTimer,
               NEW y \in FreeTimer \ {x}, LogoutRevalidate(u, v, x, y)
        PROVE  Kept
    BY <2>3, LogoutRevalidateKept
  <2>4. ASSUME NEW u \in User, NEW b \in Alias, NEW c \in Core, Confirm(u, b, c)
        PROVE  Kept
    BY <2>4, ConfirmKept
  <2>5. ASSUME NEW u \in User, NEW n \in Nick, NEW b \in Alias, Group(u, n, b)
        PROVE  Kept
    BY <2>5, GroupKept
  <2>6. ASSUME NEW n \in Nick, ReleaseNick(n)
        PROVE  Kept
    BY <2>6, ReleaseNickKept
  <2>7. ASSUME NEW n \in Nick, DropNick(n)
        PROVE  Kept
    <3>1. nalists[n] \in Alias /\ alias[nalists[n]] # NULL
      BY <2>7, Current, ListedAlias DEF DropNick, LInv
    <3> QED BY <2>7, <3>1, DelNickKept DEF DropNick
  <2>8. ASSUME NEW n \in Nick, DropRequest(n)
        PROVE  Kept
    BY <2>8, SameKept DEF DropRequest
  <2>9. ASSUME NEW n \in Nick, NEW b \in Alias, NEW c \in Core,
               ConfirmOffline(n, b, c) \/ Forbid(n, b, c)
        PROVE  Kept
    BY <2>9, ConfirmOfflineKept, ForbidKept
  <2>10. ASSUME NEW a \in Alias, ExpireNick(a)
        PROVE  Kept
    BY <2>10, DelNickKept DEF ExpireNick
  <2>11. Kept
    BY <1>2, <2>1, <2>2, <2>3, <2>4, <2>5, <2>6, <2>7, <2>8, <2>9, <2>10 DEF Command
  <2> QED BY <2>11, NextIInv DEF LInv, Kept
<1>3. CASE Timeout
  BY <1>3, RunTimeoutKept, NextIInv DEF Timeout, LInv, Kept
<1>4. CASE Tick
  BY <1>4, SameKept, NextIInv DEF Tick, LInv, Kept
<1>5. CASE UNCHANGED vars
  BY <1>5, SameKept, NextIInv DEF vars, LInv, Kept
<1> QED BY <1>1, <1>2, <1>3, <1>4, <1>5 DEF Next

LEMMA InitLInv == Init => LInv
<1> SUFFICES ASSUME Init PROVE LInv
  OBVIOUS
<1>1. IInv
  BY InitIInv
<1>2. EnfTimed(S)
  BY DEF Init, S, EnfTimed
<1>3. Lists(S, unick, {})
  BY NullIsNothing DEF Init, S, Lists, OneAlias, Mutual, LinkedBut, Found
<1>4. Quiet(S)
  BY DEF Init, S, Quiet, OneEach, Listed, Warned, Held
<1>5. Earned(S, auth)
  BY DEF Init, S, Earned
<1> QED BY <1>1, <1>2, <1>3, <1>4, <1>5 DEF LInv, Layers

-----------------------------------------------------------------------------
(* What holds of every behaviour.                                          *)

\* The layered invariant: which of its parts hold depends on the sequences
\* that happen, and each part is kept by every action.
THEOREM LayersHold == Spec => []LInv
<1>1. LInv /\ [Next]_vars => LInv'
  BY NextKept
<1> QED BY InitLInv, <1>1, PTL DEF Spec

\* No enforcer client is left behind, whatever happens: each one introduced by
\* cancel_user has a release timeout on the private list until release() or
\* clean_ns_timeouts() makes it quit (nickserv.c:1684-1843).
THEOREM EnforcersHaveTimeouts == Spec => []EnforcerHasTimeout
<1>1. LInv => EnforcerHasTimeout
  BY DEF LInv, Layers, EnfTimed, S, EnforcerHasTimeout
<1> QED BY <1>1, LayersHold, PTL

\* Unless a request is confirmed for a nick that has been registered
\* meanwhile, users and nicks point to each other, and each user of a
\* registered nick is linked to the alias findnick returns (users.c:88-132,
\* nickserv.c:1574).
THEOREM UsersStayLinked ==
  ASSUME OneNick
  PROVE  Spec => []UsersLinked
<1>1. LInv => UsersLinked
  <2> SUFFICES ASSUME LInv PROVE UsersLinked
    OBVIOUS
  <2>1. Lists(S, unick, {}) /\ S.una = una /\ S.alias = alias
    BY Current DEF LInv, Layers
  <2> QED BY <2>1 DEF Lists, Mutual, LinkedBut, UsersLinked
<1> QED BY <1>1, LayersHold, PTL

\* With the same proviso a forbidden nick stays forbidden until the record
\* that forbids it is dropped (help text of FORBID).
THEOREM ForbiddenNicksStay ==
  ASSUME OneNick
  PROVE  Spec => ForbiddenStays
<1>1. LInv /\ LInv' /\ Kept =>
        \A n \in Nick : (Forbidden(n) /\ ~Forbidden(n)') => alias'[nalists[n]] = NULL
  <2> SUFFICES ASSUME LInv, LInv', Kept, NEW n \in Nick, Forbidden(n), ~Forbidden(n)'
               PROVE  alias'[nalists[n]] = NULL
    OBVIOUS
  <2> DEFINE a == nalists[n]
  <2>1. a \in Alias /\ alias[a] # NULL /\ alias[a].nick = n /\ Has(S, a, "VERBOTEN")
    BY Current, ListedAlias DEF LInv, Forbidden
  <2>2. \/ alias'[a] = NULL
        \/ alias'[a].nick = n /\ "VERBOTEN" \in alias'[a].st
    BY <2>1 DEF Kept, Stays
  <2>3. (alias'[a] # NULL /\ alias'[a].nick = n) => nalists'[n] = a
    <3>1. Lists(S, unick, {})' /\ S'.alias = alias' /\ S'.nalists = nalists'
      BY DEF LInv, Layers, S
    <3> QED BY <2>1, <3>1 DEF Lists, OneAlias
  <2>4. ASSUME alias'[a] # NULL, alias'[a].nick = n, "VERBOTEN" \in alias'[a].st
        PROVE  Forbidden(n)'
    BY <2>1, <2>3, <2>4, NullIsNothing DEF Forbidden, Has, S
  <2> QED BY <2>2, <2>4
<1>2. LInv /\ [Next]_vars =>
        \A n \in Nick : (Forbidden(n) /\ ~Forbidden(n)') => alias'[nalists[n]] = NULL
  BY <1>1, NextKept
<1> QED BY <1>2, LayersHold, PTL DEF Spec, ForbiddenStays

\* Unless a user escapes from the protection of a nick by one of the sequences
\* that Orderly leaves out, every pending timeout is on the private list of an
\* alias that exists: none outlives its alias (nickserv.c:1684-1843).
THEOREM NoTimeoutIsOrphan ==
  ASSUME Orderly
  PROVE  Spec => []NoOrphanTimeout
<1>1. LInv => NoOrphanTimeout
  <2> SUFFICES ASSUME LInv, NEW x \in Timer, timer[x] # NULL
               PROVE  /\ \E m \in my_timeouts : m.to = x
                      /\ alias[timer[x].na] # NULL
    BY DEF NoOrphanTimeout
  <2>1. Quiet(S) /\ S.timer = timer /\ S.my = my_timeouts /\ S.alias = alias /\ Sound(S)
    BY Current DEF LInv, Layers
  <2>2. PICK m \in my_timeouts : m.to = x
    BY <2>1 DEF Quiet, Listed
  <2>3. timer[x].na = m.na /\ alias[m.na] # NULL
    BY <2>1, <2>2 DEF Sound, Quiet, Warned
  <2> QED BY <2>2, <2>3
<1> QED BY <1>1, LayersHold, PTL

\* With that proviso a nick that says it is held is held by an enforcer, which
\* do_release trusts, and users and nicks point to each other: no flag and no
\* pointer of an alias is left over (nickserv.c, cancel_user and release).
THEOREM LinksAndFlagsAgree ==
  ASSUME Orderly
  PROVE  Spec => []LinksAgree
<1>1. LInv => HeldFlagTrue
  BY DEF LInv, Layers, Quiet, Held, S, HeldFlagTrue, Has
<1> QED BY <1>1, UsersStayLinked, Conditions, LayersHold, PTL DEF LinksAgree

\* Unless a request is confirmed for a registered nick, or by an operator for
\* a nick in nobody's use, a nick is identified only for a user who proved to
\* belong to its group since he came: the flag is never inherited
\* (nickserv.c cancel_user, users.c do_nick).
THEOREM IdentityIsEarned ==
  ASSUME Proven
  PROVE  Spec => []IdentifiedIsEarned
<1>1. LInv => IdentifiedIsEarned
  BY DEF LInv, Layers, Earned, S, IdentifiedIsEarned, Has
<1> QED BY <1>1, LayersHold, PTL
================================================================================
