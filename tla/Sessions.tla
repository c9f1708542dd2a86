------------------------------- MODULE Sessions -------------------------------
(***************************************************************************)
(* Session limiting (src/sessions.c): how many users a host may have, and  *)
(* the list of exceptions that services admins keep, with the calls that   *)
(* src/users.c makes when users come and go.                               *)
(*                                                                         *)
(* A Session counts the users of one host.  do_nick asks add_session       *)
(* before it makes the User; do_quit and do_kill call del_session before   *)
(* they delete him.  An Exception has a mask, a limit, an expiry time and  *)
(* a num, "used to track positions when deleting entries".                 *)
(*                                                                         *)
(* Left out: hash buckets, the reason and author of an exception, notices, *)
(* SESSION LIST and VIEW (they only read).                                 *)
(***************************************************************************)
EXTENDS Naturals, Sequences, FiniteSets, SequencesExt

CONSTANTS
    User, Host,
    Mask,               \* masks an exception may have
    Matches,            \* match_wild_nocase: pairs of a mask and a host
    NULL,
    DefSessionLimit, DefConSessionLimit,
    MaxSessionKill,     \* refused connections before the host is akilled, or 0
    Limits, Expiries,   \* what EXCEPTION ADD may ask for
    MaxExceptions,      \* bound: 32767 in the code
    MaxHits, MaxTime,   \* bounds of a counter and of the clock
    Allowed             \* of the events in Renumbered, those that may happen

\* Events that change positions in the exception list, or the list itself,
\* without calculating the num of the entries.
Renumbered == {"expire", "reload"}

ASSUME MatchesAssumption == Matches \subseteq Mask \X Host
ASSUME LimitsAreNat ==
    /\ Limits \subseteq Nat /\ Expiries \subseteq Nat
    /\ {DefSessionLimit, DefConSessionLimit} \subseteq Nat \ {0}
    /\ {MaxSessionKill, MaxExceptions, MaxHits, MaxTime} \subseteq Nat
ASSUME UsersAreFinite == IsFiniteSet(User)
ASSUME NullIsNoHost == NULL \notin Host

SessionRec == [count: Nat \ {0}, hits: Nat]
ExceptionRec == [mask: Mask, limit: Nat, expires: Nat, num: Nat]
SavedRec == [mask: Mask, limit: Nat, expires: Nat]

ASSUME NullIsNoSession == NULL \notin SessionRec

VARIABLES
    now,
    host,           \* User.host of the users services know, or NULL
    session,        \* the Session of a host, or NULL
    exceptions,     \* the array of exceptions
    saved,          \* what the exception database on disk holds
    akilled,        \* hosts akilled for too many connections
    defcon          \* checkDefCon(DEFCON_REDUCE_SESSION)

vars == <<now, host, session, exceptions, saved, akilled, defcon>>

TypeOK ==
    /\ now \in Nat
    /\ host \in [User -> Host \cup {NULL}]
    /\ session \in [Host -> SessionRec \cup {NULL}]
    /\ exceptions \in Seq(ExceptionRec)
    /\ saved \in Seq(SavedRec)
    /\ akilled \subseteq Host
    /\ defcon \in BOOLEAN

Init ==
    /\ now = 0
    /\ host = [u \in User |-> NULL]
    /\ session = [h \in Host |-> NULL]
    /\ exceptions = <<>>
    /\ saved = <<>>
    /\ akilled = {}
    /\ defcon = FALSE

-----------------------------------------------------------------------------
(* Sessions.                                                               *)

\* find_host_exception(): the first exception the host matches.
Matching(h) == {i \in DOMAIN exceptions : <<exceptions[i].mask, h>> \in Matches}
First(I) == CHOOSE i \in I : \A j \in I : i <= j

\* The limit that add_session applies; 0 is no limit.
SessionLimit(h) ==
    IF Matching(h) # {} THEN exceptions[First(Matching(h))].limit
    ELSE IF defcon THEN DefConSessionLimit ELSE DefSessionLimit

\* Mutant of AtLimit: one too many.
PastLimit(h) ==
    /\ session[h] # NULL
    /\ SessionLimit(h) # 0
    /\ session[h].count > SessionLimit(h)

AtLimit(h) ==
    /\ session[h] # NULL
    /\ SessionLimit(h) # 0
    /\ session[h].count >= SessionLimit(h)

CountUp(s) == [s EXCEPT !.count = @ + 1]
CountDown(s) == [s EXCEPT !.count = @ - 1]
HitsUp(s) == [s EXCEPT !.hits = @ + 1]

AddSession(h) ==
    session' = [session EXCEPT ![h] =
                   IF @ = NULL THEN [count |-> 1, hits |-> 0] ELSE CountUp(@)]

\* Mutants of DelSession: the session is not freed; the last user is counted
\* on.
DelSessionKeepsZero(h) ==
    session' = [session EXCEPT ![h] = IF @ # NULL THEN CountDown(@) ELSE NULL]
DelSessionKeepsLast(h) ==
    session' = [session EXCEPT ![h] =
                   IF @ # NULL /\ @.count > 1 THEN CountDown(@) ELSE @]

DelSession(h) ==
    session' = [session EXCEPT ![h] =
                   IF @ # NULL /\ @.count > 1 THEN CountDown(@) ELSE NULL]

\* do_nick() for a new user, when add_session lets him in.
Connect(u, h) ==
    /\ host[u] = NULL
    /\ ~AtLimit(h)
    /\ AddSession(h)
    /\ host' = [host EXCEPT ![u] = h]
    /\ UNCHANGED <<now, exceptions, saved, akilled, defcon>>

\* add_session() refuses and kills the user; do_nick makes no User.
Refuse(h) ==
    /\ AtLimit(h)
    /\ session[h].hits < MaxHits
    /\ session' = [session EXCEPT ![h] = HitsUp(@)]
    /\ akilled' = IF MaxSessionKill # 0 /\ session'[h].hits >= MaxSessionKill
                    THEN akilled \cup {h} ELSE akilled
    /\ UNCHANGED <<now, host, exceptions, saved, defcon>>

\* do_quit() and do_kill().
Leave(u) ==
    /\ host[u] # NULL
    /\ DelSession(host[u])
    /\ host' = [host EXCEPT ![u] = NULL]
    /\ UNCHANGED <<now, exceptions, saved, akilled, defcon>>

\* OperServ DEFCON, to or from a level that reduces sessions.
DefCon ==
    /\ defcon' = ~defcon
    /\ UNCHANGED <<now, host, session, exceptions, saved, akilled>>

-----------------------------------------------------------------------------
(* Exceptions.                                                             *)

Renumber(list) == [i \in DOMAIN list |-> [list[i] EXCEPT !.num = i - 1]]

\* EXCEPTION ADD; exception_add() refuses a mask that is in the list.
ExceptionAdd(k, limit, expiry) ==
    /\ Len(exceptions) < MaxExceptions
    /\ \A i \in DOMAIN exceptions : exceptions[i].mask # k
    /\ exceptions' = Append(exceptions,
           [mask |-> k, limit |-> limit, num |-> Len(exceptions),
            expires |-> IF expiry = 0 THEN 0 ELSE now + expiry])
    /\ UNCHANGED <<now, host, session, saved, akilled, defcon>>

\* Mutant of DelCallback: the number is taken for the position.
DelCallbackAtPosition(list, n) == IF n \in DOMAIN list THEN RemoveAt(list, n) ELSE list

\* exception_del_callback(): delete the first exception with that num.
DelCallback(list, n) ==
    LET I == {i \in DOMAIN list : list[i].num = n - 1}
    IN  IF I = {} THEN list ELSE RemoveAt(list, First(I))

\* EXCEPTION DEL with a list of numbers, in the order process_numlist runs
\* through them.
ExceptionDelNumbers(nums) ==
    /\ exceptions' = Renumber(FoldLeft(DelCallback, exceptions, nums))
    /\ UNCHANGED <<now, host, session, saved, akilled, defcon>>

Without(k) ==
    LET I == {i \in DOMAIN exceptions : exceptions[i].mask = k}
    IN  IF I = {} THEN exceptions ELSE RemoveAt(exceptions, First(I))

\* Mutant of ExceptionDel: the numbers are not calculated again.
ExceptionDelKeepsNums(k) ==
    /\ exceptions' = Without(k)
    /\ UNCHANGED <<now, host, session, saved, akilled, defcon>>

\* EXCEPTION DEL with a mask; the numbers are calculated again even when the
\* mask is not found.
ExceptionDel(k) ==
    /\ exceptions' = Renumber(Without(k))
    /\ UNCHANGED <<now, host, session, saved, akilled, defcon>>

\* The two memmoves of EXCEPTION MOVE, for positions n1 # n2.
Shift(list, n1, n2) ==
    [i \in DOMAIN list |->
        IF i = n2 THEN list[n1]
        ELSE IF n1 <= i /\ i < n2 THEN list[i + 1]
        ELSE IF n2 < i /\ i <= n1 THEN list[i - 1]
        ELSE list[i]]

ExceptionMove(n1, n2) ==
    /\ {n1, n2} \subseteq DOMAIN exceptions /\ n1 # n2
    /\ exceptions' = Renumber(Shift(exceptions, n1, n2))
    /\ UNCHANGED <<now, host, session, saved, akilled, defcon>>

\* The positions of I from the first to the last: the only function of the set.
Orders(I) ==
    {f \in [1..Cardinality(I) -> I] : \A i, j \in DOMAIN f : i < j => f[i] < f[j]}

\* expire_exceptions(), from the main loop and from EXCEPTION LIST and VIEW.
Expire ==
    LET Kept == {i \in DOMAIN exceptions :
                    exceptions[i].expires = 0 \/ exceptions[i].expires > now} IN
    /\ "expire" \in Allowed
    /\ \E f \in Orders(Kept) : exceptions' = [i \in DOMAIN f |-> exceptions[f[i]]]
    /\ UNCHANGED <<now, host, session, saved, akilled, defcon>>

\* save_exceptions(): the num is not saved.
Save ==
    /\ saved' = [i \in DOMAIN exceptions |->
                    [mask |-> exceptions[i].mask, limit |-> exceptions[i].limit,
                     expires |-> exceptions[i].expires]]
    /\ UNCHANGED <<now, host, session, exceptions, akilled, defcon>>

\* Services stop and start again; load_exceptions() leaves every num as
\* scalloc made it.  The network introduces its users anew.
Restart ==
    /\ "reload" \in Allowed
    /\ exceptions' = [i \in DOMAIN saved |->
                         [mask |-> saved[i].mask, limit |-> saved[i].limit,
                          expires |-> saved[i].expires, num |-> 0]]
    /\ host' = [u \in User |-> NULL]
    /\ session' = [h \in Host |-> NULL]
    /\ defcon' = FALSE
    /\ UNCHANGED <<now, saved, akilled>>

Tick ==
    /\ now < MaxTime
    /\ now' = now + 1
    /\ UNCHANGED <<host, session, exceptions, saved, akilled, defcon>>

Network ==
    \/ \E u \in User : Leave(u) \/ \E h \in Host : Connect(u, h)
    \/ \E h \in Host : Refuse(h)

NumLists == {<<i>> : i \in 1..MaxExceptions} \cup ((1..MaxExceptions) \X (1..MaxExceptions))

Admin ==
    \/ DefCon
    \/ \E k \in Mask :
          ExceptionDel(k) \/ \E l \in Limits, e \in Expiries : ExceptionAdd(k, l, e)
    \/ \E nums \in NumLists : ExceptionDelNumbers(nums)
    \/ \E n1, n2 \in 1..MaxExceptions : ExceptionMove(n1, n2)

Next == Network \/ Admin \/ Expire \/ Save \/ Restart \/ Tick

Spec == Init /\ [][Next]_vars
-----------------------------------------------------------------------------
(* Safety.                                                                 *)

UsersOf(h) == {u \in User : host[u] = h}

\* A host has a session exactly when a user comes from it, and the session
\* counts those users: add_session and del_session stay paired over every
\* way to come and go, so del_session's warning about a missing session is
\* never sent.
SessionsCountUsers ==
    \A h \in Host :
        IF session[h] = NULL THEN UsersOf(h) = {}
        ELSE Cardinality(UsersOf(h)) = session[h].count

\* However limits come and go, a user is only let in when his host then has
\* no more users than the limit in force.
NoHostOverLimit ==
    [][\A h \in Host :
          (Cardinality(UsersOf(h)') > Cardinality(UsersOf(h)) /\ SessionLimit(h) # 0) =>
              Cardinality(UsersOf(h)') <= SessionLimit(h)]_vars

\* A user is only refused when his host really has that many users.
RefusedOnlyAtLimit ==
    [][\A h \in Host :
          (/\ session[h] # NULL /\ session'[h] # NULL
           /\ session'[h].hits > session[h].hits) =>
              Cardinality(UsersOf(h)) >= SessionLimit(h)]_vars

\* The num of an exception is its position ("it is calculated at load time
\* and never saved", services.h:1183).
NumIsPosition == \A i \in DOMAIN exceptions : exceptions[i].num = i - 1

Plain(e) == <<e.mask, e.limit, e.expires>>

\* Every command leaves the numbers equal to the positions: only expiry and a
\* restart of services break them.
CommandsKeepNumbers == [][NumIsPosition => (NumIsPosition' \/ Expire \/ Restart)]_vars

\* The entries given by number are gone, all the others are left in order.
RemovedExactly(nums) ==
    \E f \in Orders(DOMAIN exceptions \ ToSet(nums)) :
        /\ DOMAIN exceptions' = DOMAIN f
        /\ \A i \in DOMAIN f : Plain(exceptions'[i]) = Plain(exceptions[f[i]])

\* While the numbers are positions, EXCEPTION DEL with any list of numbers
\* removes exactly these entries, although positions change while it deletes
\* (sessions.c:521-524).
DelRemovesNumbered ==
    [][\A nums \in NumLists :
          (NumIsPosition /\ ExceptionDelNumbers(nums)) => RemovedExactly(nums)]_vars

\* EXCEPTION DEL removes exactly the entries that EXCEPTION LIST shows under
\* the numbers given.  It does not, once an exception has expired.
DelRemovesListed ==
    [][\A nums \in NumLists : ExceptionDelNumbers(nums) => RemovedExactly(nums)]_vars
===============================================================================
