------------------------------- MODULE NickServ -------------------------------
(***************************************************************************)
(* The nick database of src/nickserv.c against the users of src/users.c:   *)
(* who is linked to which registered nick, the temporary status of a nick  *)
(* (identified, recognized, being renamed, held by an enforcer), and the   *)
(* collide and release timeouts that protect it.                           *)
(*                                                                         *)
(* NickAlias records live at addresses of the allocator, which may hand a  *)
(* freed address out again; a Timeout keeps a bare pointer to its alias.   *)
(* Timeouts are the pending timeouts of module TimerSet: a due one runs    *)
(* its whole routine in one step.  The owner keeps a private list          *)
(* (my_timeouts) of the timeouts of an alias.                              *)
(*                                                                         *)
(* The database is one record S; a C routine is an operator from S to S,   *)
(* so that a handler composes the routines it calls in their order.        *)
(*                                                                         *)
(* Left out: passwords (a command that checks one is the successful call), *)
(* notices, mode changes, last-seen data, NS_ON_ACCESS (never read).       *)
(***************************************************************************)
EXTENDS Naturals, FiniteSets

CONSTANTS
    User,           \* User records
    Nick,           \* nicks somebody cares about; any other is NoNick
    NoNick,         \* some nick that is not registered (a guest nick, ...)
    Core,           \* addresses of NickCore records (nick groups)
    Alias,          \* addresses of NickAlias records
    Timer,          \* addresses of Timeout records: at most that many pending
    NULL,
    QuickDelay, SlowDelay,  \* 20 and 60 seconds (nickserv.c validate_user)
    ReleaseDelay,           \* NSReleaseTimeout
    MaxTime,        \* bound: the clock stops here
    LastEvent,      \* bound: no event of the network happens after this time
    Verdicts,       \* of the verdicts in Verdict, those that may be reached
    Allowed         \* of the sequences in Sequences, those that may happen

(* Sequences of legal events after which some invariants of this module   *)
(* fail (README, findings).  A run without them shows that nothing else   *)
(* breaks those invariants.                                               *)
Sequences ==
    {"case_change",         \* an unrecognized user changes the case of his nick
     "crossing",            \* a user takes a nick while the message that
                            \* introduces the enforcer is on the wire
     "revalidate_renaming", \* LOGOUT REVALIDATE for a user whose SVSNICK is
                            \* on the wire
     "confirm_registered",  \* a request is confirmed for a nick registered or
                            \* forbidden after the request was made
     "confirm_offline"}     \* an operator confirms a nick nobody is using

\* What the access list and the flags of the group make of a user who takes
\* a nick of the group.
Verdict == {"recognized", "unprotected", "immed", "quick", "slow"}

ASSUME VerdictsAssumption == Verdicts \subseteq Verdict
ASSUME NoNickIsNoNick == NoNick \notin Nick
ASSUME DelaysAreNat == {QuickDelay, SlowDelay, ReleaseDelay, MaxTime, LastEvent} \subseteq Nat
ASSUME AllowedSequences == Allowed \subseteq Sequences

VARIABLES
    now,
    unick,          \* User.nick, or NULL when the user is not on the network
    my_signon,      \* User.my_signon: when he took the nick
    requests,       \* nicks with a NickRequest waiting for confirmation
    nalists,        \* the alias findnick returns for a nick, or NULL
    alias,          \* the NickAlias at an address, or NULL when it is free
    una,            \* User.na
    timer,          \* pending collide and release timeouts
    my_timeouts,    \* the private list of them
    enforcer,       \* nicks for which an enforcer client is introduced
    auth            \* ghost: the group a user has proved to belong to

vars == <<now, unick, my_signon, requests, nalists, alias, una, timer,
          my_timeouts, enforcer, auth>>

TransGroup == {"IDENTIFIED", "RECOGNIZED"}
Temporary == TransGroup \cup {"GUESTED", "KILL_HELD"}
Status == Temporary \cup {"VERBOTEN"}
Kind == {"collide", "release"}

AliasRec == [nick: Nick, nc: Core, u: User \cup {NULL}, st: SUBSET Status,
             next: Alias \cup {NULL}]
TimerRec == [due: Nat, set: Nat, na: Alias, kind: Kind]

ASSUME NullIsNothing ==
    /\ NULL \notin User \cup Alias \cup Timer \cup Core \cup Nick \cup {NoNick}
    /\ NULL \notin AliasRec
    /\ NULL \notin TimerRec

TypeOK ==
    /\ now \in Nat
    /\ unick \in [User -> Nick \cup {NoNick, NULL}]
    /\ my_signon \in [User -> Nat]
    /\ requests \subseteq Nick
    /\ nalists \in [Nick -> Alias \cup {NULL}]
    /\ alias \in [Alias -> AliasRec \cup {NULL}]
    /\ una \in [User -> Alias \cup {NULL}]
    /\ timer \in [Timer -> TimerRec \cup {NULL}]
    /\ my_timeouts \subseteq [na: Alias, kind: Kind, to: Timer]
    /\ enforcer \subseteq Nick
    /\ auth \in [User -> Core \cup {NULL}]

Init ==
    /\ now = 0
    /\ unick = [u \in User |-> NULL]
    /\ my_signon = [u \in User |-> 0]
    /\ requests = {}
    /\ nalists = [n \in Nick |-> NULL]
    /\ alias = [a \in Alias |-> NULL]
    /\ una = [u \in User |-> NULL]
    /\ timer = [x \in Timer |-> NULL]
    /\ my_timeouts = {}
    /\ enforcer = {}
    /\ auth = [u \in User |-> NULL]

S == [nalists |-> nalists, alias |-> alias, una |-> una, timer |-> timer,
      my |-> my_timeouts, enf |-> enforcer]

Becomes(s) ==
    /\ nalists' = s.nalists
    /\ alias' = s.alias
    /\ una' = s.una
    /\ timer' = s.timer
    /\ my_timeouts' = s.my
    /\ enforcer' = s.enf

FreeTimer == {x \in Timer : timer[x] = NULL}
FreeAlias(s) == {a \in Alias : s.alias[a] = NULL}
UnusedCore(s) == {c \in Core : \A a \in Alias : s.alias[a] # NULL => s.alias[a].nc # c}

-----------------------------------------------------------------------------
(* Routines: timeouts of a nick.                                           *)

AddNsTimeout(s, a, kind, delay, x) ==
    [s EXCEPT !.timer[x] = [due |-> now + delay, set |-> now, na |-> a, kind |-> kind],
              !.my = @ \cup {[na |-> a, kind |-> kind, to |-> x]}]

Forget(s, gone) ==
    [s EXCEPT !.my = @ \ gone,
              !.timer = [x \in Timer |-> IF \E m \in gone : m.to = x THEN NULL ELSE @[x]]]

DelNsTimeout(s, a, kind) == Forget(s, {m \in s.my : m.na = a /\ m.kind = kind})

\* Mutant of RemNsTimeout: forgotten.
RemNsTimeoutForgotten(s, a, kind) == s

RemNsTimeout(s, a, kind) == [s EXCEPT !.my = {m \in @ : ~(m.na = a /\ m.kind = kind)}]

(* Routines: status of a nick.                                             *)

SetStatus(s, a, st) == [s EXCEPT !.alias[a].st = st]

Has(s, a, flag) == flag \in s.alias[a].st
Identified(s, a) == a # NULL /\ Has(s, a, "IDENTIFIED")
Recognized(s, a) == a # NULL /\ s.alias[a].st \cap TransGroup # {}

\* collide(): SVSNICK the user; the enforcer waits for cancel_user().
Collide(s, a, fromTimeout) ==
    LET s1 == IF fromTimeout THEN s ELSE DelNsTimeout(s, a, "collide")
    IN  SetStatus(s1, a, s1.alias[a].st \cup {"GUESTED"})

\* release(): the enforcer quits.
Release(s, a, fromTimeout) ==
    LET s1 == IF fromTimeout THEN s ELSE DelNsTimeout(s, a, "release")
    IN  [SetStatus(s1, a, s1.alias[a].st \ {"KILL_HELD"})
            EXCEPT !.enf = @ \ {s1.alias[a].nick}]

\* Mutants of CancelUser: the status is kept; all of the status is cleared.
CancelUserKeepsStatus(s, u, x) ==
    LET a == s.una[u]
        held == [AddNsTimeout(s, a, "release", ReleaseDelay, x)
                    EXCEPT !.enf = @ \cup {s.alias[a].nick},
                           !.alias[a].st = (@ \ Temporary) \cup {"KILL_HELD"}]
    IN  IF a = NULL THEN s
        ELSE DelNsTimeout(IF Has(s, a, "GUESTED") THEN held ELSE s, a, "collide")

CancelUserClearsStatus(s, u, x) ==
    LET a == s.una[u]
        held == [AddNsTimeout(s, a, "release", ReleaseDelay, x)
                    EXCEPT !.enf = @ \cup {s.alias[a].nick},
                           !.alias[a].st = {"KILL_HELD"}]
    IN  IF a = NULL THEN s
        ELSE DelNsTimeout(IF Has(s, a, "GUESTED") THEN held ELSE SetStatus(s, a, {}),
                          a, "collide")

\* cancel_user(): the user of the nick is leaving it.
CancelUser(s, u, x) ==
    LET a == s.una[u]
        held == [AddNsTimeout(s, a, "release", ReleaseDelay, x)
                    EXCEPT !.enf = @ \cup {s.alias[a].nick},
                           !.alias[a].st = (@ \ Temporary) \cup {"KILL_HELD"}]
        left == SetStatus(s, a, s.alias[a].st \ Temporary)
    IN  IF a = NULL THEN s
        ELSE DelNsTimeout(IF Has(s, a, "GUESTED") THEN held ELSE left, a, "collide")

\* validate_user(): the user has taken the nick.
ValidateUser(s, u, v, x) ==
    LET a == s.una[u] IN
    CASE a = NULL -> s
      [] a # NULL /\ Has(s, a, "VERBOTEN") -> Collide(s, a, FALSE)
      [] OTHER ->
         CASE v = "recognized" -> SetStatus(s, a, s.alias[a].st \cup {"RECOGNIZED"})
           [] v = "immed" -> Collide(s, a, FALSE)
           [] v = "quick" -> AddNsTimeout(s, a, "collide", QuickDelay, x)
           [] v = "slow" -> AddNsTimeout(s, a, "collide", SlowDelay, x)
           [] OTHER -> s

(* Routines: the alias lists.                                              *)

\* Mutant of CleanNsTimeouts: the enforcer is not released.
CleanWithoutRelease(s, a) == Forget(s, {m \in s.my : m.na = a})

\* clean_ns_timeouts()
CleanNsTimeouts(s, a) ==
    LET mine == {m \in s.my : m.na = a}
        s1 == IF \E m \in mine : m.kind = "release" THEN Release(s, a, TRUE) ELSE s
    IN  Forget(s1, mine)

\* The user side of a link: User.na and the na->u of the alias.
Unlink(s, u) ==
    IF s.una[u] = NULL THEN s
    ELSE [s EXCEPT !.alias[s.una[u]].u = NULL, !.una[u] = NULL]

Link(s, u, a) ==
    IF a = NULL THEN s ELSE [s EXCEPT !.alias[a].u = u, !.una[u] = a]

\* makenick()/makealias(): in front of any alias with the same nick.
MakeAlias(s, b, n, c, st) ==
    [s EXCEPT !.alias[b] = [nick |-> n, nc |-> c, u |-> NULL, st |-> st,
                            next |-> s.nalists[n]],
              !.nalists[n] = b]

RemoveAlias(s, a) ==
    [s EXCEPT
        !.alias = [p \in Alias |->
            IF p = a \/ @[p] = NULL THEN IF p = a THEN NULL ELSE @[p]
            ELSE IF @[p].next = a THEN [@[p] EXCEPT !.next = s.alias[a].next]
            ELSE @[p]],
        !.nalists = [n \in Nick |-> IF @[n] = a THEN s.alias[a].next ELSE @[n]]]

\* Mutants of DelNick: the timeouts stay; the user keeps his pointer.
DelNickKeepsTimeouts(s, a) ==
    RemoveAlias(IF s.alias[a].u = NULL THEN s ELSE [s EXCEPT !.una[s.alias[a].u] = NULL], a)

DelNickKeepsUser(s, a) == RemoveAlias(CleanNsTimeouts(s, a), a)

\* delnick()
DelNick(s, a) ==
    LET s1 == CleanNsTimeouts(s, a)
        s2 == IF s1.alias[a].u = NULL THEN s1
              ELSE [s1 EXCEPT !.una[s1.alias[a].u] = NULL]
    IN  RemoveAlias(s2, a)

-----------------------------------------------------------------------------
(* Messages from the network about users.                                  *)

Event == now <= LastEvent

\* The network gives a nick to one client at a time.
NickFree(n) ==
    \/ n = NoNick
    \/ /\ \A w \in User : unick[w] # n
       /\ n \in enforcer => "crossing" \in Allowed

Found(s, n) == IF n \in Nick THEN s.nalists[n] ELSE NULL

\* do_nick() for a new user whose services stamp does not vouch for him.
Connect(u, n, v, x) ==
    /\ Event /\ unick[u] = NULL /\ NickFree(n)
    /\ unick' = [unick EXCEPT ![u] = n]
    /\ my_signon' = [my_signon EXCEPT ![u] = now]
    /\ Becomes(ValidateUser(Link(S, u, Found(S, n)), u, v, x))
    /\ UNCHANGED <<now, requests, auth>>

\* The same, with svid = ts: he was identified before a netsplit or a
\* restart of services.
ConnectIdentified(u, n) ==
    LET a == Found(S, n)
        s == Link(S, u, a)
    IN
    /\ Event /\ unick[u] = NULL /\ NickFree(n) /\ a # NULL
    /\ unick' = [unick EXCEPT ![u] = n]
    /\ my_signon' = [my_signon EXCEPT ![u] = now]
    /\ Becomes(SetStatus(s, a, s.alias[a].st \cup {"IDENTIFIED"}))
    /\ auth' = [auth EXCEPT ![u] = s.alias[a].nc]
    /\ UNCHANGED <<now, requests>>

\* do_nick() for a user who changes to a different nick.  A nick that matches
\* a Q-line ends the handler before the user is validated.
ChangeNick(u, n, qlined, v, x, y) ==
    LET old == una[u]
        new == Found(S, n)
        sameGroup == IF old = NULL \/ new = NULL THEN old = new
                     ELSE alias[old].nc = alias[new].nc
        s1 == CancelUser(S, u, x)
        s2 == Link(Unlink(s1, u), u, new)
        s3 == IF sameGroup /\ new # NULL
                THEN SetStatus(s2, new, s2.alias[new].st \cup (alias[old].st \cap TransGroup))
                ELSE s2
    IN
    /\ Event /\ unick[u] \notin {NULL, n} /\ NickFree(n)
    /\ unick' = [unick EXCEPT ![u] = n]
    /\ my_signon' = [my_signon EXCEPT ![u] = now]
    /\ Becomes(IF qlined \/ (sameGroup /\ Recognized(s3, new)) THEN s3
               ELSE ValidateUser(s3, u, v, y))
    /\ auth' = IF sameGroup /\ new # NULL THEN auth ELSE [auth EXCEPT ![u] = NULL]
    /\ UNCHANGED <<now, requests>>

\* do_nick() for a user who changes the case of his nick.
CaseChange(u, v, x) ==
    /\ "case_change" \in Allowed
    /\ Event /\ unick[u] # NULL
    /\ ~Recognized(S, una[u])
    /\ Becomes(ValidateUser(S, u, v, x))
    /\ UNCHANGED <<now, unick, my_signon, requests, auth>>

\* do_quit() and do_kill(), both ending in delete_user().
Leave(u, x) ==
    /\ Event /\ unick[u] # NULL
    /\ unick' = [unick EXCEPT ![u] = NULL]
    /\ my_signon' = [my_signon EXCEPT ![u] = 0]
    /\ Becomes(Unlink(CancelUser(S, u, x), u))
    /\ auth' = [auth EXCEPT ![u] = NULL]
    /\ UNCHANGED <<now, requests>>

-----------------------------------------------------------------------------
(* Commands to NickServ.                                                   *)

Usable(a) == a # NULL /\ ~Has(S, a, "VERBOTEN")

\* do_identify()
Identify(u) ==
    LET a == una[u] IN
    /\ Event /\ Usable(a) /\ ~Identified(S, a)
    /\ Becomes(SetStatus(S, a, alias[a].st \cup {"IDENTIFIED"}))
    /\ auth' = [auth EXCEPT ![u] = alias[a].nc]
    /\ UNCHANGED <<now, unick, my_signon, requests>>

\* do_logout(), of oneself or by a services admin.
Logout(u) ==
    LET a == una[u] IN
    /\ Event /\ Usable(a)
    /\ Becomes(SetStatus(S, a, alias[a].st \ TransGroup))
    /\ auth' = [auth EXCEPT ![u] = NULL]
    /\ UNCHANGED <<now, unick, my_signon, requests>>

\* do_logout() with REVALIDATE.
LogoutRevalidate(u, v, x, y) ==
    /\ Event /\ Usable(una[u])
    /\ Has(S, una[u], "GUESTED") => "revalidate_renaming" \in Allowed
    /\ Becomes(ValidateUser(CancelUser(S, u, x), u, v, y))
    /\ auth' = [auth EXCEPT ![u] = NULL]
    /\ UNCHANGED <<now, unick, my_signon, requests>>

\* do_recover(): throw the user off the nick.
Recover(u) ==
    /\ Event /\ Usable(una[u])
    /\ Becomes(Collide(S, una[u], FALSE))
    /\ UNCHANGED <<now, unick, my_signon, requests, auth>>

\* do_release(): make the enforcer leave.
ReleaseNick(n) ==
    LET a == nalists[n] IN
    /\ Event /\ Usable(a) /\ Has(S, a, "KILL_HELD")
    /\ Becomes(Release(S, a, FALSE))
    /\ UNCHANGED <<now, unick, my_signon, requests, auth>>

\* do_register(): note the request and mail the passcode.
Register(u) ==
    /\ Event /\ una[u] = NULL
    /\ unick[u] \in Nick \ requests
    /\ requests' = requests \cup {unick[u]}
    /\ UNCHANGED <<now, unick, my_signon, nalists, alias, una, timer, my_timeouts,
                   enforcer, auth>>

MayConfirm(n) == nalists[n] = NULL \/ "confirm_registered" \in Allowed

\* do_confirm() by (or on behalf of) the user of the nick.
Confirm(u, b, c) ==
    LET n == unick[u] IN
    /\ Event /\ n \in requests /\ MayConfirm(n)
    /\ b \in FreeAlias(S) /\ c \in UnusedCore(S)
    /\ requests' = requests \ {n}
    /\ Becomes(Link(MakeAlias(S, b, n, c, TransGroup), u, b))
    /\ auth' = [auth EXCEPT ![u] = c]
    /\ UNCHANGED <<now, unick, my_signon>>

\* do_confirm() by an admin for a nick that is not in use ("forced").
ConfirmOffline(n, b, c) ==
    /\ "confirm_offline" \in Allowed
    /\ Event /\ n \in requests /\ MayConfirm(n)
    /\ \A w \in User : unick[w] # n
    /\ b \in FreeAlias(S) /\ c \in UnusedCore(S)
    /\ requests' = requests \ {n}
    /\ Becomes(MakeAlias(S, b, n, c, TransGroup))
    /\ UNCHANGED <<now, unick, my_signon, auth>>

\* delnickrequest() by DROP or by expire_requests().
DropRequest(n) ==
    /\ Event /\ n \in requests
    /\ requests' = requests \ {n}
    /\ UNCHANGED <<now, unick, my_signon, nalists, alias, una, timer, my_timeouts,
                   enforcer, auth>>

\* do_group(): leave the group of the current nick for another.
Group(u, n, b) ==
    LET target == nalists[n]
        old == una[u]
        s1 == IF old = NULL THEN S ELSE DelNick(S, old)
    IN
    /\ Event /\ unick[u] \in Nick \ requests
    /\ old # NULL => Usable(old) /\ Identified(S, old)
    /\ Usable(target)
    /\ old # NULL => alias[target].nc # alias[old].nc
    /\ b \in FreeAlias(s1)
    /\ Becomes(Link(MakeAlias(s1, b, unick[u], alias[target].nc, TransGroup), u, b))
    /\ auth' = [auth EXCEPT ![u] = alias[target].nc]
    /\ UNCHANGED <<now, unick, my_signon, requests>>

\* do_drop() of any nick, by its owner or a services admin.
DropNick(n) ==
    /\ Event /\ nalists[n] # NULL
    /\ Becomes(DelNick(S, nalists[n]))
    /\ UNCHANGED <<now, unick, my_signon, requests, auth>>

\* expire_nicks(), for a nick nobody has used for NSExpire.
ExpireNick(a) ==
    /\ Event /\ alias[a] # NULL /\ Usable(a)
    /\ alias[a].u = NULL \/ ~Identified(S, a)
    /\ Becomes(DelNick(S, a))
    /\ UNCHANGED <<now, unick, my_signon, requests, auth>>

\* do_forbid()
Forbid(n, b, c) ==
    LET old == nalists[n]
        s1 == IF old = NULL THEN S ELSE DelNick(S, old)
        s2 == MakeAlias(s1, b, n, c, {"VERBOTEN"})
        users == {w \in User : unick[w] = n}
    IN
    /\ Event /\ b \in FreeAlias(s1) /\ c \in UnusedCore(s1)
    /\ IF users = {} THEN Becomes(s2)
       ELSE \E w \in users : Becomes(Collide(Link(s2, w, b), b, FALSE))
    /\ UNCHANGED <<now, unick, my_signon, requests, auth>>

-----------------------------------------------------------------------------
(* Timeouts.                                                               *)

\* Mutant of TimeoutCollide: spares a user who came when the timeout was set.
TimeoutCollideLate(s, t) ==
    LET s1 == RemNsTimeout(s, t.na, "collide")
        u == s.alias[t.na].u
    IN  IF Has(s, t.na, "IDENTIFIED") \/ u = NULL THEN s1
        ELSE IF my_signon[u] >= t.set THEN s1
        ELSE Collide(s1, t.na, TRUE)

TimeoutCollide(s, t) ==
    LET s1 == RemNsTimeout(s, t.na, "collide")
        u == s.alias[t.na].u
    IN  IF Has(s, t.na, "IDENTIFIED") \/ u = NULL THEN s1
        ELSE IF my_signon[u] > t.set THEN s1
        ELSE Collide(s1, t.na, TRUE)

\* Mutant of TimeoutRelease: the enforcer stays.
TimeoutReleaseNothing(s, t) == RemNsTimeout(s, t.na, "release")

TimeoutRelease(s, t) == Release(RemNsTimeout(s, t.na, "release"), t.na, TRUE)

\* check_timeouts() runs a due timeout and frees it.  One whose alias has been
\* freed reads freed memory; its effect on the database is to lose the
\* private entries made for that address.
RunTimeout(x) ==
    LET t == timer[x]
        s == IF alias[t.na] = NULL THEN RemNsTimeout(S, t.na, t.kind)
             ELSE IF t.kind = "collide" THEN TimeoutCollide(S, t)
             ELSE TimeoutRelease(S, t)
    IN
    /\ timer[x] # NULL
    /\ t.due <= now
    /\ Becomes([s EXCEPT !.timer[x] = NULL])
    /\ UNCHANGED <<now, unick, my_signon, requests, auth>>

Tick ==
    /\ now < MaxTime
    /\ now' = now + 1
    /\ UNCHANGED <<unick, my_signon, requests, nalists, alias, una, timer,
                   my_timeouts, enforcer, auth>>

Network ==
    \E u \in User, x \in FreeTimer :
        \/ Leave(u, x)
        \/ \E v \in Verdicts : CaseChange(u, v, x)
        \/ \E n \in Nick \cup {NoNick} :
              \/ ConnectIdentified(u, n)
              \/ \E v \in Verdicts : Connect(u, n, v, x)
              \/ \E v \in Verdicts, y \in FreeTimer \ {x}, qlined \in BOOLEAN :
                    ChangeNick(u, n, qlined, v, x, y)

Command ==
    \/ \E u \in User :
          \/ Identify(u) \/ Logout(u) \/ Recover(u) \/ Register(u)
          \/ \E v \in Verdicts, x \in FreeTimer : \E y \in FreeTimer \ {x} :
                LogoutRevalidate(u, v, x, y)
          \/ \E b \in Alias, c \in Core : Confirm(u, b, c)
          \/ \E n \in Nick, b \in Alias : Group(u, n, b)
    \/ \E n \in Nick :
          \/ ReleaseNick(n) \/ DropNick(n) \/ DropRequest(n)
          \/ \E b \in Alias, c \in Core : ConfirmOffline(n, b, c) \/ Forbid(n, b, c)
    \/ \E a \in Alias : ExpireNick(a)

Timeout == \E x \in Timer : RunTimeout(x)

Next == Network \/ Command \/ Timeout \/ Tick

Spec == Init /\ [][Next]_vars

\* check_timeouts() is called from the main loop for as long as the program
\* runs, and the clock advances.
FairSpec == Spec /\ WF_vars(Tick) /\ \A x \in Timer : WF_vars(RunTimeout(x))
-----------------------------------------------------------------------------
(* Safety.                                                                 *)

\* Every entry of my_timeouts stands for a pending timeout of that alias and
\* kind, and no timeout has two entries.  So del_timeout(t->to) never frees
\* the timeout of somebody else at a reused address, and a routine that has
\* removed its entries cannot delete the timeout it runs for: what module
\* Timeouts expects of the routines (nickserv.c:1684-1843).
PrivateListSound ==
    /\ \A m \in my_timeouts :
          /\ timer[m.to] # NULL
          /\ timer[m.to].na = m.na
          /\ timer[m.to].kind = m.kind
    /\ \A m, k \in my_timeouts : m.to = k.to => m = k

\* Conversely every pending timeout is on the private list, where cancel_user,
\* release and clean_ns_timeouts find it; and its alias exists.
NoOrphanTimeout ==
    \A x \in Timer :
        timer[x] # NULL =>
            /\ \E m \in my_timeouts : m.to = x
            /\ alias[timer[x].na] # NULL

\* An enforcer client is never left behind: as long as one is introduced, a
\* release timeout for an existing alias of that nick is on the private list
\* (cancel_user and release on one side, clean_ns_timeouts on the other).
EnforcerHasTimeout ==
    \A n \in enforcer :
        \E m \in my_timeouts :
            /\ m.kind = "release"
            /\ alias[m.na] # NULL
            /\ alias[m.na].nick = n

\* A nick that says it is held is held by an enforcer (do_release trusts it).
HeldFlagTrue ==
    \A a \in Alias :
        (alias[a] # NULL /\ Has(S, a, "KILL_HELD")) => alias[a].nick \in enforcer

\* User.na and NickAlias.u are each other's inverse, and every user of a
\* registered nick is linked to the alias findnick returns: na->u never
\* points to a User that is gone.
UsersLinked ==
    /\ \A u \in User : una[u] = Found(S, unick[u])
    /\ \A a \in Alias :
          alias[a] # NULL =>
            /\ \A u \in User : alias[a].u = u <=> una[u] = a

\* A nick is held by an enforcer when it says so, and users and nicks point to
\* each other: no pointer and no flag of an alias is left over.
LinksAgree == HeldFlagTrue /\ UsersLinked

\* A nick is identified only for a user who proved to belong to its group
\* since he came: by password, by registering or joining the group, or by
\* the services stamp.  The flag is never inherited by the next user.
IdentifiedIsEarned ==
    \A a \in Alias :
        (alias[a] # NULL /\ Has(S, a, "IDENTIFIED")) =>
            /\ alias[a].u # NULL
            /\ auth[alias[a].u] = alias[a].nc

Forbidden(n) == nalists[n] # NULL /\ Has(S, nalists[n], "VERBOTEN")

\* A forbidden nick stays forbidden until the forbidding record is dropped:
\* "Disallows a nickname from being registered or used by anyone.  May be
\* cancelled by dropping the nick" (help text of FORBID).
ForbiddenStays ==
    [][\A n \in Nick :
          (Forbidden(n) /\ ~Forbidden(n)') => alias'[nalists[n]] = NULL]_vars

-----------------------------------------------------------------------------
(* Liveness.                                                               *)

\* Every enforcer leaves the network again, whatever became of the nick.
EnforcerLeaves == \A n \in Nick : n \in enforcer ~> n \notin enforcer

\* A user warned to leave a protected nick does not keep it: he leaves, or
\* identifies, or is looked at again and recognized, or is sent an SVSNICK.
WarnedUserIsMoved ==
    \A u \in User, a \in Alias :
        (/\ una[u] = a
         /\ \E m \in my_timeouts : m.na = a /\ m.kind = "collide")
        ~> (\/ una[u] # a
            \/ alias[a] = NULL
            \/ alias[a].st \cap {"IDENTIFIED", "RECOGNIZED", "GUESTED"} # {})
===============================================================================
