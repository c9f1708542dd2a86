------------------------------- MODULE ChanServ -------------------------------
(***************************************************************************)
(* The channel database of src/chanserv.c: the registered channels, their  *)
(* founder, successor and access list, against the nick groups of          *)
(* nickserv.c they refer to, the Channel records of channels.c they are    *)
(* linked with, the users who identified for them, and the databases they  *)
(* are saved in.                                                           *)
(*                                                                         *)
(* A group is known by its display, which is also what the files hold; a   *)
(* ChannelInfo lives at an address that may be handed out again.           *)
(* Ordinary commands need an access level, on a record that can be a       *)
(* shell: makechan() without a founder.                                    *)
(*                                                                         *)
(* Left out: SECURE and SECUREFOUNDER, passwords (a command that checks    *)
(* one is the successful call), levels (there is no command for them),     *)
(* texts, modes, bans and bots.                                            *)
(***************************************************************************)
EXTENDS Integers, FiniteSets

CONSTANTS
    User,           \* User records
    SuperAdmin,     \* those with isSuperAdmin
    Core,           \* nick groups, by their display
    Start,          \* groups registered before any channel
    Admin,          \* groups on the services admin list
    Channel,        \* names
    Id,             \* addresses of ChannelInfo records
    Level,          \* levels that ADDUSER and MODUSER are called with
    ChannelMax,     \* NickCore.channelmax (CSMaxReg), 0 for no limit
    AccessMax,      \* CSAccessMax
    CSExpire,
    NULL,
    MaxTime,        \* bound: the clock stops here
    MaxEvents,      \* bound on the number of commands and crashes
    Allowed         \* of the sequences in Sequences, those that may happen

(* Sequences of legal events after which some invariants of this module    *)
(* fail (README, findings).                                                *)
Sequences ==
    {"partial_save",        \* the nick database is written, the channel
                            \* database is not
     "denied_forbid",       \* FCHAN by an admin without the access it checks
     "suspend_shell",       \* SCHAN of a channel that is not registered
     "not_registered",      \* UNSCHAN, FOUNDER, ADDUSER, MODUSER, REMUSER of
                            \* a channel that is not registered, FOUNDER of
                            \* one without a founder
     "modify_absent"}       \* MODUSER of a group that is not on the list

ACCESS_FOUNDER == 10000
CA_ACCESS_CHANGE == 400
CA_ACT == 500
CA_SND == 500
CA_FOUNDER == 610
CA_SCHAN == 630
CA_UNSCHAN == 630
CA_FORBID == 800
CA_NOEXPIRE == 800

VARIABLES
    now,
    up,             \* services run; FALSE after a crash
    cores,          \* groups that exist
    count,          \* NickCore.channelcount
    account,        \* the group a user is identified to, or NULL
    ci,             \* the ChannelInfo of a name, or NULL
    clink,          \* Channel.ci: an address, or NULL
    record,         \* names that have a Channel record
    occupied,       \* names somebody is on
    identified,     \* User.founder_chans: the addresses on it
    disk,           \* the nick and the channel database as last written
    events          \* number of them so far (bounded)

vars == <<now, up, cores, count, account, ci, clink, record, occupied,
          identified, disk, events>>

Flag == {"VERBOTEN", "SUSPENDED", "NO_EXPIRE"}
Entry == Level \cup {0, 500}    \* 0: not on the list; REGISTER enters 500

ChannelInfo == [id: Id, founder: Core \cup {NULL}, successor: Core \cup {NULL},
                access: [Core -> Entry], junk: Nat, flags: SUBSET Flag,
                last_used: Nat, c: BOOLEAN]

ASSUME NullIsNothing == NULL \notin User \cup Core \cup Id \cup ChannelInfo \cup Nat
ASSUME NumbersAreNat == {ChannelMax, AccessMax, CSExpire, MaxTime, MaxEvents} \subseteq Nat
ASSUME StartAreCores == Start \subseteq Core
ASSUME LevelsAreInt == Level \subseteq Int \ {0}
ASSUME SetsAreFinite == IsFiniteSet(Channel) /\ IsFiniteSet(Core)
ASSUME AllowedSequences == Allowed \subseteq Sequences

TypeOK ==
    /\ now \in Nat /\ events \in Nat
    /\ up \in BOOLEAN
    /\ cores \subseteq Core
    /\ count \in [Core -> Int]
    /\ account \in [User -> Core \cup {NULL}]
    /\ ci \in [Channel -> ChannelInfo \cup {NULL}]
    /\ clink \in [Channel -> Id \cup {NULL}]
    /\ record \subseteq Channel
    /\ occupied \subseteq Channel
    /\ identified \in [User -> SUBSET Id]
    /\ disk \in [nick: [Core -> Int \cup {NULL}],
                 chan: [Channel -> ChannelInfo \cup {NULL}]]

Nothing == [n \in Core |-> 0]

(* Last use is 0 in a new record, so the clock starts where that is        *)
(* already long ago.                                                       *)
Init ==
    /\ now = CSExpire /\ events = 0
    /\ up = TRUE
    /\ cores = Start
    /\ count = Nothing
    /\ account = [u \in User |-> NULL]
    /\ ci = [x \in Channel |-> NULL]
    /\ clink = [x \in Channel |-> NULL]
    /\ record = {}
    /\ occupied = {}
    /\ identified = [u \in User |-> {}]
    /\ disk = [nick |-> [n \in Core |-> IF n \in Start THEN 0 ELSE NULL],
               chan |-> [x \in Channel |-> NULL]]

Event == up /\ events < MaxEvents /\ events' = events + 1

-----------------------------------------------------------------------------
(* Access.                                                                 *)

IsServicesAdmin(u) == account[u] \in Admin

\* is_founder()
IsFounder(u, r) ==
    \/ u \in SuperAdmin
    \/ account[u] # NULL /\ account[u] = r.founder
    \/ r.id \in identified[u]

\* get_access()
GetAccess(u, r) ==
    IF IsFounder(u, r) THEN ACCESS_FOUNDER
    ELSE IF account[u] = NULL THEN 0 ELSE r.access[account[u]]

\* check_access(), and what it writes.
CheckAccess(u, r, limit) == GetAccess(u, r) >= limit

Used(u, r) == IF GetAccess(u, r) > 0 THEN [r EXCEPT !.last_used = now] ELSE r

Is(r, flag) == flag \in r.flags

\* Entries of the access list in use.
InUse(r) == Cardinality({n \in Core : r.access[n] # 0}) + r.junk

-----------------------------------------------------------------------------
(* The database.                                                           *)

Founded(n, X) == {x \in X : ci[x] # NULL /\ ci[x].founder = n}

\* Mutants of DelChans: the Channel keeps its pointer; the founder's count
\* stays.
DelChansKeepsLink(X) ==
    /\ ci' = [x \in Channel |-> IF x \in X THEN NULL ELSE ci[x]]
    /\ clink' = clink
    /\ count' = [n \in Core |-> count[n] - Cardinality(Founded(n, X))]

DelChansKeepsCount(X) ==
    /\ ci' = [x \in Channel |-> IF x \in X THEN NULL ELSE ci[x]]
    /\ clink' = [x \in Channel |-> IF x \in X /\ ci[x] # NULL /\ ci[x].c THEN NULL ELSE clink[x]]
    /\ count' = count

\* delchan(), of every channel of X.
DelChans(X) ==
    /\ ci' = [x \in Channel |-> IF x \in X THEN NULL ELSE ci[x]]
    /\ clink' = [x \in Channel |-> IF x \in X /\ ci[x] # NULL /\ ci[x].c THEN NULL ELSE clink[x]]
    /\ count' = [n \in Core |-> count[n] - Cardinality(Founded(n, X))]

\* makechan(): everything else is zero.
Shell(id) ==
    [id |-> id, founder |-> NULL, successor |-> NULL, access |-> Nothing,
     junk |-> 0, flags |-> {}, last_used |-> 0, c |-> FALSE]

Addresses(X) == {ci[x].id : x \in {y \in X : ci[y] # NULL}}

Put(x, r) == ci' = [ci EXCEPT ![x] = r]

OnlyChannel == UNCHANGED <<now, up, cores, count, account, clink, record, occupied,
                           identified, disk>>

\* A NULL pointer is dereferenced.
Crash == up' = FALSE /\ UNCHANGED <<now, cores, count, account, ci, clink, record,
                                    occupied, identified, disk>>

-----------------------------------------------------------------------------
(* The rest of services: users, groups and Channel records.                *)

RegisterNick(n) ==
    /\ Event /\ n \notin cores
    /\ cores' = cores \cup {n}
    /\ count' = [count EXCEPT ![n] = 0]
    /\ UNCHANGED <<now, up, account, ci, clink, record, occupied, identified, disk>>

Login(u, n) ==
    /\ up /\ n \in cores /\ account[u] # n
    /\ account' = [account EXCEPT ![u] = n]
    /\ UNCHANGED <<now, up, events, cores, count, ci, clink, record, occupied, identified, disk>>

\* delete_user(), and somebody else comes.
Quit(u) ==
    /\ up /\ (account[u] # NULL \/ identified[u] # {})
    /\ account' = [account EXCEPT ![u] = NULL]
    /\ identified' = [identified EXCEPT ![u] = {}]
    /\ UNCHANGED <<now, up, cores, count, ci, clink, record, occupied, disk, events>>

\* chan_create() for the first user of a channel without a record.
Join(x) ==
    /\ up /\ x \notin occupied
    /\ occupied' = occupied \cup {x}
    /\ record' = record \cup {x}
    /\ IF x \in record \/ ci[x] = NULL THEN UNCHANGED <<ci, clink>>
       ELSE /\ Put(x, [ci[x] EXCEPT !.c = TRUE])
            /\ clink' = [clink EXCEPT ![x] = ci[x].id]
    /\ UNCHANGED <<now, up, cores, count, account, identified, disk, events>>

\* chan_deluser() of the last user: the record stays.
Part(x) ==
    /\ up /\ x \in occupied
    /\ occupied' = occupied \ {x}
    /\ UNCHANGED <<now, up, cores, count, account, ci, clink, record, identified,
                   disk, events>>

Successor(x, n) == ci[x] # NULL /\ ci[x].founder = n /\ ci[x].successor # NULL

Room(s) == IF ChannelMax > count[s] THEN ChannelMax - count[s] ELSE 0

\* The channels of n that go to s: as many as fit, in the order of the names.
Transferred(s, n, Kept) ==
    LET Mine == {x \in Channel : Successor(x, n) /\ ci[x].successor = s}
    IN  /\ s \in Admin \/ ChannelMax = 0 => Mine \subseteq Kept
        /\ s \notin Admin /\ ChannelMax > 0 =>
             Cardinality(Mine \cap Kept) =
                IF Cardinality(Mine) < Room(s) THEN Cardinality(Mine) ELSE Room(s)

\* What cs_remove_nick() leaves of a channel that is not deleted.
WithoutNick(r, n) ==
    [r EXCEPT !.founder = IF @ = n THEN r.successor ELSE @,
              !.successor = IF r.founder = n \/ @ = n THEN NULL ELSE @,
              !.access[n] = 0]

\* delcore() with cs_remove_nick(): of the channels of n those in Kept go to
\* their successor, the others are deleted.
RemoveNickKeeping(n, Kept) ==
    LET X == {x \in Channel : ci[x] # NULL /\ ci[x].founder = n} \ Kept IN
    /\ cores' = cores \ {n}
    /\ account' = [u \in User |-> IF account[u] = n THEN NULL ELSE account[u]]
    /\ ci' = [x \in Channel |->
                IF x \in X \/ ci[x] = NULL THEN NULL ELSE WithoutNick(ci[x], n)]
    /\ clink' = [x \in Channel |-> IF x \in X /\ ci[x].c THEN NULL ELSE clink[x]]
    /\ count' = [m \in Core |-> IF m = n THEN 0
                   ELSE count[m] + Cardinality({x \in Kept : ci[x].successor = m})]
    /\ UNCHANGED <<now, up, record, occupied, identified, disk>>

\* Mutant of RemoveNick: every successor accepts.
RemoveNickTransfersAll(n) ==
    /\ Event /\ n \in cores
    /\ RemoveNickKeeping(n, {x \in Channel : Successor(x, n)})

\* A successor accepts if he may have one more.
RemoveNick(n) ==
    /\ Event /\ n \in cores
    /\ \E Kept \in SUBSET {x \in Channel : Successor(x, n)} :
          /\ \A s \in Core : Transferred(s, n, Kept)
          /\ RemoveNickKeeping(n, Kept)

-----------------------------------------------------------------------------
(* Commands to ChanServ.                                                   *)

MayHaveMore(u, n) == IsServicesAdmin(u) \/ ChannelMax = 0 \/ count[n] < ChannelMax

\* do_register(), for oneself or for another group.
Register(u, x, n, id) ==
    /\ Event
    /\ account[u] # NULL /\ n \in cores
    /\ ci[x] = NULL /\ x \in record /\ id \notin Addresses(Channel)
    /\ MayHaveMore(u, n)
    /\ Put(x, [Shell(id) EXCEPT !.founder = n, !.access[n] = 500, !.last_used = now,
                                !.c = TRUE])
    /\ clink' = [clink EXCEPT ![x] = id]
    /\ count' = [count EXCEPT ![n] = @ + 1]
    /\ identified' = [identified EXCEPT ![u] = @ \cup {id}]
    /\ UNCHANGED <<now, up, cores, account, record, occupied, disk>>

\* do_identify() with the right password.
Identify(u, x) ==
    LET r == ci[x] IN
    /\ Event /\ r # NULL
    /\ account[u] # NULL /\ ~Is(r, "VERBOTEN") /\ ~IsFounder(u, r)
    /\ Put(x, Used(u, r))
    /\ identified' = IF CheckAccess(u, r, CA_SND)
                       THEN [identified EXCEPT ![u] = @ \cup {r.id}] ELSE identified
    /\ UNCHANGED <<now, up, cores, count, account, clink, record, occupied, disk>>

\* do_drop()
Drop(u, x) ==
    LET r == ci[x] IN
    /\ Event /\ r # NULL
    /\ IsServicesAdmin(u) \/ (r.flags \cap {"VERBOTEN", "SUSPENDED"} = {} /\ IsFounder(u, r))
    /\ DelChans({x})
    /\ UNCHANGED <<now, up, cores, account, record, occupied, identified, disk>>

\* do_info() of a channel without a founder.
Info(x) ==
    /\ Event /\ ci[x] # NULL
    /\ ~Is(ci[x], "VERBOTEN") /\ ci[x].founder = NULL
    /\ DelChans({x})
    /\ UNCHANGED <<now, up, cores, account, record, occupied, identified, disk>>

\* Any command that checks the access of the user (OP, KICK, TOPIC, ...).
UseAccess(u, x) ==
    /\ Event /\ ci[x] # NULL
    /\ ci[x] # Used(u, ci[x])
    /\ Put(x, Used(u, ci[x]))
    /\ OnlyChannel

\* do_set_founder()
SetFounder(u, x, n) ==
    LET r == ci[x] IN
    /\ Event /\ n \in cores
    /\ r # NULL /\ r.founder # NULL
    /\ CheckAccess(u, r, CA_FOUNDER) /\ MayHaveMore(u, n)
    /\ Put(x, [Used(u, r) EXCEPT !.founder = n,
                                 !.successor = IF @ = n THEN NULL ELSE @])
    /\ count' = [m \in Core |-> count[m] - (IF m = r.founder THEN 1 ELSE 0)
                                         + (IF m = n THEN 1 ELSE 0)]
    /\ UNCHANGED <<now, up, cores, account, clink, record, occupied, identified, disk>>

\* Without a record, or a founder and access to get that far, it crashes.
SetFounderCrashes(u, x) ==
    /\ "not_registered" \in Allowed /\ Event
    /\ \/ ci[x] = NULL
       \/ /\ ci[x] # NULL /\ ci[x].founder = NULL
          /\ CheckAccess(u, ci[x], CA_FOUNDER)
    /\ Crash

\* do_set_successor()
SetSuccessor(u, x, n) ==
    LET r == ci[x] IN
    /\ Event /\ r # NULL
    /\ CheckAccess(u, r, CA_ACT)
    /\ n = NULL \/ (n \in cores /\ n # r.founder)
    /\ Put(x, [Used(u, r) EXCEPT !.successor = n])
    /\ OnlyChannel

\* do_set_noexpire()
SetNoExpire(u, x, on) ==
    LET r == ci[x] IN
    /\ Event /\ r # NULL
    /\ CheckAccess(u, r, CA_NOEXPIRE) /\ IsServicesAdmin(u)
    /\ Put(x, [Used(u, r) EXCEPT
                 !.flags = IF on THEN @ \cup {"NO_EXPIRE"} ELSE @ \ {"NO_EXPIRE"}])
    /\ OnlyChannel

\* The three commands go on after they have denied access; check_access() has
\* not been called for a forbidden channel.
Checked(u, r) == IF Is(r, "VERBOTEN") THEN r ELSE Used(u, r)

Above(u, r, l) == IsServicesAdmin(u) \/ GetAccess(u, r) > l

\* do_adduser()
AddUser(u, x, n, l) ==
    LET r == ci[x] IN
    /\ Event /\ r # NULL /\ n \in cores
    /\ Put(x, IF Above(u, r, l) /\ r.access[n] = 0 /\ InUse(r) < AccessMax
                THEN [Checked(u, r) EXCEPT !.access[n] = l] ELSE Checked(u, r))
    /\ OnlyChannel

\* do_moduser() of a group on the list.
ModUser(u, x, n, l) ==
    LET r == ci[x] IN
    /\ Event /\ r # NULL /\ n \in cores /\ r.access[n] # 0
    /\ Put(x, IF Above(u, r, l) /\ Above(u, r, r.access[n])
                THEN [Checked(u, r) EXCEPT !.access[n] = l] ELSE Checked(u, r))
    /\ OnlyChannel

\* do_moduser() of any other makes the list longer by an entry it does not
\* initialize, which may say that it is in use.
ModUserAbsent(u, x, n, l) ==
    LET r == ci[x] IN
    /\ "modify_absent" \in Allowed
    /\ Event /\ r # NULL /\ n \in cores /\ r.access[n] = 0
    /\ Above(u, r, l) /\ InUse(r) < AccessMax
    /\ \E junk \in {0, 1} : Put(x, [Checked(u, r) EXCEPT !.junk = @ + junk])
    /\ OnlyChannel

\* do_remuser(), by group or by number.
RemUser(u, x, n) ==
    LET r == ci[x] IN
    /\ Event /\ r # NULL /\ n \in cores
    /\ Put(x, IF r.access[n] # 0 /\ Above(u, r, r.access[n])
                THEN [Checked(u, r) EXCEPT !.access[n] = 0] ELSE Checked(u, r))
    /\ OnlyChannel

\* The three of them, and UNSCHAN, for a channel that is not registered: all
\* say so (UNSCHAN does not come to it) and use the pointer.  With ADDUSER and
\* MODUSER only an admin gets that far.
NotRegistered(u, x) ==
    /\ "not_registered" \in Allowed
    /\ Event /\ ci[x] = NULL
    /\ Crash

-----------------------------------------------------------------------------
(* FCHAN, SCHAN and UNSCHAN.                                               *)

\* do_forbid(): the record is replaced before the access is checked, and the
\* access is that of the new record.
Forbid(u, x, id) ==
    LET r == Shell(id)
        able == CheckAccess(u, r, CA_FORBID)
    IN
    /\ Event /\ IsServicesAdmin(u) /\ id \notin Addresses(Channel \ {x})
    /\ able \/ "denied_forbid" \in Allowed
    /\ Put(x, IF able THEN [Used(u, r) EXCEPT !.flags = {"VERBOTEN"}] ELSE r)
    /\ clink' = IF ci[x] # NULL /\ ci[x].c THEN [clink EXCEPT ![x] = NULL] ELSE clink
    /\ count' = [n \in Core |-> count[n] - Cardinality(Founded(n, {x}))]
    /\ \/ UNCHANGED occupied              \* opers are not kicked
       \/ able /\ occupied' = occupied \ {x}
    /\ UNCHANGED <<now, up, cores, account, record, identified, disk>>

\* do_suspend()
Suspend(u, x, id) ==
    LET r == IF ci[x] = NULL THEN Shell(id) ELSE ci[x]
        able == CheckAccess(u, r, CA_SCHAN)
    IN
    /\ Event
    /\ ci[x] = NULL => "suspend_shell" \in Allowed /\ id \notin Addresses(Channel)
    /\ Put(x, IF able THEN [Used(u, r) EXCEPT !.flags = @ \cup {"SUSPENDED"}]
              ELSE Used(u, r))
    /\ \/ UNCHANGED occupied
       \/ able /\ occupied' = occupied \ {x}
    /\ UNCHANGED <<now, up, cores, count, account, clink, record, identified, disk>>

\* Mutant of Unsuspend: all flags are cleared.
UnsuspendClearsFlags(u, x) ==
    LET r == ci[x] IN
    /\ Event /\ r # NULL
    /\ Put(x, IF CheckAccess(u, r, CA_UNSCHAN)
                THEN [Used(u, r) EXCEPT !.flags = {}] ELSE Used(u, r))
    /\ OnlyChannel

\* do_unsuspend()
Unsuspend(u, x) ==
    LET r == ci[x] IN
    /\ Event /\ r # NULL
    /\ Put(x, IF CheckAccess(u, r, CA_UNSCHAN)
                THEN [Used(u, r) EXCEPT !.flags = @ \ {"SUSPENDED"}] ELSE Used(u, r))
    /\ OnlyChannel

-----------------------------------------------------------------------------
(* Expiry, the database files, crashes.                                    *)

Expirable(r) ==
    now - r.last_used >= CSExpire /\ r.flags \cap {"VERBOTEN", "NO_EXPIRE"} = {}

\* Mutant of ExpireChans: the link is not looked at.
ExpireChansInUse ==
    /\ up /\ CSExpire > 0
    /\ DelChans({x \in Channel : ci[x] # NULL /\ Expirable(ci[x])})
    /\ UNCHANGED <<now, up, cores, account, record, occupied, identified, disk, events>>

\* expire_chans()
ExpireChans ==
    /\ up /\ CSExpire > 0
    /\ DelChans({x \in Channel : ci[x] # NULL /\ ~ci[x].c /\ Expirable(ci[x])})
    /\ UNCHANGED <<now, up, cores, account, record, occupied, identified, disk, events>>

\* save_ns_dbase() and then save_cs_dbase(), which may fail to write or not
\* be reached.
Save(chans) ==
    /\ up
    /\ chans \/ "partial_save" \in Allowed
    /\ disk' = [nick |-> [n \in Core |-> IF n \in cores THEN count[n] ELSE NULL],
                chan |-> IF chans THEN ci ELSE disk.chan]
    /\ UNCHANGED <<now, up, cores, count, account, ci, clink, record, occupied,
                   identified, events>>

\* save_cs_dbase() writes the display of an entry that nobody initialized.
SaveCrashes ==
    /\ up
    /\ \E x \in Channel : ci[x] # NULL /\ ci[x].junk > 0
    /\ Crash
    /\ UNCHANGED events

\* Services stop, for whatever reason.
Stop ==
    /\ Event
    /\ up' = FALSE
    /\ UNCHANGED <<now, cores, count, account, ci, clink, record, occupied,
                   identified, disk>>

\* load_cs_dbase(), and chan_create() if somebody is on the channel.
Loaded(r, known, onNet) ==
    IF r = NULL \/ (r.founder \notin known /\ ~Is(r, "VERBOTEN")) THEN NULL
    ELSE [r EXCEPT
            !.founder = IF @ \in known THEN @ ELSE NULL,
            !.successor = IF @ \in known THEN @ ELSE NULL,
            !.access = [n \in Core |-> IF n \in known THEN @[n] ELSE 0],
            !.junk = 0,
            !.c = onNet]

\* Services start and the network is introduced to them.
Restart ==
    LET known == {n \in Core : disk.nick[n] # NULL}
        loaded == [x \in Channel |-> Loaded(disk.chan[x], known, x \in occupied)]
    IN
    /\ ~up
    /\ up' = TRUE
    /\ cores' = known
    /\ count' = [n \in Core |-> IF n \in known THEN disk.nick[n] ELSE 0]
    /\ account' = [u \in User |-> NULL]
    /\ identified' = [u \in User |-> {}]
    /\ record' = occupied
    /\ ci' = loaded
    /\ clink' = [x \in Channel |->
                   IF loaded[x] # NULL /\ x \in occupied THEN loaded[x].id ELSE NULL]
    /\ UNCHANGED <<now, occupied, disk, events>>

Tick ==
    /\ now < MaxTime
    /\ now' = now + 1
    /\ UNCHANGED <<up, cores, count, account, ci, clink, record, occupied,
                   identified, disk, events>>

World ==
    \/ \E n \in Core : RegisterNick(n) \/ RemoveNick(n)
    \/ \E u \in User : Quit(u) \/ \E n \in Core : Login(u, n)
    \/ \E x \in Channel : Join(x) \/ Part(x)

Command ==
    \E u \in User, x \in Channel :
        \/ \E n \in Core, id \in Id : Register(u, x, n, id)
        \/ \E id \in Id : Forbid(u, x, id) \/ Suspend(u, x, id)
        \/ Identify(u, x) \/ Drop(u, x) \/ Info(x) \/ UseAccess(u, x)
        \/ Unsuspend(u, x) \/ NotRegistered(u, x) \/ SetFounderCrashes(u, x)
        \/ \E n \in Core : SetFounder(u, x, n) \/ RemUser(u, x, n)
        \/ \E n \in Core \cup {NULL} : SetSuccessor(u, x, n)
        \/ \E on \in BOOLEAN : SetNoExpire(u, x, on)
        \/ \E n \in Core, l \in Level :
              AddUser(u, x, n, l) \/ ModUser(u, x, n, l) \/ ModUserAbsent(u, x, n, l)

Program ==
    ExpireChans \/ SaveCrashes \/ Stop \/ Restart \/ \E chans \in BOOLEAN : Save(chans)

Next == World \/ Command \/ Program \/ Tick

Spec == Init /\ [][Next]_vars

\* The main loop calls expire_all() every ExpireTimeout, and the clock advances.
FairSpec == Spec /\ WF_vars(ExpireChans) /\ WF_vars(Tick)
-----------------------------------------------------------------------------
(* Safety.                                                                 *)

\* Every group a channel refers to as founder, successor or on its access
\* list exists: cs_remove_nick() and load_cs_dbase() leave no pointer to a
\* NickCore that was freed or is not there.
RefsAlive ==
    \A x \in Channel : ci[x] # NULL =>
        /\ {ci[x].founder, ci[x].successor} \subseteq cores \cup {NULL}
        /\ \A n \in Core \ cores : ci[x].access[n] = 0

\* "Founder and successor must not be the same group" (chanserv.c:3752): or
\* cs_remove_nick() would make the group that it deletes the new founder.
SuccessorIsNotFounder ==
    \A x \in Channel :
        (ci[x] # NULL /\ ci[x].founder # NULL) => ci[x].successor # ci[x].founder

\* A Channel that points to a ChannelInfo points to that of its own name,
\* which points back; and a channel with a founder is linked whenever there
\* is a Channel record for it.
LinksSound ==
    \A x \in Channel :
        /\ clink[x] # NULL => /\ ci[x] # NULL /\ ci[x].id = clink[x]
                              /\ ci[x].c /\ x \in record
        /\ (ci[x] # NULL /\ ci[x].founder # NULL) =>
              (ci[x].c <=> x \in record) /\ (ci[x].c <=> clink[x] # NULL)

\* Whatever is deleted, inherited or loaded: no pointer between groups,
\* channels and Channel records is left over, and a founder is not his own
\* successor.
RecordsSound == RefsAlive /\ SuccessorIsNotFounder /\ LinksSound

\* NickCore.channelcount is the "Number of channels currently registered"
\* (services.h:273), through transfers, drops, expiry and restarts.
CountsRight ==
    up => \A n \in cores : count[n] = Cardinality(Founded(n, Channel))

\* Where there is no services admin nobody comes to own more channels than he
\* may have, by registering, being made founder, inheriting or a restart.
LimitKept ==
    (ChannelMax > 0 /\ Admin = {}) =>
        \A n \in cores : Cardinality(Founded(n, Channel)) <= ChannelMax

\* The channels a user "has identified for" (services.h:717) are registered
\* ones.
NoDanglingIdentify == \A u \in User : identified[u] \subseteq Addresses(Channel)

\* No command and no save ends the program.
NeverCrashes == [][up' = FALSE => Stop]_vars

-----------------------------------------------------------------------------
(* Actions.                                                                *)

\* A registered channel has a founder unless it is forbidden: without one,
\* do_info() says, "this shouldn't be able to happen" (chanserv.c:5688).  What
\* makes such a channel is FCHAN by an admin who is then denied it, SCHAN of a
\* channel that is not registered, and nothing else.
Founderless(x) == ci[x] # NULL /\ ci[x].founder = NULL /\ ~Is(ci[x], "VERBOTEN")
FounderStays ==
    [][\A x \in Channel :
          (up /\ up' /\ ~Founderless(x) /\ Founderless(x)') =>
              \E u \in User, id \in Id :
                  \/ Forbid(u, x, id) /\ ~CheckAccess(u, Shell(id), CA_FORBID)
                  \/ Suspend(u, x, id) /\ ci[x] = NULL]_vars

\* A channel with a founder and somebody on it never expires, however long
\* nobody with access has been there.
InUseNeverExpires ==
    [][ExpireChans => \A x \in occupied : (ci[x] # NULL /\ ci[x].founder # NULL) => ci'[x] # NULL]_vars

\* "Minimum Access: 400" (help text of ADDUSER): for those with less, except
\* services admins, ADDUSER leaves the access list alone.
DeniedChangesNothing ==
    [][\A u \in User, x \in Channel, n \in Core, l \in Level :
          (/\ AddUser(u, x, n, l)
           /\ ~IsServicesAdmin(u)
           /\ ~CheckAccess(u, ci[x], CA_ACCESS_CHANGE))
          => ci'[x].access = ci[x].access]_vars

-----------------------------------------------------------------------------
(* Liveness.                                                               *)

Unused(x) == up /\ ci[x] # NULL /\ x \notin occupied /\ Expirable(ci[x])

\* expire_chans() is to "Remove all channels which have expired"
\* (chanserv.c:2187): one nobody is on and nobody has used for CSExpire goes,
\* unless somebody comes or uses it after all.
ExpiresUnused == \A x \in Channel : Unused(x) ~> ~Unused(x)
===============================================================================
