--------------------------------- MODULE Staff ---------------------------------
(***************************************************************************)
(* Nick groups and the services staff (src/nickserv.c, src/operserv.c):    *)
(* which nicks share a core, which nick the core is displayed as, and the  *)
(* lists of services admins and services operators, whose entries are      *)
(* pointers to cores.  The core also has a flag for each role, and one for *)
(* services roots, who are named by nick in the configuration.             *)
(*                                                                         *)
(* Left out: passwords and identification (module NickServ), the skeleton  *)
(* mode, in which everybody is staff, notices.  A caller is a core one of  *)
(* whose nicks is in use by an identified user.                            *)
(***************************************************************************)
EXTENDS Naturals, Sequences, FiniteSets, SequencesExt, SList

CONSTANTS
    StNick, StCore,
    StRoots,        \* ServicesRoots of the configuration
    StRank,         \* [StNick -> Nat], the order of displays
    StLimit,        \* limit of the staff lists: 32767 in the code
    NSMaxAliases,   \* the setting, 0 is no limit
    NSSecureAdmins, \* the setting
    StNone

ASSUME StRankIsOrder == StRank \in [StNick -> Nat]
ASSUME StRootsAreNicks == StRoots \subseteq StNick
ASSUME StLimitAssumption == StLimit \in Nat

VARIABLES
    stCore,         \* the cores in memory: records, or StNone
    stAdmins,       \* servadmins
    stOpers         \* servopers

staffVars == <<stCore, stAdmins, stOpers>>

NickCore ==
    [aliases: Seq(StNick), display: StNick,
     flags: SUBSET {"ROOT", "ADMIN", "OPER"}, verboten: BOOLEAN]

ASSUME StNoneAssumption == StNone \notin NickCore

StaffTypeOK ==
    /\ stCore \in [StCore -> NickCore \cup {StNone}]
    /\ stAdmins \in Seq(StCore) /\ stOpers \in Seq(StCore)

StaffInit ==
    /\ stCore = [c \in StCore |-> StNone]
    /\ stAdmins = <<>> /\ stOpers = <<>>

G == [core |-> stCore, admins |-> stAdmins, opers |-> stOpers]
GBecomes(S) == stCore' = S.core /\ stAdmins' = S.admins /\ stOpers' = S.opers

Live(S) == {c \in StCore : S.core[c] # StNone}
HasNick(S, c, n) == S.core[c] # StNone /\ n \in ToSet(S.core[c].aliases)
StRegistered(S, n) == \E c \in StCore : HasNick(S, c, n)
CoreOf(S, n) == CHOOSE c \in StCore : HasNick(S, c, n)

-----------------------------------------------------------------------------
(* Privileges.                                                             *)

IsServicesRoot(c) == "ROOT" \in stCore[c].flags
IsServicesAdmin(c) == stCore[c].flags \cap {"ADMIN", "ROOT"} # {}
NickIsServicesAdmin(c) == stCore[c].flags \cap {"ADMIN", "ROOT"} # {}

-----------------------------------------------------------------------------
(* Groups.                                                                 *)

\* free_adminlist_entry() and free_operlist_entry(), for each of some entries.
Free(S, C, role) ==
    [S EXCEPT !.core = [c \in StCore |-> IF c \in C THEN [S.core[c] EXCEPT !.flags = @ \ {role}]
                                         ELSE S.core[c]]]
FreeAdmins(S, C) == Free(S, C, "ADMIN")
FreeOpers(S, C) == Free(S, C, "OPER")
FreeAdmin(S, c) == FreeAdmins(S, {c})
FreeOper(S, c) == FreeOpers(S, {c})

\* os_remove_nick().
OsRemoveNick(S, c) ==
    [FreeOper(FreeAdmin(S, c), c) EXCEPT !.admins = SlistRemove(@, c),
                                         !.opers = SlistRemove(@, c)]

Delcore(S, c) == [OsRemoveNick(S, c) EXCEPT !.core[c] = StNone]

\* change_core_display(): to a nick, or to the first of the group.  The staff
\* lists are not sorted again.
ChangeCoreDisplay(S, c, n) == [S EXCEPT !.core[c].display = n]

\* delnick() of a nick of the core c.
Delnick(S, c, n) ==
    LET left == SlistRemove(S.core[c].aliases, n)
        T == [S EXCEPT !.core[c].aliases = left]
    IN  IF left = <<>> THEN Delcore(T, c)
        ELSE IF S.core[c].display = n THEN ChangeCoreDisplay(T, c, left[1])
        ELSE T

DelnickIfAny(S, n) == IF StRegistered(S, n) THEN Delnick(S, CoreOf(S, n), n) ELSE S

RootFlag(n) == IF n \in StRoots THEN {"ROOT"} ELSE {}

\* makenick() and what do_confirm and do_forbid set.
Makenick(S, c, n, flags, verboten) ==
    [S EXCEPT !.core[c] = [aliases |-> <<n>>, display |-> n,
                           flags |-> flags, verboten |-> verboten]]

\* CONFIRM.  (Its own checks are in module NickRequests.)
StaffConfirm(c, n) ==
    /\ stCore[c] = StNone /\ ~StRegistered(G, n)
    /\ GBecomes(Makenick(G, c, n, RootFlag(n), FALSE))

\* makealias() and the rest of GROUP.
Makealias(S, c, n) ==
    [S EXCEPT !.core[c].aliases = Append(@, n), !.core[c].flags = @ \cup RootFlag(n)]

\* GROUP: the user of n joins the group of target.
StaffGroup(n, target) ==
    /\ StRegistered(G, target)
    /\ LET c == CoreOf(G, target) IN
       /\ ~stCore[c].verboten
       /\ StRegistered(G, n) => (CoreOf(G, n) # c /\ ~stCore[CoreOf(G, n)].verboten)
       /\ (NSMaxAliases # 0 /\ Len(stCore[c].aliases) >= NSMaxAliases) => NickIsServicesAdmin(c)
       /\ GBecomes(Makealias(DelnickIfAny(G, n), c, n))

\* DROP: of a nick of one's own group, or of any by a services admin.
StaffDrop(by, n) ==
    /\ by \in Live(G) /\ StRegistered(G, n)
    /\ LET c == CoreOf(G, n) IN
       /\ c = by \/ IsServicesAdmin(by)
       /\ (NSSecureAdmins /\ c # by /\ NickIsServicesAdmin(c)) => IsServicesRoot(by)
       /\ GBecomes(Delnick(G, c, n))

\* expirenicks(): a nick that has not been used for long enough.
StaffExpire(n) ==
    /\ StRegistered(G, n) /\ ~stCore[CoreOf(G, n)].verboten
    /\ GBecomes(Delnick(G, CoreOf(G, n), n))

\* FORBID, which the command table gives to services admins.
StaffForbid(by, n) ==
    /\ by \in Live(G) /\ IsServicesAdmin(by)
    /\ (NSSecureAdmins /\ StRegistered(G, n) /\ NickIsServicesAdmin(CoreOf(G, n)))
           => IsServicesRoot(by)
    /\ LET S == DelnickIfAny(G, n) IN
       \E c \in StCore : S.core[c] = StNone /\ GBecomes(Makenick(S, c, n, {}, TRUE))

\* SET DISPLAY: to a nick of the group.
SetDisplay(c, n) ==
    /\ HasNick(G, c, n) /\ ~stCore[c].verboten
    /\ GBecomes(ChangeCoreDisplay(G, c, n))

-----------------------------------------------------------------------------
(* Staff.                                                                  *)

\* compare_adminlist_entries(), compare_operlist_entries(): the entries that c
\* does not come behind.
DisplayUpTo(c, list) ==
    {i \in DOMAIN list : StRank[stCore[c].display] <= StRank[stCore[list[i]].display]}

AdminAdd(by, n) ==
    /\ by \in Live(G) /\ IsServicesRoot(by) /\ StRegistered(G, n)
    /\ LET c == CoreOf(G, n) IN
       /\ ~stCore[c].verboten
       /\ "ADMIN" \notin stCore[c].flags /\ c \notin ToSet(stAdmins)
       /\ ~SlistFull(stAdmins, StLimit)
       /\ GBecomes([G EXCEPT !.admins = SlistAddSorted(@, StLimit, c, DisplayUpTo(c, @)),
                             !.core[c].flags = @ \cup {"ADMIN"}])

OperAdd(by, n) ==
    /\ by \in Live(G) /\ IsServicesAdmin(by) /\ StRegistered(G, n)
    /\ LET c == CoreOf(G, n) IN
       /\ ~stCore[c].verboten
       /\ "OPER" \notin stCore[c].flags /\ c \notin ToSet(stOpers)
       /\ ~SlistFull(stOpers, StLimit)
       /\ GBecomes([G EXCEPT !.opers = SlistAddSorted(@, StLimit, c, DisplayUpTo(c, @)),
                             !.core[c].flags = @ \cup {"OPER"}])

\* DEL with numbers: the entries are freed, then the list is packed.
AdminDelRange(by, range) ==
    /\ by \in Live(G) /\ IsServicesRoot(by)
    /\ GBecomes([FreeAdmins(G, {stAdmins[i] : i \in SlistEnum(stAdmins, range)})
                     EXCEPT !.admins = SlistDeleteRange(@, range)])
OperDelRange(by, range) ==
    /\ by \in Live(G) /\ IsServicesAdmin(by)
    /\ GBecomes([FreeOpers(G, {stOpers[i] : i \in SlistEnum(stOpers, range)})
                     EXCEPT !.opers = SlistDeleteRange(@, range)])

\* DEL with a nick, which must be flagged and listed.
AdminDel(by, n) ==
    /\ by \in Live(G) /\ IsServicesRoot(by) /\ StRegistered(G, n)
    /\ LET c == CoreOf(G, n) IN
       /\ "ADMIN" \in stCore[c].flags /\ c \in ToSet(stAdmins)
       /\ GBecomes([FreeAdmin(G, c) EXCEPT !.admins = SlistRemove(@, c)])
OperDel(by, n) ==
    /\ by \in Live(G) /\ IsServicesAdmin(by) /\ StRegistered(G, n)
    /\ LET c == CoreOf(G, n) IN
       /\ "OPER" \in stCore[c].flags /\ c \in ToSet(stOpers)
       /\ GBecomes([FreeOper(G, c) EXCEPT !.opers = SlistRemove(@, c)])

\* CLEAR: slist_clear() frees every entry.
AdminClear(by) ==
    /\ by \in Live(G) /\ IsServicesRoot(by) /\ stAdmins # <<>>
    /\ GBecomes([FreeAdmins(G, ToSet(stAdmins)) EXCEPT !.admins = <<>>])
OperClear(by) ==
    /\ by \in Live(G) /\ IsServicesAdmin(by) /\ stOpers # <<>>
    /\ GBecomes([FreeOpers(G, ToSet(stOpers)) EXCEPT !.opers = <<>>])

\* STAFF shows the operators, the admins and the roots of the configuration.
StaffShown ==
    {<<"OPER", stOpers[i]>> : i \in SlistEnumAll(stOpers)} \cup
    {<<"ADMN", stAdmins[i]>> : i \in SlistEnumAll(stAdmins)} \cup
    {<<"ROOT", n>> : n \in StRoots}

\* save_ns_dbase() and load_ns_dbase(), at a restart: the flags of the cores
\* are in the file, the cores are added to the lists in the order of the hash
\* table, and roots are looked up again.
StaffRestart ==
    LET Roots(c) == UNION {RootFlag(n) : n \in ToSet(stCore[c].aliases)}
        loaded == [c \in StCore |-> IF stCore[c] = StNone THEN StNone
                      ELSE [stCore[c] EXCEPT !.flags = (@ \ {"ROOT"}) \cup Roots(c)]]
        Add(list, c) == SlistAddSorted(list, StLimit, c, DisplayUpTo(c, list))
        Listed(role) == FoldLeft(Add, <<>>, SetToSeq({c \in Live(G) : role \in stCore[c].flags}))
    IN  GBecomes([core |-> loaded, admins |-> Listed("ADMIN"), opers |-> Listed("OPER")])

StRanges == {<<<<1, 1>>>>, <<<<2, 3>>>>, <<<<1, 1>>, <<2, 2>>>>}

StaffNext ==
    \/ \E c \in StCore, n \in StNick : StaffConfirm(c, n) \/ SetDisplay(c, n)
    \/ \E n, target \in StNick : StaffGroup(n, target)
    \/ \E n \in StNick : StaffExpire(n)
    \/ \E by \in StCore :
          \/ \E n \in StNick : StaffDrop(by, n) \/ StaffForbid(by, n)
          \/ \E n \in StNick : AdminAdd(by, n) \/ OperAdd(by, n) \/ AdminDel(by, n) \/ OperDel(by, n)
          \/ \E r \in StRanges : AdminDelRange(by, r) \/ OperDelRange(by, r)
          \/ AdminClear(by) \/ OperClear(by)
    \/ StaffRestart

StaffSpec == StaffInit /\ [][StaffNext]_staffVars
-----------------------------------------------------------------------------
(* Safety.                                                                 *)

\* The staff lists and the flags of the cores agree: who has the flag is
\* listed once, and no list points to a core that was deleted, whether nicks
\* are dropped, regrouped, forbidden or expire (os_remove_nick is the only
\* thing between a deleted core and a dangling pointer in STAFF).
StaffListed ==
    /\ ToSet(stAdmins) = {c \in Live(G) : "ADMIN" \in stCore[c].flags}
    /\ ToSet(stOpers) = {c \in Live(G) : "OPER" \in stCore[c].flags}
    /\ Cardinality(ToSet(stAdmins)) = Len(stAdmins)
    /\ Cardinality(ToSet(stOpers)) = Len(stOpers)
    /\ \A c \in Live(G) : stCore[c].display \in ToSet(stCore[c].aliases)

\* A core is a services root's exactly when one of its nicks is named as one.
RootsByNick ==
    \A c \in Live(G) : ~stCore[c].verboten =>
        (("ROOT" \in stCore[c].flags) <=> (ToSet(stCore[c].aliases) \cap StRoots # {}))

Leaves(n) == \E c \in StCore : HasNick(G, c, n) /\
                 (stCore'[c] # StNone => n \notin ToSet(stCore'[c].aliases))

\* Whatever happens, only a root's nick leaving a group that goes on makes
\* roots of users who are none: the flag stays until services restart.
OnlyLeavingRootsStay ==
    [][RootsByNick => (RootsByNick' \/ \E n \in StRoots : Leaves(n))]_staffVars
================================================================================
