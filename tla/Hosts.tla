---------------------------------- MODULE Hosts ----------------------------------
(***************************************************************************)
(* The virtual hosts of HostServ (src/hostserv.c): a linked list sorted by *)
(* nick, with at most one entry for a nick.  A nick of NickServ is needed  *)
(* to get an entry, and its entry goes with it (src/nickserv.c), but the   *)
(* two are saved in databases of their own.                                *)
(*                                                                         *)
(* This is HostServ as a build with HAS_VHOST has it.  A Bahamut build has *)
(* not (src/services.h 146-148): there hostserv() answers each command     *)
(* with SERVICE_OFFLINE, so that HsBySetter, HsGroupVhost and HsOn never   *)
(* happen, while nicks come and go and the databases are read and written. *)
(* Its behaviours are among those of this module.                          *)
(*                                                                         *)
(* Nicks are numbers, in the order stricmp() gives them.  Left out: the    *)
(* vident, which is carried along with the vhost and which a Bahamut build *)
(* cannot set; who set an entry and when.                                  *)
(***************************************************************************)
EXTENDS Naturals, Sequences, FiniteSets, SequencesExt

CONSTANTS
    HsNick,         \* nicks: numbers
    HsCore,         \* groups
    HsVhost,        \* hosts that pass isValidHost()
    HsSetters,      \* HostSetters of the configuration: nicks
    HsOper,         \* a services oper is there
    HsNone          \* no group, no vhost

ASSUME HsNickAssumption == HsNick \subseteq Nat

VARIABLES
    hsHead,         \* the list: records of nick and vHost
    hsCoreOf,       \* the group of each registered nick, or HsNone
    hsFiles,        \* the two databases: the list, and the groups
    hsWants,        \* abstract: the vhost each nick has been given, or HsNone
    hsParted        \* services started from databases of different times

hsVars == <<hsHead, hsCoreOf, hsFiles, hsWants, hsParted>>

HostCores == [nick: HsNick, vHost: HsVhost]
HsVhostOrNone == HsVhost \cup {HsNone}

HostsTypeOK ==
    /\ hsHead \in Seq(HostCores)
    /\ hsCoreOf \in [HsNick -> HsCore \cup {HsNone}]
    /\ hsFiles.hosts \in Seq(HostCores) /\ hsFiles.torn \in BOOLEAN
    /\ hsFiles.nicks \in [HsNick -> HsCore \cup {HsNone}]
    /\ hsFiles.wants \in [HsNick -> HsVhostOrNone]
    /\ hsWants \in [HsNick -> HsVhostOrNone]
    /\ hsParted \in BOOLEAN

HsNobody == [n \in HsNick |-> HsNone]

HostsInit ==
    /\ hsHead = <<>> /\ hsCoreOf = HsNobody /\ hsWants = HsNobody
    /\ hsFiles = [hosts |-> <<>>, wants |-> HsNobody, nicks |-> HsNobody, torn |-> FALSE]
    /\ hsParted = FALSE

-----------------------------------------------------------------------------
(* The list.                                                               *)

\* findHostCore(): the walk stops at the nick or at the first one after it;
\* the entry before that place is what it returns, 0 for the head.
FindHostCore(head, nick) ==
    LET stop == {i \in DOMAIN head : nick <= head[i].nick}
        at == IF stop = {} THEN Len(head) + 1 ELSE CHOOSE i \in stop : \A j \in stop : i <= j
    IN  [previous |-> at - 1, found |-> at <= Len(head) /\ head[at].nick = nick]

\* Mutant of InsertHostCore: in front of the entry that was returned.
InsertHostCoreBefore(head, prev, core) ==
    InsertAt(head, IF prev = 0 THEN 1 ELSE prev, core)

InsertHostCore(head, prev, core) == InsertAt(head, prev + 1, core)

DeleteHostCore(head, prev) == RemoveAt(head, prev + 1)

\* createHostCorelist().
CreateHostCorelist(core) == <<core>>

\* addHostCore() deletes the entry there is and starts again.
AddHostCore(head, nick, vHost) ==
    LET core == [nick |-> nick, vHost |-> vHost]
        Add(h) == IF h = <<>> THEN CreateHostCorelist(core)
                  ELSE InsertHostCore(h, FindHostCore(h, nick).previous, core)
        f == FindHostCore(head, nick)
    IN  IF head # <<>> /\ f.found THEN Add(DeleteHostCore(head, f.previous)) ELSE Add(head)

\* delHostCore().
DelHostCore(head, nick) ==
    LET f == FindHostCore(head, nick)
    IN  IF f.found THEN DeleteHostCore(head, f.previous) ELSE head

\* getvHost().
GetvHost(head, nick) ==
    LET f == FindHostCore(head, nick)
    IN  IF f.found THEN head[f.previous + 1].vHost ELSE HsNone

HsGroup(n) == IF hsCoreOf[n] = HsNone THEN {} ELSE {a \in HsNick : hsCoreOf[a] = hsCoreOf[n]}

\* do_hs_sync(): the vhost for every nick of a group.
DoHsSync(head, group, vHost) ==
    FoldLeft(LAMBDA h, n : AddHostCore(h, n, vHost), head, SetToSeq(group))

-----------------------------------------------------------------------------
(* Commands.                                                               *)

\* is_host_setter() of the owner of a nick who is not a services oper.
IsHostSetter(n) == HsGroup(n) \cap HsSetters # {}

HsSame == UNCHANGED <<hsCoreOf, hsFiles, hsParted>>

\* SET.
HsSet(nick, vHost) ==
    /\ hsCoreOf[nick] # HsNone
    /\ hsHead' = AddHostCore(hsHead, nick, vHost)
    /\ hsWants' = [hsWants EXCEPT ![nick] = vHost]
    /\ HsSame

\* SETALL.
HsSetall(nick, vHost) ==
    /\ hsCoreOf[nick] # HsNone
    /\ hsHead' = DoHsSync(hsHead, HsGroup(nick), vHost)
    /\ hsWants' = [n \in HsNick |-> IF n \in HsGroup(nick) THEN vHost ELSE hsWants[n]]
    /\ HsSame

\* DEL.
HsDel(nick) ==
    /\ hsCoreOf[nick] # HsNone
    /\ hsHead' = DelHostCore(hsHead, nick)
    /\ hsWants' = [hsWants EXCEPT ![nick] = HsNone]
    /\ HsSame

\* DELALL.
HsDelall(nick) ==
    /\ hsCoreOf[nick] # HsNone
    /\ hsHead' = FoldLeft(DelHostCore, hsHead, SetToSeq(HsGroup(nick)))
    /\ hsWants' = [n \in HsNick |-> IF n \in HsGroup(nick) THEN HsNone ELSE hsWants[n]]
    /\ HsSame

\* SET, SETALL, DEL and DELALL of a services oper or a host setter.
HsBySetter ==
    /\ HsOper \/ \E s \in HsNick : IsHostSetter(s)
    /\ \E n \in HsNick : HsDel(n) \/ HsDelall(n)
                         \/ \E v \in HsVhost : HsSet(n, v) \/ HsSetall(n, v)

\* GROUP of a user who has identified for the nick: its vhost for the group.
HsGroupVhost(nick) ==
    LET v == GetvHost(hsHead, nick) IN
    /\ hsCoreOf[nick] # HsNone /\ v # HsNone
    /\ hsHead' = DoHsSync(hsHead, HsGroup(nick), v)
    /\ hsWants' = [n \in HsNick |-> IF n \in HsGroup(nick) THEN hsWants[nick] ELSE hsWants[n]]
    /\ HsSame

\* ON, and do_on_id() when the user of the nick identifies: the vhost that is
\* activated.
HsOn(nick) == GetvHost(hsHead, nick)
DoOnId(nick) == GetvHost(hsHead, nick)

\* LIST: the entries from one number to another, or all of them.
HsListed(from, to) == {i \in DOMAIN hsHead : (from = 0 /\ to = 0) \/ (from <= i /\ i <= to)}

-----------------------------------------------------------------------------
(* NickServ, and the files.                                                *)

\* REGISTER and GROUP of NickServ.
HsRegister(nick, c) ==
    /\ hsCoreOf[nick] = HsNone
    /\ hsCoreOf' = [hsCoreOf EXCEPT ![nick] = c]
    /\ UNCHANGED <<hsHead, hsFiles, hsWants, hsParted>>

\* delnick(), for DROP, FORBID and expiry.
HsDelnick(nick) ==
    /\ hsCoreOf[nick] # HsNone
    /\ hsCoreOf' = [hsCoreOf EXCEPT ![nick] = HsNone]
    /\ hsHead' = DelHostCore(hsHead, nick)
    /\ hsWants' = [hsWants EXCEPT ![nick] = HsNone]
    /\ UNCHANGED <<hsFiles, hsParted>>

\* save_hs_dbase(): the entries in the order of the list.
SaveHsDbase == hsHead

\* save_databases() writes the nicks first, then the vhosts.
HsSaveNicks ==
    /\ ~hsFiles.torn
    /\ hsFiles' = [hsFiles EXCEPT !.nicks = hsCoreOf, !.torn = TRUE]
    /\ UNCHANGED <<hsHead, hsCoreOf, hsWants, hsParted>>

HsSaveHosts ==
    /\ hsFiles.torn
    /\ hsFiles' = [hsFiles EXCEPT !.hosts = SaveHsDbase, !.wants = hsWants, !.torn = FALSE]
    /\ UNCHANGED <<hsHead, hsCoreOf, hsWants, hsParted>>

\* load_hs_dbase(): one entry after the other.
LoadHsDbase(file) == FoldLeft(LAMBDA h, e : AddHostCore(h, e.nick, e.vHost), <<>>, file)

\* Services stop without saving, or in the middle of it, and start again.
HsRestart ==
    /\ hsHead' = LoadHsDbase(hsFiles.hosts)
    /\ hsCoreOf' = hsFiles.nicks /\ hsWants' = hsFiles.wants
    /\ hsParted' = (hsParted \/ hsFiles.torn)
    /\ hsFiles' = [hsFiles EXCEPT !.torn = FALSE]

\* Nothing happens while services save, but they may stop.
HsCommand ==
    \/ HsBySetter
    \/ \E n \in HsNick : HsGroupVhost(n) \/ HsDelnick(n)
    \/ \E n \in HsNick, c \in HsCore : HsRegister(n, c)

HostsNext == (~hsFiles.torn /\ HsCommand) \/ HsSaveNicks \/ HsSaveHosts \/ HsRestart

HostsSpec == HostsInit /\ [][HostsNext]_hsVars
-----------------------------------------------------------------------------
(* Safety.                                                                 *)

\* Looking a nick up in the list finds what it was last given, by SET, for
\* the group or from another nick of it: the list is sorted and has one entry
\* for a nick.  And nothing is left for whoever registers a dropped nick, if
\* services never stopped between writing the nicks and the vhosts.
VhostsAsGiven ==
    /\ \A n \in HsNick : HsOn(n) = hsWants[n] /\ DoOnId(n) = hsWants[n]
    /\ \A i, j \in HsListed(0, 0) : i < j => hsHead[i].nick < hsHead[j].nick
    /\ ~hsParted => \A i \in DOMAIN hsHead : hsCoreOf[hsHead[i].nick] # HsNone
================================================================================
