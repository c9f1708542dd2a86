-------------------------------- MODULE ChanBans --------------------------------
(***************************************************************************)
(* The bans of one registered channel (src/channels.c) and its list of     *)
(* autokicks (src/chanserv.c), which BAN, UNBAN and BANLIST manage; the    *)
(* AKICK command is not in the command table.  Autokicks are kept in slots *)
(* with stable numbers.  A stuck one, which only an old database can       *)
(* bring, is a ban that services put back.                                 *)
(*                                                                         *)
(* A mask is an element of CbMask; an autokick names a mask or a nick      *)
(* group.  Left out: reasons, dates, levels (module ChanServ), and the     *)
(* modes that come with a ban (module ModeLock).                           *)
(*                                                                         *)
(* Services make their record of the channel when its name is first used   *)
(* and keep it with its bans, while the network's channel and its bans end *)
(* when neither a user nor ChanServ is on it.                              *)
(***************************************************************************)
EXTENDS Naturals, Sequences, FiniteSets, SequencesExt

CONSTANTS
    CbMask, CbUser,
    CbHits,         \* [CbMask -> SUBSET CbUser]
    CbIdeal,        \* [CbUser -> CbMask]: get_idealban() of the user
    CbGroup,        \* the users that have a nick group, named like them
    CbStuckMasks,   \* the masks that can be stuck
    CbBotMasks,     \* the masks that match the bot of the channel
    CbMinUsers,     \* BSMinUsers: the users a bot comes for
    CbExempt,       \* users that are opers
    CSAutokickMax,  \* the setting
    CbMaxBans       \* bound on the bans services record

ASSUME CbMaskAssumption ==
    /\ CbHits \in [CbMask -> SUBSET CbUser] /\ CbIdeal \in [CbUser -> CbMask]
    /\ CbStuckMasks \cup CbBotMasks \subseteq CbMask
    /\ CbGroup \cup CbExempt \subseteq CbUser /\ CbMask \cap CbUser = {}
ASSUME CbMinUsersIsPositive == CbMinUsers \in Nat \ {0}

VARIABLES
    cbAkick,        \* the slots: records, used or not
    cbUsers,        \* who is on the channel
    cbExists,       \* services have a Channel for it
    cbHere,         \* ChanServ is on it
    cbBans,         \* chan->bans
    cbNet,          \* the bans the network has
    cbInhabit,      \* CI_INHABIT: ChanServ opened the empty channel
    cbBot           \* a bot is assigned, and BSSmartJoin is set

cbVars == <<cbAkick, cbUsers, cbExists, cbHere, cbBans, cbNet, cbInhabit, cbBot>>

AkickSlots == [used: BOOLEAN, who: CbMask \cup CbGroup, stuck: BOOLEAN]

ChanBansTypeOK ==
    /\ cbAkick \in Seq(AkickSlots) /\ Len(cbAkick) <= CSAutokickMax
    /\ cbUsers \subseteq CbUser
    /\ cbBans \in Seq(CbMask) /\ cbNet \subseteq CbMask
    /\ cbInhabit \in BOOLEAN /\ cbBot \in BOOLEAN
    /\ cbExists \in BOOLEAN /\ cbHere \in BOOLEAN

StuckAkick(m) == [used |-> TRUE, who |-> m, stuck |-> TRUE]

\* load_cs_dbase(): the slots keep their numbers, and some may be stuck.
ChanBansInit ==
    /\ cbAkick \in {<<>>} \cup {<<StuckAkick(m)>> : m \in CbStuckMasks}
                   \cup {<<StuckAkick(m), StuckAkick(n)>> : m, n \in CbStuckMasks}
    /\ \A i, j \in DOMAIN cbAkick : cbAkick[i].who = cbAkick[j].who => i = j
    /\ cbUsers = {} /\ cbBans = <<>> /\ cbNet = {}
    /\ cbInhabit = FALSE /\ cbBot \in BOOLEAN
    /\ cbExists = FALSE /\ cbHere = FALSE

-----------------------------------------------------------------------------
(* Bans.                                                                   *)

CbCovers(wide, narrow) == CbHits[narrow] \subseteq CbHits[wide]
B == [bans |-> cbBans, net |-> cbNet]

\* add_ban(): a ban on the bot, if it is there, is taken off again.
BotThere == cbBot /\ Cardinality(cbUsers) >= CbMinUsers
AddBan(S, m) ==
    IF BotThere /\ m \in CbBotMasks THEN [S EXCEPT !.net = @ \ {m}]
    ELSE [S EXCEPT !.bans = Append(@, m)]

\* A ban that services set themselves.
SetBan(S, m) == AddBan([S EXCEPT !.net = @ \cup {m}], m)

StuckSlots == {i \in DOMAIN cbAkick : cbAkick[i].used /\ cbAkick[i].stuck}

\* is_stuck(): the first stuck entry that the mask covers.
IsStuck(m) ==
    LET I == {i \in StuckSlots : CbCovers(m, cbAkick[i].who)}
    IN  IF I = {} THEN 0 ELSE CHOOSE i \in I : \A j \in I : i <= j

\* Mutant of StickMask: any ban will do.
StickMaskUnlessBanned(S, i) == IF S.bans # <<>> THEN S ELSE SetBan(S, cbAkick[i].who)

\* stick_mask(): unless a ban covers it.
StickMask(S, i) ==
    IF \E b \in ToSet(S.bans) : CbCovers(b, cbAkick[i].who) THEN S
    ELSE SetBan(S, cbAkick[i].who)

\* stick_all().
StickAll(S) ==
    FoldLeft(LAMBDA T, akick : IF akick.used /\ akick.stuck THEN SetBan(T, akick.who) ELSE T, S, cbAkick)

\* del_ban().
DelBan(S, m) ==
    LET T == [S EXCEPT !.bans = IF m \in ToSet(@) THEN RemoveFirst(@, m) ELSE @]
    IN  IF IsStuck(m) = 0 THEN T ELSE StickMask(T, IsStuck(m))

CbSame == UNCHANGED <<cbAkick, cbBot>>
CbThere == UNCHANGED <<cbUsers, cbExists, cbHere, cbInhabit>>
BansBecome(S) == cbBans' = S.bans /\ cbNet' = S.net

\* do_cmode(): somebody on the channel sets and removes bans.
UserBan(m) ==
    /\ cbExists /\ cbUsers # {} /\ m \notin cbNet /\ Len(cbBans) < CbMaxBans
    /\ BansBecome(AddBan([B EXCEPT !.net = @ \cup {m}], m))
    /\ CbSame /\ CbThere
UserUnban(m) ==
    /\ cbExists /\ cbUsers # {} /\ m \in cbNet /\ Len(cbBans) <= CbMaxBans
    /\ BansBecome(DelBan([B EXCEPT !.net = @ \ {m}], m))
    /\ CbSame /\ CbThere

-----------------------------------------------------------------------------
(* Users.                                                                  *)

\* The mask check_kick() bans a user by, from the first entry that hits.
KickMasks(u) ==
    LET Hits(i) == cbAkick[i].used /\ IF cbAkick[i].who \in CbGroup THEN cbAkick[i].who = u
                                      ELSE u \in CbHits[cbAkick[i].who]
        I == {i \in DOMAIN cbAkick : Hits(i)}
        first == CHOOSE i \in I : \A j \in I : i <= j
    IN  IF u \in CbExempt \/ I = {} THEN {}
        ELSE {IF cbAkick[first].who \in CbGroup THEN CbIdeal[u] ELSE cbAkick[first].who}

\* The ban of check_kick(): do_cmode() comes before the MODE that sets it, so
\* that a ban on the bot is set after it was taken off.
KickBan(S, m) == IF cbExists THEN [AddBan(S, m) EXCEPT !.net = @ \cup {m}]
                 ELSE [S EXCEPT !.net = @ \cup {m}]

\* What the network has of its bans when users and ChanServ are these.
NetAfter(net, users, here) == IF users = {} /\ ~here THEN {} ELSE net

\* check_kick() when it refuses: ChanServ opens the channel if nobody is on it.
CheckKick(u, m) ==
    /\ Len(cbBans) < CbMaxBans
    /\ LET opens == cbUsers = {} /\ ~cbInhabit
           S == KickBan(B, m)
       IN  /\ cbInhabit' = (cbInhabit \/ opens) /\ cbHere' = (cbHere \/ opens)
           /\ cbBans' = S.bans /\ cbNet' = NetAfter(S.net, cbUsers, cbHere \/ opens)
    /\ CbSame /\ UNCHANGED <<cbUsers, cbExists>>

\* A user joins: bans do not stop those who come with a netjoin.  chan_create()
\* at the first use of the name brings the stuck bans and ChanServ.
CbJoin(u) ==
    /\ u \notin cbUsers
    /\ \/ \E m \in KickMasks(u) : CheckKick(u, m)
       \/ /\ KickMasks(u) = {}
          /\ BansBecome(IF cbExists THEN B ELSE StickAll(B))
          /\ cbUsers' = cbUsers \cup {u} /\ cbExists' = TRUE
          /\ cbHere' = (cbHere \/ ~cbExists)
          /\ CbSame /\ UNCHANGED cbInhabit

\* chan_deluser() leaves the record and its bans.
CbPart(u) ==
    /\ u \in cbUsers
    /\ cbUsers' = cbUsers \ {u}
    /\ cbNet' = NetAfter(cbNet, cbUsers \ {u}, cbHere)
    /\ CbSame /\ UNCHANGED <<cbExists, cbHere, cbBans, cbInhabit>>

\* timeout_leave(), CSInhabit later: ChanServ leaves if there is no record.
TimeoutLeave ==
    /\ cbInhabit /\ cbInhabit' = FALSE
    /\ cbHere' = (cbHere /\ cbExists)
    /\ cbNet' = NetAfter(cbNet, cbUsers, cbHere /\ cbExists)
    /\ CbSame /\ UNCHANGED <<cbUsers, cbExists, cbBans>>

\* cs_join() by JOIN; cs_part() by PART, and a kick of ChanServ.
CbCsJoin ==
    /\ cbExists /\ cbHere' = TRUE
    /\ CbSame /\ UNCHANGED <<cbUsers, cbExists, cbBans, cbNet, cbInhabit>>
CbCsPart ==
    /\ cbHere /\ cbHere' = FALSE
    /\ cbNet' = NetAfter(cbNet, cbUsers, FALSE)
    /\ CbSame /\ UNCHANGED <<cbUsers, cbExists, cbBans, cbInhabit>>

\* Services start again while no user is on the channel.
CbRestart ==
    /\ cbUsers = {} /\ UNCHANGED cbUsers
    /\ cbExists' = FALSE /\ cbHere' = FALSE /\ cbInhabit' = FALSE
    /\ cbBans' = <<>> /\ cbNet' = {}
    /\ CbSame

-----------------------------------------------------------------------------
(* Autokicks.                                                              *)

NumberOf(who) == {i \in DOMAIN cbAkick : cbAkick[i].used /\ cbAkick[i].who = who}
CbFreeSlots == {i \in DOMAIN cbAkick : ~cbAkick[i].used}
AkicksBecome(slots) ==
    cbAkick' = slots /\ CbThere /\ UNCHANGED <<cbBans, cbNet, cbBot>>

\* BAN: the first free slot, or a new one.
CbBan(who) ==
    /\ NumberOf(who) = {}
    /\ LET akick == [used |-> TRUE, who |-> who, stuck |-> FALSE] IN
       IF CbFreeSlots # {}
       THEN AkicksBecome([cbAkick EXCEPT ![CHOOSE i \in CbFreeSlots : \A j \in CbFreeSlots : i <= j] = akick])
       ELSE Len(cbAkick) < CSAutokickMax /\ AkicksBecome(Append(cbAkick, akick))

\* akick_del() clears the flags, AK_STUCK among them, and leaves the slot.
AkickDel(slots, i) == [slots EXCEPT ![i].used = FALSE, ![i].stuck = FALSE]

\* UNBAN with a list of numbers, through akick_del_callback(), and with a
\* nick or a mask.
CbUnbanNumbers(numbers) ==
    /\ cbAkick # <<>>
    /\ AkicksBecome([i \in DOMAIN cbAkick |->
          IF i \in numbers THEN AkickDel(cbAkick, i)[i] ELSE cbAkick[i]])
CbUnban(who) == \E i \in NumberOf(who) : AkicksBecome(AkickDel(cbAkick, i))

\* BANLIST: the numbers shown, of a list of numbers or of all entries.
AkickView(numbers) == {i \in numbers \cap DOMAIN cbAkick : cbAkick[i].used}
CbBanlist == AkickView(DOMAIN cbAkick)

ChanBansNext ==
    \/ \E m \in CbMask : UserBan(m) \/ UserUnban(m)
    \/ \E u \in CbUser : CbJoin(u) \/ CbPart(u)
    \/ \E who \in CbMask \cup CbGroup : CbBan(who) \/ CbUnban(who)
    \/ \E numbers \in {{1}, {1, 2}, {2, 3}} : CbUnbanNumbers(numbers)
    \/ TimeoutLeave \/ CbCsJoin \/ CbCsPart \/ CbRestart

ChanBansSpec == ChanBansInit /\ [][ChanBansNext]_cbVars
-----------------------------------------------------------------------------
(* Safety.                                                                 *)

\* Nobody has two autokicks, so that one UNBAN is enough.
AkicksUnique == \A i, j \in CbBanlist : cbAkick[i].who = cbAkick[j].who => i = j

\* Each stuck mask is covered by a ban services know of.
StuckCovered ==
    cbExists => \A i \in StuckSlots : \E b \in ToSet(cbBans) : CbCovers(b, cbAkick[i].who)

\* Whoever removes which ban, a stuck mask stays among the bans services know
\* of.  The case in which it does not: one ban covered two stuck masks, of which
\* del_ban() puts back the first.
StuckStays ==
    [][(cbVars' # cbVars /\ StuckCovered) =>
          \/ StuckCovered'
          \/ \E m \in CbMask : /\ UserUnban(m)
                               /\ \E i, j \in StuckSlots : i # j /\ CbCovers(m, cbAkick[i].who)
                                                           /\ CbCovers(m, cbAkick[j].who)]_cbVars

\* The network has no ban that services do not know of, except one that was
\* set before there was a record, while ChanServ alone held the channel open,
\* and one by which somebody was kicked and which hits the bot.
BansKnown == cbExists => cbNet \subseteq ToSet(cbBans)
KickHitsBot ==
    \E u \in CbUser : \E m \in KickMasks(u) \cap CbBotMasks : BotThere /\ CheckKick(u, m)
OnlyInhabitHides ==
    [][(cbVars' # cbVars /\ BansKnown) =>
          (BansKnown' \/ (cbInhabit /\ ~cbExists) \/ KickHitsBot)]_cbVars
================================================================================
