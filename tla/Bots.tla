----------------------------------- MODULE Bots -----------------------------------
(***************************************************************************)
(* The bots of BotServ (src/botserv.c): which channel has which bot, how   *)
(* many channels each bot counts, and the nicks bots take over.            *)
(*                                                                         *)
(* A bot is its nick: the pointer a channel holds follows the record when  *)
(* CHANGE renames it.  A crash that loses everything since the last save   *)
(* brings back a state services were in before and is not a step; one in   *)
(* the middle of a save leaves new nicks and channels and old bots.        *)
(***************************************************************************)
EXTENDS Integers, Sequences, FiniteSets, SequencesExt, Folds

CONSTANTS
    BtNick,         \* nicks
    BtAdminNick,    \* those whose owners are services admins
    BtChan,         \* channels
    BtNone,         \* no bot
    BtBans,         \* the lists of bans the channels may have
    BtHits(_, _),   \* the ban matches the bot
    BSMinUsers,     \* how many users bring the bot, with BtUsers in the channels
    BtUsers,        \* [BtChan -> Nat]
    BSSmartJoin, BtSecureAdmins

ASSUME BotsConstants ==
    /\ BtAdminNick \subseteq BtNick /\ BtNone \notin BtNick
    /\ BSMinUsers \in Nat /\ BtUsers \in [BtChan -> Nat]
    /\ {BSSmartJoin, BtSecureAdmins} \subseteq BOOLEAN
    /\ \A bans \in BtBans : bans \in Seq(Range(bans))

VARIABLES
    btBots,         \* botlists: the private flag and chancount of each bot
    btChan,         \* the registered channels: their bot and BS_NOBOT
    btNicks,        \* the registered nicks
    btOnline,       \* the users on the network, by nick
    btFile,         \* the file of the bots
    btParted        \* a crash has put files of different saves together

btVars == <<btBots, btChan, btNicks, btOnline, btFile, btParted>>

BotInfo == [private : BOOLEAN, chancount : Int]
BtChannel == [bi : BtNick \cup {BtNone}, nobot : BOOLEAN]

BotsTypeOK ==
    /\ DOMAIN btBots \subseteq BtNick /\ \A b \in DOMAIN btBots : btBots[b] \in BotInfo
    /\ DOMAIN btChan \subseteq BtChan /\ \A c \in DOMAIN btChan : btChan[c] \in BtChannel
    /\ {btNicks, btOnline} \subseteq SUBSET BtNick
    /\ DOMAIN btFile \subseteq BtNick /\ btParted \in BOOLEAN

BotsInit ==
    /\ btBots = << >> /\ btChan = << >> /\ btFile = << >>
    /\ btNicks = {} /\ btOnline = {} /\ btParted = FALSE

Without(f, k) == [x \in DOMAIN f \ {k} |-> f[x]]
With(f, k, v) == [x \in DOMAIN f \cup {k} |-> IF x = k THEN v ELSE f[x]]
Findbot(nick) == nick \in DOMAIN btBots
Assigned(b) == {c \in DOMAIN btChan : btChan[c].bi = b}
-----------------------------------------------------------------------------
(* Bots.                                                                   *)

\* The nick becomes the bot's: it is dropped, and its user killed.
TakeNick(nick) == btNicks' = btNicks \ {nick} /\ btOnline' = btOnline \ {nick}

\* BOT ADD by a services admin, who may be a root.
BotAdd(nick, root) ==
    /\ ~Findbot(nick)
    /\ nick \in btNicks => ~(BtSecureAdmins /\ nick \in BtAdminNick /\ ~root)
    /\ TakeNick(nick)
    /\ btBots' = With(btBots, nick, [private |-> FALSE, chancount |-> 0])
    /\ UNCHANGED <<btChan, btFile, btParted>>

\* BOT CHANGE to another nick, with the user and host it needs in fact: the
\* owner of the nick is not asked for.
BotChange(b, nick) ==
    /\ Findbot(b) /\ ~Findbot(nick)
    /\ TakeNick(nick)
    /\ btBots' = With(Without(btBots, b), nick, btBots[b])
    /\ btChan' = [c \in DOMAIN btChan |->
                    IF btChan[c].bi = b THEN [btChan[c] EXCEPT !.bi = nick] ELSE btChan[c]]
    /\ UNCHANGED <<btFile, btParted>>

\* cs_remove_bot().
CsRemoveBot(b) ==
    btChan' = [c \in DOMAIN btChan |->
                 IF btChan[c].bi = b THEN [btChan[c] EXCEPT !.bi = BtNone] ELSE btChan[c]]

\* BOT DEL: delbot().
BotDel(b) ==
    /\ Findbot(b)
    /\ CsRemoveBot(b)
    /\ btBots' = Without(btBots, b)
    /\ UNCHANGED <<btNicks, btOnline, btFile, btParted>>

\* BOT LIST to somebody, and the channels INFO shows to an admin.
BotList(oper) == {b \in DOMAIN btBots : oper \/ ~btBots[b].private}
SendBotChannels(b) == Assigned(b)

\* SET PRIVATE.
SetPrivate(b, on) ==
    /\ Findbot(b)
    /\ btBots' = [btBots EXCEPT ![b].private = on]
    /\ UNCHANGED <<btChan, btNicks, btOnline, btFile, btParted>>
-----------------------------------------------------------------------------
(* Channels.                                                               *)

\* unassign(): what is left of the bots.
Unassigned(bots, c) ==
    IF btChan[c].bi = BtNone THEN bots ELSE [bots EXCEPT ![btChan[c].bi].chancount = @ - 1]

\* Mutant of Assign: the bot that was there still counts the channel.
AssignOver(c, b, oper) ==
    /\ Findbot(b) /\ c \in DOMAIN btChan
    /\ btBots[b].private => oper
    /\ btChan[c].bi # b /\ ~btChan[c].nobot
    /\ btBots' = [btBots EXCEPT ![b].chancount = @ + 1]
    /\ btChan' = [btChan EXCEPT ![c].bi = b]
    /\ UNCHANGED <<btNicks, btOnline, btFile, btParted>>

\* ASSIGN by somebody with the access, perhaps an oper.
Assign(c, b, oper) ==
    /\ Findbot(b) /\ c \in DOMAIN btChan
    /\ btBots[b].private => oper
    /\ btChan[c].bi # b /\ ~btChan[c].nobot
    /\ btBots' = [Unassigned(btBots, c) EXCEPT ![b].chancount = @ + 1]
    /\ btChan' = [btChan EXCEPT ![c].bi = b]
    /\ UNCHANGED <<btNicks, btOnline, btFile, btParted>>

\* UNASSIGN.
Unassign(c) ==
    /\ c \in DOMAIN btChan
    /\ btBots' = Unassigned(btBots, c)
    /\ btChan' = [btChan EXCEPT ![c].bi = BtNone]
    /\ UNCHANGED <<btNicks, btOnline, btFile, btParted>>

\* SET NOBOT, for services admins.
SetNobot(c, on) ==
    /\ c \in DOMAIN btChan
    /\ btChan' = [btChan EXCEPT ![c] =
                    [bi |-> IF on THEN BtNone ELSE @.bi, nobot |-> on]]
    /\ btBots' = IF on THEN Unassigned(btBots, c) ELSE btBots
    /\ UNCHANGED <<btNicks, btOnline, btFile, btParted>>

\* makechan(), and delchan() by any of the ways a channel ends.
BtRegister(c) ==
    /\ c \notin DOMAIN btChan
    /\ btChan' = With(btChan, c, [bi |-> BtNone, nobot |-> FALSE])
    /\ UNCHANGED <<btBots, btNicks, btOnline, btFile, btParted>>

BtDrop(c) ==
    /\ c \in DOMAIN btChan
    /\ btBots' = Unassigned(btBots, c)
    /\ btChan' = Without(btChan, c)
    /\ UNCHANGED <<btNicks, btOnline, btFile, btParted>>

\* bot_join(): BSSmartJoin lifts bans.  It walks the list by the positions of
\* its copy, but asks the list itself, which moves down under it as bans go
\* (the last pointer stays behind the end, as del_ban() leaves it).
BotJoinBans(b, bans) ==
    LET DelBan(S, m) ==
            LET I == {i \in 1..S.count : S.arr[i] = m}
                i == CHOOSE k \in I : \A l \in I : k <= l
            IN  IF I = {} THEN S
                ELSE [arr |-> [k \in DOMAIN S.arr |-> IF k \in i..(S.count - 1) THEN S.arr[k + 1]
                                                      ELSE S.arr[k]],
                      count |-> S.count - 1]
        Step(S, i) == IF BtHits(S.arr[i], b) THEN DelBan(S, bans[i]) ELSE S
        done == FoldLeft(Step, [arr |-> bans, count |-> Len(bans)], [i \in DOMAIN bans |-> i])
    IN  IF BSSmartJoin THEN SubSeq(done.arr, 1, done.count) ELSE bans

\* A channel in use with its bot and enough users, where it is.
BotPresent(c) == btChan[c].bi # BtNone /\ BtUsers[c] >= BSMinUsers

\* bot_rejoin_all(), when CHANGE made the bot quit.
BotRejoinAll(b) == {c \in Assigned(b) : BotPresent(c)}
-----------------------------------------------------------------------------
(* The network, the files.                                                 *)

\* A user takes a nick, which no bot has, and registers it.
BtConnect(nick) ==
    /\ nick \notin btOnline /\ ~Findbot(nick)
    /\ btOnline' = btOnline \cup {nick}
    /\ UNCHANGED <<btBots, btChan, btNicks, btFile, btParted>>

BtRegisterNick(nick) ==
    /\ nick \in btOnline /\ nick \notin btNicks
    /\ btNicks' = btNicks \cup {nick}
    /\ UNCHANGED <<btBots, btChan, btOnline, btFile, btParted>>

\* m_kill() of a bot: it returns before it would bring the bot back.
MKill(b) == Findbot(b) /\ UNCHANGED btVars

\* save_bs_dbase(), with the channels before it.  Bound: a file without bots
\* is written over, once.
SaveBs ==
    /\ btFile = << >> /\ ~btParted
    /\ btFile' = btBots
    /\ UNCHANGED <<btBots, btChan, btNicks, btOnline, btParted>>

\* load_bs_dbase(), then load_cs_dbase(), which finds the bots by their nicks,
\* after a crash between the two saves.  Bound: one such crash.
LoadBs ==
    /\ ~btParted
    /\ btBots' = btFile
    /\ btChan' = [c \in DOMAIN btChan |->
                    IF btChan[c].bi \in DOMAIN btFile THEN btChan[c]
                    ELSE [btChan[c] EXCEPT !.bi = BtNone]]
    /\ btOnline' = btOnline \ DOMAIN btFile
    /\ btParted' = (btParted \/ btFile # btBots)
    /\ UNCHANGED <<btNicks, btFile>>

BotsNext ==
    \/ \E n \in BtNick, root \in BOOLEAN : BotAdd(n, root)
    \/ \E b, n \in BtNick : BotChange(b, n)
    \/ \E b \in BtNick : BotDel(b) \/ MKill(b)
    \/ \E b \in BtNick, on \in BOOLEAN : SetPrivate(b, on)
    \/ \E c \in BtChan, b \in BtNick, oper \in BOOLEAN : Assign(c, b, oper)
    \/ \E c \in BtChan : Unassign(c) \/ BtRegister(c) \/ BtDrop(c)
    \/ \E c \in BtChan, on \in BOOLEAN : SetNobot(c, on)
    \/ \E n \in BtNick : BtConnect(n) \/ BtRegisterNick(n)
    \/ SaveBs \/ LoadBs

BotsSpec == BotsInit /\ [][BotsNext]_btVars
-----------------------------------------------------------------------------
(* Safety.                                                                 *)

\* A channel's bot exists and is allowed there.  Unless a crash has parted
\* the files, every bot counts its channels, and its nick is nobody's.
BotsCounted ==
    /\ \A c \in DOMAIN btChan :
        /\ btChan[c].bi # BtNone => Findbot(btChan[c].bi)
        /\ btChan[c].nobot => btChan[c].bi = BtNone
    /\ ~btParted => \A b \in DOMAIN btBots :
        btBots[b].chancount = Cardinality(Assigned(b)) /\ b \notin btNicks
    /\ btOnline \cap DOMAIN btBots = {}

\* A bot that joins lifts the ban that matches it, if it is the only one, and
\* no other.
SmartJoinLifts ==
    \A b \in BtNick, bans \in BtBans :
        LET hit == {i \in DOMAIN bans : BtHits(bans[i], b)}
        IN  BSSmartJoin => /\ hit = {} => BotJoinBans(b, bans) = bans
                           /\ \A i \in hit : hit = {i} => BotJoinBans(b, bans) = RemoveAt(bans, i)
================================================================================
