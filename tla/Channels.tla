------------------------------- MODULE Channels -------------------------------
(***************************************************************************)
(* Who is on which channel (src/channels.c), with the part of BotServ that *)
(* puts its bots on channels (bot_join, ASSIGN, UNASSIGN) and the commands *)
(* of ChanServ and OperServ that remove people.                            *)
(*                                                                         *)
(* Services keep each membership twice: c->users lists the users of a      *)
(* channel, user->chans the channels of a user with his status there.      *)
(* Both are doubly linked lists to which new entries are added in front.   *)
(* Services see the network only through the messages the uplink sends,    *)
(* and change it only through the messages they send, which cross each     *)
(* other on the way: "uplink" and "downlink" are those in flight.          *)
(*                                                                         *)
(* Every channel is registered with ChanServ.  Left out: the modes and     *)
(* bans of a channel, its topic, greetings, and ChanServ's own visits.     *)
(***************************************************************************)
EXTENDS Naturals, Sequences, FiniteSets, SequencesExt

CONSTANTS
    User, Bot, Channel,
    NULL,
    BSMinUsers,         \* users a channel has when its bot joins it
    Ignored,            \* users on services' ignore list
    Unwelcome,          \* pairs of a user and a channel check_kick() is for
    AutoOp,             \* pairs with access level CA_AUTOOP
    AutoDeop,           \* pairs with access level CA_AUTODEOP
    AutoOption,         \* pairs whose access entry has auto_option "T", the
                        \* user being identified
    Allowed,            \* of the events in Crossings, those that may happen
    MaxEvents,          \* bound: what the network and the admins may do
    MaxFlight           \* bound: messages in flight in one direction

\* burst_kill: a user is killed while an SJOIN of several is on its way;
\* deop_op: a user is opped or deopped with OP or DEOP while news of his
\* status is on its way;
\* kick_bot: an operator kicks a bot.
Crossings == {"burst_kill", "deop_op", "kick_bot"}

ASSUME NamesDiffer == User \cap Bot = {} /\ NULL \notin Bot
ASSUME MinUsersIsPositive == BSMinUsers \in Nat \ {0}
ASSUME BoundsAreNat == {MaxEvents, MaxFlight} \subseteq Nat

VARIABLES
    \* the network
    online,     \* users of the network
    on,         \* the users and bots on a channel
    ops,        \* those of them with mode +o
    uplink,     \* messages the network has sent to services
    downlink,   \* messages services have sent to the network
    events,     \* how many events have happened
    \* services
    known,      \* users with a User record
    users,      \* c->users
    chans,      \* user->chans
    bot         \* ci->bi

network == <<online, on, ops>>
records == <<known, users, chans>>
vars == <<online, on, ops, uplink, downlink, events, known, users, chans, bot>>

Member == User \cup Bot
ChanEntry == [chan: Channel, op: BOOLEAN]

Message ==
         [type: {"join", "part", "deop", "op"}, chan: Channel, who: User]
    \cup [type: {"kick"}, chan: Channel, who: Member]
    \cup [type: {"servop"}, chan: Channel, who: User]
    \cup [type: {"sjoin"}, chan: Channel, who: Seq(User)]
    \cup [type: {"botjoin", "botpart"}, chan: Channel, who: Bot]
    \cup [type: {"quit", "part0", "kill"}, who: User]

TypeOK ==
    /\ online \subseteq User
    /\ on \in [Channel -> SUBSET Member]
    /\ ops \in [Channel -> SUBSET User]
    /\ uplink \in Seq(Message) /\ downlink \in Seq(Message)
    /\ events \in 0 .. MaxEvents
    /\ known \subseteq User
    /\ users \in [Channel -> Seq(User)]
    /\ chans \in [User -> Seq(ChanEntry)]
    /\ bot \in [Channel -> Bot \cup {NULL}]

Init ==
    /\ online = User
    /\ on = [c \in Channel |-> {}]
    /\ ops = [c \in Channel |-> {}]
    /\ uplink = <<>> /\ downlink = <<>>
    /\ events = 0
    /\ known = User
    /\ users = [c \in Channel |-> <<>>]
    /\ chans = [u \in User |-> <<>>]
    /\ bot \in [Channel -> Bot \cup {NULL}]

-----------------------------------------------------------------------------
(* Services' records.  A handler may change both lists several times (an   *)
(* SJOIN names several users, a QUIT leaves several channels), so the      *)
(* functions below map one view of them to the next.                       *)

View == [known |-> known, users |-> users, chans |-> chans, out |-> <<>>]

\* The handler's result becomes the state; what it sends follows what is
\* already on its way.
Becomes(v) ==
    /\ known' = v.known
    /\ users' = v.users
    /\ chans' = v.chans
    /\ downlink' = downlink \o v.out

Send(v, m) == [v EXCEPT !.out = Append(@, m)]
To(t, c, x) == [type |-> t, chan |-> c, who |-> x]

\* The place of channel c in user u's list (0 if he is not on it), of u in c's.
PlaceOfChan(v, u, c) == SelectInSeq(v.chans[u], LAMBDA e : e.chan = c)
PlaceOfUser(v, u, c) == SelectInSeq(v.users[c], LAMBDA x : x = u)
IsOnChan(v, u, c) == PlaceOfChan(v, u, c) # 0
UserCount(v, c) == Len(v.users[c])

\* bot_join()
BotJoin(v, c) == IF bot[c] = NULL THEN v ELSE Send(v, To("botjoin", c, bot[c]))

\* Mutant of ChanDelUser: the bot stays.
ChanDelUserBotStays(v, u, c) ==
    IF PlaceOfUser(v, u, c) = 0 THEN v
    ELSE [v EXCEPT !.users[c] = RemoveAt(@, PlaceOfUser(v, u, c))]

\* chan_deluser(): the channel's half.  The bot leaves with the user who
\* takes the channel below BSMinUsers.
ChanDelUser(v, u, c) ==
    IF PlaceOfUser(v, u, c) = 0 THEN v
    ELSE LET w == [v EXCEPT !.users[c] = RemoveAt(@, PlaceOfUser(v, u, c))]
         IN  IF bot[c] # NULL /\ UserCount(w, c) = BSMinUsers - 1
             THEN Send(w, To("botpart", c, bot[c]))
             ELSE w

\* Mutant of Leave: only the channel's half.
LeaveHalf(v, u, c) == ChanDelUser(v, u, c)

\* do_part() and do_kick(): both halves, found through the user's list.
Leave(v, u, c) ==
    IF ~IsOnChan(v, u, c) THEN v
    ELSE [ChanDelUser(v, u, c) EXCEPT !.chans[u] =
             RemoveAt(@, PlaceOfChan(v, u, c))]

\* JOIN 0, and delete_user(): every channel in the user's list.
LeaveAll(v, u) ==
    [FoldLeft(LAMBDA w, e : ChanDelUser(w, u, e.chan), v, v.chans[u])
        EXCEPT !.chans[u] = <<>>]

\* delete_user()
DeleteUser(v, u) == [LeaveAll(v, u) EXCEPT !.known = @ \ {u}]

\* What chan_adduser2() does with an access entry that says T: the MODE is
\* sent, and the status is not recorded.
AutoOpped(v, u, c) == IF <<u, c>> \in AutoOption THEN Send(v, To("op", c, u)) ELSE v

\* Mutant of ChanAddUser: one user too late.
ChanAddUserLate(v, u, c) ==
    LET w == [v EXCEPT !.users[c] = <<u>> \o @]
    IN  IF u \in Ignored THEN w
        ELSE IF UserCount(v, c) = BSMinUsers THEN BotJoin(AutoOpped(w, u, c), c)
        ELSE AutoOpped(w, u, c)

\* chan_adduser2(): unless services ignore him, the user gets the status of
\* his access entry, and the bot joins with the user who brings the channel
\* to BSMinUsers.
ChanAddUser(v, u, c) ==
    LET w == [v EXCEPT !.users[c] = <<u>> \o @]
    IN  IF u \in Ignored THEN w
        ELSE IF UserCount(w, c) = BSMinUsers THEN BotJoin(AutoOpped(w, u, c), c)
        ELSE AutoOpped(w, u, c)

\* join_user_update()
JoinUserUpdate(v, u, c) ==
    ChanAddUser([v EXCEPT !.chans[u] = <<[chan |-> c, op |-> FALSE]>> \o @], u, c)

\* Whoever check_kick() keeps out is kicked before he gets on any list.
JoinOrKick(v, u, c) ==
    IF <<u, c>> \in Unwelcome THEN Send(v, To("kick", c, u))
    ELSE JoinUserUpdate(v, u, c)

\* check_valid_op(): may u have +o on c?  A server may op only who has
\* AUTOOP; the MODE -o for others is commented out.
ValidOp(u, c, servermode) ==
    /\ servermode => <<u, c>> \in AutoOp
    /\ <<u, c>> \notin AutoDeop
Deopped(u, c, servermode) ==
    /\ servermode => <<u, c>> \in AutoOp
    /\ <<u, c>> \in AutoDeop

\* Mutant of SetOp: the status stays for good.
SetOpOnly(v, u, c, flag) ==
    IF flag /\ IsOnChan(v, u, c)
    THEN [v EXCEPT !.chans[u][PlaceOfChan(v, u, c)].op = TRUE]
    ELSE v

\* chan_set_user_status(), chan_remove_user_status(): the first entry counts.
SetOp(v, u, c, flag) ==
    IF IsOnChan(v, u, c)
    THEN [v EXCEPT !.chans[u][PlaceOfChan(v, u, c)].op = flag]
    ELSE v

\* chan_set_modes() for +o and -o.
AddOp(v, u, c, servermode) ==
    IF u \notin v.known THEN v
    ELSE IF ValidOp(u, c, servermode) THEN SetOp(v, u, c, TRUE)
    ELSE IF Deopped(u, c, servermode) THEN Send(v, To("deop", c, u))
    ELSE v

\* One user of an SJOIN; op: his name has the prefix @ (in this model, the
\* first name of a list has it).
SJoinUser(v, u, c, op) ==
    LET w == JoinOrKick(v, u, c)
    IN  IF op /\ <<u, c>> \notin Unwelcome THEN AddOp(w, u, c, TRUE) ELSE w

\* do_sjoin(): the first user services do not know ends it.
SJoin(v, c, list) ==
    LET unknown == SelectInSeq(list, LAMBDA u : u \notin v.known)
        n == IF unknown = 0 THEN Len(list) ELSE unknown - 1
    IN  FoldLeft(LAMBDA w, i : SJoinUser(w, list[i], c, i = 1), v, [i \in 1 .. n |-> i])

-----------------------------------------------------------------------------
(* Services handle the next message (do_join, do_part, do_kick, do_sjoin,  *)
(* do_cmode, do_quit).                                                     *)

Handle(m) ==
    CASE m.type = "join" ->
            IF m.who \in known THEN JoinOrKick(View, m.who, m.chan) ELSE View
      [] m.type = "part" ->
            IF m.who \in known THEN Leave(View, m.who, m.chan) ELSE View
      [] m.type = "part0" ->
            IF m.who \in known THEN LeaveAll(View, m.who) ELSE View
      [] m.type = "kick" ->
            IF m.who \in Bot THEN BotJoin(View, m.chan)
            ELSE IF m.who \in known THEN Leave(View, m.who, m.chan) ELSE View
      [] m.type = "sjoin" -> SJoin(View, m.chan, m.who)
      [] m.type = "op" -> AddOp(View, m.who, m.chan, FALSE)
      [] m.type = "servop" -> AddOp(View, m.who, m.chan, TRUE)
      [] m.type = "deop" ->
            IF m.who \in known THEN SetOp(View, m.who, m.chan, FALSE) ELSE View
      [] m.type = "quit" ->
            IF m.who \in known THEN DeleteUser(View, m.who) ELSE View

Receive ==
    /\ uplink # <<>>
    /\ uplink' = Tail(uplink)
    /\ Becomes(Handle(Head(uplink)))
    /\ UNCHANGED <<network, bot, events>>

-----------------------------------------------------------------------------
(* Commands users and admins give services.                                *)

Command ==
    /\ events < MaxEvents
    /\ Len(downlink) < MaxFlight
    /\ events' = events + 1
    /\ UNCHANGED <<network, uplink>>

\* do_cs_kick(), bot_kick(), bot_raw_kick(): KICK is sent and handled.
CsKick(u, c) ==
    /\ Command
    /\ IsOnChan(View, u, c)
    /\ Becomes(Leave(Send(View, To("kick", c, u)), u, c))
    /\ UNCHANGED bot

Deopping(u, c) == To("deop", c, u) \in Range(downlink)

\* An op that is on its way, and not one that services do not record anyway.
Opping(u, c) == To("op", c, u) \in Range(downlink) /\ <<u, c>> \notin AutoOption

\* do_util(): DEOP.
CsDeop(u, c) ==
    /\ Command
    /\ "deop_op" \in Allowed \/ ~\E m \in Range(uplink) : m.type \in {"op", "servop", "sjoin"}
    /\ IsOnChan(View, u, c)
    /\ Becomes(SetOp(Send(View, To("deop", c, u)), u, c, FALSE))
    /\ UNCHANGED bot

\* What makes it unclear what becomes of a +o for u.
Unsettled(u, c) ==
    \/ \E m \in Range(uplink) : m.type \in {"deop", "join", "sjoin"}
    \/ Deopping(u, c)

\* do_util(): OP, which is recorded as far as check_valid_op() lets it.
CsOp(u, c) ==
    /\ Command
    /\ "deop_op" \in Allowed \/ ~Unsettled(u, c)
    /\ IsOnChan(View, u, c)
    /\ Becomes(AddOp(Send(View, To("op", c, u)), u, c, FALSE))
    /\ UNCHANGED bot

IsBurst(m) == m.type = "sjoin" /\ Len(m.who) > 1

\* kill_user()
Kill(u) ==
    /\ Command
    /\ "burst_kill" \in Allowed \/ ~\E m \in Range(uplink) : IsBurst(m)
    /\ u \in known
    /\ Becomes(DeleteUser(Send(View, [type |-> "kill", who |-> u]), u))
    /\ UNCHANGED bot

\* unassign() sends a PART when the bot should be there.
PartOfBot(c) ==
    IF bot[c] # NULL /\ UserCount(View, c) >= BSMinUsers
    THEN <<To("botpart", c, bot[c])>> ELSE <<>>

\* do_assign(): the new bot joins at once when the channel is large enough.
Assign(b, c) ==
    /\ Command
    /\ bot[c] # b
    /\ bot' = [bot EXCEPT ![c] = b]
    /\ downlink' = downlink \o PartOfBot(c) \o
          (IF UserCount(View, c) >= BSMinUsers THEN <<To("botjoin", c, b)>> ELSE <<>>)
    /\ UNCHANGED records

\* do_unassign()
Unassign(c) ==
    /\ Command
    /\ bot[c] # NULL
    /\ bot' = [bot EXCEPT ![c] = NULL]
    /\ downlink' = downlink \o PartOfBot(c)
    /\ UNCHANGED records

-----------------------------------------------------------------------------
(* The network.                                                            *)

Event ==
    /\ events < MaxEvents
    /\ Len(uplink) < MaxFlight
    /\ events' = events + 1
    /\ UNCHANGED <<records, bot, downlink>>

Tell(m) == uplink' = Append(uplink, m)
Off(x, c) == /\ on' = [on EXCEPT ![c] = @ \ {x}]
             /\ ops' = [ops EXCEPT ![c] = @ \ {x}]
OffAll(x) == /\ on' = [c \in Channel |-> on[c] \ {x}]
             /\ ops' = [c \in Channel |-> ops[c] \ {x}]

NetJoin(u, c) ==
    /\ Event
    /\ u \in online \ on[c] /\ on[c] # {}
    /\ "deop_op" \in Allowed \/ ~Opping(u, c)
    /\ on' = [on EXCEPT ![c] = @ \cup {u}]
    /\ Tell(To("join", c, u))
    /\ UNCHANGED <<online, ops>>

\* The first user makes the channel and becomes an op; two that come
\* together come from another part of the network as it merges.
NetSJoin(list, c) ==
    /\ Event
    /\ on[c] = {} /\ Range(list) \subseteq online
    /\ Len(list) > 1 => "burst_kill" \in Allowed \/ Range(list) \subseteq known
    /\ "deop_op" \in Allowed \/ ~Deopping(list[1], c)
    /\ "deop_op" \in Allowed \/ ~\E u \in Range(list) : Opping(u, c)
    /\ on' = [on EXCEPT ![c] = Range(list)]
    /\ ops' = [ops EXCEPT ![c] = {list[1]}]
    /\ Tell(To("sjoin", c, list))
    /\ UNCHANGED online

NetPart(u, c) ==
    /\ Event
    /\ u \in on[c]
    /\ Off(u, c)
    /\ Tell(To("part", c, u))
    /\ UNCHANGED online

NetPartAll(u) ==
    /\ Event
    /\ u \in online
    /\ OffAll(u)
    /\ Tell([type |-> "part0", who |-> u])
    /\ UNCHANGED online

NetQuit(u) ==
    /\ Event
    /\ u \in online
    /\ online' = online \ {u}
    /\ OffAll(u)
    /\ Tell([type |-> "quit", who |-> u])

NetKick(x, c) ==
    /\ Event
    /\ x \in on[c] /\ ops[c] # {}
    /\ x \in Bot => "kick_bot" \in Allowed
    /\ Off(x, c)
    /\ Tell(To("kick", c, x))
    /\ UNCHANGED online

NetOp(u, c) ==
    /\ Event
    /\ u \in (on[c] \cap User) \ ops[c]
    /\ "deop_op" \in Allowed \/ ~Deopping(u, c)
    /\ ops' = [ops EXCEPT ![c] = @ \cup {u}]
    /\ \/ ops[c] # {} /\ Tell(To("op", c, u))
       \/ Tell(To("servop", c, u))
    /\ UNCHANGED <<online, on>>

NetDeop(u, c) ==
    /\ Event
    /\ u \in ops[c]
    /\ "deop_op" \in Allowed \/ ~Opping(u, c)
    /\ ops' = [ops EXCEPT ![c] = @ \ {u}]
    /\ Tell(To("deop", c, u))
    /\ UNCHANGED <<online, on>>

\* The network carries out what services sent.  It tells services nothing.
Obey(m) ==
    \/ m.type = "kick" /\ Off(m.who, m.chan) /\ UNCHANGED online
    \/ m.type = "deop" /\ ops' = [ops EXCEPT ![m.chan] = @ \ {m.who}]
                       /\ UNCHANGED <<online, on>>
    \/ m.type = "op" /\ ops' = [ops EXCEPT ![m.chan] = @ \cup ({m.who} \cap on[m.chan])]
                     /\ UNCHANGED <<online, on>>
    \/ m.type = "kill" /\ online' = online \ {m.who} /\ OffAll(m.who)
    \/ m.type = "botjoin" /\ on' = [on EXCEPT ![m.chan] = @ \cup {m.who}]
                          /\ UNCHANGED <<online, ops>>
    \/ m.type = "botpart" /\ Off(m.who, m.chan) /\ UNCHANGED online

Deliver ==
    /\ downlink # <<>>
    /\ downlink' = Tail(downlink)
    /\ Obey(Head(downlink))
    /\ UNCHANGED <<uplink, events, records, bot>>

-----------------------------------------------------------------------------
Lists == {<<u>> : u \in User} \cup {p \in User \X User : p[1] # p[2]}

Services ==
    \/ Receive
    \/ \E u \in User, c \in Channel : CsKick(u, c) \/ CsDeop(u, c) \/ CsOp(u, c)
    \/ \E u \in User : Kill(u)
    \/ \E b \in Bot, c \in Channel : Assign(b, c)
    \/ \E c \in Channel : Unassign(c)

Network ==
    \/ Deliver
    \/ \E u \in User, c \in Channel :
          NetJoin(u, c) \/ NetPart(u, c) \/ NetOp(u, c) \/ NetDeop(u, c)
    \/ \E l \in Lists, c \in Channel : NetSJoin(l, c)
    \/ \E u \in User : NetPartAll(u) \/ NetQuit(u)
    \/ \E x \in Member, c \in Channel : NetKick(x, c)

Next == Services \/ Network

Spec == Init /\ [][Next]_vars

-----------------------------------------------------------------------------
(* Properties.                                                             *)

Times(x, s, Is(_, _)) == Cardinality({i \in DOMAIN s : Is(s[i], x)})

\* The two lists that hold a membership agree, however often it is there: a
\* user without a record is on no channel's list (channels.c would follow a
\* freed pointer), the count that BotServ goes by is right, and both lists
\* are lists of what they should be.
ListsMirror ==
    /\ TypeOK
    /\ \A u \in User, c \in Channel :
          /\ Times(u, users[c], LAMBDA x, y : x = y) =
                Times(c, chans[u], LAMBDA x, y : x.chan = y)
          /\ u \notin known => chans[u] = <<>>

\* Once nothing is in flight, services know everyone who is on a channel.
\* do_sjoin() says "We make all the users join".
Settled == uplink = <<>> /\ downlink = <<>>
NoneOverlooked ==
    Settled => \A c \in Channel : on[c] \cap User \subseteq Range(users[c])

\* Once nothing is in flight, no channel with as many users as BSMinUsers is
\* without its bot ("minimum number of users there must be in a channel
\* before the bot joins it").
BotComes ==
    Settled => \A c \in Channel :
        bot[c] # NULL /\ UserCount(View, c) >= BSMinUsers => bot[c] \in on[c]

Partings(m, out) == Times(m, out, LAMBDA x, y : x = y)

\* Whenever services see a channel fall below BSMinUsers, on whatever way, or
\* give it another bot, they send the bot away that was there.
BotLeaves ==
    [][\A c \in Channel :
          (/\ bot[c] # NULL /\ UserCount(View, c) >= BSMinUsers
           /\ Len(users'[c]) < BSMinUsers \/ bot'[c] # bot[c]) =>
              Partings(To("botpart", c, bot[c]), downlink')
                > Partings(To("botpart", c, bot[c]), downlink)]_vars

\* Once nothing is in flight, whom services hold for an op of those they may
\* leave with +o is one, and who is one they hold for one, except users whom
\* they gave +o as they joined: chan_adduser2() does not record that.
StatusOf(u, c) == chans[u][PlaceOfChan(View, u, c)].op
OpsKnown ==
    Settled => \A c \in Channel : \A u \in on[c] \cap User :
        <<u, c>> \in AutoOp \ AutoDeop =>
            /\ StatusOf(u, c) => u \in ops[c]
            /\ u \in ops[c] => StatusOf(u, c) \/ <<u, c>> \in AutoOption

\* Once nothing is in flight, services know who is on a channel, and who is
\* an op there of those they may leave with it (see OpsKnown for those who
\* are opped as they join).
UsersKnown == NoneOverlooked /\ OpsKnown
===============================================================================
