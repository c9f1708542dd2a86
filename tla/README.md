# Verification of the IRC services

The program in `src/` is a fork of Anope's IRC services: a pseudo-server that
links to one IRC server (here Bahamut, `src/sysconf.h`) and gives the network
registered nicks (NickServ), registered channels (ChanServ), bots (BotServ),
memos (MemoServ), virtual hosts (HostServ) and operator tools (OperServ). It is
one process with one thread. Its main loop reads a line from the uplink, runs
the handler of that message to its end, and in between runs the timeouts that
are due, expires old records and saves the databases (`main.c` 437-490).

So nothing in the program is preempted, and yet nearly everything that is hard
about it is concurrency:

* what services know of the network and what the network is differ by the
  messages in flight in both directions;
* a command's effect is often finished later, by a timeout, when the user, the
  nick, the channel or the address of the record may mean something else;
* records refer to each other by bare pointers in both directions, across
  components, and are freed by expiry, drops and quits;
* lists and arrays are walked by routines that call routines that change them;
* the state is spread over several files that are written one after the other
  and read back by code that trusts them.

## 1. Inventory

| Component | State | Operations | Interacts with | What makes it correct |
|---|---|---|---|---|
| Timeouts `timeout.c` | linked list of `Timeout` | add, delete, walk | every caller's routine runs inside the walk | each due timeout runs once per walk, new ones wait, links stay right |
| Nicks `nickserv.c`, `users.c` | `NickAlias`, `NickCore`, `User.na`, `NickAlias.u`, status flags, `my_timeouts` | connect, nick change, quit, IDENTIFY, REGISTER, CONFIRM, GROUP, DROP, FORBID, RECOVER, RELEASE, LOGOUT, expiry; SET, ACCESS, INFO | timeouts; enforcer clients on the network; `cs_remove_nick` | nobody is identified without proof; enforcers leave; no timeout outlives its alias; settings do not contradict each other |
| Requests `nickserv.c` | hash table `nrlists`, prenick database | REGISTER, CONFIRM, DROP, expiry, save, load | NickServ | a request lasts until it is confirmed, dropped or expires |
| Users as such `users.c`, `actions.c` | modes, `usercnt`, `opcnt`, bad passwords | connect, UMODE, nick change, quit, kill | news, superadmins | the counts are those of the users; r means identified |
| Sessions `sessions.c` | `Session` per host, array of exceptions | add/del session, EXCEPTION ADD, DEL, MOVE, expiry, save, load | `do_nick`, `do_quit`, `do_kill`; DefCon | counts match users; the limit in force is applied; numbers name the entries they show |
| Membership `channels.c`, `botserv.c` | `c->users`, `user->chans`, `ci->bi` | JOIN, SJOIN, PART, KICK, QUIT, MODE o, bot join and part | the network, ChanServ and BotServ commands, `kill_user` | both lists agree; when nothing is in flight they agree with the network |
| Channels `chanserv.c` | `ChannelInfo`, `Channel.ci`, founder, successor, access list, `channelcount`, `founder_chans` | REGISTER, DROP, FOUNDER, SET SUCCESSOR, ADDUSER, MODUSER, REMUSER, FCHAN, SCHAN, UNSCHAN, expiry, save, load | NickServ groups, `Channel` records, databases | no dangling references; counts and limits; unused channels expire, used ones do not |
| Channel modes, bans, topics `channels.c`, `chanserv.c` | modes, mode lock, two counters, bans, autokicks, topics | MODE, SJOIN, GUARDM, BAN, UNBAN, TOPIC, GUARDT, CLEARMODES | the network, servers that put their own back | the lock wins unless a server fights it; stuck bans and locked topics stay |
| ChanServ's notes `chanserv.c` | comments, AUTOOP, DESC, ONJOIN; history table | COMMENT, AUTOOP, DESC, ONJOIN, ACCESS, LASTCMDS | access list slots, joins, IDENTIFY, SQL | a note belongs to the entry it was made for; lists are shown whole |
| AKILL, S*LINE `operserv.c`, `slist.c` | arrays of masks with expiry | ADD, DEL by mask or numbers, CLEAR, arrivals, expiry | bans on the network, `do_nick` | adding never shortens protection; DEL removes what was listed |
| Staff `operserv.c`, `nickserv.c` | lists of cores, flags on cores | ADMIN, OPER, drops, groups, FORBID, SET DISPLAY | NickServ | list and flag agree |
| DefCon `operserv.c` | level, timeout | DEFCON, timeout, RELOAD | sessions, modes of all channels | leaving a level undoes it |
| Clones `operserv.c` | two rings | every connect | kills | a burst is reported |
| MemoServ, News | numbered arrays | SEND, DEL, CANCEL, READ; ADD, DEL | nick and channel records | a number names one item until it is deleted |
| BotServ `botserv.c` | bots, `chancount`, kickers, bad words | BOT ADD, CHANGE, DEL, ASSIGN, UNASSIGN, KICK, BADWORDS, SET | nicks, channels, bans | counts agree; a bot that joins is not banned |
| HostServ | one sorted list | SET, SETALL, DEL, DELALL, GROUP, drops | nick groups | lookup finds what was set |
| Ignore list `process.c` | buckets of masks with expiry | IGNORE, every command | all services | an expired record is removed from the list it is on |
| Main loop, signals `main.c` | `quitting`, `save_data`, ... | SIGTERM, SIGHUP, SHUTDOWN, RESTART, UPDATE | everything | stopping saves |
| Database files `datafiles.c` | file, `.save`, backups | open, write, restore, close, back up | the disk | a good copy at any time |
| Sockets `sockutil.c` | two ring buffers | write, flush, read | the uplink | bytes in order |
| Wildcards, masks `misc.c`, `users.c` | none | match, split, make a mask | every list of masks | what matches is found |
| Parsing, languages, encryption, proxies, modules | tables | | | left aside |

`PROJECT.json` lists all of them with their status, and under `hazards` what can
go wrong at which line.

## 2. Modules

| Module | Models | Extends / instantiates |
|---|---|---|
| `Timeouts` | `timeout.c`, pointer by pointer | implements `TimerSet` |
| `TimerSet` | abstract: a set of timers and walks over it | |
| `NickServ` | `nickserv.c` and the parts of `users.c` it lives on | uses timeouts as `TimerSet` promises them |
| `NickRequests` | registration requests | implements `NickRequestSet` |
| `NickRequestSet` | abstract: a set of requests and its saved copy | |
| `Sessions` | `sessions.c` with its calls from `users.c` | |
| `Channels` | membership, +o, and BotServ's presence, with both directions of the link | |
| `ChanServ` | the channel database, against groups, `Channel` records, files | |
| `NickOptions` | SET, ACCESS and INFO of NickServ | |
| `Opers` | user modes, counts, superadmins, bad passwords | |
| `ModeLock` | modes of a channel, its lock, `check_modes` and its counters | |
| `ChanBans` | bans, autokicks, stuck bans | |
| `ChanTopics` | topic, KEEPTOPIC, topic lock | |
| `AccessPages` | ACCESS page by page while the list changes | |
| `ChanNotes` | COMMENT, AUTOOP, DESC, ONJOIN and their effect | |
| `History` | the table of last commands | |
| `DefCon` | DEFCON's forced modes, MASS MODE, the timeout, RELOAD | |
| `Xlines` | AKILL, SGLINE, SQLINE, SZLINE and the network's bans | uses `SList` |
| `Staff` | ADMIN, OPER and roots against groups of nicks | uses `SList` |
| `SList` | `slist.c`: add, delete, ranges, packing | |
| `Clones`, `Ignores` | clone detection; the ignore list | |
| `Memos`, `News` | numbered items | |
| `Bots`, `BotSettings` | bots and their channels; kickers, bad words, options | |
| `Hosts` | virtual hosts, across two databases | |
| `Databases` | one database file, the main loop, stops and signals | |
| `ChanFile` | the channel file field by field, any version | |
| `Buffers` | the ring buffers of the socket | |
| `Masks` | `match_wild`, splitting and making masks | |
| `MC*` | small instances for TLC | extends each module |
| `*Proofs` | theorems | extends each module and TLAPS |
| `PartsLemmas`, `PartsProofs` | the invariants of the parts of `MCParts`; the theorems about them together | extend the parts; `PartsLemmas` and `MCParts` |

**Timeouts.** Records are addresses; `next`, `prev` and `timeouts` are the
pointers of the code. `check_timeouts` is not atomic, because the routine it
calls changes the list while the cursor stays on the running record: `StartPass`,
`SkipNotDue`, `CallCode`, then any number of `Add` and `Del` by the routine, then
`KeepRepeating` or `FreeFired`, and `EndPass`. A freed address can be handed out
again within the walk. Four ghost variables (`stamp`, `born`, `passStamp`,
`fired`) give records an identity that addresses do not. `TimerSet` says what
callers may rely on: a walk visits every member of the set it began with that is
still there exactly once. A routine must not delete the timeout it runs for; that
is what `NickServ` owes, as `PrivateListSound`.

**NickServ.** The C routines (`collide`, `release`, `cancel_user`,
`validate_user`, `clean_ns_timeouts`, `delnick`, ...) are operators from one
database record `S` to the next, so each handler is one action that composes the
routines in the order of the code. `unick` is the network's view of a user's
nick; SVSNICK and enforcers take effect in actions of their own. What the access
list and the group's flags make of a user is a choice among `Verdicts`.

**NickRequests.** The hash table as sequences per bucket; `delnickrequest` drops
everything in front of the deleted entry, `load_ns_req_db` reads one record per
round. `NickRequestSet` is what REGISTER and CONFIRM need: a set.

**Sessions.** The array of exceptions with the stored `num` and the calculated
position kept apart, which is where the code goes wrong. `Restart` reads the file
back, `Refuse` and `Connect` are the two outcomes of `add_session`.

**Channels.** `uplink` and `downlink` are queues; services act on `known`,
`users` and `chans`, the network on `online`, `on` and `ops`. As in NickServ, C
functions are operators from one view of services' records to the next. `AutoOption`
are the users whose access entry says T: they are opped as they join, and nothing is
recorded. OP and DEOP (`CsOp`, `CsDeop`) are sent and recorded.

**ChanServ.** A group is its display name, a `ChannelInfo` has an address `id`
that can be reused, and `disk` holds the two files as last written. `Save(FALSE)`
is a save that ends after the first file. Commands check access the way
`check_access` does, including that it writes `last_used`.

**ModeLock, ChanBans, ChanTopics, DefCon.** What services hold a channel to. Their
record of a channel is made when its name is first used and is there until services
stop, because the call of `chan_delete` is commented out; the network's channel ends
when neither a user nor ChanServ is on it, which is a state of its own in the first
three (`mlUsers` and `mlStays`, `cbUsers` and `cbHere`, `ctUsers` and `ctStays`). So the
record may be that of a channel that ended: `mlStale` are its modes that the network's
channel lacks, `cbNet` and `ctNet` the bans and the topic that it has. What services
send is then less than what they record, and the properties say of which of the two
they speak: `LockEnforced`, `StuckStays` and the first half of `LockedTopicStays` of
the record, `OnlyInhabitHides` and the second half of both. That an opened channel gets
what was locked is `LockRestored`, which no run checks because the code does not
keep it (section 6). `DefCon` keeps its
channels for the same reason. In `ModeLock` the clock is only whether a counter's second is still this one, because
`check_modes` compares counts of the same second; `bouncy` is the end of the war.
`DefCon` walks the channels in the order of the hash table, because the loop of `do_mass_mode` may
stop on the way.

**Xlines, Staff, SList.** One action per command, each list with its own copy of
`add_akill`. `SList` is the array: a range is nulled first and packed at the end.
`xBans` is what the network was told. A crash takes the lists back to the last save.

**Databases, ChanFile, Buffers.** The file system calls are single steps, so a kill
or a signal falls between any two. `ChanFile` has the reader and the writer of
`chanserv.c` as two lists of fields with their types, written apart from each other
as the code has them; a file may be cut anywhere. `Buffers` keeps the bytes of the
ring, numbered, and two history variables say whether one came out of turn.

**Memos, News, Hosts, Bots, BotSettings, AccessPages, ChanNotes, NickOptions,
Opers, Clones, Ignores, History.** One record, group, channel or list each, with every
command on it an action, and the callers that are modules of their own
(drops, nick changes, restarts) as actions too. `Hosts` is HostServ as a build with
`HAS_VHOST` has it (section 7). Where the code goes on after it
has damaged its own records, the module has a state from which it does not go on
(`igState`), and says so.

**Masks** has no behaviour of its own: each state is a pattern, a string or a user,
and its properties compare the code's algorithm with a definition.

Names are those of the source; `PROJECT.json` maps each definition to its lines.
Definitions introduced by a comment "Mutant of ..." are used by no specification:
they are plausible bugs that the properties are known to detect.

### Sequences and crossings that are switched off

Some legal sequences of events do break properties; they are the findings and
observations of section 6. Each such sequence has a name in the set `Sequences`
(NickServ, ChanServ), `Crossings` (Channels) or `Renumbered` (Sessions), and a
constant `Allowed` says which may happen. A passing run without them shows that
nothing else breaks the property. The theorems hold for every value of `Allowed`.

## 3. Runs

| Run | Module, bounds | Shows |
|---|---|---|
| `timeouts` | 3 addresses, delays 0 and 1, 2 times, 3 adds | the list, the walk, refinement of `TimerSet`, and that due one-shot timeouts are served |
| `nickserv_quiet` | 2 users, 2 nicks, 2 groups, 3 timers, no troublesome sequence | links, held nicks, forbidden nicks, no orphan timeouts |
| `nickserv_live` | 1 user, 1 nick, 3 timers, with case changes, crossings, LOGOUT REVALIDATE and offline CONFIRM | private list, enforcers leave, warned users move |
| `sessions` | 2 users, 2 hosts, 2 masks, 2 exceptions | counting, limits, numbering and DEL by numbers |
| `requests` | 3 nicks, a bucket each, 4 times | refinement of `NickRequestSet`, one request per nick |
| `channels` | 2 users, 2 bots, 2 channels, 5 events, 2 messages in flight each way | both lists, and agreement with the network when nothing is in flight |
| `chanserv` | 2 users (one super admin), 2 groups, 1 channel, 4 commands, all sequences | references, links, successors, where founderless channels come from |
| `chanserv_limit` | 1 user, 2 groups, 2 channels, 5 commands | counts, limits over simultaneous inheritance, expiry spares channels in use |
| `parts` | `MCParts`: 22 modules, each with the bounds below | lists, numbers, modes, files, buffers, counts, reports, settings |
| `requests_lost` | 2 of 3 nicks share a bucket | finding: the set of requests is not implemented |
| `sessions_expire` | 2 masks, expiry | finding: DEL by number removes another entry |
| `chanserv_no_expiry` | 1 user, 1 group, 2 channels | finding: a channel that was ever joined does not expire |

**The run `parts`.** Parts of services that share no state with each other are
checked together: a behaviour picks a part in its first state, `PartsNext` has one
disjunct per part, and the others rest in one initial state. It is the same as a run
per part. Each property says of which parts it speaks:

| Property | Made of |
|---|---|
| `PartsTypeOK` | the type invariant of each part |
| `ListsKept` | `AddKeepsProtection`, `DelMatchesList` (Xlines), `StaffListed` (Staff) |
| `OnlyKnownCauses` | `OnlyCrashesDiverge` (Xlines), `OnlyLeavingRootsStay` (Staff) |
| `RecordsHold` | `LockEnforced` (ModeLock), `StuckStays`, `OnlyInhabitHides` (ChanBans), `LockedTopicStays` (ChanTopics), `LiftReachesAll` (DefCon), `CancelsOwnUnread` (Memos) |
| `EntriesOnce` | `AkicksUnique` (ChanBans), `BadwordsUnique` (BotSettings), `NumbersGoUp` (Memos), `DelRemovesOne` (News), `NickAccessSound` (NickOptions), `AutoopOwn` (ChanNotes) |
| `MatchingSound` | `MatchAgrees`, `MasksFit`, `SplitSound` (Masks), `BucketsSound`, `HeardOnlyWhileFlushing` (Ignores) |
| `FilesKeep` | `OneGoodCopy`, `NothingUnsaved` (Databases), `SavedIsLoaded` (ChanFile) |
| `InOrder` | Buffers |
| `CountsKept` | `BotsCounted`, `SmartJoinLifts` (Bots), `OpersCounted` (Opers) |
| `ReportsComplete` | `OnlyBlankPagesHide` (AccessPages), `LastCommandsKept` (History), `BurstsReported` (Clones) |
| `OptionsSound` | `VhostsAsGiven` (Hosts), `KillSettingSound`, `HiddenFromOthers`, `AdminPasswordsOwn` (NickOptions), `KickersWork` (BotSettings), `LockSound` (ModeLock) |

The conjuncts are stated, with the case each excepts, in their modules.

**Why the bounds are enough.** Three addresses are the least with which a walk
has a record behind, under and ahead of the cursor; two addresses per kind of
record are enough for one to be freed and reused while a pointer to it is kept;
two users and two nicks give a change from one registered nick to the other while
the other user arrives; two channels with `ChannelMax` 1 make two inheritances
compete for one place; two exceptions make a deletion shift a position. BSMinUsers
2 makes the bot's threshold differ from the channel's existence. The clock runs
just past the longest delay in use. In `parts`: a mask that covers another and one
that does not, and times before, at and after each other, for the lists; room for one entry
less than there are things to enter, where the code has a limit; memo numbers of a
width that overflows after three memos; pages of two entries and a list of
five; a ring of five bytes, lines of up to three and byte numbers modulo seven,
so that full, empty and wrapped all occur; three days and backups of one, so that one
is made, kept and removed; strings of four characters over the wildcards, the
separators and a letter. `PartsBounds` ends a behaviour in states whose successors say no more:
after an answer of INFO has been looked at, after files or counts have parted for a
known reason, and with pairs of settings that no operation reads together; a DEFCON
level that denies changes of mode locks is only explored until the name is used, a channel
that was opened with modes of its old record only until the counters of `check_modes` go
up, and a channel that was given up as bouncing not at all, because `LockEnforced` excepts it.

`CHECK_DEADLOCK FALSE` in every configuration: the bounds on the clock, events and
commands end every behaviour; the program itself never blocks.

**Symmetry** is used for users, bots, addresses or channels where nothing in the
configuration tells them apart, and never in a run with a liveness property.

**Fairness.** `Timeouts` and `NickServ`: the walk goes on and begins again, time
advances and due timeouts run. The main loop justifies it: `sgets2` returns after
`ReadTimeout` even when the server is silent, and `check_timeouts` follows every
`TimeoutCheck` seconds; routines are plain C that returns. `ChanServ`: `expire_all`
is called every `ExpireTimeout`, and time advances. Nothing is assumed of users,
admins or the network.

## 4. Hazards and properties

| Hazard | Properties |
|---|---|
| the list changes under the walk | ListWellFormed, DueTimersRun, AbsSpec |
| timeouts starve | DueIsServed, EnforcerLeaves, WarnedUserIsMoved |
| a pointer outlives what it points to | PrivateListSound, NoOrphanTimeout, LinksAgree, RecordsSound |
| a timeout fires for a new situation | LinksAgree, EnforcerHasTimeout, IdentifiedIsEarned |
| a counter kept apart from what it counts | SessionsCountUsers, CountsRight, CountsKept |
| a limit that changes, or is taken twice | NoHostOverLimit, RefusedOnlyAtLimit, LimitKept |
| positions and numbers that change while they are used | CommandsKeepNumbers, DelRemovesNumbered, ListsKept, EntriesOnce, ReportsComplete |
| messages cross | ListsMirror, UsersKnown, BotComes, BotLeaves |
| services and a server put modes or bans back in turn | RecordsHold |
| a record outlives what it describes | RecordsHold, InUseNeverExpires; ExpiresUnused, which fails |
| restart, crash and partial saves | AbsSpec of NickRequests, OneRequestPerNick, RecordsSound, CountsRight, FilesKeep, OnlyKnownCauses, OptionsSound |
| a signal in the middle of a save | FilesKeep |
| a boundary of a ring, a width, a time that is 0 | InOrder, EntriesOnce, ListsKept |
| a wildcard or a bucket that hides what is there | MatchingSound |
| one of several channels fails | RecordsHold |
| a command order nobody tried | RecordsSound, FounderStays, ForbiddenStays, InUseNeverExpires, OptionsSound |

Some properties are conditioned on purpose. `DelRemovesNumbered` supposes that the
numbers are positions; `CommandsKeepNumbers` shows that every command keeps them
so and that only expiry and a restart do not. `FounderStays` names the two
commands that make founderless channels. `BotComes` and `UsersKnown` speak of the
moments when both queues are empty; the half of `UsersKnown` about ops leaves out
those whom `check_valid_op` refuses, for them services record what they wish, not
what is. Of a user who is opped as he joins (`AutoOption`) `UsersKnown` does not say that
services know it: they do not record it. Whom they hold for an op is one, him too. The properties of `parts` that except a case name it: what is excepted is
in section 6.

## 5. Theorems

All are proved by `tlapm` for every value of the constants under the named
assumptions of the modules (NULL is no record, delays, limits and bounds are
naturals, some sets finite, some sets of flags apart; lists given as constants are
sequences of what they range over). A hypothesis beyond those is written into the
theorem as `ASSUME` and named below.

* `TimeoutsProofs`: the invariant is the conjunction of the properties with the
  place of the cursor (`CursorInv`): the cursor is live while a routine runs and
  older than the walk. `ListWellFormed` is inductive thanks to `born`, which orders
  the list. `TypeCorrect`, `ListIsWellFormed`, `AddedTimersWait`, `WalkIsComplete`,
  and `ImplementsTimerSet`: every step is a step of `TimerSet` or a stutter.
* `NickServProofs`: `Sound` (entries of `my_timeouts` and timers correspond) has to
  be carried through each routine with `Good` (typed database, aliases on the lists,
  links in both directions, an order that makes the chains of a nick finite) because
  `delnick` is only safe on an alias found through the lists. One lemma per routine
  for each, one per action on top. `TypeCorrect` and `PrivateListIsSound`, for any
  `Allowed`: also the sequences that break other properties cannot make services
  delete somebody else's timeout. `AliasesStayOwn`: nor can they make two users share
  an alias, or leave a user with that of another nick. The second half adds layers, each
  stated of a database record and kept by the routines: release timeouts of enforcers
  (`EnforcersHaveTimeouts`, whatever happens); users linked to what `findnick` returns
  and forbidden nicks (`UsersStayLinked`, `ForbiddenNicksStay`, where CONFIRM of a nick
  registered meanwhile is left out: `OneNick`); timeouts whose nick is still warned or
  held, so that the handler that ends the state ends the timeout (`NoTimeoutIsOrphan`,
  `LinksAndFlagsAgree`, without the four sequences `Orderly` names); and the proofs of
  identity (`IdentityIsEarned`, without the two CONFIRMs `Proven` names). Each left-out
  sequence breaks the property: those are findings of section 6.
* `SessionsProofs`: `CountsAreRight` and `RefusalsAreRight` from types and counts;
  each of connect, leave, refuse and restart changes the users of one host by what
  it changes the count. `LimitIsKept` on top of them. For the array of exceptions the
  invariant says that a num is a position unless something renumbered; a deletion by
  numbers is a fold, whose turns are unrolled with what is left of the positions
  (`NumbersAreKept`, `NumbersDelete`).
* `NickRequestsProofs`: every chain, in memory and in the file, holds requests of its
  own bucket, each nick once (`Good`); `TypeCorrect`, `RequestedOnce` for any hash, and
  `ImplementsRequestSet` for hashes without collisions, the very assumption whose
  failure is the finding `requests_lost`.
* `ChannelsProofs`: `ListsAgree` counts how often a channel has a user and a user a
  channel, through deletions of one occurrence at a time and through `delete_user`, which
  walks all of a user's channels. `BotsLeave` and `BotsCome` need to know of every message
  on its way to a bot (`BotTold`, `BotsPlaced`): what the network will make of the queue is
  what services believe. `BotsCome` supposes that services ignore nobody
  (`Ignored = {}`): an ignored user who fills a channel is the exception of section 6.
  `UsersAreKnown` needs to know of every message on its way in both directions (`UInv`):
  whoever is on a channel is about to be kicked or killed, or the last message on its way
  that tells of him there puts him on it, with his status, or there is none and he is on
  the lists already (`Tracked`); an SJOIN of several names users that services know,
  nobody comes after his QUIT, and who is online without a record is being killed.
  `Trusted` are the pairs that services may leave with +o. It supposes that the two
  events of section 6 which services cannot follow, `burst_kill` and `deop_op`, do not
  happen: with either TLC shows that the lists and the network part for good. `deop_op`
  stands for a DEOP or OP of ChanServ that crosses a message which gives or takes status;
  an OP that crosses nothing is tracked like the messages from the other side.
* `ChanServProofs`: `Rest`, `Records` and `Disk`: the invariant has to speak of the
  files, since a restart makes memory of them, possibly of two that were not written
  together. `TypeCorrect`, `RefsAreAlive`, `SuccessorIsAnother`, `LinksAreSound`, and
  the three together as `RecordsAreSound`. `FoundersStay` and `UsedIsKept` about single
  steps. `CountsAreRight` and `LimitIsKept` where both files are written together
  (`Together`: no `partial_save`, which is the finding): `channelcount` is the
  cardinality of the set of channels of a founder, in memory and in the file.
* `PartsLemmas` has an inductive invariant for each of seventeen parts and `PartsProofs` those
  of two more, `Xlines` and `Staff`; it puts them together (a step of one part stutters in
  the others) for the properties of the run:
  * `BytesInOrder`: what is in the ring is the numbers from the next to be read on, at
    positions modulo its size, for any size and any sequence of calls.
  * `EntriesAreOnce`: bad words, autokicks, masks of a nick; memos, whose numbers go up
    in the list also after all have been numbered again; news per type, with the item
    that a new one continues; and AUTOOP: whatever stands in a slot in use was put there
    for the group that has it, since every way to give a slot away clears it first.
  * `CountsAreKept`: `chancount` is the number of channels that name the bot, `opcnt` that of
    users with +o, through mode strings of any length, up to the exceptions of section 6
    (`btParted`, `opDrift`); and `bot_join` lifts the ban that hits the bot, for any list
    of bans.
  * `SettingsAreSound`: the list of vhosts is sorted without duplicates, so that the
    search that stops at the first larger nick finds what is there; groups agree with it
    unless a save ended between two files. A mode lock never demands and forbids
    the same, for mode strings of any length. Kickers and the three flags of protection.
  * `ReportsAreComplete`: an entry that stays was shown once if it stands before the
    number of the last footer and not at all behind it, and a list with a footer is
    longer than a page. Each group has the rows numbered up to what it gave, in the
    order of the table, so that the least place has the least number. The loop that
    counts clones meets users in the order of their times: whoever is still to be
    found of a burst keeps it from stopping.
  * `RecordsAreHeld`: six step properties, of services' records as long as they have them.
    `LockEnforced` needs that the record, also one of a channel that ended, and the lock are
    of their types and the lock is sound (`MlFull`), through mode strings of any length.
    `StuckStays` needs the slots and bans typed and each stuck mask among those that can be
    (`CbFull`); `OnlyInhabitHides` that without a record nobody is on the channel and, unless
    ChanServ holds it open, the network has no ban (`CbQuiet`), so that a ban services do
    not know comes from one of the two cases it names: it was set before there was a
    record, or somebody was kicked by it and it hits the bot.
    `LockedTopicStays` needs only the step itself; `LiftReachesAll` that the modes a DEFCON
    set are remembered. The theorem supposes that no stuck mask hits a bot
    (`CbStuckMasks \cap CbBotMasks = {}`), since a bot lifts the bans on itself.
  * `ListsAreKept`: `slist_pack` moves the entries that stay to where their rank among them
    says (`SlPacks`, an invariant of the walk from the end), so that `DEL` by numbers takes
    exactly the numbers shown. For `AddKeepsProtection` a list has a mask once and fits its
    limit (`XInv`), and the walk of `add_akill` and its siblings keeps `XScanned`: what it has
    deleted so far the new mask covers for as long, what it has not reached is where it
    was, and a list that lost an entry is not full, so that the new one is not refused then.
    For `StaffListed` each nick is at one place of one group and each list has those with the
    flag, once (`StInv`), through regrouping, which deletes a nick and may delete its core,
    and through a restart, which makes the lists again by sorted insertion, in whatever order.
  * `OnlyKnownCausesPart`: from the same two invariants: bans and list agree after every step
    but a crash (`XForce` is kept by each), and the flag of a root agrees with his nicks
    unless a nick of a root leaves a group that goes on (`StMove`).
  * In `PartsLemmas` itself, of the specifications of a single part: `GoodCopyRemains`
    and `StopsAreSaved`: where a save is says which of its files exist (`DbWhere`), a
    backup is made once a day (`DbOneBackup`), without which the second would be written
    over the only good copy, and services that are to stop have a save before them
    (`DbQuitSaves`); `OneKillSetting`, `HiddenStaysHidden`, `AdminsKeepPasswords`, the first of
    which needs that no flag of SET is one of the protection (`NkFlagsAreOthers`) and
    that the defaults are as the example configuration asks.

**Loops.** `FoldLeft` and `FoldSet` are recursive functions, which the provers do not
evaluate for a length they do not know. `FoldExists` shows that the function is
there and `FoldTurns` that its value after k turns is a `Turn` of that after k - 1;
what holds after every number of turns follows from `NatInd`, an induction over a
given set of numbers by its least element (`LeastNat`), because the induction
theorem of the library takes an operator. Each loop is a case of `Turn`, told apart
by a record that names it.

Only model-checked, of the properties of runs:

* all liveness (outside the prover's reach);
* of `parts`: `PartsTypeOK` as a whole; `MatchingSound` (`Masks` is about recursive matching of
  strings, which an induction over data would have to show); the `SavedIsLoaded` of
  `FilesKeep` (reading and writing field by field, the same; its other half is proved);
* `AbsSpec` of runs whose theorem is named above is checked as well as proved.

`SelectSeq`, `SortSeq` and `SubSeq` beyond simple cases cannot be expanded by the
provers; four definitions (`DelNewsitem` of `News`, `DelNumbers` of `Memos`, `RowsOf` of
`History`, the removal of positions in `Sessions`) are therefore folds, sets or orders of
positions that say the same.

## 6. Findings

Confirmed by a run that must fail:

1. `requests_lost`, `nickserv.c` 1537: `delnickrequest` makes what follows the deleted
   request the head of its chain; newer requests of the chain are lost.
2. `sessions_expire`, `sessions.c` 331: expiry does not calculate `num` again, and
   EXCEPTION DEL goes by `num` while LIST shows positions.
3. `chanserv_no_expiry`, `channels.c` 447: the `Channel` of an empty channel is not
   freed any more, so `expire_chans` takes it for used until services restart.

Seen while modelling; each can be reproduced by adding the property named, or the
sequence named, to a configuration of the module:

* `sessions.c` 381: loaded exceptions all have `num` 0, where `services.h` 1182-1185
  says it "is calculated at load time" (`NumIsPosition`, `Allowed` with `reload`).
* `sessions.c` 784: the reply to EXCEPTION MOVE reads the entry after the move, so it
  names another one.
* `users.c` 748: a change of case by an unrecognized user starts a second warning
  timeout; `timeout_collide` of the first forgets both, and the second may outlive
  the alias, against `nickserv.c` 1816 (`NoOrphanTimeout`, `case_change`).
* `nickserv.c` 2114: CONFIRM makes an alias for a nick that was registered or
  forbidden since, which hides the old one (`ForbiddenStays`, `confirm_registered`).
* `nickserv.c` 2120: an operator's CONFIRM for an absent user leaves the alias
  identified for whoever comes next (`IdentifiedIsEarned`, `confirm_offline`).
* `chanserv.c` 957, `main.c` 127: `channelcount` is saved with the nicks and never
  counted again; a save that ends between the files makes it wrong for good
  (`CountsRight`, `partial_save`).
* `chanserv.c` 6528: FCHAN replaces the record before it checks access, and checks that
  of the new record; SCHAN makes a record for an unregistered name (see `FounderStays`).
* `chanserv.c` 2909: `delchan` leaves the address on `founder_chans` of users who
  identified (`NoDanglingIdentify`).
* `chanserv.c` 4570: ADDUSER goes on after "access denied" (`DeniedChangesNothing`);
  4566 and others: commands go on after "not registered" and use a NULL pointer; 4744:
  MODUSER of an absent group adds an uninitialized entry (`NeverCrashes` with
  `not_registered`, `modify_absent`).
* `channels.c` 1038: SJOIN ends at the first user services do not know, the others are
  overlooked (`UsersKnown`, `burst_kill`).
* `channels.c` 1307: when an ignored user brings a channel to BSMinUsers the bot stays
  away, also later (`BotComes` with a user in `Ignored`).
* `channels.c` 447: because a `Channel` is not freed, a channel that ended on the network,
  after ChanServ had left it by PART or a kick, is taken for the old one when it is opened
  again. `check_modes` does not see that the locked modes are missing, against "If creating
  the channel, restore mode lock and topic as necessary" (`channels.c` 1219). The same
  holds for stuck bans and the topic, which only `chan_create` sends; nor does anything
  bring ChanServ back. With `LockRestored` as a property of `ModeLock` TLC finds it in five
  steps: SJOIN, REGISTER, the user leaves, PART of ChanServ, SJOIN.
* `channels.c` 903: a kicked bot comes back whatever the number of users.
* `channels.c`, `chanserv.c` 1796: a user opped by a server without access stays an op
  on the network and is none in services' records; a DEOP that crosses an OP has a
  similar effect (`UsersKnown`, `deop_op`). Whom AUTOOP ops as he joins is an op that
  services do not know (1278; the exception `AutoOption` of `OpsKnown`).

Of the parts checked by `parts`; a property that excepts the case is named where there
is one:

* Lists. `operserv.c` 1874: `expires` 0, never, compares as the earliest, so a covering
  AKILL that expires takes one that does not away, against the comment at 1832
  (`ZeroIsEarliest`). SZLINE ignores the times altogether. Bans set before a crash stay
  on the network without an entry (`OnlyCrashesDiverge`). The flag of a root stays when
  his nick leaves its group (`OnlyLeavingRootsStay`).
* Modes. `services.h` 999: the counter of servers' modes "this second" is only reset by
  the next server MODE, so the war may be seen where there was none. `do_mass_mode`
  stops at the first channel that bounces; RELOAD sets `DefConLevel` and its modes anew
  without lifting the old ones (`config.c` 426, 434; `LiftReachesAll`). +k without a key
  sets the flag with a value nobody knows. `del_ban` puts back only the first stuck
  autokick a removed ban covered (`StuckStays`). A ban set before the name was used,
  while only ChanServ holds the channel, stays unknown, and so does one by which
  somebody is kicked and which hits the bot: `check_kick` (`chanserv.c` 2070-2078) records it
  before it sends it, so that the bot lifts it first (`OnlyInhabitHides`).
* ChanServ. On its last page ACCESS reads up to ten entries past the list (4804), and a
  page without an entry in use has no footer, so what is behind it stays hidden
  (4848, `OnlyBlankPagesHide`). DESC without a text stores a string literal, which the
  next DESC or `delchan` frees (3935, 2933). ONJOIN ADD overwrites the fifth message when
  there is no room. AUTOOP on a join is sent and not recorded (`channels.c` 1272),
  after IDENTIFY recorded and not sent (`nickserv.c` 2503). `save_history` (824): a failed
  delete leaves a row too many for good, a failed query is read through NULL (818), and
  the rows outlive the channel. A founderless channel is deleted at start even if
  it has a successor. The fields a later version added to the channel file are read
  at any version, without a new `CHAN_VERSION`.
* Nicks. `NSDefKillQuick` without `NSDefKill` gives QUICK without protection
  (`config.c` 998; `example.conf` 587 says both are needed, which `NkDefaults` assumes).
  Nick ACCESS ADD compares with `strcmp`, DEL with `stricmp`.
* Memos. All numbers are given anew when the last one overflows, under the feet of who
  has just listed them. STAFF as a services operator
  reaches only the first group (`memoserv.c` 1133 against 279). News:
  `del_newsitem` copies overlapping memory with `memcpy`.
* Bots. Opers are counted twice by a repeated +o (`users.c` 302, `opDrift`). KICK stores
  a time to ban that it refuses. BOT CHANGE to a nick alone is always refused, where
  its help says the rest is optional (`lang/en_us.l` 1895), and it drops a nick without the
  check of `NSSecureAdmins` that ADD makes. `bot_join` lifts another ban than the one
  that matched when two match (`botserv.c` 912; `SmartJoinLifts`).
* Users. `m_kill` returns before "Recover if someone kills us" (`messages.c` 131).
  `check_clones` may free the very user `do_nick` goes on with (`users.c` 694).
  On Bahamut +r stays over a nick change.
* Hosts. Nicks are saved before vhosts, so after a crash a new owner of a nick may find
  an old vhost (`hsParted`). `do_group` reads an ident it has freed (795).
* Ignores. An expired record at the head of the '*' or '?' bucket is unlinked from the
  wrong list (`process.c` 120; the state "corrupt"). A sender who is not online is
  dereferenced as NULL (`operserv.c` 1372-1387).
* Files. `close_db` (`datafiles.c` 283) removes the good copy before what is buffered is
  written, and does not look at `fclose`. A save started by a signal in the middle of
  another removes the only good `.save`. A start without a file begins empty and saves.
  On the first of January `curday` is 0 and no backup is made. QUIT, a bad
  RELOAD and a lost uplink stop without saving. All are exceptions in `OneGoodCopy` and
  `NothingUnsaved`.
* Buffers. `buffered_write` (`sockutil.c` 247) wraps onto an unsent first byte and then
  takes a full ring for an empty one (`bfFilled`).
* Masks. `match_wild` does not find a '?' right behind a '*' (`misc.c` 165, against
  143-146). `isValidHost` accepts "1..2.3" and looks before the start of an empty host.
* Code nobody calls: the kickers of BotServ (`messages.c` 436), AKICK of
  ChanServ, `buffered_read`, `save_data == -2`.

## 7. Not modelled

Passwords and encryption (a command that checks one is the successful call), texts,
notices and languages, logs, statistics, the write-only SQL copies, parsing and
dispatch, the configuration file, proxies, threads and modules (not in the configured
build), half-ops and other ircds' branches (not compiled), BotServ's kickers (never
called), the converter, and commands that only pass something on (RAW, SAY, SVSNICK,
JUPE, GLOBAL) or only store a flag. A signal handler's save is modelled with its
effect on the files; what it reads of a record that the interrupted routine was just
changing has no action boundary these modules could give it. The encoding of
integers and strings in the files is left out, also the fields of files
other than the channels'.

`Hosts` models more than the configured build does. `HAS_VHOST` is not defined for
Bahamut (`services.h` 146-148), so `hostserv` (`hostserv.c` 116-124) answers every command
with SERVICE_OFFLINE: SET, SETALL, DEL, DELALL, GROUP and ON never run there, and what
identifying activates is not compiled either. What remains is reading and writing
the vhost database and deleting entries with their nicks. The behaviours of that
build are among those of the module, so that `OptionsSound` holds for it, but most of what
`VhostsAsGiven` says is about builds that have vhosts.

## 8. Plan

1. Composition of `NickServ` and `ChanServ` through `cs_remove_nick`, replacing the
   abstract groups of `ChanServ`, and with `Staff`, whose `os_remove_nick` is called there too.
2. `ModeLock` with messages in flight, as `Channels` has them, so that `mlStale` becomes
   the difference of two records; and liveness: the fight with a server ends.
3. An abstract specification of `Xlines`, the set of hosts protected until a time, and of
   `Databases`, a cell that keeps one of the last two values.
4. The nick file, as `ChanFile`.

Theorem to add: `PartsTypeOK`, of which the inductive invariants have most conjuncts.
