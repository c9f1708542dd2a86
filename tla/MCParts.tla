------------------------------- MODULE MCParts -------------------------------
(***************************************************************************)
(* TLC instances of the parts of services that share no state with the     *)
(* others the models tell apart: a behaviour is one of one part, chosen    *)
(* in the first state, and the rest of the parts keep one of their initial *)
(* states.  Each disjunct of PartsNext is a part; the properties are those *)
(* of the parts, put together by what they are about.                      *)
(***************************************************************************)
EXTENDS Xlines, Staff, News, Ignores, Clones, Opers, ModeLock, DefCon,
        ChanBans, ChanTopics, AccessPages, ChanNotes, Memos, Hosts,
        NickOptions, History, Masks, Bots, BotSettings, Databases, Buffers,
        ChanFile, TLC

CONSTANT Parts          \* the parts whose behaviours are checked

VARIABLE part           \* the one whose behaviour this is

-----------------------------------------------------------------------------
(* Instances.                                                              *)

\* "ab" covers "a": it hits two targets; "ch" is a mask of channels.
XHitsDef == ("a" :> {"t1"}) @@ ("ab" :> {"t1", "t2"}) @@ ("ch" :> {"tc"})

\* The root, a nick that ranks below it and one that ranks above.
StRankDef == ("root" :> 2) @@ ("n1" :> 1) @@ ("n2" :> 3)

IgHitsDef == ("a1" :> {"n1"}) @@ ("a2" :> {"n1", "n2"}) @@ ("q" :> {"n1"})

DcOrderDef == <<"a", "b">>

\* A ban for each user, and one that hits both.
CbHitsDef == ("ma" :> {"ua"}) @@ ("mb" :> {"ub"}) @@ ("w" :> {"ua", "ub"})
CbIdealDef == ("ua" :> "ma") @@ ("ub" :> "mb")

CnLevelDef == ("p" :> {"o", "v"}) @@ ("q" :> {"v"})

NkFoldDef(m) == IF m = "A" THEN "a" ELSE m

\* Channel 1 has users enough for a bot, channel 2 is empty.
BtUsersDef == (1 :> 2) @@ (2 :> 0)
BtHitsDef(m, b) == m[1] = b \/ m[1] = "any"
BtBansDef ==
    {<<>>} \cup {<<x>> : x \in {<<"q", 1>>, <<"any", 1>>}}
    \cup {<<x, y>> : x, y \in {<<"p", 1>>, <<"q", 1>>, <<"z", 1>>}}

OpModesDef == {<<"+", "o">>, <<"-", "o">>, <<"+", "r">>, <<"+", "r", "-", "o">>}

\* Users with and without ident, and hosts that are names of one to three
\* parts, addresses, and what only looks like one.
MkUsersDef ==
    [nick : {<<"n">>},
     username : {<<"a">>, <<"~", "a">>, <<"a", "b", "a">>, <<"~", "a", "b">>},
     host : {<<"a">>, <<"a", ".", "b">>, <<"a", ".", "b", ".", "c">>,
             <<"1", ".", "1", "1", ".", "1", ".", "1">>,
             <<"1", ".", "1", ".", "1", ".", "1", ".", "1">>,
             <<"1", ".", "1", ".", "1">>}]

\* A channel with everything, one that has lost some, and a forbidden one.
CfRecordsDef ==
    {[founder |-> "c1", successor |-> "c2", access |-> <<"c2", CfNone, "c1">>,
      akick |-> <<>>, bi |-> CfNone, verboten |-> 0, words |-> <<1, CfNone>>],
     [founder |-> "c2", successor |-> CfNone, access |-> <<>>,
      akick |-> <<"c1", CfNone>>, bi |-> "bot", verboten |-> 0, words |-> <<>>],
     [founder |-> CfNone, successor |-> CfNone, access |-> <<>>, akick |-> <<>>,
      bi |-> CfNone, verboten |-> 1, words |-> <<>>]}

DcResting == dcConf = {"i"} /\ \A c \in DcChannels : dcChan[c].off = {}

-----------------------------------------------------------------------------
(* One part at a time.                                                     *)

ListVars == <<xlineVars, staffVars, nwVars, igVars, clVars, opVars>>
ChanVars == <<mlVars, dcVars, cbVars, ctVars, apVars, cnVars>>
NickVars == <<mmVars, hsVars, nkVars, hyVars, mkVars>>
BotVars == <<btVars, bxVars>>
DiskVars == <<dbVars, bfVars, cfVars>>
allVars == <<part, ListVars, ChanVars, NickVars, BotVars, DiskVars>>

PartsInit ==
    /\ part \in Parts
    /\ XlineInit /\ (part # "xlines" => xKind = "akill")
    /\ StaffInit
    /\ NewsInit
    /\ IgnoresInit
    /\ ClonesInit
    /\ OpersInit
    /\ ModeLockInit
    /\ DefConInit /\ (part # "defcon" => DcResting)
    /\ ChanBansInit /\ (part # "bans" => cbAkick = << >> /\ ~cbBot)
    /\ ChanTopicsInit /\ (part # "topics" => ~ctKeep)
    /\ AccessPagesInit
    /\ ChanNotesInit
    /\ MemosInit /\ (part # "memos" => mmNotify = {})
    /\ HostsInit
    /\ NickOptionsInit
    /\ HistoryInit
    /\ MasksInit /\ (part # "masks" => mkUser = MkNoUser)
    /\ BotsInit
    /\ BotSettingsInit /\ (part # "botsettings" => bxKicker = "plain")
    /\ DatabasesInit /\ (part # "databases" => dbDay = 0)
    /\ BuffersInit /\ (part # "buffers" => bfKind = "read")
    /\ ChanFileInit

PartsNext ==
    \/ part = "xlines" /\ XlineNext
          /\ UNCHANGED <<part, staffVars, nwVars, igVars, clVars, opVars,
                         ChanVars, NickVars, BotVars, DiskVars>>
    \/ part = "staff" /\ StaffNext
          /\ UNCHANGED <<part, xlineVars, nwVars, igVars, clVars, opVars,
                         ChanVars, NickVars, BotVars, DiskVars>>
    \/ part = "news" /\ NewsNext
          /\ UNCHANGED <<part, xlineVars, staffVars, igVars, clVars, opVars,
                         ChanVars, NickVars, BotVars, DiskVars>>
    \/ part = "ignores" /\ IgnoresNext
          /\ UNCHANGED <<part, xlineVars, staffVars, nwVars, clVars, opVars,
                         ChanVars, NickVars, BotVars, DiskVars>>
    \/ part = "clones" /\ ClonesNext
          /\ UNCHANGED <<part, xlineVars, staffVars, nwVars, igVars, opVars,
                         ChanVars, NickVars, BotVars, DiskVars>>
    \/ part = "opers" /\ OpersNext
          /\ UNCHANGED <<part, xlineVars, staffVars, nwVars, igVars, clVars,
                         ChanVars, NickVars, BotVars, DiskVars>>
    \/ part = "modelock" /\ ModeLockNext
          /\ UNCHANGED <<part, dcVars, cbVars, ctVars, apVars, cnVars,
                         ListVars, NickVars, BotVars, DiskVars>>
    \/ part = "defcon" /\ DefConNext
          /\ UNCHANGED <<part, mlVars, cbVars, ctVars, apVars, cnVars,
                         ListVars, NickVars, BotVars, DiskVars>>
    \/ part = "bans" /\ ChanBansNext
          /\ UNCHANGED <<part, mlVars, dcVars, ctVars, apVars, cnVars,
                         ListVars, NickVars, BotVars, DiskVars>>
    \/ part = "topics" /\ ChanTopicsNext
          /\ UNCHANGED <<part, mlVars, dcVars, cbVars, apVars, cnVars,
                         ListVars, NickVars, BotVars, DiskVars>>
    \/ part = "pages" /\ AccessPagesNext
          /\ UNCHANGED <<part, mlVars, dcVars, cbVars, ctVars, cnVars,
                         ListVars, NickVars, BotVars, DiskVars>>
    \/ part = "notes" /\ ChanNotesNext
          /\ UNCHANGED <<part, mlVars, dcVars, cbVars, ctVars, apVars,
                         ListVars, NickVars, BotVars, DiskVars>>
    \/ part = "memos" /\ MemosNext
          /\ UNCHANGED <<part, hsVars, nkVars, hyVars, mkVars, ListVars,
                         ChanVars, BotVars, DiskVars>>
    \/ part = "hosts" /\ HostsNext
          /\ UNCHANGED <<part, mmVars, nkVars, hyVars, mkVars, ListVars,
                         ChanVars, BotVars, DiskVars>>
    \/ part = "options" /\ NickOptionsNext
          /\ UNCHANGED <<part, mmVars, hsVars, hyVars, mkVars, ListVars,
                         ChanVars, BotVars, DiskVars>>
    \/ part = "history" /\ HistoryNext
          /\ UNCHANGED <<part, mmVars, hsVars, nkVars, mkVars, ListVars,
                         ChanVars, BotVars, DiskVars>>
    \/ part = "masks" /\ Lengthen
          /\ UNCHANGED <<part, mmVars, hsVars, nkVars, hyVars, ListVars,
                         ChanVars, BotVars, DiskVars>>
    \/ part = "bots" /\ BotsNext
          /\ UNCHANGED <<part, bxVars, ListVars, ChanVars, NickVars,
                         DiskVars>>
    \/ part = "botsettings" /\ BotSettingsNext
          /\ UNCHANGED <<part, btVars, ListVars, ChanVars, NickVars,
                         DiskVars>>
    \/ part = "databases" /\ DatabasesNext
          /\ UNCHANGED <<part, bfVars, cfVars, ListVars, ChanVars, NickVars,
                         BotVars>>
    \/ part = "buffers" /\ BuffersNext
          /\ UNCHANGED <<part, dbVars, cfVars, ListVars, ChanVars, NickVars,
                         BotVars>>
    \/ part = "chanfile" /\ ChanFileNext
          /\ UNCHANGED <<part, dbVars, bfVars, ListVars, ChanVars, NickVars,
                         BotVars>>

PartsSpec == PartsInit /\ [][PartsNext]_allVars

-----------------------------------------------------------------------------
(* Bounds: the states from which a part does not go on.  An answer of INFO  *)
(* is forgotten by whatever happens next; pairs of settings that no         *)
(* operation reads together are not combined, nor a level that denies new   *)
(* mode locks with a channel in use, nor the counters of a war with a       *)
(* channel that was opened again; and the properties promise little         *)
(* after a channel was given up as bouncing, the files have parted or the   *)
(* count of opers has drifted.                                              *)

PartsBounds ==
    /\ part = "options" => /\ nkShown = NkNothing
                           /\ \/ \A c \in NkCore : nkAccess[c] = << >>
                              \/ \A c \in NkCore : nkFlags[c] = NkDefFlags
    /\ part = "memos" => mmNotify = {} \/ mmMemos = << >>
    /\ part = "notes" => cnAccess = << >> \/ \A i \in 1..CnSlots : cnEntry[i] = CnNone
    /\ part = "botsettings" => bxWords = << >> \/ (~bxKick.on /\ bxKick.ttb = 0)
    /\ part = "bots" => ~btParted
    /\ part = "hosts" => ~hsParted
    /\ part = "modelock" /\ mlChan # MlNone =>
          /\ ~mlNoChange /\ ~mlChan.bouncy
          /\ mlStale = {} \/ (mlChan.sc = 0 /\ mlChan.cc < MlBounce)
    /\ part = "opers" => ~opDrift

-----------------------------------------------------------------------------
(* Safety.                                                                 *)

\* Every part keeps its state in its types.
PartsTypeOK ==
    /\ part = "xlines" => XlineTypeOK
    /\ part = "staff" => StaffTypeOK
    /\ part = "news" => NewsTypeOK
    /\ part = "ignores" => IgnoresTypeOK
    /\ part = "clones" => ClonesTypeOK
    /\ part = "opers" => OpersTypeOK
    /\ part = "modelock" => ModeLockTypeOK
    /\ part = "defcon" => DefConTypeOK
    /\ part = "bans" => ChanBansTypeOK
    /\ part = "topics" => ChanTopicsTypeOK
    /\ part = "pages" => AccessPagesTypeOK
    /\ part = "notes" => ChanNotesTypeOK
    /\ part = "memos" => MemosTypeOK
    /\ part = "hosts" => HostsTypeOK
    /\ part = "options" => NickOptionsTypeOK
    /\ part = "history" => HistoryTypeOK
    /\ part = "masks" => MasksTypeOK
    /\ part = "bots" => BotsTypeOK
    /\ part = "botsettings" => BotSettingsTypeOK
    /\ part = "databases" => DatabasesTypeOK
    /\ part = "buffers" => BuffersTypeOK
    /\ part = "chanfile" => ChanFileTypeOK

\* The AKILL and S*LINE lists keep everybody out as long as they promise,
\* whatever is added (the comment at operserv.c:1832), and DEL by numbers, which
\* takes entries out of the middle of an array (slist_delete_range), removes
\* those that LIST showed; the staff lists and the flags of the cores agree,
\* whatever becomes of the cores (os_remove_nick).
ListsKept ==
    /\ part = "xlines" => AddKeepsProtection /\ DelMatchesList
    /\ part = "staff" => StaffListed

\* Two states part for known reasons alone: the network's bans and the lists,
\* when services crash; and the flag of a root and his nick, when that nick
\* left a group that goes on.
OnlyKnownCauses == OnlyCrashesDiverge /\ OnlyLeavingRootsStay

\* Whatever servers, users and founders do in whatever order, services' records
\* of channels keep what channels are held to, also when everybody has left and
\* somebody comes back: locked modes are put back (check_modes), stuck masks
\* stay banned (del_ban), services know the network's bans but for the two cases
\* OnlyInhabitHides names, a locked topic stays (do_topic), and the modes of a
\* DEFCON go with it (do_mass_mode).  MemoServ's CANCEL takes only the sender's
\* own unread memo.
RecordsHold ==
    /\ LockEnforced /\ StuckStays /\ OnlyInhabitHides /\ LockedTopicStays
    /\ LiftReachesAll /\ CancelsOwnUnread

\* A list has one entry for what it is about, and a number or a slot means
\* one entry: autokicks, bad words, memos after their numbers overflow, news
\* numbered per type, masks on the access list of a nick, AUTOOP of an entry
\* of an access list whose slot another group had.
EntriesOnce ==
    /\ part = "bans" => AkicksUnique
    /\ part = "botsettings" => BadwordsUnique
    /\ part = "memos" => NumbersGoUp
    /\ part = "news" => DelRemovesOne
    /\ part = "options" => NickAccessSound
    /\ part = "notes" => AutoopOwn

\* Matching and looking up find what is there: wildcard masks (match_wild),
\* the masks that services make for users, masks split in three, and ignores
\* in their three buckets, also while expired ones are dropped on the way.
MatchingSound ==
    /\ part = "masks" => MatchAgrees /\ MasksFit /\ SplitSound
    /\ part = "ignores" => BucketsSound /\ HeardOnlyWhileFlushing

\* What was saved is not lost: a kill at any step leaves a good copy of the
\* database, stopping saves it, and the channel file is read as it was
\* written or not at all, wherever a write ended.
FilesKeep ==
    /\ part = "databases" => OneGoodCopy /\ NothingUnsaved
    /\ part = "chanfile" => SavedIsLoaded

\* The counters that are kept beside the lists agree with them: channels of
\* a bot, opers and users.  A bot that joins lifts the ban that hits it, which
\* depends on no variable and is looked at before there is a bot.
CountsKept ==
    /\ part = "bots" => BotsCounted
    /\ part = "opers" => OpersCounted
    /\ part = "bots" /\ DOMAIN btBots = {} => SmartJoinLifts

\* What has happened is reported whole: pages of an access list, the last
\* commands of a group, bursts of clones.
ReportsComplete ==
    /\ part = "pages" => OnlyBlankPagesHide
    /\ part = "history" => LastCommandsKept
    /\ part = "clones" => BurstsReported

\* Settings are what was asked for and never contradict each other: vhosts,
\* also of nicks that came into a group or out of it, the protection of a
\* nick, hidden data, passwords of admins, numbers of kickers, modes of a lock.
OptionsSound ==
    /\ part = "hosts" => VhostsAsGiven
    /\ part = "options" => KillSettingSound /\ HiddenFromOthers /\ AdminPasswordsOwn
    /\ part = "botsettings" => KickersWork
    /\ part = "modelock" => LockSound
===============================================================================
