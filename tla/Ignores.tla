-------------------------------- MODULE Ignores --------------------------------
(***************************************************************************)
(* Whom services do not listen to (src/process.c, IGNORE of                *)
(* src/operserv.c): records of a nick or a mask and a time, in lists       *)
(* hashed by the first character.  Masks are found in the lists of '*' and *)
(* '?', and a record whose time has passed is dropped when it is found.    *)
(*                                                                         *)
(* get_ignore() takes a dropped record that was the first of the '*' or    *)
(* '?' list out of the list of the nick instead, and cannot match masks    *)
(* for a nick that is not online: igState says when that has happened, and *)
(* the behaviour stops there, as what services do next is undefined.       *)
(***************************************************************************)
EXTENDS Naturals, Sequences, FiniteSets, SequencesExt

CONSTANTS
    IgNick,         \* nicks, which share a first character
    IgAst, IgQst,   \* masks that begin with * and with ?
    IgHits,         \* the nicks whose users each mask matches
    IgTimes,        \* what IGNORE ADD may ask for; 0 is five years
    IgForever       \* five years, as many steps of the clock: a bound

IgMask == IgAst \cup IgQst
ASSUME IgHitsAssumption == IgHits \in [IgMask -> SUBSET IgNick]
ASSUME IgForeverAssumption == IgForever \in Nat \ {0}

VARIABLES
    ignore,         \* ignore[]: the lists of the three first characters
    allow_ignore,
    igState         \* "runs", "corrupt" or "crashed"

igVars == <<ignore, allow_ignore, igState>>

Buckets == {"nick", "*", "?"}
BucketOf(who) == IF who \in IgAst THEN "*" ELSE IF who \in IgQst THEN "?" ELSE "nick"

\* The time is what is left of it, 0 when it has passed.
IgnoreData == [who: IgNick \cup IgMask, time: 0..IgForever]

IgnoresTypeOK ==
    /\ ignore \in [Buckets -> Seq(IgnoreData)]
    /\ allow_ignore \in BOOLEAN
    /\ igState \in {"runs", "corrupt", "crashed"}

IgnoresInit ==
    /\ ignore = [b \in Buckets |-> <<>>]
    /\ allow_ignore = TRUE /\ igState = "runs"

I == [lists |-> ignore, state |-> igState]
IgBecomes(S) ==
    /\ ignore' = S.lists /\ igState' = S.state
    /\ UNCHANGED allow_ignore

-----------------------------------------------------------------------------
(* The records.                                                            *)

\* A walk along a list: up to the first of the records for one of them, or 0.
FirstIn(list, masks) ==
    LET F == {i \in DOMAIN list : list[i].who \in masks}
    IN  IF F = {} THEN 0 ELSE CHOOSE i \in F : \A j \in F : i <= j

\* add_ignore(): a record that still runs is extended, one that does not
\* starts again.
AddIgnore(S, who, delta) ==
    LET b == BucketOf(who)
        i == FirstIn(S.lists[b], {who})
    IN  IF i = 0 THEN [S EXCEPT !.lists[b] = <<[who |-> who, time |-> delta]>> \o @]
        ELSE [S EXCEPT !.lists[b][i].time =
                 IF @ + delta > IgForever THEN IgForever ELSE @ + delta]

\* Where get_ignore() stops: at the record of the nick, or at the first mask
\* of '*', or else of '?', that matches.
FindIgnore(S, nick) ==
    LET own == FirstIn(S.lists["nick"], {nick})
        Match(b) == FirstIn(S.lists[b], {m \in IgMask : nick \in IgHits[m]})
    IN  IF own # 0 THEN [list |-> "nick", at |-> own]
        ELSE IF Match("*") # 0 THEN [list |-> "*", at |-> Match("*")]
        ELSE [list |-> "?", at |-> Match("?")]

FlushIgnore(S, f) ==
    IF f.list # "nick" /\ f.at = 1 THEN [S EXCEPT !.state = "corrupt"]
    ELSE [S EXCEPT !.lists[f.list] = RemoveAt(@, f.at)]

\* get_ignore(): whether there is a record, and what becomes of the lists.
GetIgnore(S, nick, online) ==
    LET f == FindIgnore(S, nick) IN
    IF ~online /\ f.list # "nick" /\ S.lists["*"] \o S.lists["?"] # <<>>
    THEN [S |-> [S EXCEPT !.state = "crashed"], ignored |-> FALSE]
    ELSE IF f.at = 0 THEN [S |-> S, ignored |-> FALSE]
    ELSE IF S.lists[f.list][f.at].time = 0 THEN [S |-> FlushIgnore(S, f), ignored |-> FALSE]
    ELSE [S |-> S, ignored |-> TRUE]

\* delete_ignore() expects the nick's own record.
DeleteIgnore(S, who) ==
    LET b == BucketOf(who)
        i == FirstIn(S.lists[b], {who})
    IN  IF i = 0 THEN [S EXCEPT !.state = "crashed"]
        ELSE [S EXCEPT !.lists[b] = RemoveAt(@, i)]

-----------------------------------------------------------------------------
(* Commands and messages.                                                  *)

\* IGNORE ADD of an oper.
IgnoreAdd(who, t) == IgBecomes(AddIgnore(I, who, IF t = 0 THEN IgForever ELSE t))

\* IGNORE DEL of a nick.
IgnoreDel(nick, online) ==
    LET R == GetIgnore(I, nick, online)
    IN  IgBecomes(IF R.ignored THEN DeleteIgnore(R.S, nick) ELSE R.S)

\* IGNORE CLEAR.
IgnoreClear == IgBecomes([I EXCEPT !.lists = [b \in Buckets |-> <<>>]])

\* IGNORE LIST.
Records(lists) == UNION {{lists[b][i] : i \in DOMAIN lists[b]} : b \in Buckets}
IgnoreList == Records(ignore)

\* SET IGNORE of OperServ.
SetIgnore == allow_ignore' = ~allow_ignore /\ UNCHANGED <<ignore, igState>>

\* m_privmsg(): a service obeys a user who is no oper, and ignores the user
\* for as long as the command took.
Obeys(nick, R, took) ==
    IF R.ignored \/ R.S.state # "runs" \/ took = 0 THEN R.S ELSE AddIgnore(R.S, nick, took)

MPrivmsg(nick, took) == allow_ignore /\ IgBecomes(Obeys(nick, GetIgnore(I, nick, TRUE), took))

\* m_cs() and m_ns(), the same for commands of their own.
MCs(nick, took) == MPrivmsg(nick, took)
MNs(nick, took) == MPrivmsg(nick, took)

\* A memo for a nick that is registered, whether or not it is online.
MemoNotice(nick, online) == IgBecomes(GetIgnore(I, nick, online).S)

IgTick ==
    /\ ignore' = [b \in Buckets |-> [i \in DOMAIN ignore[b] |->
                     [ignore[b][i] EXCEPT !.time = IF @ = 0 THEN 0 ELSE @ - 1]]]
    /\ UNCHANGED <<allow_ignore, igState>>

IgnoresNext ==
    /\ igState = "runs"
    /\ \/ \E who \in IgNick \cup IgMask, t \in IgTimes : IgnoreAdd(who, t)
       \/ \E n \in IgNick, online \in BOOLEAN : IgnoreDel(n, online) \/ MemoNotice(n, online)
       \/ \E n \in IgNick, took \in {0, 1} : MPrivmsg(n, took) \/ MCs(n, took) \/ MNs(n, took)
       \/ IgnoreClear \/ SetIgnore \/ IgTick

IgnoresSpec == IgnoresInit /\ [][IgnoresNext]_igVars
-----------------------------------------------------------------------------
(* Safety.                                                                 *)

\* add_ignore() and get_ignore() agree on where a record is: in the list of
\* its first character, once.
BucketsSound ==
    igState = "runs" =>
        \A b \in Buckets : \A i, j \in DOMAIN ignore[b] :
            /\ BucketOf(ignore[b][i].who) = b
            /\ ignore[b][i].who = ignore[b][j].who => i = j

\* A record that has not passed says that the nick is to be ignored.
ToIgnore(nick) ==
    \E r \in IgnoreList : r.time > 0 /\ (r.who = nick \/ (r.who \in IgMask /\ nick \in IgHits[r.who]))

\* A user who is to be ignored is heard although only when a record that has
\* passed was found first, and that one is dropped: not again and again.
HeardOnlyWhileFlushing ==
    igState = "runs" =>
        \A n \in IgNick :
            LET R == GetIgnore(I, n, TRUE) IN
            (ToIgnore(n) /\ ~R.ignored /\ R.S.state = "runs") =>
                Records(R.S.lists) # Records(ignore) /\ Records(R.S.lists) \subseteq Records(ignore)
================================================================================
