--------------------------------- MODULE ChanFile ---------------------------------
(***************************************************************************)
(* The file of the channels (src/chanserv.c): save_cs_dbase() writes a     *)
(* record field by field, load_cs_dbase() reads it back by a list of its   *)
(* own, looks the names in it up among the nicks and bots that have been   *)
(* loaded, and drops what it does not find.                                *)
(*                                                                         *)
(* A field is its type (1, 2, 4: integers; S: a string of any length, B:   *)
(* one of fixed length) and a value; values no property tells apart are 0. *)
(***************************************************************************)
EXTENDS Naturals, Sequences, FiniteSets, SequencesExt, Folds

CONSTANTS
    CfCores,        \* groups of nicks, by display
    CfBots,         \* bots
    CfNone,         \* nothing: NULL, a slot that is not used
    CfRecords,      \* the channels there may be
    CfCuts,         \* how many fields a torn file may have
    CA_SIZE, TTB_SIZE,
    CHAN_VERSION    \* 16

Lists == 1..2       \* the lists of the hash table, a channel at most in each

VARIABLES
    cfChans,        \* the channels in memory, by list
    cfKnown,        \* the groups and bots in the other files
    cfFile,         \* the file
    cfSaved,        \* the channels when it was written
    cfState         \* running, loaded, or gone because the file was torn

cfVars == <<cfChans, cfKnown, cfFile, cfSaved, cfState>>

ASSUME ChanFileConstants ==
    /\ CA_SIZE \in Nat /\ TTB_SIZE \in Nat /\ CHAN_VERSION \in Nat /\ CfCuts \subseteq Nat

CfSlot == CfCores \cup {CfNone}
CfTypes == {"1", "2", "4", "S", "B", "EOF"}

ChanFileTypeOK ==
    /\ DOMAIN cfChans \subseteq Lists /\ DOMAIN cfSaved \subseteq Lists
    /\ \A l \in DOMAIN cfChans :
         /\ cfChans[l].founder \in CfSlot /\ cfChans[l].successor \in CfSlot
         /\ cfChans[l].access \in Seq(CfSlot) /\ cfChans[l].akick \in Seq(CfSlot)
         /\ cfChans[l].bi \in CfBots \cup {CfNone} /\ cfChans[l].verboten \in 0..1
    /\ \A i \in DOMAIN cfFile : cfFile[i].t \in CfTypes
    /\ cfState \in {"running", "loaded", "gone"}

ChanFileInit ==
    /\ cfChans = << >> /\ cfSaved = << >> /\ cfFile = <<>>
    /\ cfKnown = CfCores \cup CfBots /\ cfState = "running"
-----------------------------------------------------------------------------
(* Writing.                                                                *)

Plain(types) == [i \in DOMAIN types |-> [t |-> types[i], v |-> 0]]
Field(type, v) == <<[t |-> type, v |-> v]>>
Times(n, types) == FlattenSeq([i \in 1..n |-> types])

\* An array: its length, and for each slot whether it is in use and, if so,
\* its name between the fields before and after.
WriteArray(slots, before, after) ==
    Field("2", Len(slots)) \o
    FlattenSeq([i \in DOMAIN slots |->
        IF slots[i] = CfNone THEN Field("2", 0)
        ELSE Field("2", 1) \o Plain(before) \o Field("S", slots[i]) \o Plain(after)])

\* Level, name, comment, auto_option and last_seen.
WriteAccess(slots) == WriteArray(slots, <<"2">>, <<"S", "S", "4">>)

\* Nick or mask, reason, creator and time; all the entries here are nicks.
WriteAkick(slots) == WriteArray(slots, <<>>, <<"S", "S", "4">>)

WriteMemos == Plain(<<"2", "2">>)

WriteBotServ(ci) ==
    Field("S", ci.bi) \o Plain(<<"4">>)
    \o Field("2", TTB_SIZE) \o Plain(Times(TTB_SIZE, <<"2">>))
    \o Plain(Times(5, <<"2">>)) \o WriteArray(ci.words, <<>>, <<"2">>)

\* One record of save_cs_dbase().
WriteChannel(ci) ==
    Plain(<<"B">>) \o Field("S", ci.founder) \o Field("S", ci.successor)
    \o Plain(<<"B", "S", "S", "S", "4", "4", "S", "B", "4">>) \o Field("4", ci.verboten)
    \o Plain(<<"S", "S", "2">>)
    \o Field("2", CA_SIZE) \o Plain(Times(CA_SIZE, <<"2">>))
    \o WriteAccess(ci.access) \o WriteAkick(ci.akick)
    \o Plain(<<"4", "4", "4", "S", "S", "S">>) \o WriteMemos
    \o Plain(Times(5, <<"S">>)) \o WriteBotServ(ci)

\* save_cs_dbase(): a 1 before each record, a 0 after each list.
WriteAll(chans) ==
    FlattenSeq([l \in Lists |->
        (IF l \in DOMAIN chans THEN Field("1", 1) \o WriteChannel(chans[l]) ELSE <<>>)
            \o Field("1", 0)])
-----------------------------------------------------------------------------
(* Reading: R has the fields that are left, the value read last, whether   *)
(* one could not be read, and the channel as far as it has been read.      *)

Read(R, types) ==
    LET n == Len(types) IN
    IF n <= Len(R.in) /\ \A i \in 1..n : R.in[i].t = types[i]
    THEN [R EXCEPT !.in = SubSeq(@, n + 1, Len(@)), !.v = IF n = 0 THEN @ ELSE R.in[n].v]
    ELSE [R EXCEPT !.in = <<>>, !.v = 0, !.failed = TRUE]

\* The name of a group or of a bot, looked up.
ReadCore(R, known) ==
    LET S == Read(R, <<"S">>)
    IN  [S EXCEPT !.v = IF S.failed \/ S.v \notin known THEN CfNone ELSE S.v]

\* What load_cs_dbase() does is a list of steps: to skip fields, to keep one
\* or a name, to skip as many as are counted, to read an array of names, or
\* the bad words.
Step(op, to, types, after) == <<[op |-> op, to |-> to, types |-> types, after |-> after]>>
Skip(types) == Step("skip", "", types, <<>>)
Name(to) == Step("name", to, <<>>, <<>>)

\* The founder and successor, up to the levels.
ReadHead(ver) ==
    Skip(<<"B">>) \o Name("founder") \o (IF ver >= 7 THEN Name("successor") ELSE <<>>)
    \o Skip(<<"B", "S", "S", "S", "4", "4", "S", "B", "4">>) \o Step("keep", "verboten", <<"4">>, <<>>)
    \o Skip(IF ver >= 9 THEN <<"S", "S", "2">> ELSE <<>>) \o Step("many", "", <<"2">>, <<>>)

\* The lists: the two fields an access entry got last are read at any version
\* from 11 on.
ReadAccess(ver) == Step("array", "access", <<"2">>, IF ver >= 11 THEN <<"S", "S", "4">> ELSE <<"S", "S">>)
ReadAkick(ver) == Step("array", "akick", IF ver >= 15 THEN <<>> ELSE <<"2">>,
                       IF ver >= 9 THEN <<"S", "S", "4">> ELSE <<"S">>)

\* Mode lock, memos, entry messages.
ReadMlock(ver) ==
    Skip((IF ver >= 10 THEN <<"4", "4">> ELSE <<"2", "2">>) \o <<"4", "S">>
            \o (IF ver >= 10 THEN <<"S", "S">> ELSE <<>>))
ReadMemos == Skip(<<"2", "2">>)

\* The bot, its kickers and bad words.
ReadBotServ(ver) ==
    IF ver < 8 THEN <<>>
    ELSE Name("bi") \o Skip(<<"4">>) \o Step("many", "", <<"2">>, <<>>)
         \o Skip(Times(5, <<"2">>)) \o Step("words", "words", <<"S", "2">>, <<>>)

\* The slots of an array: those whose name is not found are not in use.
ReadSlot(R, step, known) ==
    LET used == Read(R, <<"2">>)
        nc == IF step.op = "words" THEN [Read(used, step.types) EXCEPT !.v = 1]
              ELSE ReadCore(Read(used, step.types), known)
    IN  IF used.v = 0 THEN [used EXCEPT !.ci[step.to] = Append(@, CfNone)]
        ELSE Read([nc EXCEPT !.ci[step.to] = Append(@, nc.v)], step.after)

ReadStep(R, step, known) ==
    LET Keep(S) == [S EXCEPT !.ci[step.to] = S.v]
        n == Read(R, <<"2">>)
    IN  CASE step.op = "skip" -> Read(R, step.types)
          [] step.op = "name" -> Keep(ReadCore(R, known))
          [] step.op = "keep" -> Keep(Read(R, step.types))
          [] step.op = "many" -> Read(n, Times(n.v, step.types))
          [] OTHER -> FoldLeft(LAMBDA S, i : ReadSlot(S, step, known), n, [i \in 1..n.v |-> i])

\* "Founder must be != than successor", in old files.
Cleaned(ci, ver) ==
    IF ver <= 11 /\ ci.verboten = 0 /\ ci.successor = ci.founder
    THEN [ci EXCEPT !.successor = CfNone] ELSE ci

NoChannel == [founder |-> CfNone, successor |-> CfNone, verboten |-> 0, access |-> <<>>,
              akick |-> <<>>, bi |-> CfNone, words |-> <<>>]

ReadChannel(R, ver, known) ==
    LET steps == ReadHead(ver) \o ReadAccess(ver) \o ReadAkick(ver) \o ReadMlock(ver)
                 \o ReadMemos \o Skip(Times(5, <<"S">>)) \o ReadBotServ(ver)
        done == FoldLeft(LAMBDA S, step : ReadStep(S, step, known), [R EXCEPT !.ci = NoChannel], steps)
    IN  [done EXCEPT !.ci = Cleaned(@, ver)]

\* load_cs_dbase() up to the end of the file.  What cannot be read is fatal,
\* with -forceload too: the mark after it is neither 1 nor 0.
ReadChannels(file, ver, known) ==
    LET One(S, l) ==
            LET mark == Read(S.r, <<"1">>)
                c == ReadChannel(mark, ver, known)
            IN  IF mark.failed \/ mark.v = 0 THEN [S EXCEPT !.r = mark]
                ELSE [r |-> Read(c, <<"1">>),
                      chans |-> [k \in DOMAIN S.chans \cup {l} |-> IF k = l THEN c.ci ELSE S.chans[k]]]
    IN  FoldLeft(One, [r |-> [in |-> file, v |-> 0, failed |-> FALSE, ci |-> NoChannel],
                       chans |-> << >>], [l \in Lists |-> l])

\* Then channels without a founder are deleted, unless they are forbidden;
\* a successor does not help them.
DropFounderless(chans) ==
    [l \in {k \in DOMAIN chans : chans[k].verboten = 1 \/ chans[k].founder # CfNone} |-> chans[l]]
-----------------------------------------------------------------------------
(* Steps.                                                                  *)

\* A channel is what the commands made of it, one after the other.
CfMake(l, ci) ==
    /\ cfState = "running" /\ l \notin DOMAIN cfChans
    /\ cfChans' = [k \in DOMAIN cfChans \cup {l} |-> IF k = l THEN ci ELSE cfChans[k]]
    /\ UNCHANGED <<cfKnown, cfFile, cfSaved, cfState>>

SaveCsDbase ==
    /\ cfState = "running"
    /\ cfFile' = WriteAll(cfChans) /\ cfSaved' = cfChans
    /\ UNCHANGED <<cfChans, cfKnown, cfState>>

\* A crash, after which the files of the nicks and bots may lack some that
\* the file of the channels has.
LoadCsDbase(known) ==
    /\ cfState = "running" /\ cfFile # <<>>
    /\ LET L == ReadChannels(cfFile, CHAN_VERSION, known) IN
       /\ cfChans' = IF L.r.failed THEN << >> ELSE DropFounderless(L.chans)
       /\ cfState' = IF L.r.failed THEN "gone" ELSE "loaded"
    /\ cfKnown' = known
    /\ UNCHANGED <<cfFile, cfSaved>>

\* The file loses its end.
Tear(n) ==
    /\ cfState = "running" /\ n < Len(cfFile)
    /\ cfFile' = SubSeq(cfFile, 1, n) /\ UNCHANGED <<cfChans, cfKnown, cfSaved, cfState>>

ChanFileNext ==
    \/ \E l \in Lists, ci \in CfRecords : CfMake(l, ci)
    \/ SaveCsDbase
    \/ \E known \in SUBSET (CfCores \cup CfBots) : LoadCsDbase(known)
    \/ \E n \in CfCuts : Tear(n)

ChanFileSpec == ChanFileInit /\ [][ChanFileNext]_cfVars
-----------------------------------------------------------------------------
(* Safety.                                                                 *)

\* What is loaded is what was saved, all of it or nothing, less the groups
\* and bots that are not there, and the channels that lost their founder.
SavedIsLoaded ==
    LET Found(x) == IF x \in cfKnown THEN x ELSE CfNone
        Slots(s) == [i \in DOMAIN s |-> Found(s[i])]
        Left(ci) == [ci EXCEPT !.founder = Found(@), !.successor = Found(@), !.bi = Found(@),
                               !.access = Slots(@), !.akick = Slots(@)]
    IN  /\ cfState = "loaded" =>
              cfChans = DropFounderless([l \in DOMAIN cfSaved |-> Left(cfSaved[l])])
        /\ cfState = "gone" => cfFile # WriteAll(cfSaved)
================================================================================
