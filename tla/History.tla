-------------------------------- MODULE History --------------------------------
(***************************************************************************)
(* The last commands of each group on each channel, kept in a table of the *)
(* SQL database (save_history() and do_lastcmds() of src/chanserv.c).      *)
(* Before a command is looked at, it is written down: the rows of its      *)
(* group and channel are counted, the oldest is deleted if there are       *)
(* enough, the new one is inserted.  The results of the deletion and of    *)
(* the insertion are not looked at.                                        *)
(***************************************************************************)
EXTENDS Naturals, Sequences, FiniteSets, SequencesExt

CONSTANTS
    HyNick,         \* groups, by the display nick
    HyChan,         \* channels
    HyLimit,        \* rows for a group and a channel: 20
    HyMaxCommands   \* bound: commands of one group on one channel

ASSUME HyNumbers == HyLimit \in Nat \ {0} /\ HyMaxCommands \in Nat

VARIABLES
    hyRows,         \* the table anope_history, in the order of id
    hyGiven,        \* how many commands a group gave on a channel
    hyFailed,       \* the pairs for which a statement has failed
    hyKept,         \* how often a deletion has failed
    hyRegistered,   \* registered channels
    hyUp            \* Services run

hyVars == <<hyRows, hyGiven, hyFailed, hyKept, hyRegistered, hyUp>>
HyPair == HyNick \X HyChan

HistoryTypeOK ==
    /\ hyRows \in Seq([nick : HyNick, chan : HyChan, number : Nat])
    /\ hyGiven \in [HyPair -> 0 .. HyMaxCommands]
    /\ hyFailed \subseteq HyPair /\ hyKept \in Nat
    /\ hyRegistered \subseteq HyChan /\ hyUp \in BOOLEAN

HistoryInit ==
    /\ hyRows = << >> /\ hyGiven = [p \in HyPair |-> 0] /\ hyFailed = {} /\ hyKept = 0
    /\ hyRegistered = HyChan /\ hyUp = TRUE

\* WHERE nick = n AND channel = c: the places of the rows.
RowsOf(rows, n, c) == {i \in DOMAIN rows : rows[i].nick = n /\ rows[i].chan = c}

-----------------------------------------------------------------------------
\* Mutant of Oldest: the oldest row of the channel.
OldestOfAll(n, c) == CHOOSE i \in DOMAIN hyRows :
    /\ hyRows[i].chan = c
    /\ \A j \in DOMAIN hyRows : hyRows[j].chan = c => i <= j

\* SELECT min(id).
Oldest(n, c) == CHOOSE i \in RowsOf(hyRows, n, c) : \A j \in RowsOf(hyRows, n, c) : i <= j

Trimmed(n, c) ==
    IF Cardinality(RowsOf(hyRows, n, c)) >= HyLimit THEN RemoveAt(hyRows, Oldest(n, c)) ELSE hyRows

\* save_history() with the database there, for a user whose nick is registered
\* and a channel that is; fails are the statements that fail.
SaveHistory(n, c, fails) ==
    LET full == Cardinality(RowsOf(hyRows, n, c)) >= HyLimit
        kept == IF "delete" \in fails THEN hyRows ELSE Trimmed(n, c)
        row == [nick |-> n, chan |-> c, number |-> hyGiven[<<n, c>>] + 1]
    IN
    /\ hyUp /\ c \in hyRegistered /\ hyGiven[<<n, c>>] < HyMaxCommands
    /\ "delete" \in fails => full
    /\ hyRows' = IF "insert" \in fails THEN kept ELSE Append(kept, row)
    /\ hyGiven' = [hyGiven EXCEPT ![<<n, c>>] = @ + 1]
    /\ hyFailed' = IF fails = {} THEN hyFailed ELSE hyFailed \cup {<<n, c>>}
    /\ hyKept' = IF "delete" \in fails THEN hyKept + 1 ELSE hyKept
    /\ UNCHANGED <<hyRegistered, hyUp>>

\* Without the database nothing is written down.
HistoryClosed(n, c) ==
    /\ hyUp /\ c \in hyRegistered /\ hyGiven[<<n, c>>] < HyMaxCommands
    /\ hyGiven' = [hyGiven EXCEPT ![<<n, c>>] = @ + 1]
    /\ hyFailed' = hyFailed \cup {<<n, c>>}
    /\ UNCHANGED <<hyRows, hyKept, hyRegistered, hyUp>>

\* A SELECT without a result: its rows are fetched all the same.
HistoryCrashes == hyUp /\ hyUp' = FALSE /\ UNCHANGED <<hyRows, hyGiven, hyFailed, hyKept, hyRegistered>>

\* The rows outlive the registration of the channel.
HistoryRegister(c) ==
    /\ hyUp
    /\ hyRegistered' = IF c \in hyRegistered THEN hyRegistered \ {c} ELSE hyRegistered \cup {c}
    /\ UNCHANGED <<hyRows, hyGiven, hyFailed, hyKept, hyUp>>

HistoryRestart ==
    /\ ~hyUp /\ hyUp' = TRUE
    /\ UNCHANGED <<hyRows, hyGiven, hyFailed, hyKept, hyRegistered>>

HistoryNext ==
    \/ \E n \in HyNick, c \in HyChan :
          \/ \E fails \in SUBSET {"delete", "insert"} : SaveHistory(n, c, fails)
          \/ HistoryClosed(n, c)
    \/ \E c \in HyChan : HistoryRegister(c)
    \/ HistoryCrashes \/ HistoryRestart

HistorySpec == HistoryInit /\ [][HistoryNext]_hyVars
-----------------------------------------------------------------------------
(* Safety.                                                                 *)

\* do_lastcmds(), for a group: what it lists.
LastCmds(n, c) == RowsOf(hyRows, n, c)

\* As long as no statement of a group and a channel has failed, LASTCMDS shows
\* its last commands there once, all of them or as many as the limit says, the
\* oldest first in the table, and no other group's commands took their place.  A deletion that fails leaves a row
\* too many for ever, and no more than one.
LastCommandsKept ==
    \A n \in HyNick, c \in HyChan :
        LET rows == LastCmds(n, c)
            given == hyGiven[<<n, c>>]
            first == IF given > HyLimit THEN given - HyLimit ELSE 0
        IN
        /\ Cardinality(rows) <= HyLimit + hyKept
        /\ <<n, c>> \notin hyFailed =>
              /\ {hyRows[i].number : i \in rows} = first + 1 .. given
              /\ \A i, j \in rows : i < j => hyRows[i].number < hyRows[j].number
================================================================================
