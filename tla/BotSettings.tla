------------------------------- MODULE BotSettings -------------------------------
(***************************************************************************)
(* What a registered channel asks of its bot (src/botserv.c): one of the   *)
(* kickers KICK sets, the bad words, and the options of SET.  They are     *)
(* kept and saved; the code that would kick is not called any more.        *)
(***************************************************************************)
EXTENDS Integers, Sequences, FiniteSets, SequencesExt

CONSTANTS
    BxWords,        \* bad words
    BSBadWordsMax,  \* how many there may be
    BSKeepData,     \* the seconds that data on users is kept
    BxOptions,      \* options of SET: DONTKICKOPS, FANTASY...
    BxNumbers,      \* the numbers somebody types
    BxNone          \* nothing typed; no word

ASSUME BotSettingsConstants ==
    /\ BSBadWordsMax \in Nat \ {0} /\ BSKeepData \in Nat /\ BSKeepData >= 10
    /\ BxNumbers \subseteq Int /\ BxNone \notin BxWords

VARIABLES
    bxKicker,       \* which kicker the model follows
    bxKick,         \* its botflag, ttb and two numbers
    bxWords,        \* ci->badwords: a word in each slot, or BxNone
    bxFlags         \* ci->botflags of SET

bxVars == <<bxKicker, bxKick, bxWords, bxFlags>>

Kickers == {"caps", "flood", "repeat", "plain"}

\* The numbers of a kicker: what they are when nothing or too little is
\* typed, and their bounds.
FirstOf ==
    [k \in Kickers |-> CASE k = "caps" -> [def |-> 10, least |-> 1]
                         [] k = "flood" -> [def |-> 6, least |-> 2]
                         [] k = "repeat" -> [def |-> 3, least |-> 2]
                         [] k = "plain" -> [def |-> 0, least |-> 0]]
SecondOf ==
    [k \in Kickers |-> CASE k = "caps" -> [def |-> 25, least |-> 1, most |-> 100]
                         [] k = "flood" -> [def |-> 10, least |-> 1, most |-> BSKeepData]
                         [] OTHER -> [def |-> 0, least |-> 0, most |-> 0]]

Int16(n) == ((n + 32768) % 65536) - 32768

BotSettingsTypeOK ==
    /\ bxKicker \in Kickers
    /\ bxKick \in [on : BOOLEAN, ttb : Int, first : Int, second : Int]
    /\ bxWords \in Seq(BxWords \cup {BxNone}) /\ Len(bxWords) <= BSBadWordsMax
    /\ bxFlags \subseteq BxOptions

BotSettingsInit ==
    /\ bxKicker \in Kickers
    /\ bxKick = [on |-> FALSE, ttb |-> 0, first |-> 0, second |-> 0]
    /\ bxWords = <<>> /\ bxFlags = {}
-----------------------------------------------------------------------------
(* KICK.                                                                   *)

\* atol() into an int16, which is then checked.
First(n) ==
    IF n = BxNone \/ Int16(n) < FirstOf[bxKicker].least THEN FirstOf[bxKicker].def
    ELSE IF bxKicker = "plain" THEN 0 ELSE Int16(n)

Second(n) ==
    IF \/ n = BxNone
       \/ Int16(n) < SecondOf[bxKicker].least \/ Int16(n) > SecondOf[bxKicker].most
    THEN SecondOf[bxKicker].def ELSE Int16(n)

\* KICK ON: a negative ttb is refused, after it has been stored.
KickOn(ttb, first, second) ==
    LET stored == IF ttb = BxNone THEN 0 ELSE Int16(ttb) IN
    /\ bxKick' = IF stored < 0 THEN [bxKick EXCEPT !.ttb = stored]
                 ELSE [on |-> TRUE, ttb |-> stored, first |-> First(first),
                       second |-> Second(second)]
    /\ UNCHANGED <<bxKicker, bxWords, bxFlags>>

KickOff == bxKick' = [bxKick EXCEPT !.on = FALSE] /\ UNCHANGED <<bxKicker, bxWords, bxFlags>>

\* SET of an option.
SetOption(option, on) ==
    /\ bxFlags' = IF on THEN bxFlags \cup {option} ELSE bxFlags \ {option}
    /\ UNCHANGED <<bxKicker, bxKick, bxWords>>
-----------------------------------------------------------------------------
(* BADWORDS.                                                               *)

SlotsOf(word) == {i \in DOMAIN bxWords : bxWords[i] = word}
FreeSlots == SlotsOf(BxNone)

\* BADWORDS ADD takes the first free slot, or one more.
BadwordsAdd(word) ==
    /\ SlotsOf(word) = {}
    /\ FreeSlots # {} \/ Len(bxWords) < BSBadWordsMax
    /\ bxWords' = IF FreeSlots # {}
                  THEN [bxWords EXCEPT ![CHOOSE i \in FreeSlots : \A j \in FreeSlots : i <= j] = word]
                  ELSE Append(bxWords, word)
    /\ UNCHANGED <<bxKicker, bxKick, bxFlags>>

\* BADWORDS DEL of numbers, each by badwords_del_callback().
BadwordsDelNumbers(numbers) ==
    /\ bxWords' = [i \in DOMAIN bxWords |-> IF i \in numbers THEN BxNone ELSE bxWords[i]]
    /\ UNCHANGED <<bxKicker, bxKick, bxFlags>>

\* BADWORDS DEL of a word: the first slot that has it.
BadwordsDel(word) ==
    /\ SlotsOf(word) # {}
    /\ bxWords' = [bxWords EXCEPT ![CHOOSE i \in SlotsOf(word) : \A j \in SlotsOf(word) : i <= j] = BxNone]
    /\ UNCHANGED <<bxKicker, bxKick, bxFlags>>

BadwordsClear == bxWords' = <<>> /\ UNCHANGED <<bxKicker, bxKick, bxFlags>>

\* BADWORDS LIST of numbers: those that are shown.
BadwordsList(numbers) == {i \in numbers \cap DOMAIN bxWords : bxWords[i] # BxNone}

BotSettingsNext ==
    \/ \E ttb, first, second \in BxNumbers \cup {BxNone} : KickOn(ttb, first, second)
    \/ KickOff \/ BadwordsClear
    \/ \E option \in BxOptions, on \in BOOLEAN : SetOption(option, on)
    \/ \E word \in BxWords : BadwordsAdd(word) \/ BadwordsDel(word)
    \/ \E numbers \in SUBSET (1..BSBadWordsMax) : BadwordsDelNumbers(numbers)

BotSettingsSpec == BotSettingsInit /\ [][BotSettingsNext]_bxVars
-----------------------------------------------------------------------------
(* Safety.                                                                 *)

\* A word is in one slot, so that DEL of it is the end of it; and a kicker
\* that is on has numbers it can work with, whatever was typed, but for the
\* ttb: a refused one may be there.
BadwordsUnique == \A word \in BxWords : Cardinality(SlotsOf(word)) <= 1

KickersWork ==
    bxKick.on => /\ bxKick.first >= FirstOf[bxKicker].least
                 /\ bxKick.second \in SecondOf[bxKicker].least..SecondOf[bxKicker].most
================================================================================
