------------------------------- MODULE AccessPages -------------------------------
(***************************************************************************)
(* Reading the access list of a channel (do_access() of src/chanserv.c).   *)
(* Without a nick it shows a page of entries, and a footer says with which *)
(* number to ask for the next page.  Between two pages of one reader       *)
(* others add and delete entries.  Only whether an entry is in use is      *)
(* kept; where the entries stand is what the pages depend on.              *)
(***************************************************************************)
EXTENDS Integers, Sequences, FiniteSets

CONSTANTS
    ApPage,         \* entries on a page: 10
    ApMax           \* CSAccessMax

ASSUME ApNumbers == ApPage \in Nat \ {0} /\ ApMax \in Nat

VARIABLES
    apUsed,         \* ci->access: for each entry, is it in use
    apNext,         \* the number the last footer named, or 0
    apSeen,         \* how often each entry was shown to this reader
    apStayed,       \* the entries in use ever since he began
    apBlank,        \* a page of this reader held no entry in use
    apUp            \* Services run

apVars == <<apUsed, apNext, apSeen, apStayed, apBlank, apUp>>
ApCount == Len(apUsed)

AccessPagesTypeOK ==
    /\ apUsed \in Seq(BOOLEAN) /\ ApCount <= ApMax
    /\ apNext \in 0 .. ApMax + ApPage
    /\ apSeen \in [1 .. ApMax -> Nat] /\ apStayed \subseteq 1 .. ApMax
    /\ apBlank \in BOOLEAN /\ apUp \in BOOLEAN

AccessPagesInit ==
    /\ apUsed = << >> /\ apNext = 0 /\ apSeen = [i \in 1 .. ApMax |-> 0]
    /\ apStayed = {} /\ apBlank = FALSE /\ apUp = TRUE

-----------------------------------------------------------------------------
\* do_adduser(): the first entry that is not in use, or one more.
ApAddUser ==
    /\ apUp
    /\ LET free == {i \in DOMAIN apUsed : ~apUsed[i]} IN
       IF free # {}
       THEN apUsed' = [apUsed EXCEPT ![CHOOSE i \in free : \A j \in free : i <= j] = TRUE]
       ELSE ApCount < ApMax /\ apUsed' = Append(apUsed, TRUE)
    /\ UNCHANGED <<apNext, apSeen, apStayed, apBlank, apUp>>

\* access_del(), for a number or a nick of REMUSER.
RemUser(i) ==
    /\ apUp /\ i \in DOMAIN apUsed /\ apUsed[i]
    /\ apUsed' = [apUsed EXCEPT ![i] = FALSE]
    /\ apStayed' = apStayed \ {i}
    /\ UNCHANGED <<apNext, apSeen, apBlank, apUp>>

\* The last entry of the page that begins behind the first k: a long list has
\* whole pages only, so that the last one may reach past its end.
PageEnd(k) == IF ApCount > ApPage THEN k + ApPage ELSE ApCount

\* The entries shown: access_list() passes over those that are not in use.
Shown(k) == {i \in k + 1 .. PageEnd(k) : i \in DOMAIN apUsed /\ apUsed[i]}

\* do_access() with -k, and with nothing for k = 0.  The footer says how to go
\* on, if there was anything to show.  What stands behind the last entry is
\* read when the page reaches there: Services may fail on it.
Page(k) ==
    /\ apUp' \in (IF PageEnd(k) > ApCount THEN BOOLEAN ELSE {TRUE})
    /\ apSeen' = [i \in 1 .. ApMax |->
          (IF k = 0 THEN 0 ELSE apSeen[i]) + (IF i \in Shown(k) THEN 1 ELSE 0)]
    /\ apBlank' = (Shown(k) = {} \/ (k > 0 /\ apBlank))
    /\ apNext' = IF Shown(k) # {} /\ PageEnd(k) < ApCount THEN PageEnd(k) + 1 ELSE 0

FirstPage ==
    /\ apUp /\ ApCount > 0
    /\ apStayed' = {i \in DOMAIN apUsed : apUsed[i]}
    /\ Page(0) /\ UNCHANGED apUsed

\* The number he enters is negated and made an index again.
NextPage ==
    /\ apUp /\ apNext > 0
    /\ Page(apNext - 1) /\ UNCHANGED <<apUsed, apStayed>>

\* Any other number is a page of its own, or none: a positive one is refused.
AnyPage(k) ==
    /\ apUp /\ ApCount > 0
    /\ apUp' \in (IF \E i \in k + 1 .. PageEnd(k) : i > ApCount THEN BOOLEAN ELSE {TRUE})
    /\ UNCHANGED <<apUsed, apNext, apSeen, apStayed, apBlank>>

AccessPagesNext ==
    \/ ApAddUser \/ FirstPage \/ NextPage
    \/ \E i \in 1 .. ApMax : RemUser(i) \/ AnyPage(i)

AccessPagesSpec == AccessPagesInit /\ [][AccessPagesNext]_apVars
-----------------------------------------------------------------------------
(* Safety.                                                                 *)

\* Who has followed the footers to the end has been shown every entry that was
\* there all the time exactly once, whatever was added or deleted meanwhile,
\* unless he met a page without an entry in use: there is no footer behind
\* such a page, and the entries behind it stay hidden.
OnlyBlankPagesHide ==
    apNext = 0 /\ ~apBlank => \A i \in apStayed : apSeen[i] = 1
==================================================================================
