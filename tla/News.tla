---------------------------------- MODULE News ----------------------------------
(***************************************************************************)
(* The news of OperServ (src/news.c): one array for the items of the three *)
(* kinds, shown to users who connect, to opers, and one at random.         *)
(***************************************************************************)
EXTENDS Naturals, Sequences, FiniteSets, SequencesExt

CONSTANTS
    NwLimit         \* how many items there may be: 32767

ASSUME NwLimitIsPositive == NwLimit \in Nat \ {0}

VARIABLES
    nwNews,         \* news: records of type and number
    nwCurrent       \* the static counter of the random news

nwVars == <<nwNews, nwCurrent>>

NewsTypes == {"logon", "random", "oper"}
NewsItems == [type: NewsTypes, num: Nat]

NewsTypeOK ==
    /\ nwNews \in Seq(NewsItems) /\ Len(nwNews) <= NwLimit
    /\ nwCurrent \in 0..NwLimit

NewsInit == nwNews = <<>> /\ nwCurrent = 0

OfType(news, type) == {i \in DOMAIN news : news[i].type = type}

\* ADD: add_newsitem() numbers after the last item of the type.
AddNewsitem(type) ==
    LET I == OfType(nwNews, type)
        num == IF I = {} THEN 0 ELSE nwNews[CHOOSE i \in I : \A j \in I : j <= i].num
    IN  /\ Len(nwNews) < NwLimit
        /\ nwNews' = Append(nwNews, [type |-> type, num |-> num + 1])
        /\ UNCHANGED nwCurrent

\* del_newsitem(): those of the type with the number, or all of them, go, and
\* the rest moves up.
NewsGoes(n, num, type) == n.type = type /\ (num = 0 \/ n.num = num)
DelNewsitem(num, type) ==
    FoldLeft(LAMBDA left, n : IF NewsGoes(n, num, type) THEN left ELSE Append(left, n), <<>>, nwNews)

\* DEL with a number: then the items of all types are numbered in one row.
DoNewsDel(num, type) ==
    LET left == DelNewsitem(num, type) IN
    /\ Len(left) < Len(nwNews)
    /\ nwNews' = [i \in DOMAIN left |-> [left[i] EXCEPT !.num = i]]
    /\ UNCHANGED nwCurrent

\* DEL ALL.
DoNewsDelAll(type) ==
    /\ OfType(nwNews, type) # {}
    /\ nwNews' = DelNewsitem(0, type)
    /\ UNCHANGED nwCurrent

\* LIST: the numbers shown.
DoNewsList(type) == {nwNews[i].num : i \in OfType(nwNews, type)}

\* display_news(): the last three items of the type.
DisplayNews(type) ==
    {i \in OfType(nwNews, type) : Cardinality({j \in OfType(nwNews, type) : j > i}) < 3}

\* display_news() of the random news: the next one, around the array, which
\* may have become shorter than the counter.
DisplayRandomNews ==
    LET n == Len(nwNews)
        start == IF nwCurrent >= n THEN 0 ELSE nwCurrent
        At(k) == ((start + k - 1) % n) + 1
        turns == {k \in 1..n : nwNews[At(k)].type = "random"}
        turn == IF turns = {} THEN n ELSE CHOOSE k \in turns : \A l \in turns : k <= l
    IN  n > 0 /\ nwCurrent' = At(turn) /\ UNCHANGED nwNews

\* save_news() writes the items in their order.
SaveNews == nwNews

\* load_news(), when services start again.
LoadNews == nwNews' = SaveNews /\ nwCurrent' = 0

NewsNext ==
    \/ \E type \in NewsTypes : AddNewsitem(type) \/ DoNewsDelAll(type)
    \/ \E type \in NewsTypes, num \in 1..NwLimit : DoNewsDel(num, type)
    \/ DisplayRandomNews \/ LoadNews

NewsSpec == NewsInit /\ [][NewsNext]_nwVars
-----------------------------------------------------------------------------
(* Safety.                                                                 *)

\* DEL with a number that LIST shows removes one item, whatever was deleted
\* before, although ADD counts by type and DEL across them.
DelRemovesOne ==
    \A type \in NewsTypes : \A num \in DoNewsList(type) :
        Len(DelNewsitem(num, type)) = Len(nwNews) - 1
================================================================================
