--------------------------------- MODULE SList ---------------------------------
(***************************************************************************)
(* The services list (src/slist.c): an array of pointers that the AKILL    *)
(* and S*LINE lists and the staff lists of OperServ are kept in.  A list   *)
(* is a sequence; the NULLs that slist_delete_range leaves until           *)
(* slist_pack closes the gaps are a set of positions.  Every caller passes *)
(* no callback that could refuse to delete an entry.                       *)
(*                                                                         *)
(* A range, as "2,4-6", is a sequence of pairs <<first, last>>.            *)
(***************************************************************************)
EXTENDS Naturals, Sequences, SequencesExt

SlistFull(list, limit) == limit # 0 /\ Len(list) >= limit

\* slist_indexof(): the first of the positions whose entries compare equal,
\* or 0.
SlistIndexOf(equal) == IF equal = {} THEN 0 ELSE CHOOSE i \in equal : \A j \in equal : i <= j

\* slist_add() of a list without SLISTF_SORT.
SlistAdd(list, limit, item) ==
    IF SlistFull(list, limit) THEN list ELSE Append(list, item)

\* slist_add() of a sorted list: in front of the first entry that does not
\* come before the new one, the positions of which are behind.
SlistAddSorted(list, limit, item, behind) ==
    LET i == SlistIndexOf(behind)
    IN  IF SlistFull(list, limit) THEN list
        ELSE IF i = 0 THEN Append(list, item)
        ELSE SubSeq(list, 1, i - 1) \o <<item>> \o SubSeq(list, i, Len(list))

SlistDelete(list, i) == RemoveAt(list, i)

\* slist_remove() of an item that is in the list at most once.
SlistRemove(list, item) ==
    LET i == SlistIndexOf({j \in DOMAIN list : list[j] = item})
    IN  IF i = 0 THEN list ELSE SlistDelete(list, i)

\* The entries that one pair of a range stands for: the loops run from the
\* first number while it is a position of the list.
RangeOf(list, pair) ==
    IF pair[1] \in DOMAIN list THEN {i \in DOMAIN list : pair[1] <= i /\ i <= pair[2]} ELSE {}

\* slist_pack(): the gaps are closed from the end.
SlistPack(list, holes) ==
    LET Close(l, i) == IF i \in holes THEN SlistDelete(l, i) ELSE l
    IN  FoldLeft(Close, list, [i \in 1..Len(list) |-> Len(list) + 1 - i])

\* Mutant of SlistDeleteRange: every entry goes at once, and the numbers that
\* follow are those of a list that has moved.
SlistDeleteRangeMoving(list, range) ==
    LET Pair(l, pair) == SlistPack(l, RangeOf(l, pair))
    IN  FoldLeft(Pair, list, range)

\* slist_delete_range(): entries are freed and nulled, then the list is
\* packed.
SlistDeleteRange(list, range) ==
    LET Nulled(holes, pair) == holes \cup RangeOf(list, pair)
    IN  SlistPack(list, FoldLeft(Nulled, {}, range))

\* slist_enum(): the numbers a callback is called with; all of them when no
\* range is given.
SlistEnum(list, range) == UNION {RangeOf(list, range[j]) : j \in DOMAIN range}
SlistEnumAll(list) == DOMAIN list
================================================================================
