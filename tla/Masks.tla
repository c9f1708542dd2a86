---------------------------------- MODULE Masks ----------------------------------
(***************************************************************************)
(* Wildcards and masks (src/misc.c, src/users.c): what a pattern matches,  *)
(* how a mask nick!user@host falls apart, and the masks services make for  *)
(* a user.  A string is a sequence of characters; letters have one case.   *)
(***************************************************************************)
EXTENDS Naturals, Sequences, FiniteSets, SequencesExt

CONSTANTS
    MkPatternChars, \* what patterns are made of
    MkChars,        \* what strings are made of
    MkLength,       \* bound of their lengths
    MkUsers,        \* users: records of nick, username and host
    MkNoUser,       \* the model follows a pattern and a string
    USERMAX         \* 10

ASSUME MasksConstants == MkLength \in Nat /\ USERMAX \in Nat \ {0}

VARIABLES
    mkPattern, mkStr,   \* a pattern and a string, or
    mkUser              \* a user

mkVars == <<mkPattern, mkStr, mkUser>>

MasksTypeOK ==
    /\ mkPattern \in Seq(MkPatternChars) /\ Len(mkPattern) <= MkLength
    /\ mkStr \in Seq(MkChars) /\ Len(mkStr) <= MkLength
    /\ mkUser \in MkUsers \cup {MkNoUser}

MasksInit == mkPattern = <<>> /\ mkStr = <<>> /\ mkUser \in MkUsers \cup {MkNoUser}

\* A longer pattern, a longer string.
Lengthen ==
    /\ mkUser = MkNoUser
    /\ \/ /\ Len(mkPattern) < MkLength
          /\ mkPattern' \in {Append(mkPattern, ch) : ch \in MkPatternChars} /\ UNCHANGED mkStr
       \/ /\ Len(mkStr) < MkLength
          /\ mkStr' \in {Append(mkStr, ch) : ch \in MkChars} /\ UNCHANGED mkPattern
    /\ UNCHANGED mkUser

MasksSpec == MasksInit /\ [][Lengthen]_mkVars
-----------------------------------------------------------------------------
(* Patterns.                                                               *)

\* Mutant of MatchWild: after a star it looks at the first place only.
MatchFirst(p, s) ==
    LET m[i \in 1..(Len(p) + 1), j \in 1..(Len(s) + 1)] ==
            IF i > Len(p) THEN j > Len(s)
            ELSE IF p[i] = "*" THEN
                \/ i = Len(p)
                \/ \E k \in j..Len(s) :
                      s[k] = p[i + 1] /\ (\A l \in j..(k - 1) : s[l] # p[i + 1]) /\ m[i + 1, k]
                \/ m[i + 1, j]
            ELSE j <= Len(s) /\ p[i] \in {"?", s[j]} /\ m[i + 1, j + 1]
    IN  m[1, 1]

\* do_match_wild(): after a star it goes on at each place where the next
\* character of the pattern stands, and then where it is.
MatchWild(p, s) ==
    LET m[i \in 1..(Len(p) + 1), j \in 1..(Len(s) + 1)] ==
            IF i > Len(p) THEN j > Len(s)
            ELSE IF p[i] = "*" THEN
                \/ i = Len(p)
                \/ \E k \in j..Len(s) : s[k] = p[i + 1] /\ m[i + 1, k]
                \/ m[i + 1, j]
            ELSE j <= Len(s) /\ p[i] \in {"?", s[j]} /\ m[i + 1, j + 1]
    IN  m[1, 1]

\* What patterns mean: a star is any string, a question mark any character.
Means(p, s) ==
    LET m[i \in 1..(Len(p) + 1), j \in 1..(Len(s) + 1)] ==
            IF i > Len(p) THEN j > Len(s)
            ELSE IF p[i] = "*" THEN \E k \in j..(Len(s) + 1) : m[i + 1, k]
            ELSE j <= Len(s) /\ p[i] \in {"?", s[j]} /\ m[i + 1, j + 1]
    IN  m[1, 1]
-----------------------------------------------------------------------------
(* Masks.                                                                  *)

\* strtok(): the token, or MkNoUser if there is none, where it ends, and what
\* comes after the delimiter.
Strtok(s, delims) ==
    LET starts == {i \in DOMAIN s : s[i] \notin delims}
        i == CHOOSE k \in starts : \A l \in starts : k <= l
        ends == {k \in i..Len(s) : s[k] \in delims}
        e == CHOOSE k \in ends : \A l \in ends : k <= l
    IN  IF starts = {} THEN [tok |-> MkNoUser, end |-> Len(s), rest |-> <<>>]
        ELSE IF ends = {} THEN [tok |-> SubSeq(s, i, Len(s)), end |-> Len(s), rest |-> <<>>]
        ELSE [tok |-> SubSeq(s, i, e - 1), end |-> e - 1, rest |-> SubSeq(s, e + 1, Len(s))]

Has(s, ch) == ch \in {s[i] : i \in DOMAIN s}

\* split_usermask(): a star for each part that is missing.
SplitUsermask(mask) ==
    LET n == Strtok(mask, {"!"})
        u == Strtok(n.rest, {"@"})
        h == Strtok(u.rest, {})
        bare == n.tok # MkNoUser /\ u.tok = MkNoUser /\ Has(n.tok, "@")
        u2 == Strtok(SubSeq(mask, 1, n.end), {"@"})
        h2 == Strtok(u2.rest, {})
        Part(t) == IF t = MkNoUser THEN <<"*">> ELSE t
    IN  IF bare THEN <<<<"*">>, Part(u2.tok), Part(h2.tok)>>
        ELSE <<Part(n.tok), Part(u.tok), Part(h.tok)>>

\* match_usermask().
MatchUsermask(mask, u) ==
    LET n == IF Has(mask, "!") THEN Strtok(mask, {"!"}) ELSE [tok |-> <<"*">>, end |-> 0, rest |-> mask]
        user == Strtok(n.rest, {"@"})
        host == Strtok(user.rest, {})
    IN  /\ user.tok # MkNoUser /\ host.tok # MkNoUser
        /\ MatchWild(n.tok, u.nick)
        /\ MatchWild(user.tok, u.username) /\ MatchWild(host.tok, u.host)

\* The ident in a mask: without the ~, behind a star if it is short.
IdentMask(u) ==
    LET tilde == u.username[1] = "~"
    IN  (IF Len(u.username) < (IF tilde THEN USERMAX + 1 ELSE USERMAX) THEN <<"*">> ELSE <<>>)
            \o (IF tilde THEN Tail(u.username) ELSE u.username)

DotsOf(h) == {i \in DOMAIN h : h[i] = "."}

\* create_mask(): the last number of an address, or the first part of a name
\* of three parts or more, becomes a star.
CreateMask(u) ==
    LET h == u.host
        dots == DotsOf(h)
        first == CHOOSE i \in dots : \A j \in dots : i <= j
        last == CHOOSE i \in dots : \A j \in dots : j <= i
        isIp == (\A i \in DOMAIN h : h[i] \in {"1", "."}) /\ Cardinality(dots) = 3
    IN  IdentMask(u) \o <<"@">> \o
            (IF isIp THEN SubSeq(h, 1, last) \o <<"*">>
             ELSE IF Cardinality(dots) >= 2 THEN <<"*">> \o SubSeq(h, first, Len(h))
             ELSE h)

\* get_idealban(), for each bantype.
GetIdealban(bantype, u) ==
    <<"*", "!">> \o
        CASE bantype = 0 -> u.username \o <<"@">> \o u.host
          [] bantype = 1 -> IdentMask(u) \o <<"@">> \o u.host
          [] bantype = 2 -> <<"*", "@">> \o u.host
          [] bantype = 3 -> CreateMask(u)

\* is_on_access() of NickServ, whose entries are user@host.
IsOnAccess(u, access) ==
    \E mask \in access : MatchWild(mask, u.username \o <<"@">> \o u.host)

\* doValidHost(): an address has four parts of up to three digits, of which it
\* does not ask that there be any; a name has a dot, and none at its ends.
DoValidHost(h, type) ==
    CASE type = 1 ->
            /\ \A i \in DOMAIN h : h[i] \in {"1", "."}
            /\ h # <<>> /\ h[1] # "." /\ Cardinality(DotsOf(h)) = 3
            /\ ~\E i \in DOMAIN h : i + 3 <= Len(h) /\ \A j \in i..(i + 3) : h[j] = "1"
      [] type = 2 ->
            /\ h # <<>> /\ h[1] \notin {".", "-"} /\ h[Len(h)] # "."
            /\ \A i \in DOMAIN h : h[i] \notin {"*", "?", "!", "@", "~"}
            /\ DotsOf(h) # {}
IsValidHost(h) == DoValidHost(h, 1) \/ DoValidHost(h, 2)
-----------------------------------------------------------------------------
(* Safety.                                                                 *)

\* A pattern matches what it means, unless a question mark comes right after
\* a star, where it may miss but does not hit what it should not.
MatchAgrees ==
    /\ MatchWild(mkPattern, mkStr) => Means(mkPattern, mkStr)
    /\ (\A i \in 1..(Len(mkPattern) - 1) : ~(mkPattern[i] = "*" /\ mkPattern[i + 1] = "?"))
            => (Means(mkPattern, mkStr) => MatchWild(mkPattern, mkStr))

\* A mask that services make for a user matches that user: bans hit, and
\* the access entry of somebody who registers lets him in again.
MasksFit ==
    mkUser # MkNoUser =>
        /\ \A bantype \in 0..3 : MatchUsermask(GetIdealban(bantype, mkUser), mkUser)
        /\ IsOnAccess(mkUser, {CreateMask(mkUser)})

\* A mask with its three parts is split where it is joined.
SplitSound ==
    LET S == SplitUsermask(mkPattern)
        At(ch) == {i \in DOMAIN mkPattern : mkPattern[i] = ch}
    IN  (/\ Cardinality(At("!")) = 1 /\ Cardinality(At("@")) = 1
         /\ \A i \in At("!"), j \in At("@") : 1 < i /\ i + 1 < j /\ j < Len(mkPattern))
            => S[1] \o <<"!">> \o S[2] \o <<"@">> \o S[3] = mkPattern
================================================================================
