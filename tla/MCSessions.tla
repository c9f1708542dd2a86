------------------------------ MODULE MCSessions ------------------------------
(* TLC instances of Sessions: one mask matches every host, the other    *)
(* only one.                                                                *)
EXTENDS Sessions, TLC

CONSTANTS h1, h2, all, one

MCMatches == {<<all, h1>>, <<all, h2>>, <<one, h1>>}

Symmetry == Permutations(User)
===============================================================================
