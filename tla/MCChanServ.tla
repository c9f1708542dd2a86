------------------------------ MODULE MCChanServ ------------------------------
(* TLC instances of ChanServ.                                              *)
EXTENDS ChanServ, TLC

CONSTANTS u1, u2, n1, n2

Symmetry == Permutations(Id) \cup Permutations(Channel)
===============================================================================
