------------------------------ MODULE MCTimeouts ------------------------------
(* TLC instance of Timeouts: a few addresses, delays 0 and 1.              *)
EXTENDS Timeouts, TLC

Symmetry == Permutations(Timer)
===============================================================================
