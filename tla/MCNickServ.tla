------------------------------ MODULE MCNickServ ------------------------------
(* TLC instances of NickServ.                                              *)
EXTENDS NickServ, TLC

Symmetry == Permutations(User) \cup Permutations(Alias) \cup Permutations(Timer)
              \cup Permutations(Core)
===============================================================================
