---------------------------- MODULE MCNickRequests ----------------------------
(* TLC instances of NickRequests: chains of their own, or one shared.       *)
EXTENDS NickRequests, TLC

CONSTANTS n1, n2, n3

MCSpread == (n1 :> 0) @@ (n2 :> 1) @@ (n3 :> 2)
MCShared == (n1 :> 0) @@ (n2 :> 0) @@ (n3 :> 1)
===============================================================================
