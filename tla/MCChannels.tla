------------------------------ MODULE MCChannels ------------------------------
(* TLC instances of Channels: b may not be an op on c1, nor be on c2 at all;
   a is given +o as he joins c2. *)
EXTENDS Channels, TLC

CONSTANTS a, b, c1, c2

MCAutoOp == User \X Channel
MCAutoDeop == {<<b, c1>>}
MCAutoOption == {<<a, c2>>}
MCUnwelcome == {<<b, c2>>}
Symmetry == Permutations(Bot)
===============================================================================
