----------------------------- MODULE MCNetwork ------------------------------
(* Two nodes that ping each other, with one worker each.                   *)
EXTENDS Network, TLC

CONSTANTS n1, n2, w1
=============================================================================
