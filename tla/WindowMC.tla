------------------------------ MODULE WindowMC ------------------------------
(* Values for the constants of Window.                                     *)
EXTENDS Window

CONSTANTS null, wild

MCTyped == (-1 .. 14) \cup {28, 31}
MCJunk  == {-1, 0, 7}
=============================================================================
