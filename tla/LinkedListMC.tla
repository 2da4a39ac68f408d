---------------------------- MODULE LinkedListMC ----------------------------
(* Values for the constants of LinkedList.                                 *)
EXTENDS LinkedList

CONSTANTS h1, h2
=============================================================================
