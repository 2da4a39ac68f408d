------------------------------- MODULE EchoMC -------------------------------
(* Values for the constants of Echo.                                       *)
EXTENDS Echo

CONSTANTS c1, c2, m1, m2, fill

MCLines == {m1, m2, fill}
MCLabs == {"LAB3", "LAB3_2"}
MCLimits == {4, 5}
=============================================================================
