-------------------------- MODULE ErrorInjectionMC --------------------------
(* Values for the constants of ErrorInjection.                             *)
EXTENDS ErrorInjection, TLC

CONSTANTS main, c1, c2, absent, junk

Unset == [seed |-> absent, rate |-> absent, port |-> absent,
          drop |-> absent, flip |-> absent]

(* One variable at a time, and the lists that meet in one process; 9 is the*)
(* number 1 in a uint32_t of 8 values.                                     *)
MCEnviron ==
    {[Unset EXCEPT !.drop = d] : d \in {absent, <<-1>>, <<junk>>, <<9, junk, 2>>}}
    \cup {[Unset EXCEPT !.flip = f, !.drop = d] : f \in {<<>>, <<2>>}, d \in {<<>>, <<2>>}}
    \cup {[Unset EXCEPT !.rate = r, !.seed = s] : r \in {<<junk>>, <<2>>}, s \in {<<5>>, <<>>}}
    \cup {[Unset EXCEPT !.port = w] : w \in {<<>>, <<9>>}}

Children == Permutations({c1, c2})

MCArguments ==
    {[rate |-> 1, drop |-> TRUE, flip |-> TRUE, random |-> TRUE],
     [rate |-> 0, drop |-> FALSE, flip |-> TRUE, random |-> TRUE],
     [rate |-> 1, drop |-> TRUE, flip |-> FALSE, random |-> FALSE]}
=============================================================================
