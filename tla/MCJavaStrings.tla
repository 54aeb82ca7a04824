--------------------------- MODULE MCJavaStrings ---------------------------
(* An instance of JavaStrings for TLC: constants of one letter, of two, of *)
(* a character that takes two bytes, and of nothing but a; one buffer that *)
(* has to grow at once and one that has not.                               *)
EXTENDS JavaStrings

MCLiterals   == {<<98>>, <<233, 98>>, <<97, 97>>}
MCKeys       == [key \in {<<98>>} |-> <<98, 46>>]
MCCapacities == {<<0, 4>>}
MCRanges     == {<<0, 1, 2>>, <<1, 0, 3>>, <<MaxInt, 0, 1>>, <<0, -1, 1>>, <<2, 0, 0>>}
=============================================================================
