----------------------------- MODULE MCBashOutput -----------------------------
(***************************************************************************)
(* Model-checking instances of BashOutput.                                 *)
(***************************************************************************)
EXTENDS BashOutput, TLC

CONSTANTS c1, c2

Symmetry == Permutations(Cmds)

TextsSmall == {<<TRUE>>, <<TRUE, FALSE>>}

=============================================================================
