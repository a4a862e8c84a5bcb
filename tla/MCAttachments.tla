----------------------------- MODULE MCAttachments -----------------------------
(***************************************************************************)
(* A small instance of Attachments.                                        *)
(***************************************************************************)
EXTENDS Attachments, TLC

CONSTANTS k1, k2, k3, c1, c2

ThreeKeys == {k1, k2, k3}
TwoCalls  == {c1, c2}

Symmetry == Permutations(Keys) \union Permutations(Calls)
=============================================================================
