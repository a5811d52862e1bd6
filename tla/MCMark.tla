------------------------------- MODULE MCMark -------------------------------
(* Small instances of Mark.                                                *)
EXTENDS Mark, TLC

CONSTANTS b1, b2

Benchmarks == {b1, b2}
Warmups == {0, 1}
Symmetry == Permutations(Benchmarks)

=============================================================================
