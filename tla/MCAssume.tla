------------------------------ MODULE MCAssume ------------------------------
(***************************************************************************)
(* Types of 4, 8, 16 and 32 values, operands at their edges and beyond.    *)
(***************************************************************************)
EXTENDS Assume

MCHalf == [w \in Width |-> CASE w = 8 -> 2 [] w = 16 -> 4 [] w = 32 -> 8 [] w = 64 -> 16]

\* Each type's least and greatest values, and their neighbours.
MCOperand == {-16, -9, -8, -5, -4, -2, -1, 0, 1, 2, 3, 4, 7, 8, 15, 16, 31}

MCLimit == {-3, -1, 0, 1, 5, 20}

MCFinite == {-2, 0, 1, 3}

MCRegion == {<< a, b >> : a, b \in {0, 1, 2}}

MCString == UNION {[1 .. n -> {"a", " "}] : n \in 0 .. 4}

MCPattern == UNION {[1 .. n -> {"a", " "}] : n \in 1 .. 2}

=============================================================================
