--------------------------- MODULE MCConfigEvents ---------------------------
EXTENDS ConfigEvents, TLC

CONSTANTS r1, r2, d1, d2, c1, a1

(* Two documents: one channel may be deleted and created again. *)
DocChannel == [d \in {d1, d2} |-> c1]

Symmetry == Permutations({r1, r2}) \union Permutations({d1, d2})

=============================================================================
