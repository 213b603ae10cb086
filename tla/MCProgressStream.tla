--------------------------- MODULE MCProgressStream ---------------------------
(* ProgressStream for TLC: the clients are interchangeable. *)
EXTENDS ProgressStream, TLC

Symmetry == Permutations(Readers)

\* Faults are explored without clients, and clients without faults.
FaultsAlone ==
    crashes + errors > 0 => \A r \in Readers : conns[r] = 0
=============================================================================
