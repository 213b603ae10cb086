---------------------------- MODULE MCSharedCache ----------------------------
(* SharedCache for TLC: the sessions are interchangeable. *)
EXTENDS SharedCache, TLC

Symmetry == Permutations(Sessions)

(* Windows are never closed again, so what SnapshotHonest says of a state with
   a window says nothing of its successors: they need not be visited. *)
NoWindow == windows = {}
=============================================================================
