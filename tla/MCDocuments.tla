---------------------------- MODULE MCDocuments ----------------------------
(* Documents for TLC. *)
EXTENDS Documents, TLC

MCExported == <<"json", "md">>
MCSymmetry == Permutations(Sessions) \cup Permutations(Procs)
=============================================================================
