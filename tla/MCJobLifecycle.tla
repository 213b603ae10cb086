--------------------------- MODULE MCJobLifecycle ---------------------------
(* JobLifecycle for TLC: the worker slots are interchangeable. *)
EXTENDS JobLifecycle, TLC

Symmetry == Permutations(Workers)

(* A window of Races is never closed again, and NoStaleRun, LaunchWhenIdle,
   MarkLostOnlyIfDead and ShowsStatus say nothing of what follows one: a run
   that checks these need not visit it.  TypeOK and SucceededStays, which speak
   of every state, are proved for every state in JobLifecycle_proofs. *)
NoRace == races = {}

\* Two faults are explored on the first accepted job, one together with a
\* deploy (version 2) or a second job; all three without a GET.
FewEvents ==
    /\ faults + version <= 3 /\ faults + accepted <= 3
    /\ faults + version + accepted = 5 => \A t \in Getters : apc[t] = "idle"
=============================================================================
