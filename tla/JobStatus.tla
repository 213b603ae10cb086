------------------------------ MODULE JobStatus ------------------------------
(***************************************************************************)
(* What meta.json promises a client that polls a book: the abstract        *)
(* specification that JobLifecycle implements.  A POST accepts the book as *)
(* the next generation; that generation is queued, runs, possibly more     *)
(* than once, and ends.  Whoever writes the status writes it for the       *)
(* generation accepted last.  A run and its success come from a child at   *)
(* work on that generation.  Success is final until the next POST, or      *)
(* until the child of the accepted generation withdraws what other code    *)
(* has left, or what a rebuild is to replace.  Failure is not: the orphan  *)
(* of a killed horse may still write before it is killed itself, and RQ    *)
(* may run the generation again.                                           *)
(* Nothing is promised once a window of JobLifecycle's Races has been met. *)
(***************************************************************************)
EXTENDS Naturals

VARIABLES
    status,    \* "none", "queued", "running", "succeeded" or "failed"
    gen,       \* the generation it is shown for, 0 for "none"
    accepted,  \* the generation POST accepted last
    working,   \* a child of that generation is at work on the book
    outdated,  \* other code has left what is shown, or a rebuild is recorded
    window     \* one of the windows has been met

shown == <<status, gen, accepted>>

Init == status = "none" /\ gen = 0 /\ accepted = 0 /\ ~window

\* A status of the accepted generation, also where none was shown.
Belongs == accepted' = accepted /\ gen' = accepted

\* A POST counts on from what is shown.
Accept == status' = "queued" /\ gen' = gen + 1 /\ accepted' = gen'

Run == working /\ status # "succeeded" /\ status' = "running" /\ Belongs

Succeed ==
    working /\ status \in {"running", "failed"} /\ status' = "succeeded" /\ Belongs

Fail == status \in {"none", "queued", "running"} /\ status' = "failed" /\ Belongs

Withdraw ==
    working /\ outdated /\ status' = "none" /\ gen' = 0 /\ UNCHANGED accepted

Change == Accept \/ Run \/ Succeed \/ Fail \/ Withdraw

Next == window' \/ (~window /\ Change /\ UNCHANGED window)

Spec == Init /\ [][Next]_<<shown, window>>
=============================================================================
