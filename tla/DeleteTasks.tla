----------------------------- MODULE DeleteTasks -----------------------------
(***************************************************************************)
(* What the background job system promises about deletions, whatever the   *)
(* requests and restarts around them: a deletion that was requested is     *)
(* queued once, runs alone and at most once, cannot be cancelled or        *)
(* retried, and is forgotten only after it has finished.                   *)
(***************************************************************************)
CONSTANT Tasks

VARIABLE phase

Phases == {"none", "queued", "running", "completed", "failed", "cleared"}

TypeOK == phase \in [Tasks -> Phases]

Init == phase = [t \in Tasks |-> "none"]

Move(t, from, to) == /\ phase[t] = from
                     /\ phase' = [phase EXCEPT ![t] = to]

Request(t) == Move(t, "none", "queued")

Start(t) == /\ \A u \in Tasks : phase[u] # "running"
            /\ Move(t, "queued", "running")

Complete(t) == Move(t, "running", "completed")

Fail(t) == Move(t, "queued", "failed") \/ Move(t, "running", "failed")

\* The user clears finished deletions from the list, any number at once.
Forget ==
    \E S \in SUBSET {t \in Tasks : phase[t] \in {"completed", "failed"}} :
        phase' = [t \in Tasks |-> IF t \in S THEN "cleared" ELSE phase[t]]

Next == Forget \/ \E t \in Tasks : Request(t) \/ Start(t) \/ Complete(t) \/ Fail(t)

Spec == Init /\ [][Next]_phase

=============================================================================
