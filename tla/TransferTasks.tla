--------------------------- MODULE TransferTasks ---------------------------
(***************************************************************************)
(* What run_bounded_transfers promises the import that calls it: objects   *)
(* are stored while it runs and not after it has returned, each is         *)
(* reported once and not before it is stored, and it returns normally only *)
(* when all of them are reported.                                          *)
(***************************************************************************)
EXTENDS Naturals

CONSTANT Tasks

VARIABLES stored, reported, outcome

vars == <<stored, reported, outcome>>

Init ==
    /\ stored \subseteq Tasks
    /\ reported = [t \in Tasks |-> 0]
    /\ outcome = "running"

Store(t) ==
    /\ outcome = "running" /\ stored' = stored \cup {t}
    /\ UNCHANGED <<reported, outcome>>

Report(t) ==
    /\ outcome = "running" /\ t \in stored /\ reported[t] = 0
    /\ reported' = [reported EXCEPT ![t] = 1]
    /\ UNCHANGED <<stored, outcome>>

Return ==
    /\ outcome = "running"
    /\ \/ outcome' = "ok" /\ \A t \in Tasks : reported[t] = 1
       \/ outcome' \in {"raised", "cancelled"}
    /\ UNCHANGED <<stored, reported>>

Next == Return \/ \E t \in Tasks : Store(t) \/ Report(t)

Spec == Init /\ [][Next]_vars

=============================================================================
