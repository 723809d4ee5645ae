--------------------------- MODULE MCImportWorker ---------------------------
(* ImportWorker on small instances.  Handlers and videos are interchangeable. *)
EXTENDS ImportWorker, TLC

CONSTANTS c1, c2, v1

MCSymmetry == Permutations({c1, c2})

MCAll == AllRequests

=============================================================================
