-------------------------- MODULE MCImportPipeline --------------------------
(* Small instances of ImportPipeline.  Videos and contents are              *)
(* interchangeable.                                                         *)
EXTENDS ImportPipeline, TLC

MCSymmetry == Permutations(Videos) \cup Permutations(Contents)

=============================================================================
