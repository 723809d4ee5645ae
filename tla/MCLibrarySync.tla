--------------------------- MODULE MCLibrarySync ---------------------------
(* LibrarySync on small instances.                                         *)
EXTENDS LibrarySync

CONSTANT e1

=============================================================================
