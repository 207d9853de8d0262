--------------------------- MODULE MCManagedFile ----------------------------
(* Two regions, three words: every way two sides can differ from a third.  *)
EXTENDS ManagedFile
=============================================================================
