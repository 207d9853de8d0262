---------------------------- MODULE MCRefinement ----------------------------
(* The project of MCExecutor with the history variable of the refinement.  *)
EXTENDS MCExecutor, ExecutorRefinement

MCRSpec == MCInit /\ seen = disk /\ [][RNext]_rvars
=============================================================================
