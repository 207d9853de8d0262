------------------------------- MODULE Claims -------------------------------
(***************************************************************************)
(* What a comment says of the pipeline that the code does not bear out.    *)
(***************************************************************************)
EXTENDS Pipeline

(* materialize.rs on publishing the lock last: "If the process stops       *)
(* before this operation, the old accepted projection remains BASE and the *)
(* same command can converge the partially published workspace without a   *)
(* WAL."  Nobody has edited anything and nobody is under way, so a command *)
(* whose model is still the one it started from can be planned, and does   *)
(* not derive once more what a run before it published.                    *)
SameCommandConverges ==
  \A cmd \in Commands :
    edits = 0 /\ ~Applying /\ disk[ModelFile] = cmd.from =>
      /\ ~PlanRefused(disk, cmd)
      /\ \A s \in Taken(disk) \ Chain(disk), i \in DOMAIN Derived(disk, cmd) :
           s[2] # Derived(disk, cmd)[i]
=============================================================================
