------------------------------- MODULE Invert -------------------------------
(***************************************************************************)
(* The inverse of an applied plan: what `jails undo` hands the executor.   *)
(* Every operation carries both images, so the inverse is the same bundle  *)
(* read backwards, with the after-images as its preconditions.             *)
(***************************************************************************)
EXTENDS PlanBundle

Seqs == INSTANCE SequencesExt

(* A created file is removed, a removed one is patched back, a tree and a  *)
(* replacement are swapped.                                                *)
InverseKind(op) ==
  CASE op.kind = "tree" -> "tree"
    [] op.kind # "tree" /\ Written(op) = {} -> "file"
    [] op.kind # "tree" /\ Written(op) # {} /\ DOMAIN op.before = {} -> "remove"
    [] OTHER -> "file"

(* Mutant: a published tree is taken to have replaced nothing.             *)
InverseOpOverNothing(op) ==
  [kind |-> InverseKind(op), before |-> op.after,
   after |-> IF op.kind = "tree" THEN << >> ELSE op.before]

InverseOp(op) == [kind |-> InverseKind(op), before |-> op.after, after |-> op.before]

(* Only an after-image becomes a precondition; a removed file must still   *)
(* be missing.  A path a tree retired gets none.                           *)
InverseBase(b) ==
  LET removed == UNION {Retired(b.ops[i]) : i \in {j \in DOMAIN b.ops : b.ops[j].kind = "remove"}}
  IN [w \in DesiredPaths(b) \cup removed |-> Desired(b, w)]

InverseBundle(b) ==
  [base |-> InverseBase(b),
   dirs |-> [d \in {} |-> {}],
   ops  |-> Seqs!Reverse([i \in DOMAIN b.ops |-> InverseOp(b.ops[i])])]
=============================================================================
