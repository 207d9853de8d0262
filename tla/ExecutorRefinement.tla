------------------------- MODULE ExecutorRefinement -------------------------
(***************************************************************************)
(* The executor implements AtomicApply.  The many file operations of a     *)
(* run collapse into the single transition at its end, so the abstract     *)
(* tree is the tree as it was when the plan was admitted; a history        *)
(* variable keeps it, together with what the editor has changed since.     *)
(***************************************************************************)
EXTENDS Executor

VARIABLE seen

rvars == <<disk, made, debris, holder, pc, job, at, left, temp, aim, foreign, faults, edits, seen>>

Underway == \E p \in Proc : pc[p] \in Admission

Remember ==
  seen' = IF ~Underway'
            THEN disk'
            ELSE [w \in Path |-> IF edits' # edits /\ disk'[w] # disk[w] THEN disk'[w] ELSE seen[w]]

RInit == Init /\ seen = disk
RNext == Next /\ Remember
RSpec == RInit /\ [][RNext]_rvars

Status(label) ==
  CASE label = "idle" -> "idle"
    [] label \in {"waiting", "sweeping", "checking"} -> "asked"
    [] label \in Admission -> "admitted"
    [] label = "done" -> "applied"
    [] label = "refused" -> "refused"
    [] label \in {"failed", "dead"} -> "interrupted"

Abstract == INSTANCE AtomicApply WITH
  tree <- seen,
  status <- [p \in Proc |-> Status(pc[p])],
  plan <- job

(* Every run, crash and editor's save is a step AtomicApply allows: what a *)
(* run publishes appears at once at its end, between its admission and     *)
(* that end no other run's files change, and what a refused run leaves is  *)
(* what it found.                                                          *)
AppliesAtomically == Abstract!ASpec
=============================================================================
