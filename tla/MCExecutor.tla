----------------------------- MODULE MCExecutor -----------------------------
(***************************************************************************)
(* The executor on one small project: a managed class that changes, one    *)
(* that is dropped and takes its package with it, the merge base, the      *)
(* model, the compiler lock, and a migration directory with one published  *)
(* migration.                                                              *)
(***************************************************************************)
EXTENDS Executor, Invert, TLC

MCPath == {"Note", "Memo", "base", "model", "lock", "V1", "V2"}
MCDir == {"src", "memo", "state", "db"}
MCDirOf ==
  [w \in MCPath |->
     CASE w = "Note" -> "src"
       [] w = "Memo" -> "memo"
       [] w \in {"base", "model", "lock"} -> "state"
       [] w \in {"V1", "V2"} -> "db"]
MCImage == {"0", "1", "2", "x"}
MCKeptDirs == {"src", "state"}

Project == [w \in MCPath |-> IF w = "V2" THEN "-" ELSE "0"]

Nothing == [w \in {} |-> "-"]
At(w, i) == w :> i
Operate(kind, before, after) == [kind |-> kind, before |-> before, after |-> after]

Captured ==
  [base |-> Project,
   dirs |-> "db" :> [files |-> At("V1", "0"), litter |-> FALSE]]

PlanOf(ops) == [base |-> Captured.base, dirs |-> Captured.dirs, ops |-> ops]

(* A field is added and an entity dropped.                                 *)
Generate == PlanOf(<<
  Operate("tree", At("Note", "0") @@ At("Memo", "0"), At("Note", "1")),
  Operate("tree", At("base", "0"), At("base", "1")),
  Operate("append", Nothing, At("V2", "1")),
  Operate("file", At("model", "0"), At("model", "1")),
  Operate("file", At("lock", "0"), At("lock", "1"))>>)

(* Another command planned on the same project.                            *)
Rival == PlanOf(<<
  Operate("tree", At("Note", "0") @@ At("Memo", "0"), At("Note", "2") @@ At("Memo", "0")),
  Operate("tree", At("base", "0"), At("base", "2")),
  Operate("file", At("model", "0"), At("model", "2")),
  Operate("file", At("lock", "0"), At("lock", "2"))>>)

Undo == InverseBundle(Generate)

MCInit == disk = Project /\ made = MCDir /\ Init
MCSpec == MCInit /\ [][Next]_vars
MCFairSpec == MCSpec /\ (\A p \in Proc : WF_vars(Work(p))) /\ Retried

GenerateAndRival == {Generate, Rival}
AllPlans == {Generate, Rival, Undo}

(* They are plans the theorems about retries and the marker speak of.      *)
ASSUME PlansShape == \A b \in AllPlans : Marked(b) /\ GuardsAppends(b)

ProcSymmetry == Permutations(Proc)
=============================================================================
