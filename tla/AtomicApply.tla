---------------------------- MODULE AtomicApply -----------------------------
(***************************************************************************)
(* What the executor promises its callers: applying a plan is optimistic   *)
(* concurrency control over the project tree.  A plan is admitted against  *)
(* the tree, one at a time; from there it commits as a whole, or is        *)
(* interrupted with some of its paths published and every other path as it *)
(* was.  A refused plan changes nothing.  Only the editor may come between *)
(* an admission and its commit.                                            *)
(***************************************************************************)
EXTENDS PlanBundle

CONSTANTS Proc, Plans, None

VARIABLES
  tree,    \* the project tree, as of the last whole transition
  status,  \* what has become of each process's plan
  plan     \* the plan each process was handed, or None

avars == <<tree, status, plan>>

Settled == {"applied", "refused", "interrupted"}

AInit ==
  /\ tree \in Tree
  /\ status = [p \in Proc |-> "idle"]
  /\ plan = [p \in Proc |-> None]

Become(p, s) == status' = [status EXCEPT ![p] = s]

Ask(p) ==
  /\ \/ /\ status[p] = "idle"
        /\ \E b \in Plans : plan' = [plan EXCEPT ![p] = b]
     \/ /\ status[p] \in Settled
        /\ UNCHANGED plan
  /\ Become(p, "asked")
  /\ UNCHANGED tree

AdmitPlan(p) ==
  /\ status[p] = "asked"
  /\ \A q \in Proc : status[q] # "admitted"
  /\ FilesAdmitted(tree, plan[p])
  /\ Become(p, "admitted")
  /\ UNCHANGED <<tree, plan>>

RefusePlan(p) ==
  /\ status[p] \in {"asked", "admitted"}
  /\ Become(p, "refused")
  /\ UNCHANGED <<tree, plan>>

Commit(p) ==
  /\ status[p] = "admitted"
  /\ tree' = Published(tree, plan[p], TouchedPaths(plan[p]))
  /\ Become(p, "applied")
  /\ UNCHANGED plan

Interrupt(p) ==
  /\ status[p] \in {"asked", "admitted"}
  /\ \E done \in SUBSET TouchedPaths(plan[p]) :
       /\ status[p] = "asked" => done = {}
       /\ tree' = Published(tree, plan[p], done)
  /\ Become(p, "interrupted")
  /\ UNCHANGED plan

EditTree ==
  /\ \E w \in Path, c \in Content : tree' = [tree EXCEPT ![w] = c]
  /\ UNCHANGED <<status, plan>>

ANext == EditTree \/ \E p \in Proc :
  Ask(p) \/ AdmitPlan(p) \/ RefusePlan(p) \/ Commit(p) \/ Interrupt(p)

ASpec == AInit /\ [][ANext]_avars
=============================================================================
