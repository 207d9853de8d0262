------------------------------ MODULE Pipeline ------------------------------
(***************************************************************************)
(* Whole commands: several jails processes plan against one project and    *)
(* apply what they planned, while the reader edits the files jails manages.*)
(* Planning takes no lock, so the project may move between a plan and its  *)
(* application; only the plan's own preconditions stand in between.        *)
(***************************************************************************)
EXTENDS Executor, Planner

CONSTANTS
  Commands,   \* the commands that are run
  MaxPlans,   \* bound: plans made
  Mine        \* what the reader types

ASSUME CommandsAssumption == \A cmd \in Commands : IsCommand(cmd)
ASSUME PlanBoundAssumption == MaxPlans \in Nat
ASSUME MineAssumption == Mine \in Word

VARIABLES
  plans,   \* plans made so far
  typed    \* history: the regions the reader typed into, while no plan was being applied

pvars == <<disk, made, debris, holder, pc, job, at, left, temp, aim, foreign, faults, edits, plans, typed>>

PInit == Init /\ Sound(disk) /\ plans = 0 /\ typed = {}

-----------------------------------------------------------------------------
(* A command captures the project, compiles and materializes; nobody is    *)
(* kept from writing meanwhile.                                            *)
Plan(p, cmd) ==
  /\ pc[p] \in {"idle"} \cup Over
  /\ plans < MaxPlans
  /\ plans' = plans + 1
  /\ disk[ModelFile] = cmd.from
  /\ ~PlanRefused(disk, cmd)
  /\ Named(disk, cmd)
  /\ Goto(p, "waiting")
  /\ job' = [job EXCEPT ![p] = Materialized(disk, debris, cmd)]
  /\ foreign' = [foreign EXCEPT ![p] = Path \cup Dir]
  /\ UNCHANGED <<files, holder, at, left, temp, aim, faults, edits, typed>>

(* The plan is applied, or applied again.                                  *)
Apply(p) ==
  /\ Rerun(p) \/ Acquire(p) \/ Work(p) \/ Fail(p) \/ Abort(p)
  /\ UNCHANGED <<plans, typed>>

Applying == \E p \in Proc : pc[p] \in Admission

(* The paths an artifact is rendered at, and those the artifact at w can be *)
(* moved to by a rename.                                                   *)
Places(a) == {Renders[m][a].path : m \in {n \in Model : a \in DOMAIN Renders[n]}}

Homes(w) ==
  UNION {Places(a) : a \in {b \in UNION {DOMAIN Renders[m] : m \in Model} : w \in Places(b)}}

(* The reader types into a managed file.                                   *)
Type(w, r) ==
  /\ w \in DOMAIN BaseOf
  /\ disk[w] \in Text
  /\ Edit(w, [disk[w] EXCEPT ![r] = Mine])
  /\ typed' = IF Applying THEN typed ELSE typed \cup {<<w, r>>}
  /\ UNCHANGED plans

(* The reader deletes a file.                                              *)
Delete(w) ==
  /\ Edit(w, Absent)
  /\ typed' = {t \in typed : w \notin Homes(t[1])}
  /\ UNCHANGED plans

PNext ==
  \/ \E p \in Proc : (\E cmd \in Commands : Plan(p, cmd)) \/ Apply(p)
  \/ \E w \in EditorPaths : Delete(w) \/ \E r \in Region : Type(w, r)

PSpec == PInit /\ [][PNext]_pvars
-----------------------------------------------------------------------------
(* Every plan is one the executor may be handed, and its last operation is *)
(* a commit marker.                                                        *)
PlansWellFormed == \A p \in Proc : job[p] # None => WellFormed(job[p]) /\ Marked(job[p])

(* No run has stopped between its admission and its end.                   *)
Undisturbed == faults = 0 /\ ~Applying

(* What the reader typed between commands is still in the project, however *)
(* many commands have since rendered that file again, in whatever order    *)
(* their plans were made and applied, and wherever a run stopped.          *)
HandEditKept ==
  \A t \in typed : \E w \in Homes(t[1]) : disk[w] # Absent /\ disk[w][t[2]] = Mine

(* Two plans made on one project never both publish a migration under one  *)
(* number, though their file names differ and neither saw the other's.     *)
NumbersUnique == Duplicates(disk) = {}

(* The migrations that the lock seals.                                     *)
Chain(tree) == {slot \in DOMAIN Slot : Slot[slot] \in DOMAIN Sealed(tree)}

(* The schema that these migrations leave, run in the order of their       *)
(* numbers.                                                                *)
SchemaLeft(slots) ==
  IF slots = {} THEN Schema[Absent]
    ELSE (CHOOSE s \in slots : \A t \in slots : t[1] <= s[1])[2].leaves

(* Each of them starts from what the ones before it left, and together     *)
(* they lead to this schema.                                               *)
Leads(slots, schema) ==
  /\ SchemaLeft(slots) = schema
  /\ \A s \in slots : s[2].finds = SchemaLeft({t \in slots : t[1] < s[1]})

Chained(tree) == Leads(Chain(tree), Schema[Accepted(tree)])

NoGaps(tree) == \A s \in Taken(tree) : s[1] = 1 \/ \E t \in Taken(tree) : t[1] + 1 = s[1]

(* The sealed migrations are one chain that ends at the accepted schema:   *)
(* no step is derived twice and none is missing, in whatever order plans   *)
(* were made and applied and wherever a run was cut short.  No number is   *)
(* left out, and unless a run was cut short nothing else is published but  *)
(* what the reader asked for.                                              *)
SchemaChain ==
  /\ Chained(disk)
  /\ NoGaps(disk)
  /\ Undisturbed => Taken(disk) \cap Sealable \subseteq Chain(disk)

(* The steady state: when no run was cut short and every file the          *)
(* projection names is there, a `sync` is never refused and has nothing to *)
(* do, hand edits or not, as soon as the lock has accepted the model.      *)
SyncHasNothingToDo ==
  \A cmd \in Commands :
    /\ Undisturbed
    /\ cmd.from = cmd.to /\ cmd.authored = << >>
    /\ disk[ModelFile] = cmd.to
    /\ Accepted(disk) = cmd.to
    /\ \A w \in PathsIn(Renders[cmd.to]) : disk[w] # Absent
    => ~PlanRefused(disk, cmd) /\ Operations(disk, cmd) = << >>
=============================================================================
