------------------------------ MODULE Executor ------------------------------
(***************************************************************************)
(* The one canonical project writer (jails-workspace `execute`), run by    *)
(* several jails processes against one project beside an editor that knows *)
(* nothing of the lock.                                                    *)
(*                                                                         *)
(* A run takes `.jails/apply.lock`, sweeps what a dead run staged, checks  *)
(* the plan's preconditions against the tree as it is now, probes every    *)
(* directory it will write, publishes file by file, and verifies.  A run   *)
(* may stop at any point: an error unwinds and drops the staged file, an   *)
(* abort leaves it.  Nothing is rolled back.                               *)
(***************************************************************************)
EXTENDS PlanBundle

CONSTANTS
  Proc,        \* jails processes
  Plans,       \* the bundles they may be handed
  KeptDirs,    \* source-set roots and `.jails`: never removed when empty
  EditorPaths, \* the paths the editor writes
  EditorImage, \* what it writes there
  MaxFaults,   \* bound: failed or aborted runs
  MaxEdits,    \* bound: edits by the editor
  None

ASSUME PlansAssumption == \A b \in Plans : IsBundle(b) /\ WellFormed(b)
ASSUME EditorAssumption == EditorPaths \subseteq Path /\ EditorImage \subseteq Content
ASSUME BoundsAssumption == MaxFaults \in Nat /\ MaxEdits \in Nat
ASSUME NoneAssumption == None \notin Proc /\ None \notin Dir /\ None \notin Path /\ None \notin Plans

VARIABLES
  disk,    \* the content of every project path
  made,    \* the directories that exist
  debris,  \* the directories in which a dead run left a staged file
  holder,  \* the process that holds the lock, or None
  pc,      \* where each process is in `execute`
  job,     \* the bundle each process was handed, or None
  at,      \* the operation it is on
  left,    \* the directories it has yet to probe, or that operation's paths yet to publish
  temp,    \* the directory its live staged file is in, or None
  aim,     \* the path that file is to become, or None for a probe
  foreign, \* history: the paths and littered directories somebody else has
           \* changed since the process last found its plan admitted
  faults, edits

files == <<disk, made, debris>>
progress == <<job, at, left, temp, aim>>
vars == <<disk, made, debris, holder, pc, job, at, left, temp, aim, foreign, faults, edits>>

Over == {"done", "refused", "failed", "dead"}
Holding == {"sweeping", "checking", "probing", "publishing", "verifying"}
Admission == {"probing", "publishing", "verifying"}

Init ==
  /\ disk \in Tree
  /\ made \in SUBSET Dir
  /\ KeptDirs \cup ParentsOf({w \in Path : disk[w] # Absent}) \subseteq made
  /\ debris = {}
  /\ holder = None
  /\ pc = [p \in Proc |-> "idle"]
  /\ job = [p \in Proc |-> None]
  /\ at = [p \in Proc |-> 0]
  /\ left = [p \in Proc |-> {}]
  /\ temp = [p \in Proc |-> None]
  /\ aim = [p \in Proc |-> None]
  /\ foreign = [p \in Proc |-> Path \cup Dir]
  /\ faults = 0
  /\ edits = 0

-----------------------------------------------------------------------------
(* Everyone but p sees these paths and littered directories change.        *)
SeenByOthers(p, changed) ==
  foreign' = [q \in Proc |-> IF q = p THEN foreign[q] ELSE foreign[q] \cup changed]

Goto(p, label) == pc' = [pc EXCEPT ![p] = label]

(* `execute` returns or the process dies: its locals go, and so does the   *)
(* lock, which is an open file of the process.                             *)
Leave(p, label) ==
  /\ Goto(p, label)
  /\ holder' = IF holder = p THEN None ELSE holder
  /\ at' = [at EXCEPT ![p] = 0]
  /\ left' = [left EXCEPT ![p] = {}]
  /\ temp' = [temp EXCEPT ![p] = None]
  /\ aim' = [aim EXCEPT ![p] = None]

SweptDirs(b) == ParentsOf(DesiredPaths(b))

ProbedDirs(b) ==
  ParentsOf(DesiredPaths(b)) \cup (ParentsOf(RemovedPaths(b)) \cap made)

CurrentOp(p) == job[p].ops[at[p]]

PathsOf(b, i) == IF i \in DOMAIN b.ops THEN Touched(b.ops[i]) ELSE {}

-----------------------------------------------------------------------------
(* `execute` is called with a verified bundle; the lock is asked for.      *)
Begin(p, b) ==
  /\ pc[p] = "idle"
  /\ Goto(p, "waiting")
  /\ job' = [job EXCEPT ![p] = b]
  /\ UNCHANGED <<files, holder, at, left, temp, aim, foreign, faults, edits>>

(* The same bundle again, however the last run of it ended.                *)
Rerun(p) ==
  /\ pc[p] \in Over
  /\ Goto(p, "waiting")
  /\ UNCHANGED <<files, holder, progress, foreign, faults, edits>>

(* Mutant: the lock is shared.                                             *)
AcquireShared(p) ==
  /\ pc[p] = "waiting"
  /\ holder' = p
  /\ Goto(p, "sweeping")
  /\ UNCHANGED <<files, progress, foreign, faults, edits>>

(* lock_exclusive blocks until nobody holds the file.                      *)
Acquire(p) ==
  /\ pc[p] = "waiting"
  /\ holder = None
  /\ holder' = p
  /\ Goto(p, "sweeping")
  /\ UNCHANGED <<files, progress, foreign, faults, edits>>

(* Mutant: published trees are not swept, only single files.               *)
SweepFilesOnly(p) ==
  LET swept == ParentsOf(UNION {Written(op) : op \in {o \in {job[p].ops[i] : i \in DOMAIN job[p].ops} :
                                                      o.kind # "tree"}})
  IN /\ pc[p] = "sweeping"
     /\ debris' = debris \ swept
     /\ SeenByOthers(p, debris \cap swept)
     /\ Goto(p, "checking")
     /\ UNCHANGED <<disk, made, holder, progress, faults, edits>>

(* sweep_staged: every staged file beside a path the plan publishes.  A    *)
(* live run's file there would go with the dead ones.                      *)
Sweep(p) ==
  LET swept == SweptDirs(job[p])
  IN /\ pc[p] = "sweeping"
     /\ debris' = debris \ swept
     /\ temp' = [q \in Proc |-> IF temp[q] \in swept THEN None ELSE temp[q]]
     /\ SeenByOthers(p, debris \cap swept)
     /\ Goto(p, "checking")
     /\ UNCHANGED <<disk, made, holder, job, at, left, aim, faults, edits>>

(* Mutant: the preconditions are not checked again under the lock.         *)
AdmitUnchecked(p) ==
  /\ pc[p] = "checking"
  /\ Goto(p, "probing")
  /\ left' = [left EXCEPT ![p] = ProbedDirs(job[p])]
  /\ foreign' = [foreign EXCEPT ![p] = {}]
  /\ UNCHANGED <<files, holder, job, at, temp, aim, faults, edits>>

(* verify_preconditions.                                                   *)
Admit(p) ==
  /\ pc[p] = "checking"
  /\ Admitted(disk, debris, job[p])
  /\ Goto(p, "probing")
  /\ left' = [left EXCEPT ![p] = ProbedDirs(job[p])]
  /\ foreign' = [foreign EXCEPT ![p] = {}]
  /\ UNCHANGED <<files, holder, job, at, temp, aim, faults, edits>>

Refuse(p) ==
  /\ pc[p] = "checking"
  /\ ~Admitted(disk, debris, job[p])
  /\ Leave(p, "refused")
  /\ UNCHANGED <<files, job, foreign, faults, edits>>

(* preflight_writable: the directory is made, a file staged in it ...      *)
Probe(p, d) ==
  /\ pc[p] = "probing"
  /\ temp[p] = None
  /\ d \in left[p]
  /\ made' = made \cup {d}
  /\ temp' = [temp EXCEPT ![p] = d]
  /\ left' = [left EXCEPT ![p] = @ \ {d}]
  /\ UNCHANGED <<disk, debris, holder, pc, job, at, aim, foreign, faults, edits>>

(* ... and dropped.                                                        *)
DropProbe(p) ==
  /\ pc[p] = "probing"
  /\ temp[p] # None
  /\ temp' = [temp EXCEPT ![p] = None]
  /\ UNCHANGED <<files, holder, pc, job, at, left, aim, foreign, faults, edits>>

(* Mutant: the acceptance marker is published first.                       *)
StartAtMarker(p) ==
  /\ pc[p] = "probing"
  /\ temp[p] = None
  /\ left[p] = {}
  /\ Goto(p, "publishing")
  /\ at' = [at EXCEPT ![p] = Len(job[p].ops)]
  /\ left' = [left EXCEPT ![p] = PathsOf(job[p], Len(job[p].ops))]
  /\ UNCHANGED <<files, holder, job, temp, aim, foreign, faults, edits>>

StartOperations(p) ==
  /\ pc[p] = "probing"
  /\ temp[p] = None
  /\ left[p] = {}
  /\ Goto(p, "publishing")
  /\ at' = [at EXCEPT ![p] = 1]
  /\ left' = [left EXCEPT ![p] = PathsOf(job[p], 1)]
  /\ UNCHANGED <<files, holder, job, temp, aim, foreign, faults, edits>>

-----------------------------------------------------------------------------
(* Publishing one operation.  The files of a tree are written before the   *)
(* first retired one is removed; their order within a tree is left open.   *)
Publishing(p) == pc[p] = "publishing" /\ at[p] \in DOMAIN job[p].ops

ToWrite(p) == left[p] \cap Written(CurrentOp(p))

Handled(p, w) == left' = [left EXCEPT ![p] = @ \ {w}]

(* An operation whose after-image is already on disk is skipped.           *)
SkipWrite(p, w) ==
  /\ Publishing(p)
  /\ temp[p] = None
  /\ w \in ToWrite(p)
  /\ disk[w] = CurrentOp(p).after[w]
  /\ Handled(p, w)
  /\ UNCHANGED <<files, holder, pc, job, at, temp, aim, foreign, faults, edits>>

(* Mutant: the file is staged under the destination, not beside it.        *)
StageInside(p, w) ==
  /\ Publishing(p)
  /\ temp[p] = None
  /\ w \in ToWrite(p)
  /\ disk[w] # CurrentOp(p).after[w]
  /\ temp' = [temp EXCEPT ![p] = w]
  /\ aim' = [aim EXCEPT ![p] = w]
  /\ UNCHANGED <<files, holder, pc, job, at, left, foreign, faults, edits>>

(* write_atomic: the bytes go to a staged file beside the destination ...  *)
Stage(p, w) ==
  /\ Publishing(p)
  /\ temp[p] = None
  /\ w \in ToWrite(p)
  /\ disk[w] # CurrentOp(p).after[w]
  /\ made' = made \cup {DirOf[w]}
  /\ temp' = [temp EXCEPT ![p] = DirOf[w]]
  /\ aim' = [aim EXCEPT ![p] = w]
  /\ UNCHANGED <<disk, debris, holder, pc, job, at, left, foreign, faults, edits>>

(* ... which is then renamed over it.                                      *)
Persist(p) ==
  LET w == aim[p]
  IN /\ Publishing(p)
     /\ temp[p] # None
     /\ disk' = [disk EXCEPT ![w] = CurrentOp(p).after[w]]
     /\ Handled(p, w)
     /\ temp' = [temp EXCEPT ![p] = None]
     /\ aim' = [aim EXCEPT ![p] = None]
     /\ SeenByOthers(p, {w})
     /\ UNCHANGED <<made, debris, holder, pc, job, at, faults, edits>>

(* A directory `remove_empty_ancestors` takes away with its last file.     *)
Emptied(p, w, tree) ==
  /\ CurrentOp(p).kind = "tree"
  /\ DirOf[w] \notin KeptDirs \cup debris
  /\ \A q \in Proc : temp[q] # DirOf[w]
  /\ PresentIn(tree, DirOf[w]) = {}

(* The removal of a retired path; one already gone is no error, and its    *)
(* directory is cleaned up all the same.                                   *)
RemoveRetired(p, w) ==
  /\ Publishing(p)
  /\ temp[p] = None
  /\ ToWrite(p) = {}
  /\ w \in left[p] \cap Retired(CurrentOp(p))
  /\ disk' = [disk EXCEPT ![w] = Absent]
  /\ made' = IF Emptied(p, w, disk') THEN made \ {DirOf[w]} ELSE made
  /\ Handled(p, w)
  /\ IF disk[w] # Absent THEN SeenByOthers(p, {w}) ELSE UNCHANGED foreign
  /\ UNCHANGED <<debris, holder, pc, job, at, temp, aim, faults, edits>>

(* Mutant: an operation that is done is taken up again.                    *)
SameOperation(p) ==
  /\ Publishing(p)
  /\ temp[p] = None
  /\ left[p] = {}
  /\ left' = [left EXCEPT ![p] = PathsOf(job[p], at[p])]
  /\ UNCHANGED <<files, holder, pc, job, at, temp, aim, foreign, faults, edits>>

NextOperation(p) ==
  /\ Publishing(p)
  /\ temp[p] = None
  /\ left[p] = {}
  /\ at' = [at EXCEPT ![p] = @ + 1]
  /\ left' = [left EXCEPT ![p] = PathsOf(job[p], at[p] + 1)]
  /\ UNCHANGED <<files, holder, pc, job, temp, aim, foreign, faults, edits>>

FinishOperations(p) ==
  /\ pc[p] = "publishing"
  /\ at[p] \notin DOMAIN job[p].ops
  /\ Goto(p, "verifying")
  /\ UNCHANGED <<files, holder, progress, foreign, faults, edits>>

(* verify_after: every after-image is there and every removal happened.    *)
Verify(p) ==
  /\ pc[p] = "verifying"
  /\ Leave(p, IF Applied(disk, job[p]) THEN "done" ELSE "failed")
  /\ UNCHANGED <<files, job, foreign, faults, edits>>

-----------------------------------------------------------------------------
(* An error anywhere under the lock unwinds: the staged file is dropped.   *)
Fail(p) ==
  /\ pc[p] \in Holding
  /\ faults < MaxFaults
  /\ faults' = faults + 1
  /\ Leave(p, IF pc[p] \in {"sweeping", "checking", "probing"} THEN "refused" ELSE "failed")
  /\ UNCHANGED <<files, job, foreign, edits>>

(* An abort or a lost machine does not unwind: the staged file stays.      *)
Abort(p) ==
  /\ pc[p] \in Holding \cup {"waiting"}
  /\ faults < MaxFaults
  /\ faults' = faults + 1
  /\ debris' = IF temp[p] = None THEN debris ELSE debris \cup {temp[p]}
  /\ SeenByOthers(p, debris' \ debris)
  /\ Leave(p, "dead")
  /\ UNCHANGED <<disk, made, job, edits>>

(* A save or a deletion by the reader, who does not take the lock.         *)
Edit(w, c) ==
  /\ edits < MaxEdits
  /\ edits' = edits + 1
  /\ disk[w] # c
  /\ disk' = [disk EXCEPT ![w] = c]
  /\ made' = IF c = Absent THEN made ELSE made \cup {DirOf[w]}
  /\ foreign' = [q \in Proc |-> foreign[q] \cup {w}]
  /\ UNCHANGED <<debris, holder, pc, progress, faults>>

-----------------------------------------------------------------------------
(* What a run does by itself, once it has the lock.                        *)
Work(p) ==
  \/ Sweep(p)
  \/ Admit(p)
  \/ Refuse(p)
  \/ \E d \in Dir : Probe(p, d)
  \/ DropProbe(p)
  \/ StartOperations(p)
  \/ \E w \in Path : SkipWrite(p, w)
  \/ \E w \in Path : Stage(p, w)
  \/ Persist(p)
  \/ \E w \in Path : RemoveRetired(p, w)
  \/ NextOperation(p)
  \/ FinishOperations(p)
  \/ Verify(p)

Step(p) ==
  \/ \E b \in Plans : Begin(p, b)
  \/ Rerun(p)
  \/ Acquire(p)
  \/ Work(p)
  \/ Fail(p)
  \/ Abort(p)

Next ==
  \/ \E p \in Proc : Step(p)
  \/ \E w \in EditorPaths, c \in EditorImage : Edit(w, c)

Spec == Init /\ [][Next]_vars

(* A run that holds the lock keeps going.                                  *)
FairSpec == Spec /\ \A p \in Proc : WF_vars(Work(p))

(* And whoever was stopped runs the same bundle again, until it gets the   *)
(* lock.                                                                   *)
Retried == \A p \in Proc : WF_vars(Rerun(p) /\ pc[p] # "done") /\ SF_vars(Acquire(p))
-----------------------------------------------------------------------------
TypeOK ==
  /\ disk \in Tree
  /\ made \in SUBSET Dir
  /\ debris \in SUBSET Dir
  /\ holder \in Proc \cup {None}
  /\ pc \in [Proc -> {"idle", "waiting"} \cup Holding \cup Over]
  /\ job \in [Proc -> Plans \cup {None}]
  /\ at \in [Proc -> Nat]
  /\ left \in [Proc -> SUBSET (Path \cup Dir)]
  /\ temp \in [Proc -> Dir \cup {None}]
  /\ aim \in [Proc -> Path \cup {None}]
  /\ foreign \in [Proc -> SUBSET (Path \cup Dir)]
  /\ faults \in 0 .. MaxFaults
  /\ edits \in 0 .. MaxEdits

(* One writer at a time: exactly the process between taking the lock and   *)
(* leaving `execute` holds it, crash or no crash.  It is what lets the     *)
(* sweep call everything it finds a dead run's.                            *)
OneWriter == \A p \in Proc : pc[p] \in Holding <=> holder = p

(* A live run's staged file is still there when it is to be renamed: no    *)
(* other run's sweep has taken it for debris.                              *)
StagedIsLive == \A p \in Proc : aim[p] # None => temp[p] = DirOf[aim[p]]

(* Nothing of a third party's is overwritten: as long as nobody else has   *)
(* changed a path since the plan was admitted, it holds what the plan was  *)
(* reviewed against or what the plan leaves there, at every point of the   *)
(* run, after a crash and during the next attempt.                         *)
OldOrNew ==
  \A p \in Proc : job[p] # None =>
    \A w \in TouchedPaths(job[p]) \ foreign[p] : PathAdmitted(disk, job[p], w)

(* Where somebody else's change could matter to a plan.                    *)
Footprint(b) ==
  LET dirs == DOMAIN b.dirs
  IN DOMAIN b.base \cup TouchedPaths(b) \cup dirs \cup {w \in Path : DirOf[w] \in dirs}

(* Convergence, the claim that replaces a rollback: a plan that was        *)
(* admitted once is admitted again, wherever its run stopped, as long as   *)
(* nobody else has moved the project under it.                             *)
RerunAdmitted ==
  \A p \in Proc : job[p] # None =>
    (Footprint(job[p]) \cap foreign[p] = {}
       => Admitted(disk, debris \ SweptDirs(job[p]), job[p]))

(* The last operation is the acceptance marker: the step that puts its     *)
(* after-image on disk finds everything else the plan touches published,   *)
(* whether the run is the first or a retry of one that was cut short, and  *)
(* but for what somebody else changed since the plan was admitted.         *)
MarkerLast ==
  [][\A p \in Proc :
       LET b == job[p]
           marker == UNION {Written(b.ops[i]) : i \in DOMAIN b.ops \cap {Len(b.ops)}}
       IN holder = p /\ edits' = edits /\ (\E w \in marker : disk'[w] # disk[w])
            => \A w \in TouchedPaths(b) \ (marker \cup foreign[p]) : disk[w] = Desired(b, w)]_vars

(* A run that was admitted has left no staged file of an earlier one       *)
(* beside anything it publishes.                                           *)
SweptClean ==
  \A p \in Proc : pc[p] \in Admission \cup {"done"} =>
    debris \cap SweptDirs(job[p]) \subseteq foreign[p]

(* Every run that gets the lock lets go of it.                             *)
LockReleased == \A p \in Proc : holder = p ~> holder # p

(* A plan that was admitted is applied in the end if it is run again after *)
(* every time it is cut short, unless somebody else moves the project      *)
(* under it: no way of stopping it leaves a tree it cannot finish.         *)
Unmoved(p) == job[p] # None /\ Footprint(job[p]) \cap foreign[p] = {}

Converges == \A p \in Proc : Unmoved(p) ~> ~Unmoved(p) \/ Applied(disk, job[p])
=============================================================================
