--------------------------- MODULE ExecutorProofs ---------------------------
(***************************************************************************)
(* What the executor keeps for any number of processes, paths, plans,      *)
(* faults and edits: its types, one writer under the lock, a staged file   *)
(* nobody sweeps away, no third image in any file it touches, no debris,   *)
(* the marker last, a half-finished tree that is accepted again, and that  *)
(* all this is AtomicApply.                                                *)
(***************************************************************************)
EXTENDS ExecutorRefinement, TLAPS

-----------------------------------------------------------------------------
(* Facts about one bundle.                                                 *)

(* Operations that write one path agree on its image, so the image a plan  *)
(* leaves at a path is that of any operation that writes it.               *)
LEMMA DesiredImage ==
  ASSUME NEW b, IsBundle(b), WellFormed(b),
         NEW i \in DOMAIN b.ops, NEW w \in Written(b.ops[i])
  PROVE  /\ w \in DesiredPaths(b)
         /\ w \in Path
         /\ Desired(b, w) = b.ops[i].after[w]
         /\ b.ops[i].after[w] \in Image
<1>1. w \in DesiredPaths(b)
  BY DEF DesiredPaths
<1> DEFINE j == CHOOSE k \in DOMAIN b.ops : w \in Written(b.ops[k])
<1>2. j \in DOMAIN b.ops /\ w \in Written(b.ops[j])
  OBVIOUS
<1>3. Desired(b, w) = b.ops[j].after[w]
  BY <1>1 DEF Desired
<1>4. b.ops[j].after[w] = b.ops[i].after[w]
  BY <1>2 DEF WellFormed
<1>5. PartialFunction(b.ops[i].after, Path, Image)
  BY DEF IsBundle, IsOperation
<1>6. w \in Path /\ b.ops[i].after[w] \in Image
  BY <1>5 DEF PartialFunction, Written
<1> QED
  BY <1>1, <1>3, <1>4, <1>6

(* A path an operation retires is one the whole plan leaves absent.        *)
LEMMA RetiredIsAbsent ==
  ASSUME NEW b, IsBundle(b), WellFormed(b),
         NEW i \in DOMAIN b.ops, NEW w \in Retired(b.ops[i])
  PROVE  /\ w \in RemovedPaths(b)
         /\ w \in Path
         /\ Desired(b, w) = Absent
<1>1. IsOperation(b.ops[i])
  BY DEF IsBundle
<1>2. b.ops[i].kind \in {"tree", "remove"}
  BY <1>1 DEF WellFormed, IsOperation
<1>3. w \in RemovedPaths(b)
  BY <1>2 DEF RemovedPaths
<1>4. w \notin DesiredPaths(b)
  BY <1>3 DEF WellFormed
<1>5. w \in Path
  BY <1>1 DEF IsOperation, PartialFunction, Retired
<1> QED
  BY <1>3, <1>4, <1>5 DEF Desired

(* The paths a plan writes, removes or handles in one operation are project *)
(* paths.                                                                  *)
LEMMA TouchedTypes ==
  ASSUME NEW b, IsBundle(b)
  PROVE  /\ DesiredPaths(b) \subseteq Path
         /\ RemovedPaths(b) \subseteq Path
         /\ \A i : PathsOf(b, i) \subseteq Path
<1>1. \A i \in DOMAIN b.ops : Written(b.ops[i]) \subseteq Path /\ Retired(b.ops[i]) \subseteq Path
  BY DEF IsBundle, IsOperation, PartialFunction, Written, Retired
<1> QED
  BY <1>1 DEF DesiredPaths, RemovedPaths, PathsOf, Touched

(* The directories it sweeps and probes are project directories.           *)
LEMMA ParentTypes ==
  ASSUME NEW b, IsBundle(b)
  PROVE  SweptDirs(b) \subseteq Dir /\ ProbedDirs(b) \subseteq Dir
  BY TouchedTypes, PathAssumption DEF SweptDirs, ProbedDirs, ParentsOf
-----------------------------------------------------------------------------
(* Whoever calls the executor.  Nothing below depends on where a plan      *)
(* comes from, or on how often a process is handed a new one, as long as   *)
(* it is one the executor may be handed; nor on where an editor writes.    *)
Fit(b) == IsBundle(b) /\ WellFormed(b)

Hand(p, b) ==
  /\ pc[p] \in {"idle"} \cup Over
  /\ Fit(b)
  /\ Goto(p, "waiting")
  /\ job' = [job EXCEPT ![p] = b]
  /\ foreign' = [foreign EXCEPT ![p] = Path \cup Dir]
  /\ UNCHANGED <<files, holder, at, left, temp, aim, faults, edits>>

OpenStep(p) ==
  \/ \E b : Hand(p, b)
  \/ Rerun(p)
  \/ Acquire(p)
  \/ Work(p)
  \/ Fail(p)
  \/ Abort(p)

OpenNext ==
  \/ \E p \in Proc : OpenStep(p)
  \/ \E w \in Path, c \in Content : Edit(w, c)

(* The types of everything but the plans.                                  *)
Typed ==
  /\ disk \in Tree
  /\ made \in SUBSET Dir
  /\ debris \in SUBSET Dir
  /\ holder \in Proc \cup {None}
  /\ pc \in [Proc -> {"idle", "waiting"} \cup Holding \cup Over]
  /\ job = [p \in Proc |-> job[p]]
  /\ at \in [Proc -> Nat]
  /\ left \in [Proc -> SUBSET (Path \cup Dir)]
  /\ temp \in [Proc -> Dir \cup {None}]
  /\ aim \in [Proc -> Path \cup {None}]
  /\ foreign \in [Proc -> SUBSET (Path \cup Dir)]
  /\ faults \in 0 .. MaxFaults
  /\ edits \in 0 .. MaxEdits

-----------------------------------------------------------------------------
(* The inductive invariant.  A process that is not under the lock has no   *)
(* staged file, so the one that sweeps finds only dead runs'; a file is    *)
(* staged for a path of the current operation that is still to be written. *)
Staging ==
  \A p \in Proc :
    /\ pc[p] # "idle" => Fit(job[p])
    /\ pc[p] = "idle" => job[p] = None /\ Path \cup Dir \subseteq foreign[p]
    /\ pc[p] \notin {"probing", "publishing"} => temp[p] = None
    /\ pc[p] # "publishing" \/ temp[p] = None => aim[p] = None
    /\ pc[p] = "publishing" /\ temp[p] # None =>
         /\ aim[p] # None
         /\ at[p] \in DOMAIN job[p].ops
         /\ aim[p] \in Written(job[p].ops[at[p]])

(* Probes and staged files lie beside paths of the plan, so that is all a  *)
(* dead run can litter.                                                    *)
Nearby ==
  \A p \in Proc :
    /\ temp[p] # None => temp[p] \in ParentsOf(TouchedPaths(job[p]))
    /\ pc[p] = "probing" => left[p] \subseteq ParentsOf(TouchedPaths(job[p]))

(* Between its sweep and its admission a run has the swept directories to  *)
(* itself; SweptClean is what the admission makes of that.                 *)
Cleared ==
  \A p \in Proc : pc[p] = "checking" => debris \cap SweptDirs(job[p]) = {}

(* OldOrNew, of every path and not only those the plan touches.            *)
Admissible ==
  \A p \in Proc : \A w \in Path \ foreign[p] : PathAdmitted(disk, job[p], w)

(* The operations before the current one are done, and of the current one  *)
(* what is no longer left.                                                 *)
Behind(p, w) ==
  \E i \in DOMAIN job[p].ops :
    /\ i <= at[p]
    /\ w \in Touched(job[p].ops[i])
    /\ i = at[p] => w \notin left[p]

InOrder ==
  \A p \in Proc : pc[p] = "publishing" =>
    \A w \in Path \ foreign[p] : Behind(p, w) => disk[w] = Desired(job[p], w)

(* A guarded directory holds what was captured and migrations of the plan. *)
GuardedPath(tree, b, w) ==
  IF w \in AppendedPaths(b) THEN tree[w] \in {Absent, Desired(b, w)} ELSE tree[w] = CapturedAt(b, w)

GuardedDir(littered, b, d) == (d \in littered \ SweptDirs(b)) = b.dirs[d].litter

Guarded ==
  \A p \in Proc : pc[p] # "idle" /\ GuardsAppends(job[p]) =>
    /\ \A w \in Path \ foreign[p] :
         DirOf[w] \in DOMAIN job[p].dirs => GuardedPath(disk, job[p], w)
    /\ \A d \in DOMAIN job[p].dirs \ foreign[p] : GuardedDir(debris, job[p], d)

IInv ==
  /\ Typed /\ OneWriter /\ StagedIsLive /\ Staging /\ Nearby
  /\ Cleared /\ SweptClean /\ Admissible /\ InOrder /\ Guarded

(* An admitted tree holds an old or a new image at every path.             *)
LEMMA AdmittedPaths ==
  ASSUME NEW tree, NEW d, NEW b, Admitted(tree, d, b), NEW w \in Path
  PROVE  PathAdmitted(tree, b, w)
  BY DEF Admitted, FilesAdmitted

(* A path that holds the plan's own image is admissible.                   *)
LEMMA DesiredIsAdmitted ==
  ASSUME NEW tree, NEW b, NEW w, tree[w] = Desired(b, w)
  PROVE  PathAdmitted(tree, b, w)
  BY DEF PathAdmitted, FileAdmitted, NewPathAdmitted

(* What a path holds is all its admission depends on.                      *)
LEMMA AdmittedByContent ==
  ASSUME NEW tree, NEW later, NEW b, NEW w, later[w] = tree[w], PathAdmitted(tree, b, w)
  PROVE  PathAdmitted(later, b, w)
  BY DEF PathAdmitted, FileAdmitted, NewPathAdmitted
-----------------------------------------------------------------------------
(* The initial states are well typed.                                      *)
LEMMA TypeInit == Init => Typed
  BY BoundsAssumption DEF Init, Typed, Tree, Content

(* A process that has begun was handed one of the bundles.                 *)
LEMMA JobIsBundle ==
  ASSUME Typed, Staging, NEW p \in Proc, pc[p] # "idle"
  PROVE  IsBundle(job[p]) /\ WellFormed(job[p])
  BY DEF Staging, Fit

LEMMA HandedIsBundle ==
  ASSUME Staging, NEW p \in Proc, job[p] # None
  PROVE  IsBundle(job[p]) /\ WellFormed(job[p])
  BY DEF Staging, Fit

(* The history variable stays within the paths and directories.            *)
LEMMA SeenTypes ==
  ASSUME Typed, NEW p \in Proc, NEW changed, changed \subseteq Path \cup Dir, SeenByOthers(p, changed)
  PROVE  foreign' \in [Proc -> SUBSET (Path \cup Dir)]
  BY DEF Typed, SeenByOthers

(* What Persist renames into place is the image its operation carries.     *)
LEMMA PersistTypes ==
  ASSUME Typed, Staging, NEW p \in Proc, Persist(p)
  PROVE  /\ aim[p] \in Path
         /\ aim[p] \in DesiredPaths(job[p])
         /\ disk' = [disk EXCEPT ![aim[p]] = Desired(job[p], aim[p])]
         /\ Desired(job[p], aim[p]) \in Image
<1>1. pc[p] = "publishing" /\ temp[p] # None
  BY DEF Persist, Publishing
<1>2. IsBundle(job[p]) /\ WellFormed(job[p])
  BY <1>1, JobIsBundle
<1>3. at[p] \in DOMAIN job[p].ops /\ aim[p] \in Written(job[p].ops[at[p]])
  BY <1>1 DEF Staging
<1> QED
  BY <1>2, <1>3, DesiredImage DEF Persist, CurrentOp

(* What RemoveRetired takes away is a path the plan leaves absent.         *)
LEMMA RemoveTypes ==
  ASSUME Typed, Staging, NEW p \in Proc, NEW w \in Path, RemoveRetired(p, w)
  PROVE  /\ w \in RemovedPaths(job[p])
         /\ Desired(job[p], w) = Absent
         /\ IsBundle(job[p]) /\ WellFormed(job[p])
<1>1. pc[p] = "publishing" /\ at[p] \in DOMAIN job[p].ops /\ w \in Retired(job[p].ops[at[p]])
  BY DEF RemoveRetired, Publishing, CurrentOp
<1>2. IsBundle(job[p]) /\ WellFormed(job[p])
  BY <1>1, JobIsBundle
<1> QED
  BY <1>1, <1>2, RetiredIsAbsent

(* Every action keeps the types.                                           *)
LEMMA TypeStep == Typed /\ Staging /\ [OpenNext]_vars => Typed'
<1> SUFFICES ASSUME Typed, Staging, [OpenNext]_vars PROVE Typed'
  OBVIOUS
<1> USE PathAssumption, BoundsAssumption
<1>0. CASE UNCHANGED vars
  BY <1>0 DEF vars, Typed
<1>1. ASSUME NEW p \in Proc, NEW b, Hand(p, b) PROVE Typed'
  BY <1>1 DEF Hand, Goto, files, Typed
<1>2. ASSUME NEW p \in Proc, Rerun(p) PROVE Typed'
  BY <1>2 DEF Rerun, Goto, files, progress, Typed
<1>3. ASSUME NEW p \in Proc, Acquire(p) PROVE Typed'
  BY <1>3 DEF Acquire, Goto, files, progress, Holding, Typed
<1>4. ASSUME NEW p \in Proc, Sweep(p) PROVE Typed'
  <2>1. foreign' \in [Proc -> SUBSET (Path \cup Dir)]
    <3>1. debris \cap SweptDirs(job[p]) \subseteq Path \cup Dir
      BY DEF Typed
    <3> QED
      BY <1>4, <3>1, SeenTypes DEF Sweep
  <2>2. pc' \in [Proc -> {"idle", "waiting"} \cup Holding \cup Over]
    BY <1>4 DEF Sweep, Goto, Holding, Typed
  <2>3. temp' \in [Proc -> Dir \cup {None}] /\ debris' \in SUBSET Dir
    BY <1>4 DEF Sweep, Typed
  <2> QED
    BY <1>4, <2>1, <2>2, <2>3 DEF Sweep, Typed
<1>5. ASSUME NEW p \in Proc, Admit(p) PROVE Typed'
  <2>1. IsBundle(job[p])
    BY <1>5, JobIsBundle DEF Admit
  <2>2. ProbedDirs(job[p]) \subseteq Dir
    BY <2>1, ParentTypes
  <2> QED
    BY <1>5, <2>2 DEF Admit, Goto, files, Holding, Typed
<1>6. ASSUME NEW p \in Proc, Refuse(p) PROVE Typed'
  BY <1>6 DEF Refuse, Goto, Leave, files, Over, Typed
<1>7. ASSUME NEW p \in Proc, NEW d \in Dir, Probe(p, d) PROVE Typed'
  BY <1>7 DEF Probe, Typed
<1>8. ASSUME NEW p \in Proc, DropProbe(p) PROVE Typed'
  BY <1>8 DEF DropProbe, files, Typed
<1>9. ASSUME NEW p \in Proc, StartOperations(p) PROVE Typed'
  <2>1. PathsOf(job[p], 1) \subseteq Path
    BY <1>9, JobIsBundle, TouchedTypes DEF StartOperations
  <2> QED
    BY <1>9, <2>1 DEF StartOperations, Goto, files, Holding, Typed
<1>10. ASSUME NEW p \in Proc, NEW w \in Path, SkipWrite(p, w) PROVE Typed'
  BY <1>10 DEF SkipWrite, Handled, files, Typed
<1>11. ASSUME NEW p \in Proc, NEW w \in Path, Stage(p, w) PROVE Typed'
  BY <1>11 DEF Stage, Typed
<1>12. ASSUME NEW p \in Proc, Persist(p) PROVE Typed'
  <2>1. disk' \in Tree /\ aim[p] \in Path
    BY <1>12, PersistTypes DEF Typed, Tree, Content
  <2>2. foreign' \in [Proc -> SUBSET (Path \cup Dir)]
    BY <1>12, <2>1, SeenTypes DEF Persist
  <2> QED
    BY <1>12, <2>1, <2>2 DEF Persist, Handled, Typed
<1>13. ASSUME NEW p \in Proc, NEW w \in Path, RemoveRetired(p, w) PROVE Typed'
  <2>1. disk' \in Tree
    BY <1>13 DEF RemoveRetired, Typed, Tree, Content
  <2>2. foreign' \in [Proc -> SUBSET (Path \cup Dir)]
    <3>1. CASE disk[w] # Absent
      BY <1>13, <3>1, SeenTypes DEF RemoveRetired
    <3>2. CASE disk[w] = Absent
      BY <1>13, <3>2 DEF RemoveRetired, Typed
    <3> QED
      BY <3>1, <3>2
  <2>3. made' \in SUBSET Dir
    BY <1>13 DEF RemoveRetired, Typed
  <2> QED
    BY <1>13, <2>1, <2>2, <2>3 DEF RemoveRetired, Handled, Typed
<1>14. ASSUME NEW p \in Proc, NextOperation(p) PROVE Typed'
  <2>1. PathsOf(job[p], at[p] + 1) \subseteq Path
    BY <1>14, JobIsBundle, TouchedTypes DEF NextOperation, Publishing
  <2> QED
    BY <1>14, <2>1 DEF NextOperation, files, Typed
<1>15. ASSUME NEW p \in Proc, FinishOperations(p) PROVE Typed'
  BY <1>15 DEF FinishOperations, Goto, files, progress, Holding, Typed
<1>16. ASSUME NEW p \in Proc, Verify(p) PROVE Typed'
  BY <1>16 DEF Verify, Goto, Leave, files, Over, Typed
<1>17. ASSUME NEW p \in Proc, Fail(p) PROVE Typed'
  BY <1>17 DEF Fail, Goto, Leave, files, Over, Typed
<1>18. ASSUME NEW p \in Proc, Abort(p) PROVE Typed'
  <2>1. debris' \in SUBSET Dir
    BY <1>18 DEF Abort, Typed
  <2>2. foreign' \in [Proc -> SUBSET (Path \cup Dir)]
    BY <1>18, <2>1, SeenTypes DEF Abort
  <2>3. faults' \in 0 .. MaxFaults
    BY <1>18 DEF Abort, Typed
  <2>4. /\ pc' \in [Proc -> {"idle", "waiting"} \cup Holding \cup Over]
        /\ holder' \in Proc \cup {None}
    BY <1>18 DEF Abort, Leave, Goto, Over, Typed
  <2>5. /\ at' \in [Proc -> Nat] /\ left' \in [Proc -> SUBSET (Path \cup Dir)]
        /\ temp' \in [Proc -> Dir \cup {None}] /\ aim' \in [Proc -> Path \cup {None}]
    BY <1>18 DEF Abort, Leave, Typed
  <2> QED
    BY <1>18, <2>1, <2>2, <2>3, <2>4, <2>5 DEF Abort, Typed
<1>19. ASSUME NEW w \in Path, NEW c \in Content, Edit(w, c) PROVE Typed'
  <2>1. disk' \in Tree
    BY <1>19 DEF Edit, Typed, Tree
  <2> QED
    BY <1>19, <2>1 DEF Edit, progress, Typed
<1> QED
  BY <1>0, <1>1, <1>2, <1>3, <1>4, <1>5, <1>6, <1>7, <1>8, <1>9, <1>10, <1>11, <1>12, <1>13, <1>14, <1>15, <1>16, <1>17, <1>18, <1>19 DEF OpenNext, OpenStep, Work

-----------------------------------------------------------------------------
(* The lock is free, nothing is staged and nobody has a plan at first.     *)
LEMMA LockInit ==
  Init => /\ OneWriter /\ StagedIsLive /\ Staging /\ Nearby
          /\ Cleared /\ SweptClean /\ Admissible /\ InOrder /\ Guarded
<1> SUFFICES ASSUME Init
             PROVE  /\ OneWriter /\ StagedIsLive /\ Staging /\ Nearby
                    /\ Cleared /\ SweptClean /\ Admissible /\ InOrder /\ Guarded
  OBVIOUS
<1>1. OneWriter /\ StagedIsLive /\ Staging /\ Nearby
  BY NoneAssumption DEF Init, OneWriter, StagedIsLive, Staging, Nearby, Holding
<1>2. Cleared /\ SweptClean /\ InOrder
  BY DEF Init, Cleared, SweptClean, InOrder, Admission
<1>3. Admissible /\ Guarded
  BY DEF Init, Admissible, Guarded
<1> QED
  BY <1>1, <1>2, <1>3

(* Only the process that takes the lock, or lets go of it, moves between   *)
(* being and not being the writer.                                         *)
LEMMA LockStep ==
  Typed /\ OneWriter /\ Staging /\ [OpenNext]_vars => OneWriter'
<1> SUFFICES ASSUME Typed, OneWriter, Staging, [OpenNext]_vars PROVE OneWriter'
  OBVIOUS
<1> USE NoneAssumption DEF Typed, OneWriter, Holding
<1>0. CASE UNCHANGED vars
  BY <1>0 DEF vars
<1>1. ASSUME NEW p \in Proc, NEW b, Hand(p, b) PROVE OneWriter'
  BY <1>1 DEF Hand, Goto, Over
<1>2. ASSUME NEW p \in Proc, Rerun(p) PROVE OneWriter'
  BY <1>2 DEF Rerun, Goto, Over
<1>3. ASSUME NEW p \in Proc, Acquire(p) PROVE OneWriter'
  BY <1>3 DEF Acquire, Goto
<1>4. ASSUME NEW p \in Proc, Sweep(p) PROVE OneWriter'
  BY <1>4 DEF Sweep, Goto
<1>5. ASSUME NEW p \in Proc, Admit(p) PROVE OneWriter'
  BY <1>5 DEF Admit, Goto
<1>6. ASSUME NEW p \in Proc, Refuse(p) PROVE OneWriter'
  BY <1>6 DEF Refuse, Goto, Leave
<1>7. ASSUME NEW p \in Proc, NEW d \in Dir, Probe(p, d) PROVE OneWriter'
  BY <1>7 DEF Probe
<1>8. ASSUME NEW p \in Proc, DropProbe(p) PROVE OneWriter'
  BY <1>8 DEF DropProbe
<1>9. ASSUME NEW p \in Proc, StartOperations(p) PROVE OneWriter'
  BY <1>9 DEF StartOperations, Goto
<1>10. ASSUME NEW p \in Proc, NEW w \in Path, SkipWrite(p, w) PROVE OneWriter'
  BY <1>10 DEF SkipWrite
<1>11. ASSUME NEW p \in Proc, NEW w \in Path, Stage(p, w) PROVE OneWriter'
  BY <1>11 DEF Stage
<1>12. ASSUME NEW p \in Proc, Persist(p) PROVE OneWriter'
  BY <1>12 DEF Persist
<1>13. ASSUME NEW p \in Proc, NEW w \in Path, RemoveRetired(p, w) PROVE OneWriter'
  BY <1>13 DEF RemoveRetired
<1>14. ASSUME NEW p \in Proc, NextOperation(p) PROVE OneWriter'
  BY <1>14 DEF NextOperation
<1>15. ASSUME NEW p \in Proc, FinishOperations(p) PROVE OneWriter'
  BY <1>15 DEF FinishOperations, Goto
<1>16. ASSUME NEW p \in Proc, Verify(p) PROVE OneWriter'
  BY <1>16 DEF Verify, Goto, Leave
<1>17. ASSUME NEW p \in Proc, Fail(p) PROVE OneWriter'
  BY <1>17 DEF Fail, Goto, Leave
<1>18. ASSUME NEW p \in Proc, Abort(p) PROVE OneWriter'
  BY <1>18 DEF Abort, Goto, Leave
<1>19. ASSUME NEW w \in Path, NEW c \in Content, Edit(w, c) PROVE OneWriter'
  BY <1>19 DEF Edit
<1> QED
  BY <1>0, <1>1, <1>2, <1>3, <1>4, <1>5, <1>6, <1>7, <1>8, <1>9, <1>10, <1>11, <1>12, <1>13, <1>14, <1>15, <1>16, <1>17, <1>18, <1>19 DEF OpenNext, OpenStep, Work

(* A file is staged under the lock only, and the sweep of the one run that *)
(* holds it finds no file of a live run.                                   *)
LEMMA StagingStep ==
  Typed /\ OneWriter /\ StagedIsLive /\ Staging /\ [OpenNext]_vars => StagedIsLive' /\ Staging'
<1> SUFFICES ASSUME Typed, OneWriter, StagedIsLive, Staging, [OpenNext]_vars
             PROVE  StagedIsLive' /\ Staging'
  OBVIOUS
<1> USE NoneAssumption DEF Typed, StagedIsLive, Staging, Holding, files, progress
<1>0. CASE UNCHANGED vars
  BY <1>0 DEF vars
<1>1. ASSUME NEW p \in Proc, NEW b, Hand(p, b) PROVE StagedIsLive' /\ Staging'
  <2>1. temp[p] = None /\ aim[p] = None
    BY <1>1 DEF Hand, Over
  <2> QED
    BY <1>1, <2>1 DEF Hand, Goto
<1>2. ASSUME NEW p \in Proc, Rerun(p) PROVE StagedIsLive' /\ Staging'
  BY <1>2 DEF Rerun, Goto, Over
<1>3. ASSUME NEW p \in Proc, Acquire(p) PROVE StagedIsLive' /\ Staging'
  BY <1>3 DEF Acquire, Goto, OneWriter
<1>4. ASSUME NEW p \in Proc, Sweep(p) PROVE StagedIsLive' /\ Staging'
  BY <1>4 DEF Sweep, Goto, SeenByOthers, OneWriter
<1>5. ASSUME NEW p \in Proc, Admit(p) PROVE StagedIsLive' /\ Staging'
  BY <1>5 DEF Admit, Goto
<1>6. ASSUME NEW p \in Proc, Refuse(p) PROVE StagedIsLive' /\ Staging'
  BY <1>6 DEF Refuse, Goto, Leave
<1>7. ASSUME NEW p \in Proc, NEW d \in Dir, Probe(p, d) PROVE StagedIsLive' /\ Staging'
  BY <1>7 DEF Probe
<1>8. ASSUME NEW p \in Proc, DropProbe(p) PROVE StagedIsLive' /\ Staging'
  BY <1>8 DEF DropProbe
<1>9. ASSUME NEW p \in Proc, StartOperations(p) PROVE StagedIsLive' /\ Staging'
  BY <1>9 DEF StartOperations, Goto
<1>10. ASSUME NEW p \in Proc, NEW w \in Path, SkipWrite(p, w) PROVE StagedIsLive' /\ Staging'
  BY <1>10 DEF SkipWrite, Publishing, Handled
<1>11. ASSUME NEW p \in Proc, NEW w \in Path, Stage(p, w) PROVE StagedIsLive' /\ Staging'
  BY <1>11, PathAssumption DEF Stage, Publishing, ToWrite, CurrentOp
<1>12. ASSUME NEW p \in Proc, Persist(p) PROVE StagedIsLive' /\ Staging'
  BY <1>12 DEF Persist, Publishing, SeenByOthers
<1>13. ASSUME NEW p \in Proc, NEW w \in Path, RemoveRetired(p, w) PROVE StagedIsLive' /\ Staging'
  BY <1>13 DEF RemoveRetired, Publishing, SeenByOthers
<1>14. ASSUME NEW p \in Proc, NextOperation(p) PROVE StagedIsLive' /\ Staging'
  BY <1>14 DEF NextOperation, Publishing
<1>15. ASSUME NEW p \in Proc, FinishOperations(p) PROVE StagedIsLive' /\ Staging'
  BY <1>15 DEF FinishOperations, Goto
<1>16. ASSUME NEW p \in Proc, Verify(p) PROVE StagedIsLive' /\ Staging'
  BY <1>16 DEF Verify, Goto, Leave
<1>17. ASSUME NEW p \in Proc, Fail(p) PROVE StagedIsLive' /\ Staging'
  BY <1>17 DEF Fail, Goto, Leave
<1>18. ASSUME NEW p \in Proc, Abort(p) PROVE StagedIsLive' /\ Staging'
  BY <1>18 DEF Abort, Goto, Leave, SeenByOthers
<1>19. ASSUME NEW w \in Path, NEW c \in Content, Edit(w, c) PROVE StagedIsLive' /\ Staging'
  BY <1>19 DEF Edit
<1> QED
  BY <1>0, <1>1, <1>2, <1>3, <1>4, <1>5, <1>6, <1>7, <1>8, <1>9, <1>10, <1>11, <1>12, <1>13, <1>14, <1>15, <1>16, <1>17, <1>18, <1>19 DEF OpenNext, OpenStep, Work


(* Whatever a run stages, it stages beside a path of its plan.             *)
LEMMA NearbyStep ==
  Typed /\ Staging /\ Nearby /\ [OpenNext]_vars => Nearby'
<1> SUFFICES ASSUME Typed, Staging, Nearby, [OpenNext]_vars PROVE Nearby'
  OBVIOUS
<1> USE NoneAssumption DEF Typed, Nearby, files, progress
<1>0. CASE UNCHANGED vars
  BY <1>0 DEF vars
<1>1. ASSUME NEW p \in Proc, NEW b, Hand(p, b) PROVE Nearby'
  <2>1. temp[p] = None
    BY <1>1 DEF Hand, Over, Staging
  <2> QED
    BY <1>1, <2>1 DEF Hand, Goto
<1>2. ASSUME NEW p \in Proc, Rerun(p) PROVE Nearby'
  BY <1>2 DEF Rerun, Goto
<1>3. ASSUME NEW p \in Proc, Acquire(p) PROVE Nearby'
  BY <1>3 DEF Acquire, Goto
<1>4. ASSUME NEW p \in Proc, Sweep(p) PROVE Nearby'
  BY <1>4 DEF Sweep, Goto
<1>5. ASSUME NEW p \in Proc, Admit(p) PROVE Nearby'
  <2>1. ProbedDirs(job[p]) \subseteq ParentsOf(TouchedPaths(job[p]))
    BY DEF ProbedDirs, ParentsOf, TouchedPaths
  <2> QED
    BY <1>5, <2>1 DEF Admit, Goto
<1>6. ASSUME NEW p \in Proc, Refuse(p) PROVE Nearby'
  BY <1>6 DEF Refuse, Goto, Leave
<1>7. ASSUME NEW p \in Proc, NEW d \in Dir, Probe(p, d) PROVE Nearby'
  BY <1>7 DEF Probe
<1>8. ASSUME NEW p \in Proc, DropProbe(p) PROVE Nearby'
  BY <1>8 DEF DropProbe
<1>9. ASSUME NEW p \in Proc, StartOperations(p) PROVE Nearby'
  BY <1>9 DEF StartOperations, Goto
<1>10. ASSUME NEW p \in Proc, NEW w \in Path, SkipWrite(p, w) PROVE Nearby'
  BY <1>10 DEF SkipWrite, Publishing, Handled
<1>11. ASSUME NEW p \in Proc, NEW w \in Path, Stage(p, w) PROVE Nearby'
  <2>1. DirOf[w] \in ParentsOf(TouchedPaths(job[p]))
    BY <1>11 DEF Stage, Publishing, ToWrite, CurrentOp, ParentsOf, TouchedPaths, DesiredPaths
  <2>2. pc[p] = "publishing"
    BY <1>11 DEF Stage, Publishing
  <2> QED
    BY <1>11, <2>1, <2>2 DEF Stage
<1>12. ASSUME NEW p \in Proc, Persist(p) PROVE Nearby'
  BY <1>12 DEF Persist, Publishing, Handled
<1>13. ASSUME NEW p \in Proc, NEW w \in Path, RemoveRetired(p, w) PROVE Nearby'
  BY <1>13 DEF RemoveRetired, Publishing, Handled
<1>14. ASSUME NEW p \in Proc, NextOperation(p) PROVE Nearby'
  BY <1>14 DEF NextOperation, Publishing
<1>15. ASSUME NEW p \in Proc, FinishOperations(p) PROVE Nearby'
  BY <1>15 DEF FinishOperations, Goto
<1>16. ASSUME NEW p \in Proc, Verify(p) PROVE Nearby'
  BY <1>16 DEF Verify, Goto, Leave
<1>17. ASSUME NEW p \in Proc, Fail(p) PROVE Nearby'
  BY <1>17 DEF Fail, Goto, Leave
<1>18. ASSUME NEW p \in Proc, Abort(p) PROVE Nearby'
  BY <1>18 DEF Abort, Goto, Leave
<1>19. ASSUME NEW w \in Path, NEW c \in Content, Edit(w, c) PROVE Nearby'
  BY <1>19 DEF Edit
<1> QED
  BY <1>0, <1>1, <1>2, <1>3, <1>4, <1>5, <1>6, <1>7, <1>8, <1>9, <1>10, <1>11, <1>12, <1>13, <1>14, <1>15, <1>16, <1>17, <1>18, <1>19 DEF OpenNext, OpenStep, Work

-----------------------------------------------------------------------------
(* The account a step keeps with the process q: what q has not seen change *)
(* is as it was, or q has itself published there what its plan leaves, or  *)
(* littered or cleared a directory beside it.                              *)
Recorded(q) ==
  /\ job'[q] = job[q]
  /\ foreign[q] \subseteq foreign'[q]
  /\ \A w \in Path \ foreign'[q] :
       disk'[w] = disk[w] \/ (w \in TouchedPaths(job[q]) /\ disk'[w] = Desired(job[q], w))
  /\ \A d \in Dir \ foreign'[q] :
       (d \in debris') = (d \in debris) \/ d \in ParentsOf(TouchedPaths(job[q]))

(* The account is opened when q is handed a plan, and balanced when the    *)
(* plan is found admitted.                                                 *)
Opened(q) == Path \cup Dir \subseteq foreign'[q]

Balanced(q) ==
  /\ pc[q] = "checking"
  /\ disk' = disk /\ debris' = debris /\ job' = job
  /\ Admitted(disk, debris, job[q])

Accounted == \A q \in Proc : Recorded(q) \/ Opened(q) \/ Balanced(q)

(* A step that leaves files and plans alone is accounted for.              *)
LEMMA QuietStep ==
  ASSUME job' = job, disk' = disk, debris' = debris, foreign' = foreign
  PROVE  Accounted
  BY DEF Accounted, Recorded

(* Every step is: it changes a path to the image of its own plan, or adds  *)
(* what it changes to what everybody else has seen.                        *)
LEMMA AccountStep ==
  Typed /\ Staging /\ Nearby /\ [OpenNext]_vars => Accounted
<1> SUFFICES ASSUME Typed, Staging, Nearby, [OpenNext]_vars PROVE Accounted
  OBVIOUS
<1>0. CASE UNCHANGED vars
  BY <1>0, QuietStep DEF vars
<1>1. ASSUME NEW p \in Proc, NEW b, Hand(p, b) PROVE Accounted
  <2> SUFFICES ASSUME NEW q \in Proc PROVE Recorded(q) \/ Opened(q)
    BY DEF Accounted
  <2>1. CASE q = p
    BY <1>1, <2>1 DEF Hand, Typed, Opened
  <2>2. CASE q # p
    BY <1>1, <2>2 DEF Hand, files, Typed, Recorded
  <2> QED
    BY <2>1, <2>2
<1>2. ASSUME NEW p \in Proc, Rerun(p) PROVE Accounted
  BY <1>2, QuietStep DEF Rerun, files, progress
<1>3. ASSUME NEW p \in Proc, Acquire(p) PROVE Accounted
  BY <1>3, QuietStep DEF Acquire, files, progress
<1>4. ASSUME NEW p \in Proc, Sweep(p) PROVE Accounted
  <2> SUFFICES ASSUME NEW q \in Proc PROVE Recorded(q)
    BY DEF Accounted
  <2>1. job' = job /\ disk' = disk /\ debris' = debris \ SweptDirs(job[p])
    BY <1>4 DEF Sweep
  <2>2. foreign'[q] = IF q = p THEN foreign[q] ELSE foreign[q] \cup (debris \cap SweptDirs(job[p]))
    BY <1>4 DEF Sweep, SeenByOthers
  <2>3. SweptDirs(job[p]) \subseteq ParentsOf(TouchedPaths(job[p]))
    BY DEF SweptDirs, ParentsOf, TouchedPaths
  <2> QED
    BY <2>1, <2>2, <2>3 DEF Recorded
<1>5. ASSUME NEW p \in Proc, Admit(p) PROVE Accounted
  <2> SUFFICES ASSUME NEW q \in Proc PROVE Recorded(q) \/ Balanced(q)
    BY DEF Accounted
  <2>1. CASE q = p
    BY <1>5, <2>1 DEF Admit, files, Balanced
  <2>2. CASE q # p
    BY <1>5, <2>2 DEF Admit, files, Typed, Recorded
  <2> QED
    BY <2>1, <2>2
<1>6. ASSUME NEW p \in Proc, Refuse(p) PROVE Accounted
  BY <1>6, QuietStep DEF Refuse, files, progress
<1>7. ASSUME NEW p \in Proc, NEW d \in Dir, Probe(p, d) PROVE Accounted
  BY <1>7, QuietStep DEF Probe, files, progress
<1>8. ASSUME NEW p \in Proc, DropProbe(p) PROVE Accounted
  BY <1>8, QuietStep DEF DropProbe, files, progress
<1>9. ASSUME NEW p \in Proc, StartOperations(p) PROVE Accounted
  BY <1>9, QuietStep DEF StartOperations, files, progress
<1>10. ASSUME NEW p \in Proc, NEW w \in Path, SkipWrite(p, w) PROVE Accounted
  BY <1>10, QuietStep DEF SkipWrite, files, progress
<1>11. ASSUME NEW p \in Proc, NEW w \in Path, Stage(p, w) PROVE Accounted
  BY <1>11, QuietStep DEF Stage, files, progress
<1>12. ASSUME NEW p \in Proc, Persist(p) PROVE Accounted
  <2> SUFFICES ASSUME NEW q \in Proc PROVE Recorded(q)
    BY DEF Accounted
  <2>1. job' = job /\ debris' = debris
    BY <1>12 DEF Persist
  <2>2. disk' = [disk EXCEPT ![aim[p]] = Desired(job[p], aim[p])] /\ aim[p] \in TouchedPaths(job[p])
    BY <1>12, PersistTypes DEF TouchedPaths
  <2>3. foreign'[q] = IF q = p THEN foreign[q] ELSE foreign[q] \cup {aim[p]}
    BY <1>12 DEF Persist, SeenByOthers
  <2>4. \A w \in Path : disk'[w] = IF w = aim[p] THEN Desired(job[p], w) ELSE disk[w]
    BY <2>2 DEF Typed, Tree
  <2> QED
    BY <2>1, <2>2, <2>3, <2>4 DEF Recorded
<1>13. ASSUME NEW p \in Proc, NEW w \in Path, RemoveRetired(p, w) PROVE Accounted
  <2> SUFFICES ASSUME NEW q \in Proc PROVE Recorded(q)
    BY DEF Accounted
  <2>1. job' = job /\ debris' = debris /\ disk' = [disk EXCEPT ![w] = Absent]
    BY <1>13 DEF RemoveRetired
  <2>2. foreign'[q] = IF q = p \/ disk[w] = Absent THEN foreign[q] ELSE foreign[q] \cup {w}
    BY <1>13 DEF RemoveRetired, SeenByOthers
  <2>3. \A v \in Path : disk'[v] = IF v = w THEN Absent ELSE disk[v]
    BY <2>1 DEF Typed, Tree
  <2>4. Desired(job[p], w) = Absent /\ w \in TouchedPaths(job[p])
    BY <1>13, RemoveTypes DEF TouchedPaths
  <2> QED
    BY <2>1, <2>2, <2>3, <2>4 DEF Recorded
<1>14. ASSUME NEW p \in Proc, NextOperation(p) PROVE Accounted
  BY <1>14, QuietStep DEF NextOperation, files, progress
<1>15. ASSUME NEW p \in Proc, FinishOperations(p) PROVE Accounted
  BY <1>15, QuietStep DEF FinishOperations, files, progress
<1>16. ASSUME NEW p \in Proc, Verify(p) PROVE Accounted
  BY <1>16, QuietStep DEF Verify, files, progress
<1>17. ASSUME NEW p \in Proc, Fail(p) PROVE Accounted
  BY <1>17, QuietStep DEF Fail, files, progress
<1>18. ASSUME NEW p \in Proc, Abort(p) PROVE Accounted
  <2> SUFFICES ASSUME NEW q \in Proc PROVE Recorded(q)
    BY DEF Accounted
  <2>1. job' = job /\ disk' = disk
    BY <1>18 DEF Abort
  <2>2. debris' = debris \/ (temp[p] # None /\ debris' = debris \cup {temp[p]})
    BY <1>18 DEF Abort
  <2>3. foreign'[q] = IF q = p THEN foreign[q] ELSE foreign[q] \cup (debris' \ debris)
    BY <1>18 DEF Abort, SeenByOthers
  <2>4. temp[p] # None => temp[p] \in ParentsOf(TouchedPaths(job[p]))
    BY DEF Nearby
  <2> QED
    BY <2>1, <2>2, <2>3, <2>4 DEF Recorded
<1>19. ASSUME NEW w \in Path, NEW c \in Content, Edit(w, c) PROVE Accounted
  <2>1. job' = job /\ debris' = debris
    BY <1>19 DEF Edit, progress
  <2>2. \A q \in Proc : foreign'[q] = foreign[q] \cup {w}
    BY <1>19 DEF Edit
  <2>3. \A v : v # w => disk'[v] = disk[v]
    BY <1>19 DEF Edit, Typed, Tree
  <2> QED
    BY <2>1, <2>2, <2>3 DEF Accounted, Recorded
<1> QED
  BY <1>0, <1>1, <1>2, <1>3, <1>4, <1>5, <1>6, <1>7, <1>8, <1>9, <1>10, <1>11, <1>12, <1>13, <1>14, <1>15, <1>16, <1>17, <1>18, <1>19 DEF OpenNext, OpenStep, Work

-----------------------------------------------------------------------------
(* No third image.  The account says what may have become of a path nobody *)
(* else has changed: nothing, or the plan's own image.                     *)
LEMMA AdmissibleStep ==
  Typed /\ Admissible /\ Accounted => Admissible'
<1> SUFFICES ASSUME Typed, Admissible, Accounted,
                    NEW q \in Proc, NEW w \in Path \ foreign'[q]
             PROVE  PathAdmitted(disk', job'[q], w)
  BY DEF Admissible
<1>1. CASE Recorded(q)
  <2>1. PathAdmitted(disk, job[q], w)
    BY <1>1 DEF Recorded, Admissible
  <2>2. CASE disk'[w] = disk[w]
    BY <1>1, <2>1, <2>2, AdmittedByContent DEF Recorded
  <2>3. CASE disk'[w] = Desired(job[q], w)
    BY <1>1, <2>3, DesiredIsAdmitted DEF Recorded
  <2> QED
    BY <1>1, <2>2, <2>3 DEF Recorded
<1>2. CASE Opened(q)
  BY <1>2 DEF Opened
<1>3. CASE Balanced(q)
  BY <1>3, AdmittedPaths DEF Balanced
<1> QED
  BY <1>1, <1>2, <1>3 DEF Accounted

(* What every path holds, the touched ones hold.                           *)
LEMMA AdmissibleIsOldOrNew == Staging /\ Admissible => OldOrNew
<1> SUFFICES ASSUME Staging, Admissible, NEW p \in Proc, job[p] # None,
                    NEW w \in TouchedPaths(job[p]) \ foreign[p]
             PROVE  PathAdmitted(disk, job[p], w)
  BY DEF OldOrNew
<1>1. w \in Path
  BY HandedIsBundle, TouchedTypes DEF TouchedPaths
<1> QED
  BY <1>1 DEF Admissible

-----------------------------------------------------------------------------
(* Nothing is littered beside what an admitted run publishes, but for what *)
(* others add to it: only the holder of the lock has staged files, so only *)
(* it can turn one into debris.                                            *)
LEMMA SweptStep ==
  Typed /\ OneWriter /\ Staging /\ Cleared /\ SweptClean /\ [OpenNext]_vars => Cleared' /\ SweptClean'
<1> SUFFICES ASSUME Typed, OneWriter, Staging, Cleared, SweptClean, [OpenNext]_vars
             PROVE  Cleared' /\ SweptClean'
  OBVIOUS
<1> USE DEF Typed, Cleared, SweptClean, Admission, files, progress
<1>0. CASE UNCHANGED vars
  BY <1>0 DEF vars
<1>1. ASSUME NEW p \in Proc, NEW b, Hand(p, b) PROVE Cleared' /\ SweptClean'
  BY <1>1 DEF Hand, Goto
<1>2. ASSUME NEW p \in Proc, Rerun(p) PROVE Cleared' /\ SweptClean'
  BY <1>2 DEF Rerun, Goto, Over
<1>3. ASSUME NEW p \in Proc, Acquire(p) PROVE Cleared' /\ SweptClean'
  BY <1>3 DEF Acquire, Goto
<1>4. ASSUME NEW p \in Proc, Sweep(p) PROVE Cleared' /\ SweptClean'
  BY <1>4 DEF Sweep, Goto, SeenByOthers
<1>5. ASSUME NEW p \in Proc, Admit(p) PROVE Cleared' /\ SweptClean'
  BY <1>5 DEF Admit, Goto
<1>6. ASSUME NEW p \in Proc, Refuse(p) PROVE Cleared' /\ SweptClean'
  BY <1>6 DEF Refuse, Goto, Leave
<1>7. ASSUME NEW p \in Proc, NEW d \in Dir, Probe(p, d) PROVE Cleared' /\ SweptClean'
  BY <1>7 DEF Probe
<1>8. ASSUME NEW p \in Proc, DropProbe(p) PROVE Cleared' /\ SweptClean'
  BY <1>8 DEF DropProbe
<1>9. ASSUME NEW p \in Proc, StartOperations(p) PROVE Cleared' /\ SweptClean'
  BY <1>9 DEF StartOperations, Goto
<1>10. ASSUME NEW p \in Proc, NEW w \in Path, SkipWrite(p, w) PROVE Cleared' /\ SweptClean'
  BY <1>10 DEF SkipWrite
<1>11. ASSUME NEW p \in Proc, NEW w \in Path, Stage(p, w) PROVE Cleared' /\ SweptClean'
  BY <1>11 DEF Stage
<1>12. ASSUME NEW p \in Proc, Persist(p) PROVE Cleared' /\ SweptClean'
  BY <1>12 DEF Persist, SeenByOthers
<1>13. ASSUME NEW p \in Proc, NEW w \in Path, RemoveRetired(p, w) PROVE Cleared' /\ SweptClean'
  BY <1>13 DEF RemoveRetired, SeenByOthers
<1>14. ASSUME NEW p \in Proc, NextOperation(p) PROVE Cleared' /\ SweptClean'
  BY <1>14 DEF NextOperation
<1>15. ASSUME NEW p \in Proc, FinishOperations(p) PROVE Cleared' /\ SweptClean'
  BY <1>15 DEF FinishOperations, Goto
<1>16. ASSUME NEW p \in Proc, Verify(p) PROVE Cleared' /\ SweptClean'
  BY <1>16 DEF Verify, Goto, Leave
<1>17. ASSUME NEW p \in Proc, Fail(p) PROVE Cleared' /\ SweptClean'
  BY <1>17 DEF Fail, Goto, Leave
<1>18. ASSUME NEW p \in Proc, Abort(p) PROVE Cleared' /\ SweptClean'
  <2>1. job' = job /\ pc' = [pc EXCEPT ![p] = "dead"]
    BY <1>18 DEF Abort, Leave, Goto
  <2>2. temp[p] # None => pc[p] \in Holding
    BY DEF Staging, Holding
  <2>3. ASSUME NEW q \in Proc, pc'[q] = "checking" PROVE debris' = debris
    <3>1. q # p /\ pc[q] = "checking"
      BY <2>1, <2>3
    <3>2. pc[p] \notin Holding
      BY <3>1, NoneAssumption DEF OneWriter, Holding
    <3> QED
      BY <1>18, <2>2, <3>2 DEF Abort
  <2>4. ASSUME NEW q \in Proc, pc'[q] \in Admission \cup {"done"}
        PROVE  debris' \cap SweptDirs(job'[q]) \subseteq foreign'[q]
    <3>1. q # p /\ pc[q] \in Admission \cup {"done"}
      BY <2>1, <2>4
    <3>2. foreign'[q] = foreign[q] \cup (debris' \ debris)
      BY <1>18, <3>1 DEF Abort, SeenByOthers
    <3> QED
      BY <2>1, <3>1, <3>2
  <2> QED
    BY <2>1, <2>3, <2>4
<1>19. ASSUME NEW w \in Path, NEW c \in Content, Edit(w, c) PROVE Cleared' /\ SweptClean'
  BY <1>19 DEF Edit
<1> QED
  BY <1>0, <1>1, <1>2, <1>3, <1>4, <1>5, <1>6, <1>7, <1>8, <1>9, <1>10, <1>11, <1>12, <1>13, <1>14, <1>15, <1>16, <1>17, <1>18, <1>19 DEF OpenNext, OpenStep, Work

-----------------------------------------------------------------------------
(* The operations are published in their order.  A step that does not move *)
(* q along keeps what is behind it.                                        *)
LEMMA InOrderKept ==
  ASSUME Typed, InOrder, Accounted, NEW q \in Proc, pc'[q] = "publishing",
         pc[q] = "publishing", at'[q] = at[q], left'[q] = left[q],
         NEW w \in Path \ foreign'[q], Behind(q, w)'
  PROVE  disk'[w] = Desired(job'[q], w)
<1>1. ~Balanced(q) /\ ~Opened(q)
  BY DEF Balanced, Opened
<1>2. Recorded(q)
  BY <1>1 DEF Accounted
<1>3. w \notin foreign[q] /\ Behind(q, w)
  BY <1>2 DEF Recorded, Behind
<1>4. disk[w] = Desired(job[q], w)
  BY <1>3 DEF InOrder
<1> QED
  BY <1>2, <1>4 DEF Recorded

(* Handling a path of the current operation leaves its image there.        *)
LEMMA HandledStep ==
  ASSUME Typed, Staging, InOrder, NEW p \in Proc, Publishing(p), NEW u \in Path, Handled(p, u),
         job' = job, pc' = pc, at' = at, foreign'[p] = foreign[p],
         disk'[u] = Desired(job[p], u), \A v \in Path : v # u => disk'[v] = disk[v],
         \A q \in Proc : q # p => pc[q] # "publishing"
  PROVE  InOrder'
<1> SUFFICES ASSUME NEW q \in Proc, pc'[q] = "publishing", NEW w \in Path \ foreign'[q], Behind(q, w)'
             PROVE  disk'[w] = Desired(job'[q], w)
  BY DEF InOrder
<1>1. q = p
  OBVIOUS
<1>2. CASE w = u
  BY <1>1, <1>2
<1>3. CASE w # u
  <2>1. left'[p] = left[p] \ {u}
    BY DEF Handled, Typed
  <2>2. Behind(p, w)
    BY <1>1, <1>3, <2>1 DEF Behind
  <2> QED
    BY <1>1, <1>3, <2>2 DEF InOrder
<1> QED
  BY <1>2, <1>3

LEMMA InOrderStep ==
  Typed /\ OneWriter /\ Staging /\ InOrder /\ Accounted /\ [OpenNext]_vars => InOrder'
<1> SUFFICES ASSUME Typed, OneWriter, Staging, InOrder, Accounted, [OpenNext]_vars PROVE InOrder'
  OBVIOUS
<1> DEFINE Stays ==
      \A q \in Proc : pc'[q] = "publishing" =>
        pc[q] = "publishing" /\ at'[q] = at[q] /\ left'[q] = left[q]
<1>a. Stays => InOrder'
  BY InOrderKept DEF InOrder
<1>b. \A p, q \in Proc : pc[p] = "publishing" /\ q # p => pc[q] # "publishing"
  BY NoneAssumption DEF OneWriter, Holding
<1>c. \A p \in Proc : pc[p] # "idle" => IsBundle(job[p]) /\ WellFormed(job[p])
  BY JobIsBundle
<1>0. CASE UNCHANGED vars
  BY <1>0, <1>a DEF vars
<1>1. ASSUME NEW p \in Proc, NEW b, Hand(p, b) PROVE InOrder'
  BY <1>1, <1>a DEF Hand, Typed, files, progress, Goto
<1>2. ASSUME NEW p \in Proc, Rerun(p) PROVE InOrder'
  BY <1>2, <1>a DEF Rerun, Typed, files, progress, Goto
<1>3. ASSUME NEW p \in Proc, Acquire(p) PROVE InOrder'
  BY <1>3, <1>a DEF Acquire, Typed, files, progress, Goto
<1>4. ASSUME NEW p \in Proc, Sweep(p) PROVE InOrder'
  BY <1>4, <1>a DEF Sweep, Typed, files, progress, Goto
<1>5. ASSUME NEW p \in Proc, Admit(p) PROVE InOrder'
  BY <1>5, <1>a DEF Admit, Typed, files, progress, Goto
<1>6. ASSUME NEW p \in Proc, Refuse(p) PROVE InOrder'
  BY <1>6, <1>a DEF Refuse, Typed, files, progress, Goto, Leave
<1>7. ASSUME NEW p \in Proc, NEW d \in Dir, Probe(p, d) PROVE InOrder'
  <2>1. Stays
    BY <1>7 DEF Probe, Typed
  <2> QED
    BY <2>1, <1>a
<1>8. ASSUME NEW p \in Proc, DropProbe(p) PROVE InOrder'
  BY <1>8, <1>a DEF DropProbe, Typed, files, progress
<1>9. ASSUME NEW p \in Proc, StartOperations(p) PROVE InOrder'
  <2> SUFFICES ASSUME NEW q \in Proc, pc'[q] = "publishing", NEW w \in Path \ foreign'[q], Behind(q, w)'
               PROVE  disk'[w] = Desired(job'[q], w)
    BY DEF InOrder
  <2>1. CASE q = p
    <3>1. at'[p] = 1 /\ left'[p] = PathsOf(job[p], 1) /\ job' = job
      BY <1>9 DEF StartOperations, Typed
    <3>2. PICK i \in DOMAIN job[p].ops :
            i <= 1 /\ w \in Touched(job[p].ops[i]) /\ (i = 1 => w \notin PathsOf(job[p], 1))
      BY <2>1, <3>1 DEF Behind
    <3>3. DOMAIN job[p].ops = 1 .. Len(job[p].ops)
      BY <1>9, <1>c DEF StartOperations, IsBundle
    <3>4. i = 1
      BY <3>2, <3>3, <1>c, <1>9 DEF IsBundle, StartOperations
    <3> QED
      BY <3>2, <3>4 DEF PathsOf
  <2>2. CASE q # p
    BY <1>9, <2>2, InOrderKept DEF StartOperations, Goto, Typed
  <2> QED
    BY <2>1, <2>2
<1>10. ASSUME NEW p \in Proc, NEW w \in Path, SkipWrite(p, w) PROVE InOrder'
  <2>1. pc[p] = "publishing" /\ at[p] \in DOMAIN job[p].ops /\ w \in Written(job[p].ops[at[p]])
    BY <1>10 DEF SkipWrite, Publishing, ToWrite, CurrentOp
  <2>2. disk[w] = Desired(job[p], w)
    BY <1>10, <2>1, <1>c, DesiredImage DEF SkipWrite, CurrentOp
  <2> QED
    BY <1>10, <2>1, <2>2, <1>b, HandledStep DEF SkipWrite, files
<1>11. ASSUME NEW p \in Proc, NEW w \in Path, Stage(p, w) PROVE InOrder'
  BY <1>11, <1>a DEF Stage, Typed, files, progress
<1>12. ASSUME NEW p \in Proc, Persist(p) PROVE InOrder'
  <2>1. pc[p] = "publishing"
    BY <1>12 DEF Persist, Publishing
  <2>2. aim[p] \in Path /\ disk' = [disk EXCEPT ![aim[p]] = Desired(job[p], aim[p])]
    BY <1>12, PersistTypes
  <2>3. disk'[aim[p]] = Desired(job[p], aim[p]) /\ \A v \in Path : v # aim[p] => disk'[v] = disk[v]
    BY <2>2 DEF Typed, Tree
  <2>4. foreign'[p] = foreign[p]
    BY <1>12 DEF Persist, SeenByOthers
  <2>5. Publishing(p) /\ Handled(p, aim[p]) /\ job' = job /\ pc' = pc /\ at' = at
    BY <1>12 DEF Persist
  <2> QED
    BY <2>1, <2>2, <2>3, <2>4, <2>5, <1>b, HandledStep
<1>13. ASSUME NEW p \in Proc, NEW w \in Path, RemoveRetired(p, w) PROVE InOrder'
  <2>1. pc[p] = "publishing"
    BY <1>13 DEF RemoveRetired, Publishing
  <2>2. disk' = [disk EXCEPT ![w] = Absent] /\ Desired(job[p], w) = Absent
    BY <1>13, RemoveTypes DEF RemoveRetired
  <2>3. disk'[w] = Desired(job[p], w) /\ \A v \in Path : v # w => disk'[v] = disk[v]
    BY <2>2 DEF Typed, Tree
  <2>4. foreign'[p] = foreign[p]
    BY <1>13 DEF RemoveRetired, SeenByOthers
  <2>5. Publishing(p) /\ Handled(p, w) /\ job' = job /\ pc' = pc /\ at' = at
    BY <1>13 DEF RemoveRetired
  <2> QED
    BY <2>1, <2>3, <2>4, <2>5, <1>b, HandledStep
<1>14. ASSUME NEW p \in Proc, NextOperation(p) PROVE InOrder'
  <2> SUFFICES ASSUME NEW q \in Proc, pc'[q] = "publishing", NEW w \in Path \ foreign'[q], Behind(q, w)'
               PROVE  disk'[w] = Desired(job'[q], w)
    BY DEF InOrder
  <2>1. CASE q = p
    <3>1. /\ at'[p] = at[p] + 1 /\ left'[p] = PathsOf(job[p], at[p] + 1) /\ left[p] = {}
          /\ job' = job /\ disk' = disk /\ foreign' = foreign /\ pc[p] = "publishing"
      BY <1>14 DEF NextOperation, Publishing, files, Typed
    <3>2. PICK i \in DOMAIN job[p].ops :
            /\ i <= at[p] + 1 /\ w \in Touched(job[p].ops[i])
            /\ i = at[p] + 1 => w \notin PathsOf(job[p], at[p] + 1)
      BY <2>1, <3>1 DEF Behind
    <3>3. i # at[p] + 1
      BY <3>2 DEF PathsOf
    <3>4. i \in Nat /\ at[p] \in Nat
      <4>1. DOMAIN job[p].ops = 1 .. Len(job[p].ops)
        BY <3>1, <1>c DEF IsBundle
      <4> QED
        BY <4>1 DEF Typed
    <3>5. i <= at[p]
      BY <3>2, <3>3, <3>4
    <3>6. Behind(p, w)
      BY <3>1, <3>2, <3>5 DEF Behind
    <3> QED
      BY <2>1, <3>1, <3>6 DEF InOrder
  <2>2. CASE q # p
    BY <1>14, <2>2, InOrderKept DEF NextOperation, Typed
  <2> QED
    BY <2>1, <2>2
<1>15. ASSUME NEW p \in Proc, FinishOperations(p) PROVE InOrder'
  BY <1>15, <1>a DEF FinishOperations, Typed, files, progress, Goto
<1>16. ASSUME NEW p \in Proc, Verify(p) PROVE InOrder'
  BY <1>16, <1>a DEF Verify, Typed, files, progress, Goto, Leave
<1>17. ASSUME NEW p \in Proc, Fail(p) PROVE InOrder'
  BY <1>17, <1>a DEF Fail, Typed, files, progress, Goto, Leave
<1>18. ASSUME NEW p \in Proc, Abort(p) PROVE InOrder'
  BY <1>18, <1>a DEF Abort, Typed, files, progress, Goto, Leave
<1>19. ASSUME NEW w \in Path, NEW c \in Content, Edit(w, c) PROVE InOrder'
  BY <1>19, <1>a DEF Edit, Typed, files, progress
<1> QED
  BY <1>0, <1>1, <1>2, <1>3, <1>4, <1>5, <1>6, <1>7, <1>8, <1>9, <1>10, <1>11, <1>12, <1>13, <1>14, <1>15, <1>16, <1>17, <1>18, <1>19 DEF OpenNext, OpenStep, Work

-----------------------------------------------------------------------------
(* Whoever changes a path of the tree is the holder publishing there, or   *)
(* the editor.                                                             *)
LEMMA WhoWrites ==
  ASSUME Typed, OneWriter, Staging, [OpenNext]_vars, NEW w \in Path, disk'[w] # disk[w]
  PROVE  \/ edits' # edits
         \/ \E p \in Proc : holder = p /\ aim[p] = w /\ Persist(p)
         \/ \E p \in Proc : holder = p /\ RemoveRetired(p, w)
<1> DEFINE Found ==
      \/ edits' # edits
      \/ \E p \in Proc : holder = p /\ aim[p] = w /\ Persist(p)
      \/ \E p \in Proc : holder = p /\ RemoveRetired(p, w)
<1> USE DEF files
<1>0. CASE UNCHANGED vars
  BY <1>0 DEF vars
<1>1. ASSUME NEW p \in Proc, NEW b, Hand(p, b) PROVE Found
  BY <1>1 DEF Hand
<1>2. ASSUME NEW p \in Proc, Rerun(p) PROVE Found
  BY <1>2 DEF Rerun
<1>3. ASSUME NEW p \in Proc, Acquire(p) PROVE Found
  BY <1>3 DEF Acquire
<1>4. ASSUME NEW p \in Proc, Sweep(p) PROVE Found
  BY <1>4 DEF Sweep
<1>5. ASSUME NEW p \in Proc, Admit(p) PROVE Found
  BY <1>5 DEF Admit
<1>6. ASSUME NEW p \in Proc, Refuse(p) PROVE Found
  BY <1>6 DEF Refuse
<1>7. ASSUME NEW p \in Proc, NEW d \in Dir, Probe(p, d) PROVE Found
  BY <1>7 DEF Probe
<1>8. ASSUME NEW p \in Proc, DropProbe(p) PROVE Found
  BY <1>8 DEF DropProbe
<1>9. ASSUME NEW p \in Proc, StartOperations(p) PROVE Found
  BY <1>9 DEF StartOperations
<1>10. ASSUME NEW p \in Proc, NEW v \in Path, SkipWrite(p, v) PROVE Found
  BY <1>10 DEF SkipWrite
<1>11. ASSUME NEW p \in Proc, NEW v \in Path, Stage(p, v) PROVE Found
  BY <1>11 DEF Stage
<1>12. ASSUME NEW p \in Proc, Persist(p) PROVE Found
  <2>1. holder = p
    BY <1>12 DEF Persist, Publishing, OneWriter, Holding
  <2>2. aim[p] = w
    BY <1>12 DEF Persist, Typed, Tree
  <2> QED
    BY <1>12, <2>1, <2>2
<1>13. ASSUME NEW p \in Proc, NEW v \in Path, RemoveRetired(p, v) PROVE Found
  <2>1. holder = p
    BY <1>13 DEF RemoveRetired, Publishing, OneWriter, Holding
  <2>2. v = w
    BY <1>13 DEF RemoveRetired, Typed, Tree
  <2> QED
    BY <1>13, <2>1, <2>2
<1>14. ASSUME NEW p \in Proc, NextOperation(p) PROVE Found
  BY <1>14 DEF NextOperation
<1>15. ASSUME NEW p \in Proc, FinishOperations(p) PROVE Found
  BY <1>15 DEF FinishOperations
<1>16. ASSUME NEW p \in Proc, Verify(p) PROVE Found
  BY <1>16 DEF Verify
<1>17. ASSUME NEW p \in Proc, Fail(p) PROVE Found
  BY <1>17 DEF Fail
<1>18. ASSUME NEW p \in Proc, Abort(p) PROVE Found
  BY <1>18 DEF Abort
<1>19. ASSUME NEW v \in Path, NEW c \in Content, Edit(v, c) PROVE Found
  BY <1>19 DEF Edit, Typed
<1> QED
  BY <1>0, <1>1, <1>2, <1>3, <1>4, <1>5, <1>6, <1>7, <1>8, <1>9, <1>10, <1>11, <1>12, <1>13, <1>14, <1>15, <1>16, <1>17, <1>18, <1>19 DEF OpenNext, OpenStep, Work

(* The step that publishes the marker finds everything before it behind.   *)
LEMMA MarkerStep ==
  ASSUME Typed, OneWriter, Staging, InOrder, [OpenNext]_vars,
         NEW p \in Proc, Marked(job[p]), holder = p, edits' = edits,
         NEW n \in DOMAIN job[p].ops, n = Len(job[p].ops),
         NEW w \in Written(job[p].ops[n]), disk'[w] # disk[w],
         NEW v \in TouchedPaths(job[p]) \ (Written(job[p].ops[n]) \cup foreign[p])
  PROVE  disk[v] = Desired(job[p], v)
<1>1. pc[p] # "idle"
  BY DEF OneWriter, Holding
<1>2. IsBundle(job[p]) /\ WellFormed(job[p])
  BY <1>1, JobIsBundle
<1>3. w \in Path /\ w \in DesiredPaths(job[p])
  BY <1>2, DesiredImage
<1>4. aim[p] = w /\ Persist(p)
  <2>1. ASSUME RemoveRetired(p, w) PROVE FALSE
    BY <1>2, <1>3, <2>1, RemoveTypes DEF WellFormed
  <2> QED
    BY <1>3, <2>1, WhoWrites
<1>5. pc[p] = "publishing" /\ at[p] \in DOMAIN job[p].ops /\ w \in Written(job[p].ops[at[p]])
  BY <1>4 DEF Persist, Publishing, Staging
<1>6. at[p] = n /\ Retired(job[p].ops[n]) = {}
  BY <1>5 DEF Marked
<1>7. PICK i \in DOMAIN job[p].ops : v \in Touched(job[p].ops[i])
  BY DEF TouchedPaths, DesiredPaths, RemovedPaths, Touched
<1>8. i # n
  BY <1>6, <1>7 DEF Touched
<1>9. i <= at[p]
  BY <1>2, <1>6, <1>7 DEF IsBundle
<1>10. Behind(p, v)
  BY <1>6, <1>7, <1>8, <1>9 DEF Behind
<1>11. v \in Path
  BY <1>2, TouchedTypes DEF TouchedPaths
<1> QED
  BY <1>5, <1>10, <1>11 DEF InOrder

-----------------------------------------------------------------------------
(* Guarded directories.  What is appended is written, and what is written  *)
(* is a project path in a swept directory.                                 *)
LEMMA AppendedTypes ==
  ASSUME NEW b
  PROVE  AppendedPaths(b) \subseteq DesiredPaths(b)
  BY DEF AppendedPaths, DesiredPaths

(* The tree a plan is admitted on holds in a guarded directory what was    *)
(* captured, and of the plan's own migrations any number; and its sweep    *)
(* has left no debris that would hide another's.                           *)
LEMMA AdmittedIsGuarded ==
  ASSUME NEW b, IsBundle(b), WellFormed(b), GuardsAppends(b), NEW tree \in Tree, NEW littered,
         littered \cap SweptDirs(b) = {}, Admitted(tree, littered, b), NEW e \in DOMAIN b.dirs
  PROVE  /\ \A w \in Path : DirOf[w] = e => GuardedPath(tree, b, w)
         /\ GuardedDir(littered, b, e)
<1> DEFINE captured == {v \in DOMAIN b.base : DirOf[v] = e /\ b.base[v] # Absent}
<1>1. /\ b.dirs[e].files = [w \in captured |-> b.base[w]]
      /\ \A w \in TouchedPaths(b) : DirOf[w] = e => w \in AppendedPaths(b) \ DOMAIN b.dirs[e].files
  BY DEF GuardsAppends
<1>2. DirAdmitted(tree, littered, b, e)
  BY DEF Admitted
<1>3. (e \in littered) = (e \in littered \ SweptDirs(b))
  OBVIOUS
<1>4. \A w \in AppendedPaths(b) : w \in TouchedPaths(b) /\ w \in DesiredPaths(b)
  BY AppendedTypes DEF TouchedPaths
<1>5. CASE Observe(tree, littered, e) = b.dirs[e]
  <2>1. [w \in PresentIn(tree, e) |-> tree[w]] = [w \in captured |-> b.base[w]]
    BY <1>1, <1>5 DEF Observe
  <2>2. PresentIn(tree, e) = captured /\ \A w \in captured : tree[w] = b.base[w]
    BY <2>1
  <2>3. (e \in littered) = b.dirs[e].litter
    BY <1>5 DEF Observe
  <2>4. ASSUME NEW w \in Path, DirOf[w] = e PROVE GuardedPath(tree, b, w)
    <3>1. CASE w \in AppendedPaths(b)
      <4>1. w \notin captured
        BY <1>1, <1>4, <2>4, <3>1
      <4> QED
        BY <2>2, <2>4, <3>1, <4>1 DEF PresentIn, GuardedPath
    <3>2. CASE w \notin AppendedPaths(b)
      BY <2>2, <2>4, <3>2 DEF PresentIn, GuardedPath, CapturedAt
    <3> QED
      BY <3>1, <3>2
  <2> QED
    BY <1>3, <2>3, <2>4 DEF GuardedDir
<1>6. CASE PlanPrefix(tree, littered, b, e)
  <2>1. /\ captured \subseteq PresentIn(tree, e)
        /\ PresentIn(tree, e) \subseteq captured \cup {w \in AppendedPaths(b) : DirOf[w] = e}
        /\ (e \in littered) = b.dirs[e].litter
        /\ \A w \in PresentIn(tree, e) :
             IF w \in DesiredPaths(b) THEN tree[w] = Desired(b, w) ELSE tree[w] = b.base[w]
    BY <1>6 DEF PlanPrefix
  <2>2. ASSUME NEW w \in Path, DirOf[w] = e PROVE GuardedPath(tree, b, w)
    <3>1. CASE w \in AppendedPaths(b)
      BY <1>4, <2>1, <2>2, <3>1 DEF PresentIn, GuardedPath
    <3>2. CASE w \notin AppendedPaths(b)
      <4>1. w \notin DesiredPaths(b)
        BY <1>1, <2>2, <3>2 DEF TouchedPaths
      <4>2. CASE w \in PresentIn(tree, e)
        BY <2>1, <3>2, <4>1, <4>2 DEF GuardedPath, CapturedAt
      <4>3. CASE w \notin PresentIn(tree, e)
        BY <2>1, <2>2, <3>2, <4>3 DEF PresentIn, GuardedPath, CapturedAt
      <4> QED
        BY <4>2, <4>3
    <3> QED
      BY <3>1, <3>2
  <2> QED
    BY <1>3, <2>1, <2>2 DEF GuardedDir
<1> QED
  BY <1>2, <1>5, <1>6 DEF DirAdmitted

(* And a directory that holds no more than that is admitted.               *)
LEMMA GuardedIsAdmitted ==
  ASSUME NEW b, IsBundle(b), WellFormed(b), GuardsAppends(b), NEW tree \in Tree, NEW littered,
         NEW e \in DOMAIN b.dirs, GuardedDir(littered, b, e),
         \A w \in Path : DirOf[w] = e => GuardedPath(tree, b, w)
  PROVE  DirAdmitted(tree, littered \ SweptDirs(b), b, e)
<1> DEFINE captured == {v \in DOMAIN b.base : DirOf[v] = e /\ b.base[v] # Absent}
<1> DEFINE appended == {w \in AppendedPaths(b) : DirOf[w] = e}
<1>1. /\ DOMAIN b.dirs[e].files = captured
      /\ \A w \in TouchedPaths(b) : DirOf[w] = e => w \in AppendedPaths(b) \ DOMAIN b.dirs[e].files
  BY DEF GuardsAppends
<1>2. \A w \in AppendedPaths(b) : w \in TouchedPaths(b) /\ w \in DesiredPaths(b)
  BY AppendedTypes DEF TouchedPaths
<1>3. captured \subseteq Path
  BY DEF IsBundle, PartialFunction
<1>4. ASSUME NEW w \in captured PROVE w \in PresentIn(tree, e)
  <2>1. w \notin AppendedPaths(b)
    BY <1>1, <1>2
  <2>2. tree[w] = b.base[w]
    BY <1>3, <2>1 DEF GuardedPath, CapturedAt
  <2> QED
    BY <1>3, <2>2 DEF PresentIn
<1>5. ASSUME NEW w \in PresentIn(tree, e) PROVE w \in captured \cup appended
  BY DEF PresentIn, GuardedPath, CapturedAt
<1>6. ASSUME NEW w \in PresentIn(tree, e)
      PROVE  IF w \in DesiredPaths(b) THEN tree[w] = Desired(b, w) ELSE tree[w] = b.base[w]
  <2>1. w \in Path /\ DirOf[w] = e /\ tree[w] # Absent /\ GuardedPath(tree, b, w)
    BY DEF PresentIn
  <2>2. CASE w \in DesiredPaths(b)
    <3>1. w \in AppendedPaths(b)
      BY <1>1, <2>1, <2>2 DEF TouchedPaths
    <3> QED
      BY <2>1, <2>2, <3>1 DEF GuardedPath
  <2>3. CASE w \notin DesiredPaths(b)
    <3>1. w \notin AppendedPaths(b)
      BY <1>2, <2>3
    <3> QED
      BY <2>1, <2>3, <3>1 DEF GuardedPath, CapturedAt
  <2> QED
    BY <2>2, <2>3
<1>7. (e \in littered \ SweptDirs(b)) = b.dirs[e].litter
  BY DEF GuardedDir
<1> QED
  BY <1>4, <1>5, <1>6, <1>7 DEF DirAdmitted, PlanPrefix

(* The plan's own steps touch a guarded directory only to append to it, or *)
(* to litter it where its next sweep looks.                                *)
LEMMA GuardedStep ==
  Typed /\ Staging /\ Staging' /\ Cleared /\ Guarded /\ Accounted => Guarded'
<1> SUFFICES ASSUME Typed, Staging, Staging', Cleared, Guarded, Accounted,
                    NEW q \in Proc, pc'[q] # "idle", GuardsAppends(job'[q])
             PROVE  /\ \A w \in Path \ foreign'[q] :
                         DirOf[w] \in DOMAIN job'[q].dirs => GuardedPath(disk', job'[q], w)
                    /\ \A d \in DOMAIN job'[q].dirs \ foreign'[q] : GuardedDir(debris', job'[q], d)
  BY DEF Guarded
<1>1. CASE Recorded(q) /\ pc[q] # "idle"
  <2>1. job'[q] = job[q] /\ foreign[q] \subseteq foreign'[q]
    BY <1>1 DEF Recorded
  <2>2. IsBundle(job[q]) /\ WellFormed(job[q]) /\ GuardsAppends(job[q])
    BY <1>1, <2>1, JobIsBundle
  <2>3. \A w \in Path \ foreign[q] : DirOf[w] \in DOMAIN job[q].dirs => GuardedPath(disk, job[q], w)
    BY <1>1, <2>2 DEF Guarded
  <2>4. \A d \in DOMAIN job[q].dirs \ foreign[q] : GuardedDir(debris, job[q], d)
    BY <1>1, <2>2 DEF Guarded
  <2>5. ASSUME NEW w \in Path \ foreign'[q], DirOf[w] \in DOMAIN job[q].dirs
        PROVE  GuardedPath(disk', job[q], w)
    <3>1. GuardedPath(disk, job[q], w)
      BY <2>1, <2>3, <2>5
    <3>2. CASE disk'[w] = disk[w]
      BY <3>1, <3>2 DEF GuardedPath
    <3>3. CASE disk'[w] = Desired(job[q], w) /\ w \in AppendedPaths(job[q])
      BY <3>3 DEF GuardedPath
    <3>4. CASE disk'[w] # disk[w] /\ w \notin AppendedPaths(job[q])
      BY <1>1, <2>1, <2>2, <2>5, <3>4 DEF Recorded, GuardsAppends
    <3> QED
      BY <1>1, <2>1, <3>2, <3>3, <3>4 DEF Recorded
  <2>6. ASSUME NEW d \in DOMAIN job[q].dirs \ foreign'[q]
        PROVE  GuardedDir(debris', job[q], d)
    <3>1. d \in Dir /\ GuardedDir(debris, job[q], d)
      BY <2>1, <2>2, <2>4 DEF IsBundle
    <3>2. CASE (d \in debris') = (d \in debris)
      BY <3>1, <3>2 DEF GuardedDir
    <3>3. CASE d \in ParentsOf(TouchedPaths(job[q]))
      <4>1. PICK w \in TouchedPaths(job[q]) : d = DirOf[w]
        BY <3>3 DEF ParentsOf
      <4>2. w \in DesiredPaths(job[q])
        BY <2>2, <4>1, AppendedTypes DEF GuardsAppends
      <4>3. d \in SweptDirs(job[q])
        BY <4>1, <4>2 DEF SweptDirs, ParentsOf
      <4> QED
        BY <3>1, <4>3 DEF GuardedDir
    <3> QED
      BY <1>1, <3>1, <3>2, <3>3 DEF Recorded
  <2> QED
    BY <2>1, <2>5, <2>6
<1>2. CASE Opened(q) \/ (Recorded(q) /\ pc[q] = "idle")
  <2>1. DOMAIN job'[q].dirs \subseteq Dir
    BY DEF Staging, Fit, IsBundle
  <2>2. Path \cup Dir \subseteq foreign'[q]
    BY <1>2 DEF Opened, Recorded, Staging
  <2> QED
    BY <2>1, <2>2
<1>3. CASE Balanced(q)
  <2>1. pc[q] # "idle" /\ job' = job /\ disk' = disk /\ debris' = debris
    BY <1>3 DEF Balanced
  <2>2. IsBundle(job[q]) /\ WellFormed(job[q]) /\ GuardsAppends(job[q])
    BY <2>1, JobIsBundle
  <2>3. debris \cap SweptDirs(job[q]) = {} /\ Admitted(disk, debris, job[q]) /\ disk \in Tree
    BY <1>3 DEF Balanced, Cleared, Typed
  <2> QED
    BY <2>1, <2>2, <2>3, AdmittedIsGuarded
<1> QED
  BY <1>1, <1>2, <1>3 DEF Accounted

(* A plan nobody else has disturbed is admitted.                           *)
LEMMA UndisturbedIsAdmitted ==
  ASSUME Typed, Staging, Admissible, Guarded, NEW p \in Proc, job[p] # None, GuardsAppends(job[p]),
         Footprint(job[p]) \cap foreign[p] = {}
  PROVE  Admitted(disk, debris \ SweptDirs(job[p]), job[p])
<1> DEFINE b == job[p]
<1>1. IsBundle(b) /\ WellFormed(b) /\ disk \in Tree /\ pc[p] # "idle"
  BY HandedIsBundle DEF Typed, Staging
<1>2. ASSUME NEW w \in Path PROVE PathAdmitted(disk, b, w)
  <2>1. CASE w \in DOMAIN b.base \cup TouchedPaths(b)
    BY <2>1 DEF Footprint, Admissible
  <2>2. CASE w \notin DOMAIN b.base \cup TouchedPaths(b)
    BY <2>2 DEF PathAdmitted, TouchedPaths
  <2> QED
    BY <2>1, <2>2
<1>3. ASSUME NEW d \in DOMAIN b.dirs PROVE DirAdmitted(disk, debris \ SweptDirs(b), b, d)
  <2>1. GuardedDir(debris, b, d)
    BY <1>1 DEF Footprint, Guarded
  <2>2. \A w \in Path : DirOf[w] = d => GuardedPath(disk, b, w)
    BY <1>1 DEF Footprint, Guarded
  <2> QED
    BY <1>1, <2>1, <2>2, GuardedIsAdmitted
<1> QED
  BY <1>2, <1>3 DEF Admitted, FilesAdmitted

LEMMA GuardsAreReadmitted ==
  ASSUME IInv, \A p \in Proc : job[p] # None => GuardsAppends(job[p])
  PROVE  RerunAdmitted
  BY UndisturbedIsAdmitted DEF IInv, RerunAdmitted

-----------------------------------------------------------------------------
(* The conjunction is inductive.                                           *)
LEMMA Inductive == IInv /\ [OpenNext]_vars => IInv'
<1> SUFFICES ASSUME IInv, [OpenNext]_vars PROVE IInv'
  OBVIOUS
<1>1. /\ Typed /\ OneWriter /\ StagedIsLive /\ Staging /\ Nearby
      /\ Cleared /\ SweptClean /\ Admissible /\ InOrder /\ Guarded
  BY DEF IInv
<1>2. Accounted
  BY <1>1, AccountStep
<1>3. Typed' /\ OneWriter' /\ StagedIsLive' /\ Staging' /\ Nearby'
  BY <1>1, TypeStep, LockStep, StagingStep, NearbyStep
<1>4. Cleared' /\ SweptClean' /\ Admissible' /\ InOrder' /\ Guarded'
  BY <1>1, <1>2, <1>3, SweptStep, AdmissibleStep, InOrderStep, GuardedStep
<1> QED
  BY <1>3, <1>4 DEF IInv

(* The caller of the specification hands each process one of the plans.    *)
LEMMA AnyCaller == Typed /\ Staging /\ [Next]_vars => [OpenNext]_vars
<1> SUFFICES ASSUME Typed, Staging, Next PROVE OpenNext
  OBVIOUS
<1>1. ASSUME NEW p \in Proc, NEW b \in Plans, Begin(p, b) PROVE OpenNext
  <2>1. foreign' = [foreign EXCEPT ![p] = Path \cup Dir]
    BY <1>1 DEF Begin, Staging, Typed
  <2> QED
    BY <1>1, <2>1, PlansAssumption DEF Begin, Fit, Hand, OpenNext, OpenStep
<1>2. ASSUME NEW w \in EditorPaths, NEW c \in EditorImage, Edit(w, c) PROVE OpenNext
  BY <1>2, EditorAssumption DEF OpenNext
<1> QED
  BY <1>1, <1>2 DEF Next, Step, OpenNext, OpenStep

(* So it holds in every reachable state, and every step is one of an open  *)
(* executor.                                                               *)
LEMMA InitialInvariant == Init => IInv
  BY TypeInit, LockInit DEF IInv

THEOREM Invariance == Spec => []IInv
<1>1. IInv /\ [Next]_vars => IInv'
  BY AnyCaller, Inductive DEF IInv
<1> QED
  BY <1>1, InitialInvariant, PTL DEF Spec

(* Who has begun was handed one of the plans.                              *)
HandedOne ==
  /\ job \in [Proc -> Plans \cup {None}]
  /\ \A p \in Proc : pc[p] # "idle" => job[p] \in Plans

LEMMA EachIsHandedOne == Spec => []HandedOne
<1> DEFINE Kept == job' = job /\ \A q \in Proc : pc'[q] # "idle" => pc[q] # "idle"
<1>1. Init => HandedOne
  BY DEF Init, HandedOne
<1>2. ASSUME IInv, HandedOne, [Next]_vars PROVE HandedOne'
  <2>1. Kept => HandedOne'
    BY <1>2 DEF HandedOne
  <2>2. pc = [q \in Proc |-> pc[q]]
    BY <1>2 DEF IInv, Typed
  <2>3. CASE UNCHANGED vars
    BY <2>1, <2>3 DEF vars
  <2>4. ASSUME NEW p \in Proc, NEW b \in Plans, Begin(p, b) PROVE HandedOne'
    BY <1>2, <2>2, <2>4 DEF Begin, Goto, HandedOne
  <2>5. ASSUME NEW p \in Proc, Rerun(p) \/ Acquire(p) \/ FinishOperations(p) PROVE HandedOne'
    BY <2>1, <2>2, <2>5 DEF Rerun, Acquire, FinishOperations, Goto, Over, progress
  <2>6. ASSUME NEW p \in Proc, Sweep(p) \/ Admit(p) \/ StartOperations(p) PROVE HandedOne'
    BY <2>1, <2>2, <2>6 DEF Sweep, Admit, StartOperations, Goto
  <2>7. ASSUME NEW p \in Proc, Refuse(p) \/ Verify(p) PROVE HandedOne'
    BY <2>1, <2>2, <2>7 DEF Refuse, Verify, Leave, Goto
  <2>8. ASSUME NEW p \in Proc, Fail(p) \/ Abort(p) PROVE HandedOne'
    BY <2>1, <2>2, <2>8 DEF Fail, Abort, Leave, Goto, Holding
  <2>9. ASSUME NEW p \in Proc, NEW d \in Dir, Probe(p, d) \/ DropProbe(p) PROVE HandedOne'
    BY <2>1, <2>9 DEF Probe, DropProbe
  <2>10. ASSUME NEW p \in Proc, NEW w \in Path, SkipWrite(p, w) \/ Stage(p, w) \/ RemoveRetired(p, w)
         PROVE  HandedOne'
    BY <2>1, <2>10 DEF SkipWrite, Stage, RemoveRetired
  <2>11. ASSUME NEW p \in Proc, DropProbe(p) \/ Persist(p) \/ NextOperation(p) PROVE HandedOne'
    BY <2>1, <2>11 DEF DropProbe, Persist, NextOperation
  <2>12. ASSUME NEW w \in EditorPaths, NEW c \in EditorImage, Edit(w, c) PROVE HandedOne'
    BY <2>1, <2>12 DEF Edit, progress
  <2> QED
    BY <1>2, <2>3, <2>4, <2>5, <2>6, <2>7, <2>8, <2>9, <2>10, <2>11, <2>12 DEF Next, Step, Work
<1> QED
  BY <1>1, <1>2, Invariance, PTL DEF Spec

(* Every variable keeps its type, whatever the processes, plans and        *)
(* bounds are.                                                             *)
THEOREM TypeCorrect == Spec => []TypeOK
<1>1. IInv /\ HandedOne => TypeOK
  BY DEF IInv, HandedOne, Typed, TypeOK
<1> QED
  BY <1>1, Invariance, EachIsHandedOne, PTL

(* `.jails/apply.lock` makes every run between taking it and leaving       *)
(* `execute` the only writer, across failures and aborts.                  *)
THEOREM WriterExclusion == Spec => []OneWriter
  BY Invariance, PTL DEF IInv

(* No run's staged file is swept away as a dead run's before it is renamed *)
(* into place.                                                             *)
THEOREM StagedFilesAreSafe == Spec => []StagedIsLive
  BY Invariance, PTL DEF IInv

(* From its admission on, through crashes and retries, every path a plan   *)
(* touches holds what it was reviewed against or what it leaves, unless    *)
(* somebody else has changed that path since.                              *)
THEOREM NoThirdImage == Spec => []OldOrNew
<1>1. IInv => OldOrNew
  BY AdmissibleIsOldOrNew DEF IInv
<1> QED
  BY <1>1, Invariance, PTL

(* No admitted run has a staged file of a dead one beside what it          *)
(* publishes, whoever died where.                                          *)
THEOREM NoDebrisIsPublished == Spec => []SweptClean
  BY Invariance, PTL DEF IInv

(* Convergence: wherever the run of an admitted plan stops, its            *)
(* preconditions still accept the tree it leaves, unless somebody else has *)
(* moved the project under it; for plans whose guarded directories they    *)
(* only append to.                                                         *)
THEOREM RetryIsAdmitted ==
  ASSUME \A b \in Plans : GuardsAppends(b)
  PROVE  Spec => []RerunAdmitted
<1>1. IInv /\ TypeOK => RerunAdmitted
  BY GuardsAreReadmitted DEF TypeOK
<1> QED
  BY <1>1, Invariance, TypeCorrect, PTL

(* The acceptance marker is the last thing to appear, in a first run and   *)
(* in every retry of one that was cut short; for plans that have one.      *)
THEOREM MarkerIsLast ==
  ASSUME \A b \in Plans : Marked(b)
  PROVE  Spec => MarkerLast
<1> DEFINE Last(p) ==
      LET b == job[p]
          marker == UNION {Written(b.ops[i]) : i \in DOMAIN b.ops \cap {Len(b.ops)}}
      IN holder = p /\ edits' = edits /\ (\E w \in marker : disk'[w] # disk[w])
           => \A w \in TouchedPaths(b) \ (marker \cup foreign[p]) : disk[w] = Desired(b, w)
<1>1. IInv /\ HandedOne /\ [Next]_vars => [\A p \in Proc : Last(p)]_vars
  <2> SUFFICES ASSUME IInv, HandedOne, [Next]_vars, NEW p \in Proc PROVE Last(p)
    OBVIOUS
  <2> DEFINE marker == UNION {Written(job[p].ops[i]) : i \in DOMAIN job[p].ops \cap {Len(job[p].ops)}}
  <2>1. SUFFICES ASSUME holder = p, edits' = edits, NEW w \in marker, disk'[w] # disk[w],
                        NEW v \in TouchedPaths(job[p]) \ (marker \cup foreign[p])
                 PROVE  disk[v] = Desired(job[p], v)
    OBVIOUS
  <2>2. PICK n \in DOMAIN job[p].ops : n = Len(job[p].ops) /\ w \in Written(job[p].ops[n])
    BY <2>1
  <2>3. marker = Written(job[p].ops[n])
    BY <2>2
  <2>4. Typed /\ OneWriter /\ Staging /\ InOrder
    BY DEF IInv
  <2>5. Marked(job[p])
    BY <2>1, <2>4 DEF OneWriter, Holding, HandedOne
  <2>6. [OpenNext]_vars
    BY <2>4, AnyCaller
  <2> QED
    BY <2>1, <2>2, <2>3, <2>4, <2>5, <2>6, MarkerStep
<1> QED
  BY <1>1, Invariance, EachIsHandedOne, PTL DEF Spec, MarkerLast

-----------------------------------------------------------------------------
(* The refinement.  Outside an admission the abstract tree is the tree;    *)
(* during one, whatever differs is a path of the admitted plan that        *)
(* already holds its image; and until the probes are done nothing differs. *)
Remembered ==
  /\ seen \in Tree
  /\ ~Underway => seen = disk
  /\ \A p \in Proc : pc[p] = "probing" => seen = disk
  /\ \A p \in Proc : pc[p] \in Admission =>
       \A w \in Path : disk[w] = seen[w] \/ (w \in TouchedPaths(job[p]) /\ disk[w] = Desired(job[p], w))

RInv == IInv /\ Remembered

(* Only one run is under way.                                              *)
LEMMA OneUnderway ==
  ASSUME OneWriter, NEW p \in Proc, pc[p] \in Holding
  PROVE  \A q \in Proc : pc[q] \in Holding \cup Admission => q = p
  BY NoneAssumption DEF OneWriter, Holding, Admission

(* The abstract tree stands still while a run is under way and nobody      *)
(* edits; it catches up when none is.                                      *)
LEMMA SeenStands ==
  ASSUME Remember, Remembered, Underway', edits' = edits
  PROVE  seen' = seen
  BY DEF Remember, Remembered, Tree

LEMMA SeenCatchesUp ==
  ASSUME Remember, ~Underway'
  PROVE  seen' = disk'
  BY DEF Remember

(* A step that publishes nothing and neither begins nor ends an admission  *)
(* is none of the abstract tree.                                           *)
LEMMA OffStage ==
  ASSUME Remember, Remembered, disk' = disk, edits' = edits,
         \A q \in Proc : /\ pc'[q] \in Admission <=> pc[q] \in Admission
                         /\ pc'[q] = "probing" => pc[q] = "probing"
                         /\ pc[q] \in Admission => job'[q] = job[q]
  PROVE  seen' = seen /\ Remembered'
<1>1. Underway' <=> Underway
  BY DEF Underway
<1>2. seen' = seen
  <2>1. CASE Underway'
    BY <2>1, SeenStands
  <2>2. CASE ~Underway'
    BY <1>1, <2>2, SeenCatchesUp DEF Remembered
  <2> QED
    BY <2>1, <2>2
<1> QED
  BY <1>1, <1>2 DEF Remembered

(* What a position means to the abstract specification.                    *)
LEMMA Statuses ==
  /\ Status("idle") = "idle"
  /\ \A l \in {"waiting", "sweeping", "checking"} : Status(l) = "asked"
  /\ \A l \in Admission : Status(l) = "admitted"
  /\ Status("done") = "applied" /\ Status("refused") = "refused"
  /\ Status("failed") = "interrupted" /\ Status("dead") = "interrupted"
  BY DEF Status, Admission

(* The abstract status of one process moves with its position.             *)
LEMMA Becomes ==
  ASSUME Typed, NEW p \in Proc, NEW label, Goto(p, label), NEW s, s = Status(label)
  PROVE  Abstract!Become(p, s)
  BY DEF Typed, Goto, Abstract!Become

(* A step that moves no status, no plan and not the abstract tree.         *)
LEMMA Stutters ==
  ASSUME Typed, seen' = seen, job' = job,
         \/ pc' = pc
         \/ \E p \in Proc, label \in {"sweeping", "checking", "publishing", "verifying"} :
              Goto(p, label) /\ Status(label) = Status(pc[p])
  PROVE  UNCHANGED Abstract!avars
<1>1. CASE pc' = pc
  BY <1>1 DEF Abstract!avars
<1>2. ASSUME NEW p \in Proc, NEW label, Goto(p, label), Status(label) = Status(pc[p])
      PROVE  UNCHANGED Abstract!avars
  BY <1>2 DEF Typed, Goto, Abstract!avars
<1> QED
  BY <1>1, <1>2

(* The end of an admission: the tree is the abstract one with some of the  *)
(* plan's paths published.                                                 *)
LEMMA SomePublished ==
  ASSUME Remembered, Typed, NEW p \in Proc, pc[p] \in Admission
  PROVE  LET done == {w \in TouchedPaths(job[p]) : disk[w] = Desired(job[p], w)}
         IN disk = Abstract!Published(seen, job[p], done)
<1> DEFINE done == {w \in TouchedPaths(job[p]) : disk[w] = Desired(job[p], w)}
<1>1. \A w \in Path : disk[w] = IF w \in done THEN Desired(job[p], w) ELSE seen[w]
  BY DEF Remembered
<1> QED
  BY <1>1 DEF Typed, Tree, Abstract!Published, Abstract!Desired, Desired, Abstract!DesiredPaths, DesiredPaths,
              Abstract!Written, Written

LEMMA AllPublished ==
  ASSUME Remembered, Typed, NEW p \in Proc, pc[p] \in Admission, Applied(disk, job[p])
  PROVE  disk = Abstract!Published(seen, job[p], Abstract!TouchedPaths(job[p]))
<1>1. {w \in TouchedPaths(job[p]) : disk[w] = Desired(job[p], w)} = TouchedPaths(job[p])
  BY DEF Applied
<1>2. Abstract!TouchedPaths(job[p]) = TouchedPaths(job[p])
  BY DEF Abstract!TouchedPaths, TouchedPaths, Abstract!DesiredPaths, DesiredPaths, Abstract!RemovedPaths, RemovedPaths,
         Abstract!Written, Written, Abstract!Retired, Retired
<1> QED
  BY <1>1, <1>2, SomePublished

(* What is admitted of the tree is admitted of the abstract one.           *)
LEMMA SameAdmission ==
  ASSUME NEW b, FilesAdmitted(seen, b)
  PROVE  Abstract!FilesAdmitted(seen, b)
  BY DEF Abstract!FilesAdmitted, FilesAdmitted, Abstract!PathAdmitted, PathAdmitted, Abstract!FileAdmitted, FileAdmitted,
         Abstract!NewPathAdmitted, NewPathAdmitted, Abstract!Desired, Desired, Abstract!DesiredPaths, DesiredPaths,
         Abstract!RemovedPaths, RemovedPaths, Abstract!Written, Written, Abstract!Retired, Retired

(* A run that stops after its admission, with or without a word, has       *)
(* published some of its paths and leaves every other as it was.           *)
LEMMA InterruptStep ==
  ASSUME Typed, OneWriter, Remembered, Remember, NEW p \in Proc, pc[p] \in Admission,
         disk' = disk, job' = job, NEW label \in {"failed", "dead"}, Goto(p, label)
  PROVE  Abstract!Interrupt(p) /\ Remembered'
<1>1. pc[p] \in Holding
  BY DEF Admission, Holding
<1>2. \A q \in Proc : pc'[q] \notin Admission
  BY <1>1, OneUnderway DEF Typed, Goto, Admission
<1>3. seen' = disk
  BY <1>2, SeenCatchesUp DEF Underway
<1>4. Abstract!Become(p, "interrupted")
  BY Becomes, Statuses
<1>5. Status(pc[p]) = "admitted"
  BY Statuses
<1> DEFINE done == {w \in TouchedPaths(job[p]) : disk[w] = Desired(job[p], w)}
<1>6. done \in SUBSET Abstract!TouchedPaths(job[p])
  BY DEF Abstract!TouchedPaths, TouchedPaths, Abstract!DesiredPaths, DesiredPaths, Abstract!RemovedPaths, RemovedPaths,
         Abstract!Written, Written, Abstract!Retired, Retired
<1>7. seen' = Abstract!Published(seen, job[p], done)
  BY <1>3, SomePublished
<1>8. Remembered'
  BY <1>2, <1>3 DEF Remembered, Underway, Typed, Admission
<1>9. Abstract!Interrupt(p)
  BY <1>4, <1>5, <1>6, <1>7 DEF Abstract!Interrupt
<1> QED
  BY <1>8, <1>9

(* And a run that stops before it has published nothing.                   *)
LEMMA EarlyStep ==
  ASSUME Typed, OneWriter, Remembered, Remember, NEW p \in Proc,
         pc[p] \in {"waiting", "sweeping", "checking", "probing"},
         disk' = disk, job' = job, edits' = edits, NEW label \in {"refused", "dead"}, Goto(p, label)
  PROVE  seen' = seen /\ Remembered'
<1>1. CASE pc[p] # "probing"
  BY <1>1, OffStage DEF Typed, Goto, Admission
<1>2. CASE pc[p] = "probing"
  <2>1. \A q \in Proc : pc'[q] \notin Admission
    BY <1>2, OneUnderway DEF Typed, Goto, Admission, Holding
  <2>2. seen' = disk
    BY <2>1, SeenCatchesUp DEF Underway
  <2> QED
    BY <1>2, <2>1, <2>2 DEF Remembered, Underway, Typed, Admission
<1> QED
  BY <1>1, <1>2

(* Publishing a path of the plan's, with its image.                        *)
LEMMA PublishStep ==
  ASSUME Typed, OneWriter, Remembered, Remember, NEW p \in Proc, pc[p] = "publishing",
         NEW u \in TouchedPaths(job[p]), disk' = [disk EXCEPT ![u] = Desired(job[p], u)],
         job' = job, pc' = pc, edits' = edits
  PROVE  UNCHANGED Abstract!avars /\ Remembered'
<1>1. seen' = seen
  BY SeenStands DEF Underway, Admission
<1>2. \A q \in Proc : pc[q] \in Admission => q = p
  BY OneUnderway DEF Holding
<1>3. \A w \in Path : disk'[w] = IF w = u THEN Desired(job[p], u) ELSE disk[w]
  BY DEF Typed, Tree
<1>4. Remembered'
  BY <1>1, <1>2, <1>3 DEF Remembered, Underway, Admission
<1> QED
  BY <1>1, <1>4, Stutters

(* Every step of the executor is a step of AtomicApply, or none.           *)
LEMMA RefinementStep ==
  RInv /\ [RNext]_rvars => [Abstract!ANext]_Abstract!avars /\ Remembered'
<1> SUFFICES ASSUME RInv, [RNext]_rvars PROVE [Abstract!ANext]_Abstract!avars /\ Remembered'
  OBVIOUS
<1> DEFINE Simulated == [Abstract!ANext]_Abstract!avars /\ Remembered'
<1>a. Typed /\ OneWriter /\ Staging /\ Remembered
  BY DEF RInv, IInv
<1>b. \A p \in Proc : pc[p] \in Holding => \A q \in Proc : pc[q] \in Holding \cup Admission => q = p
  BY <1>a, OneUnderway
<1>c. CASE UNCHANGED rvars
  BY <1>a, <1>c DEF rvars, Abstract!avars, Remembered, Underway
<1>d. CASE RNext
  <2>1. ASSUME NEW p \in Proc, NEW b \in Plans, Begin(p, b) PROVE Simulated
    <3>1. seen' = seen /\ Remembered'
      BY <2>1, <1>a, <1>d, OffStage DEF Begin, RNext, Goto, Typed, Admission, files
    <3>2. Abstract!Become(p, "asked")
      BY <2>1, <1>a, Becomes, Statuses DEF Begin
    <3>3. Status(pc[p]) = "idle"
      BY <2>1, Statuses DEF Begin
    <3>4. Abstract!Ask(p)
      BY <2>1, <3>1, <3>2, <3>3 DEF Begin, Abstract!Ask
    <3> QED
      BY <3>1, <3>4 DEF Abstract!ANext
  <2>2. ASSUME NEW p \in Proc, Rerun(p) PROVE Simulated
    <3>1. seen' = seen /\ Remembered'
      BY <2>2, <1>a, <1>d, OffStage DEF Rerun, RNext, Goto, Typed, Admission, Over, files, progress
    <3>2. Abstract!Become(p, "asked")
      BY <2>2, <1>a, Becomes, Statuses DEF Rerun
    <3>3. Status(pc[p]) \in Abstract!Settled
      BY <2>2, Statuses DEF Rerun, Over, Admission, Abstract!Settled
    <3>4. Abstract!Ask(p)
      BY <2>2, <3>1, <3>2, <3>3 DEF Rerun, progress, Abstract!Ask
    <3> QED
      BY <3>1, <3>4 DEF Abstract!ANext
  <2>3. ASSUME NEW p \in Proc, Acquire(p) PROVE Simulated
    <3>1. seen' = seen /\ Remembered'
      BY <2>3, <1>a, <1>d, OffStage DEF Acquire, RNext, Goto, Typed, Admission, files, progress
    <3>2. Goto(p, "sweeping") /\ job' = job /\ Status("sweeping") = Status(pc[p])
      BY <2>3, Statuses DEF Acquire, Admission, files, progress
    <3>3. UNCHANGED Abstract!avars
      BY <1>a, <3>1, <3>2, Stutters
    <3> QED
      BY <3>1, <3>3
  <2>4. ASSUME NEW p \in Proc, Sweep(p) PROVE Simulated
    <3>1. seen' = seen /\ Remembered'
      BY <2>4, <1>a, <1>d, OffStage DEF Sweep, RNext, Goto, Typed, Admission, files, progress
    <3>2. Goto(p, "checking") /\ job' = job /\ Status("checking") = Status(pc[p])
      BY <2>4, Statuses DEF Sweep, Admission, files, progress
    <3>3. UNCHANGED Abstract!avars
      BY <1>a, <3>1, <3>2, Stutters
    <3> QED
      BY <3>1, <3>3
  <2>5. ASSUME NEW p \in Proc, Admit(p) PROVE Simulated
    <3>1. pc[p] \in Holding /\ pc[p] \notin Admission /\ pc' = [pc EXCEPT ![p] = "probing"]
      BY <2>5 DEF Admit, Goto, Holding, Admission
    <3>2. ~Underway /\ \A q \in Proc : pc'[q] \in Admission => q = p
      BY <1>a, <1>b, <3>1 DEF Underway, Typed
    <3>3. Underway'
      BY <1>a, <3>1 DEF Underway, Admission, Typed
    <3>4. seen' = seen /\ seen = disk /\ disk' = disk /\ job' = job
      BY <2>5, <1>a, <1>d, <3>2, <3>3, SeenStands DEF Admit, RNext, Remembered, files
    <3>5. Remembered'
      BY <1>a, <3>3, <3>4 DEF Remembered
    <3>6. Abstract!Become(p, "admitted")
      BY <2>5, <1>a, Becomes, Statuses DEF Admit, Admission
    <3>7. Status(pc[p]) = "asked"
      BY <2>5, Statuses DEF Admit
    <3>8. ASSUME NEW q \in Proc PROVE Status(pc[q]) # "admitted"
      <4>1. pc[q] \notin Admission
        BY <3>2 DEF Underway
      <4>2. pc[q] \in {"idle", "waiting", "sweeping", "checking", "done", "refused", "failed", "dead"}
        BY <1>a, <4>1 DEF Typed, Holding, Over, Admission
      <4> QED
        BY <4>2 DEF Status, Admission
    <3>9. Abstract!FilesAdmitted(seen, job[p])
      BY <2>5, <3>4, SameAdmission DEF Admit, Admitted
    <3>10. Abstract!AdmitPlan(p)
      BY <3>4, <3>6, <3>7, <3>8, <3>9 DEF Abstract!AdmitPlan
    <3> QED
      BY <3>5, <3>10 DEF Abstract!ANext
  <2>6. ASSUME NEW p \in Proc, Refuse(p) PROVE Simulated
    <3>1. pc[p] = "checking" /\ Goto(p, "refused") /\ disk' = disk /\ job' = job /\ edits' = edits
      BY <2>6 DEF Refuse, Leave, files
    <3>2. seen' = seen /\ Remembered'
      BY <1>a, <1>d, <3>1, EarlyStep DEF RNext
    <3>3. Abstract!Become(p, "refused")
      BY <1>a, <3>1, Becomes, Statuses
    <3>4. Status(pc[p]) = "asked"
      BY <3>1, Statuses
    <3>5. Abstract!RefusePlan(p)
      BY <3>1, <3>2, <3>3, <3>4 DEF Abstract!RefusePlan
    <3> QED
      BY <3>2, <3>5 DEF Abstract!ANext
  <2>7. ASSUME NEW p \in Proc, NEW d \in Dir, Probe(p, d) PROVE Simulated
    <3>1. seen' = seen /\ Remembered'
      BY <2>7, <1>a, <1>d, OffStage DEF Probe, RNext, files, progress
    <3>2. UNCHANGED Abstract!avars
      BY <2>7, <1>a, <3>1, Stutters DEF Probe
    <3> QED
      BY <3>1, <3>2
  <2>8. ASSUME NEW p \in Proc, DropProbe(p) PROVE Simulated
    <3>1. seen' = seen /\ Remembered'
      BY <2>8, <1>a, <1>d, OffStage DEF DropProbe, RNext, files, progress
    <3>2. UNCHANGED Abstract!avars
      BY <2>8, <1>a, <3>1, Stutters DEF DropProbe
    <3> QED
      BY <3>1, <3>2
  <2>9. ASSUME NEW p \in Proc, StartOperations(p) PROVE Simulated
    <3>1. seen' = seen /\ Remembered'
      BY <2>9, <1>a, <1>d, OffStage DEF StartOperations, RNext, Goto, Typed, Admission, files, progress
    <3>2. Goto(p, "publishing") /\ job' = job /\ Status("publishing") = Status(pc[p])
      BY <2>9, Statuses DEF StartOperations, Admission, files, progress
    <3>3. UNCHANGED Abstract!avars
      BY <1>a, <3>1, <3>2, Stutters
    <3> QED
      BY <3>1, <3>3
  <2>10. ASSUME NEW p \in Proc, NEW w \in Path, SkipWrite(p, w) PROVE Simulated
    <3>1. seen' = seen /\ Remembered'
      BY <2>10, <1>a, <1>d, OffStage DEF SkipWrite, RNext, files, progress
    <3>2. UNCHANGED Abstract!avars
      BY <2>10, <1>a, <3>1, Stutters DEF SkipWrite
    <3> QED
      BY <3>1, <3>2
  <2>11. ASSUME NEW p \in Proc, NEW w \in Path, Stage(p, w) PROVE Simulated
    <3>1. seen' = seen /\ Remembered'
      BY <2>11, <1>a, <1>d, OffStage DEF Stage, RNext, files, progress
    <3>2. UNCHANGED Abstract!avars
      BY <2>11, <1>a, <3>1, Stutters DEF Stage
    <3> QED
      BY <3>1, <3>2
  <2>12. ASSUME NEW p \in Proc, Persist(p) PROVE Simulated
    <3>1. pc[p] = "publishing" /\ job' = job /\ pc' = pc /\ edits' = edits
      BY <2>12 DEF Persist, Publishing
    <3>2. disk' = [disk EXCEPT ![aim[p]] = Desired(job[p], aim[p])] /\ aim[p] \in TouchedPaths(job[p])
      BY <2>12, <1>a, PersistTypes DEF TouchedPaths
    <3> QED
      BY <1>a, <1>d, <3>1, <3>2, PublishStep DEF RNext
  <2>13. ASSUME NEW p \in Proc, NEW w \in Path, RemoveRetired(p, w) PROVE Simulated
    <3>1. pc[p] = "publishing" /\ job' = job /\ pc' = pc /\ edits' = edits
      BY <2>13 DEF RemoveRetired, Publishing
    <3>2. disk' = [disk EXCEPT ![w] = Desired(job[p], w)] /\ w \in TouchedPaths(job[p])
      BY <2>13, <1>a, RemoveTypes DEF RemoveRetired, TouchedPaths
    <3> QED
      BY <1>a, <1>d, <3>1, <3>2, PublishStep DEF RNext
  <2>14. ASSUME NEW p \in Proc, NextOperation(p) PROVE Simulated
    <3>1. seen' = seen /\ Remembered'
      BY <2>14, <1>a, <1>d, OffStage DEF NextOperation, RNext, files, progress
    <3>2. UNCHANGED Abstract!avars
      BY <2>14, <1>a, <3>1, Stutters DEF NextOperation
    <3> QED
      BY <3>1, <3>2
  <2>15. ASSUME NEW p \in Proc, FinishOperations(p) PROVE Simulated
    <3>1. seen' = seen /\ Remembered'
      BY <2>15, <1>a, <1>d, OffStage DEF FinishOperations, RNext, Goto, Typed, Admission, files, progress
    <3>2. Goto(p, "verifying") /\ job' = job /\ Status("verifying") = Status(pc[p])
      BY <2>15, Statuses DEF FinishOperations, Admission, files, progress
    <3>3. UNCHANGED Abstract!avars
      BY <1>a, <3>1, <3>2, Stutters
    <3> QED
      BY <3>1, <3>3
  <2>16. ASSUME NEW p \in Proc, Verify(p) PROVE Simulated
    <3>1. pc[p] = "verifying" /\ disk' = disk /\ job' = job
      BY <2>16 DEF Verify, files
    <3>2. CASE Applied(disk, job[p])
      <4>1. Goto(p, "done")
        BY <2>16, <3>2 DEF Verify, Leave
      <4>2. \A q \in Proc : pc'[q] \notin Admission
        BY <1>a, <1>b, <3>1, <4>1 DEF Typed, Goto, Admission, Holding
      <4>3. seen' = disk
        BY <1>d, <3>1, <4>2, SeenCatchesUp DEF RNext, Underway
      <4>4. Remembered'
        BY <1>a, <3>1, <4>2, <4>3 DEF Remembered, Underway, Typed, Admission
      <4>5. Abstract!Become(p, "applied")
        BY <1>a, <4>1, Becomes, Statuses
      <4>6. Status(pc[p]) = "admitted"
        BY <3>1, Statuses DEF Admission
      <4>7. seen' = Abstract!Published(seen, job[p], Abstract!TouchedPaths(job[p]))
        BY <1>a, <3>1, <3>2, <4>3, AllPublished DEF Admission
      <4>8. Abstract!Commit(p)
        BY <3>1, <4>5, <4>6, <4>7 DEF Abstract!Commit
      <4> QED
        BY <4>4, <4>8 DEF Abstract!ANext
    <3>3. CASE ~Applied(disk, job[p])
      <4>1. Goto(p, "failed")
        BY <2>16, <3>3 DEF Verify, Leave
      <4>2. Abstract!Interrupt(p) /\ Remembered'
        BY <1>a, <1>d, <3>1, <4>1, InterruptStep DEF RNext, Admission
      <4> QED
        BY <4>2 DEF Abstract!ANext
    <3> QED
      BY <3>2, <3>3
  <2>17. ASSUME NEW p \in Proc, Fail(p) PROVE Simulated
    <3>1. disk' = disk /\ job' = job /\ edits' = edits
      BY <2>17 DEF Fail, files
    <3>2. CASE pc[p] \in {"sweeping", "checking", "probing"}
      <4>1. Goto(p, "refused")
        BY <2>17, <3>2 DEF Fail, Leave
      <4>2. seen' = seen /\ Remembered'
        BY <1>a, <1>d, <3>1, <3>2, <4>1, EarlyStep DEF RNext
      <4>3. Abstract!Become(p, "refused")
        BY <1>a, <4>1, Becomes, Statuses
      <4>4. Status(pc[p]) \in {"asked", "admitted"}
        BY <3>2, Statuses DEF Admission
      <4>5. Abstract!RefusePlan(p)
        BY <3>1, <4>2, <4>3, <4>4 DEF Abstract!RefusePlan
      <4> QED
        BY <4>2, <4>5 DEF Abstract!ANext
    <3>3. CASE pc[p] \in {"publishing", "verifying"}
      <4>1. Goto(p, "failed") /\ pc[p] \in Admission
        BY <2>17, <3>3 DEF Fail, Leave, Admission
      <4>2. Abstract!Interrupt(p) /\ Remembered'
        BY <1>a, <1>d, <3>1, <4>1, InterruptStep DEF RNext
      <4> QED
        BY <4>2 DEF Abstract!ANext
    <3> QED
      BY <2>17, <3>2, <3>3 DEF Fail, Holding
  <2>18. ASSUME NEW p \in Proc, Abort(p) PROVE Simulated
    <3>1. disk' = disk /\ job' = job /\ edits' = edits /\ Goto(p, "dead")
      BY <2>18 DEF Abort, Leave
    <3>2. CASE pc[p] \in {"waiting", "sweeping", "checking"}
      <4>1. seen' = seen /\ Remembered'
        BY <1>a, <1>d, <3>1, <3>2, EarlyStep DEF RNext
      <4>2. Abstract!Become(p, "interrupted")
        BY <1>a, <3>1, Becomes, Statuses
      <4>3. Status(pc[p]) = "asked"
        BY <3>2, Statuses
      <4>4. seen' = Abstract!Published(seen, job[p], {})
        BY <1>a, <4>1 DEF Remembered, Tree, Abstract!Published
      <4>5. Abstract!Interrupt(p)
        BY <3>1, <4>2, <4>3, <4>4 DEF Abstract!Interrupt
      <4> QED
        BY <4>1, <4>5 DEF Abstract!ANext
    <3>3. CASE pc[p] \in Admission
      <4>1. Abstract!Interrupt(p) /\ Remembered'
        BY <1>a, <1>d, <3>1, <3>3, InterruptStep DEF RNext
      <4> QED
        BY <4>1 DEF Abstract!ANext
    <3> QED
      BY <2>18, <3>2, <3>3 DEF Abort, Holding, Admission
  <2>19. ASSUME NEW w \in EditorPaths, NEW c \in EditorImage, Edit(w, c) PROVE Simulated
    <3>1. pc' = pc /\ job' = job /\ disk' = [disk EXCEPT ![w] = c] /\ edits' # edits /\ disk[w] # c
      BY <2>19, <1>a DEF Edit, progress, Typed
    <3>2. w \in Path /\ c \in Content
      BY EditorAssumption
    <3>3. \A v \in Path : disk'[v] = IF v = w THEN c ELSE disk[v]
      BY <1>a, <3>1 DEF Typed, Tree
    <3>4. Underway' <=> Underway
      BY <3>1 DEF Underway
    <3>5. seen' = [seen EXCEPT ![w] = c]
      <4>1. CASE Underway
        <5>1. seen' = [v \in Path |-> IF disk'[v] # disk[v] THEN disk'[v] ELSE seen[v]]
          BY <1>d, <3>1, <3>4, <4>1 DEF RNext, Remember
        <5>2. \A v \in Path : seen'[v] = IF v = w THEN c ELSE seen[v]
          BY <3>1, <3>3, <5>1
        <5> QED
          BY <1>a, <3>2, <5>1, <5>2 DEF Remembered, Tree
      <4>2. CASE ~Underway
        BY <1>a, <1>d, <3>1, <3>4, <4>2, SeenCatchesUp DEF RNext, Remembered
      <4> QED
        BY <4>1, <4>2
    <3>6. \A v \in Path : seen'[v] = IF v = w THEN c ELSE seen[v]
      BY <1>a, <3>5 DEF Remembered, Tree
    <3>7. Remembered'
      <4>1. seen' \in Tree
        BY <1>a, <3>2, <3>5 DEF Remembered, Tree
      <4>2. seen = disk => seen' = disk'
        BY <3>1, <3>5
      <4>3. ASSUME NEW p \in Proc, pc'[p] \in Admission, NEW v \in Path
            PROVE  disk'[v] = seen'[v] \/ (v \in TouchedPaths(job'[p]) /\ disk'[v] = Desired(job'[p], v))
        BY <1>a, <3>1, <3>3, <3>6, <4>3 DEF Remembered
      <4> QED
        BY <1>a, <3>1, <3>4, <4>1, <4>2, <4>3 DEF Remembered
    <3>8. Abstract!EditTree
      BY <3>1, <3>2, <3>5 DEF Abstract!EditTree, Abstract!Content, Content
    <3> QED
      BY <3>7, <3>8 DEF Abstract!ANext
  <2> QED
    BY <1>d, <2>1, <2>2, <2>3, <2>4, <2>5, <2>6, <2>7, <2>8, <2>9, <2>10, <2>11, <2>12, <2>13, <2>14, <2>15, <2>16, <2>17, <2>18, <2>19 DEF RNext, Next, Step, Work
<1> QED
  BY <1>c, <1>d

(* The executor is AtomicApply: every interleaving of runs, crashes,       *)
(* retries and edits looks to whoever reads the tree between admissions as *)
(* if each plan had been applied whole, cut short with every other path as *)
(* it was, or refused with nothing changed.                                *)
THEOREM ExecutorIsAtomic == RSpec => AppliesAtomically
<1>1. RInit => RInv /\ Abstract!AInit
  <2> SUFFICES ASSUME RInit PROVE RInv /\ Abstract!AInit
    OBVIOUS
  <2>1. IInv
    BY TypeInit, LockInit DEF RInit, IInv
  <2>2. Remembered
    BY <2>1 DEF RInit, Init, Remembered, Admission, IInv, Typed
  <2>3. [p \in Proc |-> Status(pc[p])] = [p \in Proc |-> "idle"]
    BY Statuses DEF RInit, Init
  <2>4. Abstract!AInit
    BY <2>3 DEF RInit, Init, Abstract!AInit, Abstract!Tree, Tree, Abstract!Content, Content
  <2> QED
    BY <2>1, <2>2, <2>4 DEF RInv
<1>2. RInv /\ [RNext]_rvars => RInv' /\ [Abstract!ANext]_Abstract!avars
  <2>1. [RNext]_rvars => [Next]_vars
    BY DEF RNext, rvars, vars
  <2>2. RInv /\ [Next]_vars => [OpenNext]_vars
    BY AnyCaller DEF RInv, IInv
  <2> QED
    BY <2>1, <2>2, Inductive, RefinementStep DEF RInv
<1> QED
  BY <1>1, <1>2, PTL DEF RSpec, AppliesAtomically, Abstract!ASpec
=============================================================================
