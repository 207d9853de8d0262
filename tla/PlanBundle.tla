----------------------------- MODULE PlanBundle -----------------------------
(***************************************************************************)
(* The exact, content-addressed plan the executor is handed, and what it   *)
(* says about a project tree: which images it wants, which paths it takes  *)
(* away, and whether a tree is one it may be applied to.                   *)
(*                                                                         *)
(* An operation is a record of the files it found (`before`) and the files *)
(* it leaves (`after`), both partial functions from paths to images:       *)
(*                                                                         *)
(*   tree    PublishMergedTree: every captured and every desired entry     *)
(*   file    ReplaceModelFile, ReplaceStateFile, PatchReaderFile           *)
(*   append  AppendMigration, which has no before-image                    *)
(*   remove  RemoveFile, which has no after-image                          *)
(*                                                                         *)
(* An image stands for a content digest together with the file's mode.     *)
(***************************************************************************)
EXTENDS Integers, Sequences, FiniteSets

CONSTANTS
  Path,     \* the project paths plans mention
  Dir,      \* the directories those paths lie in
  DirOf,    \* the parent directory of each path
  Image,    \* the images a file can hold: content and mode
  Absent    \* what a path without a file holds

ASSUME PathAssumption == DirOf \in [Path -> Dir]
ASSUME AbsentAssumption == Absent \notin Image

Content == Image \cup {Absent}
Tree == [Path -> Content]

PartialFunction(f, S, T) == DOMAIN f \subseteq S /\ f \in [DOMAIN f -> T]

IsOperation(op) ==
  /\ op.kind \in {"tree", "file", "append", "remove"}
  /\ PartialFunction(op.before, Path, Image)
  /\ PartialFunction(op.after, Path, Image)

(* A bundle is what the capture saw and what the plan does about it.       *)
(*   base  FilePrecondition by path: an image, or Missing                  *)
(*   dirs  DirectoryPrecondition by directory: everything in it; `litter`  *)
(*         is a staged file of a dead run, which a capture cannot tell     *)
(*         from one of the reader's                                        *)
(*   ops   the operations, in the order they are applied                   *)
IsBundle(b) ==
  /\ PartialFunction(b.base, Path, Content)
  /\ DOMAIN b.dirs \subseteq Dir
  /\ \A d \in DOMAIN b.dirs :
       /\ b.dirs[d].litter \in BOOLEAN
       /\ PartialFunction(b.dirs[d].files, Path, Image)
  /\ DOMAIN b.ops = 1 .. Len(b.ops)
  /\ Len(b.ops) \in Nat
  /\ \A i \in DOMAIN b.ops : IsOperation(b.ops[i])

-----------------------------------------------------------------------------
Written(op) == DOMAIN op.after

(* The paths a previous tree held and the desired one does not.            *)
Retired(op) == DOMAIN op.before \ DOMAIN op.after

Touched(op) == Written(op) \cup Retired(op)

DesiredPaths(b) == UNION {Written(b.ops[i]) : i \in DOMAIN b.ops}

(* Every path this plan removes, by an operation of its own or because a   *)
(* published tree no longer holds it.  A replacement removes nothing.      *)
RemovedPaths(b) ==
  UNION {Retired(b.ops[i]) : i \in {j \in DOMAIN b.ops : b.ops[j].kind \in {"tree", "remove"}}}

TouchedPaths(b) == DesiredPaths(b) \cup RemovedPaths(b)

(* The image the plan leaves at a path; Absent where it leaves none.       *)
Desired(b, w) ==
  IF w \in DesiredPaths(b)
    THEN b.ops[CHOOSE i \in DOMAIN b.ops : w \in Written(b.ops[i])].after[w]
    ELSE Absent

ParentsOf(paths) == {DirOf[w] : w \in paths}

(* A bundle `materialize` builds: nothing is both written and taken away,  *)
(* and two operations that write one path write the same image.            *)
WellFormed(b) ==
  /\ DesiredPaths(b) \cap RemovedPaths(b) = {}
  /\ \A i, j \in DOMAIN b.ops :
       \A w \in Written(b.ops[i]) \cap Written(b.ops[j]) :
         b.ops[i].after[w] = b.ops[j].after[w]
  /\ \A i \in DOMAIN b.ops : b.ops[i].kind \in {"file", "append"} => Retired(b.ops[i]) = {}

(* A bundle with a commit marker: what the last operation writes, no other *)
(* operation writes, and the last operation takes nothing away.            *)
Marked(b) ==
  \A i \in DOMAIN b.ops :
    Written(b.ops[Len(b.ops)]) \cap Written(b.ops[i]) # {} =>
      i = Len(b.ops) /\ Retired(b.ops[i]) = {}

AppendedPaths(b) ==
  UNION {Written(b.ops[i]) : i \in {j \in DOMAIN b.ops : b.ops[j].kind = "append"}}

(* What a plan was made over at w: what it captured there, or nothing.     *)
CapturedAt(b, w) == IF w \in DOMAIN b.base THEN b.base[w] ELSE Absent

(* A bundle whose directory preconditions are of the capture its file      *)
(* preconditions are of, and which only adds to those directories: every   *)
(* generation, but not one that puts a sealed migration back.              *)
GuardsAppends(b) ==
  \A d \in DOMAIN b.dirs :
    /\ b.dirs[d].files =
         [w \in {v \in DOMAIN b.base : DirOf[v] = d /\ b.base[v] # Absent} |-> b.base[w]]
    /\ \A w \in TouchedPaths(b) :
         DirOf[w] = d => w \in AppendedPaths(b) \ DOMAIN b.dirs[d].files

-----------------------------------------------------------------------------
(* Mutant: a file that already carries what the plan leaves is stale.      *)
FileAdmittedOnlyAsCaptured(disk, b, w) ==
  disk[w] = b.base[w] \/ (disk[w] = Absent /\ w \in RemovedPaths(b))

(* One captured file against the tree as it is now.  Besides an exact      *)
(* match two things pass: a file already carrying what the plan leaves,    *)
(* and an absent file the plan removes.  An absent file the plan neither   *)
(* writes nor removes passes too: neither side of the comparison has one.  *)
FileAdmitted(disk, b, w) ==
  \/ disk[w] = b.base[w]
  \/ disk[w] = Absent /\ w \in RemovedPaths(b)
  \/ disk[w] = Desired(b, w)

(* A path the plan writes that the capture never saw.                      *)
NewPathAdmitted(disk, b, w) == disk[w] \in {Absent, Desired(b, w)}

PathAdmitted(disk, b, w) ==
  IF w \in DOMAIN b.base
    THEN FileAdmitted(disk, b, w)
    ELSE w \in DesiredPaths(b) => NewPathAdmitted(disk, b, w)

FilesAdmitted(disk, b) == \A w \in Path : PathAdmitted(disk, b, w)

PresentIn(disk, d) == {w \in Path : DirOf[w] = d /\ disk[w] # Absent}

Observe(disk, debris, d) ==
  [files |-> [w \in PresentIn(disk, d) |-> disk[w]], litter |-> d \in debris]

(* Mutant: a migration of this plan's own makes its directory stale.       *)
NoPrefix(disk, debris, b, d) == FALSE

(* The directory holds what was captured plus some of this plan's own new  *)
(* migrations, each with the content the plan gives it.                    *)
PlanPrefix(disk, debris, b, d) ==
  LET captured == {w \in DOMAIN b.base : DirOf[w] = d /\ b.base[w] # Absent}
      appended == {w \in AppendedPaths(b) : DirOf[w] = d}
      present  == PresentIn(disk, d)
  IN /\ captured \subseteq present
     /\ present \subseteq captured \cup appended
     /\ (d \in debris) = b.dirs[d].litter
     /\ \A w \in present :
          IF w \in DesiredPaths(b) THEN disk[w] = Desired(b, w)
                                   ELSE disk[w] = b.base[w]

DirAdmitted(disk, debris, b, d) ==
  \/ Observe(disk, debris, d) = b.dirs[d]
  \/ PlanPrefix(disk, debris, b, d)

(* verify_preconditions: whether the plan may be applied to this tree.     *)
Admitted(disk, debris, b) ==
  /\ FilesAdmitted(disk, b)
  /\ \A d \in DOMAIN b.dirs : DirAdmitted(disk, debris, b, d)

-----------------------------------------------------------------------------
(* The tree once the paths in `done` have been published.                  *)
Published(disk, b, done) ==
  [w \in Path |-> IF w \in done THEN Desired(b, w) ELSE disk[w]]

Applied(disk, b) == \A w \in TouchedPaths(b) : disk[w] = Desired(b, w)
=============================================================================
