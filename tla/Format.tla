------------------------------- MODULE Format -------------------------------
(***************************************************************************)
(* `jails fmt`, and the formatting that follows a generation: Spotless     *)
(* rewrites the sources, and jails then advances the merge base and the    *)
(* lock to what is on disk.  It writes both by itself, without the         *)
(* executor and without `.jails/apply.lock`, from a capture made before    *)
(* the first write.                                                        *)
(***************************************************************************)
EXTENDS Pipeline

CONSTANTS
  Tidy,        \* what Spotless makes of each word
  MaxFormats   \* bound: runs of the formatter

ASSUME TidyAssumption == Tidy \in [Word -> Word]
ASSUME FormatBoundAssumption == MaxFormats \in Nat

VARIABLES
  formats,   \* runs of the formatter so far
  advance    \* what a run in progress holds in memory, or None

fvars == <<disk, made, debris, holder, pc, job, at, left, temp, aim, foreign, faults, edits,
           plans, typed, formats, advance>>

FInit == PInit /\ formats = 0 /\ advance = None

Elsewhere == <<made, debris, holder, pc, progress, edits, plans, typed>>

Write(w, c) ==
  /\ disk' = [disk EXCEPT ![w] = c]
  /\ foreign' = [q \in Proc |-> foreign[q] \cup {w}]

-----------------------------------------------------------------------------
Sources == {w \in Path \ BasePaths : disk[w] \in Text}

(* Spotless itself; whatever it changes is somebody else's change to a     *)
(* plan.  The capture follows, and a project jails cannot capture is left  *)
(* at that.                                                                *)
Reformat ==
  LET tidied == [w \in Path |-> IF w \in Sources THEN [r \in Region |-> Tidy[disk[w][r]]] ELSE disk[w]]
  IN /\ advance = None
     /\ formats < MaxFormats
     /\ formats' = formats + 1
     /\ disk' = tidied
     /\ foreign' = [q \in Proc |-> foreign[q] \cup {w \in Path : tidied[w] # disk[w]}]
     /\ advance' = IF disk[LockFile] # Absent /\ BaseIntact(disk)
                     THEN [todo |-> PathsIn(AcceptedProjection(disk)), lock |-> disk[LockFile],
                           changed |-> FALSE]
                     ELSE None
     /\ UNCHANGED <<Elsewhere, faults>>

Artifact(lock, w) == CHOOSE a \in DOMAIN lock.projection : lock.projection[a].path = w

(* A file that is as the lock has it, or gone, is passed over ...          *)
PassOver(w) ==
  /\ advance # None
  /\ w \in advance.todo
  /\ disk[w] \in {Absent, advance.lock.projection[Artifact(advance.lock, w)].text}
  /\ advance' = [advance EXCEPT !.todo = @ \ {w}]
  /\ UNCHANGED <<Elsewhere, disk, foreign, faults, formats>>

(* ... and any other becomes its own merge base, as it is now.             *)
AdvanceBase(w) ==
  /\ advance # None
  /\ w \in advance.todo
  /\ disk[w] \notin {Absent, advance.lock.projection[Artifact(advance.lock, w)].text}
  /\ Write(BaseOf[w], disk[w])
  /\ advance' = [advance EXCEPT !.todo = @ \ {w}, !.changed = TRUE,
                                !.lock.projection[Artifact(advance.lock, w)].text = disk[w]]
  /\ UNCHANGED <<Elsewhere, faults, formats>>

(* Mutant: the advanced lock is not written.                               *)
AdvanceBaseOnly ==
  /\ advance # None
  /\ advance.todo = {}
  /\ advance' = None
  /\ UNCHANGED <<Elsewhere, disk, foreign, faults, formats>>

(* Mutant: the advanced lock seals nothing.                                *)
AdvanceUnsealed ==
  /\ advance # None
  /\ advance.todo = {}
  /\ IF advance.changed THEN Write(LockFile, [advance.lock EXCEPT !.sealed = << >>])
                        ELSE UNCHANGED <<disk, foreign>>
  /\ advance' = None
  /\ UNCHANGED <<Elsewhere, faults, formats>>

(* The lock is written last, if any file was advanced.                     *)
AdvanceLock ==
  /\ advance # None
  /\ advance.todo = {}
  /\ IF advance.changed THEN Write(LockFile, advance.lock) ELSE UNCHANGED <<disk, foreign>>
  /\ advance' = None
  /\ UNCHANGED <<Elsewhere, faults, formats>>

(* The process dies with some of the base advanced.                        *)
StopAdvance ==
  /\ advance # None
  /\ faults < MaxFaults
  /\ faults' = faults + 1
  /\ advance' = None
  /\ UNCHANGED <<Elsewhere, disk, foreign, formats>>

-----------------------------------------------------------------------------
Quiet == Undisturbed /\ advance = None

(* With nobody under way and nothing cut short, the merge base is the one  *)
(* the lock accepted, so that the next command can be planned at all.      *)
BaseAgrees == Quiet => BaseIntact(disk)

(* And the migrations the lock seals are the published ones that jails     *)
(* derived, however generations and formatting followed each other: each   *)
(* of them `entity repair` can put back, and none that it would put back   *)
(* is the reader's to fill in.                                             *)
PublishedIsSealed ==
  Quiet => \A slot \in Taken(disk) :
             IF slot \in Sealable
               THEN Slot[slot] \in DOMAIN Sealed(disk) /\ Sealed(disk)[Slot[slot]] = slot[2]
               ELSE Slot[slot] \notin DOMAIN Sealed(disk)
=============================================================================
