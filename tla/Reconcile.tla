----------------------------- MODULE Reconcile ------------------------------
(***************************************************************************)
(* What becomes of one compiler artifact (jails-workspace `reconcile`):    *)
(* BASE, the bytes the last accepted projection rendered, OURS, the bytes  *)
(* in the project, and THEIRS, the bytes the next projection renders.  Any *)
(* of the three may be absent.                                             *)
(*                                                                         *)
(* A text is what it holds in each of its regions, a region being lines    *)
(* git merge-file settles as one hunk.                                     *)
(***************************************************************************)
CONSTANTS
  Region,   \* the parts of a file that merge independently
  Word,     \* what a region can hold
  Absent,   \* there is no file
  Refused   \* the plan is refused: nothing is written

Text == [Region -> Word]

ASSUME TextAssumption == Absent \notin Text /\ Refused \notin Text /\ Refused # Absent

(* What a deletion and an edited leftover mean to the plan: `Refuse` for   *)
(* every plan about something else, `Missing` for `sync`,                  *)
(* `MissingOrEdited` for `entity repair`, `EditedAndRemoved` after `--yes`.*)
Restore == {"Refuse", "Missing", "MissingOrEdited", "EditedAndRemoved"}

RestoresMissing(restore) == restore \in {"Missing", "MissingOrEdited"}

-----------------------------------------------------------------------------
(* git merge-file: both sides changed one region, and not to the same text.*)
Conflicted(base, ours, theirs) ==
  \E r \in Region : ours[r] # base[r] /\ theirs[r] # base[r] /\ ours[r] # theirs[r]

Merged(base, ours, theirs) ==
  [r \in Region |-> IF ours[r] = base[r] THEN theirs[r] ELSE ours[r]]

(* Mutant: an overlap is settled for the generator.                        *)
TheirsWin(base, ours, theirs) ==
  [r \in Region |-> IF theirs[r] = base[r] THEN ours[r] ELSE theirs[r]]

ThreeWay(base, ours, theirs) ==
  IF Conflicted(base, ours, theirs) THEN Refused ELSE Merged(base, ours, theirs)

(* Mutant: a file that is exactly what is rendered counts as the reader's. *)
ClaimedIfFree(ours, theirs) == IF ours = Absent THEN theirs ELSE Refused

(* A path the accepted projection does not own: taken when it is free, or  *)
(* already byte for byte what the compiler renders.                        *)
Claimed(ours, theirs) == IF ours \in {Absent, theirs} THEN theirs ELSE Refused

(* A file the reader deleted while the projection still has it.            *)
Deleted(theirs, restore) == IF RestoresMissing(restore) THEN theirs ELSE Refused

(* A file the projection no longer has.  An ejected one stays the          *)
(* reader's; an edited one goes only with their consent.                   *)
Dropped(base, ours, ejected, restore) ==
  IF ours \in {Absent, base} \/ ejected \/ restore = "EditedAndRemoved" THEN Absent ELSE Refused

(* reconcile_artifact: the text the plan leaves, Absent for none.          *)
Settled(base, ours, theirs, ejected, restore) ==
  IF base = Absent
    THEN IF theirs = Absent THEN Absent ELSE Claimed(ours, theirs)
    ELSE IF theirs = Absent THEN Dropped(base, ours, ejected, restore)
    ELSE IF ours = Absent THEN Deleted(theirs, restore)
    ELSE ThreeWay(base, ours, theirs)
=============================================================================
