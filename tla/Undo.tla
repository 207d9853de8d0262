-------------------------------- MODULE Undo --------------------------------
(***************************************************************************)
(* `jails undo`: a command that was applied keeps its bundle in            *)
(* `.jails/run/last-plan.json`, and undo hands the executor that bundle    *)
(* read backwards.  The file is written after the lock is released and     *)
(* forgotten after the inverse is applied, so anybody may come between     *)
(* `execute` and what a command has yet to do, its formatting included.    *)
(***************************************************************************)
EXTENDS Format, Invert

CONSTANT FormatsAfter   \* whether the project declares the `format` capability

ASSUME FormatsAfterAssumption == FormatsAfter \in BOOLEAN

VARIABLES
  kept,   \* last-plan.json: a bundle, or None
  tail,   \* what each process has yet to do once its plan is applied
  last    \* history: the bundle that last wrote something and has not been undone, or None

uvars == <<fvars, kept, tail, last>>

UInit ==
  /\ FInit
  /\ kept = None
  /\ tail = [p \in Proc |-> "nothing"]
  /\ last = None

-----------------------------------------------------------------------------
Then(p, duty) == tail' = [tail EXCEPT ![p] = duty]

(* A process is free for a new command: its last one has returned, or has  *)
(* been given up.                                                          *)
Free(p) ==
  /\ pc[p] \in {"idle"} \cup Over
  /\ pc[p] = "done" => tail[p] = "nothing" \/ (tail[p] = "advance" /\ advance = None)

(* What a command does after `execute`: `sync` and `repair` keep nothing,  *)
(* and `repair` does not format either.                                    *)
Duty(cmd) ==
  CASE cmd.restore = "Missing" -> "format"
    [] cmd.restore = "MissingOrEdited" -> "nothing"
    [] OTHER -> "remember"

(* A command, up to `execute`.                                             *)
Generate(p, cmd) ==
  /\ Free(p)
  /\ Plan(p, cmd)
  /\ Then(p, Duty(cmd))
  /\ UNCHANGED <<formats, advance, kept, last>>

(* The kept bundle is read and inverted; nothing is captured or compiled.  *)
UndoLast(p) ==
  /\ Free(p)
  /\ kept # None
  /\ plans < MaxPlans
  /\ plans' = plans + 1
  /\ Goto(p, "waiting")
  /\ job' = [job EXCEPT ![p] = InverseBundle(kept)]
  /\ foreign' = [foreign EXCEPT ![p] = Path \cup Dir]
  /\ Then(p, "forget")
  /\ UNCHANGED <<files, holder, at, left, temp, aim, faults, edits, typed, formats, advance, kept, last>>

(* The executor, for either; a bundle run again is `model apply`, which    *)
(* keeps nothing either, and an inverse is in no file it could be given.   *)
Run(p) ==
  /\ pc[p] \in Over => Free(p) /\ tail[p] # "forget"
  /\ Apply(p)
  /\ IF pc[p] \in Over THEN Then(p, "nothing") ELSE UNCHANGED tail
  /\ last' = IF disk' = disk THEN last ELSE IF tail[p] = "forget" THEN None ELSE job[p]
  /\ UNCHANGED <<formats, advance, kept>>

(* Kept::remember, for a command that wrote nothing too.                   *)
Keep(p) ==
  /\ pc[p] = "done"
  /\ tail[p] = "remember"
  /\ kept' = job[p]
  /\ Then(p, "format")
  /\ UNCHANGED <<pvars, formats, advance, last>>

(* run_follow_up_effects: a command that wrote something is followed by    *)
(* the formatter.                                                          *)
FollowUp(p) ==
  /\ pc[p] = "done"
  /\ tail[p] = "format"
  /\ IF FormatsAfter /\ last = job[p]
       THEN Reformat /\ Then(p, "advance")
       ELSE Then(p, "nothing") /\ UNCHANGED <<pvars, formats, advance>>
  /\ UNCHANGED <<kept, last>>

(* Kept::forget.                                                           *)
Forget(p) ==
  /\ pc[p] = "done"
  /\ tail[p] = "forget"
  /\ kept' = None
  /\ Then(p, "nothing")
  /\ UNCHANGED <<pvars, formats, advance, last>>

(* The process dies between `execute` and what it has yet to do.           *)
Cease(p) ==
  /\ pc[p] = "done"
  /\ tail[p] \in {"remember", "format", "forget"}
  /\ faults < MaxFaults
  /\ faults' = faults + 1
  /\ Then(p, "nothing")
  /\ UNCHANGED <<disk, Elsewhere, foreign, formats, advance, kept, last>>

Formatter == Reformat \/ AdvanceLock \/ StopAdvance \/ \E w \in DOMAIN BaseOf : PassOver(w) \/ AdvanceBase(w)

Reader == \E w \in EditorPaths : Delete(w) \/ \E r \in Region : Type(w, r)

Commanded(p) ==
  \/ \E cmd \in Commands : Generate(p, cmd)
  \/ UndoLast(p)
  \/ Run(p)
  \/ Keep(p)
  \/ FollowUp(p)
  \/ Forget(p)
  \/ Cease(p)

Read == Reader /\ UNCHANGED <<formats, advance, kept, tail, last>>

UNext ==
  \/ \E p \in Proc : Commanded(p)
  \/ Formatter /\ UNCHANGED <<kept, tail, last>>
  \/ Read

USpec == UInit /\ [][UNext]_uvars

(* Formatting runs on its own, while no command does.                      *)
OnItsOwn == advance' # None => \A p \in Proc : pc'[p] \in {"idle"} \cup Over

(* A project on which nobody starts a command before formatting is over,   *)
(* nor formats while one is under way.                                     *)
AloneSpec == UInit /\ [][UNext /\ OnItsOwn]_uvars
-----------------------------------------------------------------------------
(* The merge base files the accepted projection does not name: there are   *)
(* none but those a run cut short had left, and no plan captures them as   *)
(* what its publication replaces.                                          *)
Leftover(b) == BasePaths \ DOMAIN BaseTree(AcceptedProjection(b.base))

(* An undo that has been applied has put back every path the kept plan     *)
(* touched as that plan captured it, created, replaced, moved or removed,  *)
(* but for what the reader has changed since the undo was admitted.  A     *)
(* file the plan met with the very content it was to create there counts   *)
(* as created, and goes, and so does a leftover merge base file, whatever  *)
(* it held.                                                                *)
UndoIsExact ==
  \A p \in Proc :
    pc[p] = "done" /\ tail[p] = "forget" /\ kept # None /\ job[p] = InverseBundle(kept) =>
      \A w \in TouchedPaths(kept) \ foreign[p] :
        \/ disk[w] = CapturedAt(kept, w)
        \/ disk[w] = Absent /\ (CapturedAt(kept, w) = Desired(kept, w) \/ w \in Leftover(kept))
=============================================================================
