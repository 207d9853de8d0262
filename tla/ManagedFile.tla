---------------------------- MODULE ManagedFile -----------------------------
(***************************************************************************)
(* One managed file through one generation: the plan's verdict is          *)
(* published over the project's copy, and the rendered text then becomes   *)
(* the accepted BASE.  A run may stop in between, and the next plan for    *)
(* the same projection then meets the published text with the old BASE.    *)
(***************************************************************************)
EXTENDS Reconcile

VARIABLES
  base,     \* the accepted text, or Absent
  live,     \* the text in the project, or Absent
  theirs,   \* what the projection renders, or Absent
  ejected,  \* whether the reader has taken the implementation over
  restore,  \* what the command does about deletions and leftovers
  stage     \* "captured", then "published", then "accepted"

vars == <<base, live, theirs, ejected, restore, stage>>

Maybe == Text \cup {Absent}

Init ==
  /\ base \in Maybe
  /\ live \in Maybe
  /\ theirs \in Maybe
  /\ ejected \in BOOLEAN
  /\ ejected => theirs = Absent
  /\ base = Absent => theirs # Absent
  /\ restore \in Restore
  /\ stage = "captured"

Verdict == Settled(base, live, theirs, ejected, restore)

(* Mutant: a refused verdict is published.                                 *)
PublishAnyway ==
  /\ stage = "captured"
  /\ live' = IF ejected THEN live ELSE Verdict
  /\ stage' = "published"
  /\ UNCHANGED <<base, theirs, ejected, restore>>

(* The managed tree is published.  An ejected file is in neither of its    *)
(* manifests and stays where it is.                                        *)
Publish ==
  /\ stage = "captured"
  /\ Verdict # Refused
  /\ live' = IF ejected THEN live ELSE Verdict
  /\ stage' = "published"
  /\ UNCHANGED <<base, theirs, ejected, restore>>

(* The merge base and the lock are published.                              *)
Accept ==
  /\ stage = "published"
  /\ base' = theirs
  /\ stage' = "accepted"
  /\ UNCHANGED <<live, theirs, ejected, restore>>

Next == Publish \/ Accept

Spec == Init /\ [][Next]_vars
-----------------------------------------------------------------------------
TypeOK ==
  /\ base \in Maybe
  /\ live \in Maybe
  /\ theirs \in Maybe
  /\ ejected \in BOOLEAN
  /\ restore \in Restore
  /\ stage \in {"captured", "published", "accepted"}

(* A generation keeps every region the reader edited: whatever is in the   *)
(* project and is not what the compiler last rendered there is still there *)
(* afterwards, unless the whole file goes with the reader's consent.       *)
EditsSurvive ==
  [][live # Absent /\ live' # live =>
       IF live' = Absent
         THEN live = base \/ restore = "EditedAndRemoved"
         ELSE base # Absent /\ \A r \in Region : live[r] # base[r] => live'[r] = live[r]]_vars

(* Publishing is settled: a plan for the same projection made after a run  *)
(* that stopped before acceptance, or after one that did not, leaves the   *)
(* published text as it is, and refuses nothing.  With the projection      *)
(* accepted this is so even for the strictest kind of plan.                *)
Converged ==
  stage # "captured" /\ ~ejected =>
    /\ Verdict = live
    /\ stage = "accepted" => Settled(base, live, theirs, ejected, "Refuse") = live
=============================================================================
