-------------------------- MODULE ManagedFileProofs --------------------------
(***************************************************************************)
(* What reconciliation keeps for any set of regions and any words in them: *)
(* the reader's edits survive a generation, and a verdict once published   *)
(* is settled.                                                             *)
(***************************************************************************)
EXTENDS ManagedFile, TLAPS

(* A merged text is a text, and it takes what the reader edited.           *)
LEMMA MergedText ==
  ASSUME NEW old \in Text, NEW ours \in Text, NEW next \in Text
  PROVE  /\ Merged(old, ours, next) \in Text
         /\ \A r \in Region : ours[r] # old[r] => Merged(old, ours, next)[r] = ours[r]
  BY DEF Merged, Text

(* Merging is idempotent: the outcome merges with the same two texts       *)
(* without a conflict, into itself.                                        *)
LEMMA MergeIsSettled ==
  ASSUME NEW old \in Text, NEW ours \in Text, NEW next \in Text,
         ~Conflicted(old, ours, next)
  PROVE  LET m == Merged(old, ours, next)
         IN  ~Conflicted(old, m, next) /\ Merged(old, m, next) = m
<1> DEFINE m == Merged(old, ours, next)
<1>1. \A r \in Region : m[r] = IF ours[r] = old[r] THEN next[r] ELSE ours[r]
  BY DEF Merged
<1>2. ~Conflicted(old, m, next)
  BY <1>1 DEF Conflicted
<1>3. \A r \in Region : (IF m[r] = old[r] THEN next[r] ELSE m[r]) = m[r]
  BY <1>1
<1>4. m = [r \in Region |-> m[r]]
  BY DEF Merged
<1>5. Merged(old, m, next) = m
  BY <1>3, <1>4 DEF Merged
<1> QED
  BY <1>2, <1>5

(* A text that a merge leaves as it is merges into itself with the         *)
(* rendered text as its new base.                                          *)
LEMMA AcceptedIsSettled ==
  ASSUME NEW ours \in Text, NEW next \in Text
  PROVE  ThreeWay(next, ours, next) = ours
<1>1. ~Conflicted(next, ours, next)
  BY DEF Conflicted
<1>2. Merged(next, ours, next) = ours
  BY DEF Merged, Text
<1> QED
  BY <1>1, <1>2 DEF ThreeWay

(* Every verdict is a text, no file, or a refusal.                         *)
LEMMA VerdictTypes ==
  ASSUME NEW b \in Maybe, NEW o \in Maybe, NEW t \in Maybe, NEW e, NEW x
  PROVE  Settled(b, o, t, e, x) \in Maybe \cup {Refused}
<1>1. b \in Text /\ o \in Text /\ t \in Text => ThreeWay(b, o, t) \in Text \cup {Refused}
  BY MergedText DEF ThreeWay
<1> QED
  BY <1>1 DEF Settled, Claimed, Deleted, Dropped, Maybe

(* The verdict on a published verdict is that verdict.                     *)
LEMMA VerdictIsSettled ==
  ASSUME NEW b \in Maybe, NEW o \in Maybe, NEW t \in Maybe, NEW e, NEW x,
         Settled(b, o, t, e, x) # Refused
  PROVE  Settled(b, Settled(b, o, t, e, x), t, e, x) = Settled(b, o, t, e, x)
<1> USE TextAssumption DEF Maybe
<1>1. CASE b = Absent
  BY <1>1 DEF Settled, Claimed
<1>2. CASE b # Absent /\ t = Absent
  BY <1>2 DEF Settled, Dropped
<1>3. CASE b # Absent /\ t # Absent /\ o = Absent
  <2>1. Settled(b, o, t, e, x) = t
    BY <1>3 DEF Settled, Deleted
  <2>2. ThreeWay(b, t, t) = t
    <3>1. ~Conflicted(b, t, t)
      BY DEF Conflicted
    <3>2. Merged(b, t, t) = t
      BY <1>3 DEF Merged, Text
    <3> QED
      BY <3>1, <3>2 DEF ThreeWay
  <2> QED
    BY <1>3, <2>1, <2>2 DEF Settled
<1>4. CASE b # Absent /\ t # Absent /\ o # Absent
  <2> DEFINE m == Merged(b, o, t)
  <2>1. Settled(b, o, t, e, x) = ThreeWay(b, o, t)
    BY <1>4 DEF Settled
  <2>2. ~Conflicted(b, o, t) /\ ThreeWay(b, o, t) = m
    BY <2>1 DEF ThreeWay
  <2>3. m \in Text
    BY <1>4, MergedText
  <2>4. ~Conflicted(b, m, t) /\ Merged(b, m, t) = m
    BY <1>4, <2>2, MergeIsSettled
  <2>5. ThreeWay(b, m, t) = m
    BY <2>4 DEF ThreeWay
  <2>6. m # Absent
    BY <2>3
  <2>7. Settled(b, m, t, e, x) = ThreeWay(b, m, t)
    BY <1>4, <2>6 DEF Settled
  <2> QED
    BY <2>1, <2>2, <2>5, <2>7
<1> QED
  BY <1>1, <1>2, <1>3, <1>4

(* Once the rendered text is the BASE, a text that was its own verdict     *)
(* stays its own verdict, whatever the command.                            *)
LEMMA AcceptanceIsSettled ==
  ASSUME NEW b \in Maybe, NEW o \in Maybe, NEW t \in Maybe, NEW e, NEW x, NEW y,
         Settled(b, o, t, e, x) = o
  PROVE  Settled(t, o, t, e, y) = o
<1> USE TextAssumption DEF Maybe
<1>1. CASE t = Absent
  BY <1>1 DEF Settled, Dropped
<1>2. CASE t # Absent
  <2>1. o # Absent
    BY <1>2 DEF Settled, Claimed, Deleted
  <2>2. o \in Text /\ t \in Text
    BY <1>2, <2>1
  <2>3. Settled(t, o, t, e, y) = ThreeWay(t, o, t)
    BY <1>2, <2>1 DEF Settled
  <2> QED
    BY <2>2, <2>3, AcceptedIsSettled
<1> QED
  BY <1>1, <1>2
-----------------------------------------------------------------------------
(* The inductive invariant: the capture of a file neither projection has   *)
(* is never asked for, and what has been published is settled.             *)
IInv ==
  /\ TypeOK
  /\ stage = "captured" /\ base = Absent => theirs # Absent
  /\ Converged

(* It holds at the capture.                                                *)
LEMMA IInvInit == Init => IInv
  BY DEF Init, IInv, TypeOK, Converged

(* Publishing and accepting keep it.                                       *)
LEMMA IInvStep == IInv /\ [Next]_vars => IInv'
<1> SUFFICES ASSUME IInv, [Next]_vars PROVE IInv'
  OBVIOUS
<1>1. CASE UNCHANGED vars
  BY <1>1 DEF vars, IInv, TypeOK, Converged, Verdict
<1>2. CASE Publish
  <2>1. /\ UNCHANGED <<base, theirs, ejected, restore>> /\ stage' = "published"
        /\ live' = IF ejected THEN live ELSE Settled(base, live, theirs, ejected, restore)
        /\ Settled(base, live, theirs, ejected, restore) # Refused
    BY <1>2 DEF Publish, Verdict
  <2>2. base \in Maybe /\ live \in Maybe /\ theirs \in Maybe
    BY DEF IInv, TypeOK
  <2>3. Settled(base, live, theirs, ejected, restore) \in Maybe
    BY <2>1, <2>2, VerdictTypes
  <2>4. TypeOK'
    BY <2>1, <2>3 DEF IInv, TypeOK
  <2>5. Converged'
    <3> SUFFICES ASSUME ~ejected
                 PROVE  Settled(base, live', theirs, ejected, restore) = live'
      BY <2>1 DEF Converged, Verdict
    <3> QED
      BY <2>1, <2>2, VerdictIsSettled
  <2> QED
    BY <2>1, <2>4, <2>5 DEF IInv
<1>3. CASE Accept
  <2>1. /\ UNCHANGED <<live, theirs, ejected, restore>> /\ base' = theirs
        /\ stage = "published" /\ stage' = "accepted"
    BY <1>3 DEF Accept
  <2>2. base \in Maybe /\ live \in Maybe /\ theirs \in Maybe
    BY DEF IInv, TypeOK
  <2>3. TypeOK'
    BY <2>1 DEF IInv, TypeOK
  <2>4. Converged'
    <3> SUFFICES ASSUME ~ejected
                 PROVE  /\ Settled(theirs, live, theirs, ejected, restore) = live
                        /\ Settled(theirs, live, theirs, ejected, "Refuse") = live
      BY <2>1 DEF Converged, Verdict
    <3>1. Settled(base, live, theirs, ejected, restore) = live
      BY <2>1 DEF IInv, Converged, Verdict
    <3> QED
      BY <2>2, <3>1, AcceptanceIsSettled
  <2> QED
    BY <2>1, <2>3, <2>4 DEF IInv
<1> QED
  BY <1>1, <1>2, <1>3 DEF Next

(* It holds in every reachable state.                                      *)
LEMMA IInvHolds == Spec => []IInv
  BY IInvInit, IInvStep, PTL DEF Spec

(* A verdict is a text, the absence of one, or a refusal nobody publishes: *)
(* every file stays one the next plan can be made of.                      *)
THEOREM TypeCorrect == Spec => []TypeOK
  BY IInvHolds, PTL DEF IInv

(* What was published is not disturbed by the plan that follows, made      *)
(* before or after acceptance, for any regions and words.                  *)
THEOREM PublishedIsSettled == Spec => []Converged
  BY IInvHolds, PTL DEF IInv

(* A generation keeps every region the reader edited, for any regions and  *)
(* words.                                                                  *)
THEOREM EditsAreKept == Spec => EditsSurvive
<1> DEFINE Kept ==
      live # Absent /\ live' # live =>
        IF live' = Absent
          THEN live = base \/ restore = "EditedAndRemoved"
          ELSE base # Absent /\ \A r \in Region : live[r] # base[r] => live'[r] = live[r]
<1>1. IInv /\ [Next]_vars => Kept
  <2> SUFFICES ASSUME IInv, [Next]_vars, live # Absent, live' # live
               PROVE  Kept
    OBVIOUS
  <2>1. Publish
    BY DEF Next, Accept, vars
  <2>2. /\ live' = Settled(base, live, theirs, ejected, restore)
        /\ ~ejected /\ stage = "captured"
        /\ live' # Refused
    BY <2>1 DEF Publish, Verdict
  <2>3. /\ base \in Maybe /\ live \in Text /\ theirs \in Maybe
        /\ base = Absent => theirs # Absent
    BY <2>2 DEF IInv, TypeOK, Maybe
  <2>4. CASE base = Absent
    BY <2>2, <2>3, <2>4 DEF Settled, Claimed
  <2>5. CASE base # Absent /\ theirs = Absent
    BY <2>2, <2>5 DEF Settled, Dropped
  <2>6. CASE base # Absent /\ theirs # Absent
    <3>1. live' = Merged(base, live, theirs)
      BY <2>2, <2>6 DEF Settled, ThreeWay
    <3>2. base \in Text /\ theirs \in Text
      BY <2>3, <2>6 DEF Maybe
    <3>3. live' \in Text /\ \A r \in Region : live[r] # base[r] => live'[r] = live[r]
      BY <2>3, <3>1, <3>2, MergedText
    <3> QED
      BY <2>6, <3>3, TextAssumption
  <2> QED
    BY <2>4, <2>5, <2>6
<1> QED
  BY <1>1, IInvHolds, PTL DEF Spec, EditsSurvive
=============================================================================
