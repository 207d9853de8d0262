--------------------------- MODULE DeliveryProofs ---------------------------
(***************************************************************************)
(* What is proved of a durable job over an outbox command: the composition *)
(* takes only steps of its two components, so what DurableJobProofs and    *)
(* OutboxProofs show of them holds of it; and, when the command takes its  *)
(* row's key from the payload, it keeps what Promises says.                *)
(***************************************************************************)
EXTENDS Delivery, Sequences, TLAPS

JP == INSTANCE DurableJobProofs WITH
  MaxAttempts <- JobAttempts, MaxMishaps <- Budget, mishaps <- jobMishaps
OP == INSTANCE OutboxProofs WITH
  Relay <- Process, MaxAttempts <- BoxAttempts, MaxMishaps <- Budget, mishaps <- boxMishaps

LEMMA JobAssumed == JP!JobAssumption
  BY DeliveryAssumption
     DEF J!JobAssumption, JP!JobAssumption, J!Row, JP!Row, J!Claim, JP!Claim, J!States, JP!States

LEMMA BoxAssumed == OP!OutboxAssumption
  BY DeliveryAssumption
     DEF O!OutboxAssumption, OP!OutboxAssumption, O!Row, OP!Row, O!States, OP!States,
         O!Sink, OP!Sink, O!IsFiniteSet, OP!IsFiniteSet

(***************************************************************************)
(* The steps of the composition are steps of the components.               *)
(***************************************************************************)
LEMMA JobActs ==
  ASSUME NEW p \in Process
  PROVE  /\ J!Look(p) => JP!Look(p)
         /\ J!Execute(p) => JP!Execute(p)
         /\ J!ExecuteLate(p) => JP!ExecuteLate(p)
         /\ J!Raise(p) => JP!Raise(p)
         /\ J!Succeed(p) => JP!Succeed(p)
         /\ J!DatabaseRaises(p) => JP!DatabaseRaises(p)
         /\ J!Fail(p) => JP!Fail(p)
         /\ J!FailRaises(p) => JP!FailRaises(p)
         /\ J!Die(p) => JP!Die(p)
<1>1. J!Look(p) => JP!Look(p)
  BY DEF J!Look, JP!Look, J!Goto, JP!Goto, J!Recorded, JP!Recorded
<1>2. J!Execute(p) => JP!Execute(p)
  BY DEF J!Execute, JP!Execute, J!Commit, JP!Commit, J!Goto, JP!Goto, J!Recorded, JP!Recorded
<1>3. J!ExecuteLate(p) => JP!ExecuteLate(p)
  BY DEF J!ExecuteLate, JP!ExecuteLate, J!Commit, JP!Commit, J!Goto, JP!Goto, J!Recorded,
         JP!Recorded, J!Suffer, JP!Suffer, J!Total, JP!Total
<1>4. J!Raise(p) => JP!Raise(p)
  BY DEF J!Raise, JP!Raise, J!Goto, JP!Goto
<1>5. J!Succeed(p) => JP!Succeed(p)
  BY DEF J!Succeed, JP!Succeed, J!Release, JP!Release, J!Goto, JP!Goto
<1>6. J!DatabaseRaises(p) => JP!DatabaseRaises(p)
  BY DEF J!DatabaseRaises, JP!DatabaseRaises, J!Goto, JP!Goto, J!Suffer, JP!Suffer, J!Total, JP!Total
<1>7. J!Fail(p) => JP!Fail(p)
  BY DEF J!Fail, JP!Fail, J!Release, JP!Release, J!Goto, JP!Goto
<1>8. J!FailRaises(p) => JP!FailRaises(p)
  BY DEF J!FailRaises, JP!FailRaises, J!Release, JP!Release, J!Goto, JP!Goto, J!Suffer, JP!Suffer,
         J!Total, JP!Total
<1>9. J!Die(p) => JP!Die(p)
  BY DEF J!Die, JP!Die, J!Release, JP!Release, J!Goto, JP!Goto, J!Suffer, JP!Suffer, J!Total, JP!Total
<1> QED
  BY <1>1, <1>2, <1>3, <1>4, <1>5, <1>6, <1>7, <1>8, <1>9

LEMMA ItemActs ==
  ASSUME NEW i \in Item
  PROVE  /\ J!Enqueue(i) => JP!Enqueue(i)
         /\ J!FallDue(i) => JP!FallDue(i)
         /\ J!Lapse(i) => JP!Lapse(i)
         /\ J!Overrun(i) => JP!Overrun(i)
         /\ \A p \in Process : J!ClaimJob(p, i) => JP!ClaimJob(p, i)
<1>1. J!Enqueue(i) => JP!Enqueue(i)
  BY DEF J!Enqueue, JP!Enqueue
<1>2. J!FallDue(i) => JP!FallDue(i)
  BY DEF J!FallDue, JP!FallDue, J!Waits, JP!Waits
<1>3. J!Abandoned(i) <=> JP!Abandoned(i)
  BY DEF J!Abandoned, JP!Abandoned, J!Current, JP!Current
<1>4. J!Lapse(i) => JP!Lapse(i)
  BY <1>3 DEF J!Lapse, JP!Lapse, J!Waits, JP!Waits
<1>5. J!Overrun(i) => JP!Overrun(i)
  BY <1>3 DEF J!Overrun, JP!Overrun, J!Waits, JP!Waits, J!Suffer, JP!Suffer, J!Total, JP!Total
<1>6. \A p \in Process : J!ClaimJob(p, i) => JP!ClaimJob(p, i)
  BY DEF J!ClaimJob, JP!ClaimJob, J!Runnable, JP!Runnable, J!Terminal, JP!Terminal, J!Goto, JP!Goto
<1> QED
  BY <1>1, <1>2, <1>4, <1>5, <1>6

LEMMA BoxActs ==
  ASSUME NEW p \in Process
  PROVE  /\ O!ClaimBatch(p) => OP!ClaimBatch(p)
         /\ O!Deliver(p) => OP!Deliver(p)
         /\ O!DeliverLate(p) => OP!DeliverLate(p)
         /\ O!Refuse(p) => OP!Refuse(p)
         /\ O!Record(p) => OP!Record(p)
         /\ O!Unrecorded(p) => OP!Unrecorded(p)
         /\ O!Succeed(p) => OP!Succeed(p)
         /\ O!Fail(p) => OP!Fail(p)
         /\ O!FailRaises(p) => OP!FailRaises(p)
         /\ O!Die(p) => OP!Die(p)
<1>1. O!ClaimBatch(p) => OP!ClaimBatch(p)
  BY DEF O!ClaimBatch, OP!ClaimBatch, O!Runnable, OP!Runnable, O!Terminal, OP!Terminal,
         O!Cardinality, OP!Cardinality, O!IsFiniteSet, OP!IsFiniteSet, O!Turn, OP!Turn,
         O!NextHop, OP!NextHop, O!Recorded, OP!Recorded, O!Sink, OP!Sink
<1>2. O!Deliver(p) => OP!Deliver(p)
  BY DEF O!Deliver, OP!Deliver, O!Bring, OP!Bring, O!AtSink, OP!AtSink
<1>3. O!DeliverLate(p) => OP!DeliverLate(p)
  BY DEF O!DeliverLate, OP!DeliverLate, O!Bring, OP!Bring, O!AtSink, OP!AtSink, O!Suffer, OP!Suffer
<1>4. O!Refuse(p) => OP!Refuse(p)
  BY DEF O!Refuse, OP!Refuse, O!AtSink, OP!AtSink
<1>5. O!Record(p) => OP!Record(p)
  BY DEF O!Record, OP!Record, O!NextHop, OP!NextHop
<1>6. O!Unrecorded(p) => OP!Unrecorded(p)
  BY DEF O!Unrecorded, OP!Unrecorded, O!AllTaken, OP!AllTaken, O!Suffer, OP!Suffer
<1>7. O!Succeed(p) => OP!Succeed(p)
  BY DEF O!Succeed, OP!Succeed, O!AllTaken, OP!AllTaken, O!Turn, OP!Turn, O!NextHop, OP!NextHop
<1>8. O!Fail(p) => OP!Fail(p)
  BY DEF O!Fail, OP!Fail, O!Turn, OP!Turn, O!NextHop, OP!NextHop
<1>9. O!FailRaises(p) => OP!FailRaises(p)
  BY DEF O!FailRaises, OP!FailRaises, O!Turn, OP!Turn, O!NextHop, OP!NextHop, O!Suffer, OP!Suffer
<1>10. O!Die(p) => OP!Die(p)
  BY DEF O!Die, OP!Die, O!Turn, OP!Turn, O!NextHop, OP!NextHop, O!Suffer, OP!Suffer
<1> QED
  BY <1>1, <1>2, <1>3, <1>4, <1>5, <1>6, <1>7, <1>8, <1>9, <1>10

LEMMA EventActs ==
  ASSUME NEW e \in Event
  PROVE  /\ O!Stage(e) => OP!Stage(e)
         /\ O!FallDue(e) => OP!FallDue(e)
         /\ O!Lapse(e) => OP!Lapse(e)
         /\ O!Overrun(e) => OP!Overrun(e)
<1>1. O!Stage(e) => OP!Stage(e)
  BY DEF O!Stage, OP!Stage, O!Sink, OP!Sink
<1>2. O!FallDue(e) => OP!FallDue(e)
  BY DEF O!FallDue, OP!FallDue, O!Waits, OP!Waits
<1>3. O!Abandoned(e) <=> OP!Abandoned(e)
  BY DEF O!Abandoned, OP!Abandoned, O!Current, OP!Current
<1>4. O!Lapse(e) => OP!Lapse(e)
  BY <1>3 DEF O!Lapse, OP!Lapse, O!Waits, OP!Waits
<1>5. O!Overrun(e) => OP!Overrun(e)
  BY <1>3 DEF O!Overrun, OP!Overrun, O!Waits, OP!Waits, O!Suffer, OP!Suffer
<1> QED
  BY <1>1, <1>2, <1>4, <1>5

LEMMA JobInit == Init => JP!JobInit
  BY DEF Init, J!JobInit, JP!JobInit, J!Mishap, JP!Mishap

LEMMA StepIs ==
  ASSUME Next
  PROVE  \/ \E i \in Item :
              (JP!Enqueue(i) \/ JP!FallDue(i) \/ JP!Lapse(i) \/ JP!Overrun(i)) /\ UNCHANGED boxVars
         \/ \E p \in Process : \E i \in Item : JP!ClaimJob(p, i) /\ UNCHANGED boxVars
         \/ \E p \in Process :
              /\ \/ JP!Look(p) \/ JP!Raise(p) \/ JP!DatabaseRaises(p)
                 \/ JP!Succeed(p) \/ JP!Fail(p) \/ JP!FailRaises(p)
              /\ UNCHANGED boxVars
         \/ \E p \in Process :
              /\ JP!Execute(p) \/ JP!ExecuteLate(p)
              /\ O!Stage(<<claim[p].item, effects[claim[p].item] + 1>>)
         \/ \E p \in Process : (OP!ClaimBatch(p) \/ OP!Publish(p)) /\ UNCHANGED jobVars
         \/ \E p \in Process : /\ JP!Die(p) \/ UNCHANGED jobVars
                               /\ OP!Die(p) \/ UNCHANGED boxVars
         \/ \E e \in Event : (OP!FallDue(e) \/ OP!Lapse(e) \/ OP!Overrun(e)) /\ UNCHANGED jobVars
<1>1. ASSUME NEW i \in Item, Enqueue(i)
      PROVE  JP!Enqueue(i) /\ UNCHANGED boxVars
  BY <1>1, ItemActs DEF Enqueue
<1>2. ASSUME NEW p \in Process, Transaction(p)
      PROVE  /\ JP!Execute(p) \/ JP!ExecuteLate(p)
             /\ O!Stage(<<claim[p].item, effects[claim[p].item] + 1>>)
  BY <1>2, JobActs DEF Transaction, StageNext
<1>3. ASSUME NEW p \in Process, Worker(p)
      PROVE  /\ \/ \E i \in Item : JP!ClaimJob(p, i)
                \/ JP!Look(p) \/ JP!Raise(p) \/ JP!DatabaseRaises(p)
                \/ JP!Succeed(p) \/ JP!Fail(p) \/ JP!FailRaises(p)
             /\ UNCHANGED boxVars
  BY <1>3, JobActs, ItemActs DEF Worker
<1>4. ASSUME NEW p \in Process, Deliverer(p)
      PROVE  (OP!ClaimBatch(p) \/ OP!Publish(p)) /\ UNCHANGED jobVars
  <2>1. O!Publish(p) => OP!Publish(p)
    BY BoxActs DEF O!Publish, OP!Publish
  <2> QED
    BY <1>4, <2>1, BoxActs DEF Deliverer
<1>5. ASSUME NEW p \in Process, Die(p)
      PROVE  /\ JP!Die(p) \/ UNCHANGED jobVars
             /\ OP!Die(p) \/ UNCHANGED boxVars
  BY <1>5, JobActs, BoxActs DEF Die
<1>6. ASSUME Time \/ Overrun
      PROVE  \/ \E i \in Item : (JP!FallDue(i) \/ JP!Lapse(i) \/ JP!Overrun(i)) /\ UNCHANGED boxVars
             \/ \E e \in Event : (OP!FallDue(e) \/ OP!Lapse(e) \/ OP!Overrun(e)) /\ UNCHANGED jobVars
  BY <1>6, ItemActs, EventActs DEF Time, Overrun
<1> QED
  BY <1>1, <1>2, <1>3, <1>4, <1>5, <1>6 DEF Next

LEMMA JobStep ==
  ASSUME [Next]_vars
  PROVE  [JP!JobNext]_(JP!jobVars)
<1>1. CASE Next
  <2>1. UNCHANGED jobVars => UNCHANGED JP!jobVars
    BY DEF jobVars, JP!jobVars
  <2> QED
    BY <1>1, <2>1, StepIs DEF JP!JobNext, JP!Work
<1>2. CASE UNCHANGED vars
  BY <1>2 DEF vars, jobVars, JP!jobVars
<1> QED
  BY <1>1, <1>2

(* The composition is a durable job, whatever the outbox does.             *)
THEOREM DeliveryIsJob == Spec => JP!JobSpec
<1>1. Init => JP!JobInit
  BY JobInit
<1>2. [Next]_vars => [JP!JobNext]_(JP!jobVars)
  BY JobStep
<1> QED
  BY <1>1, <1>2, PTL DEF Spec, JP!JobSpec

(***************************************************************************)
(* What only holds when the command takes its row's key from the payload:  *)
(* it commits at most once for an item, so an item has at most one event.  *)
(***************************************************************************)
LEMMA EventIs ==
  ASSUME Minted = {}
  PROVE  /\ \A e \in Event : \E i \in Item : e = <<i, 1>>
         /\ \A i \in Item : <<i, 1>> \in Event
<1>1. Event = UNION {{i} \X (1..1) : i \in Item}
  BY DEF Event
<1>2. 1..1 = {1}
  OBVIOUS
<1> QED
  BY <1>1, <1>2

LEMMA CommitIs ==
  ASSUME Minted = {}, JP!Typed, NEW p \in Process, JP!Execute(p) \/ JP!ExecuteLate(p)
  PROVE  /\ claim[p].item \in Item /\ job[claim[p].item] # None
         /\ effects[claim[p].item] = 0
         /\ effects' = [effects EXCEPT ![claim[p].item] = 1]
         /\ UNCHANGED job
<1>1. /\ at[p] = "execute" /\ ~JP!Recorded(claim[p].item) /\ UNCHANGED job
      /\ effects' = [effects EXCEPT ![claim[p].item] = effects[claim[p].item] + 1]
  BY DEF JP!Execute, JP!ExecuteLate, JP!Commit
<1>2. claim[p].item \in Item /\ job[claim[p].item] # None
  <2>1. at[p] # "idle"
    BY <1>1
  <2> QED
    BY <2>1, JobAssumed, JP!HeldRow
<1>3. effects[claim[p].item] \in Nat
  BY <1>2 DEF JP!Typed, JP!JobTypeOK
<1>4. effects[claim[p].item] = 0
  BY <1>1, <1>3 DEF JP!Recorded
<1> QED
  BY <1>1, <1>2, <1>4

LEMMA StageIs ==
  ASSUME Minted = {}, JP!Typed, NEW p \in Process, JP!Execute(p) \/ JP!ExecuteLate(p),
         O!Stage(<<claim[p].item, effects[claim[p].item] + 1>>)
  PROVE  <<claim[p].item, 1>> \in Event /\ OP!Stage(<<claim[p].item, 1>>)
<1>1. claim[p].item \in Item /\ effects[claim[p].item] + 1 = 1
  BY CommitIs
<1>2. <<claim[p].item, 1>> \in Event /\ O!Stage(<<claim[p].item, 1>>)
  BY <1>1, EventIs
<1> QED
  BY <1>2, EventActs

LEMMA BoxStep ==
  ASSUME Minted = {}, JP!Typed, [Next]_vars
  PROVE  [OP!OutboxNext]_(OP!outboxVars)
<1>1. CASE Next
  <2>1. UNCHANGED boxVars => UNCHANGED OP!outboxVars
    BY DEF boxVars, OP!outboxVars
  <2>2. ASSUME NEW p \in Process, JP!Execute(p) \/ JP!ExecuteLate(p),
               O!Stage(<<claim[p].item, effects[claim[p].item] + 1>>)
        PROVE  \E e \in Event : OP!Stage(e)
    BY <2>2, StageIs
  <2> QED
    BY <1>1, <2>1, <2>2, StepIs DEF OP!OutboxNext
<1>2. CASE UNCHANGED vars
  BY <1>2 DEF vars, boxVars, OP!outboxVars
<1> QED
  BY <1>1, <1>2

LEMMA BoxInit == Init => OP!OutboxInit
  BY DEF Init, O!OutboxInit, OP!OutboxInit, O!Sink, OP!Sink

(* The command has its effect once for an item, however often the item is  *)
(* delivered (durable_worker_canonical_java.java:14-17).                   *)
THEOREM EffectIsOnce == ASSUME Minted = {} PROVE Spec => []EffectOnce
<1> DEFINE I == JP!Typed /\ EffectOnce
<1>1. Init => I
  BY JobInit, JobAssumed, JP!TypedInit DEF EffectOnce, JP!JobInit
<1>2. ASSUME I, [Next]_vars
      PROVE  I'
  <2>1. JP!Typed'
    BY <1>2, JobStep, JobAssumed, JP!TypedStep
  <2>2. EffectOnce'
    <3>1. CASE UNCHANGED effects
      BY <1>2, <3>1 DEF EffectOnce
    <3>2. ASSUME NEW p \in Process, JP!Execute(p) \/ JP!ExecuteLate(p)
          PROVE  EffectOnce'
      <4>1. claim[p].item \in Item /\ effects' = [effects EXCEPT ![claim[p].item] = 1]
        BY <1>2, <3>2, CommitIs
      <4> QED
        BY <1>2, <4>1 DEF EffectOnce, JP!Typed, JP!JobTypeOK
    <3>3. Next => UNCHANGED effects \/ \E p \in Process : JP!Execute(p) \/ JP!ExecuteLate(p)
      BY StepIs
      DEF jobVars, JP!Enqueue, JP!FallDue, JP!Lapse, JP!Overrun, JP!ClaimJob, JP!Look, JP!Raise,
          JP!DatabaseRaises, JP!Succeed, JP!Fail, JP!FailRaises, JP!Die
    <3> QED
      BY <1>2, <3>1, <3>2, <3>3 DEF vars, jobVars
  <2> QED
    BY <2>1, <2>2
<1> QED
  BY <1>1, <1>2, PTL DEF Spec

(***************************************************************************)
(* The components' theorems, of the composition.                           *)
(***************************************************************************)
LEMMA DeliveryIsOutbox == ASSUME Minted = {} PROVE Spec => OP!OutboxSpec
<1>1. Spec => [](JP!Typed)
  <2>1. Init => JP!Typed
    BY JobInit, JobAssumed, JP!TypedInit
  <2>2. JP!Typed /\ [Next]_vars => JP!Typed'
    BY JobStep, JobAssumed, JP!TypedStep
  <2> QED
    BY <2>1, <2>2, PTL DEF Spec
<1>2. JP!Typed /\ [Next]_vars => [OP!OutboxNext]_(OP!outboxVars)
  BY BoxStep
<1> QED
  BY <1>1, <1>2, BoxInit, PTL DEF Spec, OP!OutboxSpec

(* Both components' variables have their types in every reachable state.   *)
THEOREM TypeSafe == ASSUME Minted = {} PROVE Spec => []TypeOK
<1>1. JP!JobSpec => []JP!JobTypeOK
  BY JobAssumed, JP!JobTypeSafe
<1>2. OP!OutboxSpec => []OP!OutboxTypeOK
  BY BoxAssumed, OP!OutboxTypeSafe
<1>3. JP!JobTypeOK /\ OP!OutboxTypeOK => TypeOK
  <2>1. JP!JobTypeOK => J!JobTypeOK
    BY DEF J!JobTypeOK, JP!JobTypeOK, J!Row, JP!Row, J!States, JP!States, J!Claim, JP!Claim,
           J!Mishap, JP!Mishap
  <2>2. OP!OutboxTypeOK => O!OutboxTypeOK
    BY DEF O!OutboxTypeOK, OP!OutboxTypeOK, O!Row, OP!Row, O!States, OP!States, O!Claim, OP!Claim,
           O!Sink, OP!Sink
  <2> QED
    BY <2>1, <2>2 DEF TypeOK
<1> QED
  BY <1>1, <1>2, <1>3, DeliveryIsJob, DeliveryIsOutbox, PTL

(* Retries of both queues end: max-attempts, and one more for every lease  *)
(* that was lost (durable_store_jdbc_java.java:106-153).                   *)
THEOREM RetriesAreBounded == ASSUME Minted = {} PROVE Spec => []RetryBounded
<1>1. JP!JobSpec => []JP!RetryBounded
  BY JobAssumed, JP!RetryIsBounded
<1>2. OP!OutboxSpec => []OP!RelayRetryBounded
  BY BoxAssumed, OP!RelayRetryIsBounded
<1>3. JP!RetryBounded /\ OP!RelayRetryBounded => RetryBounded
  BY DEF RetryBounded, J!RetryBounded, JP!RetryBounded, O!RelayRetryBounded, OP!RelayRetryBounded,
         J!Total, JP!Total
<1> QED
  BY <1>1, <1>2, <1>3, DeliveryIsJob, DeliveryIsOutbox, PTL

(* No attempt claimed after a recorded acceptance goes to that sink again  *)
(* (outbox_worker_java.java:62-69).                                        *)
THEOREM NothingIsResent == ASSUME Minted = {} PROVE Spec => []NoResend
<1>1. OP!OutboxSpec => []OP!NoResend
  BY BoxAssumed, OP!NothingSentTwice
<1>2. OP!NoResend => NoResend
  BY DEF NoResend, O!NoResend, OP!NoResend, O!Sink, OP!Sink
<1> QED
  BY <1>1, <1>2, DeliveryIsOutbox, PTL

(* A sink sees an event at most one time more than something went wrong    *)
(* (outbox_store_java.java:126-138).                                       *)
THEOREM DuplicatesArePaidFor == ASSUME Minted = {} PROVE Spec => []DuplicatesAccounted
<1>1. OP!OutboxSpec => []OP!DuplicatesAccounted
  BY BoxAssumed, OP!DuplicatesAreAccounted
<1>2. OP!DuplicatesAccounted => DuplicatesAccounted
  BY DEF DuplicatesAccounted, O!DuplicatesAccounted, OP!DuplicatesAccounted, O!Sink, OP!Sink,
         O!Cardinality, OP!Cardinality
<1> QED
  BY <1>1, <1>2, DeliveryIsOutbox, PTL

(* Deaths alone never turn work that was done into a reported failure      *)
(* (durable_worker_canonical_java.java:11-17).                             *)
THEOREM DeathsKeepWork == ASSUME Minted = {} PROVE Spec => []CrashKeepsDone
<1>1. JP!JobSpec => []JP!CrashKeepsDone
  BY JobAssumed, JP!DeathsKeepDone
<1>2. JP!CrashKeepsDone => CrashKeepsDone
  BY DEF CrashKeepsDone, J!CrashKeepsDone, JP!CrashKeepsDone
<1> QED
  BY <1>1, <1>2, DeliveryIsJob, PTL

(***************************************************************************)
(* The composition keeps its promises.  The refinement needs of the state: *)
(* types, one effect for an item, and that only work that was done stages  *)
(* its event; and of the next state: that success is honest in both queues.*)
(***************************************************************************)
Accepted == {i \in Item : job[i] # None}
Done == {i \in Item : effects[i] = 1}
Told == {t \in Item \X O!Sink : sent[<<t[1], 1>>][t[2]] # {}}
Reported == {i \in Item : job[i] # None /\ job[i].state = "SUCCEEDED"}
Announced == {i \in Item : staged[<<i, 1>>] # None /\ staged[<<i, 1>>].state = "SUCCEEDED"}

StagedIsDone == \A i \in Item : staged[<<i, 1>>] # None => effects[i] > 0

IInv == JP!Typed /\ OP!Typed /\ EffectOnce /\ StagedIsDone
Honest == JP!SuccessMeansDone /\ OP!SuccessMeansTaken

JobSame == Accepted' = Accepted /\ Done' = Done /\ Reported' = Reported
BoxSame == Told' = Told /\ Announced' = Announced

LEMMA SameSink == O!Sink = OP!Sink
  BY DEF O!Sink, OP!Sink

LEMMA BoxUnchanged == UNCHANGED boxVars => BoxSame
  BY DEF boxVars, BoxSame, Told, Announced

LEMMA JobUnchanged == UNCHANGED jobVars => JobSame
  BY DEF jobVars, JobSame, Accepted, Done, Reported

LEMMA EnqueueMaps ==
  ASSUME JP!Typed, NEW i \in Item, JP!Enqueue(i)
  PROVE  Accepted' = Accepted \cup {i} /\ Done' = Done /\ Reported' = Reported
<1>1. PICK row : row = [state |-> "PENDING", attempts |-> 0, waiting |-> FALSE]
  OBVIOUS
<1>2. job[i] = None /\ job' = [job EXCEPT ![i] = row] /\ UNCHANGED effects
  BY <1>1 DEF JP!Enqueue
<1>3. row \in JP!Row /\ row.state = "PENDING"
  BY <1>1 DEF JP!Row, JP!States
<1>4. row # None
  BY <1>3, JobAssumed, JP!RowFields
<1>5. job'[i] = row /\ \A k \in Item : k # i => job'[k] = job[k]
  BY <1>2 DEF JP!Typed, JP!JobTypeOK
<1> QED
  BY <1>2, <1>3, <1>4, <1>5 DEF Accepted, Done, Reported

LEMMA ItemQuiet ==
  ASSUME JP!Typed, NEW i \in Item, JP!FallDue(i) \/ JP!Lapse(i) \/ JP!Overrun(i)
  PROVE  JobSame
<1>1. /\ job[i] # None /\ job'[i] # None /\ job'[i].state = job[i].state
      /\ \A k \in Item : k # i => job'[k] = job[k]
  BY JobAssumed, JP!Ripened
<1>2. UNCHANGED effects
  BY DEF JP!FallDue, JP!Lapse, JP!Overrun
<1> QED
  BY <1>1, <1>2 DEF JobSame, Accepted, Done, Reported

LEMMA LeaseQuiet ==
  ASSUME JP!Typed, NEW p \in Process, NEW i \in Item, JP!ClaimJob(p, i)
  PROVE  JobSame
<1>1. /\ job[i] # None /\ job[i].state \in {"PENDING", "RUNNING"}
      /\ job'[i] # None /\ job'[i].state = "RUNNING"
      /\ \A k \in Item : k # i => job'[k] = job[k]
  BY JobAssumed, JP!Leased
<1>2. UNCHANGED effects
  BY DEF JP!ClaimJob
<1> QED
  BY <1>1, <1>2 DEF JobSame, Accepted, Done, Reported

LEMMA WorkerMaps ==
  ASSUME JP!Typed, JP!SuccessMeansDone', EffectOnce, NEW p \in Process,
         \/ JP!Look(p) \/ JP!Raise(p) \/ JP!DatabaseRaises(p)
         \/ JP!Succeed(p) \/ JP!Fail(p) \/ JP!FailRaises(p) \/ JP!Die(p)
  PROVE  \/ JobSame
         \/ \E i \in Done : /\ Accepted' = Accepted /\ Done' = Done
                            /\ Reported' = Reported \cup {i}
<1>1. CASE \/ JP!Look(p) \/ JP!Raise(p) \/ JP!DatabaseRaises(p)
           \/ JP!FailRaises(p) \/ JP!Die(p)
  <2>1. UNCHANGED <<job, effects>>
    BY <1>1 DEF JP!Look, JP!Raise, JP!DatabaseRaises, JP!FailRaises, JP!Die
  <2> QED
    BY <2>1 DEF JobSame, Accepted, Done, Reported
<1>2. CASE JP!Succeed(p) \/ JP!Fail(p)
  <2>1. UNCHANGED effects /\ at[p] # "idle"
    BY <1>2 DEF JP!Succeed, JP!Fail
  <2>2. PICK i \in Item : i = claim[p].item /\ job[i] # None
    BY <2>1, JobAssumed, JP!HeldRow
  <2>3. /\ \A k \in Item : job'[k] = None <=> job[k] = None
        /\ \A k \in Item : k # i => job'[k] = job[k]
        /\ job[i].state # "RUNNING" => job' = job
        /\ job[i].state = "RUNNING" => job'[i].state \in {"SUCCEEDED", "FAILED", "PENDING"}
    BY <1>2, <2>2, JobAssumed, JP!Acknowledged
  <2>4. Accepted' = Accepted /\ Done' = Done
    BY <2>1, <2>3 DEF Accepted, Done
  <2>5. CASE job[i].state = "RUNNING" /\ job'[i].state = "SUCCEEDED"
    <3>1. Reported' = Reported \cup {i}
      BY <2>2, <2>3, <2>5 DEF Reported
    <3>2. effects[i] > 0
      BY <2>1, <2>2, <2>3, <2>5 DEF JP!SuccessMeansDone
    <3>3. effects[i] \in Nat /\ effects[i] <= 1
      BY DEF JP!Typed, JP!JobTypeOK, EffectOnce
    <3>4. i \in Done
      BY <3>2, <3>3 DEF Done
    <3> QED
      BY <2>4, <3>1, <3>4
  <2>6. CASE ~(job[i].state = "RUNNING" /\ job'[i].state = "SUCCEEDED")
    <3>1. Reported' = Reported
      BY <2>2, <2>3, <2>6 DEF Reported
    <3> QED
      BY <2>4, <3>1 DEF JobSame
  <2> QED
    BY <2>5, <2>6
<1> QED
  BY <1>1, <1>2

LEMMA TransactionMaps ==
  ASSUME Minted = {}, JP!Typed, OP!Typed, NEW p \in Process, JP!Execute(p) \/ JP!ExecuteLate(p),
         O!Stage(<<claim[p].item, effects[claim[p].item] + 1>>)
  PROVE  /\ BoxSame
         /\ \E i \in Accepted \ Done : /\ Done' = Done \cup {i}
                                       /\ Accepted' = Accepted /\ Reported' = Reported
<1>1. PICK i \in Item : i = claim[p].item /\ job[i] # None /\ effects[i] = 0
                        /\ effects' = [effects EXCEPT ![i] = 1] /\ UNCHANGED job
  BY CommitIs
<1>2. <<i, 1>> \in Event /\ OP!Stage(<<i, 1>>)
  BY <1>1, StageIs
<1>3. /\ i \in Accepted \ Done /\ Done' = Done \cup {i}
      /\ Accepted' = Accepted /\ Reported' = Reported
  BY <1>1 DEF Accepted, Done, Reported, JP!Typed, JP!JobTypeOK
<1>4. PICK row : row.state = "PENDING" /\ staged' = [staged EXCEPT ![<<i, 1>>] = row]
  BY <1>2 DEF OP!Stage
<1>5. UNCHANGED sent /\ staged[<<i, 1>>] = None
  BY <1>2 DEF OP!Stage
<1>6. /\ staged'[<<i, 1>>] = row
      /\ \A k \in Item : k # i => staged'[<<k, 1>>] = staged[<<k, 1>>]
  <2>1. \A k \in Item : <<k, 1>> \in Event /\ (k # i => <<k, 1>> # <<i, 1>>)
    BY EventIs
  <2> QED
    BY <1>2, <1>4, <2>1 DEF OP!Typed, OP!OutboxTypeOK
<1>7. BoxSame
  BY <1>4, <1>5, <1>6 DEF BoxSame, Told, Announced
<1> QED
  BY <1>3, <1>7

LEMMA EventQuiet ==
  ASSUME Minted = {}, OP!Typed, NEW e \in Event, OP!FallDue(e) \/ OP!Lapse(e) \/ OP!Overrun(e)
  PROVE  BoxSame
<1>1. /\ staged[e] # None /\ staged'[e] # None /\ staged'[e].state = staged[e].state
      /\ \A d \in Event : d # e => staged'[d] = staged[d]
  BY BoxAssumed, OP!Ripened
<1>2. UNCHANGED sent
  BY DEF OP!FallDue, OP!Lapse, OP!Overrun
<1>3. \A i \in Item : <<i, 1>> \in Event
  BY EventIs
<1> QED
  BY <1>1, <1>2, <1>3 DEF BoxSame, Told, Announced

LEMMA RelayMaps ==
  ASSUME Minted = {}, OP!Typed, StagedIsDone, EffectOnce, JP!Typed, OP!SuccessMeansTaken',
         NEW p \in Process, OP!ClaimBatch(p) \/ OP!Publish(p) \/ OP!Die(p)
  PROVE  /\ \A e \in Event : staged'[e] # None => staged[e] # None
         /\ \/ BoxSame
            \/ \E i \in Done, s \in O!Sink : Told' = Told \cup {<<i, s>>} /\ Announced' = Announced
            \/ \E i \in Item : /\ \A s \in O!Sink : <<i, s>> \in Told
                               /\ Announced' = Announced \cup {i} /\ Told' = Told
<1>0. \A i \in Item : <<i, 1>> \in Event
  BY EventIs
<1>1. CASE OP!ClaimBatch(p)
  <2>1. PICK b \in Seq(OP!Claim) : OP!Lease(p, b)
    BY <1>1, BoxAssumed, OP!Leased
  <2>2. ASSUME NEW e \in Event
        PROVE  \/ staged'[e] = staged[e]
               \/ /\ staged[e] # None /\ staged'[e] # None
                  /\ staged[e].state \in {"PENDING", "RUNNING"} /\ staged'[e].state = "RUNNING"
    BY <2>1 DEF OP!Lease
  <2>3. UNCHANGED sent
    BY <1>1 DEF OP!ClaimBatch
  <2> QED
    BY <1>0, <2>2, <2>3 DEF BoxSame, Told, Announced
<1>2. CASE OP!Deliver(p) \/ OP!DeliverLate(p)
  <2>1. /\ OP!AtSink(p) /\ UNCHANGED staged
        /\ sent' = [sent EXCEPT ![batch[p][1].event][Chain[hop[p]]] = @ \cup {batch[p][1].attempt}]
    BY <1>2 DEF OP!Deliver, OP!DeliverLate, OP!Bring
  <2>2. PICK e \in Event, s \in OP!Sink : e = batch[p][1].event /\ s = Chain[hop[p]]
    BY <2>1, BoxAssumed, OP!BringTyped
  <2>3. \A d \in Event, t \in OP!Sink :
          sent'[d][t] = IF d = batch[p][1].event /\ t = Chain[hop[p]]
                        THEN sent[d][t] \cup {batch[p][1].attempt} ELSE sent[d][t]
    BY <2>1, BoxAssumed, OP!BringTyped
  <2>4. PICK i \in Item : e = <<i, 1>>
    BY EventIs
  <2>5. \A k \in Item, t \in O!Sink :
          sent'[<<k, 1>>][t] # {} <=> sent[<<k, 1>>][t] # {} \/ (k = i /\ t = s)
    <3>1. ASSUME NEW k \in Item, NEW t \in O!Sink
          PROVE  sent'[<<k, 1>>][t] # {} <=> sent[<<k, 1>>][t] # {} \/ (k = i /\ t = s)
      <4>1. <<k, 1>> = e <=> k = i
        BY <2>4
      <4>2. sent'[<<k, 1>>][t] = IF k = i /\ t = s
                                 THEN sent[<<k, 1>>][t] \cup {batch[p][1].attempt}
                                 ELSE sent[<<k, 1>>][t]
        BY <1>0, <2>2, <2>3, <4>1, SameSink
      <4> QED
        BY <4>2
    <3> QED
      BY <3>1
  <2>6. Told' = Told \cup {<<i, s>>}
    BY <2>2, <2>5, SameSink DEF Told
  <2>7. i \in Done
    <3>1. staged[<<i, 1>>] # None
      <4>1. step[p] # "idle"
        BY <2>1 DEF OP!AtSink
      <4> QED
        BY <2>2, <2>4, <4>1, BoxAssumed, OP!AtHand
    <3>2. effects[i] > 0 /\ effects[i] <= 1 /\ effects[i] \in Nat
      BY <3>1 DEF StagedIsDone, EffectOnce, JP!Typed, JP!JobTypeOK
    <3> QED
      BY <3>2 DEF Done
  <2>8. Announced' = Announced
    BY <2>1 DEF Announced
  <2> QED
    BY <2>1, <2>2, <2>6, <2>7, <2>8, SameSink
<1>3. CASE OP!Refuse(p) \/ OP!Unrecorded(p) \/ OP!FailRaises(p) \/ OP!Die(p)
  <2>1. UNCHANGED <<staged, sent>>
    BY <1>3 DEF OP!Refuse, OP!Unrecorded, OP!FailRaises, OP!Die
  <2> QED
    BY <2>1 DEF BoxSame, Told, Announced
<1>4. CASE OP!Record(p)
  <2>1. UNCHANGED sent
    BY <1>4 DEF OP!Record
  <2>2. PICK e \in Event : e = batch[p][1].event
    BY <1>4, BoxAssumed, OP!Remembered
  <2>3. /\ staged[e] # None /\ staged'[e] # None /\ staged'[e].state = staged[e].state
        /\ \A d \in Event : d # e => staged'[d] = staged[d]
    BY <1>4, <2>2, BoxAssumed, OP!Remembered
  <2> QED
    BY <1>0, <2>1, <2>3 DEF BoxSame, Told, Announced
<1>5. CASE OP!Succeed(p) \/ OP!Fail(p)
  <2>1. UNCHANGED sent /\ step[p] # "idle"
    BY <1>5 DEF OP!Succeed, OP!Fail, OP!AllTaken
  <2>2. PICK e \in Event : e = batch[p][1].event /\ staged[e] # None
    BY <2>1, BoxAssumed, OP!AtHand
  <2>3. /\ \A d \in Event : staged'[d] = None <=> staged[d] = None
        /\ \A d \in Event : d # e => staged'[d] = staged[d]
        /\ staged[e].state # "RUNNING" => staged' = staged
        /\ staged[e].state = "RUNNING" => staged'[e].state \in {"SUCCEEDED", "FAILED", "PENDING"}
    BY <1>5, <2>2, BoxAssumed, OP!Settled
  <2>4. Told' = Told
    BY <2>1 DEF Told
  <2>5. PICK i \in Item : e = <<i, 1>>
    BY EventIs
  <2>6. \A k \in Item : k # i => staged'[<<k, 1>>] = staged[<<k, 1>>]
    <3>1. \A k \in Item : k # i => <<k, 1>> # e
      BY <2>5
    <3> QED
      BY <1>0, <2>3, <3>1
  <2>7. CASE staged[e].state = "RUNNING" /\ staged'[e].state = "SUCCEEDED"
    <3>1. staged'[e] # None
      BY <2>2, <2>3
    <3>2. Announced' = Announced \cup {i}
      BY <2>2, <2>5, <2>6, <2>7, <3>1 DEF Announced
    <3>3. \A s \in O!Sink : sent[<<i, 1>>][s] # {}
      BY <2>1, <2>5, <2>7, <3>1, SameSink DEF OP!SuccessMeansTaken
    <3>4. \A s \in O!Sink : <<i, s>> \in Told
      BY <3>3 DEF Told
    <3> QED
      BY <2>3, <2>4, <3>2, <3>4
  <2>8. CASE ~(staged[e].state = "RUNNING" /\ staged'[e].state = "SUCCEEDED")
    <3>1. (staged'[e] # None /\ staged'[e].state = "SUCCEEDED") <=>
            (staged[e] # None /\ staged[e].state = "SUCCEEDED")
      BY <2>2, <2>3, <2>8
    <3>2. Announced' = Announced
      BY <2>5, <2>6, <3>1 DEF Announced
    <3> QED
      BY <2>3, <2>4, <3>2 DEF BoxSame
  <2> QED
    BY <2>7, <2>8
<1> QED
  BY <1>1, <1>2, <1>3, <1>4, <1>5 DEF OP!Publish

(* An effect is not undone, and only a transaction has one.                *)
LEMMA EffectsStay ==
  ASSUME Minted = {}, JP!Typed, [Next]_vars
  PROVE  \/ UNCHANGED effects
         \/ \E p \in Process :
              /\ JP!Execute(p) \/ JP!ExecuteLate(p)
              /\ O!Stage(<<claim[p].item, effects[claim[p].item] + 1>>)
  BY StepIs
  DEF vars, jobVars, JP!Enqueue, JP!FallDue, JP!Lapse, JP!Overrun, JP!ClaimJob, JP!Look, JP!Raise,
      JP!DatabaseRaises, JP!Succeed, JP!Fail, JP!FailRaises, JP!Die

LEMMA StagedStep ==
  ASSUME Minted = {}, IInv, OP!SuccessMeansTaken', [Next]_vars
  PROVE  StagedIsDone'
<1>0. JP!Typed /\ OP!Typed /\ EffectOnce /\ StagedIsDone
  BY DEF IInv
<1>1. CASE UNCHANGED vars
  BY <1>0, <1>1 DEF vars, jobVars, boxVars, StagedIsDone
<1>2. ASSUME NEW p \in Process, JP!Execute(p) \/ JP!ExecuteLate(p),
             O!Stage(<<claim[p].item, effects[claim[p].item] + 1>>)
      PROVE  StagedIsDone'
  <2>1. PICK i \in Item : i = claim[p].item /\ effects' = [effects EXCEPT ![i] = 1]
    BY <1>0, <1>2, CommitIs
  <2>2. <<i, 1>> \in Event /\ OP!Stage(<<i, 1>>)
    BY <1>0, <1>2, <2>1, StageIs
  <2>3. PICK row : staged' = [staged EXCEPT ![<<i, 1>>] = row]
    BY <2>2 DEF OP!Stage
  <2>4. \A k \in Item : k # i => staged'[<<k, 1>>] = staged[<<k, 1>>]
    <3>1. \A k \in Item : <<k, 1>> \in Event /\ (k # i => <<k, 1>> # <<i, 1>>)
      BY EventIs
    <3> QED
      BY <1>0, <2>2, <2>3, <3>1 DEF OP!Typed, OP!OutboxTypeOK
  <2>5. effects'[i] = 1 /\ \A k \in Item : k # i => effects'[k] = effects[k]
    BY <1>0, <2>1 DEF JP!Typed, JP!JobTypeOK
  <2> QED
    BY <1>0, <2>4, <2>5 DEF StagedIsDone
<1>3. ASSUME UNCHANGED effects, \A e \in Event : staged'[e] # None => staged[e] # None
      PROVE  StagedIsDone'
  BY <1>0, <1>3, EventIs DEF StagedIsDone
<1>4. ASSUME NEW p \in Process, OP!ClaimBatch(p) \/ OP!Publish(p) \/ OP!Die(p)
      PROVE  \A e \in Event : staged'[e] # None => staged[e] # None
  BY <1>0, <1>4, RelayMaps
<1>5. ASSUME NEW e \in Event, OP!FallDue(e) \/ OP!Lapse(e) \/ OP!Overrun(e)
      PROVE  \A d \in Event : staged'[d] # None => staged[d] # None
  BY <1>0, <1>5, BoxAssumed, OP!Ripened
<1>6. ASSUME UNCHANGED boxVars
      PROVE  \A e \in Event : staged'[e] # None => staged[e] # None
  BY <1>6 DEF boxVars
<1>7. CASE Next /\ UNCHANGED effects
  <2>1. \/ \A e \in Event : staged'[e] # None => staged[e] # None
        \/ \E p \in Process :
             /\ JP!Execute(p) \/ JP!ExecuteLate(p)
             /\ O!Stage(<<claim[p].item, effects[claim[p].item] + 1>>)
    BY <1>4, <1>5, <1>6, <1>7, StepIs
  <2> QED
    BY <1>2, <1>3, <1>7, <2>1
<1> QED
  BY <1>0, <1>1, <1>2, <1>7, EffectsStay

LEMMA IInvInit == ASSUME Minted = {}, Init PROVE IInv
<1>1. JP!Typed /\ EffectOnce
  BY JobInit, JobAssumed, JP!TypedInit DEF EffectOnce, JP!JobInit
<1>2. OP!Typed
  BY BoxInit, BoxAssumed, OP!TypedInit
<1>3. StagedIsDone
  BY BoxInit, EventIs DEF OP!OutboxInit, StagedIsDone
<1> QED
  BY <1>1, <1>2, <1>3 DEF IInv

LEMMA IInvStep ==
  ASSUME Minted = {}, IInv, Honest', [Next]_vars
  PROVE  IInv'
<1>1. JP!Typed'
  BY JobStep, JobAssumed, JP!TypedStep DEF IInv
<1>2. OP!Typed'
  <2>1. [OP!OutboxNext]_(OP!outboxVars)
    BY BoxStep DEF IInv
  <2>2. OP!Typed /\ UNCHANGED OP!outboxVars => OP!Typed'
    BY DEF OP!Typed, OP!Held, OP!OutboxTypeOK, OP!outboxVars
  <2> QED
    BY <2>1, <2>2, BoxAssumed, OP!TypedStep DEF IInv
<1>3. EffectOnce'
  <2>1. CASE UNCHANGED effects
    BY <2>1 DEF IInv, EffectOnce
  <2>2. ASSUME NEW p \in Process, JP!Execute(p) \/ JP!ExecuteLate(p)
        PROVE  EffectOnce'
    <3>1. claim[p].item \in Item /\ effects' = [effects EXCEPT ![claim[p].item] = 1]
      BY <2>2, CommitIs DEF IInv
    <3> QED
      BY <3>1 DEF IInv, EffectOnce, JP!Typed, JP!JobTypeOK
  <2> QED
    BY <2>1, <2>2, EffectsStay DEF IInv
<1>4. StagedIsDone'
  BY StagedStep DEF Honest
<1> QED
  BY <1>1, <1>2, <1>3, <1>4 DEF IInv

(* Every step of the composition is a step of Promises, or none.           *)
LEMMA StepSimulation ==
  ASSUME Minted = {}, IInv, Honest', [Next]_vars
  PROVE  [P!Next]_(P!vars)
<1>0. JP!Typed /\ OP!Typed /\ EffectOnce /\ StagedIsDone
      /\ JP!SuccessMeansDone' /\ OP!SuccessMeansTaken'
  BY DEF IInv, Honest
<1>1. ASSUME JobSame, BoxSame
      PROVE  UNCHANGED P!vars
  BY <1>1 DEF JobSame, BoxSame, P!vars, Accepted, Done, Told, Reported, Announced
<1>2. ASSUME NEW i \in Item, BoxSame, Accepted' = Accepted \cup {i}, Done' = Done, Reported' = Reported
      PROVE  P!Accept(i)
  BY <1>2 DEF BoxSame, P!Accept, Accepted, Done, Told, Reported, Announced
<1>3. ASSUME NEW i \in Accepted \ Done, BoxSame, Done' = Done \cup {i},
             Accepted' = Accepted, Reported' = Reported
      PROVE  P!Do(i)
  BY <1>3 DEF BoxSame, P!Do, Accepted, Done, Told, Reported, Announced
<1>4. ASSUME NEW i \in Done, BoxSame, Accepted' = Accepted, Done' = Done, Reported' = Reported \cup {i}
      PROVE  P!Report(i)
  BY <1>4 DEF BoxSame, P!Report, Accepted, Done, Told, Reported, Announced
<1>5. ASSUME NEW i \in Done, NEW s \in O!Sink, JobSame,
             Told' = Told \cup {<<i, s>>}, Announced' = Announced
      PROVE  P!Tell(i, s)
  BY <1>5 DEF JobSame, P!Tell, Accepted, Done, Told, Reported, Announced
<1>6. ASSUME NEW i \in Item, JobSame, \A s \in O!Sink : <<i, s>> \in Told,
             Announced' = Announced \cup {i}, Told' = Told
      PROVE  P!Announce(i)
  BY <1>6 DEF JobSame, P!Announce, Accepted, Done, Told, Reported, Announced
<1>7. Accepted \subseteq Item /\ Done \subseteq Item
  BY DEF Accepted, Done
<1>8. ASSUME UNCHANGED boxVars,
             \/ \E i \in Item : JP!Enqueue(i) \/ JP!FallDue(i) \/ JP!Lapse(i) \/ JP!Overrun(i)
             \/ \E p \in Process, i \in Item : JP!ClaimJob(p, i)
             \/ \E p \in Process :
                  \/ JP!Look(p) \/ JP!Raise(p) \/ JP!DatabaseRaises(p)
                  \/ JP!Succeed(p) \/ JP!Fail(p) \/ JP!FailRaises(p) \/ JP!Die(p)
      PROVE  [P!Next]_(P!vars)
  <2>1. BoxSame
    BY <1>8, BoxUnchanged
  <2>2. ASSUME NEW i \in Item, JP!Enqueue(i)
        PROVE  P!Next
    BY <1>0, <1>2, <2>1, <2>2, EnqueueMaps DEF P!Next
  <2>3. ASSUME NEW i \in Item, JP!FallDue(i) \/ JP!Lapse(i) \/ JP!Overrun(i)
        PROVE  UNCHANGED P!vars
    BY <1>0, <1>1, <2>1, <2>3, ItemQuiet
  <2>4. ASSUME NEW p \in Process, NEW i \in Item, JP!ClaimJob(p, i)
        PROVE  UNCHANGED P!vars
    BY <1>0, <1>1, <2>1, <2>4, LeaseQuiet
  <2>5. ASSUME NEW p \in Process,
               \/ JP!Look(p) \/ JP!Raise(p) \/ JP!DatabaseRaises(p)
               \/ JP!Succeed(p) \/ JP!Fail(p) \/ JP!FailRaises(p) \/ JP!Die(p)
        PROVE  [P!Next]_(P!vars)
    <3>1. \/ JobSame
          \/ \E i \in Done : /\ Accepted' = Accepted /\ Done' = Done
                             /\ Reported' = Reported \cup {i}
      BY <1>0, <2>5, WorkerMaps
    <3> QED
      BY <1>1, <1>4, <1>7, <2>1, <3>1 DEF P!Next
  <2> QED
    BY <1>8, <2>2, <2>3, <2>4, <2>5
<1>9. ASSUME NEW p \in Process, JP!Execute(p) \/ JP!ExecuteLate(p),
             O!Stage(<<claim[p].item, effects[claim[p].item] + 1>>)
      PROVE  P!Next
  <2>1. PICK i \in Accepted \ Done : BoxSame /\ Done' = Done \cup {i}
                                     /\ Accepted' = Accepted /\ Reported' = Reported
    BY <1>0, <1>9, TransactionMaps
  <2> QED
    BY <1>3, <1>7, <2>1 DEF P!Next
<1>10. ASSUME JobSame, NEW p \in Process, OP!ClaimBatch(p) \/ OP!Publish(p) \/ OP!Die(p)
       PROVE  [P!Next]_(P!vars)
  <2>1. \/ BoxSame
        \/ \E i \in Done, s \in O!Sink : Told' = Told \cup {<<i, s>>} /\ Announced' = Announced
        \/ \E i \in Item : /\ \A s \in O!Sink : <<i, s>> \in Told
                           /\ Announced' = Announced \cup {i} /\ Told' = Told
    BY <1>0, <1>10, RelayMaps
  <2> QED
    BY <1>1, <1>5, <1>6, <1>7, <1>10, <2>1 DEF P!Next
<1>11. ASSUME NEW p \in Process, JP!Die(p) \/ UNCHANGED jobVars, OP!Die(p) \/ UNCHANGED boxVars
       PROVE  [P!Next]_(P!vars)
  <2>1. JobSame
    <3>1. UNCHANGED <<job, effects>>
      BY <1>11 DEF JP!Die, jobVars
    <3> QED
      BY <3>1 DEF JobSame, Accepted, Done, Reported
  <2>2. BoxSame
    <3>1. UNCHANGED <<staged, sent>>
      BY <1>11 DEF OP!Die, boxVars
    <3> QED
      BY <3>1 DEF BoxSame, Told, Announced
  <2> QED
    BY <1>1, <2>1, <2>2
<1>12. ASSUME NEW e \in Event, OP!FallDue(e) \/ OP!Lapse(e) \/ OP!Overrun(e), UNCHANGED jobVars
       PROVE  UNCHANGED P!vars
  BY <1>0, <1>1, <1>12, EventQuiet, JobUnchanged
<1>13. CASE UNCHANGED vars
  <2>1. UNCHANGED jobVars /\ UNCHANGED boxVars
    BY <1>13 DEF vars
  <2> QED
    BY <1>1, <2>1, JobUnchanged, BoxUnchanged
<1>14. CASE Next
  BY <1>8, <1>9, <1>10, <1>11, <1>12, <1>14, StepIs, JobUnchanged
<1> QED
  BY <1>13, <1>14

(* Queue, command, outbox and relays together implement Promises: accepted *)
(* work has its effect once, sinks hear of nothing that did not happen, and*)
(* neither queue reports success before its time, whatever dies, raises or *)
(* loses its lease.                                                        *)
THEOREM DeliveryKeepsPromises == ASSUME Minted = {} PROVE Spec => Implements
<1>1. Spec => []Honest
  <2>1. JP!JobSpec => []JP!SuccessMeansDone
    BY JobAssumed, JP!SuccessIsHonest
  <2>2. OP!OutboxSpec => []OP!SuccessMeansTaken
    BY BoxAssumed, OP!SuccessIsTaken
  <2>3. JP!SuccessMeansDone /\ OP!SuccessMeansTaken => Honest
    BY DEF Honest
  <2> QED
    BY <2>1, <2>2, <2>3, DeliveryIsJob, DeliveryIsOutbox, PTL
<1>2. Init => IInv
  BY IInvInit
<1>3. IInv /\ Honest' /\ [Next]_vars => IInv'
  BY IInvStep
<1>4. IInv /\ Honest' /\ [Next]_vars => [P!Next]_(P!vars)
  BY StepSimulation
<1>5. Init => P!Init
  <2> SUFFICES ASSUME Init
               PROVE  P!Init
    OBVIOUS
  <2>1. /\ job = [i \in Item |-> None] /\ effects = [i \in Item |-> 0]
        /\ staged = [e \in Event |-> None] /\ sent = [e \in Event |-> [s \in O!Sink |-> {}]]
    BY DEF Init, J!JobInit, O!OutboxInit
  <2>2. \A i \in Item : <<i, 1>> \in Event
    BY EventIs
  <2> QED
    BY <2>1, <2>2 DEF P!Init
<1> QED
  BY <1>1, <1>2, <1>3, <1>4, <1>5, PTL DEF Spec, Implements, P!Spec
=============================================================================
