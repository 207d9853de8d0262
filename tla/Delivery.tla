------------------------------ MODULE Delivery ------------------------------
(***************************************************************************)
(* A durable job whose command delivers through an outbox: the transaction *)
(* that writes the command's row stages its event                          *)
(* (crates/jails-compiler/src/emit_operation/command.rs), and the relay of *)
(* any process takes it from there.  In each process the worker and the    *)
(* relay share Spring's scheduler.                                         *)
(***************************************************************************)
EXTENDS Naturals, FiniteSets

CONSTANTS
  Item,         \* ids callers may enqueue
  Process,      \* application processes
  Minted,       \* items whose command mints its row's key
  Chain,        \* sinks
  Batch,        \* outbox.<usecase>.batch-size
  JobAttempts,  \* jobs.<name>.max-attempts
  BoxAttempts,  \* outbox.<usecase>.max-attempts
  Pool,         \* spring.task.scheduling.pool.size
  Budget,       \* bound: items enqueued and mishaps together
  None

VARIABLES
  job, at, claim, effects, jobMishaps,         \* DurableJob
  staged, step, batch, hop, sent, boxMishaps   \* Outbox

\* The event of the n-th row an item's command has written.
Event == UNION {{i} \X (1..(IF i \in Minted THEN JobAttempts + Budget ELSE 1)) : i \in Item}

J == INSTANCE DurableJob WITH
  MaxAttempts <- JobAttempts, MaxMishaps <- Budget, mishaps <- jobMishaps
O == INSTANCE Outbox WITH
  Relay <- Process, MaxAttempts <- BoxAttempts, MaxMishaps <- Budget, mishaps <- boxMishaps

ASSUME DeliveryAssumption == J!JobAssumption /\ O!OutboxAssumption /\ Pool \in Nat \ {0}

jobVars == <<job, at, claim, effects, jobMishaps>>
boxVars == <<staged, step, batch, hop, sent, boxMishaps>>
vars == <<jobVars, boxVars>>

Init == J!JobInit /\ O!OutboxInit

Spent == Cardinality({i \in Item : job[i] # None}) + J!Total(jobMishaps) + boxMishaps
Affordable == Spent' <= Budget

\* One thread of the pool is free for a tick.
ThreadFree(p) == (IF at[p] = "idle" THEN 0 ELSE 1) + (IF step[p] = "idle" THEN 0 ELSE 1) < Pool

Enqueue(i) == J!Enqueue(i) /\ UNCHANGED boxVars /\ Affordable

StageNext(p) == O!Stage(<<claim[p].item, effects[claim[p].item] + 1>>)

\* `@Transactional execute`: the row and the event commit together.
Transaction(p) ==
  /\ J!Execute(p) \/ J!ExecuteLate(p)
  /\ StageNext(p)
  /\ Affordable

Worker(p) ==
  /\ \/ ThreadFree(p) /\ \E i \in Item : J!ClaimJob(p, i)
     \/ J!Look(p) \/ J!Raise(p) \/ J!DatabaseRaises(p)
     \/ J!Succeed(p) \/ J!Fail(p) \/ J!FailRaises(p)
  /\ UNCHANGED boxVars
  /\ Affordable

Deliverer(p) ==
  /\ (ThreadFree(p) /\ O!ClaimBatch(p)) \/ O!Publish(p)
  /\ UNCHANGED jobVars
  /\ Affordable

\* The process dies with whatever its threads were at.
Die(p) ==
  /\ at[p] # "idle" \/ step[p] # "idle"
  /\ IF at[p] = "idle" THEN UNCHANGED jobVars ELSE J!Die(p)
  /\ IF step[p] = "idle" THEN UNCHANGED boxVars ELSE O!Die(p)
  /\ Affordable

Time ==
  \/ (\E i \in Item : J!FallDue(i) \/ J!Lapse(i)) /\ UNCHANGED boxVars
  \/ (\E e \in Event : O!FallDue(e) \/ O!Lapse(e)) /\ UNCHANGED jobVars

Overrun ==
  /\ \/ (\E i \in Item : J!Overrun(i)) /\ UNCHANGED boxVars
     \/ (\E e \in Event : O!Overrun(e)) /\ UNCHANGED jobVars
  /\ Affordable

Next ==
  \/ \E i \in Item : Enqueue(i)
  \/ \E p \in Process : Transaction(p) \/ Worker(p) \/ Deliverer(p) \/ Die(p)
  \/ Time \/ Overrun

Spec == Init /\ [][Next]_vars

\* The schedules tick for ever, and time passes.
FairSpec ==
  /\ Spec
  /\ \A p \in Process : WF_vars(Transaction(p) \/ Worker(p)) /\ WF_vars(Deliverer(p))
  /\ WF_vars(Time)

(* Properties. *)

\* The types of both components.
TypeOK == J!JobTypeOK /\ O!OutboxTypeOK

\* The command's effect happens once for an item, however often it is delivered
\* (durable_worker_canonical_java.java:14-17).
EffectOnce == \A i \in Item : effects[i] <= 1

\* Deaths never turn done work into a reported failure.
CrashKeepsDone == J!CrashKeepsDone

\* Neither queue claims a row past max-attempts unless something went wrong.
RetryBounded == J!RetryBounded /\ O!RelayRetryBounded

\* No attempt claimed after a recorded acceptance goes to that sink again.
NoResend == O!NoResend

\* Every repeated delivery is accounted for by something that went wrong.
DuplicatesAccounted == O!DuplicatesAccounted

P == INSTANCE Promises WITH
  Sink <- O!Sink,
  accepted <- {i \in Item : job[i] # None},
  done <- {i \in Item : effects[i] = 1},
  told <- {t \in Item \X O!Sink : sent[<<t[1], 1>>][t[2]] # {}},
  reported <- {i \in Item : job[i] # None /\ job[i].state = "SUCCEEDED"},
  announced <- {i \in Item : staged[<<i, 1>>] # None /\ staged[<<i, 1>>].state = "SUCCEEDED"}

\* Queue, command, outbox and relays together keep what Promises says: one
\* effect, nothing told that did not happen, no success reported before its time.
Implements == P!Spec

\* Every accepted item and every staged event reaches a terminal state: a lease
\* left by a dead process runs out and is claimed again, and retries come to an
\* end (durable_store_jdbc_java.java:98-128, outbox_worker_java.java:15-21).
EverythingEnds ==
  /\ \A i \in Item : []<>(job[i] # None => job[i].state \in J!Terminal)
  /\ \A e \in Event : []<>(staged[e] # None => staged[e].state \in O!Terminal)
=============================================================================
