------------------------------- MODULE Outbox -------------------------------
(***************************************************************************)
(* The transactional outbox jails generates: staged events in PostgreSQL   *)
(* (templates/spring/outbox_store_java.java) and, in every process, one    *)
(* relay that leases a batch of them and takes each to every sink that has *)
(* not accepted it yet (templates/spring/outbox_worker_java.java).         *)
(*                                                                         *)
(* A statement is one step and so is a delivery.  A relay may die between  *)
(* any two steps, a sink may refuse an event or accept it without the      *)
(* relay hearing so, and the one lease of a batch may run out while its    *)
(* first events are still on their way.                                    *)
(***************************************************************************)
EXTENDS Naturals, Sequences, FiniteSets

CONSTANTS
  Event,        \* the events a command may stage
  Relay,        \* application processes, one relay each
  Chain,        \* the sinks, in the order of their @Order
  Batch,        \* outbox.<usecase>.batch-size
  MaxAttempts,  \* outbox.<usecase>.max-attempts
  MaxMishaps,   \* bound: deaths, late exceptions, lost records, overrun leases
  None

Sink == {Chain[n] : n \in DOMAIN Chain}

States == {"PENDING", "RUNNING", "SUCCEEDED", "FAILED"}
Terminal == {"SUCCEEDED", "FAILED"}

\* `waiting`: next_attempt_at of a PENDING row, lease_until of a RUNNING one,
\* is still to come.  `delivered[s]`: the attempts counted when the acceptance
\* of s was first recorded, 0 before that; the column is the set of the others.
Row == [state : States, attempts : Nat, waiting : BOOLEAN, delivered : [Sink -> Nat]]

\* `skip`: the sinks the claim found in the column.
Claim == [event : Event, attempt : Nat, skip : SUBSET Sink]

\* What is assumed of the constants, by whoever instantiates this module.
OutboxAssumption ==
  /\ Chain \in Seq(Sink) /\ Chain # <<>>
  /\ \A m, n \in DOMAIN Chain : Chain[m] = Chain[n] => m = n
  /\ IsFiniteSet(Event)
  /\ Batch \in Nat \ {0} /\ MaxAttempts \in Nat \ {0}
  /\ MaxMishaps \in Nat
  /\ None \notin Row

VARIABLES
  staged,   \* the outbox table
  step,     \* what each relay does next
  batch,    \* the claims it has still to publish, the one at hand first
  hop,      \* how far along the chain of sinks that one is
  sent,     \* for every event and sink, the attempts that brought the one to the other
  mishaps

outboxVars == <<staged, step, batch, hop, sent, mishaps>>

OutboxInit ==
  /\ staged = [e \in Event |-> None]
  /\ step = [r \in Relay |-> "idle"]
  /\ batch = [r \in Relay |-> <<>>]
  /\ hop = [r \in Relay |-> 0]
  /\ sent = [e \in Event |-> [s \in Sink |-> {}]]
  /\ mishaps = 0

Suffer ==
  /\ mishaps < MaxMishaps
  /\ mishaps' = mishaps + 1

Recorded(row) == {s \in Sink : row.delivered[s] > 0}

\* Mutant: a lease that ran out is not claimed again.
RunnableVariant(e) == staged[e] # None /\ staged[e].state = "PENDING" /\ ~staged[e].waiting

Runnable(e) == staged[e] # None /\ staged[e].state \notin Terminal /\ ~staged[e].waiting
Current(r, e) ==
  \E n \in DOMAIN batch[r] :
    batch[r][n].event = e /\ batch[r][n].attempt = staged[e].attempts

\* Mutant: the sinks that have accepted the event are not left out.
NextHopVariant(c, n) == n

\* The first sink of the chain, from n on, the claim does not skip; past the
\* last one when there is none.
NextHop(c, n) ==
  LET left == {m \in n..Len(Chain) : Chain[m] \notin c.skip} IN
  IF left = {} THEN Len(Chain) + 1 ELSE CHOOSE m \in left : \A k \in left : m <= k

(* Commands. *)

\* `stage` runs in the transaction that writes the row, under an id minted
\* there, so it never meets an event staged before.
Stage(e) ==
  /\ staged[e] = None
  /\ staged' = [staged EXCEPT ![e] =
       [state |-> "PENDING", attempts |-> 0, waiting |-> FALSE, delivered |-> [s \in Sink |-> 0]]]
  /\ UNCHANGED <<step, batch, hop, sent, mishaps>>

(* A relay. *)

\* The relay turns to the claims b: to the first sink of the first one, or,
\* when nothing is left, to the next batch.
Turn(r, b) ==
  /\ batch' = [batch EXCEPT ![r] = b]
  /\ hop' = [hop EXCEPT ![r] = IF b = <<>> THEN 0 ELSE NextHop(b[1], 1)]
  /\ step' = [step EXCEPT ![r] = IF b = <<>> THEN "idle" ELSE "publish"]

\* One statement leases up to `batch-size` of the runnable rows; `returning`
\* says nothing of their order.  A tick that finds none changes nothing, and
\* whether the next batch is claimed at once or at the next tick is left open.
ClaimBatch(r) ==
  /\ step[r] = "idle"
  /\ \E order \in [1..Batch -> Event] :
       LET runnable == {e \in Event : Runnable(e)}
           size == IF Cardinality(runnable) < Batch THEN Cardinality(runnable) ELSE Batch
           taken == {order[n] : n \in 1..size}
       IN
       /\ size > 0
       /\ taken \subseteq runnable /\ Cardinality(taken) = size
       /\ staged' = [e \in Event |->
            IF e \in taken
            THEN [staged[e] EXCEPT !.state = "RUNNING", !.attempts = @ + 1, !.waiting = TRUE]
            ELSE staged[e]]
       /\ Turn(r, [n \in 1..size |->
            [event |-> order[n], attempt |-> staged[order[n]].attempts + 1,
             skip |-> Recorded(staged[order[n]])]])
  /\ UNCHANGED <<sent, mishaps>>

AtSink(r) == step[r] = "publish" /\ hop[r] <= Len(Chain)

Bring(r, next) ==
  LET c == batch[r][1] IN
  /\ AtSink(r)
  /\ sent' = [sent EXCEPT ![c.event][Chain[hop[r]]] = @ \cup {c.attempt}]
  /\ step' = [step EXCEPT ![r] = next]
  /\ UNCHANGED <<staged, batch, hop>>

Deliver(r) == Bring(r, "record") /\ UNCHANGED mishaps

\* The sink has the event and the relay hears of an exception: an answer that
\* was lost, or came after the timeout.
DeliverLate(r) == Bring(r, "reject") /\ Suffer

\* The sink does not take the event.
Refuse(r) ==
  /\ AtSink(r)
  /\ step' = [step EXCEPT ![r] = "reject"]
  /\ UNCHANGED <<staged, batch, hop, sent, mishaps>>

\* Mutant: an acceptance is not recorded before the next sink is tried.
RecordVariant(r) ==
  /\ step[r] = "record"
  /\ hop' = [hop EXCEPT ![r] = NextHop(batch[r][1], @ + 1)]
  /\ step' = [step EXCEPT ![r] = "publish"]
  /\ UNCHANGED <<staged, batch, sent, mishaps>>

\* `delivered`, a transaction of its own and whatever the row's state.
Record(r) ==
  /\ step[r] = "record"
  /\ LET e == batch[r][1].event
         s == Chain[hop[r]]
     IN staged' = IF staged[e].delivered[s] > 0 THEN staged
                  ELSE [staged EXCEPT ![e].delivered[s] = staged[e].attempts]
  /\ hop' = [hop EXCEPT ![r] = NextHop(batch[r][1], @ + 1)]
  /\ step' = [step EXCEPT ![r] = "publish"]
  /\ UNCHANGED <<batch, sent, mishaps>>

\* Mutant: one sink is enough.
AllTakenVariant(r) == step[r] = "publish" /\ hop[r] > 1

AllTaken(r) == step[r] = "publish" /\ hop[r] > Len(Chain)

\* `delivered` or `succeed` raises, which counts as a failed delivery.
Unrecorded(r) ==
  /\ step[r] = "record" \/ AllTaken(r)
  /\ Suffer
  /\ step' = [step EXCEPT ![r] = "reject"]
  /\ UNCHANGED <<staged, batch, hop, sent>>

\* `succeed` asks whether the row is RUNNING, not who holds its lease.
Succeed(r) ==
  /\ AllTaken(r)
  /\ LET e == batch[r][1].event IN
     staged' = IF staged[e].state # "RUNNING" THEN staged
               ELSE [staged EXCEPT ![e].state = "SUCCEEDED", ![e].waiting = FALSE]
  /\ Turn(r, Tail(batch[r]))
  /\ UNCHANGED <<sent, mishaps>>

Fail(r) ==
  /\ step[r] = "reject"
  /\ LET e == batch[r][1].event IN
     staged' = IF staged[e].state # "RUNNING" THEN staged
               ELSE IF staged[e].attempts >= MaxAttempts
               THEN [staged EXCEPT ![e].state = "FAILED", ![e].waiting = FALSE]
               ELSE [staged EXCEPT ![e].state = "PENDING", ![e].waiting = TRUE]
  /\ Turn(r, Tail(batch[r]))
  /\ UNCHANGED <<sent, mishaps>>

\* `fail` raises out of the batch: the rest of it is left to its lease.
FailRaises(r) ==
  /\ step[r] = "reject"
  /\ Suffer
  /\ Turn(r, <<>>)
  /\ UNCHANGED <<staged, sent>>

\* The process dies and is started again.
Die(r) ==
  /\ step[r] # "idle"
  /\ Suffer
  /\ Turn(r, <<>>)
  /\ UNCHANGED <<staged, sent>>

(* Time. *)

Waits(e, state) == staged[e] # None /\ staged[e].state = state /\ staged[e].waiting

FallDue(e) ==
  /\ Waits(e, "PENDING")
  /\ staged' = [staged EXCEPT ![e].waiting = FALSE]
  /\ UNCHANGED <<step, batch, hop, sent, mishaps>>

Abandoned(e) == \A r \in Relay : ~Current(r, e)

Lapse(e) ==
  /\ Waits(e, "RUNNING") /\ Abandoned(e)
  /\ staged' = [staged EXCEPT ![e].waiting = FALSE]
  /\ UNCHANGED <<step, batch, hop, sent, mishaps>>

\* A lease runs out though its relay has still to publish the event.
Overrun(e) ==
  /\ Waits(e, "RUNNING") /\ ~Abandoned(e)
  /\ Suffer
  /\ staged' = [staged EXCEPT ![e].waiting = FALSE]
  /\ UNCHANGED <<step, batch, hop, sent>>

Publish(r) ==
  \/ Deliver(r) \/ DeliverLate(r) \/ Refuse(r) \/ Record(r) \/ Unrecorded(r)
  \/ Succeed(r) \/ Fail(r) \/ FailRaises(r)

OutboxNext ==
  \/ \E e \in Event : Stage(e) \/ FallDue(e) \/ Lapse(e) \/ Overrun(e)
  \/ \E r \in Relay : ClaimBatch(r) \/ Publish(r) \/ Die(r)

OutboxSpec == OutboxInit /\ [][OutboxNext]_outboxVars

(* Properties. *)

\* Every variable has its type; a relay is idle exactly when its batch is done.
OutboxTypeOK ==
  /\ staged \in [Event -> Row \cup {None}]
  /\ step \in [Relay -> {"idle", "publish", "record", "reject"}]
  /\ batch \in [Relay -> Seq(Claim)]
  /\ hop \in [Relay -> 0..(Len(Chain) + 1)]
  /\ \A r \in Relay : (step[r] = "idle") <=> (batch[r] = <<>>)
  /\ sent \in [Event -> [Sink -> SUBSET Nat]]
  /\ mishaps \in Nat

\* "Success means every configured sink acknowledged the event", whichever
\* claims of whichever relays it took (outbox_worker_java.java:12-13).
SuccessMeansTaken ==
  \A e \in Event : staged[e] # None /\ staged[e].state = "SUCCEEDED" =>
    \A s \in Sink : sent[e][s] # {} /\ staged[e].delivered[s] > 0

\* "A retry no longer re-sends to the sinks that already accepted the event":
\* no attempt claimed after an acceptance was recorded takes the event to that
\* sink (README.md:523-527, outbox_worker_java.java:62-69).
NoResend ==
  \A e \in Event, s \in Sink :
    staged[e] # None /\ staged[e].delivered[s] > 0 =>
      \A a \in sent[e][s] : a <= staged[e].delivered[s]

\* At-least-once stays once until something goes wrong: a sink sees an event at
\* most one time more than there were deaths, lost answers, lost records and
\* overrun leases, however often other sinks fail (outbox_store_java.java:126-138).
DuplicatesAccounted ==
  \A e \in Event, s \in Sink : Cardinality(sent[e][s]) <= 1 + mishaps

\* Only a lease that ran out is claimed past max-attempts.
RelayRetryBounded ==
  \A e \in Event : staged[e] # None => staged[e].attempts <= MaxAttempts + mishaps
=============================================================================
