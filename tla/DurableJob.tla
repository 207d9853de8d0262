----------------------------- MODULE DurableJob -----------------------------
(***************************************************************************)
(* The durable job jails generates: a PostgreSQL queue                     *)
(* (templates/spring/durable_store_jdbc_java.java) and, in every process,  *)
(* one worker that leases an item, asks whether its row is already there,  *)
(* runs the command and acknowledges                                       *)
(* (templates/spring/durable_worker_canonical_java.java).                  *)
(*                                                                         *)
(* A database statement or transaction is one step.  A process may die     *)
(* between any two, a call may raise, also after its effect took place,    *)
(* and a lease may run out while its worker is still at work.  Time is in  *)
(* two steps only: a retry falls due, a lease runs out.                    *)
(***************************************************************************)
EXTENDS Naturals

CONSTANTS
  Item,         \* the ids callers may enqueue
  Process,      \* application processes, one worker each
  Minted,       \* items whose command mints the row's key instead of taking it from the payload
  MaxAttempts,  \* jobs.<name>.max-attempts
  MaxMishaps,   \* bound: deaths, late exceptions, database errors, overrun leases
  None

States == {"PENDING", "RUNNING", "SUCCEEDED", "FAILED"}
Terminal == {"SUCCEEDED", "FAILED"}

\* `waiting`: next_attempt_at of a PENDING row, lease_until of a RUNNING one,
\* is still to come.
Row == [state : States, attempts : Nat, waiting : BOOLEAN]
Claim == [item : Item, attempt : Nat]

\* What is assumed of the constants, by whoever instantiates this module.
JobAssumption ==
  /\ Minted \subseteq Item
  /\ MaxAttempts \in Nat \ {0}
  /\ MaxMishaps \in Nat
  /\ None \notin Row /\ None \notin Claim

VARIABLES
  job,      \* the queue table
  at,       \* where each worker is
  claim,    \* what it has leased: the item, and the attempt that is
  effects,  \* how many rows the command has committed for an item
  mishaps   \* what went wrong so far, by kind

jobVars == <<job, at, claim, effects, mishaps>>

Mishap == {"death", "late", "overrun", "database"}

JobInit ==
  /\ job = [i \in Item |-> None]
  /\ at = [p \in Process |-> "idle"]
  /\ claim = [p \in Process |-> None]
  /\ effects = [i \in Item |-> 0]
  /\ mishaps = [k \in Mishap |-> 0]

Goto(p, label) == at' = [at EXCEPT ![p] = label]

\* Mutant: a worker that is through keeps its claim.
ReleaseVariant(p) == Goto(p, "idle") /\ UNCHANGED claim

Release(p) ==
  /\ Goto(p, "idle")
  /\ claim' = [claim EXCEPT ![p] = None]

Total(count) == count["death"] + count["late"] + count["overrun"] + count["database"]

Suffer(kind) ==
  /\ Total(mishaps) < MaxMishaps
  /\ mishaps' = [mishaps EXCEPT ![kind] = @ + 1]

Runnable(row) == row.state \notin Terminal /\ ~row.waiting

\* The worker whose claim the row's lease belongs to.
Current(p, i) == claim[p] # None /\ claim[p].item = i /\ claim[p].attempt = job[i].attempts

(* Callers. *)

\* A second request with the id inserts nothing: with the same payload it is
\* accepted, with another it is a conflict.
Enqueue(i) ==
  /\ job[i] = None
  /\ job' = [job EXCEPT ![i] = [state |-> "PENDING", attempts |-> 0, waiting |-> FALSE]]
  /\ UNCHANGED <<at, claim, effects, mishaps>>

(* A worker. *)

\* `for update skip locked limit 1`, oldest first: which of the runnable items
\* that is depends on the clock, and any of them may be it.
ClaimJob(p, i) ==
  /\ at[p] = "idle"
  /\ job[i] # None
  /\ Runnable(job[i])
  /\ job' = [job EXCEPT ![i].state = "RUNNING", ![i].attempts = @ + 1, ![i].waiting = TRUE]
  /\ Goto(p, "look")
  /\ claim' = [claim EXCEPT ![p] = [item |-> i, attempt |-> job[i].attempts + 1]]
  /\ UNCHANGED <<effects, mishaps>>

\* The row the command wrote can be found under the item's id only if the
\* command took its key from the payload.
Recorded(i) == effects[i] > 0 /\ i \notin Minted

\* Mutant: the recovery check is left out.
LookVariant(p) ==
  /\ at[p] = "look"
  /\ Goto(p, "execute")
  /\ UNCHANGED <<job, claim, effects, mishaps>>

\* The recovery check: `results.findById(claimed.id())`.
Look(p) ==
  /\ at[p] = "look"
  /\ Goto(p, IF Recorded(claim[p].item) THEN "acknowledge" ELSE "execute")
  /\ UNCHANGED <<job, claim, effects, mishaps>>

Commit(p, next) ==
  /\ at[p] = "execute"
  /\ ~Recorded(claim[p].item)
  /\ effects' = [effects EXCEPT ![claim[p].item] = @ + 1]
  /\ Goto(p, next)
  /\ UNCHANGED <<job, claim>>

Execute(p) == Commit(p, "acknowledge") /\ UNCHANGED mishaps

\* The command's transaction commits and the worker hears of an exception.
ExecuteLate(p) == Commit(p, "reject") /\ Suffer("late")

\* The command raises and nothing is written: among other reasons because the
\* key is there by now.
Raise(p) ==
  /\ at[p] = "execute"
  /\ Goto(p, "reject")
  /\ UNCHANGED <<job, claim, effects, mishaps>>

\* `succeed` asks whether the row is RUNNING, not who holds its lease.
Succeed(p) ==
  /\ at[p] = "acknowledge"
  /\ LET i == claim[p].item IN
     job' = IF job[i].state # "RUNNING" THEN job
            ELSE [job EXCEPT ![i].state = "SUCCEEDED", ![i].waiting = FALSE]
  /\ Release(p)
  /\ UNCHANGED <<effects, mishaps>>

\* The lookup or `succeed` raises, which the worker takes for the command's
\* failure.
DatabaseRaises(p) ==
  /\ at[p] \in {"look", "acknowledge"}
  /\ Suffer("database")
  /\ Goto(p, "reject")
  /\ UNCHANGED <<job, claim, effects>>

\* Mutant: a failed item is put back whatever its attempts.
FailVariant(p) ==
  /\ at[p] = "reject"
  /\ LET i == claim[p].item IN
     job' = IF job[i].state # "RUNNING" THEN job
            ELSE [job EXCEPT ![i].state = "PENDING", ![i].waiting = TRUE]
  /\ Release(p)
  /\ UNCHANGED <<effects, mishaps>>

Fail(p) ==
  /\ at[p] = "reject"
  /\ LET i == claim[p].item IN
     job' = IF job[i].state # "RUNNING" THEN job
            ELSE IF job[i].attempts >= MaxAttempts
            THEN [job EXCEPT ![i].state = "FAILED", ![i].waiting = FALSE]
            ELSE [job EXCEPT ![i].state = "PENDING", ![i].waiting = TRUE]
  /\ Release(p)
  /\ UNCHANGED <<effects, mishaps>>

\* `fail` raises: the worker's schedule goes on, the lease is left to run out.
FailRaises(p) ==
  /\ at[p] = "reject"
  /\ Suffer("database")
  /\ Release(p)
  /\ UNCHANGED <<job, effects>>

\* The process dies and is started again.
Die(p) ==
  /\ at[p] # "idle"
  /\ Suffer("death")
  /\ Release(p)
  /\ UNCHANGED <<job, effects>>

(* Time. *)

Waits(i, state) == job[i] # None /\ job[i].state = state /\ job[i].waiting

FallDue(i) ==
  /\ Waits(i, "PENDING")
  /\ job' = [job EXCEPT ![i].waiting = FALSE]
  /\ UNCHANGED <<at, claim, effects, mishaps>>

Abandoned(i) == \A p \in Process : ~Current(p, i)

\* A lease nobody works under any more runs out.
Lapse(i) ==
  /\ Waits(i, "RUNNING") /\ Abandoned(i)
  /\ job' = [job EXCEPT ![i].waiting = FALSE]
  /\ UNCHANGED <<at, claim, effects, mishaps>>

\* A lease runs out under a worker that is still at work.
Overrun(i) ==
  /\ Waits(i, "RUNNING") /\ ~Abandoned(i)
  /\ Suffer("overrun")
  /\ job' = [job EXCEPT ![i].waiting = FALSE]
  /\ UNCHANGED <<at, claim, effects>>

Work(p) ==
  \/ Look(p) \/ Execute(p) \/ ExecuteLate(p) \/ Raise(p)
  \/ Succeed(p) \/ DatabaseRaises(p) \/ Fail(p) \/ FailRaises(p)

JobNext ==
  \/ \E i \in Item : Enqueue(i) \/ FallDue(i) \/ Lapse(i) \/ Overrun(i)
  \/ \E p \in Process, i \in Item : ClaimJob(p, i)
  \/ \E p \in Process : Work(p) \/ Die(p)

JobSpec == JobInit /\ [][JobNext]_jobVars

(* Properties. *)

\* Every variable has its type; a worker holds a claim exactly while it works.
JobTypeOK ==
  /\ job \in [Item -> Row \cup {None}]
  /\ at \in [Process -> {"idle", "look", "execute", "acknowledge", "reject"}]
  /\ claim \in [Process -> Claim \cup {None}]
  /\ \A p \in Process : claim[p] = None <=> at[p] = "idle"
  /\ effects \in [Item -> Nat]
  /\ mishaps \in [Mishap -> Nat]

\* Deaths alone never turn work that was done into a reported failure: the
\* recovery check finds the row its attempt before committed, also past the
\* last attempt (durable_worker_canonical_java.java:11-17).
CrashKeepsDone ==
  mishaps["late"] + mishaps["database"] + mishaps["overrun"] = 0 =>
    \A i \in Item : job[i] # None /\ effects[i] > 0 => job[i].state # "FAILED"

\* What reports success has had its effect.
SuccessMeansDone ==
  \A i \in Item : job[i] # None /\ job[i].state = "SUCCEEDED" => effects[i] > 0

\* "Bounded retry": only a lease that ran out is claimed past max-attempts,
\* and each time something went wrong (durable_store_jdbc_java.java:106-153).
RetryBounded ==
  \A i \in Item : job[i] # None => job[i].attempts <= MaxAttempts + Total(mishaps)
=============================================================================
