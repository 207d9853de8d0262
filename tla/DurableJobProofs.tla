-------------------------- MODULE DurableJobProofs --------------------------
(***************************************************************************)
(* What is proved of the durable job, for any items, processes, attempts   *)
(* and mishaps: the types, that success means the effect happened, that    *)
(* retries are bounded by the attempts allowed and what went wrong, and    *)
(* that deaths alone never turn done work into a reported failure.         *)
(***************************************************************************)
EXTENDS DurableJob, TLAPS

Labels == {"idle", "look", "execute", "acknowledge", "reject"}

(* Rows, claims and counts.                                                *)

LEMMA RowFields ==
  ASSUME JobAssumption, NEW row \in Row
  PROVE  /\ row # None
         /\ row.state \in States
         /\ row.attempts \in Nat
         /\ row.waiting \in BOOLEAN
  BY DEF Row, JobAssumption

LEMMA TotalIsNat ==
  ASSUME NEW count \in [Mishap -> Nat]
  PROVE  /\ Total(count) \in Nat
         /\ count["death"] \in Nat /\ count["late"] \in Nat
         /\ count["overrun"] \in Nat /\ count["database"] \in Nat
  BY DEF Total, Mishap

LEMMA SufferCounts ==
  ASSUME mishaps \in [Mishap -> Nat], NEW kind \in Mishap, Suffer(kind)
  PROVE  /\ mishaps' \in [Mishap -> Nat]
         /\ Total(mishaps') = Total(mishaps) + 1
         /\ mishaps'[kind] = mishaps[kind] + 1
         /\ \A k \in Mishap : mishaps'[k] >= mishaps[k]
<1>1. mishaps' = [mishaps EXCEPT ![kind] = mishaps[kind] + 1]
  BY DEF Suffer
<1>2. mishaps' \in [Mishap -> Nat]
  BY <1>1
<1>3. /\ mishaps["death"] \in Nat /\ mishaps["late"] \in Nat
      /\ mishaps["overrun"] \in Nat /\ mishaps["database"] \in Nat
  BY DEF Mishap
<1>4. kind = "death" \/ kind = "late" \/ kind = "overrun" \/ kind = "database"
  BY DEF Mishap
<1>5. Total(mishaps') = Total(mishaps) + 1
  BY <1>1, <1>3, <1>4 DEF Total, Mishap
<1> QED
  BY <1>1, <1>2, <1>5

(***************************************************************************)
(* Types, inductive together with Held: what a worker has leased is a row. *)
(***************************************************************************)
Held == \A p \in Process : claim[p] # None => job[claim[p].item] # None

Typed == JobTypeOK /\ Held

LEMMA HeldRow ==
  ASSUME JobAssumption, Typed, NEW p \in Process, at[p] # "idle"
  PROVE  /\ claim[p] # None /\ claim[p] \in Claim
         /\ claim[p].item \in Item /\ claim[p].attempt \in Nat
         /\ job[claim[p].item] # None /\ job[claim[p].item] \in Row
<1>1. claim[p] # None /\ claim[p] \in Claim
  BY DEF Typed, JobTypeOK
<1>2. claim[p].item \in Item /\ claim[p].attempt \in Nat
  BY <1>1 DEF Claim
<1> QED
  BY <1>1, <1>2 DEF Typed, JobTypeOK, Held

(* What a step of a worker does to its row.                                *)
LEMMA Acknowledged ==
  ASSUME JobAssumption, Typed, NEW p \in Process, Succeed(p) \/ Fail(p)
  PROVE  /\ job' \in [Item -> Row \cup {None}]
         /\ \A i \in Item : job'[i] = None <=> job[i] = None
         /\ \A i \in Item : i # claim[p].item => job'[i] = job[i]
         /\ \A i \in Item : job[i] # None => job'[i].attempts = job[i].attempts
         /\ job[claim[p].item].state # "RUNNING" => job' = job
         /\ job[claim[p].item].state = "RUNNING" =>
              \/ Succeed(p) /\ job'[claim[p].item].state = "SUCCEEDED"
              \/ Fail(p) /\ job'[claim[p].item].state = "FAILED"
              \/ /\ Fail(p) /\ job'[claim[p].item].state = "PENDING"
                 /\ job[claim[p].item].attempts < MaxAttempts
<1>1. at[p] # "idle"
  BY DEF Succeed, Fail
<1>2. PICK i \in Item : i = claim[p].item
  BY <1>1, HeldRow
<1>3. job \in [Item -> Row \cup {None}] /\ job[i] # None /\ job[i] \in Row
  BY <1>1, <1>2, HeldRow DEF Typed, JobTypeOK
<1>4. CASE job[i].state # "RUNNING"
  BY <1>2, <1>3, <1>4 DEF Succeed, Fail
<1>5. CASE job[i].state = "RUNNING" /\ Succeed(p)
  <2>1. PICK row : row = [job[i] EXCEPT !.state = "SUCCEEDED", !.waiting = FALSE]
    OBVIOUS
  <2>2. row \in Row /\ row.state = "SUCCEEDED" /\ row.attempts = job[i].attempts
    BY <1>3, <2>1 DEF Row, States
  <2>3. job' = [job EXCEPT ![i] = row]
    BY <1>2, <1>3, <1>5, <2>1 DEF Succeed
  <2> QED
    BY <1>2, <1>3, <1>5, <2>2, <2>3, RowFields
<1>6. CASE job[i].state = "RUNNING" /\ Fail(p) /\ job[i].attempts >= MaxAttempts
  <2>1. PICK row : row = [job[i] EXCEPT !.state = "FAILED", !.waiting = FALSE]
    OBVIOUS
  <2>2. row \in Row /\ row.state = "FAILED" /\ row.attempts = job[i].attempts
    BY <1>3, <2>1 DEF Row, States
  <2>3. job' = [job EXCEPT ![i] = row]
    BY <1>2, <1>3, <1>6, <2>1 DEF Fail
  <2> QED
    BY <1>2, <1>3, <1>6, <2>2, <2>3, RowFields
<1>7. CASE job[i].state = "RUNNING" /\ Fail(p) /\ ~(job[i].attempts >= MaxAttempts)
  <2>1. PICK row : row = [job[i] EXCEPT !.state = "PENDING", !.waiting = TRUE]
    OBVIOUS
  <2>2. row \in Row /\ row.state = "PENDING" /\ row.attempts = job[i].attempts
    BY <1>3, <2>1 DEF Row, States
  <2>3. job' = [job EXCEPT ![i] = row]
    BY <1>2, <1>3, <1>7, <2>1 DEF Fail
  <2>4. job[i].attempts < MaxAttempts
    BY <1>3, <1>7, RowFields DEF JobAssumption
  <2> QED
    BY <1>2, <1>3, <1>7, <2>2, <2>3, <2>4, RowFields
<1> QED
  BY <1>2, <1>4, <1>5, <1>6, <1>7

(* What the clock does: a row is no longer to be waited for.               *)
LEMMA Ripened ==
  ASSUME JobAssumption, Typed, NEW i \in Item, FallDue(i) \/ Lapse(i) \/ Overrun(i)
  PROVE  /\ job' \in [Item -> Row \cup {None}]
         /\ job[i] # None /\ job'[i] # None
         /\ job[i].state \in {"PENDING", "RUNNING"}
         /\ job'[i].state = job[i].state /\ job'[i].attempts = job[i].attempts
         /\ job[i].waiting /\ ~job'[i].waiting
         /\ \A j \in Item : j # i => job'[j] = job[j]
<1>1. job \in [Item -> Row \cup {None}]
  BY DEF Typed, JobTypeOK
<1>2. job[i] # None /\ job[i] \in Row /\ job[i].waiting /\ job[i].state \in {"PENDING", "RUNNING"}
  BY <1>1 DEF FallDue, Lapse, Overrun, Waits
<1>3. PICK row : row = [job[i] EXCEPT !.waiting = FALSE]
  OBVIOUS
<1>4. row \in Row /\ row.state = job[i].state /\ row.attempts = job[i].attempts /\ ~row.waiting
  BY <1>2, <1>3 DEF Row
<1>5. job' = [job EXCEPT ![i] = row]
  BY <1>1, <1>3 DEF FallDue, Lapse, Overrun
<1> QED
  BY <1>1, <1>2, <1>4, <1>5, RowFields

(* What leasing does.                                                      *)
LEMMA Leased ==
  ASSUME JobAssumption, Typed, NEW p \in Process, NEW i \in Item, ClaimJob(p, i)
  PROVE  /\ job' \in [Item -> Row \cup {None}]
         /\ job[i] # None /\ job[i] \in Row
         /\ job[i].state \in {"PENDING", "RUNNING"} /\ ~job[i].waiting
         /\ job'[i] # None /\ job'[i].state = "RUNNING" /\ job'[i].waiting
         /\ job'[i].attempts = job[i].attempts + 1
         /\ \A j \in Item : j # i => job'[j] = job[j]
         /\ at' = [at EXCEPT ![p] = "look"] /\ at[p] = "idle"
         /\ claim'[p] # None /\ claim'[p] \in Claim
         /\ claim'[p].item = i /\ claim'[p].attempt = job[i].attempts + 1
         /\ claim' \in [Process -> Claim \cup {None}]
         /\ \A q \in Process : q # p => claim'[q] = claim[q]
<1>1. job \in [Item -> Row \cup {None}] /\ claim \in [Process -> Claim \cup {None}]
  BY DEF Typed, JobTypeOK
<1>2. job[i] # None /\ job[i] \in Row
  BY <1>1 DEF ClaimJob
<1>3. job[i].state \in {"PENDING", "RUNNING"} /\ ~job[i].waiting
  BY <1>2 DEF ClaimJob, Runnable, Row, States, Terminal
<1>4. job[i].attempts + 1 \in Nat
  BY <1>2, RowFields
<1>5. PICK row : row = [job[i] EXCEPT !.state = "RUNNING", !.attempts = @ + 1, !.waiting = TRUE]
  OBVIOUS
<1>6. row \in Row /\ row.state = "RUNNING" /\ row.attempts = job[i].attempts + 1 /\ row.waiting
  BY <1>2, <1>4, <1>5 DEF Row, States
<1>7. job' = [job EXCEPT ![i] = row]
  BY <1>1, <1>5 DEF ClaimJob
<1>8. PICK c : c = [item |-> i, attempt |-> job[i].attempts + 1]
  OBVIOUS
<1>9. c \in Claim /\ c # None /\ c.item = i /\ c.attempt = job[i].attempts + 1
  BY <1>4, <1>8 DEF Claim, JobAssumption
<1>10. claim' = [claim EXCEPT ![p] = c]
  BY <1>8 DEF ClaimJob
<1>11. row # None
  BY <1>6, RowFields
<1>12. /\ job' \in [Item -> Row \cup {None}]
       /\ job'[i] = row
       /\ \A j \in Item : j # i => job'[j] = job[j]
  BY <1>1, <1>6, <1>7
<1>13. /\ claim' \in [Process -> Claim \cup {None}]
       /\ claim'[p] = c
       /\ \A q \in Process : q # p => claim'[q] = claim[q]
  BY <1>1, <1>9, <1>10
<1>14. at' = [at EXCEPT ![p] = "look"] /\ at[p] = "idle"
  BY DEF ClaimJob, Goto
<1> QED
  BY <1>2, <1>3, <1>6, <1>9, <1>11, <1>12, <1>13, <1>14

LEMMA TypedInit == ASSUME JobAssumption PROVE JobInit => Typed
  BY DEF JobInit, Typed, JobTypeOK, Held

LEMMA TypedStep == ASSUME JobAssumption, Typed, [JobNext]_jobVars PROVE Typed'
<1>0. /\ job \in [Item -> Row \cup {None}] /\ at \in [Process -> Labels]
      /\ claim \in [Process -> Claim \cup {None}] /\ effects \in [Item -> Nat]
      /\ mishaps \in [Mishap -> Nat] /\ Held
      /\ \A p \in Process : claim[p] = None <=> at[p] = "idle"
  BY DEF Typed, JobTypeOK, Labels
<1>1. ASSUME job' \in [Item -> Row \cup {None}], at' \in [Process -> Labels],
             claim' \in [Process -> Claim \cup {None}], effects' \in [Item -> Nat],
             mishaps' \in [Mishap -> Nat],
             \A p \in Process : claim'[p] = None <=> at'[p] = "idle",
             Held'
      PROVE  Typed'
  BY <1>1 DEF Typed, JobTypeOK, Labels
<1>2. \A p \in Process : claim[p] # None => claim[p].item \in Item
  BY <1>0 DEF Claim
<1> DEFINE Kept == job' \in [Item -> Row \cup {None}] /\ \A i \in Item : job[i] # None => job'[i] # None
           Rest == effects' \in [Item -> Nat] /\ mishaps' \in [Mishap -> Nat]
<1>3. ASSUME UNCHANGED <<at, claim>>, Kept, Rest
      PROVE  Typed'
  BY <1>0, <1>1, <1>2, <1>3 DEF Held
<1>4. ASSUME NEW p \in Process, Release(p), Kept, Rest
      PROVE  Typed'
  <2>1. at' = [at EXCEPT ![p] = "idle"] /\ claim' = [claim EXCEPT ![p] = None]
    BY <1>4 DEF Release, Goto
  <2>2. Held'
    BY <1>0, <1>2, <1>4, <2>1 DEF Held
  <2> QED
    BY <1>0, <1>1, <1>4, <2>1, <2>2 DEF Labels
<1>5. ASSUME NEW p \in Process, at[p] # "idle", NEW label \in Labels \ {"idle"}, Goto(p, label),
             UNCHANGED claim, Kept, Rest
      PROVE  Typed'
  <2>1. at' = [at EXCEPT ![p] = label]
    BY <1>5 DEF Goto
  <2>2. Held'
    BY <1>0, <1>2, <1>5 DEF Held
  <2> QED
    BY <1>0, <1>1, <1>5, <2>1, <2>2 DEF Labels
<1>6. ASSUME NEW i \in Item, Enqueue(i) \/ FallDue(i) \/ Lapse(i) \/ Overrun(i)
      PROVE  Typed'
  <2>1. CASE Enqueue(i)
    <3>1. PICK row \in Row : job' = [job EXCEPT ![i] = row]
      BY <2>1 DEF Enqueue, Row, States
    <3>2. Kept
      BY <1>0, <3>1, RowFields
    <3> QED
      BY <1>0, <1>3, <2>1, <3>2 DEF Enqueue
  <2>2. CASE FallDue(i) \/ Lapse(i) \/ Overrun(i)
    <3>1. Kept
      BY <2>2, Ripened
    <3>2. Rest
      BY <1>0, <2>2, SufferCounts DEF FallDue, Lapse, Overrun, Mishap
    <3> QED
      BY <1>3, <2>2, <3>1, <3>2 DEF FallDue, Lapse, Overrun
  <2> QED
    BY <1>6, <2>1, <2>2
<1>7. ASSUME NEW p \in Process, NEW i \in Item, ClaimJob(p, i)
      PROVE  Typed'
  <2>1. Kept
    BY <1>7, Leased
  <2>2. Rest
    BY <1>0, <1>7 DEF ClaimJob
  <2>3. \A q \in Process : claim'[q] = None <=> at'[q] = "idle"
    BY <1>0, <1>7, Leased
  <2>4. Held'
    BY <1>0, <1>2, <1>7, Leased DEF Held
  <2>5. claim' \in [Process -> Claim \cup {None}] /\ at' \in [Process -> Labels]
    BY <1>0, <1>7, Leased DEF Labels
  <2> QED
    BY <1>1, <2>1, <2>2, <2>3, <2>4, <2>5
<1>8. ASSUME NEW p \in Process, Work(p) \/ Die(p)
      PROVE  Typed'
  <2>1. CASE Look(p)
    BY <1>0, <1>5, <2>1 DEF Look, Labels
  <2>2. ASSUME NEW next \in {"acknowledge", "reject"}, Commit(p, next), mishaps' \in [Mishap -> Nat]
        PROVE  Typed'
    <3>1. claim[p].item \in Item
      BY <2>2, HeldRow DEF Commit
    <3>2. effects' \in [Item -> Nat]
      BY <1>0, <2>2, <3>1 DEF Commit
    <3> QED
      BY <1>0, <1>5, <2>2, <3>2 DEF Commit, Labels
  <2>3. CASE Execute(p)
    BY <1>0, <2>2, <2>3 DEF Execute
  <2>4. CASE ExecuteLate(p)
    <3>1. mishaps' \in [Mishap -> Nat]
      BY <1>0, <2>4, SufferCounts DEF ExecuteLate, Mishap
    <3> QED
      BY <2>2, <2>4, <3>1 DEF ExecuteLate
  <2>5. CASE Raise(p)
    BY <1>0, <1>5, <2>5 DEF Raise, Labels
  <2>6. CASE Succeed(p) \/ Fail(p)
    <3>1. Kept
      BY <2>6, Acknowledged
    <3> QED
      BY <1>0, <1>4, <2>6, <3>1 DEF Succeed, Fail
  <2>7. CASE DatabaseRaises(p)
    <3>1. mishaps' \in [Mishap -> Nat]
      BY <1>0, <2>7, SufferCounts DEF DatabaseRaises, Mishap
    <3> QED
      BY <1>0, <1>5, <2>7, <3>1 DEF DatabaseRaises, Labels
  <2>8. CASE FailRaises(p) \/ Die(p)
    <3>1. mishaps' \in [Mishap -> Nat]
      BY <1>0, <2>8, SufferCounts DEF FailRaises, Die, Mishap
    <3> QED
      BY <1>0, <1>4, <2>8, <3>1 DEF FailRaises, Die
  <2> QED
    BY <1>8, <2>1, <2>3, <2>4, <2>5, <2>6, <2>7, <2>8 DEF Work
<1>9. CASE UNCHANGED jobVars
  BY <1>0, <1>3, <1>9 DEF jobVars
<1> QED
  BY <1>6, <1>7, <1>8, <1>9 DEF JobNext

(* Every reachable state is well typed.                                    *)
THEOREM JobTypeSafe == ASSUME JobAssumption PROVE JobSpec => []JobTypeOK
<1>1. Typed => JobTypeOK
  BY DEF Typed
<1>2. JobInit => Typed
  BY TypedInit
<1>3. Typed /\ [JobNext]_jobVars => Typed'
  BY TypedStep
<1> QED
  BY <1>1, <1>2, <1>3, PTL DEF JobSpec

(***************************************************************************)
(* What a worker acknowledges has had its effect.                          *)
(***************************************************************************)
AckedIsDone == \A p \in Process : at[p] = "acknowledge" => effects[claim[p].item] > 0

LEMMA DoneStep ==
  ASSUME JobAssumption, Typed, AckedIsDone, SuccessMeansDone, [JobNext]_jobVars
  PROVE  AckedIsDone' /\ SuccessMeansDone'
<1>0. /\ job \in [Item -> Row \cup {None}] /\ at \in [Process -> Labels]
      /\ claim \in [Process -> Claim \cup {None}] /\ effects \in [Item -> Nat]
      /\ \A p \in Process : claim[p] = None <=> at[p] = "idle"
  BY DEF Typed, JobTypeOK, Labels
<1>1. \A p \in Process : at[p] # "idle" => claim[p].item \in Item
  BY HeldRow
<1> DEFINE Grown == \A i \in Item : effects[i] > 0 => effects'[i] > 0
           Kept == \A i \in Item : job'[i] # None /\ job'[i].state = "SUCCEEDED" =>
                      \/ job[i] # None /\ job[i].state = "SUCCEEDED"
                      \/ effects[i] > 0
<1>2. ASSUME Grown, Kept
      PROVE  SuccessMeansDone'
  BY <1>2 DEF SuccessMeansDone
<1>3. ASSUME Grown,
             \A p \in Process : at'[p] = "acknowledge" =>
                at[p] = "acknowledge" /\ claim'[p] = claim[p]
      PROVE  AckedIsDone'
  BY <1>1, <1>3 DEF AckedIsDone
<1>4. ASSUME NEW i \in Item, Enqueue(i) \/ FallDue(i) \/ Lapse(i) \/ Overrun(i)
      PROVE  AckedIsDone' /\ SuccessMeansDone'
  <2>1. UNCHANGED <<at, claim, effects>>
    BY <1>4 DEF Enqueue, FallDue, Lapse, Overrun
  <2>2. Kept
    <3>1. CASE Enqueue(i)
      BY <1>0, <3>1 DEF Enqueue
    <3>2. CASE FallDue(i) \/ Lapse(i) \/ Overrun(i)
      BY <3>2, Ripened
    <3> QED
      BY <1>4, <3>1, <3>2
  <2> QED
    BY <1>2, <1>3, <2>1, <2>2
<1>5. ASSUME NEW p \in Process, NEW i \in Item, ClaimJob(p, i)
      PROVE  AckedIsDone' /\ SuccessMeansDone'
  <2>1. Grown
    BY <1>5 DEF ClaimJob
  <2>2. Kept
    BY <1>5, Leased
  <2>3. \A q \in Process : at'[q] = "acknowledge" => at[q] = "acknowledge" /\ claim'[q] = claim[q]
    BY <1>0, <1>5, Leased
  <2> QED
    BY <1>2, <1>3, <2>1, <2>2, <2>3
<1>6. ASSUME NEW p \in Process, Work(p) \/ Die(p)
      PROVE  AckedIsDone' /\ SuccessMeansDone'
  <2>1. CASE Look(p)
    <3>1. UNCHANGED <<job, claim, effects>> /\ at[p] = "look"
      BY <2>1 DEF Look
    <3>2. CASE Recorded(claim[p].item)
      <4>1. at' = [at EXCEPT ![p] = "acknowledge"] /\ effects[claim[p].item] > 0
        BY <2>1, <3>2 DEF Look, Goto, Recorded
      <4>2. AckedIsDone'
        BY <1>0, <3>1, <4>1 DEF AckedIsDone
      <4> QED
        BY <1>2, <3>1, <4>2
    <3>3. CASE ~Recorded(claim[p].item)
      <4>1. at' = [at EXCEPT ![p] = "execute"]
        BY <2>1, <3>3 DEF Look, Goto
      <4> QED
        BY <1>0, <1>2, <1>3, <3>1, <4>1
    <3> QED
      BY <3>2, <3>3
  <2>2. ASSUME NEW next, Commit(p, next)
        PROVE  AckedIsDone' /\ SuccessMeansDone'
    <3>1. at[p] = "execute" /\ claim[p].item \in Item
      BY <1>1, <2>2 DEF Commit
    <3>2. /\ effects' = [effects EXCEPT ![claim[p].item] = effects[claim[p].item] + 1]
          /\ at' = [at EXCEPT ![p] = next] /\ UNCHANGED <<job, claim>>
      BY <2>2 DEF Commit, Goto
    <3>3. Grown /\ effects'[claim[p].item] > 0
      BY <1>0, <3>1, <3>2
    <3>4. AckedIsDone'
      BY <1>0, <1>1, <3>2, <3>3 DEF AckedIsDone
    <3> QED
      BY <1>2, <3>2, <3>3, <3>4
  <2>3. CASE Raise(p) \/ DatabaseRaises(p)
    <3>1. UNCHANGED <<job, claim, effects>> /\ at' = [at EXCEPT ![p] = "reject"]
      BY <2>3 DEF Raise, DatabaseRaises, Goto
    <3> QED
      BY <1>0, <1>2, <1>3, <3>1
  <2>4. CASE Succeed(p) \/ Fail(p)
    <3>1. UNCHANGED effects /\ at' = [at EXCEPT ![p] = "idle"] /\ claim' = [claim EXCEPT ![p] = None]
      BY <2>4 DEF Succeed, Fail, Release, Goto
    <3>2. at[p] # "idle" /\ (Succeed(p) => at[p] = "acknowledge")
      BY <2>4 DEF Succeed, Fail
    <3>3. Kept
      <4> SUFFICES ASSUME NEW i \in Item, job'[i] # None, job'[i].state = "SUCCEEDED",
                          ~(job[i] # None /\ job[i].state = "SUCCEEDED")
                   PROVE  effects[i] > 0
        OBVIOUS
      <4>1. i = claim[p].item /\ job[i] # None /\ job[i].state = "RUNNING" /\ Succeed(p)
        BY <2>4, Acknowledged
      <4> QED
        BY <3>2, <4>1 DEF AckedIsDone
    <3> QED
      BY <1>0, <1>2, <1>3, <3>1, <3>3
  <2>5. CASE FailRaises(p) \/ Die(p)
    <3>1. /\ UNCHANGED <<job, effects>> /\ at' = [at EXCEPT ![p] = "idle"]
          /\ claim' = [claim EXCEPT ![p] = None]
      BY <2>5 DEF FailRaises, Die, Release, Goto
    <3> QED
      BY <1>0, <1>2, <1>3, <3>1
  <2> QED
    BY <1>6, <2>1, <2>2, <2>3, <2>4, <2>5 DEF Work, Execute, ExecuteLate
<1>7. CASE UNCHANGED jobVars
  BY <1>2, <1>3, <1>7 DEF jobVars
<1> QED
  BY <1>4, <1>5, <1>6, <1>7 DEF JobNext

(* What reports success has had its effect, whoever reports it.            *)
THEOREM SuccessIsHonest == ASSUME JobAssumption PROVE JobSpec => []SuccessMeansDone
<1>1. JobInit => Typed /\ AckedIsDone /\ SuccessMeansDone
  BY TypedInit DEF JobInit, AckedIsDone, SuccessMeansDone
<1>2. Typed /\ AckedIsDone /\ SuccessMeansDone /\ [JobNext]_jobVars =>
        (Typed /\ AckedIsDone /\ SuccessMeansDone)'
  BY TypedStep, DoneStep
<1> QED
  BY <1>1, <1>2, PTL DEF JobSpec

(***************************************************************************)
(* Bounded retry.  A row is claimed past the attempts allowed only when    *)
(* its lease ran out, so RetryBounded is inductive together with what it   *)
(* takes for a lease to be lost: something that went wrong and is counted. *)
(***************************************************************************)
Lost(i) == ~job[i].waiting \/ Abandoned(i)

RetryInv ==
  \A i \in Item : job[i] # None =>
    /\ job[i].attempts <= MaxAttempts + Total(mishaps)
    /\ job[i].state = "PENDING" => job[i].attempts < MaxAttempts
    /\ job[i].state = "RUNNING" /\ Lost(i) => job[i].attempts < MaxAttempts + Total(mishaps)

LEMMA RetryStep ==
  ASSUME JobAssumption, Typed, RetryInv, [JobNext]_jobVars
  PROVE  RetryInv'
<1>0. /\ job \in [Item -> Row \cup {None}] /\ at \in [Process -> Labels]
      /\ claim \in [Process -> Claim \cup {None}] /\ mishaps \in [Mishap -> Nat]
      /\ \A p \in Process : claim[p] = None <=> at[p] = "idle"
  BY DEF Typed, JobTypeOK, Labels
<1>1. Total(mishaps) \in Nat /\ MaxAttempts \in Nat \ {0}
  BY <1>0, TotalIsNat DEF JobAssumption
<1>2. \A i \in Item : job[i] # None => job[i].attempts \in Nat
  BY <1>0, RowFields
<1>3. ASSUME UNCHANGED job, Total(mishaps') = Total(mishaps),
             \A i \in Item, p \in Process : Current(p, i) => claim'[p] = claim[p]
      PROVE  RetryInv'
  <2>1. \A i \in Item : Abandoned(i)' => Abandoned(i)
    BY <1>3 DEF Abandoned, Current
  <2> QED
    BY <1>3, <2>1 DEF RetryInv, Lost
<1>4. ASSUME UNCHANGED job, Total(mishaps') = Total(mishaps) + 1
      PROVE  RetryInv'
  BY <1>1, <1>2, <1>4 DEF RetryInv, Lost
<1>5. ASSUME NEW i \in Item, Enqueue(i)
      PROVE  RetryInv'
  <2>1. \A j \in Item : Abandoned(j)' /\ job'[j] = job[j] => Abandoned(j)
    BY <1>5 DEF Enqueue, Abandoned, Current
  <2>2. /\ job'[i].state = "PENDING" /\ job'[i].attempts = 0 /\ UNCHANGED mishaps
        /\ \A j \in Item : j # i => job'[j] = job[j]
    BY <1>0, <1>5 DEF Enqueue
  <2> QED
    BY <1>1, <2>1, <2>2 DEF RetryInv, Lost
<1>6. ASSUME NEW i \in Item, FallDue(i)
      PROVE  RetryInv'
  <2>1. /\ job'[i].state = job[i].state /\ job'[i].attempts = job[i].attempts /\ job[i] # None
        /\ \A j \in Item : j # i => job'[j] = job[j]
        /\ UNCHANGED <<claim, mishaps>> /\ job[i].state = "PENDING"
    BY <1>6, Ripened DEF FallDue, Waits
  <2>2. \A j \in Item : Abandoned(j)' => Abandoned(j)
    BY <2>1 DEF Abandoned, Current
  <2> QED
    BY <1>1, <2>1, <2>2 DEF RetryInv, Lost
<1>7. ASSUME NEW i \in Item, Lapse(i)
      PROVE  RetryInv'
  <2>1. /\ job'[i].state = job[i].state /\ job'[i].attempts = job[i].attempts /\ job[i] # None
        /\ \A j \in Item : j # i => job'[j] = job[j]
        /\ UNCHANGED <<claim, mishaps>> /\ Abandoned(i)
    BY <1>7, Ripened DEF Lapse
  <2>2. \A j \in Item : Abandoned(j)' => Abandoned(j)
    BY <2>1 DEF Abandoned, Current
  <2> QED
    BY <1>1, <2>1, <2>2 DEF RetryInv, Lost
<1>8. ASSUME NEW i \in Item, Overrun(i)
      PROVE  RetryInv'
  <2>1. /\ job'[i].state = job[i].state /\ job'[i].attempts = job[i].attempts /\ job[i] # None
        /\ \A j \in Item : j # i => job'[j] = job[j]
    BY <1>8, Ripened
  <2>2. Total(mishaps') = Total(mishaps) + 1
    BY <1>0, <1>8, SufferCounts DEF Overrun, Mishap
  <2> QED
    BY <1>1, <1>2, <2>1, <2>2 DEF RetryInv
<1>9. ASSUME NEW p \in Process, NEW i \in Item, ClaimJob(p, i)
      PROVE  RetryInv'
  <2>1. /\ job[i] # None /\ job[i].state \in {"PENDING", "RUNNING"} /\ ~job[i].waiting
        /\ job'[i].state = "RUNNING" /\ job'[i].waiting
        /\ job'[i].attempts = job[i].attempts + 1
        /\ \A j \in Item : j # i => job'[j] = job[j]
        /\ claim'[p] # None /\ claim'[p].item = i /\ claim'[p].attempt = job[i].attempts + 1
        /\ \A q \in Process : q # p => claim'[q] = claim[q]
        /\ at[p] = "idle"
    BY <1>9, Leased
  <2>0. UNCHANGED mishaps
    BY <1>9 DEF ClaimJob
  <2>2. job[i].attempts < MaxAttempts + Total(mishaps)
    BY <1>1, <1>2, <2>1 DEF RetryInv, Lost
  <2>3. ~Lost(i)'
    BY <2>1 DEF Lost, Abandoned, Current
  <2>4. \A j \in Item : j # i /\ Abandoned(j)' => Abandoned(j)
    BY <1>0, <2>1 DEF Abandoned, Current
  <2> QED
    BY <1>1, <1>2, <2>0, <2>1, <2>2, <2>3, <2>4 DEF RetryInv, Lost
<1>10. ASSUME NEW p \in Process, Work(p) \/ Die(p)
       PROVE  RetryInv'
  <2>1. CASE Look(p) \/ Execute(p) \/ Raise(p)
    BY <1>3, <2>1 DEF Look, Execute, Commit, Raise
  <2>2. CASE ExecuteLate(p) \/ DatabaseRaises(p)
    <3>1. Total(mishaps') = Total(mishaps) + 1
      BY <1>0, <2>2, SufferCounts DEF ExecuteLate, DatabaseRaises, Mishap
    <3> QED
      BY <1>4, <2>2, <3>1 DEF ExecuteLate, Commit, DatabaseRaises
  <2>3. CASE FailRaises(p) \/ Die(p)
    <3>1. Total(mishaps') = Total(mishaps) + 1
      BY <1>0, <2>3, SufferCounts DEF FailRaises, Die, Mishap
    <3> QED
      BY <1>4, <2>3, <3>1 DEF FailRaises, Die
  <2>4. CASE Succeed(p) \/ Fail(p)
    <3>1. at[p] # "idle"
      BY <2>4 DEF Succeed, Fail
    <3>2. PICK i \in Item : i = claim[p].item /\ job[i] # None
      BY <3>1, HeldRow
    <3>3. /\ \A j \in Item : job'[j] = None <=> job[j] = None
          /\ \A j \in Item : j # i => job'[j] = job[j]
          /\ \A j \in Item : job[j] # None => job'[j].attempts = job[j].attempts
          /\ job[i].state # "RUNNING" => job' = job
          /\ job[i].state = "RUNNING" =>
               \/ job'[i].state \in {"SUCCEEDED", "FAILED"}
               \/ job'[i].state = "PENDING" /\ job[i].attempts < MaxAttempts
      BY <2>4, <3>2, Acknowledged
    <3>4. UNCHANGED mishaps /\ claim' = [claim EXCEPT ![p] = None]
      BY <2>4 DEF Succeed, Fail, Release
    <3>5. \A j \in Item : j # i /\ job[j] # None /\ Abandoned(j)' => Abandoned(j)
      BY <1>0, <3>2, <3>3, <3>4 DEF Abandoned, Current
    <3>6. ASSUME NEW j \in Item, job'[j] # None
          PROVE  /\ job'[j].attempts <= MaxAttempts + Total(mishaps')
                 /\ job'[j].state = "PENDING" => job'[j].attempts < MaxAttempts
                 /\ job'[j].state = "RUNNING" /\ Lost(j)' =>
                      job'[j].attempts < MaxAttempts + Total(mishaps')
      <4>1. CASE j # i
        BY <3>3, <3>4, <3>5, <3>6, <4>1 DEF RetryInv, Lost
      <4>2. CASE j = i /\ job[i].state # "RUNNING"
        BY <3>2, <3>3, <3>4, <4>2 DEF RetryInv
      <4>3. CASE j = i /\ job[i].state = "RUNNING"
        BY <3>2, <3>3, <3>4, <4>3 DEF RetryInv
      <4> QED
        BY <4>1, <4>2, <4>3
    <3> QED
      BY <3>6 DEF RetryInv
  <2> QED
    BY <1>10, <2>1, <2>2, <2>3, <2>4 DEF Work
<1>11. CASE UNCHANGED jobVars
  BY <1>3, <1>11 DEF jobVars
<1> QED
  BY <1>5, <1>6, <1>7, <1>8, <1>9, <1>10, <1>11 DEF JobNext

(* However many workers lease, fail and lose it, an item is claimed past   *)
(* its attempts at most once for each time something went wrong.           *)
THEOREM RetryIsBounded == ASSUME JobAssumption PROVE JobSpec => []RetryBounded
<1>1. JobInit => Typed /\ RetryInv
  BY TypedInit DEF JobInit, RetryInv
<1>2. Typed /\ RetryInv /\ [JobNext]_jobVars => (Typed /\ RetryInv)'
  BY TypedStep, RetryStep
<1>3. RetryInv => RetryBounded
  BY DEF RetryInv, RetryBounded
<1> QED
  BY <1>1, <1>2, <1>3, PTL DEF JobSpec

(***************************************************************************)
(* Deaths keep done work.  As long as nothing but deaths has gone wrong a  *)
(* lease belongs to one worker, which finds what an attempt before it has  *)
(* committed; so no worker that executes or rejects is at an item whose    *)
(* effect has happened.  That takes a key the row can be found under, so   *)
(* it is proved where no command mints its own.                            *)
(***************************************************************************)
OnlyDeaths == mishaps["late"] + mishaps["database"] + mishaps["overrun"] = 0

CleanInv ==
  OnlyDeaths =>
    /\ \A p \in Process : claim[p] # None =>
         /\ job[claim[p].item].state = "RUNNING"
         /\ job[claim[p].item].waiting
         /\ job[claim[p].item].attempts = claim[p].attempt
    /\ \A p, q \in Process :
         claim[p] # None /\ claim[q] # None /\ claim[p].item = claim[q].item => p = q
    /\ \A p \in Process : at[p] \in {"execute", "reject"} => effects[claim[p].item] = 0
    /\ \A i \in Item : job[i] # None /\ effects[i] > 0 => job[i].state # "FAILED"

LEMMA NoneOfThree ==
  ASSUME NEW a \in Nat, NEW b \in Nat, NEW c \in Nat, a + b + c = 0
  PROVE  a = 0 /\ b = 0 /\ c = 0
  OBVIOUS

(* What went wrong stays counted.                                          *)
LEMMA DeathsBefore ==
  ASSUME mishaps \in [Mishap -> Nat], mishaps' \in [Mishap -> Nat],
         \A k \in Mishap : mishaps'[k] >= mishaps[k], OnlyDeaths'
  PROVE  /\ OnlyDeaths
         /\ \A k \in {"late", "database", "overrun"} : mishaps'[k] = 0
<1>1. /\ mishaps["late"] \in Nat /\ mishaps["database"] \in Nat /\ mishaps["overrun"] \in Nat
      /\ mishaps'["late"] \in Nat /\ mishaps'["database"] \in Nat /\ mishaps'["overrun"] \in Nat
      /\ mishaps'["late"] >= mishaps["late"] /\ mishaps'["database"] >= mishaps["database"]
      /\ mishaps'["overrun"] >= mishaps["overrun"]
  BY DEF Mishap
<1>2. mishaps'["late"] + mishaps'["database"] + mishaps'["overrun"] = 0
  BY DEF OnlyDeaths
<1>3. mishaps'["late"] = 0 /\ mishaps'["database"] = 0 /\ mishaps'["overrun"] = 0
  BY <1>1, <1>2, NoneOfThree
<1>4. mishaps["late"] = 0 /\ mishaps["database"] = 0 /\ mishaps["overrun"] = 0
  BY <1>1, <1>3
<1>5. OnlyDeaths
  BY <1>4 DEF OnlyDeaths
<1> QED
  BY <1>3, <1>5

LEMMA Counted ==
  ASSUME mishaps \in [Mishap -> Nat], NEW kind \in {"late", "database", "overrun"}, Suffer(kind)
  PROVE  ~OnlyDeaths'
<1>1. /\ mishaps' \in [Mishap -> Nat] /\ \A k \in Mishap : mishaps'[k] >= mishaps[k]
      /\ mishaps'[kind] = mishaps[kind] + 1 /\ mishaps[kind] \in Nat
  BY SufferCounts DEF Mishap
<1> QED
  BY <1>1, DeathsBefore

LEMMA CleanStep ==
  ASSUME JobAssumption, Minted = {}, Typed, CleanInv, [JobNext]_jobVars
  PROVE  CleanInv'
<1>0. /\ job \in [Item -> Row \cup {None}] /\ at \in [Process -> Labels]
      /\ claim \in [Process -> Claim \cup {None}] /\ effects \in [Item -> Nat]
      /\ mishaps \in [Mishap -> Nat] /\ Held
      /\ \A p \in Process : claim[p] = None <=> at[p] = "idle"
  BY DEF Typed, JobTypeOK, Labels
<1>1. \A p \in Process : at[p] # "idle" =>
        claim[p] # None /\ claim[p].item \in Item /\ job[claim[p].item] # None
  BY HeldRow
<1> SUFFICES ASSUME OnlyDeaths'
             PROVE  CleanInv'
  BY DEF CleanInv
<1>2. ASSUME OnlyDeaths
      PROVE  /\ \A p \in Process : claim[p] # None =>
                  /\ job[claim[p].item].state = "RUNNING"
                  /\ job[claim[p].item].waiting
                  /\ job[claim[p].item].attempts = claim[p].attempt
             /\ \A p, q \in Process :
                  claim[p] # None /\ claim[q] # None /\ claim[p].item = claim[q].item => p = q
             /\ \A p \in Process : at[p] \in {"execute", "reject"} => effects[claim[p].item] = 0
             /\ \A i \in Item : job[i] # None /\ effects[i] > 0 => job[i].state # "FAILED"
  BY <1>2 DEF CleanInv
<1>3. UNCHANGED mishaps => OnlyDeaths
  BY DEF OnlyDeaths
<1>4. ASSUME NEW i \in Item, Enqueue(i)
      PROVE  CleanInv'
  <2>1. /\ job[i] = None /\ job'[i].state = "PENDING" /\ \A j \in Item : j # i => job'[j] = job[j]
        /\ UNCHANGED <<at, claim, effects, mishaps>>
    BY <1>0, <1>4 DEF Enqueue
  <2>2. \A p \in Process : claim[p] # None => claim[p].item # i
    BY <1>0, <1>1, <2>1
  <2> QED
    BY <1>0, <1>1, <1>2, <1>3, <2>1, <2>2 DEF CleanInv
<1>5. ASSUME NEW i \in Item, FallDue(i) \/ Lapse(i)
      PROVE  CleanInv'
  <2>1. /\ job[i] # None /\ job'[i].state = job[i].state /\ job[i].state \in {"PENDING", "RUNNING"}
        /\ \A j \in Item : j # i => job'[j] = job[j]
    BY <1>5, Ripened
  <2>2. UNCHANGED <<at, claim, effects, mishaps>>
    BY <1>5 DEF FallDue, Lapse
  <2>3. OnlyDeaths
    BY <1>3, <2>2
  <2>4. \A p \in Process : claim[p] # None => claim[p].item # i
    <3> SUFFICES ASSUME NEW p \in Process, claim[p] # None, claim[p].item = i
                 PROVE  FALSE
      OBVIOUS
    <3>1. job[i].state = "RUNNING" /\ job[i].attempts = claim[p].attempt
      BY <1>2, <2>3
    <3> QED
      BY <1>5, <3>1 DEF FallDue, Waits, Lapse, Abandoned, Current
  <2> QED
    BY <1>0, <1>1, <1>2, <2>1, <2>2, <2>3, <2>4 DEF CleanInv
<1>6. ASSUME NEW i \in Item, Overrun(i)
      PROVE  CleanInv'
  BY <1>0, <1>6, Counted DEF Overrun
<1>7. ASSUME NEW p \in Process, NEW i \in Item, ClaimJob(p, i)
      PROVE  CleanInv'
  <2>1. /\ job[i] # None /\ ~job[i].waiting
        /\ job'[i].state = "RUNNING" /\ job'[i].waiting
        /\ job'[i].attempts = job[i].attempts + 1
        /\ \A j \in Item : j # i => job'[j] = job[j]
        /\ claim'[p] # None /\ claim'[p].item = i /\ claim'[p].attempt = job[i].attempts + 1
        /\ \A q \in Process : q # p => claim'[q] = claim[q]
        /\ at' = [at EXCEPT ![p] = "look"]
    BY <1>7, Leased
  <2>2. UNCHANGED <<effects, mishaps>>
    BY <1>7 DEF ClaimJob
  <2>3. OnlyDeaths
    BY <1>3, <2>2
  <2>4. \A q \in Process : claim[q] # None => claim[q].item # i
    BY <1>2, <2>1, <2>3
  <2>5. \A q \in Process : at'[q] \in {"execute", "reject"} => q # p /\ at[q] = at'[q]
    BY <1>0, <2>1
  <2>6. \A q \in Process : at[q] \in {"execute", "reject"} => effects[claim[q].item] = 0
    BY <1>2, <2>3
  <2> QED
    BY <1>0, <1>1, <1>2, <2>1, <2>2, <2>3, <2>4, <2>5, <2>6 DEF CleanInv
<1>8. ASSUME NEW p \in Process, Work(p) \/ Die(p)
      PROVE  CleanInv'
  <2>1. CASE Look(p)
    <3>1. UNCHANGED <<job, claim, effects, mishaps>> /\ at[p] = "look"
      BY <2>1 DEF Look
    <3>2. OnlyDeaths /\ claim[p].item \in Item
      BY <1>1, <1>3, <3>1
    <3>3. CASE Recorded(claim[p].item)
      <4>1. at' = [at EXCEPT ![p] = "acknowledge"]
        BY <2>1, <3>3 DEF Look, Goto
      <4> QED
        BY <1>0, <1>2, <3>1, <3>2, <4>1 DEF CleanInv
    <3>4. CASE ~Recorded(claim[p].item)
      <4>1. at' = [at EXCEPT ![p] = "execute"]
        BY <2>1, <3>4 DEF Look, Goto
      <4>2. effects[claim[p].item] = 0
        BY <1>0, <3>2, <3>4 DEF Recorded
      <4> QED
        BY <1>0, <1>2, <3>1, <3>2, <4>1, <4>2 DEF CleanInv
    <3> QED
      BY <3>3, <3>4
  <2>2. CASE Execute(p)
    <3>1. /\ at[p] = "execute" /\ claim[p].item \in Item /\ claim[p] # None
          /\ effects' = [effects EXCEPT ![claim[p].item] = effects[claim[p].item] + 1]
          /\ at' = [at EXCEPT ![p] = "acknowledge"] /\ UNCHANGED <<job, claim, mishaps>>
      BY <1>1, <2>2 DEF Execute, Commit, Goto
    <3>2. OnlyDeaths
      BY <1>3, <3>1
    <3>3. \A q \in Process : at'[q] \in {"execute", "reject"} =>
            q # p /\ at[q] = at'[q] /\ claim[q] # None /\ claim[q].item # claim[p].item
      BY <1>0, <1>1, <1>2, <3>1, <3>2
    <3>4. \A q \in Process : at'[q] \in {"execute", "reject"} => effects'[claim[q].item] = 0
      BY <1>0, <1>1, <1>2, <3>1, <3>2, <3>3
    <3>5. \A i \in Item : job[i] # None /\ effects'[i] > 0 => job[i].state # "FAILED"
      BY <1>0, <1>2, <3>1, <3>2
    <3> QED
      BY <1>2, <3>1, <3>2, <3>4, <3>5 DEF CleanInv
  <2>3. CASE ExecuteLate(p) \/ DatabaseRaises(p) \/ FailRaises(p)
    BY <1>0, <2>3, Counted DEF ExecuteLate, DatabaseRaises, FailRaises
  <2>4. CASE Raise(p)
    <3>1. /\ at[p] = "execute" /\ at' = [at EXCEPT ![p] = "reject"]
          /\ UNCHANGED <<job, claim, effects, mishaps>>
      BY <2>4 DEF Raise, Goto
    <3>2. OnlyDeaths
      BY <1>3, <3>1
    <3>3. \A q \in Process : at'[q] \in {"execute", "reject"} => effects[claim[q].item] = 0
      BY <1>0, <1>2, <3>1, <3>2
    <3> QED
      BY <1>2, <3>1, <3>2, <3>3 DEF CleanInv
  <2>5. CASE Succeed(p) \/ Fail(p)
    <3>1. /\ at[p] # "idle" /\ (Fail(p) => at[p] = "reject")
          /\ at' = [at EXCEPT ![p] = "idle"] /\ claim' = [claim EXCEPT ![p] = None]
          /\ UNCHANGED <<effects, mishaps>>
      BY <2>5 DEF Succeed, Fail, Release, Goto
    <3>2. OnlyDeaths
      BY <1>3, <3>1
    <3>3. PICK i \in Item : i = claim[p].item /\ claim[p] # None /\ job[i] # None
      BY <1>1, <3>1
    <3>4. /\ \A j \in Item : job'[j] = None <=> job[j] = None
          /\ \A j \in Item : j # i => job'[j] = job[j]
          /\ job'[i].state = "FAILED" => Fail(p)
      BY <1>2, <2>5, <3>2, <3>3, Acknowledged
    <3>5. \A q \in Process : claim'[q] # None =>
            q # p /\ claim'[q] = claim[q] /\ claim[q].item \in Item /\ claim[q].item # i
      BY <1>0, <1>1, <1>2, <3>1, <3>2, <3>3
    <3>6. job'[i].state = "FAILED" => effects[i] = 0
      BY <1>2, <3>1, <3>2, <3>3, <3>4
    <3>7. \A q \in Process : at'[q] \in {"execute", "reject"} => q # p /\ at[q] = at'[q] /\ claim'[q] # None
      BY <1>0, <3>1
    <3>8. /\ \A q \in Process : claim'[q] # None =>
               /\ job'[claim'[q].item].state = "RUNNING"
               /\ job'[claim'[q].item].waiting
               /\ job'[claim'[q].item].attempts = claim'[q].attempt
          /\ \A q, r \in Process :
               claim'[q] # None /\ claim'[r] # None /\ claim'[q].item = claim'[r].item => q = r
      BY <1>2, <3>2, <3>4, <3>5
    <3>9. \A q \in Process : at'[q] \in {"execute", "reject"} => effects[claim'[q].item] = 0
      BY <1>2, <3>2, <3>5, <3>7
    <3>10. \A j \in Item : job'[j] # None /\ effects[j] > 0 => job'[j].state # "FAILED"
      BY <1>0, <1>2, <3>2, <3>4, <3>6
    <3> QED
      BY <3>1, <3>8, <3>9, <3>10 DEF CleanInv
  <2>6. CASE Die(p)
    <3>1. /\ at' = [at EXCEPT ![p] = "idle"] /\ claim' = [claim EXCEPT ![p] = None]
          /\ UNCHANGED <<job, effects>>
          /\ mishaps' \in [Mishap -> Nat] /\ \A k \in Mishap : mishaps'[k] >= mishaps[k]
      BY <1>0, <2>6, SufferCounts DEF Die, Release, Goto, Mishap
    <3>2. OnlyDeaths
      BY <1>0, <3>1, DeathsBefore
    <3>3. \A q \in Process : claim'[q] # None => q # p /\ claim'[q] = claim[q]
      BY <1>0, <3>1
    <3>4. \A q \in Process : at'[q] \in {"execute", "reject"} => q # p /\ at[q] = at'[q] /\ claim'[q] = claim[q]
      BY <1>0, <3>1
    <3> QED
      BY <1>2, <3>1, <3>2, <3>3, <3>4 DEF CleanInv
  <2> QED
    BY <1>8, <2>1, <2>2, <2>3, <2>4, <2>5, <2>6 DEF Work
<1>9. CASE UNCHANGED jobVars
  BY <1>2, <1>3, <1>9 DEF jobVars, CleanInv
<1> QED
  BY <1>4, <1>5, <1>6, <1>7, <1>8, <1>9 DEF JobNext

(* As long as processes die and nothing else goes wrong, no item whose     *)
(* effect happened is reported failed, also past its last attempt.         *)
THEOREM DeathsKeepDone == ASSUME JobAssumption, Minted = {} PROVE JobSpec => []CrashKeepsDone
<1>1. JobInit => Typed /\ CleanInv
  BY TypedInit DEF JobInit, CleanInv
<1>2. Typed /\ CleanInv /\ [JobNext]_jobVars => (Typed /\ CleanInv)'
  BY TypedStep, CleanStep
<1>3. CleanInv => CrashKeepsDone
  BY DEF CleanInv, CrashKeepsDone, OnlyDeaths
<1> QED
  BY <1>1, <1>2, <1>3, PTL DEF JobSpec
=============================================================================
