---------------------------- MODULE OutboxProofs ----------------------------
(***************************************************************************)
(* What is proved of the outbox, for any events, relays, sinks, batch size *)
(* and mishaps: the types, that success means every sink took the event,   *)
(* that no attempt goes to a sink whose acceptance was recorded before it, *)
(* that retries are bounded, and that every repeated delivery is accounted *)
(* for by a mishap.                                                        *)
(***************************************************************************)
EXTENDS Outbox, FiniteSetTheorems, WellFoundedInduction, TLAPS

Steps == {"idle", "publish", "record", "reject"}
Hops == 0..(Len(Chain) + 1)

(* Rows, claims and the chain.                                             *)

LEMMA RowFields ==
  ASSUME OutboxAssumption, NEW row \in Row
  PROVE  /\ row # None
         /\ row.state \in States
         /\ row.attempts \in Nat
         /\ row.waiting \in BOOLEAN
         /\ row.delivered \in [Sink -> Nat]
  BY DEF Row, OutboxAssumption

LEMMA ClaimFields ==
  ASSUME NEW c \in Claim
  PROVE  c.event \in Event /\ c.attempt \in Nat /\ c.skip \in SUBSET Sink
  BY DEF Claim

LEMMA ChainIs ==
  ASSUME OutboxAssumption
  PROVE  /\ Len(Chain) \in Nat /\ Len(Chain) > 0
         /\ DOMAIN Chain = 1..Len(Chain)
         /\ \A n \in 1..Len(Chain) : Chain[n] \in Sink
         /\ \A s \in Sink : \E n \in 1..Len(Chain) : s = Chain[n]
<1>1. Chain \in Seq(Sink) /\ Chain # <<>>
  BY DEF OutboxAssumption
<1>2. Len(Chain) \in Nat /\ Len(Chain) > 0 /\ DOMAIN Chain = 1..Len(Chain)
  BY <1>1
<1> QED
  BY <1>2 DEF Sink

(* A set of naturals that is not empty has a least member.                 *)
LEMMA LeastOf ==
  ASSUME NEW S \in SUBSET Nat, S # {}
  PROVE  \E m \in S : \A k \in S : m <= k
<1>1. PICK R : R = OpToRel(<, Nat)
  BY Zenon
<1>2. IsWellFoundedOn(R, Nat)
  BY Zenon, <1>1, NatLessThanWellFounded
<1>3. \A a, b \in Nat : <<a, b>> \in R <=> a < b
  BY <1>1 DEF OpToRel
<1>4. PICK m \in S : \A k \in S : <<k, m>> \notin R
  BY <1>2, WFMin
<1>5. ASSUME NEW k \in S
      PROVE  m <= k
  <2>1. m \in Nat /\ k \in Nat
    OBVIOUS
  <2>2. ~(k < m)
    BY <1>3, <1>4, <2>1
  <2> QED
    BY <2>1, <2>2
<1> QED
  BY <1>5

(* The next hop is the first sink the claim does not skip.                 *)
LEMMA NextHopIs ==
  ASSUME OutboxAssumption, NEW c, NEW n \in 1..(Len(Chain) + 1)
  PROVE  /\ NextHop(c, n) \in n..(Len(Chain) + 1)
         /\ \A m \in n..Len(Chain) : m < NextHop(c, n) => Chain[m] \in c.skip
         /\ NextHop(c, n) <= Len(Chain) => Chain[NextHop(c, n)] \notin c.skip
<1> DEFINE left == {m \in n..Len(Chain) : Chain[m] \notin c.skip}
<1>1. Len(Chain) \in Nat
  BY ChainIs
<1>2. CASE left = {}
  <2>1. NextHop(c, n) = Len(Chain) + 1
    BY <1>2 DEF NextHop
  <2> QED
    BY <1>1, <1>2, <2>1
<1>3. CASE left # {}
  <2>1. NextHop(c, n) = CHOOSE m \in left : \A k \in left : m <= k
    BY <1>3 DEF NextHop
  <2>2. \E m \in left : \A k \in left : m <= k
    <3>1. left \in SUBSET Nat
      BY <1>1
    <3> HIDE DEF left
    <3> QED
      BY <1>3, <3>1, LeastOf
  <2>3. NextHop(c, n) \in left /\ \A k \in left : NextHop(c, n) <= k
    <3> HIDE DEF left
    <3> QED
      BY <2>1, <2>2
  <2> QED
    BY <1>1, <2>3
<1> QED
  BY <1>2, <1>3

(***************************************************************************)
(* Types, inductive together with Held: whatever a relay has still to      *)
(* publish is a row, and it knows which sink it is at.                     *)
(***************************************************************************)
Held ==
  /\ \A r \in Relay : \A n \in DOMAIN batch[r] : staged[batch[r][n].event] # None
  /\ \A r \in Relay : batch[r] # <<>> => hop[r] \in 1..(Len(Chain) + 1)
  /\ \A r \in Relay : step[r] = "record" => hop[r] <= Len(Chain)

Typed == OutboxTypeOK /\ Held

(* The claim at hand.                                                      *)
LEMMA AtHand ==
  ASSUME OutboxAssumption, Typed, NEW r \in Relay, step[r] # "idle"
  PROVE  /\ batch[r] \in Seq(Claim) /\ batch[r] # <<>>
         /\ batch[r][1] \in Claim /\ batch[r][1].event \in Event
         /\ batch[r][1].attempt \in Nat
         /\ 1 \in DOMAIN batch[r]
         /\ staged[batch[r][1].event] # None /\ staged[batch[r][1].event] \in Row
         /\ hop[r] \in 1..(Len(Chain) + 1)
<1>1. batch[r] \in Seq(Claim) /\ batch[r] # <<>>
  BY DEF Typed, OutboxTypeOK
<1>2. 1 \in DOMAIN batch[r] /\ batch[r][1] \in Claim
  BY <1>1
<1>3. batch[r][1].event \in Event /\ batch[r][1].attempt \in Nat
  BY <1>2, ClaimFields
<1>4. staged[batch[r][1].event] # None
  BY <1>2 DEF Typed, Held
<1> QED
  BY <1>1, <1>2, <1>3, <1>4 DEF Typed, OutboxTypeOK, Held

(* Turning to other claims.                                                *)
LEMMA Turned ==
  ASSUME OutboxAssumption, Typed, NEW r \in Relay, NEW b \in Seq(Claim), Turn(r, b)
  PROVE  /\ batch' \in [Relay -> Seq(Claim)] /\ batch'[r] = b
         /\ step' \in [Relay -> Steps] /\ step'[r] = IF b = <<>> THEN "idle" ELSE "publish"
         /\ hop' \in [Relay -> Hops]
         /\ b # <<>> => hop'[r] \in 1..(Len(Chain) + 1) /\ hop'[r] = NextHop(b[1], 1)
         /\ \A q \in Relay : q # r => batch'[q] = batch[q] /\ step'[q] = step[q] /\ hop'[q] = hop[q]
<1>1. Len(Chain) \in Nat
  BY ChainIs
<1>2. b # <<>> => NextHop(b[1], 1) \in 1..(Len(Chain) + 1)
  BY <1>1, NextHopIs
<1>3. /\ batch \in [Relay -> Seq(Claim)] /\ step \in [Relay -> Steps] /\ hop \in [Relay -> Hops]
  BY DEF Typed, OutboxTypeOK, Steps, Hops
<1>4. PICK h \in Hops : /\ h = IF b = <<>> THEN 0 ELSE NextHop(b[1], 1)
                        /\ b # <<>> => h \in 1..(Len(Chain) + 1)
  BY <1>1, <1>2 DEF Hops
<1>5. hop' = [hop EXCEPT ![r] = h]
  BY <1>4 DEF Turn
<1>6. batch' = [batch EXCEPT ![r] = b] /\ step' = [step EXCEPT ![r] = IF b = <<>> THEN "idle" ELSE "publish"]
  BY DEF Turn
<1> QED
  BY <1>3, <1>4, <1>5, <1>6 DEF Steps

(* What the store does to one row when a relay is through with it.         *)
LEMMA Settled ==
  ASSUME OutboxAssumption, Typed, NEW r \in Relay, Succeed(r) \/ Fail(r)
  PROVE  /\ staged' \in [Event -> Row \cup {None}]
         /\ \A e \in Event : staged'[e] = None <=> staged[e] = None
         /\ \A e \in Event : e # batch[r][1].event => staged'[e] = staged[e]
         /\ \A e \in Event : staged[e] # None =>
              /\ staged'[e].attempts = staged[e].attempts
              /\ staged'[e].delivered = staged[e].delivered
         /\ staged[batch[r][1].event].state # "RUNNING" => staged' = staged
         /\ staged[batch[r][1].event].state = "RUNNING" =>
              \/ Succeed(r) /\ staged'[batch[r][1].event].state = "SUCCEEDED"
              \/ Fail(r) /\ staged'[batch[r][1].event].state = "FAILED"
              \/ /\ Fail(r) /\ staged'[batch[r][1].event].state = "PENDING"
                 /\ staged[batch[r][1].event].attempts < MaxAttempts
<1>1. step[r] # "idle"
  BY Zenon DEF Succeed, Fail, AllTaken
<1>2. PICK e \in Event : e = batch[r][1].event
  BY <1>1, AtHand
<1>3. staged \in [Event -> Row \cup {None}] /\ staged[e] # None /\ staged[e] \in Row
  BY <1>1, <1>2, AtHand DEF Typed, OutboxTypeOK
<1>4. CASE staged[e].state # "RUNNING"
  BY <1>2, <1>3, <1>4 DEF Succeed, Fail
<1>5. CASE staged[e].state = "RUNNING" /\ Succeed(r)
  <2>1. PICK row : row = [staged[e] EXCEPT !.state = "SUCCEEDED", !.waiting = FALSE]
    OBVIOUS
  <2>2. /\ row \in Row /\ row.state = "SUCCEEDED"
        /\ row.attempts = staged[e].attempts /\ row.delivered = staged[e].delivered
    BY <1>3, <2>1 DEF Row, States
  <2>3. staged' = [staged EXCEPT ![e] = row]
    BY <1>2, <1>3, <1>5, <2>1 DEF Succeed
  <2> QED
    BY <1>2, <1>3, <1>5, <2>2, <2>3, RowFields
<1>6. CASE staged[e].state = "RUNNING" /\ Fail(r) /\ staged[e].attempts >= MaxAttempts
  <2>1. PICK row : row = [staged[e] EXCEPT !.state = "FAILED", !.waiting = FALSE]
    OBVIOUS
  <2>2. /\ row \in Row /\ row.state = "FAILED"
        /\ row.attempts = staged[e].attempts /\ row.delivered = staged[e].delivered
    BY Zenon, <1>3, <2>1 DEF Row, States
  <2>3. staged' = [staged EXCEPT ![e] = row]
    BY Zenon, <1>2, <1>3, <1>6, <2>1 DEF Fail
  <2> QED
    BY <1>2, <1>3, <1>6, <2>2, <2>3, RowFields
<1>7. CASE staged[e].state = "RUNNING" /\ Fail(r) /\ ~(staged[e].attempts >= MaxAttempts)
  <2>1. PICK row : row = [staged[e] EXCEPT !.state = "PENDING", !.waiting = TRUE]
    OBVIOUS
  <2>2. /\ row \in Row /\ row.state = "PENDING"
        /\ row.attempts = staged[e].attempts /\ row.delivered = staged[e].delivered
    BY Zenon, <1>3, <2>1 DEF Row, States
  <2>3. staged' = [staged EXCEPT ![e] = row]
    BY Zenon, <1>2, <1>3, <1>7, <2>1 DEF Fail
  <2>4. staged[e].attempts < MaxAttempts
    BY <1>3, <1>7, RowFields DEF OutboxAssumption
  <2> QED
    BY <1>2, <1>3, <1>7, <2>2, <2>3, <2>4, RowFields
<1> QED
  BY <1>2, <1>4, <1>5, <1>6, <1>7

(* What the clock does: a row is no longer to be waited for.               *)
LEMMA Ripened ==
  ASSUME OutboxAssumption, Typed, NEW e \in Event, FallDue(e) \/ Lapse(e) \/ Overrun(e)
  PROVE  /\ staged' \in [Event -> Row \cup {None}]
         /\ staged[e] # None /\ staged'[e] # None
         /\ staged'[e].state = staged[e].state /\ staged'[e].attempts = staged[e].attempts
         /\ staged'[e].delivered = staged[e].delivered
         /\ \A d \in Event : d # e => staged'[d] = staged[d]
<1>1. staged \in [Event -> Row \cup {None}]
  BY DEF Typed, OutboxTypeOK
<1>2. staged[e] # None /\ staged[e] \in Row
  BY <1>1 DEF FallDue, Lapse, Overrun, Waits
<1>3. PICK row : row = [staged[e] EXCEPT !.waiting = FALSE]
  OBVIOUS
<1>4. /\ row \in Row /\ row.state = staged[e].state
      /\ row.attempts = staged[e].attempts /\ row.delivered = staged[e].delivered
  BY <1>2, <1>3 DEF Row
<1>5. staged' = [staged EXCEPT ![e] = row]
  BY <1>1, <1>3 DEF FallDue, Lapse, Overrun
<1> QED
  BY <1>1, <1>2, <1>4, <1>5, RowFields

(* What recording an acceptance does.                                      *)
LEMMA Remembered ==
  ASSUME OutboxAssumption, Typed, NEW r \in Relay, Record(r)
  PROVE  LET e == batch[r][1].event  s == Chain[hop[r]] IN
         /\ staged' \in [Event -> Row \cup {None}]
         /\ e \in Event /\ s \in Sink /\ hop[r] \in 1..Len(Chain)
         /\ staged[e] # None /\ staged'[e] # None
         /\ staged'[e].state = staged[e].state /\ staged'[e].attempts = staged[e].attempts
         /\ staged'[e].waiting = staged[e].waiting
         /\ staged'[e].delivered[s] =
              IF staged[e].delivered[s] > 0 THEN staged[e].delivered[s] ELSE staged[e].attempts
         /\ \A t \in Sink : t # s => staged'[e].delivered[t] = staged[e].delivered[t]
         /\ \A d \in Event : d # e => staged'[d] = staged[d]
<1>1. step[r] # "idle" /\ step[r] = "record"
  BY DEF Record
<1>2. PICK e \in Event : e = batch[r][1].event
  BY <1>1, AtHand
<1>3. staged \in [Event -> Row \cup {None}] /\ staged[e] # None /\ staged[e] \in Row
  BY <1>1, <1>2, AtHand DEF Typed, OutboxTypeOK
<1>4. hop[r] \in 1..Len(Chain)
  BY <1>1, AtHand, ChainIs DEF Typed, Held
<1>5. PICK s \in Sink : s = Chain[hop[r]]
  BY <1>4, ChainIs
<1>6. staged[e].delivered \in [Sink -> Nat] /\ staged[e].attempts \in Nat
  BY <1>3, RowFields
<1>7. CASE staged[e].delivered[s] > 0
  <2>1. staged' = staged
    BY <1>2, <1>5, <1>7 DEF Record
  <2> QED
    BY <1>2, <1>3, <1>4, <1>5, <1>7, <2>1
<1>8. CASE ~(staged[e].delivered[s] > 0)
  <2>1. PICK d : d = [staged[e].delivered EXCEPT ![s] = staged[e].attempts]
    OBVIOUS
  <2>2. /\ d \in [Sink -> Nat] /\ d[s] = staged[e].attempts
        /\ \A t \in Sink : t # s => d[t] = staged[e].delivered[t]
    BY <1>6, <2>1
  <2>3. PICK row : row = [staged[e] EXCEPT !.delivered = d]
    OBVIOUS
  <2>4. /\ row \in Row /\ row.state = staged[e].state /\ row.attempts = staged[e].attempts
        /\ row.waiting = staged[e].waiting /\ row.delivered = d
    BY <1>3, <2>2, <2>3 DEF Row
  <2>5. staged' = [staged EXCEPT ![e] = row]
    BY Zenon, <1>2, <1>3, <1>5, <1>8, <2>1, <2>3 DEF Record
  <2> QED
    BY <1>2, <1>3, <1>4, <1>5, <1>8, <2>2, <2>4, <2>5, RowFields
<1> QED
  BY <1>7, <1>8

(* What leasing a batch does.                                              *)
Lease(r, b) ==
  /\ b # <<>> /\ step[r] = "idle" /\ Turn(r, b)
  /\ staged' \in [Event -> Row \cup {None}]
  /\ \A n \in DOMAIN b :
       /\ b[n].event \in Event /\ staged[b[n].event] # None /\ staged[b[n].event] \in Row
       /\ staged[b[n].event].state \in {"PENDING", "RUNNING"} /\ ~staged[b[n].event].waiting
       /\ staged'[b[n].event] # None
       /\ staged'[b[n].event].state = "RUNNING" /\ staged'[b[n].event].waiting
       /\ staged'[b[n].event].attempts = staged[b[n].event].attempts + 1
       /\ staged'[b[n].event].delivered = staged[b[n].event].delivered
       /\ b[n].attempt = staged[b[n].event].attempts + 1
       /\ b[n].skip = Recorded(staged[b[n].event])
  /\ \A e \in Event : (\A n \in DOMAIN b : b[n].event # e) => staged'[e] = staged[e]
  /\ \A m, n \in DOMAIN b : b[m].event = b[n].event => m = n

LEMMA Leased ==
  ASSUME OutboxAssumption, Typed, NEW r \in Relay, ClaimBatch(r)
  PROVE  \E b \in Seq(Claim) : Lease(r, b)
<1>1. staged \in [Event -> Row \cup {None}] /\ Batch \in Nat \ {0}
  BY DEF Typed, OutboxTypeOK, OutboxAssumption
<1> DEFINE runnable == {e \in Event : Runnable(e)}
           size == IF Cardinality(runnable) < Batch THEN Cardinality(runnable) ELSE Batch
<1>2. PICK order \in [1..Batch -> Event] :
        LET taken == {order[n] : n \in 1..size} IN
        /\ size > 0
        /\ taken \subseteq runnable /\ Cardinality(taken) = size
        /\ staged' = [e \in Event |->
             IF e \in taken
             THEN [staged[e] EXCEPT !.state = "RUNNING", !.attempts = @ + 1, !.waiting = TRUE]
             ELSE staged[e]]
        /\ Turn(r, [n \in 1..size |->
             [event |-> order[n], attempt |-> staged[order[n]].attempts + 1,
              skip |-> Recorded(staged[order[n]])]])
  BY Zenon DEF ClaimBatch
<1>3. Cardinality(runnable) \in Nat
  <2>1. IsFiniteSet(Event)
    BY DEF OutboxAssumption
  <2> QED
    BY <2>1, FS_Subset, FS_CardinalityType
<1>4. size \in 1..Batch
  <2>1. size > 0
    BY Zenon, <1>2
  <2> HIDE DEF runnable
  <2> QED
    BY <1>1, <1>3, <2>1
<1>5. \A n \in 1..size : order[n] \in Event /\ Runnable(order[n])
  BY Zenon, <1>1, <1>2, <1>4
<1> HIDE DEF size
<1>6. ASSUME NEW e \in Event, Runnable(e)
      PROVE  /\ staged[e] # None /\ staged[e] \in Row
             /\ staged[e].state \in {"PENDING", "RUNNING"} /\ ~staged[e].waiting
             /\ staged[e].attempts + 1 \in Nat
  <2>1. staged[e] # None /\ staged[e] \in Row /\ staged[e].state \notin Terminal /\ ~staged[e].waiting
    BY <1>1, <1>6 DEF Runnable
  <2> QED
    BY <2>1, RowFields DEF States, Terminal
<1>8. \A e \in Event :
        staged'[e] = IF e \in {order[n] : n \in 1..size}
                     THEN [staged[e] EXCEPT !.state = "RUNNING", !.attempts = @ + 1, !.waiting = TRUE]
                     ELSE staged[e]
  BY Zenon, <1>2
<1>9. ASSUME NEW n \in 1..size
      PROVE  /\ staged[order[n]] # None /\ staged[order[n]] \in Row
             /\ staged[order[n]].state \in {"PENDING", "RUNNING"} /\ ~staged[order[n]].waiting
             /\ staged'[order[n]] # None /\ staged'[order[n]] \in Row
             /\ staged'[order[n]].state = "RUNNING" /\ staged'[order[n]].waiting
             /\ staged'[order[n]].attempts = staged[order[n]].attempts + 1
             /\ staged'[order[n]].delivered = staged[order[n]].delivered
  <2>1. order[n] \in Event /\ Runnable(order[n]) /\ order[n] \in {order[m] : m \in 1..size}
    BY <1>5
  <2>2. PICK e \in Event : e = order[n]
    BY <2>1
  <2>3. PICK row : row = [staged[e] EXCEPT !.state = "RUNNING", !.attempts = @ + 1, !.waiting = TRUE]
    OBVIOUS
  <2>4. staged'[e] = row
    BY Zenon, <1>8, <2>1, <2>2, <2>3
  <2>5. /\ staged[e] # None /\ staged[e] \in Row /\ staged[e].attempts + 1 \in Nat
        /\ staged[e].state \in {"PENDING", "RUNNING"} /\ ~staged[e].waiting
    BY <1>6, <2>1, <2>2
  <2>6. /\ row \in Row /\ row # None
        /\ row.state = "RUNNING" /\ row.waiting
        /\ row.attempts = staged[e].attempts + 1 /\ row.delivered = staged[e].delivered
    <3>1. /\ row \in Row /\ row.state = "RUNNING" /\ row.waiting
          /\ row.attempts = staged[e].attempts + 1 /\ row.delivered = staged[e].delivered
      BY <2>3, <2>5 DEF Row, States
    <3> QED
      BY <3>1, RowFields
  <2>7. /\ staged'[e] # None /\ staged'[e] \in Row
        /\ staged'[e].state = "RUNNING" /\ staged'[e].waiting
        /\ staged'[e].attempts = staged[e].attempts + 1 /\ staged'[e].delivered = staged[e].delivered
    BY <2>4, <2>6
  <2> QED
    BY <2>2, <2>5, <2>7
<1>10. \A e \in Event : (\A n \in 1..size : order[n] # e) => staged'[e] = staged[e]
  BY Zenon, <1>8
<1>11. staged' \in [Event -> Row \cup {None}]
  <2>1. staged' = [e \in Event |-> staged'[e]]
    BY Zenon, <1>2
  <2>2. \A e \in Event : staged'[e] \in Row \cup {None}
    BY <1>1, <1>9, <1>10
  <2> QED
    BY <2>1, <2>2
<1>12. PICK b : b = [n \in 1..size |->
                      [event |-> order[n], attempt |-> staged[order[n]].attempts + 1,
                       skip |-> Recorded(staged[order[n]])]]
  OBVIOUS
<1>13. \A n \in 1..size : b[n] \in Claim
  <2> SUFFICES ASSUME NEW n \in 1..size
               PROVE  b[n] \in Claim
    OBVIOUS
  <2>1. order[n] \in Event /\ staged[order[n]].attempts + 1 \in Nat
    BY <1>5, <1>6
  <2>2. Recorded(staged[order[n]]) \in SUBSET Sink
    BY DEF Recorded
  <2> QED
    BY <1>12, <2>1, <2>2 DEF Claim
<1>14. b \in Seq(Claim) /\ DOMAIN b = 1..size /\ b # <<>>
  <2>1. size \in Nat /\ size >= 1 /\ b = [n \in 1..size |-> b[n]]
    BY <1>1, <1>4, <1>12
  <2>2. b \in Seq(Claim) /\ DOMAIN b = 1..size /\ Len(b) = size
    BY <1>13, <2>1
  <2> QED
    BY <2>1, <2>2
<1>15. \A n \in 1..size :
         /\ b[n].event = order[n]
         /\ b[n].attempt = staged[order[n]].attempts + 1
         /\ b[n].skip = Recorded(staged[order[n]])
  BY <1>12
<1>16. step[r] = "idle" /\ Turn(r, b)
  BY Zenon, <1>2, <1>12 DEF ClaimBatch
<1>17. \A n \in DOMAIN b : order[n] \in Event
  BY <1>5, <1>14
<1>18. \A e \in Event : (\A n \in DOMAIN b : b[n].event # e) => staged'[e] = staged[e]
  BY <1>10, <1>14, <1>15
<1>19. \A n \in DOMAIN b :
         /\ b[n].event \in Event /\ staged[b[n].event] # None /\ staged[b[n].event] \in Row
         /\ staged[b[n].event].state \in {"PENDING", "RUNNING"} /\ ~staged[b[n].event].waiting
         /\ staged'[b[n].event] # None
         /\ staged'[b[n].event].state = "RUNNING" /\ staged'[b[n].event].waiting
         /\ staged'[b[n].event].attempts = staged[b[n].event].attempts + 1
         /\ staged'[b[n].event].delivered = staged[b[n].event].delivered
         /\ b[n].attempt = staged[b[n].event].attempts + 1
         /\ b[n].skip = Recorded(staged[b[n].event])
  BY <1>9, <1>14, <1>15, <1>17
<1>20. \A m, n \in 1..size : order[m] = order[n] => m = n
  <2> DEFINE taken == {order[n] : n \in 1..size}
             f == [n \in 1..size |-> order[n]]
  <2>1. IsFiniteSet(1..size) /\ Cardinality(1..size) = size
    BY <1>1, <1>4, FS_Interval
  <2>2. f \in Surjection(1..size, taken)
    BY DEF Surjection
  <2>3. Cardinality(taken) = size
    BY Zenon, <1>2
  <2>4. f \in Injection(1..size, taken)
    <3> HIDE DEF f, taken
    <3> QED
      BY <2>1, <2>2, <2>3, FS_Surjection
  <2> QED
    BY <2>4 DEF Injection, IsInjective
<1>21. \A m, n \in DOMAIN b : b[m].event = b[n].event => m = n
  BY <1>14, <1>15, <1>20
<1> QED
  BY <1>11, <1>14, <1>16, <1>18, <1>19, <1>21 DEF Lease

(* What is left of a batch is made of claims of the batch.                 *)
LEMMA RestOf ==
  ASSUME NEW S, NEW b \in Seq(S), b # <<>>
  PROVE  /\ Tail(b) \in Seq(S)
         /\ \A n \in DOMAIN Tail(b) : n + 1 \in DOMAIN b /\ Tail(b)[n] = b[n + 1]
         /\ Tail(b) # <<>> => 1 \in DOMAIN Tail(b)
  OBVIOUS

LEMMA TypedInit ==
  ASSUME OutboxAssumption, OutboxInit
  PROVE  Typed
<1>1. Len(Chain) \in Nat
  BY ChainIs
<1> QED
  BY <1>1 DEF OutboxInit, Typed, Held, OutboxTypeOK

(* The types of a step that leaves the claims of every relay as they are.  *)
LEMMA TypedSteady ==
  ASSUME OutboxAssumption, Typed,
         staged' \in [Event -> Row \cup {None}],
         \A e \in Event : staged[e] # None => staged'[e] # None,
         UNCHANGED <<step, batch, hop, sent>>, mishaps' \in Nat
  PROVE  Typed'
<1>1. OutboxTypeOK'
  BY DEF Typed, OutboxTypeOK
<1>2. \A r \in Relay : \A n \in DOMAIN batch'[r] : staged'[batch'[r][n].event] # None
  <2> SUFFICES ASSUME NEW r \in Relay, NEW n \in DOMAIN batch[r]
               PROVE  staged'[batch[r][n].event] # None
    OBVIOUS
  <2>1. batch[r][n] \in Claim
    BY DEF Typed, OutboxTypeOK
  <2> QED
    BY <2>1, ClaimFields DEF Typed, Held
<1> QED
  BY <1>1, <1>2 DEF Typed, Held

(* The types of a step with which one relay turns to other claims.         *)
LEMMA TypedTurn ==
  ASSUME OutboxAssumption, Typed, NEW r \in Relay, NEW b \in Seq(Claim), Turn(r, b),
         staged' \in [Event -> Row \cup {None}],
         \A e \in Event : staged[e] # None => staged'[e] # None,
         \A n \in DOMAIN b : staged'[b[n].event] # None,
         UNCHANGED sent, mishaps' \in Nat
  PROVE  Typed'
<1>1. OutboxTypeOK'
  <2>1. ASSUME NEW q \in Relay
        PROVE  (step'[q] = "idle") <=> (batch'[q] = <<>>)
    <3>1. CASE q = r
      BY <3>1, Turned
    <3>2. CASE q # r
      BY <3>2, Turned DEF Typed, OutboxTypeOK
    <3> QED
      BY <3>1, <3>2
  <2> QED
    BY <2>1, Turned DEF Typed, OutboxTypeOK, Steps, Hops
<1>2. ASSUME NEW q \in Relay
      PROVE  /\ \A n \in DOMAIN batch'[q] : staged'[batch'[q][n].event] # None
             /\ batch'[q] # <<>> => hop'[q] \in 1..(Len(Chain) + 1)
             /\ step'[q] = "record" => hop'[q] <= Len(Chain)
  <2>1. CASE q = r
    BY <2>1, Turned
  <2>2. CASE q # r
    <3>1. batch'[q] = batch[q] /\ step'[q] = step[q] /\ hop'[q] = hop[q]
      BY <2>2, Turned
    <3>2. \A n \in DOMAIN batch[q] : batch[q][n] \in Claim
      BY DEF Typed, OutboxTypeOK
    <3> QED
      BY <3>1, <3>2, ClaimFields DEF Typed, Held
  <2> QED
    BY <2>1, <2>2
<1> QED
  BY <1>1, <1>2 DEF Typed, Held

(* The types of a step that moves one relay along with the claim at hand.  *)
LEMMA TypedMove ==
  ASSUME OutboxAssumption, Typed, NEW r \in Relay, step[r] # "idle",
         NEW l \in Steps \ {"idle"}, NEW h \in 1..(Len(Chain) + 1),
         l = "record" => h <= Len(Chain),
         step' = [step EXCEPT ![r] = l], hop' = [hop EXCEPT ![r] = h], batch' = batch,
         staged' \in [Event -> Row \cup {None}],
         \A e \in Event : staged[e] # None => staged'[e] # None,
         sent' \in [Event -> [Sink -> SUBSET Nat]], mishaps' \in Nat
  PROVE  Typed'
<1>1. /\ step' \in [Relay -> Steps] /\ hop' \in [Relay -> Hops] /\ batch' \in [Relay -> Seq(Claim)]
      /\ step'[r] = l /\ hop'[r] = h
      /\ \A q \in Relay : q # r => step'[q] = step[q] /\ hop'[q] = hop[q]
  BY ChainIs DEF Typed, OutboxTypeOK, Steps, Hops
<1>2. OutboxTypeOK'
  <2>1. \A q \in Relay : (step'[q] = "idle") <=> (batch'[q] = <<>>)
    BY <1>1 DEF Typed, OutboxTypeOK
  <2> QED
    BY <1>1, <2>1 DEF Typed, OutboxTypeOK, Steps, Hops
<1>3. \A q \in Relay : \A n \in DOMAIN batch'[q] : staged'[batch'[q][n].event] # None
  <2> SUFFICES ASSUME NEW q \in Relay, NEW n \in DOMAIN batch[q]
               PROVE  staged'[batch[q][n].event] # None
    OBVIOUS
  <2>1. batch[q][n] \in Claim
    BY DEF Typed, OutboxTypeOK
  <2> QED
    BY <2>1, ClaimFields DEF Typed, Held
<1> QED
  BY <1>1, <1>2, <1>3 DEF Typed, Held

LEMMA BringTyped ==
  ASSUME OutboxAssumption, Typed, NEW r \in Relay, AtSink(r),
         sent' = [sent EXCEPT ![batch[r][1].event][Chain[hop[r]]] = @ \cup {batch[r][1].attempt}]
  PROVE  /\ hop[r] \in 1..Len(Chain) /\ batch[r][1].event \in Event /\ Chain[hop[r]] \in Sink
         /\ sent' \in [Event -> [Sink -> SUBSET Nat]]
         /\ \A e \in Event, s \in Sink :
              sent'[e][s] = IF e = batch[r][1].event /\ s = Chain[hop[r]]
                            THEN sent[e][s] \cup {batch[r][1].attempt} ELSE sent[e][s]
<1>1. step[r] # "idle" /\ hop[r] <= Len(Chain)
  BY DEF AtSink
<1>2. PICK e \in Event, a \in Nat : e = batch[r][1].event /\ a = batch[r][1].attempt
  BY <1>1, AtHand
<1>3. hop[r] \in 1..Len(Chain)
  BY <1>1, AtHand, ChainIs
<1>4. PICK s \in Sink : s = Chain[hop[r]]
  BY <1>3, ChainIs
<1>5. sent \in [Event -> [Sink -> SUBSET Nat]]
  BY DEF Typed, OutboxTypeOK
<1>6. sent' = [sent EXCEPT ![e] = [sent[e] EXCEPT ![s] = sent[e][s] \cup {a}]]
  BY <1>2, <1>4, <1>5
<1>7. PICK f \in [Sink -> SUBSET Nat] : f = [sent[e] EXCEPT ![s] = sent[e][s] \cup {a}]
  BY Zenon, <1>2, <1>5
<1>8. \A t \in Sink : f[t] = IF t = s THEN sent[e][s] \cup {a} ELSE sent[e][t]
  BY <1>5, <1>7
<1>9. sent' = [sent EXCEPT ![e] = f]
  BY <1>6, <1>7
<1> QED
  BY <1>2, <1>3, <1>4, <1>5, <1>8, <1>9

LEMMA TypedStep ==
  ASSUME OutboxAssumption, Typed, OutboxNext
  PROVE  Typed'
<1>0. /\ staged \in [Event -> Row \cup {None}] /\ mishaps \in Nat
      /\ sent \in [Event -> [Sink -> SUBSET Nat]]
      /\ step \in [Relay -> Steps] /\ hop \in [Relay -> Hops]
      /\ batch \in [Relay -> Seq(Claim)] /\ MaxMishaps \in Nat
  BY DEF Typed, OutboxTypeOK, Steps, Hops, OutboxAssumption
<1>1. ASSUME NEW e \in Event, Stage(e)
      PROVE  Typed'
  <2>1. PICK row : row = [state |-> "PENDING", attempts |-> 0, waiting |-> FALSE,
                          delivered |-> [s \in Sink |-> 0]]
    OBVIOUS
  <2>2. row \in Row
    BY <2>1 DEF Row, States
  <2>3. staged' = [staged EXCEPT ![e] = row] /\ UNCHANGED <<step, batch, hop, sent, mishaps>>
    BY <1>1, <2>1 DEF Stage
  <2>4. /\ staged' \in [Event -> Row \cup {None}]
        /\ \A d \in Event : staged[d] # None => staged'[d] # None
    BY <1>0, <2>2, <2>3, RowFields
  <2> QED
    BY <1>0, <2>3, <2>4, TypedSteady
<1>2. ASSUME NEW e \in Event, FallDue(e) \/ Lapse(e) \/ Overrun(e)
      PROVE  Typed'
  <2>1. UNCHANGED <<step, batch, hop, sent>> /\ mishaps' \in Nat
    BY <1>0, <1>2 DEF FallDue, Lapse, Overrun, Suffer
  <2> QED
    BY <1>2, <2>1, Ripened, TypedSteady
<1>3. ASSUME NEW r \in Relay, ClaimBatch(r)
      PROVE  Typed'
  <2>1. PICK b \in Seq(Claim) : Lease(r, b)
    BY <1>3, Leased
  <2>2. UNCHANGED <<sent, mishaps>>
    BY Zenon, <1>3 DEF ClaimBatch
  <2>3. \A e \in Event : staged[e] # None => staged'[e] # None
    BY <2>1 DEF Lease
  <2>4. /\ Turn(r, b) /\ staged' \in [Event -> Row \cup {None}]
        /\ \A n \in DOMAIN b : staged'[b[n].event] # None
    BY <2>1 DEF Lease
  <2> QED
    BY <1>0, <2>2, <2>3, <2>4, TypedTurn
<1>4. ASSUME NEW r \in Relay, Deliver(r) \/ DeliverLate(r)
      PROVE  Typed'
  <2>1. /\ AtSink(r) /\ UNCHANGED <<staged, batch, hop>> /\ mishaps' \in Nat
        /\ sent' = [sent EXCEPT ![batch[r][1].event][Chain[hop[r]]] = @ \cup {batch[r][1].attempt}]
        /\ step' = [step EXCEPT ![r] = "record"] \/ step' = [step EXCEPT ![r] = "reject"]
    BY <1>0, <1>4 DEF Deliver, DeliverLate, Bring, Suffer
  <2>2. step[r] # "idle" /\ hop[r] \in 1..Len(Chain) /\ hop[r] \in 1..(Len(Chain) + 1)
    <3>1. step[r] # "idle"
      BY <2>1 DEF AtSink
    <3>2. hop[r] \in 1..Len(Chain)
      BY Zenon, <2>1, BringTyped
    <3> QED
      BY <3>1, <3>2, ChainIs
  <2>3. hop' = [hop EXCEPT ![r] = hop[r]]
    BY <1>0, <2>1
  <2>4. hop[r] <= Len(Chain)
    BY <2>2
  <2>5. sent' \in [Event -> [Sink -> SUBSET Nat]]
    BY Zenon, <2>1, BringTyped
  <2>6. PICK l \in Steps \ {"idle"} : step' = [step EXCEPT ![r] = l]
    BY <2>1 DEF Steps
  <2> QED
    BY <1>0, <2>1, <2>2, <2>3, <2>4, <2>5, <2>6, TypedMove
<1>5. ASSUME NEW r \in Relay, Refuse(r) \/ Unrecorded(r)
      PROVE  Typed'
  <2>1. /\ step[r] # "idle" /\ UNCHANGED <<staged, batch, hop, sent>> /\ mishaps' \in Nat
        /\ step' = [step EXCEPT ![r] = "reject"]
    BY <1>0, <1>5 DEF Refuse, Unrecorded, AtSink, AllTaken, Suffer
  <2>2. hop' = [hop EXCEPT ![r] = hop[r]] /\ hop[r] \in 1..(Len(Chain) + 1)
    BY <1>0, <2>1, AtHand
  <2>3. "reject" \in Steps \ {"idle"} /\ "reject" # "record"
    BY DEF Steps
  <2> QED
    BY <1>0, <2>1, <2>2, <2>3, TypedMove
<1>6. ASSUME NEW r \in Relay, Record(r)
      PROVE  Typed'
  <2>1. /\ step[r] # "idle" /\ UNCHANGED <<batch, sent, mishaps>>
        /\ step' = [step EXCEPT ![r] = "publish"]
        /\ hop' = [hop EXCEPT ![r] = NextHop(batch[r][1], hop[r] + 1)]
    BY <1>0, <1>6 DEF Record
  <2>2. hop[r] + 1 \in 1..(Len(Chain) + 1)
    BY <1>6, Remembered, ChainIs
  <2>3. NextHop(batch[r][1], hop[r] + 1) \in 1..(Len(Chain) + 1)
    <3>1. NextHop(batch[r][1], hop[r] + 1) \in (hop[r] + 1)..(Len(Chain) + 1)
      BY <2>2, NextHopIs
    <3> QED
      BY <2>2, <3>1, ChainIs
  <2>4. "publish" \in Steps \ {"idle"} /\ "publish" # "record"
    BY DEF Steps
  <2>5. /\ staged' \in [Event -> Row \cup {None}]
        /\ \A e \in Event : staged[e] # None => staged'[e] # None
    BY <1>6, Remembered
  <2> QED
    BY <1>0, <2>1, <2>3, <2>4, <2>5, TypedMove
<1>7. ASSUME NEW r \in Relay, Succeed(r) \/ Fail(r)
      PROVE  Typed'
  <2>1. step[r] # "idle" /\ Turn(r, Tail(batch[r])) /\ UNCHANGED <<sent, mishaps>>
    BY <1>7 DEF Succeed, Fail, AllTaken
  <2>2. /\ batch[r] \in Seq(Claim) /\ batch[r] # <<>> /\ Tail(batch[r]) \in Seq(Claim)
        /\ \A n \in DOMAIN Tail(batch[r]) :
             n + 1 \in DOMAIN batch[r] /\ Tail(batch[r])[n] = batch[r][n + 1]
    BY <2>1, AtHand, RestOf
  <2>3. /\ staged' \in [Event -> Row \cup {None}]
        /\ \A e \in Event : staged[e] # None => staged'[e] # None
    BY <1>7, Settled
  <2>4. ASSUME NEW n \in DOMAIN Tail(batch[r])
        PROVE  staged'[Tail(batch[r])[n].event] # None
    <3>1. n + 1 \in DOMAIN batch[r] /\ Tail(batch[r])[n] = batch[r][n + 1] /\ batch[r][n + 1] \in Claim
      BY <2>2
    <3>2. staged[batch[r][n + 1].event] # None /\ batch[r][n + 1].event \in Event
      BY <3>1, ClaimFields DEF Typed, Held
    <3> QED
      BY <2>3, <3>1, <3>2
  <2> QED
    BY <1>0, <2>1, <2>2, <2>3, <2>4, TypedTurn
<1>8. ASSUME NEW r \in Relay, FailRaises(r) \/ Die(r)
      PROVE  Typed'
  <2>1. Turn(r, <<>>) /\ UNCHANGED <<staged, sent>> /\ mishaps' \in Nat
    BY <1>0, <1>8 DEF FailRaises, Die, Suffer
  <2>2. <<>> \in Seq(Claim) /\ \A n \in DOMAIN <<>> : staged'[(<<>>)[n].event] # None
    OBVIOUS
  <2> QED
    BY <1>0, <2>1, <2>2, TypedTurn
<1> QED
  BY <1>1, <1>2, <1>3, <1>4, <1>5, <1>6, <1>7, <1>8 DEF OutboxNext, Publish

(* Every reachable state of the outbox is well typed.                      *)
THEOREM OutboxTypeSafe ==
  ASSUME OutboxAssumption
  PROVE  OutboxSpec => []OutboxTypeOK
<1>1. OutboxInit => Typed
  BY TypedInit
<1>2. Typed /\ [OutboxNext]_outboxVars => Typed'
  <2>1. Typed /\ UNCHANGED outboxVars => Typed'
    BY DEF Typed, Held, OutboxTypeOK, outboxVars
  <2> QED
    BY <2>1, TypedStep
<1>3. Typed => OutboxTypeOK
  BY DEF Typed
<1> QED
  BY <1>1, <1>2, <1>3, PTL DEF OutboxSpec

(***************************************************************************)
(* What a claim knows of its row, and what the row knows of what was sent. *)
(* A claim skips only sinks whose acceptance is recorded; an acceptance    *)
(* recorded after it was made is recorded under its attempt or a later one;*)
(* so an attempt that is sent to a sink is never later than the recorded   *)
(* one, and a relay that is past a sink has it recorded.                   *)
(***************************************************************************)
ClaimOK(c) ==
  /\ c.attempt > 0 /\ c.attempt <= staged[c.event].attempts
  /\ \A s \in Sink : s \in c.skip => staged[c.event].delivered[s] > 0
  /\ \A s \in Sink :
       s \notin c.skip /\ staged[c.event].delivered[s] > 0 =>
         c.attempt <= staged[c.event].delivered[s]

ClaimsKnow == \A r \in Relay : \A n \in DOMAIN batch[r] : ClaimOK(batch[r][n])

SentKnown ==
  \A e \in Event, s \in Sink :
    /\ sent[e][s] # {} => staged[e] # None
    /\ staged[e] # None => \A a \in sent[e][s] : a <= staged[e].attempts
    /\ staged[e] # None /\ staged[e].delivered[s] > 0 =>
         sent[e][s] # {} /\ \A a \in sent[e][s] : a <= staged[e].delivered[s]

HopOK(r) ==
  step[r] \in {"publish", "record"} =>
    /\ \A m \in 1..Len(Chain) :
         m < hop[r] => staged[batch[r][1].event].delivered[Chain[m]] > 0
    /\ hop[r] <= Len(Chain) => Chain[hop[r]] \notin batch[r][1].skip
    /\ step[r] = "record" => sent[batch[r][1].event][Chain[hop[r]]] # {}

HopsPassed == \A r \in Relay : HopOK(r)

SucceededAll ==
  \A e \in Event : staged[e] # None /\ staged[e].state = "SUCCEEDED" =>
    \A s \in Sink : staged[e].delivered[s] > 0

Known == Typed /\ ClaimsKnow /\ SentKnown /\ HopsPassed /\ SucceededAll

(* Rows and what was sent only grow: attempts are counted up, a recorded   *)
(* acceptance stays, and a new one is recorded under the attempts so far.  *)
Grows ==
  /\ \A e \in Event : staged[e] # None =>
       /\ staged'[e] # None
       /\ staged[e].attempts <= staged'[e].attempts
       /\ \A s \in Sink :
            \/ staged'[e].delivered[s] = staged[e].delivered[s]
            \/ staged[e].delivered[s] = 0 /\ staged'[e].delivered[s] >= staged[e].attempts
  /\ \A e \in Event, s \in Sink : sent[e][s] \subseteq sent'[e][s]

LEMMA RowTyped ==
  ASSUME OutboxAssumption, Typed, NEW e \in Event, staged[e] # None
  PROVE  /\ staged[e] \in Row /\ staged[e].attempts \in Nat
         /\ staged[e].delivered \in [Sink -> Nat]
         /\ \A s \in Sink : staged[e].delivered[s] \in Nat
<1>1. staged[e] \in Row
  BY DEF Typed, OutboxTypeOK
<1>2. staged[e].attempts \in Nat /\ staged[e].delivered \in [Sink -> Nat]
  BY <1>1, RowFields
<1> QED
  BY <1>1, <1>2

LEMMA Grown ==
  ASSUME OutboxAssumption, Typed, OutboxNext
  PROVE  Grows
<1>0. ASSUME UNCHANGED staged
      PROVE  \A e \in Event : staged[e] # None =>
               /\ staged'[e] # None
               /\ staged[e].attempts <= staged'[e].attempts
               /\ \A s \in Sink :
                    \/ staged'[e].delivered[s] = staged[e].delivered[s]
                    \/ staged[e].delivered[s] = 0 /\ staged'[e].delivered[s] >= staged[e].attempts
  BY <1>0, RowTyped
<1>1. ASSUME NEW e \in Event, Stage(e)
      PROVE  Grows
  <2>1. PICK row : staged' = [staged EXCEPT ![e] = row]
    BY <1>1 DEF Stage
  <2>2. staged[e] = None /\ UNCHANGED sent /\ \A d \in Event : d # e => staged'[d] = staged[d]
    BY <1>1, <2>1 DEF Stage, Typed, OutboxTypeOK
  <2> QED
    BY <2>2, RowTyped DEF Grows
<1>2. ASSUME NEW e \in Event, FallDue(e) \/ Lapse(e) \/ Overrun(e)
      PROVE  Grows
  <2>1. UNCHANGED sent
    BY <1>2 DEF FallDue, Lapse, Overrun
  <2>2. /\ staged[e] # None /\ staged'[e] # None
        /\ staged'[e].attempts = staged[e].attempts /\ staged'[e].delivered = staged[e].delivered
        /\ \A d \in Event : d # e => staged'[d] = staged[d]
    BY <1>2, Ripened
  <2> QED
    BY <2>1, <2>2, RowTyped DEF Grows
<1>3. ASSUME NEW r \in Relay, ClaimBatch(r)
      PROVE  Grows
  <2>1. PICK b \in Seq(Claim) : Lease(r, b)
    BY <1>3, Leased
  <2>2. UNCHANGED sent
    BY Zenon, <1>3 DEF ClaimBatch
  <2>3. ASSUME NEW e \in Event, staged[e] # None
        PROVE  /\ staged'[e] # None
               /\ staged[e].attempts <= staged'[e].attempts
               /\ \A s \in Sink : staged'[e].delivered[s] = staged[e].delivered[s]
    <3>1. CASE \A n \in DOMAIN b : b[n].event # e
      <4>1. staged'[e] = staged[e]
        BY <2>1, <3>1 DEF Lease
      <4> QED
        BY <2>3, <4>1, RowTyped
    <3>2. CASE \E n \in DOMAIN b : b[n].event = e
      <4>1. /\ staged'[e] # None /\ staged'[e].attempts = staged[e].attempts + 1
            /\ staged'[e].delivered = staged[e].delivered
        BY <2>1, <3>2 DEF Lease
      <4> QED
        BY <2>3, <4>1, RowTyped
    <3> QED
      BY <3>1, <3>2
  <2> QED
    BY <2>2, <2>3 DEF Grows
<1>4. ASSUME NEW r \in Relay, Deliver(r) \/ DeliverLate(r)
      PROVE  Grows
  <2>1. /\ AtSink(r) /\ UNCHANGED staged
        /\ sent' = [sent EXCEPT ![batch[r][1].event][Chain[hop[r]]] = @ \cup {batch[r][1].attempt}]
    BY <1>4 DEF Deliver, DeliverLate, Bring
  <2>2. \A e \in Event, s \in Sink : sent[e][s] \subseteq sent'[e][s]
    BY Zenon, <2>1, BringTyped
  <2> QED
    BY <1>0, <2>1, <2>2 DEF Grows
<1>5. ASSUME NEW r \in Relay, Refuse(r) \/ Unrecorded(r) \/ FailRaises(r) \/ Die(r)
      PROVE  Grows
  <2>1. UNCHANGED <<staged, sent>>
    BY <1>5 DEF Refuse, Unrecorded, FailRaises, Die
  <2> QED
    BY <1>0, <2>1 DEF Grows
<1>6. ASSUME NEW r \in Relay, Record(r)
      PROVE  Grows
  <2>1. UNCHANGED sent /\ step[r] # "idle"
    BY <1>6 DEF Record
  <2>2. PICK e \in Event, s \in Sink : e = batch[r][1].event /\ s = Chain[hop[r]]
    BY <1>6, Remembered
  <2>3. /\ staged[e] # None /\ staged'[e] # None
        /\ staged'[e].attempts = staged[e].attempts
        /\ staged'[e].delivered[s] =
             IF staged[e].delivered[s] > 0 THEN staged[e].delivered[s] ELSE staged[e].attempts
        /\ \A t \in Sink : t # s => staged'[e].delivered[t] = staged[e].delivered[t]
        /\ \A d \in Event : d # e => staged'[d] = staged[d]
    BY <1>6, <2>2, Remembered
  <2>4. staged[e].attempts \in Nat /\ \A t \in Sink : staged[e].delivered[t] \in Nat
    BY <2>3, RowTyped
  <2>5. ASSUME NEW d \in Event, staged[d] # None
        PROVE  /\ staged'[d] # None
               /\ staged[d].attempts <= staged'[d].attempts
               /\ \A t \in Sink :
                    \/ staged'[d].delivered[t] = staged[d].delivered[t]
                    \/ staged[d].delivered[t] = 0 /\ staged'[d].delivered[t] >= staged[d].attempts
    <3>1. CASE d = e
      BY <2>3, <2>4, <3>1
    <3>2. CASE d # e
      BY <2>3, <2>5, <3>2, RowTyped
    <3> QED
      BY <3>1, <3>2
  <2> QED
    BY <2>1, <2>5 DEF Grows
<1>7. ASSUME NEW r \in Relay, Succeed(r) \/ Fail(r)
      PROVE  Grows
  <2>1. UNCHANGED sent
    BY <1>7 DEF Succeed, Fail
  <2>2. \A e \in Event :
          /\ staged'[e] = None <=> staged[e] = None
          /\ staged[e] # None => /\ staged'[e].attempts = staged[e].attempts
                                 /\ staged'[e].delivered = staged[e].delivered
    BY <1>7, Settled
  <2> QED
    BY <2>1, <2>2, RowTyped DEF Grows
<1> QED
  BY <1>1, <1>2, <1>3, <1>4, <1>5, <1>6, <1>7 DEF OutboxNext, Publish

(* What a claim knows stays true while its row grows.                      *)
LEMMA ClaimKept ==
  ASSUME OutboxAssumption, Typed, Typed', Grows, NEW c \in Claim,
         staged[c.event] # None, ClaimOK(c)
  PROVE  ClaimOK(c)'
<1>1. PICK e \in Event, a \in Nat : e = c.event /\ a = c.attempt
  BY ClaimFields
<1>2. /\ staged[e] # None /\ a > 0 /\ a <= staged[e].attempts
      /\ \A s \in Sink : s \in c.skip => staged[e].delivered[s] > 0
      /\ \A s \in Sink : s \notin c.skip /\ staged[e].delivered[s] > 0 => a <= staged[e].delivered[s]
  BY <1>1 DEF ClaimOK
<1>3. /\ staged'[e] # None /\ staged[e].attempts <= staged'[e].attempts
      /\ \A s \in Sink :
           \/ staged'[e].delivered[s] = staged[e].delivered[s]
           \/ staged[e].delivered[s] = 0 /\ staged'[e].delivered[s] >= staged[e].attempts
  BY <1>2 DEF Grows
<1>4. staged[e].attempts \in Nat /\ \A s \in Sink : staged[e].delivered[s] \in Nat
  BY <1>2, RowTyped
<1>5. staged'[e].attempts \in Nat /\ \A s \in Sink : staged'[e].delivered[s] \in Nat
  <2>1. staged'[e] \in Row
    BY <1>3 DEF Typed, OutboxTypeOK
  <2> QED
    BY <2>1, RowFields
<1>6. a > 0 /\ a <= staged'[e].attempts
  BY <1>2, <1>3, <1>4, <1>5
<1>7. \A s \in Sink : s \in c.skip => staged'[e].delivered[s] > 0
  BY <1>2, <1>3, <1>4, <1>5
<1>8. \A s \in Sink : s \notin c.skip /\ staged'[e].delivered[s] > 0 => a <= staged'[e].delivered[s]
  BY <1>2, <1>3, <1>4, <1>5
<1> QED
  BY <1>1, <1>6, <1>7, <1>8 DEF ClaimOK

(* A claim is an old one of the same relay, or one of a batch just leased. *)
LEMMA OldClaim ==
  ASSUME OutboxAssumption, Typed, OutboxNext, NEW q \in Relay, NEW n \in DOMAIN batch'[q]
  PROVE  (\E m \in DOMAIN batch[q] : batch'[q][n] = batch[q][m]) \/ ClaimBatch(q)
<1>1. CASE batch'[q] = batch[q]
  BY <1>1
<1>2. ASSUME NEW r \in Relay, ClaimBatch(r), r # q
      PROVE  batch'[q] = batch[q]
  BY Zenon, <1>2 DEF ClaimBatch, Turn, Typed, OutboxTypeOK
<1>3. ASSUME NEW r \in Relay, Succeed(r) \/ Fail(r)
      PROVE  batch'[q] = batch[q] \/ \E m \in DOMAIN batch[q] : batch'[q][n] = batch[q][m]
  <2>1. step[r] # "idle" /\ batch' = [batch EXCEPT ![r] = Tail(batch[r])]
    BY <1>3 DEF Succeed, Fail, Turn, AllTaken
  <2>2. CASE r = q
    <3>1. batch'[q] = Tail(batch[q]) /\ batch[q] \in Seq(Claim) /\ batch[q] # <<>>
      BY <2>1, <2>2, AtHand DEF Typed, OutboxTypeOK
    <3>2. n + 1 \in DOMAIN batch[q] /\ batch'[q][n] = batch[q][n + 1]
      BY <3>1, RestOf
    <3> QED
      BY <3>2
  <2>3. CASE r # q
    BY <2>1, <2>3 DEF Typed, OutboxTypeOK
  <2> QED
    BY <2>2, <2>3
<1>4. ASSUME NEW r \in Relay, FailRaises(r) \/ Die(r)
      PROVE  batch'[q] = batch[q]
  <2>1. batch' = [batch EXCEPT ![r] = <<>>]
    BY <1>4 DEF FailRaises, Die, Turn
  <2> QED
    BY <2>1 DEF Typed, OutboxTypeOK
<1>5. ASSUME NEW e \in Event, Stage(e) \/ FallDue(e) \/ Lapse(e) \/ Overrun(e)
      PROVE  batch'[q] = batch[q]
  BY <1>5 DEF Stage, FallDue, Lapse, Overrun
<1>6. ASSUME NEW r \in Relay, Deliver(r) \/ DeliverLate(r) \/ Refuse(r) \/ Record(r) \/ Unrecorded(r)
      PROVE  batch'[q] = batch[q]
  BY <1>6 DEF Deliver, DeliverLate, Bring, Refuse, Record, Unrecorded
<1> QED
  BY <1>1, <1>2, <1>3, <1>4, <1>5, <1>6 DEF OutboxNext, Publish

LEMMA ClaimsStep ==
  ASSUME OutboxAssumption, Typed, Typed', ClaimsKnow, OutboxNext
  PROVE  ClaimsKnow'
<1>1. SUFFICES ASSUME NEW q \in Relay, NEW n \in DOMAIN batch'[q]
               PROVE  ClaimOK(batch[q][n])'
  BY DEF ClaimsKnow
<1>2. CASE \E m \in DOMAIN batch[q] : batch'[q][n] = batch[q][m]
  <2>1. PICK m \in DOMAIN batch[q] : batch'[q][n] = batch[q][m]
    BY <1>2
  <2>2. batch[q][m] \in Claim /\ ClaimOK(batch[q][m]) /\ staged[batch[q][m].event] # None
    BY DEF Typed, OutboxTypeOK, Held, ClaimsKnow
  <2>3. PICK c \in Claim : c = batch[q][m]
    BY <2>2
  <2>4. ClaimOK(c)'
    BY <2>2, <2>3, Grown, ClaimKept
  <2> QED
    BY <2>1, <2>3, <2>4 DEF ClaimOK
<1>3. CASE ClaimBatch(q)
  <2>1. PICK b \in Seq(Claim) : Lease(q, b)
    BY <1>3, Leased
  <2>2. batch'[q] = b
    BY <2>1, Turned DEF Lease
  <2>3. PICK e \in Event : e = b[n].event
    BY <2>1, <2>2 DEF Lease
  <2>4. /\ staged[e] # None
        /\ staged'[e].attempts = staged[e].attempts + 1
        /\ staged'[e].delivered = staged[e].delivered
        /\ b[n].attempt = staged[e].attempts + 1
        /\ b[n].skip = Recorded(staged[e])
    BY <2>1, <2>2, <2>3 DEF Lease
  <2>5. \A s \in Sink : s \in b[n].skip <=> staged[e].delivered[s] > 0
    BY <2>4 DEF Recorded
  <2>6. staged[e].attempts \in Nat /\ \A s \in Sink : staged[e].delivered[s] \in Nat
    BY <2>4, RowTyped
  <2>7. /\ b[n].attempt > 0 /\ b[n].attempt <= staged'[e].attempts
        /\ \A s \in Sink : s \in b[n].skip => staged'[e].delivered[s] > 0
        /\ \A s \in Sink :
             s \notin b[n].skip /\ staged'[e].delivered[s] > 0 => b[n].attempt <= staged'[e].delivered[s]
    BY <2>4, <2>5, <2>6
  <2> QED
    BY <2>2, <2>3, <2>7 DEF ClaimOK
<1> QED
  BY <1>2, <1>3, OldClaim

(* A relay that did not move is still past sinks that took its event.      *)
LEMMA HopKept ==
  ASSUME OutboxAssumption, Typed, Typed', Grows, NEW q \in Relay, HopOK(q),
         batch'[q] = batch[q], hop'[q] = hop[q], step'[q] = step[q]
  PROVE  HopOK(q)'
<1>1. SUFFICES ASSUME step[q] \in {"publish", "record"}
               PROVE  HopOK(q)'
  BY DEF HopOK
<1>2. PICK e \in Event : e = batch[q][1].event /\ staged[e] # None
  BY <1>1, AtHand
<1>3. /\ \A s \in Sink :
           \/ staged'[e].delivered[s] = staged[e].delivered[s]
           \/ staged[e].delivered[s] = 0
      /\ \A s \in Sink : sent[e][s] \subseteq sent'[e][s]
  BY <1>2 DEF Grows
<1>4. \A m \in 1..Len(Chain) : Chain[m] \in Sink
  BY ChainIs
<1>5. \A m \in 1..Len(Chain) : m < hop[q] => staged'[e].delivered[Chain[m]] > 0
  <2>1. \A s \in Sink : staged[e].delivered[s] \in Nat
    BY <1>2, RowTyped
  <2>2. \A m \in 1..Len(Chain) : m < hop[q] => staged[e].delivered[Chain[m]] > 0
    BY <1>1, <1>2 DEF HopOK
  <2> QED
    BY <1>3, <1>4, <2>1, <2>2
<1>6. hop[q] <= Len(Chain) => Chain[hop[q]] \notin batch[q][1].skip
  BY <1>1 DEF HopOK
<1>7. step[q] = "record" => sent'[e][Chain[hop[q]]] # {}
  <2>1. step[q] = "record" => Chain[hop[q]] \in Sink /\ sent[e][Chain[hop[q]]] # {}
    <3>1. step[q] = "record" => hop[q] \in 1..Len(Chain)
      BY AtHand, ChainIs DEF Typed, Held
    <3> QED
      BY <1>1, <1>2, <1>4, <3>1 DEF HopOK
  <2> QED
    BY <1>3, <2>1
<1> QED
  BY <1>2, <1>5, <1>6, <1>7 DEF HopOK

(* A relay that turns to other claims passes only sinks that took the event.*)
LEMMA HopTurned ==
  ASSUME OutboxAssumption, Typed, Typed', ClaimsKnow', NEW r \in Relay,
         NEW b \in Seq(Claim), Turn(r, b)
  PROVE  HopOK(r)'
<1>1. /\ batch'[r] = b /\ step'[r] = (IF b = <<>> THEN "idle" ELSE "publish")
      /\ b # <<>> => hop'[r] = NextHop(b[1], 1)
  BY Turned
<1>2. CASE b = <<>>
  BY <1>1, <1>2 DEF HopOK
<1>3. CASE b # <<>>
  <2>1. 1 \in DOMAIN b /\ b[1] \in Claim
    BY <1>3
  <2>2. \A s \in Sink : s \in b[1].skip => staged'[b[1].event].delivered[s] > 0
    BY <1>1, <2>1 DEF ClaimsKnow, ClaimOK
  <2>3. /\ \A m \in 1..Len(Chain) : m < hop'[r] => Chain[m] \in b[1].skip
        /\ hop'[r] <= Len(Chain) => Chain[hop'[r]] \notin b[1].skip
    BY <1>1, <1>3, NextHopIs, ChainIs
  <2>4. \A m \in 1..Len(Chain) : m < hop'[r] => staged'[b[1].event].delivered[Chain[m]] > 0
    BY <2>2, <2>3, ChainIs
  <2> QED
    BY <1>1, <1>3, <2>3, <2>4 DEF HopOK
<1> QED
  BY <1>2, <1>3

LEMMA HopsStep ==
  ASSUME OutboxAssumption, Typed, Typed', ClaimsKnow', HopsPassed, OutboxNext
  PROVE  HopsPassed'
<1>0. ASSUME NEW q \in Relay, batch'[q] = batch[q], hop'[q] = hop[q], step'[q] = step[q]
      PROVE  HopOK(q)'
  BY <1>0, Grown, HopKept DEF HopsPassed
<1>1. SUFFICES ASSUME NEW q \in Relay
               PROVE  HopOK(q)'
  BY DEF HopsPassed
<1>2. ASSUME NEW e \in Event, Stage(e) \/ FallDue(e) \/ Lapse(e) \/ Overrun(e)
      PROVE  HopOK(q)'
  BY <1>0, <1>2 DEF Stage, FallDue, Lapse, Overrun
<1>3. ASSUME NEW r \in Relay, NEW b \in Seq(Claim), Turn(r, b)
      PROVE  HopOK(q)'
  <2>1. CASE r = q
    BY <1>3, <2>1, HopTurned
  <2>2. CASE r # q
    BY <1>0, <1>3, <2>2, Turned
  <2> QED
    BY <2>1, <2>2
<1>4. ASSUME NEW r \in Relay, ClaimBatch(r)
      PROVE  HopOK(q)'
  <2>1. PICK b \in Seq(Claim) : Lease(r, b)
    BY <1>4, Leased
  <2> QED
    BY <1>3, <2>1 DEF Lease
<1>5. ASSUME NEW r \in Relay, Succeed(r) \/ Fail(r) \/ FailRaises(r) \/ Die(r)
      PROVE  HopOK(q)'
  <2>1. step[r] # "idle" /\ (Turn(r, Tail(batch[r])) \/ Turn(r, <<>>))
    BY <1>5 DEF Succeed, Fail, FailRaises, Die, AllTaken
  <2>2. Tail(batch[r]) \in Seq(Claim) /\ <<>> \in Seq(Claim)
    BY <2>1, AtHand, RestOf
  <2> QED
    BY <1>3, <2>1, <2>2
<1>6. ASSUME NEW r \in Relay, Deliver(r) \/ DeliverLate(r)
      PROVE  HopOK(q)'
  <2>1. /\ AtSink(r) /\ UNCHANGED <<staged, batch, hop>>
        /\ sent' = [sent EXCEPT ![batch[r][1].event][Chain[hop[r]]] = @ \cup {batch[r][1].attempt}]
        /\ step' = [step EXCEPT ![r] = "record"] \/ step' = [step EXCEPT ![r] = "reject"]
    BY <1>6 DEF Deliver, DeliverLate, Bring
  <2>2. CASE r # q
    <3>1. batch'[q] = batch[q] /\ hop'[q] = hop[q] /\ step'[q] = step[q]
      BY <2>1, <2>2 DEF Typed, OutboxTypeOK
    <3> QED
      BY <1>0, <3>1
  <2>3. CASE r = q
    <3>1. step[r] = "publish" /\ step'[r] \in {"record", "reject"}
      BY <2>1 DEF AtSink, Typed, OutboxTypeOK
    <3>2. sent'[batch[r][1].event][Chain[hop[r]]] # {}
      <4>1. PICK e \in Event, s \in Sink : e = batch[r][1].event /\ s = Chain[hop[r]]
        BY Zenon, <2>1, BringTyped
      <4>2. \A d \in Event, t \in Sink :
              d = batch[r][1].event /\ t = Chain[hop[r]] =>
                sent'[d][t] = sent[d][t] \cup {batch[r][1].attempt}
        BY Zenon, <2>1, BringTyped
      <4>3. sent'[e][s] = sent[e][s] \cup {batch[r][1].attempt}
        BY <4>1, <4>2
      <4> QED
        BY <4>1, <4>3
    <3>3. /\ \A m \in 1..Len(Chain) :
               m < hop[r] => staged[batch[r][1].event].delivered[Chain[m]] > 0
          /\ hop[r] <= Len(Chain) => Chain[hop[r]] \notin batch[r][1].skip
      BY <3>1 DEF HopsPassed, HopOK
    <3> QED
      BY <2>1, <2>3, <3>2, <3>3 DEF HopOK
  <2> QED
    BY <2>2, <2>3
<1>7. ASSUME NEW r \in Relay, Refuse(r) \/ Unrecorded(r)
      PROVE  HopOK(q)'
  <2>1. UNCHANGED <<batch, hop>> /\ step' = [step EXCEPT ![r] = "reject"]
    BY <1>7 DEF Refuse, Unrecorded
  <2>2. CASE r # q
    <3>1. batch'[q] = batch[q] /\ hop'[q] = hop[q] /\ step'[q] = step[q]
      BY <2>1, <2>2 DEF Typed, OutboxTypeOK
    <3> QED
      BY <1>0, <3>1
  <2>3. CASE r = q
    <3>1. step'[q] = "reject"
      BY <2>1, <2>3 DEF Typed, OutboxTypeOK
    <3> QED
      BY <3>1 DEF HopOK
  <2> QED
    BY <2>2, <2>3
<1>8. ASSUME NEW r \in Relay, Record(r)
      PROVE  HopOK(q)'
  <2>1. /\ step[r] = "record" /\ UNCHANGED <<batch, sent>>
        /\ step' = [step EXCEPT ![r] = "publish"]
        /\ hop' = [hop EXCEPT ![r] = NextHop(batch[r][1], hop[r] + 1)]
    BY <1>8 DEF Record, Typed, OutboxTypeOK
  <2>2. CASE r # q
    <3>1. batch'[q] = batch[q] /\ hop'[q] = hop[q] /\ step'[q] = step[q]
      BY <2>1, <2>2 DEF Typed, OutboxTypeOK
    <3> QED
      BY <1>0, <3>1
  <2>3. CASE r = q
    <3>1. PICK e \in Event, s \in Sink :
            e = batch[q][1].event /\ s = Chain[hop[q]] /\ hop[q] \in 1..Len(Chain)
      BY <1>8, <2>3, Remembered
    <3>2. /\ staged[e] # None
          /\ staged'[e].delivered[s] =
               IF staged[e].delivered[s] > 0 THEN staged[e].delivered[s] ELSE staged[e].attempts
          /\ \A t \in Sink : t # s => staged'[e].delivered[t] = staged[e].delivered[t]
      BY <1>8, <2>3, <3>1, Remembered
    <3>3. batch'[q] = batch[q] /\ step'[q] = "publish"
          /\ hop'[q] = NextHop(batch[q][1], hop[q] + 1)
      BY <2>1, <2>3 DEF Typed, OutboxTypeOK
    <3>4. ClaimOK(batch[q][1])'
      BY <2>1, <2>3, <3>3, AtHand DEF ClaimsKnow
    <3>5. \A t \in Sink : t \in batch[q][1].skip => staged'[e].delivered[t] > 0
      BY <3>1, <3>3, <3>4 DEF ClaimOK
    <3>6. \A m \in 1..Len(Chain) : m < hop[q] => staged[e].delivered[Chain[m]] > 0
      BY <2>1, <2>3, <3>1 DEF HopsPassed, HopOK
    <3>7. staged'[e].delivered[s] > 0
      <4>1. /\ batch[q][1].attempt \in Nat /\ batch[q][1].attempt > 0
            /\ batch[q][1].attempt <= staged'[e].attempts
        BY <2>1, <2>3, <3>1, <3>3, <3>4, AtHand DEF ClaimOK
      <4>2. staged'[e].attempts = staged[e].attempts
        BY <1>8, <2>3, <3>1, Remembered
      <4>3. staged[e].attempts \in Nat
        BY <3>2, RowTyped
      <4> QED
        BY <3>2, <4>1, <4>2, <4>3
    <3>8. /\ \A m \in (hop[q] + 1)..Len(Chain) : m < hop'[q] => Chain[m] \in batch[q][1].skip
          /\ hop'[q] <= Len(Chain) => Chain[hop'[q]] \notin batch[q][1].skip
      BY <3>1, <3>3, NextHopIs, ChainIs
    <3>9. \A m \in 1..Len(Chain) : m < hop'[q] => staged'[e].delivered[Chain[m]] > 0
      <4> SUFFICES ASSUME NEW m \in 1..Len(Chain), m < hop'[q]
                   PROVE  staged'[e].delivered[Chain[m]] > 0
        OBVIOUS
      <4>0. Chain[m] \in Sink /\ Len(Chain) \in Nat
        BY ChainIs
      <4>1. CASE m < hop[q]
        <5>1. staged[e].delivered[Chain[m]] > 0
          BY <3>6, <4>1
        <5>2. Chain[m] = s \/ staged'[e].delivered[Chain[m]] = staged[e].delivered[Chain[m]]
          BY <3>2, <4>0
        <5> QED
          BY <3>7, <5>1, <5>2
      <4>2. CASE m = hop[q]
        BY <3>1, <3>7, <4>2
      <4>3. CASE m > hop[q]
        <5>1. m \in (hop[q] + 1)..Len(Chain)
          BY <3>1, <4>0, <4>3
        <5> QED
          BY <3>5, <3>8, <4>0, <5>1
      <4> QED
        BY <3>1, <4>1, <4>2, <4>3
    <3> QED
      BY <3>1, <3>3, <3>8, <3>9 DEF HopOK
  <2> QED
    BY <2>2, <2>3
<1> QED
  BY <1>2, <1>4, <1>5, <1>6, <1>7, <1>8 DEF OutboxNext, Publish

(* One event's row and what was sent of it, seen from one sink.            *)
SentOK(e, s) ==
  /\ sent[e][s] # {} => staged[e] # None
  /\ staged[e] # None => \A a \in sent[e][s] : a <= staged[e].attempts
  /\ staged[e] # None /\ staged[e].delivered[s] > 0 =>
       sent[e][s] # {} /\ \A a \in sent[e][s] : a <= staged[e].delivered[s]

(* A step that counts attempts up and leaves the rest alone.               *)
LEMMA SentKept ==
  ASSUME OutboxAssumption, Typed, NEW e \in Event, NEW s \in Sink, SentOK(e, s),
         sent'[e][s] = sent[e][s],
         staged'[e] = staged[e] \/
           /\ staged[e] # None /\ staged'[e] # None
           /\ staged'[e].attempts \in {staged[e].attempts, staged[e].attempts + 1}
           /\ staged'[e].delivered[s] = staged[e].delivered[s]
  PROVE  SentOK(e, s)'
<1>1. CASE staged'[e] = staged[e]
  BY <1>1 DEF SentOK
<1>2. CASE /\ staged[e] # None /\ staged'[e] # None
           /\ staged'[e].attempts \in {staged[e].attempts, staged[e].attempts + 1}
           /\ staged'[e].delivered[s] = staged[e].delivered[s]
  <2>1. staged[e].attempts \in Nat /\ sent[e][s] \in SUBSET Nat
    BY <1>2, RowTyped DEF Typed, OutboxTypeOK
  <2> QED
    BY <1>2, <2>1 DEF SentOK
<1> QED
  BY <1>1, <1>2

LEMMA SentStep ==
  ASSUME OutboxAssumption, Typed, ClaimsKnow, SentKnown, HopsPassed, OutboxNext
  PROVE  SentKnown'
<1>1. SUFFICES ASSUME NEW d \in Event, NEW t \in Sink
               PROVE  SentOK(d, t)'
  BY DEF SentKnown, SentOK
<1>2. SentOK(d, t)
  BY DEF SentKnown, SentOK
<1>3. ASSUME UNCHANGED <<staged, sent>>
      PROVE  SentOK(d, t)'
  BY <1>2, <1>3 DEF SentOK
<1>4. ASSUME NEW e \in Event, Stage(e)
      PROVE  SentOK(d, t)'
  <2>1. PICK row : /\ row = [state |-> "PENDING", attempts |-> 0, waiting |-> FALSE,
                             delivered |-> [s \in Sink |-> 0]]
                   /\ staged' = [staged EXCEPT ![e] = row]
    BY <1>4 DEF Stage
  <2>2. staged[e] = None /\ UNCHANGED sent /\ row.delivered[t] = 0
    BY <1>4, <2>1 DEF Stage
  <2>3. CASE d = e
    <3>1. sent[d][t] = {}
      BY <1>2, <2>2, <2>3 DEF SentOK
    <3>2. staged'[d] = row
      BY <2>1, <2>3 DEF Typed, OutboxTypeOK
    <3> QED
      BY <2>2, <3>1, <3>2 DEF SentOK
  <2>4. CASE d # e
    <3>1. staged'[d] = staged[d]
      BY <2>1, <2>4 DEF Typed, OutboxTypeOK
    <3> QED
      BY <1>2, <2>2, <3>1, SentKept
  <2> QED
    BY <2>3, <2>4
<1>5. ASSUME NEW e \in Event, FallDue(e) \/ Lapse(e) \/ Overrun(e)
      PROVE  SentOK(d, t)'
  <2>1. UNCHANGED sent
    BY <1>5 DEF FallDue, Lapse, Overrun
  <2>2. /\ staged[e] # None /\ staged'[e] # None
        /\ staged'[e].attempts = staged[e].attempts /\ staged'[e].delivered = staged[e].delivered
        /\ \A f \in Event : f # e => staged'[f] = staged[f]
    BY <1>5, Ripened
  <2> QED
    BY <1>2, <2>1, <2>2, SentKept
<1>6. ASSUME NEW r \in Relay, ClaimBatch(r)
      PROVE  SentOK(d, t)'
  <2>1. PICK b \in Seq(Claim) : Lease(r, b)
    BY <1>6, Leased
  <2>2. UNCHANGED sent
    BY Zenon, <1>6 DEF ClaimBatch
  <2>3. CASE \A n \in DOMAIN b : b[n].event # d
    <3>1. staged'[d] = staged[d]
      BY <2>1, <2>3 DEF Lease
    <3> QED
      BY <1>2, <2>2, <3>1, SentKept
  <2>4. CASE \E n \in DOMAIN b : b[n].event = d
    <3>1. /\ staged[d] # None /\ staged'[d] # None
          /\ staged'[d].attempts = staged[d].attempts + 1
          /\ staged'[d].delivered = staged[d].delivered
      BY <2>1, <2>4 DEF Lease
    <3> QED
      BY <1>2, <2>2, <3>1, SentKept
  <2> QED
    BY <2>3, <2>4
<1>7. ASSUME NEW r \in Relay, Deliver(r) \/ DeliverLate(r)
      PROVE  SentOK(d, t)'
  <2>1. /\ AtSink(r) /\ UNCHANGED staged
        /\ sent' = [sent EXCEPT ![batch[r][1].event][Chain[hop[r]]] = @ \cup {batch[r][1].attempt}]
    BY <1>7 DEF Deliver, DeliverLate, Bring
  <2>2. PICK e \in Event, s \in Sink : e = batch[r][1].event /\ s = Chain[hop[r]] /\ hop[r] \in 1..Len(Chain)
    BY Zenon, <2>1, BringTyped
  <2>3. sent'[d][t] = IF d = e /\ t = s THEN sent[d][t] \cup {batch[r][1].attempt} ELSE sent[d][t]
    BY Zenon, <2>1, <2>2, BringTyped
  <2>4. step[r] = "publish" /\ step[r] # "idle"
    BY <2>1 DEF AtSink
  <2>5. staged[e] # None /\ batch[r][1].attempt \in Nat /\ 1 \in DOMAIN batch[r]
    BY <2>2, <2>4, AtHand
  <2>6. ClaimOK(batch[r][1]) /\ s \notin batch[r][1].skip
    <3>1. hop[r] <= Len(Chain)
      BY <2>1 DEF AtSink
    <3> QED
      BY <2>2, <2>4, <2>5, <3>1 DEF ClaimsKnow, HopsPassed, HopOK
  <2>7. /\ batch[r][1].attempt <= staged[e].attempts
        /\ staged[e].delivered[s] > 0 => batch[r][1].attempt <= staged[e].delivered[s]
    BY <2>2, <2>6 DEF ClaimOK
  <2>8. staged' = staged
    BY <2>1
  <2>9. CASE d = e /\ t = s
    <3>1. PICK a \in Nat : a = batch[r][1].attempt
      BY <2>5
    <3>2. sent'[d][t] = sent[d][t] \cup {a}
      BY <2>3, <2>9, <3>1
    <3> QED
      BY <1>2, <2>5, <2>7, <2>8, <2>9, <3>1, <3>2 DEF SentOK
  <2>10. CASE ~(d = e /\ t = s)
    BY <1>2, <2>3, <2>8, <2>10 DEF SentOK
  <2> QED
    BY <2>9, <2>10
<1>8. ASSUME NEW r \in Relay, Refuse(r) \/ Unrecorded(r) \/ FailRaises(r) \/ Die(r)
      PROVE  SentOK(d, t)'
  <2>1. UNCHANGED <<staged, sent>>
    BY <1>8 DEF Refuse, Unrecorded, FailRaises, Die
  <2> QED
    BY <1>3, <2>1
<1>9. ASSUME NEW r \in Relay, Record(r)
      PROVE  SentOK(d, t)'
  <2>1. UNCHANGED sent /\ step[r] = "record"
    BY <1>9 DEF Record
  <2>2. PICK e \in Event, s \in Sink :
          e = batch[r][1].event /\ s = Chain[hop[r]] /\ hop[r] \in 1..Len(Chain)
    BY <1>9, Remembered
  <2>3. /\ staged[e] # None /\ staged'[e] # None /\ staged'[e].attempts = staged[e].attempts
        /\ staged'[e].delivered[s] =
             IF staged[e].delivered[s] > 0 THEN staged[e].delivered[s] ELSE staged[e].attempts
        /\ \A u \in Sink : u # s => staged'[e].delivered[u] = staged[e].delivered[u]
        /\ \A f \in Event : f # e => staged'[f] = staged[f]
    BY <1>9, <2>2, Remembered
  <2>4. sent[e][s] # {}
    BY <2>1, <2>2 DEF HopsPassed, HopOK
  <2>5. CASE d = e /\ t = s
    BY <1>2, <2>1, <2>3, <2>4, <2>5 DEF SentOK
  <2>6. CASE d # e \/ t # s
    BY <1>2, <2>1, <2>3, <2>6, SentKept
  <2> QED
    BY <2>5, <2>6
<1>10. ASSUME NEW r \in Relay, Succeed(r) \/ Fail(r)
       PROVE  SentOK(d, t)'
  <2>1. UNCHANGED sent
    BY <1>10 DEF Succeed, Fail
  <2>2. /\ staged'[d] = None <=> staged[d] = None
        /\ staged[d] # None => /\ staged'[d].attempts = staged[d].attempts
                               /\ staged'[d].delivered = staged[d].delivered
    BY <1>10, Settled
  <2> QED
    BY <1>2, <2>1, <2>2, SentKept DEF SentOK
<1> QED
  BY <1>4, <1>5, <1>6, <1>7, <1>8, <1>9, <1>10 DEF OutboxNext, Publish

LEMMA SucceededStep ==
  ASSUME OutboxAssumption, Typed, HopsPassed, SucceededAll, OutboxNext
  PROVE  SucceededAll'
<1>1. SUFFICES ASSUME NEW d \in Event, staged'[d] # None, staged'[d].state = "SUCCEEDED",
                      NEW t \in Sink
               PROVE  staged'[d].delivered[t] > 0
  BY DEF SucceededAll
<1>2. ASSUME staged'[d] = staged[d]
      PROVE  staged'[d].delivered[t] > 0
  BY <1>1, <1>2 DEF SucceededAll
<1>3. ASSUME staged[d] # None, staged[d].state = "SUCCEEDED",
             staged'[d].delivered[t] = staged[d].delivered[t]
      PROVE  staged'[d].delivered[t] > 0
  BY <1>3 DEF SucceededAll
<1>4. ASSUME NEW e \in Event, Stage(e)
      PROVE  staged'[d].delivered[t] > 0
  <2>1. PICK row : row.state = "PENDING" /\ staged' = [staged EXCEPT ![e] = row]
    BY <1>4 DEF Stage
  <2>2. d # e
    BY <1>1, <2>1 DEF Typed, OutboxTypeOK
  <2> QED
    BY <1>2, <2>1, <2>2 DEF Typed, OutboxTypeOK
<1>5. ASSUME NEW e \in Event, FallDue(e) \/ Lapse(e) \/ Overrun(e)
      PROVE  staged'[d].delivered[t] > 0
  <2>1. /\ staged[e] # None
        /\ staged'[e].state = staged[e].state /\ staged'[e].delivered = staged[e].delivered
        /\ \A f \in Event : f # e => staged'[f] = staged[f]
    BY <1>5, Ripened
  <2> QED
    BY <1>1, <1>2, <1>3, <2>1
<1>6. ASSUME NEW r \in Relay, ClaimBatch(r)
      PROVE  staged'[d].delivered[t] > 0
  <2>1. PICK b \in Seq(Claim) : Lease(r, b)
    BY <1>6, Leased
  <2>2. \A n \in DOMAIN b : b[n].event # d
    BY <1>1, <2>1 DEF Lease
  <2> QED
    BY <1>2, <2>1, <2>2 DEF Lease
<1>7. ASSUME NEW r \in Relay, Deliver(r) \/ DeliverLate(r) \/ Refuse(r) \/ Unrecorded(r)
                              \/ FailRaises(r) \/ Die(r)
      PROVE  staged'[d].delivered[t] > 0
  <2>1. UNCHANGED staged
    BY <1>7 DEF Deliver, DeliverLate, Bring, Refuse, Unrecorded, FailRaises, Die
  <2> QED
    BY <1>2, <2>1
<1>8. ASSUME NEW r \in Relay, Record(r)
      PROVE  staged'[d].delivered[t] > 0
  <2>1. PICK e \in Event, s \in Sink : e = batch[r][1].event /\ s = Chain[hop[r]]
    BY <1>8, Remembered
  <2>2. /\ staged[e] # None /\ staged'[e].state = staged[e].state
        /\ staged'[e].delivered[s] =
             IF staged[e].delivered[s] > 0 THEN staged[e].delivered[s] ELSE staged[e].attempts
        /\ \A u \in Sink : u # s => staged'[e].delivered[u] = staged[e].delivered[u]
        /\ \A f \in Event : f # e => staged'[f] = staged[f]
    BY <1>8, <2>1, Remembered
  <2>3. CASE d # e
    BY <1>2, <2>2, <2>3
  <2>4. CASE d = e
    <3>1. staged[e].delivered[s] > 0 /\ staged[e].delivered[t] > 0
      BY <1>1, <2>2, <2>4 DEF SucceededAll
    <3> QED
      BY <2>2, <2>4, <3>1
  <2> QED
    BY <2>3, <2>4
<1>9. ASSUME NEW r \in Relay, Succeed(r) \/ Fail(r)
      PROVE  staged'[d].delivered[t] > 0
  <2>1. step[r] # "idle"
    BY Zenon, <1>9 DEF Succeed, Fail, AllTaken
  <2>2. PICK e \in Event : e = batch[r][1].event
    BY <2>1, AtHand
  <2>3. CASE d # e
    BY <1>2, <1>9, <2>2, <2>3, Settled
  <2>4. CASE d = e /\ staged[e].state # "RUNNING"
    BY <1>2, <1>9, <2>2, <2>4, Settled
  <2>5. CASE d = e /\ staged[e].state = "RUNNING"
    <3>1. Succeed(r)
      BY <1>1, <1>9, <2>2, <2>5, Settled
    <3>2. step[r] = "publish" /\ hop[r] > Len(Chain) /\ hop[r] \in Nat /\ Len(Chain) \in Nat
      BY <2>1, <3>1, AtHand, ChainIs DEF Succeed, AllTaken
    <3>3. \A m \in 1..Len(Chain) : staged[e].delivered[Chain[m]] > 0
      BY <2>2, <3>2 DEF HopsPassed, HopOK
    <3>4. PICK m \in 1..Len(Chain) : t = Chain[m]
      BY ChainIs
    <3>5. staged'[e].delivered = staged[e].delivered
      <4>1. staged[e] # None
        BY <2>1, <2>2, AtHand
      <4> QED
        BY <1>9, <4>1, Settled
    <3> QED
      BY <2>5, <3>3, <3>4, <3>5
  <2> QED
    BY <2>3, <2>4, <2>5
<1> QED
  BY <1>4, <1>5, <1>6, <1>7, <1>8, <1>9 DEF OutboxNext, Publish

LEMMA KnownInit ==
  ASSUME OutboxAssumption, OutboxInit
  PROVE  Known
<1>1. Typed
  BY TypedInit
<1>2. ClaimsKnow /\ HopsPassed
  BY DEF OutboxInit, ClaimsKnow, HopsPassed, HopOK
<1>3. SentKnown /\ SucceededAll
  BY DEF OutboxInit, SentKnown, SucceededAll
<1> QED
  BY <1>1, <1>2, <1>3 DEF Known

LEMMA KnownNext ==
  ASSUME OutboxAssumption, Known, [OutboxNext]_outboxVars
  PROVE  Known'
<1>1. CASE OutboxNext
  <2>1. Typed /\ ClaimsKnow /\ SentKnown /\ HopsPassed /\ SucceededAll
    BY DEF Known
  <2>2. Typed'
    BY <1>1, <2>1, TypedStep
  <2>3. ClaimsKnow'
    BY <1>1, <2>1, <2>2, ClaimsStep
  <2>4. SentKnown' /\ HopsPassed' /\ SucceededAll'
    BY <1>1, <2>1, <2>2, <2>3, SentStep, HopsStep, SucceededStep
  <2> QED
    BY <2>2, <2>3, <2>4 DEF Known
<1>2. CASE UNCHANGED outboxVars
  BY <1>2 DEF Known, Typed, Held, OutboxTypeOK, ClaimsKnow, ClaimOK, SentKnown, HopsPassed,
              HopOK, SucceededAll, outboxVars
<1> QED
  BY <1>1, <1>2

(* A retry does not take the event to a sink that has accepted it:         *)
(* outbox_worker_java.java:62-69, README.md:523-527.                       *)
THEOREM NothingSentTwice ==
  ASSUME OutboxAssumption
  PROVE  OutboxSpec => []NoResend
<1>1. OutboxInit => Known
  BY KnownInit
<1>2. Known /\ [OutboxNext]_outboxVars => Known'
  BY KnownNext
<1>3. Known => NoResend
  BY DEF Known, SentKnown, NoResend
<1> QED
  BY <1>1, <1>2, <1>3, PTL DEF OutboxSpec

(* A SUCCEEDED row was taken by every configured sink, whichever relays    *)
(* carried it there: outbox_worker_java.java:12-13.                        *)
THEOREM SuccessIsTaken ==
  ASSUME OutboxAssumption
  PROVE  OutboxSpec => []SuccessMeansTaken
<1>1. OutboxInit => Known
  BY KnownInit
<1>2. Known /\ [OutboxNext]_outboxVars => Known'
  BY KnownNext
<1>3. Known => SuccessMeansTaken
  BY DEF Known, SentKnown, SucceededAll, SuccessMeansTaken
<1> QED
  BY <1>1, <1>2, <1>3, PTL DEF OutboxSpec

(***************************************************************************)
(* A row can be claimed past MaxAttempts only after its lease was lost: a  *)
(* RUNNING row whose lease ran out, or whose claim no relay holds any more,*)
(* has a mishap to spare.                                                  *)
(***************************************************************************)
RetryOK(e) ==
  staged[e] # None =>
    /\ staged[e].attempts <= MaxAttempts + mishaps
    /\ staged[e].state = "PENDING" => staged[e].attempts < MaxAttempts
    /\ staged[e].state = "RUNNING" /\ (~staged[e].waiting \/ Abandoned(e)) =>
         staged[e].attempts < MaxAttempts + mishaps

RetryInv == Typed /\ \A e \in Event : RetryOK(e)

(* A step that leaves the row and the claims of the event alone.           *)
LEMMA RetryKept ==
  ASSUME OutboxAssumption, Typed, Typed', NEW e \in Event, RetryOK(e),
         mishaps <= mishaps',
         staged'[e] = staged[e] \/
           /\ staged[e] # None /\ staged'[e] # None
           /\ staged'[e].attempts = staged[e].attempts /\ staged'[e].state = staged[e].state
           /\ staged'[e].waiting = staged[e].waiting,
         (\A r \in Relay : Current(r, e) => Current(r, e)') \/ mishaps < mishaps'
  PROVE  RetryOK(e)'
<1>1. MaxAttempts \in Nat \ {0} /\ mishaps \in Nat /\ mishaps' \in Nat
  BY DEF OutboxAssumption, Typed, OutboxTypeOK
<1>2. SUFFICES ASSUME staged'[e] # None
               PROVE  RetryOK(e)'
  BY DEF RetryOK
<1>3. /\ staged[e] # None /\ staged'[e].attempts = staged[e].attempts
      /\ staged'[e].state = staged[e].state /\ staged'[e].waiting = staged[e].waiting
  BY <1>2
<1>4. staged[e].attempts \in Nat
  BY <1>3, RowTyped
<1>5. /\ staged[e].attempts <= MaxAttempts + mishaps
      /\ staged[e].state = "PENDING" => staged[e].attempts < MaxAttempts
      /\ staged[e].state = "RUNNING" /\ (~staged[e].waiting \/ Abandoned(e)) =>
           staged[e].attempts < MaxAttempts + mishaps
  BY <1>3 DEF RetryOK
<1>6. staged[e].attempts <= MaxAttempts + mishaps'
  BY <1>1, <1>4, <1>5
<1>7. ASSUME staged[e].state = "RUNNING", ~staged[e].waiting \/ Abandoned(e)'
      PROVE  staged[e].attempts < MaxAttempts + mishaps'
  <2>1. CASE mishaps < mishaps'
    BY <1>1, <1>4, <1>5, <2>1
  <2>2. CASE \A r \in Relay : Current(r, e) => Current(r, e)'
    <3>1. Abandoned(e)' => Abandoned(e)
      BY <2>2 DEF Abandoned
    <3>2. staged[e].attempts < MaxAttempts + mishaps
      BY <1>5, <1>7, <3>1
    <3> QED
      BY <1>1, <1>4, <3>2
  <2> QED
    BY <2>1, <2>2
<1> QED
  BY <1>3, <1>5, <1>6, <1>7 DEF RetryOK

LEMMA RetryStep ==
  ASSUME OutboxAssumption, RetryInv, OutboxNext
  PROVE  RetryInv'
<1>1. Typed /\ Typed' /\ \A e \in Event : RetryOK(e)
  BY TypedStep DEF RetryInv
<1>2. MaxAttempts \in Nat \ {0} /\ mishaps \in Nat
  BY <1>1 DEF OutboxAssumption, Typed, OutboxTypeOK
<1>3. SUFFICES ASSUME NEW d \in Event
               PROVE  RetryOK(d)'
  BY <1>1 DEF RetryInv
<1>4. RetryOK(d)
  BY <1>1
<1>5. ASSUME staged'[d] = staged[d], UNCHANGED batch
      PROVE  \A r \in Relay : Current(r, d) => Current(r, d)'
  BY <1>5 DEF Current
<1>6. ASSUME NEW e \in Event, Stage(e)
      PROVE  RetryOK(d)'
  <2>1. PICK row : /\ row = [state |-> "PENDING", attempts |-> 0, waiting |-> FALSE,
                             delivered |-> [s \in Sink |-> 0]]
                   /\ staged' = [staged EXCEPT ![e] = row]
    BY <1>6 DEF Stage
  <2>2. row.state = "PENDING" /\ row.attempts = 0
    BY <2>1
  <2>3. UNCHANGED <<batch, mishaps>>
    BY <1>6 DEF Stage
  <2>4. CASE d = e
    <3>1. staged'[d] = row
      BY <1>1, <2>1, <2>4 DEF Typed, OutboxTypeOK
    <3> QED
      BY <1>2, <2>2, <2>3, <3>1 DEF RetryOK
  <2>5. CASE d # e
    <3>1. staged'[d] = staged[d]
      BY <1>1, <2>1, <2>5 DEF Typed, OutboxTypeOK
    <3> QED
      BY <1>1, <1>2, <1>4, <1>5, <2>3, <3>1, RetryKept
  <2> QED
    BY <2>4, <2>5
<1>7. ASSUME NEW e \in Event, FallDue(e) \/ Lapse(e) \/ Overrun(e)
      PROVE  RetryOK(d)'
  <2>1. /\ staged[e] # None /\ staged'[e].state = staged[e].state
        /\ staged'[e].attempts = staged[e].attempts
        /\ \A f \in Event : f # e => staged'[f] = staged[f]
    BY <1>1, <1>7, Ripened
  <2>2. UNCHANGED batch /\ (mishaps' = mishaps \/ mishaps' = mishaps + 1)
    BY <1>7 DEF FallDue, Lapse, Overrun, Suffer
  <2>3. CASE d # e
    BY <1>1, <1>2, <1>4, <1>5, <2>1, <2>2, <2>3, RetryKept
  <2>4. CASE d = e
    <3>1. staged[e].attempts \in Nat
      BY <1>1, <2>1, RowTyped
    <3>2. /\ staged[e].attempts <= MaxAttempts + mishaps
          /\ staged[e].state = "PENDING" => staged[e].attempts < MaxAttempts
          /\ staged[e].state = "RUNNING" /\ (~staged[e].waiting \/ Abandoned(e)) =>
               staged[e].attempts < MaxAttempts + mishaps
      BY <1>4, <2>1, <2>4 DEF RetryOK
    <3>3. \/ staged[e].state = "PENDING"
          \/ Abandoned(e)
          \/ mishaps' = mishaps + 1
      BY <1>7 DEF FallDue, Lapse, Overrun, Waits, Suffer
    <3>4. staged[e].attempts <= MaxAttempts + mishaps'
      BY <1>2, <2>2, <3>1, <3>2
    <3>5. staged[e].state = "RUNNING" => staged[e].attempts < MaxAttempts + mishaps'
      BY <1>2, <2>2, <3>1, <3>2, <3>3
    <3> QED
      BY <2>1, <2>4, <3>2, <3>4, <3>5 DEF RetryOK
  <2> QED
    BY <2>3, <2>4
<1>8. ASSUME NEW r \in Relay, ClaimBatch(r)
      PROVE  RetryOK(d)'
  <2>1. PICK b \in Seq(Claim) : Lease(r, b)
    BY <1>1, <1>8, Leased
  <2>2. UNCHANGED mishaps
    BY Zenon, <1>8 DEF ClaimBatch
  <2>3. /\ batch[r] = <<>> /\ batch'[r] = b
        /\ \A q \in Relay : q # r => batch'[q] = batch[q]
    <3>1. step[r] = "idle" /\ Turn(r, b)
      BY <2>1 DEF Lease
    <3> QED
      BY <1>1, <3>1, Turned DEF Typed, OutboxTypeOK
  <2>4. CASE \A n \in DOMAIN b : b[n].event # d
    <3>1. staged'[d] = staged[d]
      BY <2>1, <2>4 DEF Lease
    <3>2. \A q \in Relay : Current(q, d) => Current(q, d)'
      BY <2>3, <3>1 DEF Current
    <3> QED
      BY <1>1, <1>2, <1>4, <2>2, <3>1, <3>2, RetryKept
  <2>5. CASE \E n \in DOMAIN b : b[n].event = d
    <3>1. PICK n \in DOMAIN b : b[n].event = d
      BY <2>5
    <3>2. /\ staged[d] # None /\ staged[d].state \in {"PENDING", "RUNNING"} /\ ~staged[d].waiting
          /\ staged'[d].state = "RUNNING" /\ staged'[d].waiting
          /\ staged'[d].attempts = staged[d].attempts + 1
          /\ b[n].attempt = staged[d].attempts + 1
      BY <2>1, <3>1 DEF Lease
    <3>3. ~Abandoned(d)'
      BY <2>3, <3>1, <3>2 DEF Abandoned, Current
    <3>4. staged[d].attempts \in Nat
      BY <1>1, <3>2, RowTyped
    <3>5. staged[d].attempts + 1 <= MaxAttempts + mishaps
      BY <1>2, <1>4, <3>2, <3>4 DEF RetryOK
    <3> QED
      BY <2>2, <3>2, <3>3, <3>5 DEF RetryOK
  <2> QED
    BY <2>4, <2>5
<1>9. ASSUME NEW r \in Relay, Deliver(r) \/ DeliverLate(r) \/ Refuse(r) \/ Unrecorded(r)
      PROVE  RetryOK(d)'
  <2>1. UNCHANGED <<staged, batch>> /\ (mishaps' = mishaps \/ mishaps' = mishaps + 1)
    BY <1>9 DEF Deliver, DeliverLate, Bring, Refuse, Unrecorded, Suffer
  <2> QED
    BY <1>1, <1>2, <1>4, <1>5, <2>1, RetryKept
<1>10. ASSUME NEW r \in Relay, Record(r)
       PROVE  RetryOK(d)'
  <2>1. UNCHANGED <<batch, mishaps>> /\ step[r] # "idle"
    BY <1>10 DEF Record
  <2>2. PICK e \in Event : e = batch[r][1].event
    BY <1>1, <2>1, AtHand
  <2>3. /\ staged[e] # None /\ staged'[e] # None
        /\ staged'[e].state = staged[e].state /\ staged'[e].attempts = staged[e].attempts
        /\ staged'[e].waiting = staged[e].waiting
        /\ \A f \in Event : f # e => staged'[f] = staged[f]
    BY <1>1, <1>10, <2>2, Remembered
  <2>4. \A q \in Relay : Current(q, d) => Current(q, d)'
    BY <2>1, <2>3 DEF Current
  <2> QED
    BY <1>1, <1>2, <1>4, <2>1, <2>3, <2>4, RetryKept
<1>11. ASSUME NEW r \in Relay, Succeed(r) \/ Fail(r)
       PROVE  RetryOK(d)'
  <2>1. /\ step[r] # "idle" /\ UNCHANGED mishaps
        /\ batch' = [batch EXCEPT ![r] = Tail(batch[r])]
    BY Zenon, <1>11 DEF Succeed, Fail, AllTaken, Turn
  <2>2. PICK e \in Event : e = batch[r][1].event /\ staged[e] # None
    BY <1>1, <2>1, AtHand
  <2>3. batch[r] \in Seq(Claim) /\ batch[r] # <<>>
    BY <1>1, <2>1, AtHand
  <2>4. CASE d # e
    <3>1. staged'[d] = staged[d]
      BY <1>1, <1>11, <2>2, <2>4, Settled
    <3>2. ASSUME NEW q \in Relay, Current(q, d)
          PROVE  Current(q, d)'
      <4>1. CASE q # r
        <5>1. batch'[q] = batch[q]
          BY <1>1, <2>1, <4>1 DEF Typed, OutboxTypeOK
        <5> QED
          BY <3>1, <3>2, <5>1 DEF Current
      <4>2. CASE q = r
        <5>1. PICK n \in DOMAIN batch[r] :
                batch[r][n].event = d /\ batch[r][n].attempt = staged[d].attempts
          BY <3>2, <4>2 DEF Current
        <5>2. n # 1
          BY <2>2, <2>4, <5>1
        <5>3. n - 1 \in DOMAIN Tail(batch[r]) /\ Tail(batch[r])[n - 1] = batch[r][n]
          BY <2>3, <5>2
        <5>4. batch'[q] = Tail(batch[r])
          BY <1>1, <2>1, <4>2 DEF Typed, OutboxTypeOK
        <5> QED
          BY <3>1, <5>1, <5>3, <5>4 DEF Current
      <4> QED
        BY <4>1, <4>2
    <3> QED
      BY <1>1, <1>2, <1>4, <2>1, <3>1, <3>2, RetryKept
  <2>5. CASE d = e /\ staged[e].state # "RUNNING"
    <3>1. staged' = staged
      BY <1>1, <1>11, <2>2, <2>5, Settled
    <3> QED
      BY <1>4, <2>1, <2>5, <3>1 DEF RetryOK
  <2>6. CASE d = e /\ staged[e].state = "RUNNING"
    <3>1. /\ staged'[e].attempts = staged[e].attempts
          /\ \/ staged'[e].state \in {"SUCCEEDED", "FAILED"}
             \/ staged'[e].state = "PENDING" /\ staged[e].attempts < MaxAttempts
      BY <1>1, <1>11, <2>2, <2>6, Settled
    <3> QED
      BY <1>4, <2>1, <2>2, <2>6, <3>1 DEF RetryOK
  <2> QED
    BY <2>4, <2>5, <2>6
<1>12. ASSUME NEW r \in Relay, FailRaises(r) \/ Die(r)
       PROVE  RetryOK(d)'
  <2>1. UNCHANGED staged /\ mishaps' = mishaps + 1
    BY <1>12 DEF FailRaises, Die, Suffer
  <2> QED
    BY <1>1, <1>2, <1>4, <2>1, RetryKept
<1> QED
  BY <1>6, <1>7, <1>8, <1>9, <1>10, <1>11, <1>12 DEF OutboxNext, Publish

(* Retries end: an event is claimed at most MaxAttempts times and once for *)
(* every lease that was lost.                                              *)
THEOREM RelayRetryIsBounded ==
  ASSUME OutboxAssumption
  PROVE  OutboxSpec => []RelayRetryBounded
<1>1. OutboxInit => RetryInv
  <2>1. ASSUME OutboxInit
        PROVE  RetryInv
    BY <2>1, TypedInit DEF OutboxInit, RetryInv, RetryOK
  <2> QED
    BY <2>1
<1>2. RetryInv /\ [OutboxNext]_outboxVars => RetryInv'
  <2>1. RetryInv /\ UNCHANGED outboxVars => RetryInv'
    BY DEF RetryInv, Typed, Held, OutboxTypeOK, RetryOK, Abandoned, Current, outboxVars
  <2> QED
    BY <2>1, RetryStep
<1>3. RetryInv => RelayRetryBounded
  BY DEF RetryInv, RetryOK, RelayRetryBounded
<1> QED
  BY <1>1, <1>2, <1>3, PTL DEF OutboxSpec

(***************************************************************************)
(* Repeated deliveries.  An event is brought to a sink again only by a new *)
(* claim, and while the sink's acceptance is not recorded a claim may be   *)
(* followed by another either because it was put back without having       *)
(* brought the event there, or because something went wrong.  So what was  *)
(* sent, and what a claim may still send, never outnumber the mishaps by   *)
(* more than one; as long as no acceptance is recorded, and the event may  *)
(* be claimed as it is, or a delivery has been lost whose claim is not     *)
(* given up yet, by less.                                                  *)
(***************************************************************************)

(* The attempts that may still take e to s.                                *)
Live(e, s) ==
  {a \in Nat : \E r \in Relay : \E n \in DOMAIN batch[r] :
     batch[r][n].event = e /\ batch[r][n].attempt = a /\ s \notin batch[r][n].skip}

Tries(e, s) == sent[e][s] \cup Live(e, s)

(* The attempts that have taken it there, and are about to be given up.    *)
Lost(e, s) ==
  {a \in sent[e][s] : \E r \in Relay :
     step[r] = "reject" /\ batch[r][1].event = e /\ batch[r][1].attempt = a}

(* Nothing has to go wrong any more for the next claim of e.               *)
Claimable(e) ==
  \/ staged[e].state = "PENDING"
  \/ staged[e].state = "RUNNING" /\ (~staged[e].waiting \/ Abandoned(e))

BudgetOK(e, s) ==
  staged[e] # None =>
    /\ Cardinality(Tries(e, s)) <= 1 + mishaps
    /\ staged[e].delivered[s] = 0 =>
         Cardinality(Tries(e, s)) + Cardinality(Lost(e, s)) + (IF Claimable(e) THEN 1 ELSE 0)
           <= 1 + mishaps

(* No two claims are of the same attempt.                                  *)
Apart ==
  \A r, q \in Relay : \A n \in DOMAIN batch[r], m \in DOMAIN batch[q] :
    batch[r][n].event = batch[q][m].event /\ batch[r][n].attempt = batch[q][m].attempt =>
      r = q /\ n = m

(* An attempt that has taken its event to a sink which is not recorded is  *)
(* at hand, and about to be recorded or given up.                          *)
FreshOK(r, n, s) ==
  staged[batch[r][n].event].delivered[s] = 0
  /\ batch[r][n].attempt \in sent[batch[r][n].event][s] =>
    /\ n = 1
    /\ step[r] = "reject" \/ (step[r] = "record" /\ s = Chain[hop[r]])

Fresh == \A r \in Relay : \A n \in DOMAIN batch[r] : \A s \in Sink : FreshOK(r, n, s)

Budgeted == Known /\ Apart /\ Fresh /\ \A e \in Event, s \in Sink : BudgetOK(e, s)

(* Counting.                                                               *)

LEMMA OneLess ==
  ASSUME NEW S, IsFiniteSet(S), NEW T \in SUBSET S, NEW x \in S, x \notin T
  PROVE  /\ Cardinality(S) \in Nat /\ Cardinality(T) \in Nat
         /\ Cardinality(T) + 1 <= Cardinality(S)
<1>1. IsFiniteSet(S \ {x}) /\ Cardinality(S \ {x}) = Cardinality(S) - 1
  BY FS_RemoveElement
<1>2. T \in SUBSET (S \ {x})
  OBVIOUS
<1>3. IsFiniteSet(T) /\ Cardinality(T) <= Cardinality(S \ {x})
  BY <1>1, <1>2, FS_Subset
<1>4. Cardinality(S) \in Nat /\ Cardinality(T) \in Nat
  BY <1>3, FS_CardinalityType
<1> QED
  BY <1>1, <1>3, <1>4

LEMMA OneMore ==
  ASSUME NEW S, IsFiniteSet(S), NEW x, NEW T \in SUBSET (S \cup {x})
  PROVE  /\ Cardinality(S) \in Nat /\ Cardinality(T) \in Nat
         /\ Cardinality(T) <= Cardinality(S) + 1
<1>1. /\ IsFiniteSet(S \cup {x})
      /\ Cardinality(S \cup {x}) = Cardinality(S) \/ Cardinality(S \cup {x}) = Cardinality(S) + 1
  BY FS_AddElement
<1>2. IsFiniteSet(T) /\ Cardinality(T) <= Cardinality(S \cup {x})
  BY <1>1, FS_Subset
<1>3. Cardinality(S) \in Nat /\ Cardinality(T) \in Nat
  BY <1>2, FS_CardinalityType
<1> QED
  BY <1>1, <1>2, <1>3

(* Only so many attempts have been counted.                                *)
LEMMA TriesFinite ==
  ASSUME OutboxAssumption, Known, NEW e \in Event, NEW s \in Sink, staged[e] # None
  PROVE  /\ IsFiniteSet(Tries(e, s)) /\ Cardinality(Tries(e, s)) \in Nat
         /\ IsFiniteSet(Lost(e, s)) /\ Cardinality(Lost(e, s)) \in Nat
<1>1. staged[e].attempts \in Nat
  BY RowTyped DEF Known
<1>2. IsFiniteSet(0..staged[e].attempts)
  BY <1>1, FS_Interval
<1>3. sent[e][s] \in SUBSET (0..staged[e].attempts)
  <2>1. sent[e][s] \in SUBSET Nat
    BY DEF Known, Typed, OutboxTypeOK
  <2>2. \A a \in sent[e][s] : a <= staged[e].attempts
    BY DEF Known, SentKnown
  <2> QED
    BY <1>1, <2>1, <2>2
<1>4. Live(e, s) \in SUBSET (0..staged[e].attempts)
  <2> SUFFICES ASSUME NEW a \in Nat, NEW r \in Relay, NEW n \in DOMAIN batch[r],
                      batch[r][n].event = e, batch[r][n].attempt = a
               PROVE  a <= staged[e].attempts
    BY <1>1 DEF Live
  <2> QED
    BY DEF Known, ClaimsKnow, ClaimOK
<1>5. Tries(e, s) \in SUBSET (0..staged[e].attempts)
  BY <1>3, <1>4 DEF Tries
<1>6. Lost(e, s) \in SUBSET (0..staged[e].attempts)
  BY <1>3 DEF Lost
<1> QED
  BY <1>2, <1>5, <1>6, FS_Subset, FS_CardinalityType

(* So the account of a step's outcome is of finite sets as well.           *)
LEMMA TriesFiniteNext ==
  ASSUME OutboxAssumption
  PROVE  (Known => \A e \in Event, s \in Sink : staged[e] # None =>
            /\ IsFiniteSet(Tries(e, s)) /\ Cardinality(Tries(e, s)) \in Nat
            /\ IsFiniteSet(Lost(e, s)) /\ Cardinality(Lost(e, s)) \in Nat)'
<1>1. Known => \A e \in Event, s \in Sink : staged[e] # None =>
            /\ IsFiniteSet(Tries(e, s)) /\ Cardinality(Tries(e, s)) \in Nat
            /\ IsFiniteSet(Lost(e, s)) /\ Cardinality(Lost(e, s)) \in Nat
  BY TriesFinite
<1> QED
  BY <1>1, PTL

(* What a step may do to the account: keep it, pay for what it adds with a *)
(* mishap, use a claim up, or make one where nothing stands in the way.    *)
LEMMA BudgetKept ==
  ASSUME OutboxAssumption, Known, Known', NEW e \in Event, NEW s \in Sink, BudgetOK(e, s),
         staged[e] # None, staged'[e].delivered[s] = 0 => staged[e].delivered[s] = 0, NEW x,
         \/ /\ Tries(e, s)' \subseteq Tries(e, s) /\ mishaps' = mishaps
            /\ staged'[e].delivered[s] = 0 =>
                 Lost(e, s)' \subseteq Lost(e, s) /\ (Claimable(e)' => Claimable(e))
         \/ /\ Tries(e, s)' \subseteq Tries(e, s) /\ mishaps' = mishaps + 1
            /\ staged'[e].delivered[s] = 0 =>
                 \/ Lost(e, s)' \subseteq Lost(e, s)
                 \/ Lost(e, s)' \subseteq Lost(e, s) \cup {x} /\ (Claimable(e)' => Claimable(e))
         \/ /\ Tries(e, s)' \subseteq Tries(e, s) /\ mishaps' = mishaps
            /\ staged'[e].delivered[s] = 0 =>
                 /\ Lost(e, s)' \subseteq Lost(e, s)
                 /\ x \in Tries(e, s) \ Tries(e, s)' \/ x \in Lost(e, s) \ Lost(e, s)'
         \/ /\ Tries(e, s)' \subseteq Tries(e, s) \cup {x} /\ mishaps' = mishaps
            /\ staged[e].delivered[s] = 0 /\ Claimable(e) /\ ~Claimable(e)'
            /\ Lost(e, s)' \subseteq Lost(e, s)
  PROVE  BudgetOK(e, s)'
<1>0. PICK T, U, L, M : T = Tries(e, s) /\ U = Tries(e, s)' /\ L = Lost(e, s) /\ M = Lost(e, s)'
  OBVIOUS
<1>p. PICK p \in 0..1, q \in 0..1 :
        /\ p = IF Claimable(e) THEN 1 ELSE 0
        /\ q = IF Claimable(e)' THEN 1 ELSE 0
  OBVIOUS
<1>c. \/ /\ U \subseteq T /\ mishaps' = mishaps
         /\ staged'[e].delivered[s] = 0 => M \subseteq L /\ q <= p
      \/ /\ U \subseteq T /\ mishaps' = mishaps + 1
         /\ staged'[e].delivered[s] = 0 => M \subseteq L \/ (M \subseteq L \cup {x} /\ q <= p)
      \/ /\ U \subseteq T /\ mishaps' = mishaps
         /\ staged'[e].delivered[s] = 0 => M \subseteq L /\ (x \in T \ U \/ x \in L \ M)
      \/ /\ U \subseteq T \cup {x} /\ mishaps' = mishaps
         /\ staged[e].delivered[s] = 0 /\ p = 1 /\ q = 0 /\ M \subseteq L
  BY <1>0, <1>p
<1>1. mishaps \in Nat /\ mishaps' \in Nat
  BY DEF Known, Typed, OutboxTypeOK
<1>2. SUFFICES ASSUME staged'[e] # None
               PROVE  BudgetOK(e, s)'
  BY DEF BudgetOK
<1>3. IsFiniteSet(T) /\ Cardinality(T) \in Nat /\ IsFiniteSet(L) /\ Cardinality(L) \in Nat
  BY <1>0, TriesFinite
<1>4. IsFiniteSet(U) /\ Cardinality(U) \in Nat /\ IsFiniteSet(M) /\ Cardinality(M) \in Nat
  BY <1>0, <1>2, TriesFiniteNext
<1>5. /\ Cardinality(T) <= 1 + mishaps
      /\ staged[e].delivered[s] = 0 => Cardinality(T) + Cardinality(L) + p <= 1 + mishaps
  BY <1>0, <1>p DEF BudgetOK
<1>6. /\ U \subseteq T => Cardinality(U) <= Cardinality(T)
      /\ U \subseteq T \cup {x} => Cardinality(U) <= Cardinality(T) + 1
      /\ M \subseteq L => Cardinality(M) <= Cardinality(L)
      /\ M \subseteq L \cup {x} => Cardinality(M) <= Cardinality(L) + 1
  BY <1>3, FS_Subset, OneMore
<1>7. /\ U \subseteq T /\ x \in T \ U => Cardinality(U) + 1 <= Cardinality(T)
      /\ M \subseteq L /\ x \in L \ M => Cardinality(M) + 1 <= Cardinality(L)
  BY <1>3, OneLess
<1>8. /\ Cardinality(U) <= 1 + mishaps'
      /\ staged'[e].delivered[s] = 0 => Cardinality(U) + Cardinality(M) + q <= 1 + mishaps'
  <2> DEFINE CT == Cardinality(T)  CU == Cardinality(U)  CL == Cardinality(L)  CM == Cardinality(M)
  <2>1. CT \in Nat /\ CU \in Nat /\ CL \in Nat /\ CM \in Nat
    BY <1>3, <1>4
  <2> HIDE DEF CT, CU, CL, CM
  <2>2. CT <= 1 + mishaps /\ (staged[e].delivered[s] = 0 => CT + CL + p <= 1 + mishaps)
    BY <1>5 DEF CT, CL
  <2>3. CASE /\ CU <= CT /\ mishaps' = mishaps
             /\ staged'[e].delivered[s] = 0 => CM <= CL /\ q <= p
    BY <1>1, <2>1, <2>2, <2>3 DEF CU, CM
  <2>4. CASE /\ CU <= CT /\ mishaps' = mishaps + 1
             /\ staged'[e].delivered[s] = 0 => CM <= CL \/ (CM <= CL + 1 /\ q <= p)
    BY <1>1, <2>1, <2>2, <2>4 DEF CU, CM
  <2>5. CASE /\ CU <= CT /\ mishaps' = mishaps
             /\ staged'[e].delivered[s] = 0 => CM <= CL /\ (CU + 1 <= CT \/ CM + 1 <= CL)
    BY <1>1, <2>1, <2>2, <2>5 DEF CU, CM
  <2>6. CASE /\ CU <= CT + 1 /\ mishaps' = mishaps
             /\ staged[e].delivered[s] = 0 /\ p = 1 /\ q = 0 /\ CM <= CL
    BY <1>1, <2>1, <2>2, <2>6 DEF CU, CM
  <2> QED
    BY <1>c, <1>6, <1>7, <2>3, <2>4, <2>5, <2>6 DEF CT, CU, CL, CM
<1> QED
  BY <1>0, <1>p, <1>8 DEF BudgetOK

(***************************************************************************)
(* No two claims are of the same attempt, and a claim whose attempt went   *)
(* to a sink is about to be recorded there or given up.                    *)
(***************************************************************************)

(* A relay that does not claim keeps its claims, drops the one at hand, or *)
(* drops them all.                                                         *)
LEMMA Shifted ==
  ASSUME OutboxAssumption, Typed, OutboxNext, NEW q \in Relay, ~ClaimBatch(q)
  PROVE  \E k \in {0, 1} : \A n \in DOMAIN batch'[q] :
           n \in Nat /\ n > 0 /\ n + k \in DOMAIN batch[q] /\ batch'[q][n] = batch[q][n + k]
<1>0. \A n \in DOMAIN batch[q] : n \in Nat /\ n > 0
  BY DEF Typed, OutboxTypeOK
<1>1. ASSUME batch'[q] = batch[q]
      PROVE  \A n \in DOMAIN batch'[q] :
               n \in Nat /\ n > 0 /\ n + 0 \in DOMAIN batch[q] /\ batch'[q][n] = batch[q][n + 0]
  BY <1>0, <1>1
<1>2. ASSUME NEW r \in Relay, ClaimBatch(r)
      PROVE  batch'[q] = batch[q]
  BY Zenon, <1>2 DEF ClaimBatch, Turn, Typed, OutboxTypeOK
<1>3. ASSUME NEW r \in Relay, Succeed(r) \/ Fail(r), r # q
      PROVE  batch'[q] = batch[q]
  BY <1>3 DEF Succeed, Fail, Turn, Typed, OutboxTypeOK
<1>4. ASSUME Succeed(q) \/ Fail(q)
      PROVE  \A n \in DOMAIN batch'[q] :
               n \in Nat /\ n > 0 /\ n + 1 \in DOMAIN batch[q] /\ batch'[q][n] = batch[q][n + 1]
  <2>1. step[q] # "idle" /\ batch' = [batch EXCEPT ![q] = Tail(batch[q])]
    BY Zenon, <1>4 DEF Succeed, Fail, Turn, AllTaken
  <2>2. batch'[q] = Tail(batch[q]) /\ batch[q] \in Seq(Claim) /\ batch[q] # <<>>
    BY <2>1, AtHand DEF Typed, OutboxTypeOK
  <2>3. \A n \in DOMAIN Tail(batch[q]) :
          n \in Nat /\ n > 0 /\ n + 1 \in DOMAIN batch[q] /\ Tail(batch[q])[n] = batch[q][n + 1]
    BY <2>2
  <2> QED
    BY <2>2, <2>3
<1>5. ASSUME NEW r \in Relay, FailRaises(r) \/ Die(r)
      PROVE  batch'[q] = batch[q] \/ batch'[q] = <<>>
  BY <1>5 DEF FailRaises, Die, Turn, Typed, OutboxTypeOK
<1>6. ASSUME NEW e \in Event, Stage(e) \/ FallDue(e) \/ Lapse(e) \/ Overrun(e)
      PROVE  batch'[q] = batch[q]
  BY <1>6 DEF Stage, FallDue, Lapse, Overrun
<1>7. ASSUME NEW r \in Relay, Deliver(r) \/ DeliverLate(r) \/ Refuse(r) \/ Record(r) \/ Unrecorded(r)
      PROVE  batch'[q] = batch[q]
  BY Zenon, <1>7 DEF Deliver, DeliverLate, Bring, Refuse, Record, Unrecorded
<1>8. \/ batch'[q] = batch[q] \/ batch'[q] = <<>> \/ Succeed(q) \/ Fail(q)
  BY <1>2, <1>3, <1>5, <1>6, <1>7 DEF OutboxNext, Publish
<1>9. CASE batch'[q] = <<>>
  BY <1>9
<1> QED
  BY <1>1, <1>4, <1>8, <1>9

(* A batch just leased is of attempts nobody holds.                        *)
LEMMA LeasedNew ==
  ASSUME OutboxAssumption, Known, NEW r \in Relay, ClaimBatch(r)
  PROVE  /\ batch[r] = <<>>
         /\ \A q \in Relay : q # r => batch'[q] = batch[q]
         /\ \A m, n \in DOMAIN batch'[r] : batch'[r][m].event = batch'[r][n].event => m = n
         /\ \A n \in DOMAIN batch'[r] :
              LET e == batch'[r][n].event  a == batch'[r][n].attempt IN
              /\ e \in Event /\ staged[e] # None
              /\ a = staged[e].attempts + 1 /\ staged[e].attempts \in Nat
              /\ \A s \in Sink : a \notin sent[e][s]
              /\ \A q \in Relay : \A m \in DOMAIN batch[q] :
                   ~(batch[q][m].event = e /\ batch[q][m].attempt = a)
<1>1. Typed /\ ClaimsKnow /\ SentKnown
  BY DEF Known
<1>2. PICK b \in Seq(Claim) : Lease(r, b)
  BY <1>1, Leased
<1>3. batch'[r] = b /\ batch[r] = <<>> /\ \A q \in Relay : q # r => batch'[q] = batch[q]
  <2>1. step[r] = "idle" /\ Turn(r, b)
    BY <1>2 DEF Lease
  <2> QED
    BY <1>1, <2>1, Turned DEF Typed, OutboxTypeOK
<1>4. \A m, n \in DOMAIN b : b[m].event = b[n].event => m = n
  BY <1>2 DEF Lease
<1>5. ASSUME NEW n \in DOMAIN b
      PROVE  LET e == b[n].event  a == b[n].attempt IN
             /\ e \in Event /\ staged[e] # None
             /\ a = staged[e].attempts + 1 /\ staged[e].attempts \in Nat
             /\ \A s \in Sink : a \notin sent[e][s]
             /\ \A q \in Relay : \A m \in DOMAIN batch[q] :
                  ~(batch[q][m].event = e /\ batch[q][m].attempt = a)
  <2>1. PICK e \in Event : e = b[n].event
    BY <1>2 DEF Lease
  <2>2. staged[e] # None /\ b[n].attempt = staged[e].attempts + 1
    BY <1>2, <2>1 DEF Lease
  <2>3. staged[e].attempts \in Nat
    BY <1>1, <2>2, RowTyped
  <2>4. \A s \in Sink : \A a \in sent[e][s] : a \in Nat /\ a <= staged[e].attempts
    BY <1>1, <2>2 DEF SentKnown, Typed, OutboxTypeOK
  <2>5. \A q \in Relay : \A m \in DOMAIN batch[q] :
          batch[q][m].event = e => batch[q][m].attempt <= staged[e].attempts
    BY <1>1 DEF ClaimsKnow, ClaimOK
  <2> QED
    BY <2>1, <2>2, <2>3, <2>4, <2>5
<1> QED
  BY <1>3, <1>4, <1>5

LEMMA ApartStep ==
  ASSUME OutboxAssumption, Known, Apart, OutboxNext
  PROVE  Apart'
<1>1. Typed
  BY DEF Known
<1>2. SUFFICES ASSUME NEW r \in Relay, NEW q \in Relay,
                      NEW n \in DOMAIN batch'[r], NEW m \in DOMAIN batch'[q],
                      batch'[r][n].event = batch'[q][m].event,
                      batch'[r][n].attempt = batch'[q][m].attempt
               PROVE  r = q /\ n = m
  BY DEF Apart
<1>3. CASE ~ClaimBatch(r) /\ ~ClaimBatch(q)
  <2>1. PICK k \in {0, 1} : \A i \in DOMAIN batch'[r] :
           i \in Nat /\ i > 0 /\ i + k \in DOMAIN batch[r] /\ batch'[r][i] = batch[r][i + k]
    BY <1>1, <1>3, Shifted
  <2>2. PICK l \in {0, 1} : \A i \in DOMAIN batch'[q] :
           i \in Nat /\ i > 0 /\ i + l \in DOMAIN batch[q] /\ batch'[q][i] = batch[q][i + l]
    BY <1>1, <1>3, Shifted
  <2>3. r = q
    BY <1>2, <2>1, <2>2 DEF Apart
  <2>4. m \in Nat /\ m + k \in DOMAIN batch[r] /\ batch'[r][m] = batch[r][m + k]
    BY <2>1, <2>3
  <2>5. n \in Nat /\ n + k \in DOMAIN batch[r] /\ batch'[r][n] = batch[r][n + k]
    BY <2>1
  <2>6. n + k = m + k
    BY <1>2, <2>3, <2>4, <2>5 DEF Apart
  <2> QED
    BY <2>3, <2>4, <2>5, <2>6
<1>4. CASE ClaimBatch(r) /\ q = r
  BY <1>2, <1>4, LeasedNew
<1>5. CASE ClaimBatch(r) /\ q # r
  BY <1>2, <1>5, LeasedNew
<1>6. CASE ClaimBatch(q) /\ q # r
  BY <1>2, <1>6, LeasedNew
<1> QED
  BY <1>3, <1>4, <1>5, <1>6

(* A claim that stays where it was, and is not brought anywhere, is still  *)
(* about to be recorded or given up if it was.                             *)
LEMMA FreshKept ==
  ASSUME OutboxAssumption, Typed, Grows, NEW r \in Relay, NEW n \in DOMAIN batch[r], NEW s \in Sink,
         FreshOK(r, n, s), batch'[r] = batch[r],
         batch[r][n].attempt \in sent'[batch[r][n].event][s] =>
           batch[r][n].attempt \in sent[batch[r][n].event][s],
         \/ step'[r] = step[r] /\ hop'[r] = hop[r]
         \/ step'[r] = "reject"
  PROVE  FreshOK(r, n, s)'
<1>1. PICK e \in Event : e = batch[r][n].event /\ staged[e] # None
  <2>1. batch[r][n] \in Claim /\ staged[batch[r][n].event] # None
    BY DEF Typed, OutboxTypeOK, Held
  <2> QED
    BY <2>1, ClaimFields
<1>2. \/ staged'[e].delivered[s] = staged[e].delivered[s]
      \/ staged[e].delivered[s] = 0
  BY <1>1 DEF Grows
<1> QED
  BY <1>1, <1>2 DEF FreshOK

LEMMA FreshStep ==
  ASSUME OutboxAssumption, Known, Known', Apart, Fresh, OutboxNext
  PROVE  Fresh'
<1>1. Typed /\ ClaimsKnow /\ Grows
  BY Grown DEF Known
<1>2. SUFFICES ASSUME NEW r \in Relay, NEW n \in DOMAIN batch'[r], NEW s \in Sink
               PROVE  FreshOK(r, n, s)'
  BY DEF Fresh
<1>3. ASSUME batch'[r] = batch[r], step'[r] = step[r], hop'[r] = hop[r],
             batch[r][n].attempt \in sent'[batch[r][n].event][s] =>
               batch[r][n].attempt \in sent[batch[r][n].event][s]
      PROVE  FreshOK(r, n, s)'
  BY <1>1, <1>3, FreshKept DEF Fresh
<1>4. ASSUME NEW e \in Event, Stage(e) \/ FallDue(e) \/ Lapse(e) \/ Overrun(e)
      PROVE  FreshOK(r, n, s)'
  BY <1>3, <1>4 DEF Stage, FallDue, Lapse, Overrun
<1>5. ASSUME NEW q \in Relay, NEW b \in Seq(Claim), Turn(q, b), sent' = sent, r # q
      PROVE  FreshOK(r, n, s)'
  <2>1. batch'[r] = batch[r] /\ step'[r] = step[r] /\ hop'[r] = hop[r]
    BY <1>1, <1>5, Turned
  <2> QED
    BY <1>3, <1>5, <2>1
<1>6. ASSUME NEW q \in Relay, ClaimBatch(q)
      PROVE  FreshOK(r, n, s)'
  <2>1. sent' = sent
    BY Zenon, <1>6 DEF ClaimBatch
  <2>2. CASE r = q
    <3>1. batch'[r][n].attempt \notin sent[batch'[r][n].event][s]
      BY <1>6, <2>2, LeasedNew
    <3> QED
      BY <2>1, <3>1 DEF FreshOK
  <2>3. CASE r # q
    <3>1. PICK b \in Seq(Claim) : Turn(q, b)
      BY <1>1, <1>6, Leased DEF Lease
    <3> QED
      BY <1>5, <2>1, <2>3, <3>1
  <2> QED
    BY <2>2, <2>3
<1>7. ASSUME NEW q \in Relay, Deliver(q) \/ DeliverLate(q)
      PROVE  FreshOK(r, n, s)'
  <2>1. /\ AtSink(q) /\ UNCHANGED <<staged, batch, hop>>
        /\ sent' = [sent EXCEPT ![batch[q][1].event][Chain[hop[q]]] = @ \cup {batch[q][1].attempt}]
        /\ step' = [step EXCEPT ![q] = "record"] \/ step' = [step EXCEPT ![q] = "reject"]
    BY <1>7 DEF Deliver, DeliverLate, Bring
  <2>2. \A e \in Event, t \in Sink :
          sent'[e][t] = IF e = batch[q][1].event /\ t = Chain[hop[q]]
                        THEN sent[e][t] \cup {batch[q][1].attempt} ELSE sent[e][t]
    BY Zenon, <1>1, <2>1, BringTyped
  <2>3. step[q] = "publish" /\ 1 \in DOMAIN batch[q]
    BY <1>1, <2>1, AtHand DEF AtSink
  <2>4. batch[r][n] \in Claim /\ batch[r][n].event \in Event
    BY <1>1, <2>1, ClaimFields DEF Typed, OutboxTypeOK
  <2>5. CASE r = q /\ n = 1
    <3>1. step'[r] = "reject" \/ (step'[r] = "record" /\ hop'[r] = hop[r])
      BY <1>1, <2>1, <2>5 DEF Typed, OutboxTypeOK
    <3>2. CASE s = Chain[hop[r]]
      BY <2>1, <2>5, <3>1, <3>2 DEF FreshOK
    <3>3. CASE s # Chain[hop[r]]
      <4>1. sent'[batch[r][n].event][s] = sent[batch[r][n].event][s]
        BY <2>2, <2>4, <2>5, <3>3
      <4>2. FreshOK(r, n, s)
        BY <2>1 DEF Fresh
      <4> QED
        BY <2>1, <2>3, <2>5, <4>1, <4>2 DEF FreshOK
    <3> QED
      BY <3>2, <3>3
  <2>6. CASE ~(r = q /\ n = 1)
    <3>1. batch[r][n].attempt \in sent'[batch[r][n].event][s] =>
            batch[r][n].attempt \in sent[batch[r][n].event][s]
      <4>1. ~(batch[r][n].event = batch[q][1].event /\ batch[r][n].attempt = batch[q][1].attempt)
        BY <2>1, <2>3, <2>6 DEF Apart
      <4>2. PICK e \in Event, a \in Nat : e = batch[r][n].event /\ a = batch[r][n].attempt
        BY <2>4, ClaimFields
      <4>3. sent'[e][s] = IF e = batch[q][1].event /\ s = Chain[hop[q]]
                          THEN sent[e][s] \cup {batch[q][1].attempt} ELSE sent[e][s]
        BY <2>2
      <4>4. a \in sent'[e][s] => a \in sent[e][s]
        BY <4>1, <4>2, <4>3
      <4> QED
        BY <4>2, <4>4
    <3>2. CASE r # q
      <4>1. step'[r] = step[r] /\ hop'[r] = hop[r] /\ batch'[r] = batch[r]
        BY <1>1, <2>1, <3>2 DEF Typed, OutboxTypeOK
      <4> QED
        BY <1>3, <3>1, <4>1
    <3>3. CASE r = q
      <4>1. FreshOK(r, n, s)
        BY <2>1 DEF Fresh
      <4> QED
        BY <2>1, <2>6, <3>1, <3>3, <4>1 DEF FreshOK
    <3> QED
      BY <3>2, <3>3
  <2> QED
    BY <2>5, <2>6
<1>8. ASSUME NEW q \in Relay, Refuse(q) \/ Unrecorded(q)
      PROVE  FreshOK(r, n, s)'
  <2>1. UNCHANGED <<staged, batch, hop, sent>> /\ step' = [step EXCEPT ![q] = "reject"]
    BY <1>8 DEF Refuse, Unrecorded
  <2>2. step'[r] = step[r] \/ step'[r] = "reject"
    BY <1>1, <2>1 DEF Typed, OutboxTypeOK
  <2> QED
    BY <1>1, <2>1, <2>2, FreshKept DEF Fresh
<1>9. ASSUME NEW q \in Relay, Record(q)
      PROVE  FreshOK(r, n, s)'
  <2>1. UNCHANGED <<batch, sent>> /\ step[q] = "record"
    BY <1>9 DEF Record
  <2>2. CASE r # q
    <3>1. step'[r] = step[r] /\ hop'[r] = hop[r]
      BY <1>1, <1>9, <2>2 DEF Record, Typed, OutboxTypeOK
    <3> QED
      BY <1>3, <2>1, <3>1
  <2>3. CASE r = q
    <3>1. PICK e \in Event : e = batch[q][1].event /\ staged[e] # None
      BY <1>1, <2>1, AtHand
    <3>2. staged[e].attempts > 0 /\ staged[e].attempts \in Nat
      <4>1. 1 \in DOMAIN batch[q] /\ batch[q][1].attempt \in Nat /\ staged[e].attempts \in Nat
        BY <1>1, <2>1, <3>1, AtHand, RowTyped
      <4>2. ClaimOK(batch[q][1])
        BY <1>1, <4>1 DEF ClaimsKnow
      <4> QED
        BY <3>1, <4>1, <4>2 DEF ClaimOK
    <3>3. staged'[e].delivered[Chain[hop[q]]] > 0
      BY <1>1, <1>9, <3>1, <3>2, Remembered
    <3>4. FreshOK(r, n, s)
      BY <2>1 DEF Fresh
    <3>5. SUFFICES ASSUME staged'[batch[r][n].event].delivered[s] = 0,
                          batch[r][n].attempt \in sent[batch[r][n].event][s]
                   PROVE  FALSE
      BY <2>1 DEF FreshOK
    <3>6. staged[batch[r][n].event].delivered[s] = 0
      <4>1. batch[r][n].event \in Event /\ staged[batch[r][n].event] # None
        BY <1>1, <2>1, ClaimFields DEF Typed, OutboxTypeOK, Held
      <4> QED
        BY <1>1, <3>5, <4>1 DEF Grows
    <3>7. n = 1 /\ s = Chain[hop[q]]
      BY <2>1, <2>3, <3>4, <3>5, <3>6 DEF FreshOK
    <3> QED
      BY <2>3, <3>1, <3>3, <3>5, <3>7
  <2> QED
    BY <2>2, <2>3
<1>10. ASSUME NEW q \in Relay, Succeed(q) \/ Fail(q)
       PROVE  FreshOK(r, n, s)'
  <2>1. /\ step[q] # "idle" /\ sent' = sent /\ Turn(q, Tail(batch[q]))
        /\ batch' = [batch EXCEPT ![q] = Tail(batch[q])]
    BY Zenon, <1>10 DEF Succeed, Fail, AllTaken, Turn
  <2>2. batch[q] \in Seq(Claim) /\ batch[q] # <<>> /\ Tail(batch[q]) \in Seq(Claim)
    BY <1>1, <2>1, AtHand, RestOf
  <2>3. CASE r # q
    BY <1>5, <2>1, <2>2, <2>3
  <2>4. CASE r = q
    <3>1. /\ n + 1 \in DOMAIN batch[r] /\ batch'[r][n] = batch[r][n + 1] /\ n \in Nat /\ n > 0
      <4>1. batch'[r] = Tail(batch[r])
        BY <1>1, <2>1, <2>4 DEF Typed, OutboxTypeOK
      <4> QED
        BY <2>2, <2>4, <4>1
    <3>2. FreshOK(r, n + 1, s) /\ n + 1 # 1
      BY <3>1 DEF Fresh
    <3>3. batch[r][n + 1].event \in Event /\ staged[batch[r][n + 1].event] # None
      BY <1>1, <3>1, ClaimFields DEF Typed, OutboxTypeOK, Held
    <3>4. staged'[batch[r][n + 1].event].delivered = staged[batch[r][n + 1].event].delivered
      BY <1>1, <1>10, <3>3, Settled
    <3> QED
      BY <2>1, <3>1, <3>2, <3>4 DEF FreshOK
  <2> QED
    BY <2>3, <2>4
<1>11. ASSUME NEW q \in Relay, FailRaises(q) \/ Die(q)
       PROVE  FreshOK(r, n, s)'
  <2>1. Turn(q, <<>>) /\ sent' = sent /\ batch' = [batch EXCEPT ![q] = <<>>]
    BY <1>11 DEF FailRaises, Die, Turn
  <2>2. <<>> \in Seq(Claim)
    OBVIOUS
  <2>3. r # q
    BY <1>1, <1>2, <2>1 DEF Typed, OutboxTypeOK
  <2> QED
    BY <1>5, <2>1, <2>2, <2>3
<1> QED
  BY <1>4, <1>6, <1>7, <1>8, <1>9, <1>10, <1>11 DEF OutboxNext, Publish

(* Without a new claim there is no new attempt.                            *)
LEMMA NoNewTries ==
  ASSUME OutboxAssumption, Known, OutboxNext, \A r \in Relay : ~ClaimBatch(r),
         NEW e \in Event, NEW s \in Sink
  PROVE  Tries(e, s)' \subseteq Tries(e, s)
<1>1. Typed /\ HopsPassed
  BY DEF Known
<1>2. Live(e, s)' \subseteq Live(e, s)
  <2> SUFFICES ASSUME NEW a \in Nat, NEW r \in Relay, NEW n \in DOMAIN batch'[r],
                      batch'[r][n].event = e, batch'[r][n].attempt = a, s \notin batch'[r][n].skip
               PROVE  a \in Live(e, s)
    BY DEF Live
  <2>1. PICK m \in DOMAIN batch[r] : batch'[r][n] = batch[r][m]
    BY <1>1, OldClaim
  <2> QED
    BY <2>1 DEF Live
<1>3. CASE sent' = sent
  BY <1>2, <1>3 DEF Tries
<1>4. ASSUME NEW r \in Relay, Deliver(r) \/ DeliverLate(r)
      PROVE  sent'[e][s] \subseteq Tries(e, s)
  <2>1. /\ AtSink(r)
        /\ sent' = [sent EXCEPT ![batch[r][1].event][Chain[hop[r]]] = @ \cup {batch[r][1].attempt}]
    BY <1>4 DEF Deliver, DeliverLate, Bring
  <2>2. sent'[e][s] = IF e = batch[r][1].event /\ s = Chain[hop[r]]
                      THEN sent[e][s] \cup {batch[r][1].attempt} ELSE sent[e][s]
    BY Zenon, <1>1, <2>1, BringTyped
  <2>3. CASE e = batch[r][1].event /\ s = Chain[hop[r]]
    <3>1. 1 \in DOMAIN batch[r] /\ batch[r][1].attempt \in Nat
      BY <1>1, <2>1, AtHand DEF AtSink
    <3>2. s \notin batch[r][1].skip
      BY <1>1, <2>1, <2>3 DEF AtSink, HopsPassed, HopOK
    <3>3. batch[r][1].attempt \in Live(e, s)
      BY <2>3, <3>1, <3>2 DEF Live
    <3> QED
      BY <2>2, <3>3 DEF Tries
  <2>4. CASE ~(e = batch[r][1].event /\ s = Chain[hop[r]])
    BY <2>2, <2>4 DEF Tries
  <2> QED
    BY <2>3, <2>4
<1>5. sent' = sent \/ \E r \in Relay : Deliver(r) \/ DeliverLate(r)
  BY Zenon DEF OutboxNext, Publish, Stage, FallDue, Lapse, Overrun, ClaimBatch, Refuse, Record,
         Unrecorded, Succeed, Fail, FailRaises, Die
<1> QED
  BY <1>2, <1>3, <1>4, <1>5 DEF Tries

(* Without a relay that comes to give a claim up, nothing more is lost.    *)
LEMMA NoneLost ==
  ASSUME sent' = sent, NEW e, NEW s,
         \A q \in Relay : step'[q] = "reject" => step[q] = "reject" /\ batch'[q] = batch[q]
  PROVE  Lost(e, s)' \subseteq Lost(e, s)
  BY DEF Lost

(* A relay that turns to other claims gives none of them up.               *)
LEMMA NoneLostTurning ==
  ASSUME OutboxAssumption, Typed, NEW r \in Relay, NEW b \in Seq(Claim), Turn(r, b),
         sent' = sent, NEW e, NEW s
  PROVE  Lost(e, s)' \subseteq Lost(e, s)
<1>1. \A q \in Relay : step'[q] = "reject" => step[q] = "reject" /\ batch'[q] = batch[q]
  <2> SUFFICES ASSUME NEW q \in Relay, step'[q] = "reject"
               PROVE  step[q] = "reject" /\ batch'[q] = batch[q]
    OBVIOUS
  <2>1. q # r
    BY Turned
  <2> QED
    BY <2>1, Turned
<1> QED
  BY <1>1, NoneLost

(* An event whose row stays, and whose claims do, is no easier to claim.   *)
LEMMA ClaimableKept ==
  ASSUME NEW e \in Event,
         /\ staged'[e].state = staged[e].state /\ staged'[e].waiting = staged[e].waiting
         /\ \A q \in Relay : Current(q, e) => Current(q, e)'
  PROVE  Claimable(e)' => Claimable(e)
  BY DEF Claimable, Abandoned

(* A claim that is not at hand stays with its relay.                       *)
LEMMA CurrentKept ==
  ASSUME OutboxAssumption, Typed, NEW r \in Relay, step[r] # "idle", NEW e \in Event,
         e # batch[r][1].event, staged'[e] = staged[e],
         batch' = [batch EXCEPT ![r] = Tail(batch[r])]
  PROVE  \A q \in Relay : Current(q, e) => Current(q, e)'
<1> SUFFICES ASSUME NEW q \in Relay, Current(q, e)
             PROVE  Current(q, e)'
  OBVIOUS
<1>1. CASE q # r
  <2>1. batch'[q] = batch[q]
    BY <1>1 DEF Typed, OutboxTypeOK
  <2> QED
    BY <2>1 DEF Current
<1>2. CASE q = r
  <2>1. PICK n \in DOMAIN batch[r] : batch[r][n].event = e /\ batch[r][n].attempt = staged[e].attempts
    BY <1>2 DEF Current
  <2>2. batch[r] \in Seq(Claim) /\ batch[r] # <<>> /\ n # 1
    BY <2>1, AtHand
  <2>3. n - 1 \in DOMAIN Tail(batch[r]) /\ Tail(batch[r])[n - 1] = batch[r][n]
    BY <2>2
  <2>4. batch'[q] = Tail(batch[r])
    BY <1>2 DEF Typed, OutboxTypeOK
  <2> QED
    BY <2>1, <2>3, <2>4 DEF Current
<1> QED
  BY <1>1, <1>2

(* An attempt that is given up is lost to the account: it was on the way   *)
(* to the sink, or had come there in vain.                                 *)
LEMMA GivenUp ==
  ASSUME OutboxAssumption, Known, Apart, OutboxNext, NEW r \in Relay, Fail(r),
         NEW s \in Sink, NEW e \in Event, e = batch[r][1].event, staged[e].delivered[s] = 0
  PROVE  \/ batch[r][1].attempt \in Tries(e, s) \ Tries(e, s)'
         \/ batch[r][1].attempt \in Lost(e, s) \ Lost(e, s)'
<1>1. Typed /\ ClaimsKnow
  BY DEF Known
<1>2. /\ step[r] = "reject" /\ sent' = sent /\ Turn(r, Tail(batch[r]))
      /\ batch' = [batch EXCEPT ![r] = Tail(batch[r])]
  BY DEF Fail, Turn
<1>3. PICK a \in Nat : a = batch[r][1].attempt
  BY <1>1, <1>2, AtHand
<1>4. 1 \in DOMAIN batch[r] /\ batch[r] \in Seq(Claim) /\ batch[r] # <<>> /\ Tail(batch[r]) \in Seq(Claim)
  BY <1>1, <1>2, AtHand, RestOf
<1>5. \A q \in Relay : q # r => batch'[q] = batch[q] /\ step'[q] = step[q]
  BY <1>1, <1>2, <1>4, Turned
<1>6. CASE a \in sent[e][s]
  <2>1. a \in Lost(e, s)
    BY <1>2, <1>3, <1>6 DEF Lost
  <2>2. ASSUME a \in Lost(e, s)'
        PROVE  FALSE
    <3>1. PICK q \in Relay :
            step'[q] = "reject" /\ batch'[q][1].event = e /\ batch'[q][1].attempt = a
      BY <2>2 DEF Lost
    <3>2. q # r
      BY <1>1, <1>2, <1>4, <3>1, Turned
    <3>3. step[q] # "idle" /\ batch[q][1].event = e /\ batch[q][1].attempt = a
      BY <1>5, <3>1, <3>2
    <3>4. 1 \in DOMAIN batch[q]
      BY <1>1, <3>3, AtHand
    <3> QED
      BY <1>3, <1>4, <3>2, <3>3, <3>4 DEF Apart
  <2> QED
    BY <1>3, <2>1, <2>2
<1>7. CASE a \notin sent[e][s]
  <2>1. a \in Tries(e, s)
    <3>1. s \notin batch[r][1].skip
      BY <1>1, <1>4 DEF ClaimsKnow, ClaimOK
    <3> QED
      BY <1>3, <1>4, <3>1 DEF Tries, Live
  <2>2. ASSUME a \in Live(e, s)'
        PROVE  FALSE
    <3>0. PICK q \in Relay : \E n \in DOMAIN batch'[q] :
            batch'[q][n].event = e /\ batch'[q][n].attempt = a
      BY <2>2 DEF Live
    <3>1. PICK n \in DOMAIN batch'[q] : batch'[q][n].event = e /\ batch'[q][n].attempt = a
      BY <3>0
    <3>2. CASE q # r
      <4>1. batch'[q] = batch[q]
        BY <1>5, <3>2
      <4> QED
        BY <1>3, <1>4, <3>1, <3>2, <4>1 DEF Apart
    <3>3. CASE q = r
      <4>1. batch'[r] = Tail(batch[r])
        BY <1>1, <1>2, <1>4, Turned
      <4>2. n \in Nat /\ n > 0 /\ n + 1 \in DOMAIN batch[r] /\ batch'[r][n] = batch[r][n + 1]
        BY <1>4, <3>1, <3>3, <4>1
      <4>3. n + 1 = 1
        BY <1>3, <1>4, <3>1, <3>3, <4>2 DEF Apart
      <4> QED
        BY <4>2, <4>3
    <3> QED
      BY <3>2, <3>3
  <2> QED
    BY <1>2, <1>3, <1>7, <2>1, <2>2 DEF Tries
<1> QED
  BY <1>6, <1>7

LEMMA BudgetStep ==
  ASSUME OutboxAssumption, Budgeted, OutboxNext, NEW e \in Event, NEW s \in Sink
  PROVE  BudgetOK(e, s)'
<1>1. /\ Known /\ Apart /\ Fresh /\ BudgetOK(e, s)
      /\ Typed /\ ClaimsKnow /\ SentKnown
  BY DEF Budgeted, Known
<1>2. Known'
  BY <1>1, KnownNext
<1>3. mishaps \in Nat
  BY <1>1 DEF Typed, OutboxTypeOK
<1>4. CASE staged[e] = None
  <2>1. SUFFICES ASSUME staged'[e] # None
                 PROVE  BudgetOK(e, s)'
    BY DEF BudgetOK
  <2>2. sent[e][s] = {} /\ \A r \in Relay : \A n \in DOMAIN batch[r] : batch[r][n].event # e
    BY <1>1, <1>4 DEF SentKnown, Typed, Held
  <2>3. Stage(e)
    <3>1. ASSUME NEW d \in Event, FallDue(d) \/ Lapse(d) \/ Overrun(d)
          PROVE  staged'[e] = staged[e]
      BY <1>1, <1>4, <3>1, Ripened
    <3>2. ASSUME NEW d \in Event, Stage(d), d # e
          PROVE  staged'[e] = staged[e]
      BY <1>1, <3>2 DEF Stage, Typed, OutboxTypeOK
    <3>3. ASSUME NEW r \in Relay, ClaimBatch(r)
          PROVE  staged'[e] = staged[e]
      BY <1>1, <1>4, <3>3, Leased DEF Lease
    <3>4. ASSUME NEW r \in Relay, Succeed(r) \/ Fail(r)
          PROVE  staged'[e] = staged[e]
      BY <1>1, <1>4, <3>4, Settled
    <3>5. ASSUME NEW r \in Relay, Record(r)
          PROVE  staged'[e] = staged[e]
      BY <1>1, <1>4, <3>5, Remembered
    <3>6. ASSUME NEW r \in Relay, \/ Deliver(r) \/ DeliverLate(r) \/ Refuse(r) \/ Unrecorded(r)
                                  \/ FailRaises(r) \/ Die(r)
          PROVE  staged'[e] = staged[e]
      BY <3>6 DEF Deliver, DeliverLate, Bring, Refuse, Unrecorded, FailRaises, Die
    <3> QED
      BY <1>4, <2>1, <3>1, <3>2, <3>3, <3>4, <3>5, <3>6 DEF OutboxNext, Publish
  <2>4. UNCHANGED <<step, batch, hop, sent, mishaps>>
    BY <2>3 DEF Stage
  <2>5. Tries(e, s)' = {} /\ Lost(e, s)' = {}
    BY <2>2, <2>4 DEF Tries, Live, Lost
  <2>6. Cardinality(Tries(e, s)') = 0 /\ Cardinality(Lost(e, s)') = 0
    BY <2>5, FS_EmptySet
  <2> QED
    BY <1>3, <2>4, <2>6 DEF BudgetOK
<1>5. CASE staged[e] # None
  <2>1. /\ staged'[e].delivered[s] = 0 => staged[e].delivered[s] = 0
        /\ staged[e].attempts \in Nat /\ staged[e].delivered[s] \in Nat
    BY <1>1, <1>5, Grown, RowTyped DEF Grows
  <2>2. ASSUME \A r \in Relay : ~ClaimBatch(r)
        PROVE  Tries(e, s)' \subseteq Tries(e, s)
    BY <1>1, <2>2, NoNewTries
  <2>3. ASSUME UNCHANGED <<step, batch, sent>>
        PROVE  /\ Tries(e, s)' \subseteq Tries(e, s) /\ Lost(e, s)' \subseteq Lost(e, s)
               /\ staged'[e] = staged[e] => (Claimable(e)' => Claimable(e))
    BY <2>3 DEF Tries, Live, Lost, Claimable, Abandoned, Current
  <2>4. ASSUME NEW d \in Event, Stage(d)
        PROVE  BudgetOK(e, s)'
    <3>1. UNCHANGED <<step, batch, sent, mishaps>> /\ staged'[e] = staged[e]
      BY <1>1, <1>5, <2>4 DEF Stage, Typed, OutboxTypeOK
    <3> QED
      BY <1>1, <1>2, <1>5, <2>1, <2>3, <3>1, BudgetKept
  <2>5. ASSUME NEW d \in Event, FallDue(d) \/ Lapse(d)
        PROVE  BudgetOK(e, s)'
    <3>1. UNCHANGED <<step, batch, sent, mishaps>>
      BY <2>5 DEF FallDue, Lapse
    <3>2. CASE d # e
      <4>1. staged'[e] = staged[e]
        BY <1>1, <2>5, <3>2, Ripened
      <4> QED
        BY <1>1, <1>2, <1>5, <2>1, <2>3, <3>1, <4>1, BudgetKept
    <3>3. CASE d = e
      <4>1. Claimable(e)
        BY <2>5, <3>3 DEF FallDue, Lapse, Waits, Claimable
      <4> QED
        BY <1>1, <1>2, <1>5, <2>1, <2>3, <3>1, <4>1, BudgetKept
    <3> QED
      BY <3>2, <3>3
  <2>6. ASSUME NEW d \in Event, Overrun(d)
        PROVE  BudgetOK(e, s)'
    <3>1. UNCHANGED <<step, batch, sent>> /\ mishaps' = mishaps + 1
      BY <2>6 DEF Overrun, Suffer
    <3> QED
      BY <1>1, <1>2, <1>5, <2>1, <2>3, <3>1, BudgetKept
  <2>7. ASSUME NEW r \in Relay, ClaimBatch(r)
        PROVE  BudgetOK(e, s)'
    <3>1. PICK b \in Seq(Claim) : Lease(r, b)
      BY <1>1, <2>7, Leased
    <3>2. /\ UNCHANGED <<sent, mishaps>> /\ Turn(r, b) /\ batch'[r] = b
          /\ batch[r] = <<>> /\ \A q \in Relay : q # r => batch'[q] = batch[q]
      <4>1. Turn(r, b) /\ UNCHANGED <<sent, mishaps>>
        BY Zenon, <2>7, <3>1 DEF ClaimBatch, Lease
      <4> QED
        BY <1>1, <2>7, <4>1, Turned, LeasedNew
    <3>3. Lost(e, s)' \subseteq Lost(e, s)
      BY <1>1, <3>2, NoneLostTurning
    <3>4. ASSUME NEW a \in Nat, a \in Live(e, s)'
          PROVE  \/ a \in Live(e, s)
                 \/ \E n \in DOMAIN b : b[n].event = e /\ b[n].attempt = a /\ s \notin b[n].skip
      <4>1. PICK q \in Relay : \E n \in DOMAIN batch'[q] :
              batch'[q][n].event = e /\ batch'[q][n].attempt = a /\ s \notin batch'[q][n].skip
        BY <3>4 DEF Live
      <4> QED
        BY <3>2, <4>1 DEF Live
    <3>5. CASE \A n \in DOMAIN b : b[n].event # e
      <4>1. staged'[e] = staged[e]
        BY <3>1, <3>5 DEF Lease
      <4>2. Tries(e, s)' \subseteq Tries(e, s)
        BY <3>2, <3>4, <3>5 DEF Tries, Live
      <4>3. \A q \in Relay : Current(q, e) => Current(q, e)'
        BY <3>2, <4>1 DEF Current
      <4>4. Claimable(e)' => Claimable(e)
        BY <4>1, <4>3, ClaimableKept
      <4> QED
        BY <1>1, <1>2, <1>5, <2>1, <3>2, <3>3, <4>2, <4>4, BudgetKept
    <3>6. CASE \E n \in DOMAIN b : b[n].event = e
      <4>1. PICK n \in DOMAIN b : b[n].event = e
        BY <3>6
      <4>2. /\ staged[e].state \in {"PENDING", "RUNNING"} /\ ~staged[e].waiting
            /\ staged'[e].state = "RUNNING" /\ staged'[e].waiting
            /\ staged'[e].attempts = staged[e].attempts + 1
            /\ staged'[e].delivered = staged[e].delivered
            /\ b[n].attempt = staged[e].attempts + 1
            /\ b[n].skip = Recorded(staged[e])
            /\ \A m \in DOMAIN b : b[m].event = e => m = n
        BY <3>1, <4>1 DEF Lease
      <4>3. CASE staged[e].delivered[s] = 0
        <5>1. Claimable(e)
          BY <4>2 DEF Claimable
        <5>2. ~Claimable(e)'
          BY <3>2, <4>1, <4>2 DEF Claimable, Abandoned, Current
        <5>3. Tries(e, s)' \subseteq Tries(e, s) \cup {b[n].attempt}
          BY <3>2, <3>4, <4>2 DEF Tries, Live
        <5> QED
          BY <1>1, <1>2, <1>5, <2>1, <3>2, <3>3, <4>3, <5>1, <5>2, <5>3, BudgetKept
      <4>4. CASE staged[e].delivered[s] # 0
        <5>1. s \in b[n].skip
          BY <2>1, <4>2, <4>4 DEF Recorded
        <5>2. Tries(e, s)' \subseteq Tries(e, s)
          BY <3>2, <3>4, <4>2, <5>1 DEF Tries, Live
        <5>3. staged'[e].delivered[s] # 0
          BY <4>2, <4>4
        <5> QED
          BY <1>1, <1>2, <1>5, <2>1, <3>2, <5>2, <5>3, BudgetKept
      <4> QED
        BY <4>3, <4>4
    <3> QED
      BY <3>5, <3>6
  <2>8. CASE \A r \in Relay : ~ClaimBatch(r)
    <3>1. Tries(e, s)' \subseteq Tries(e, s)
      BY <2>2, <2>8
    <3>2. ASSUME UNCHANGED <<staged, batch>>
          PROVE  Claimable(e)' => Claimable(e)
      BY <3>2 DEF Claimable, Abandoned, Current
    <3>3. ASSUME NEW r \in Relay, Deliver(r)
          PROVE  BudgetOK(e, s)'
      <4>1. /\ UNCHANGED <<staged, batch, mishaps>> /\ AtSink(r) /\ step' = [step EXCEPT ![r] = "record"]
            /\ sent' = [sent EXCEPT ![batch[r][1].event][Chain[hop[r]]] = @ \cup {batch[r][1].attempt}]
        BY <3>3 DEF Deliver, Bring
      <4>2. sent'[e][s] = IF e = batch[r][1].event /\ s = Chain[hop[r]]
                          THEN sent[e][s] \cup {batch[r][1].attempt} ELSE sent[e][s]
        BY Zenon, <1>1, <4>1, BringTyped
      <4>3. ASSUME NEW a \in Lost(e, s)'
            PROVE  a \in Lost(e, s)
        <5>1. PICK q \in Relay : /\ a \in sent'[e][s] /\ step'[q] = "reject"
                                 /\ batch[q][1].event = e /\ batch[q][1].attempt = a
          BY <4>1, <4>3 DEF Lost
        <5>2. q # r /\ step[q] = "reject"
          BY <1>1, <4>1, <5>1 DEF Typed, OutboxTypeOK
        <5>3. 1 \in DOMAIN batch[q] /\ 1 \in DOMAIN batch[r]
          BY <1>1, <4>1, <5>2, AtHand DEF AtSink
        <5>4. ~(batch[r][1].event = e /\ batch[r][1].attempt = a)
          BY <1>1, <5>1, <5>2, <5>3 DEF Apart
        <5>5. a \in sent[e][s]
          BY <4>2, <5>1, <5>4
        <5> QED
          BY <5>1, <5>2, <5>5 DEF Lost
      <4> QED
        BY <1>1, <1>2, <1>5, <2>1, <3>1, <3>2, <4>1, <4>3, BudgetKept
    <3>4. ASSUME NEW r \in Relay, DeliverLate(r)
          PROVE  BudgetOK(e, s)'
      <4>1. /\ UNCHANGED <<staged, batch>> /\ mishaps' = mishaps + 1 /\ AtSink(r)
            /\ step' = [step EXCEPT ![r] = "reject"]
            /\ sent' = [sent EXCEPT ![batch[r][1].event][Chain[hop[r]]] = @ \cup {batch[r][1].attempt}]
        BY <3>4 DEF DeliverLate, Bring, Suffer
      <4>2. sent'[e][s] = IF e = batch[r][1].event /\ s = Chain[hop[r]]
                          THEN sent[e][s] \cup {batch[r][1].attempt} ELSE sent[e][s]
        BY Zenon, <1>1, <4>1, BringTyped
      <4>3. Lost(e, s)' \subseteq Lost(e, s) \cup {batch[r][1].attempt}
        <5> SUFFICES ASSUME NEW a \in Lost(e, s)', a # batch[r][1].attempt
                     PROVE  a \in Lost(e, s)
          OBVIOUS
        <5>1. PICK q \in Relay : /\ a \in sent'[e][s] /\ step'[q] = "reject"
                                 /\ batch[q][1].event = e /\ batch[q][1].attempt = a
          BY <4>1 DEF Lost
        <5>2. q # r /\ step[q] = "reject"
          BY <1>1, <4>1, <5>1 DEF Typed, OutboxTypeOK
        <5>3. a \in sent[e][s]
          BY <4>2, <5>1
        <5> QED
          BY <5>1, <5>2, <5>3 DEF Lost
      <4> QED
        BY <1>1, <1>2, <1>5, <2>1, <3>1, <3>2, <4>1, <4>3, BudgetKept
    <3>5. ASSUME NEW r \in Relay, Refuse(r) \/ Unrecorded(r)
          PROVE  BudgetOK(e, s)'
      <4>1. UNCHANGED <<staged, batch, sent>> /\ step' = [step EXCEPT ![r] = "reject"]
        BY <3>5 DEF Refuse, Unrecorded
      <4>2. ASSUME NEW a \in Lost(e, s)', a \notin Lost(e, s)
            PROVE  batch[r][1].event = e /\ batch[r][1].attempt = a /\ a \in sent[e][s]
        <5>1. PICK q \in Relay : /\ a \in sent[e][s] /\ step'[q] = "reject"
                                 /\ batch[q][1].event = e /\ batch[q][1].attempt = a
          BY <4>1, <4>2 DEF Lost
        <5>2. q = r
          BY <1>1, <4>1, <4>2, <5>1 DEF Typed, OutboxTypeOK, Lost
        <5> QED
          BY <5>1, <5>2
      <4>3. CASE Refuse(r)
        <5>1. mishaps' = mishaps /\ step[r] = "publish"
          BY <4>3 DEF Refuse, AtSink
        <5>2. 1 \in DOMAIN batch[r]
          BY <1>1, <5>1, AtHand
        <5>3. staged[e].delivered[s] = 0 => Lost(e, s)' \subseteq Lost(e, s)
          <6>1. FreshOK(r, 1, s)
            BY <1>1, <5>2 DEF Fresh
          <6> QED
            BY <4>2, <5>1, <6>1 DEF FreshOK
        <5> QED
          BY <1>1, <1>2, <1>5, <2>1, <3>1, <3>2, <4>1, <5>1, <5>3, BudgetKept
      <4>4. CASE Unrecorded(r)
        <5>1. mishaps' = mishaps + 1
          BY <4>4 DEF Unrecorded, Suffer
        <5>2. Lost(e, s)' \subseteq Lost(e, s) \cup {batch[r][1].attempt}
          BY <4>2
        <5> QED
          BY <1>1, <1>2, <1>5, <2>1, <3>1, <3>2, <4>1, <5>1, <5>2, BudgetKept
      <4> QED
        BY <3>5, <4>3, <4>4
    <3>6. ASSUME NEW r \in Relay, Record(r)
          PROVE  BudgetOK(e, s)'
      <4>1. /\ UNCHANGED <<batch, sent, mishaps>> /\ step[r] = "record"
            /\ step' = [step EXCEPT ![r] = "publish"]
        BY <3>6 DEF Record
      <4>2. Lost(e, s)' \subseteq Lost(e, s)
        <5>1. \A q \in Relay : step'[q] = "reject" => step[q] = "reject" /\ batch'[q] = batch[q]
          BY <1>1, <4>1 DEF Typed, OutboxTypeOK
        <5> QED
          BY <4>1, <5>1, NoneLost
      <4>3. /\ staged'[e].state = staged[e].state /\ staged'[e].waiting = staged[e].waiting
            /\ staged'[e].attempts = staged[e].attempts
        BY <1>1, <1>5, <3>6, Remembered
      <4>4. \A q \in Relay : Current(q, e) => Current(q, e)'
        BY <4>1, <4>3 DEF Current
      <4>5. Claimable(e)' => Claimable(e)
        BY <4>3, <4>4, ClaimableKept
      <4> QED
        BY <1>1, <1>2, <1>5, <2>1, <3>1, <4>1, <4>2, <4>5, BudgetKept
    <3>7. ASSUME NEW r \in Relay, Succeed(r) \/ Fail(r)
          PROVE  BudgetOK(e, s)'
      <4>1. /\ step[r] # "idle" /\ UNCHANGED <<sent, mishaps>> /\ Turn(r, Tail(batch[r]))
            /\ batch' = [batch EXCEPT ![r] = Tail(batch[r])]
        BY Zenon, <3>7 DEF Succeed, Fail, AllTaken, Turn
      <4>2. Tail(batch[r]) \in Seq(Claim)
        BY <1>1, <4>1, AtHand, RestOf
      <4>3. Lost(e, s)' \subseteq Lost(e, s)
        BY <1>1, <4>1, <4>2, NoneLostTurning
      <4>4. CASE e # batch[r][1].event
        <5>1. staged'[e] = staged[e]
          BY <1>1, <3>7, <4>4, Settled
        <5>2. Claimable(e)' => Claimable(e)
          BY <1>1, <4>1, <4>4, <5>1, CurrentKept, ClaimableKept
        <5> QED
          BY <1>1, <1>2, <1>5, <2>1, <3>1, <4>1, <4>3, <5>2, BudgetKept
      <4>5. CASE e = batch[r][1].event /\ staged[e].state # "RUNNING"
        <5>1. staged' = staged
          BY <1>1, <3>7, <4>5, Settled
        <5>2. Claimable(e)' => Claimable(e)
          BY <4>5, <5>1 DEF Claimable
        <5> QED
          BY <1>1, <1>2, <1>5, <2>1, <3>1, <4>1, <4>3, <5>2, BudgetKept
      <4>6. CASE /\ e = batch[r][1].event /\ staged[e].state = "RUNNING"
                 /\ staged'[e].state \in {"SUCCEEDED", "FAILED"}
        <5>1. ~Claimable(e)'
          BY <4>6 DEF Claimable
        <5> QED
          BY <1>1, <1>2, <1>5, <2>1, <3>1, <4>1, <4>3, <5>1, BudgetKept
      <4>7. CASE e = batch[r][1].event /\ Fail(r)
        <5>1. staged[e].delivered[s] = 0 =>
                \/ batch[r][1].attempt \in Tries(e, s) \ Tries(e, s)'
                \/ batch[r][1].attempt \in Lost(e, s) \ Lost(e, s)'
          BY <1>1, <4>7, GivenUp
        <5> QED
          BY <1>1, <1>2, <1>5, <2>1, <3>1, <4>1, <4>3, <5>1, BudgetKept
      <4> QED
        BY <1>1, <3>7, <4>4, <4>5, <4>6, <4>7, Settled
    <3>8. ASSUME NEW r \in Relay, FailRaises(r) \/ Die(r)
          PROVE  BudgetOK(e, s)'
      <4>1. /\ sent' = sent /\ mishaps' = mishaps + 1 /\ Turn(r, <<>>) /\ <<>> \in Seq(Claim)
        BY <3>8 DEF FailRaises, Die, Suffer
      <4>2. Lost(e, s)' \subseteq Lost(e, s)
        BY <1>1, <4>1, NoneLostTurning
      <4> QED
        BY <1>1, <1>2, <1>5, <2>1, <3>1, <4>1, <4>2, BudgetKept
    <3> QED
      BY <2>4, <2>5, <2>6, <2>8, <3>3, <3>4, <3>5, <3>6, <3>7, <3>8 DEF OutboxNext, Publish
  <2> QED
    BY <2>7, <2>8
<1> QED
  BY <1>4, <1>5

(* A sink sees an event at most one time more than something went wrong:   *)
(* outbox_store_java.java:126-138.                                         *)
THEOREM DuplicatesAreAccounted ==
  ASSUME OutboxAssumption
  PROVE  OutboxSpec => []DuplicatesAccounted
<1>1. OutboxInit => Budgeted
  <2> SUFFICES ASSUME OutboxInit
               PROVE  Budgeted
    OBVIOUS
  <2>1. Known
    BY KnownInit
  <2>2. Apart /\ Fresh /\ \A e \in Event, s \in Sink : BudgetOK(e, s)
    BY DEF OutboxInit, Apart, Fresh, BudgetOK
  <2> QED
    BY <2>1, <2>2 DEF Budgeted
<1>2. Budgeted /\ [OutboxNext]_outboxVars => Budgeted'
  <2> SUFFICES ASSUME Budgeted, [OutboxNext]_outboxVars
               PROVE  Budgeted'
    OBVIOUS
  <2>1. Known'
    BY KnownNext DEF Budgeted
  <2>2. CASE OutboxNext
    <3>1. Apart' /\ Fresh'
      BY <2>1, <2>2, ApartStep, FreshStep DEF Budgeted
    <3> QED
      BY <2>1, <2>2, <3>1, BudgetStep DEF Budgeted
  <2>3. CASE UNCHANGED outboxVars
    <3>1. Apart' /\ Fresh'
      BY <2>3 DEF Budgeted, Apart, Fresh, FreshOK, outboxVars
    <3>2. \A e \in Event, s \in Sink : BudgetOK(e, s)'
      <4> SUFFICES ASSUME NEW e \in Event, NEW s \in Sink
                   PROVE  BudgetOK(e, s)'
        OBVIOUS
      <4>1. Tries(e, s)' = Tries(e, s) /\ Lost(e, s)' = Lost(e, s)
        BY <2>3 DEF Tries, Live, Lost, outboxVars
      <4>2. Claimable(e)' <=> Claimable(e)
        BY <2>3 DEF Claimable, Abandoned, Current, outboxVars
      <4> QED
        BY <2>3, <4>1, <4>2 DEF Budgeted, BudgetOK, outboxVars
    <3> QED
      BY <2>1, <3>1, <3>2 DEF Budgeted
  <2> QED
    BY <2>2, <2>3
<1>3. Budgeted => DuplicatesAccounted
  <2> SUFFICES ASSUME Budgeted, NEW e \in Event, NEW s \in Sink
               PROVE  Cardinality(sent[e][s]) <= 1 + mishaps
    BY DEF DuplicatesAccounted
  <2>1. Known /\ SentKnown /\ mishaps \in Nat /\ BudgetOK(e, s)
    BY DEF Budgeted, Known, Typed, OutboxTypeOK
  <2>2. CASE staged[e] = None
    <3>1. sent[e][s] = {}
      BY <2>1, <2>2 DEF SentKnown
    <3> QED
      BY <2>1, <3>1, FS_EmptySet
  <2>3. CASE staged[e] # None
    <3>1. /\ IsFiniteSet(Tries(e, s)) /\ Cardinality(Tries(e, s)) \in Nat
          /\ Cardinality(Tries(e, s)) <= 1 + mishaps
      BY <2>1, <2>3, TriesFinite DEF BudgetOK
    <3>2. /\ IsFiniteSet(sent[e][s]) /\ Cardinality(sent[e][s]) <= Cardinality(Tries(e, s))
      BY <3>1, FS_Subset DEF Tries
    <3> QED
      BY <2>1, <3>1, <3>2, FS_CardinalityType
  <2> QED
    BY <2>2, <2>3
<1> QED
  BY <1>1, <1>2, <1>3, PTL DEF OutboxSpec
=============================================================================
