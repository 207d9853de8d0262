--------------------------- MODULE WorkflowProofs ---------------------------
(***************************************************************************)
(* What is proved of the HTTP workflow, for any site, limits, policies and *)
(* any number of processes and mishaps: the types, the limits of a run,    *)
(* that a cancellation settles it, and that it implements Traversal.       *)
(***************************************************************************)
EXTENDS Workflow, FiniteSetTheorems, TLAPS

Frontier == [Url -> Row \cup {None}]
Labels == {"idle", "fetch", "complete", "retry", "give up"}

(* Rows and claims.                                                        *)

LEMMA RowFields ==
  ASSUME NEW row \in Row
  PROVE  /\ row # None
         /\ row.state \in Unsettled \cup Ended
         /\ row.depth \in Int
         /\ row.attempts \in Nat
         /\ row.waiting \in BOOLEAN
  BY NoneAssumption DEF Row

(* A row in some state is there.                                           *)
LEMMA InIsRow ==
  ASSUME NEW u \in Url, frontier \in Frontier, NEW S, In(u, S)
  PROVE  frontier[u] \in Row /\ frontier[u].state \in S
  BY DEF In, Frontier

LEMMA FreshIsRow ==
  ASSUME NEW depth \in Int
  PROVE  /\ Fresh(depth) \in Row /\ Fresh(depth) # None
         /\ Fresh(depth).depth = depth /\ Fresh(depth).state = "PENDING"
<1>1. Fresh(depth) \in Row
  BY DEF Fresh, Row, Unsettled
<1> QED
  BY <1>1, NoneAssumption DEF Fresh

(* Marking a row keeps every row, its depth, and what is absent.           *)
LEMMA MarkedKeeps ==
  ASSUME NEW f \in Frontier, NEW u \in Url, f[u] # None,
         NEW state \in {"SUCCEEDED", "FAILED", "CANCELLED"}
  PROVE  /\ Marked(f, u, state) \in Frontier
         /\ \A v \in Url : /\ Marked(f, u, state)[v] = None <=> f[v] = None
                           /\ f[v] # None => Marked(f, u, state)[v].depth = f[v].depth
         /\ \A v \in Url : f[v] # None /\ f[v].state \notin Unsettled =>
              Marked(f, u, state)[v] = f[v]
<1>1. f[u] \in Row
  BY DEF Frontier
<1>2. CASE f[u].state # "RUNNING"
  BY <1>2 DEF Marked
<1>3. CASE f[u].state = "RUNNING"
  <2>1. Marked(f, u, state) = [f EXCEPT ![u] = [f[u] EXCEPT !.state = state, !.waiting = FALSE]]
    BY <1>3 DEF Marked, Frontier
  <2>2. [f[u] EXCEPT !.state = state, !.waiting = FALSE] \in Row
    BY <1>1 DEF Row, Ended
  <2>3. [f[u] EXCEPT !.state = state, !.waiting = FALSE].depth = f[u].depth
    BY <1>1 DEF Row
  <2>4. [f[u] EXCEPT !.state = state, !.waiting = FALSE] # None
    BY <2>2, RowFields
  <2> QED
    BY <1>3, <2>1, <2>2, <2>3, <2>4 DEF Frontier, Unsettled
<1> QED
  BY <1>2, <1>3

LEMMA AllCancelledKeeps ==
  ASSUME NEW f \in Frontier
  PROVE  /\ AllCancelled(f) \in Frontier
         /\ \A v \in Url : /\ AllCancelled(f)[v] = None <=> f[v] = None
                           /\ f[v] # None => /\ AllCancelled(f)[v].depth = f[v].depth
                                             /\ AllCancelled(f)[v].state \notin Unsettled
<1> SUFFICES ASSUME NEW v \in Url
             PROVE  /\ AllCancelled(f)[v] \in Row \cup {None}
                    /\ AllCancelled(f)[v] = None <=> f[v] = None
                    /\ f[v] # None => /\ AllCancelled(f)[v].depth = f[v].depth
                                      /\ AllCancelled(f)[v].state \notin Unsettled
  BY DEF AllCancelled, Frontier
<1>1. CASE f[v] # None /\ f[v].state \in Unsettled
  <2>1. f[v] \in Row
    BY <1>1 DEF Frontier
  <2>2. AllCancelled(f)[v] = [f[v] EXCEPT !.state = "CANCELLED", !.waiting = FALSE]
    BY <1>1 DEF AllCancelled
  <2>3. /\ AllCancelled(f)[v] \in Row
        /\ AllCancelled(f)[v].depth = f[v].depth
        /\ AllCancelled(f)[v].state = "CANCELLED"
    BY <2>1, <2>2 DEF Row, Ended
  <2> QED
    BY <1>1, <2>3, RowFields DEF Unsettled
<1>2. CASE ~(f[v] # None /\ f[v].state \in Unsettled)
  BY <1>2 DEF AllCancelled, Frontier
<1> QED
  BY <1>1, <1>2

(***************************************************************************)
(* Types.  They are inductive together with Held: whatever a worker has    *)
(* leased is still a row, since no row is ever deleted.                    *)
(***************************************************************************)
Held == \A p \in Process : claim[p] # None => frontier[claim[p].url] # None

Typed == TypeOK /\ Held

(* The row a working worker holds.                                         *)
LEMMA HeldRow ==
  ASSUME Typed, NEW p \in Process, at[p] # "idle"
  PROVE  /\ claim[p] \in Claim /\ claim[p] # None
         /\ claim[p].url \in Url /\ claim[p].attempt \in Nat
         /\ frontier \in Frontier
         /\ frontier[claim[p].url] # None /\ frontier[claim[p].url] \in Row
<1>1. claim[p] # None /\ claim[p] \in Claim
  BY DEF Typed, TypeOK
<1>2. claim[p].url \in Url /\ claim[p].attempt \in Nat
  BY <1>1 DEF Claim
<1> QED
  BY <1>1, <1>2 DEF Typed, TypeOK, Held, Frontier

LEMMA FinishedStatus ==
  ASSUME TypeOK, NEW f
  PROVE  /\ Finished(f) \in {"none"} \cup Open \cup Ended
         /\ Finished(f) = "CANCELLED" => status = "CANCELLED"
  BY DEF Finished, TypeOK, Open, Ended

(* What releasing, or going on, leaves of the types of the workers.        *)
LEMMA WorkerReleased ==
  ASSUME Typed, NEW p \in Process, Release(p),
         frontier' \in Frontier, \A u \in Url : frontier[u] # None => frontier'[u] # None
  PROVE  /\ at' \in [Process -> Labels]
         /\ claim' \in [Process -> Claim \cup {None}]
         /\ \A q \in Process : claim'[q] = None <=> at'[q] = "idle"
         /\ Held'
<1> USE DEF Typed, TypeOK, Release, Goto, Labels
<1>1. at' \in [Process -> Labels] /\ claim' \in [Process -> Claim \cup {None}]
  OBVIOUS
<1>2. \A q \in Process : claim'[q] = None <=> at'[q] = "idle"
  OBVIOUS
<1>3. SUFFICES ASSUME NEW q \in Process, claim'[q] # None
               PROVE  frontier'[claim'[q].url] # None
  BY <1>1, <1>2 DEF Held
<1>4. q # p /\ claim'[q] = claim[q] /\ claim[q] # None
  BY <1>3
<1>5. claim[q].url \in Url
  BY <1>4 DEF Claim
<1> QED
  BY <1>4, <1>5 DEF Held

LEMMA WorkerGoesOn ==
  ASSUME Typed, NEW p \in Process, at[p] # "idle",
         NEW label \in {"fetch", "complete", "retry", "give up"}, Goto(p, label),
         UNCHANGED claim,
         frontier' \in Frontier, \A u \in Url : frontier[u] # None => frontier'[u] # None
  PROVE  /\ at' \in [Process -> Labels]
         /\ claim' \in [Process -> Claim \cup {None}]
         /\ \A q \in Process : claim'[q] = None <=> at'[q] = "idle"
         /\ Held'
<1> USE DEF Typed, TypeOK, Goto, Labels
<1>1. at' \in [Process -> Labels] /\ claim' \in [Process -> Claim \cup {None}]
  OBVIOUS
<1>2. \A q \in Process : claim'[q] = None <=> at'[q] = "idle"
  OBVIOUS
<1>3. \A q \in Process : claim[q] # None => claim[q].url \in Url
  BY DEF Claim
<1> QED
  BY <1>1, <1>2, <1>3 DEF Held

(* The workers as they were, the rows still there.                         *)
LEMMA WorkersStay ==
  ASSUME Typed, UNCHANGED worker,
         frontier' \in Frontier, \A u \in Url : frontier[u] # None => frontier'[u] # None
  PROVE  /\ at' \in [Process -> Labels]
         /\ claim' \in [Process -> Claim \cup {None}]
         /\ \A q \in Process : claim'[q] = None <=> at'[q] = "idle"
         /\ Held'
<1>1. \A q \in Process : claim[q] # None => claim[q].url \in Url
  BY DEF Claim, Typed, TypeOK
<1> QED
  BY <1>1 DEF Typed, TypeOK, Labels, Held, worker

(* What a committed `complete` does to a run and its rows.                 *)
LEMMA CommitKeeps ==
  ASSUME Typed, NEW p \in Process, at[p] = "complete", Commit(p)
  PROVE  /\ status' \in {"none"} \cup Open \cup Ended
         /\ rules' \subseteq Url
         /\ pages' \subseteq Page
         /\ visited' \in Nat
         /\ frontier' \in Frontier
         /\ \A u \in Url : frontier[u] # None => frontier'[u] # None
<1> DEFINE u == claim[p].url
<1>1. u \in Url /\ frontier \in Frontier /\ frontier[u] # None /\ frontier[u] \in Row
  BY HeldRow
<1>2. CASE status = "CANCELLED"
  <2>1. frontier' = Marked(frontier, u, "CANCELLED") /\ UNCHANGED run
    BY <1>2 DEF Commit
  <2> QED
    BY <1>1, <2>1, MarkedKeeps DEF Typed, TypeOK, run
<1>3. CASE status # "CANCELLED" /\ CompletePolicy(p)
  <2>1. PICK policy \in Policies :
          LET planned == IF Seed \in policy /\ frontier[Seed] = None
                         THEN [frontier EXCEPT ![Seed] = Fresh(0)] ELSE frontier
          IN
          /\ rules' = policy
          /\ frontier' = Marked(planned, Robots, "SUCCEEDED")
          /\ status' = Finished(frontier')
          /\ UNCHANGED <<pages, visited>>
    BY <1>3 DEF CompletePolicy
  <2> DEFINE planned == IF Seed \in policy /\ frontier[Seed] = None
                        THEN [frontier EXCEPT ![Seed] = Fresh(0)] ELSE frontier
  <2>2. u = Robots
    BY <1>3 DEF CompletePolicy
  <2>3. Fresh(0) \in Row /\ Fresh(0) # None
    BY FreshIsRow
  <2>4. planned \in Frontier /\ \A v \in Url : frontier[v] # None => planned[v] # None
    BY <1>1, <2>3 DEF Frontier
  <2>5. frontier' = Marked(planned, Robots, "SUCCEEDED")
    BY <2>1
  <2>6. frontier' \in Frontier /\ \A v \in Url : frontier'[v] = None <=> planned[v] = None
    <3> HIDE DEF planned
    <3> QED
      BY <1>1, <2>2, <2>4, <2>5, MarkedKeeps
  <2>7. rules' \subseteq Url
    BY <2>1, UrlAssumption
  <2>8. status' \in {"none"} \cup Open \cup Ended
    BY <2>1, FinishedStatus DEF Typed
  <2> HIDE DEF planned
  <2> QED
    BY <1>1, <2>1, <2>4, <2>6, <2>7, <2>8 DEF Typed, TypeOK
<1>4. CASE status # "CANCELLED" /\ CompletePage(p)
  <2>0. PICK links \in Links[u] :
          \E fit \in SUBSET {v \in links : frontier[v] = None /\ v \in rules} :
            /\ pages' = pages \cup {u}
            /\ visited' = visited + Inserted(u)
            /\ frontier' = Marked([v \in Url |-> IF v \in fit THEN Fresh(frontier[u].depth + 1)
                                                 ELSE frontier[v]], u, "SUCCEEDED")
            /\ status' = Finished(frontier')
            /\ UNCHANGED rules
    BY <1>4 DEF CompletePage
  <2>1. PICK fit \in SUBSET {v \in links : frontier[v] = None /\ v \in rules} :
          /\ pages' = pages \cup {u}
          /\ visited' = visited + Inserted(u)
          /\ frontier' = Marked([v \in Url |-> IF v \in fit THEN Fresh(frontier[u].depth + 1)
                                               ELSE frontier[v]], u, "SUCCEEDED")
          /\ status' = Finished(frontier')
          /\ UNCHANGED rules
    BY <2>0
  <2> DEFINE grown == [v \in Url |-> IF v \in fit THEN Fresh(frontier[u].depth + 1)
                                     ELSE frontier[v]]
  <2>2. u \in Page
    BY <1>4 DEF CompletePage
  <2>3. frontier[u].depth + 1 \in Int
    BY <1>1, RowFields
  <2>4. Fresh(frontier[u].depth + 1) \in Row /\ Fresh(frontier[u].depth + 1) # None
    BY <2>3, FreshIsRow
  <2>5. grown \in Frontier /\ \A v \in Url : frontier[v] # None => grown[v] # None
    BY <1>1, <2>4 DEF Frontier
  <2>6. frontier' = Marked(grown, u, "SUCCEEDED")
    BY <2>1
  <2>7. frontier' \in Frontier /\ \A v \in Url : frontier'[v] = None <=> grown[v] = None
    <3> HIDE DEF grown
    <3> QED
      BY <1>1, <2>5, <2>6, MarkedKeeps
  <2>8. status' \in {"none"} \cup Open \cup Ended
    BY <2>1, FinishedStatus DEF Typed
  <2>9. Inserted(u) \in Nat
    BY DEF Inserted
  <2>10. pages' \subseteq Page /\ visited' \in Nat /\ rules' \subseteq Url
    <3>1. pages' = pages \cup {u} /\ visited' = visited + Inserted(u) /\ UNCHANGED rules
      BY <2>1
    <3>2. pages \subseteq Page /\ visited \in Nat /\ rules \subseteq Url
      BY DEF Typed, TypeOK
    <3> QED
      BY <2>2, <2>9, <3>1, <3>2
  <2> HIDE DEF grown
  <2> QED
    BY <1>1, <2>5, <2>7, <2>8, <2>10
<1> QED
  BY <1>2, <1>3, <1>4 DEF Commit

LEMMA TypedInit == Init => Typed
  BY UrlAssumption, LimitAssumption DEF Init, Typed, TypeOK, Held, Fresh, Row

LEMMA SufferTypes ==
  ASSUME TypeOK, Suffer
  PROVE  mishaps' \in 0..MaxMishaps
<1>1. mishaps \in 0..MaxMishaps
  BY DEF TypeOK
<1> QED
  BY <1>1, LimitAssumption DEF Suffer

LEMMA TypedStep == Typed /\ [Next]_vars => Typed'
<1> SUFFICES ASSUME Typed, [Next]_vars
             PROVE  Typed'
  OBVIOUS
<1>0. TypeOK /\ frontier \in Frontier
  BY DEF Typed, TypeOK, Frontier
<1> DEFINE Kept == \A v \in Url : frontier[v] # None => frontier'[v] # None
           Workers == /\ at' \in [Process -> Labels]
                      /\ claim' \in [Process -> Claim \cup {None}]
                      /\ \A q \in Process : claim'[q] = None <=> at'[q] = "idle"
                      /\ Held'
           Rest == /\ status' \in {"none"} \cup Open \cup Ended
                   /\ rules' \subseteq Url
                   /\ pages' \subseteq Page
                   /\ visited' \in Nat
                   /\ canceller' \in {"away", "between", "died"}
                   /\ mishaps' \in 0..MaxMishaps
<1>1. ASSUME frontier' \in Frontier, Workers, Rest
      PROVE  Typed'
  BY <1>1 DEF Typed, TypeOK, Labels, Frontier
<1>2. ASSUME UNCHANGED frontier
      PROVE  frontier' \in Frontier /\ Kept
  BY <1>0, <1>2
<1>3. CASE Start
  <2>1. Fresh(-1) \in Row /\ Fresh(-1) # None
    BY FreshIsRow
  <2>2. frontier' \in Frontier /\ Kept
    BY <1>0, <1>3, <2>1 DEF Start, Frontier, Url
  <2>3. UNCHANGED worker
    BY <1>3 DEF Start
  <2>4. Workers
    BY <2>2, <2>3, WorkersStay
  <2>5. Rest
    BY <1>0, <1>3 DEF Start, TypeOK, Open
  <2> QED
    BY <1>1, <2>2, <2>4, <2>5
<1>4. CASE CancelRun
  <2>1. frontier' \in Frontier /\ Kept
    BY <1>2, <1>4 DEF CancelRun
  <2>2. Workers
    BY <1>4, <2>1, WorkersStay DEF CancelRun
  <2>3. Rest
    BY <1>0, <1>4 DEF CancelRun, TypeOK, Ended
  <2> QED
    BY <1>1, <2>1, <2>2, <2>3
<1>5. CASE CancelFrontier
  <2>1. frontier' \in Frontier /\ Kept
    BY <1>0, <1>5, AllCancelledKeeps DEF CancelFrontier
  <2>2. Workers
    BY <1>5, <2>1, WorkersStay DEF CancelFrontier
  <2>3. Rest
    BY <1>0, <1>5 DEF CancelFrontier, TypeOK, run
  <2> QED
    BY <1>1, <2>1, <2>2, <2>3
<1>6. CASE CancellerDies
  <2>1. frontier' \in Frontier /\ Kept
    BY <1>2, <1>6 DEF CancellerDies
  <2>2. Workers
    BY <1>6, <2>1, WorkersStay DEF CancellerDies
  <2>3. Rest
    BY <1>0, <1>6, SufferTypes DEF CancellerDies, TypeOK, run
  <2> QED
    BY <1>1, <2>1, <2>2, <2>3
<1>7. ASSUME NEW p \in Process, Work(p) \/ Die(p)
      PROVE  Typed'
  <2>1. ASSUME NEW u \in Url, ClaimUrl(p, u)
        PROVE  Typed'
    <3>1. frontier[u] \in Row /\ frontier[u] # None
      BY <1>0, <2>1, InIsRow DEF ClaimUrl, Runnable, In, Frontier
    <3>2. [frontier[u] EXCEPT !.state = "RUNNING", !.attempts = @ + 1, !.waiting = TRUE] \in Row
      <4>1. frontier[u].attempts + 1 \in Nat
        BY <3>1, RowFields
      <4> QED
        BY <3>1, <4>1 DEF Row, Unsettled
    <3>3. frontier' \in Frontier /\ Kept
      BY <1>0, <2>1, <3>2, RowFields DEF ClaimUrl, Frontier
    <3>4. [url |-> u, attempt |-> frontier[u].attempts + 1] \in Claim
      BY <3>1, RowFields DEF Claim
    <3>5. [url |-> u, attempt |-> frontier[u].attempts + 1] # None
      BY <3>4, NoneAssumption
    <3>6. Workers
      <4>1. at' \in [Process -> Labels] /\ claim' \in [Process -> Claim \cup {None}]
        BY <1>0, <2>1, <3>4 DEF ClaimUrl, Goto, TypeOK, Labels
      <4>2. \A q \in Process : claim'[q] = None <=> at'[q] = "idle"
        BY <1>0, <2>1, <3>5 DEF ClaimUrl, Goto, TypeOK
      <4>3. ASSUME NEW q \in Process, claim'[q] # None
            PROVE  frontier'[claim'[q].url] # None
        <5>1. CASE q = p
          <6>1. claim'[p].url = u
            BY <1>0, <2>1 DEF ClaimUrl, TypeOK
          <6> QED
            BY <3>1, <3>3, <5>1, <6>1
        <5>2. CASE q # p
          <6>1. claim'[q] = claim[q] /\ claim[q] # None
            BY <1>0, <2>1, <4>3, <5>2 DEF ClaimUrl, TypeOK
          <6>2. claim[q].url \in Url
            BY <1>0, <6>1 DEF Claim, TypeOK
          <6> QED
            BY <3>3, <6>1, <6>2 DEF Typed, Held
        <5> QED
          BY <5>1, <5>2
      <4> QED
        BY <4>1, <4>2, <4>3 DEF Held
    <3>7. Rest
      BY <1>0, <2>1 DEF ClaimUrl, TypeOK, Open
    <3> QED
      BY <1>1, <3>3, <3>6, <3>7
  <2>2. CASE Fetch(p)
    <3>1. frontier' \in Frontier /\ Kept
      BY <1>2, <2>2 DEF Fetch
    <3>2. Workers
      BY <2>2, <3>1, WorkerGoesOn DEF Fetch
    <3>3. Rest
      BY <1>0, <2>2 DEF Fetch, TypeOK, run
    <3> QED
      BY <1>1, <3>1, <3>2, <3>3
  <2>3. CASE Complete(p)
    <3>1. at[p] = "complete" /\ Commit(p) /\ Release(p) /\ UNCHANGED <<canceller, mishaps>>
      BY <2>3 DEF Complete
    <3>2. frontier' \in Frontier /\ Kept
      BY <3>1, CommitKeeps
    <3>3. Workers
      BY <3>1, <3>2, WorkerReleased
    <3>4. Rest
      BY <1>0, <3>1, CommitKeeps DEF TypeOK
    <3> QED
      BY <1>1, <3>2, <3>3, <3>4
  <2>4. CASE CompleteLate(p)
    <3>1. at[p] = "complete" /\ Commit(p) /\ Suffer /\ Goto(p, "retry") /\ UNCHANGED <<claim, canceller>>
      BY <2>4 DEF CompleteLate
    <3>2. frontier' \in Frontier /\ Kept
      BY <3>1, CommitKeeps
    <3>3. Workers
      BY <3>1, <3>2, WorkerGoesOn
    <3>4. Rest
      BY <1>0, <3>1, CommitKeeps, SufferTypes DEF TypeOK
    <3> QED
      BY <1>1, <3>2, <3>3, <3>4
  <2>5. CASE CompleteRaises(p)
    <3>1. frontier' \in Frontier /\ Kept
      BY <1>2, <2>5 DEF CompleteRaises
    <3>2. Workers
      BY <2>5, <3>1, WorkerGoesOn DEF CompleteRaises
    <3>3. Rest
      BY <1>0, <2>5, SufferTypes DEF CompleteRaises, TypeOK, run
    <3> QED
      BY <1>1, <3>1, <3>2, <3>3
  <2>6. CASE PutBack(p)
    <3> DEFINE u == claim[p].url
    <3>1. u \in Url /\ frontier[u] # None /\ frontier[u] \in Row
      BY <2>6, HeldRow DEF PutBack
    <3>2. [frontier[u] EXCEPT !.state = "PENDING", !.waiting = TRUE] \in Row
      BY <3>1 DEF Row, Unsettled
    <3>3. frontier' = frontier
            \/ frontier' = [frontier EXCEPT ![u] = [frontier[u] EXCEPT !.state = "PENDING", !.waiting = TRUE]]
      BY <1>0, <2>6, <3>1 DEF PutBack, Frontier
    <3>4. frontier' \in Frontier /\ Kept
      BY <1>0, <3>1, <3>2, <3>3, NoneAssumption DEF Frontier
    <3>5. Workers
      BY <2>6, <3>4, WorkerReleased DEF PutBack
    <3>6. Rest
      BY <1>0, <2>6 DEF PutBack, TypeOK, run
    <3> QED
      BY <1>1, <3>4, <3>5, <3>6
  <2>7. CASE FailRun(p)
    <3>1. claim[p].url \in Url /\ frontier[claim[p].url] # None
      BY <2>7, HeldRow DEF FailRun
    <3>2. frontier' = AllCancelled(Marked(frontier, claim[p].url, "FAILED"))
      BY <2>7 DEF FailRun
    <3>3. PICK f : f = Marked(frontier, claim[p].url, "FAILED")
      OBVIOUS
    <3>4. f \in Frontier /\ \A v \in Url : frontier[v] # None => f[v] # None
      BY <1>0, <3>1, <3>3, MarkedKeeps
    <3>5. frontier' \in Frontier /\ Kept
      BY <3>2, <3>3, <3>4, AllCancelledKeeps
    <3>6. Workers
      BY <2>7, <3>5, WorkerReleased DEF FailRun
    <3>7. Rest
      BY <1>0, <2>7 DEF FailRun, TypeOK, Ended
    <3> QED
      BY <1>1, <3>5, <3>6, <3>7
  <2>8. CASE FailRaises(p) \/ Die(p)
    <3>1. Suffer /\ Release(p) /\ UNCHANGED <<run, frontier, canceller>>
      BY <2>8 DEF FailRaises, Die
    <3>2. frontier' \in Frontier /\ Kept
      BY <1>2, <3>1
    <3>3. Workers
      BY <3>1, <3>2, WorkerReleased
    <3>4. Rest
      BY <1>0, <3>1, SufferTypes DEF TypeOK, run
    <3> QED
      BY <1>1, <3>2, <3>3, <3>4
  <2> QED
    BY <1>7, <2>1, <2>2, <2>3, <2>4, <2>5, <2>6, <2>7, <2>8 DEF Work
<1>8. ASSUME NEW u \in Url, FallDue(u) \/ Lapse(u) \/ Overrun(u)
      PROVE  Typed'
  <2>1. frontier[u] \in Row /\ frontier[u] # None
    BY <1>0, <1>8 DEF FallDue, Lapse, Overrun, Leased, In, Frontier
  <2>2. [frontier[u] EXCEPT !.waiting = FALSE] \in Row
    BY <2>1 DEF Row
  <2>3. frontier' = [frontier EXCEPT ![u] = [frontier[u] EXCEPT !.waiting = FALSE]]
    BY <1>0, <1>8 DEF FallDue, Lapse, Overrun, Frontier
  <2>4. frontier' \in Frontier /\ Kept
    BY <1>0, <2>2, <2>3, NoneAssumption DEF Frontier
  <2>5. Workers
    BY <1>8, <2>4, WorkersStay DEF FallDue, Lapse, Overrun
  <2>6. Rest
    BY <1>0, <1>8, SufferTypes DEF FallDue, Lapse, Overrun, TypeOK, run
  <2> QED
    BY <1>1, <2>4, <2>5, <2>6
<1>9. CASE UNCHANGED vars
  BY <1>9 DEF vars, run, worker, Typed, TypeOK, Held
<1> QED
  BY <1>3, <1>4, <1>5, <1>6, <1>7, <1>8, <1>9 DEF Next, Time

(* Every reachable state is well typed, whatever the site, its policies,   *)
(* the limits and the number of processes.                                 *)
THEOREM TypeSafe == Spec => []TypeOK
<1>1. Typed => TypeOK
  BY DEF Typed
<1> QED
  BY <1>1, TypedInit, TypedStep, PTL DEF Spec

(***************************************************************************)
(* A cancellation settles the run.  The invariant is inductive given the   *)
(* types: `cancel` closes the run before it touches the rows, so that from *)
(* then on no row is claimed, planned or put back.                         *)
(***************************************************************************)
LEMMA CancelSettlesStep == Typed /\ CancelSettles /\ [Next]_vars => CancelSettles'
<1> SUFFICES ASSUME Typed, CancelSettles, [Next]_vars,
                    status' = "CANCELLED", canceller' = "away",
                    NEW v \in Url, frontier'[v] # None
             PROVE  frontier'[v].state \notin Unsettled
  BY DEF CancelSettles, In
<1>0. TypeOK /\ frontier \in Frontier
  BY DEF Typed, TypeOK, Frontier
<1>1. ASSUME status = "CANCELLED", canceller = "away",
             frontier[v] # None => frontier'[v] = frontier[v],
             frontier[v] = None => frontier'[v] = None
      PROVE  frontier'[v].state \notin Unsettled
  BY <1>1 DEF CancelSettles, In
<1>2. ASSUME frontier' = AllCancelled(frontier)
      PROVE  frontier'[v].state \notin Unsettled
  BY <1>0, <1>2, AllCancelledKeeps
<1>3. CASE Start \/ CancelRun \/ CancellerDies
  BY <1>0, <1>3 DEF Start, CancelRun, CancellerDies
<1>4. CASE CancelFrontier
  BY <1>2, <1>4 DEF CancelFrontier
<1>5. ASSUME NEW p \in Process, Work(p) \/ Die(p)
      PROVE  frontier'[v].state \notin Unsettled
  <2>1. CASE \E u \in Url : ClaimUrl(p, u)
    BY <2>1 DEF ClaimUrl
  <2>2. CASE Fetch(p) \/ CompleteRaises(p) \/ FailRaises(p) \/ Die(p)
    BY <1>1, <2>2 DEF Fetch, CompleteRaises, FailRaises, Die, run
  <2>3. CASE Complete(p) \/ CompleteLate(p)
    <3>1. at[p] = "complete" /\ Commit(p) /\ UNCHANGED canceller
      BY <2>3 DEF Complete, CompleteLate
    <3>2. claim[p].url \in Url /\ frontier[claim[p].url] # None
      BY <3>1, HeldRow
    <3>3. CASE status = "CANCELLED"
      <4>1. frontier' = Marked(frontier, claim[p].url, "CANCELLED")
        BY <3>1, <3>3 DEF Commit
      <4>2. /\ frontier'[v] = None <=> frontier[v] = None
            /\ frontier[v] # None /\ frontier[v].state \notin Unsettled => frontier'[v] = frontier[v]
        BY <1>0, <3>2, <4>1, MarkedKeeps
      <4> QED
        BY <1>1, <3>1, <3>3, <4>2 DEF CancelSettles, In
    <3>4. CASE status # "CANCELLED"
      <4>1. status' = Finished(frontier')
        BY <3>1, <3>4 DEF Commit, CompletePolicy, CompletePage
      <4> QED
        BY <1>0, <3>4, <4>1, FinishedStatus
    <3> QED
      BY <3>3, <3>4
  <2>4. CASE PutBack(p)
    <3>1. claim[p].url \in Url /\ frontier[claim[p].url] # None
      BY <2>4, HeldRow DEF PutBack
    <3>2. status = "CANCELLED" /\ canceller = "away"
      BY <2>4 DEF PutBack, run
    <3>3. frontier[claim[p].url].state # "RUNNING"
      BY <3>1, <3>2 DEF CancelSettles, In, Unsettled
    <3>4. frontier' = frontier
      BY <2>4, <3>3 DEF PutBack
    <3> QED
      BY <1>1, <3>2, <3>4
  <2>5. CASE FailRun(p)
    <3>1. claim[p].url \in Url /\ frontier[claim[p].url] # None
      BY <2>5, HeldRow DEF FailRun
    <3>2. PICK f : f = Marked(frontier, claim[p].url, "FAILED")
      OBVIOUS
    <3>3. f \in Frontier
      BY <1>0, <3>1, <3>2, MarkedKeeps
    <3>4. frontier' = AllCancelled(f)
      BY <2>5, <3>2 DEF FailRun
    <3> QED
      BY <3>3, <3>4, AllCancelledKeeps
  <2> QED
    BY <1>5, <2>1, <2>2, <2>3, <2>4, <2>5 DEF Work
<1>6. ASSUME NEW u \in Url, FallDue(u) \/ Lapse(u) \/ Overrun(u)
      PROVE  frontier'[v].state \notin Unsettled
  BY <1>6 DEF FallDue, Lapse, Overrun, Leased, In, CancelSettles, run, Unsettled
<1>7. CASE UNCHANGED vars
  BY <1>1, <1>7 DEF vars, run
<1> QED
  BY <1>3, <1>4, <1>5, <1>6, <1>7 DEF Next, Time

(* Once a cancellation has returned, nothing of the run is runnable, held  *)
(* or added any more, whatever its workers were doing.                     *)
THEOREM CancellationSettles == Spec => []CancelSettles
<1>1. Init => CancelSettles
  BY DEF Init, CancelSettles
<1> QED
  BY <1>1, TypedInit, TypedStep, CancelSettlesStep, PTL DEF Spec

(***************************************************************************)
(* The limits of a run.  They are inductive together with SeedFirst: only  *)
(* the robots policy plans the seed, so that when it does nothing else is  *)
(* scheduled yet and its page cannot be one too many.                      *)
(***************************************************************************)
SeedFirst == Scheduled(frontier) # {} => Seed \in Scheduled(frontier)

LEMMA UrlFinite == IsFiniteSet(Url)
  BY UrlAssumption, FS_AddElement DEF Url

LEMMA ScheduledFinite ==
  ASSUME NEW f
  PROVE  /\ Scheduled(f) \subseteq Page
         /\ IsFiniteSet(Scheduled(f))
         /\ Cardinality(Scheduled(f)) \in Nat
<1>1. Scheduled(f) \subseteq Page
  BY DEF Scheduled
<1> QED
  BY <1>1, UrlAssumption, FS_Subset, FS_CardinalityType

(* A step that neither plans nor records a page.                           *)
LEMMA SamePages ==
  ASSUME Bounded, SeedFirst, UNCHANGED <<pages, visited>>,
         \A u \in Page : /\ frontier'[u] = None <=> frontier[u] = None
                         /\ frontier[u] # None => frontier'[u].depth = frontier[u].depth
  PROVE  Bounded' /\ SeedFirst'
<1>1. Scheduled(frontier)' = Scheduled(frontier)
  BY DEF Scheduled
<1>2. \A u \in Scheduled(frontier) : frontier'[u].depth = frontier[u].depth
  BY DEF Scheduled
<1> QED
  BY <1>1, <1>2 DEF Bounded, SeedFirst

(* Planning the seed: it is the first page of all.                         *)
LEMMA PolicyBounded ==
  ASSUME Typed, Bounded, SeedFirst,
         NEW p \in Process, at[p] = "complete", CompletePolicy(p)
  PROVE  Bounded' /\ SeedFirst'
<1>0. frontier \in Frontier /\ claim[p].url \in Url /\ frontier[claim[p].url] # None
  BY HeldRow
<1>1. PICK policy \in Policies :
        /\ frontier' = Marked(IF Seed \in policy /\ frontier[Seed] = None
                              THEN [frontier EXCEPT ![Seed] = Fresh(0)] ELSE frontier,
                              Robots, "SUCCEEDED")
        /\ UNCHANGED <<pages, visited>>
  BY DEF CompletePolicy
<1>2. Robots \in Url /\ frontier[Robots] # None /\ Seed \in Url /\ Seed \in Page /\ Seed # Robots
  BY <1>0, UrlAssumption DEF CompletePolicy, Url
<1>3. CASE ~(Seed \in policy /\ frontier[Seed] = None)
  <2>1. frontier' = Marked(frontier, Robots, "SUCCEEDED")
    BY <1>1, <1>3
  <2>2. \A u \in Url : /\ frontier'[u] = None <=> frontier[u] = None
                       /\ frontier[u] # None => frontier'[u].depth = frontier[u].depth
    BY <1>0, <1>2, <2>1, MarkedKeeps
  <2> QED
    BY <1>1, <2>2, SamePages DEF Url
<1>4. CASE Seed \in policy /\ frontier[Seed] = None
  <2>1. PICK f : f = [frontier EXCEPT ![Seed] = Fresh(0)]
    OBVIOUS
  <2>2. Fresh(0) \in Row /\ Fresh(0) # None /\ Fresh(0).depth = 0
    BY FreshIsRow
  <2>3. f \in Frontier /\ f[Robots] # None
    BY <1>0, <1>2, <2>1, <2>2 DEF Frontier
  <2>4. frontier' = Marked(f, Robots, "SUCCEEDED")
    BY <1>1, <1>4, <2>1
  <2>5. \A u \in Url : /\ frontier'[u] = None <=> f[u] = None
                       /\ f[u] # None => frontier'[u].depth = f[u].depth
    BY <1>2, <2>3, <2>4, MarkedKeeps
  <2>6. Scheduled(frontier) = {}
    BY <1>4 DEF SeedFirst, Scheduled
  <2>7. \A u \in Page : f[u] # None <=> u = Seed
    BY <1>0, <1>2, <2>1, <2>2, <2>6 DEF Scheduled, Frontier, Url
  <2>8. Scheduled(frontier)' = {Seed}
    BY <1>2, <2>5, <2>7 DEF Scheduled, Url
  <2>9. f[Seed] = Fresh(0)
    BY <1>0, <1>2, <2>1 DEF Frontier
  <2>10. frontier'[Seed].depth = 0
    BY <1>2, <2>2, <2>5, <2>9
  <2>11. Cardinality(Scheduled(frontier)') = 1
    BY <2>8, FS_Singleton
  <2>12. pages' = {} /\ visited' = Cardinality(pages')
    BY <1>1, <2>6 DEF Bounded
  <2> QED
    BY <2>8, <2>10, <2>11, <2>12, LimitAssumption DEF Bounded, SeedFirst
<1> QED
  BY <1>3, <1>4

(* Recording a page and planning its links: `finish` counts the page once, *)
(* and the room that is left limits what is planned.                       *)
LEMMA PageBounded ==
  ASSUME Typed, Bounded, SeedFirst,
         NEW p \in Process, at[p] = "complete", CompletePage(p)
  PROVE  Bounded' /\ SeedFirst'
<1> DEFINE u == claim[p].url
           room == MaxPages - Cardinality(Scheduled(frontier))
<1>0. u \in Page
  BY DEF CompletePage
<1>1. /\ frontier \in Frontier /\ u \in Url
      /\ frontier[u] # None /\ frontier[u] \in Row
      /\ visited \in Nat /\ pages \subseteq Page /\ IsFiniteSet(pages)
  BY <1>0, HeldRow, UrlAssumption, FS_Subset DEF Typed, TypeOK
<1>2. PICK d \in Int : d = frontier[u].depth + 1
  BY <1>1, RowFields
<1>3. room = MaxPages - Cardinality(Scheduled(frontier))
  OBVIOUS
<1>4. PICK links \in Links[u] :
        \E fit \in SUBSET {v \in links : frontier[v] = None /\ v \in rules} :
          /\ IF ~(visited + Inserted(u) < MaxPages /\ frontier[u].depth < MaxDepth) \/ room <= 0
             THEN fit = {}
             ELSE Cardinality(fit) =
                    IF Cardinality({v \in links : frontier[v] = None /\ v \in rules}) < room
                    THEN Cardinality({v \in links : frontier[v] = None /\ v \in rules}) ELSE room
          /\ frontier' = Marked([v \in Url |-> IF v \in fit THEN Fresh(frontier[u].depth + 1)
                                               ELSE frontier[v]], u, "SUCCEEDED")
          /\ pages' = pages \cup {u} /\ visited' = visited + Inserted(u)
  BY DEF CompletePage
<1> HIDE DEF u, room
<1>5. PICK open : open = {v \in links : frontier[v] = None /\ v \in rules}
  OBVIOUS
<1>6. PICK fit \in SUBSET open :
          /\ IF ~(visited + Inserted(u) < MaxPages /\ frontier[u].depth < MaxDepth) \/ room <= 0
             THEN fit = {}
             ELSE Cardinality(fit) = IF Cardinality(open) < room THEN Cardinality(open) ELSE room
          /\ frontier' = Marked([v \in Url |-> IF v \in fit THEN Fresh(frontier[u].depth + 1)
                                               ELSE frontier[v]], u, "SUCCEEDED")
          /\ pages' = pages \cup {u} /\ visited' = visited + Inserted(u)
  BY <1>4, <1>5
<1>7. PICK f : f = [v \in Url |-> IF v \in fit THEN Fresh(d) ELSE frontier[v]]
  OBVIOUS
<1>8. /\ Fresh(d) \in Row /\ Fresh(d) # None /\ Fresh(d).depth = d
  BY FreshIsRow
<1>9. \A v \in fit : frontier[v] = None
  BY <1>5
<1>10. f \in Frontier /\ f[u] # None
  BY <1>1, <1>7, <1>8 DEF Frontier
<1>11. frontier' = Marked(f, u, "SUCCEEDED")
  BY <1>2, <1>6, <1>7
<1>12. \A v \in Url : /\ frontier'[v] = None <=> f[v] = None
                      /\ f[v] # None => frontier'[v].depth = f[v].depth
  BY <1>1, <1>10, <1>11, MarkedKeeps
<1>13. Scheduled(frontier') = Scheduled(frontier) \cup (fit \cap Page)
  BY <1>7, <1>8, <1>12 DEF Scheduled, Url
<1>14. open \subseteq Url /\ IsFiniteSet(fit)
  <2>1. open \subseteq Url
    BY <1>5 DEF Typed, TypeOK
  <2> QED
    BY <2>1, UrlFinite, FS_Subset
<1>15. fit # {} => Cardinality(fit) <= room /\ d <= MaxDepth
  <2>1. Cardinality(open) \in Nat /\ room \in Int
    BY <1>3, <1>14, UrlFinite, FS_Subset, FS_CardinalityType, ScheduledFinite, LimitAssumption
  <2>2. frontier[u].depth \in Int
    BY <1>1, RowFields
  <2> QED
    BY <1>2, <1>6, <2>1, <2>2, LimitAssumption
<1>16. Cardinality(Scheduled(frontier')) <= MaxPages
  <2>1. CASE fit = {}
    BY <1>13, <2>1 DEF Bounded
  <2>2. CASE fit # {}
    <3>1. /\ IsFiniteSet(fit \cap Page)
          /\ Cardinality(fit \cap Page) \in Nat /\ Cardinality(fit) \in Nat
          /\ Cardinality(fit \cap Page) <= Cardinality(fit)
      BY <1>14, FS_Subset, FS_CardinalityType
    <3>2. /\ IsFiniteSet(Scheduled(frontier)) /\ Cardinality(Scheduled(frontier)) \in Nat
      BY ScheduledFinite
    <3>3. PICK both \in Nat : both = Cardinality(Scheduled(frontier) \cap (fit \cap Page))
      BY <3>1, FS_Subset, FS_CardinalityType
    <3>4. Cardinality(Scheduled(frontier')) =
            Cardinality(Scheduled(frontier)) + Cardinality(fit \cap Page) - both
      BY <1>13, <3>1, <3>2, <3>3, FS_Union
    <3> QED
      BY <1>3, <1>15, <2>2, <3>1, <3>2, <3>3, <3>4, LimitAssumption
  <2> QED
    BY <2>1, <2>2
<1>17. \A v \in Scheduled(frontier') : frontier'[v].depth \in 0..MaxDepth
  <2> SUFFICES ASSUME NEW v \in Scheduled(frontier')
               PROVE  frontier'[v].depth \in 0..MaxDepth
    OBVIOUS
  <2>1. v \in Url
    BY DEF Scheduled, Url
  <2>2. u \in Scheduled(frontier)
    BY <1>0, <1>1 DEF Scheduled
  <2>3. CASE v \in fit
    <3>1. f[v] = Fresh(d)
      BY <1>7, <2>1, <2>3
    <3>2. frontier'[v].depth = d
      BY <1>8, <1>12, <2>1, <3>1
    <3>3. frontier[u].depth \in 0..MaxDepth
      BY <2>2 DEF Bounded
    <3> QED
      BY <1>2, <1>15, <2>3, <3>2, <3>3, LimitAssumption
  <2>4. CASE v \notin fit
    <3>1. f[v] = frontier[v] /\ v \in Scheduled(frontier)
      BY <1>7, <1>13, <2>1, <2>4
    <3>2. frontier'[v].depth = frontier[v].depth
      BY <1>12, <2>1, <3>1 DEF Scheduled
    <3> QED
      BY <3>1, <3>2 DEF Bounded
  <2> QED
    BY <2>3, <2>4
<1>18. pages' = pages \cup {u} /\ visited' = visited + Inserted(u)
  BY <1>6
<1>19. visited' = Cardinality(pages')
  <2>1. visited = Cardinality(pages)
    BY DEF Bounded
  <2>2. Cardinality(pages') = IF u \in pages THEN Cardinality(pages) ELSE Cardinality(pages) + 1
    BY <1>1, <1>18, FS_AddElement
  <2> QED
    BY <1>1, <1>18, <2>1, <2>2 DEF Inserted
<1>20. pages' \subseteq Scheduled(frontier')
  <2>1. u \in Scheduled(frontier)
    BY <1>0, <1>1 DEF Scheduled
  <2> QED
    BY <1>13, <1>18, <2>1 DEF Bounded
<1>21. Seed \in Scheduled(frontier')
  <2>1. u \in Scheduled(frontier)
    BY <1>0, <1>1 DEF Scheduled
  <2> QED
    BY <1>13, <2>1 DEF SeedFirst
<1> QED
  BY <1>16, <1>17, <1>19, <1>20, <1>21 DEF Bounded, SeedFirst

LEMMA CommitBounded ==
  ASSUME Typed, Bounded, SeedFirst,
         NEW p \in Process, at[p] = "complete", Commit(p)
  PROVE  Bounded' /\ SeedFirst'
<1>1. CASE status = "CANCELLED"
  <2>1. frontier' = Marked(frontier, claim[p].url, "CANCELLED") /\ UNCHANGED <<pages, visited>>
    BY <1>1 DEF Commit, run
  <2>2. \A u \in Url : /\ frontier'[u] = None <=> frontier[u] = None
                       /\ frontier[u] # None => frontier'[u].depth = frontier[u].depth
    BY <2>1, HeldRow, MarkedKeeps
  <2> QED
    BY <2>1, <2>2, SamePages DEF Url
<1>2. CASE status # "CANCELLED"
  BY <1>2, PolicyBounded, PageBounded DEF Commit
<1> QED
  BY <1>1, <1>2

LEMMA BoundedStep == Typed /\ Bounded /\ SeedFirst /\ [Next]_vars => Bounded' /\ SeedFirst'
<1> SUFFICES ASSUME Typed, Bounded, SeedFirst, [Next]_vars
             PROVE  Bounded' /\ SeedFirst'
  OBVIOUS
<1>0. TypeOK /\ frontier \in Frontier
  BY DEF Typed, TypeOK, Frontier
<1> DEFINE Same == \A u \in Url : /\ frontier'[u] = None <=> frontier[u] = None
                                  /\ frontier[u] # None => frontier'[u].depth = frontier[u].depth
<1>1. ASSUME Same, UNCHANGED <<pages, visited>>
      PROVE  Bounded' /\ SeedFirst'
  BY <1>1, SamePages DEF Url
<1>2. ASSUME NEW u \in Url, frontier[u] # None,
             NEW row \in Row, row.depth = frontier[u].depth,
             frontier' = [frontier EXCEPT ![u] = row]
      PROVE  Same
  BY <1>0, <1>2, RowFields DEF Frontier
<1>3. CASE Start
  <2>1. \A u \in Page : frontier'[u] = frontier[u]
    BY <1>0, <1>3, UrlAssumption DEF Start, Frontier, Url
  <2> QED
    BY <1>3, <2>1, SamePages DEF Start
<1>4. CASE CancelRun \/ CancellerDies
  BY <1>1, <1>4 DEF CancelRun, CancellerDies, run
<1>5. CASE CancelFrontier
  BY <1>0, <1>1, <1>5, AllCancelledKeeps DEF CancelFrontier, run
<1>6. ASSUME NEW p \in Process, Work(p) \/ Die(p)
      PROVE  Bounded' /\ SeedFirst'
  <2>1. ASSUME NEW u \in Url, ClaimUrl(p, u)
        PROVE  Bounded' /\ SeedFirst'
    <3>1. frontier[u] \in Row /\ frontier[u] # None
      BY <1>0, <2>1 DEF ClaimUrl, Runnable, In, Frontier
    <3>2. PICK row : row = [frontier[u] EXCEPT !.state = "RUNNING", !.attempts = @ + 1, !.waiting = TRUE]
      OBVIOUS
    <3>3. row \in Row /\ row.depth = frontier[u].depth
      <4>1. frontier[u].attempts + 1 \in Nat
        BY <3>1, RowFields
      <4> QED
        BY <3>1, <3>2, <4>1 DEF Row, Unsettled
    <3>4. frontier' = [frontier EXCEPT ![u] = row]
      BY <1>0, <2>1, <3>2 DEF ClaimUrl, Frontier
    <3> QED
      BY <1>1, <1>2, <2>1, <3>1, <3>3, <3>4 DEF ClaimUrl
  <2>2. CASE Fetch(p) \/ CompleteRaises(p) \/ FailRaises(p) \/ Die(p)
    BY <1>1, <2>2 DEF Fetch, CompleteRaises, FailRaises, Die, run
  <2>3. CASE Complete(p) \/ CompleteLate(p)
    BY <2>3, CommitBounded DEF Complete, CompleteLate
  <2>4. CASE PutBack(p)
    <3>1. PICK u \in Url : u = claim[p].url
      BY <2>4, HeldRow DEF PutBack
    <3>2. frontier[u] # None /\ frontier[u] \in Row
      BY <2>4, <3>1, HeldRow DEF PutBack
    <3>3. PICK row : row = [frontier[u] EXCEPT !.state = "PENDING", !.waiting = TRUE]
      OBVIOUS
    <3>4. row \in Row /\ row.depth = frontier[u].depth
      BY <3>2, <3>3 DEF Row, Unsettled
    <3>5. frontier' = frontier \/ frontier' = [frontier EXCEPT ![u] = row]
      BY <1>0, <2>4, <3>1, <3>3 DEF PutBack, Frontier
    <3>6. UNCHANGED <<pages, visited>>
      BY <2>4 DEF PutBack, run
    <3> QED
      BY <1>1, <1>2, <3>2, <3>4, <3>5, <3>6
  <2>5. CASE FailRun(p)
    <3>1. claim[p].url \in Url /\ frontier[claim[p].url] # None
      BY <2>5, HeldRow DEF FailRun
    <3>2. PICK f : f = Marked(frontier, claim[p].url, "FAILED")
      OBVIOUS
    <3>3. f \in Frontier /\ \A u \in Url : /\ f[u] = None <=> frontier[u] = None
                                           /\ frontier[u] # None => f[u].depth = frontier[u].depth
      BY <1>0, <3>1, <3>2, MarkedKeeps
    <3>4. frontier' = AllCancelled(f) /\ UNCHANGED <<pages, visited>>
      BY <2>5, <3>2 DEF FailRun
    <3> QED
      BY <1>1, <3>3, <3>4, AllCancelledKeeps
  <2> QED
    BY <1>6, <2>1, <2>2, <2>3, <2>4, <2>5 DEF Work
<1>7. ASSUME NEW u \in Url, FallDue(u) \/ Lapse(u) \/ Overrun(u)
      PROVE  Bounded' /\ SeedFirst'
  <2>1. frontier[u] \in Row /\ frontier[u] # None
    BY <1>0, <1>7 DEF FallDue, Lapse, Overrun, Leased, In, Frontier
  <2>2. PICK row : row = [frontier[u] EXCEPT !.waiting = FALSE]
    OBVIOUS
  <2>3. row \in Row /\ row.depth = frontier[u].depth
    BY <2>1, <2>2 DEF Row
  <2>4. frontier' = [frontier EXCEPT ![u] = row] /\ UNCHANGED <<pages, visited>>
    BY <1>0, <1>7, <2>2 DEF FallDue, Lapse, Overrun, Frontier, run
  <2> QED
    BY <1>1, <1>2, <2>1, <2>3, <2>4
<1>8. CASE UNCHANGED vars
  BY <1>1, <1>8 DEF vars, run
<1> QED
  BY <1>3, <1>4, <1>5, <1>6, <1>7, <1>8 DEF Next, Time

(* However many workers complete, repeat or fail a page, a run counts      *)
(* every page once and keeps to its limits of pages and depth.             *)
THEOREM RunBounded == Spec => []Bounded
<1>1. Init => Bounded /\ SeedFirst
  <2> SUFFICES ASSUME Init
               PROVE  Bounded /\ SeedFirst
    OBVIOUS
  <2>1. Scheduled(frontier) = {}
    BY DEF Init, Scheduled, Url
  <2> QED
    BY <2>1, FS_EmptySet, LimitAssumption DEF Init, Bounded, SeedFirst
<1> QED
  BY <1>1, TypedInit, TypedStep, BoundedStep, PTL DEF Spec

(***************************************************************************)
(* The workflow implements Traversal.  What it takes beyond the types and  *)
(* the limits: while a run is open, a page whose row is settled has been   *)
(* recorded, before it is started it has no rows, and a caller of `cancel` *)
(* who is between the two statements has closed it.                        *)
(***************************************************************************)
SettledIsRecorded ==
  status \in Open =>
    \A v \in Page : frontier[v] # None => frontier[v].state \in Unsettled \/ v \in pages

NoRowsYet == status = "none" => \A v \in Url : frontier[v] = None

CancelClosed == canceller # "away" => status = "CANCELLED"

IInv == Typed /\ Bounded /\ SeedFirst /\ SettledIsRecorded /\ NoRowsYet /\ CancelClosed

LEMMA MarkedElsewhere ==
  ASSUME NEW f \in Frontier, NEW u \in Url, NEW state, NEW v \in Url, v # u
  PROVE  Marked(f, u, state)[v] = f[v]
  BY DEF Marked, Frontier

(* What a `complete` that takes effect does: its own row is settled, the   *)
(* new ones are pending and no other is touched.                           *)
LEMMA CommitEffect ==
  ASSUME Typed, NEW p \in Process, at[p] = "complete", status # "CANCELLED", Commit(p)
  PROVE  /\ \A v \in Url : frontier[v] # None /\ v # claim[p].url => frontier'[v] = frontier[v]
         /\ \A v \in Url : frontier[v] = None =>
              frontier'[v] = None \/ frontier'[v].state = "PENDING"
         /\ \A v \in Url : frontier[v] # None => frontier'[v] # None
         /\ status' = Finished(frontier')
         /\ \/ claim[p].url \notin Page /\ UNCHANGED <<pages, visited>>
            \/ /\ claim[p].url \in Page
               /\ pages' = pages \cup {claim[p].url}
               /\ visited' = visited + Inserted(claim[p].url)
<1>1. /\ claim[p].url \in Url /\ frontier \in Frontier
      /\ frontier[claim[p].url] # None /\ frontier[claim[p].url] \in Row
  BY HeldRow
<1>2. \A v \in Url : frontier[v] # None => frontier'[v] # None
  BY CommitKeeps
<1>3. CASE CompletePolicy(p)
  <2>1. PICK policy \in Policies :
          /\ frontier' = Marked(IF Seed \in policy /\ frontier[Seed] = None
                                THEN [frontier EXCEPT ![Seed] = Fresh(0)] ELSE frontier,
                                Robots, "SUCCEEDED")
          /\ status' = Finished(frontier')
          /\ UNCHANGED <<pages, visited>>
    BY <1>3 DEF CompletePolicy
  <2>2. PICK f : f = IF Seed \in policy /\ frontier[Seed] = None
                     THEN [frontier EXCEPT ![Seed] = Fresh(0)] ELSE frontier
    OBVIOUS
  <2>3. claim[p].url = Robots /\ Robots \notin Page /\ Robots \in Url
    BY <1>3, UrlAssumption DEF CompletePolicy, Url
  <2>4. Fresh(0) \in Row /\ Fresh(0) # None /\ Fresh(0).state = "PENDING"
    BY FreshIsRow
  <2>5. /\ f \in Frontier
        /\ \A v \in Url : frontier[v] # None => f[v] = frontier[v]
        /\ \A v \in Url : frontier[v] = None => f[v] = None \/ f[v] = Fresh(0)
    <3>1. CASE Seed \in policy /\ frontier[Seed] = None
      <4>1. f = [frontier EXCEPT ![Seed] = Fresh(0)] /\ Seed \in Url
        BY <2>2, <3>1, UrlAssumption DEF Url
      <4> QED
        BY <1>1, <2>4, <3>1, <4>1 DEF Frontier
    <3>2. CASE ~(Seed \in policy /\ frontier[Seed] = None)
      BY <1>1, <2>2, <3>2
    <3> QED
      BY <3>1, <3>2
  <2>6. frontier' = Marked(f, Robots, "SUCCEEDED")
    BY <2>1, <2>2
  <2>7. \A v \in Url : v # Robots => frontier'[v] = f[v]
    BY <2>3, <2>5, <2>6, MarkedElsewhere
  <2> QED
    BY <1>1, <1>2, <2>1, <2>3, <2>4, <2>5, <2>7
<1>4. CASE CompletePage(p)
  <2> DEFINE u == claim[p].url
  <2>1. PICK links \in Links[u] :
          \E fit \in SUBSET {v \in links : frontier[v] = None /\ v \in rules} :
            /\ pages' = pages \cup {u}
            /\ visited' = visited + Inserted(u)
            /\ frontier' = Marked([v \in Url |-> IF v \in fit THEN Fresh(frontier[u].depth + 1)
                                                 ELSE frontier[v]], u, "SUCCEEDED")
            /\ status' = Finished(frontier')
    BY <1>4 DEF CompletePage
  <2>2. PICK fit \in SUBSET {v \in links : frontier[v] = None /\ v \in rules} :
          /\ pages' = pages \cup {u}
          /\ visited' = visited + Inserted(u)
          /\ frontier' = Marked([v \in Url |-> IF v \in fit THEN Fresh(frontier[u].depth + 1)
                                               ELSE frontier[v]], u, "SUCCEEDED")
          /\ status' = Finished(frontier')
    BY <2>1
  <2>3. u \in Page
    BY <1>4 DEF CompletePage
  <2>4. PICK d \in Int : d = frontier[u].depth + 1
    BY <1>1, RowFields
  <2>5. Fresh(d) \in Row /\ Fresh(d) # None /\ Fresh(d).state = "PENDING"
    BY FreshIsRow
  <2>6. PICK f : f = [v \in Url |-> IF v \in fit THEN Fresh(d) ELSE frontier[v]]
    OBVIOUS
  <2>7. \A v \in fit : frontier[v] = None
    OBVIOUS
  <2>8. /\ f \in Frontier
        /\ \A v \in Url : frontier[v] # None => f[v] = frontier[v]
        /\ \A v \in Url : frontier[v] = None => f[v] = None \/ f[v] = Fresh(d)
    BY <1>1, <2>5, <2>6, <2>7 DEF Frontier
  <2>9. frontier' = Marked(f, u, "SUCCEEDED")
    BY <2>2, <2>4, <2>6
  <2>10. \A v \in Url : v # u => frontier'[v] = f[v]
    BY <1>1, <2>8, <2>9, MarkedElsewhere
  <2>11. /\ \A v \in Url : frontier[v] # None /\ v # u => frontier'[v] = frontier[v]
         /\ \A v \in Url : frontier[v] = None => frontier'[v] = None \/ frontier'[v].state = "PENDING"
    BY <1>1, <2>5, <2>8, <2>10
  <2> QED
    BY <1>2, <2>2, <2>3, <2>11
<1> QED
  BY <1>3, <1>4 DEF Commit

LEMMA SettledStep ==
  IInv /\ [Next]_vars => SettledIsRecorded' /\ NoRowsYet' /\ CancelClosed'
<1> SUFFICES ASSUME IInv, [Next]_vars
             PROVE  SettledIsRecorded' /\ NoRowsYet' /\ CancelClosed'
  OBVIOUS
<1>0. /\ Typed /\ TypeOK /\ frontier \in Frontier
      /\ SettledIsRecorded /\ NoRowsYet /\ CancelClosed
  BY DEF IInv, Typed, TypeOK, Frontier
<1>a. \A v \in Page : v \in Url
  BY DEF Url
<1>1. ASSUME status' \in Ended, status = "CANCELLED" => status' = "CANCELLED",
             canceller' # "away" => canceller # "away" \/ status' = "CANCELLED"
      PROVE  SettledIsRecorded' /\ NoRowsYet' /\ CancelClosed'
  BY <1>0, <1>1 DEF SettledIsRecorded, NoRowsYet, CancelClosed, Open, Ended
<1>2. ASSUME NEW u \in Url, frontier[u] # None, status' = status, UNCHANGED <<pages, canceller>>,
             NEW row, row.state \in Unsettled,
             frontier' = [frontier EXCEPT ![u] = row]
      PROVE  SettledIsRecorded' /\ NoRowsYet' /\ CancelClosed'
  BY <1>0, <1>a, <1>2 DEF SettledIsRecorded, NoRowsYet, CancelClosed, Frontier
<1>3. ASSUME UNCHANGED <<status, pages, canceller, frontier>>
      PROVE  SettledIsRecorded' /\ NoRowsYet' /\ CancelClosed'
  BY <1>0, <1>3 DEF SettledIsRecorded, NoRowsYet, CancelClosed
<1>4. CASE Start
  <2>1. \A v \in Page : frontier'[v] = None
    BY <1>0, <1>a, <1>4, UrlAssumption DEF Start, NoRowsYet, Frontier
  <2>2. status' = "QUEUED" /\ status = "none" /\ UNCHANGED canceller
    BY <1>4 DEF Start
  <2> QED
    BY <1>0, <2>1, <2>2 DEF SettledIsRecorded, NoRowsYet, CancelClosed
<1>5. CASE CancelRun
  BY <1>1, <1>5 DEF CancelRun, Ended
<1>6. CASE CancelFrontier
  <2>1. status = "CANCELLED" /\ status' = status /\ canceller' = "away"
    BY <1>0, <1>6 DEF CancelFrontier, run, CancelClosed
  <2> QED
    BY <1>1, <2>1 DEF Ended
<1>7. CASE CancellerDies
  <2>1. status = "CANCELLED" /\ status' = status
    BY <1>0, <1>7 DEF CancellerDies, run, CancelClosed
  <2> QED
    BY <1>1, <2>1 DEF Ended
<1>8. ASSUME NEW p \in Process, Work(p) \/ Die(p)
      PROVE  SettledIsRecorded' /\ NoRowsYet' /\ CancelClosed'
  <2>1. ASSUME NEW u \in Url, ClaimUrl(p, u)
        PROVE  SettledIsRecorded' /\ NoRowsYet' /\ CancelClosed'
    <3>1. frontier[u] \in Row /\ frontier[u] # None
      BY <1>0, <2>1 DEF ClaimUrl, Runnable, In, Frontier
    <3>2. PICK row : row = [frontier[u] EXCEPT !.state = "RUNNING", !.attempts = @ + 1, !.waiting = TRUE]
      OBVIOUS
    <3>3. row.state \in Unsettled
      BY <3>1, <3>2 DEF Row, Unsettled
    <3>4. frontier' = [frontier EXCEPT ![u] = row]
      BY <1>0, <2>1, <3>2 DEF ClaimUrl, Frontier
    <3>5. status \in Open /\ status' = "RUNNING" /\ UNCHANGED <<pages, canceller>>
      BY <2>1 DEF ClaimUrl
    <3> QED
      BY <1>0, <1>a, <3>3, <3>4, <3>5
         DEF SettledIsRecorded, NoRowsYet, CancelClosed, Open, Frontier
  <2>2. CASE Fetch(p) \/ CompleteRaises(p) \/ FailRaises(p) \/ Die(p)
    BY <1>3, <2>2 DEF Fetch, CompleteRaises, FailRaises, Die, run
  <2>3. CASE Complete(p) \/ CompleteLate(p)
    <3>1. at[p] = "complete" /\ Commit(p) /\ UNCHANGED canceller
      BY <2>3 DEF Complete, CompleteLate
    <3>2. claim[p].url \in Url /\ frontier[claim[p].url] # None
      BY <1>0, <3>1, HeldRow
    <3>3. CASE status = "CANCELLED"
      <4>1. status' = status
        BY <3>1, <3>3 DEF Commit, run
      <4> QED
        BY <1>1, <3>1, <3>3, <4>1 DEF Ended
    <3>4. CASE status # "CANCELLED"
      <4>1. /\ \A v \in Url : frontier[v] # None /\ v # claim[p].url => frontier'[v] = frontier[v]
            /\ \A v \in Url : frontier[v] = None =>
                 frontier'[v] = None \/ frontier'[v].state = "PENDING"
            /\ status' = Finished(frontier')
            /\ pages \subseteq pages'
            /\ claim[p].url \in Page => claim[p].url \in pages'
        BY <1>0, <3>1, <3>4, CommitEffect
      <4>2. status # "none"
        BY <1>0, <3>2 DEF NoRowsYet
      <4>3. status' = "SUCCEEDED" \/ status' = status
        BY <4>1 DEF Finished
      <4>4. SettledIsRecorded'
        <5> SUFFICES ASSUME status' \in Open, NEW v \in Page, frontier'[v] # None
                     PROVE  frontier'[v].state \in Unsettled \/ v \in pages'
          BY DEF SettledIsRecorded
        <5>1. status \in Open /\ v \in Url
          BY <1>a, <4>3 DEF Open
        <5>2. CASE frontier[v] = None
          BY <4>1, <5>1, <5>2 DEF Unsettled
        <5>3. CASE frontier[v] # None /\ v # claim[p].url
          BY <1>0, <4>1, <5>1, <5>3 DEF SettledIsRecorded
        <5>4. CASE v = claim[p].url
          BY <4>1, <5>4
        <5> QED
          BY <5>2, <5>3, <5>4
      <4> QED
        BY <1>0, <3>1, <3>4, <4>2, <4>3, <4>4 DEF NoRowsYet, CancelClosed
    <3> QED
      BY <3>3, <3>4
  <2>4. CASE PutBack(p)
    <3>1. PICK u \in Url : u = claim[p].url
      BY <1>0, <2>4, HeldRow DEF PutBack
    <3>2. frontier[u] # None /\ frontier[u] \in Row
      BY <1>0, <2>4, <3>1, HeldRow DEF PutBack
    <3>3. PICK row : row = [frontier[u] EXCEPT !.state = "PENDING", !.waiting = TRUE]
      OBVIOUS
    <3>4. row.state \in Unsettled
      BY <3>2, <3>3 DEF Row, Unsettled
    <3>5. frontier' = frontier \/ frontier' = [frontier EXCEPT ![u] = row]
      BY <1>0, <2>4, <3>1, <3>3 DEF PutBack, Frontier
    <3>6. UNCHANGED <<status, pages, canceller>>
      BY <2>4 DEF PutBack, run
    <3> QED
      BY <1>2, <1>3, <3>2, <3>4, <3>5, <3>6
  <2>5. CASE FailRun(p)
    <3>1. frontier[claim[p].url] # None /\ claim[p].url \in Url
      BY <1>0, <2>5, HeldRow DEF FailRun
    <3>2. status # "none"
      BY <1>0, <3>1 DEF NoRowsYet
    <3>3. status' \in Ended /\ (status = "CANCELLED" => status' = "CANCELLED") /\ canceller' = canceller
      BY <1>0, <2>5, <3>2 DEF FailRun, TypeOK, Open, Ended
    <3> QED
      BY <1>1, <3>3
  <2> QED
    BY <1>8, <2>1, <2>2, <2>3, <2>4, <2>5 DEF Work
<1>9. ASSUME NEW u \in Url, FallDue(u) \/ Lapse(u) \/ Overrun(u)
      PROVE  SettledIsRecorded' /\ NoRowsYet' /\ CancelClosed'
  <2>1. frontier[u] \in Row /\ frontier[u] # None /\ frontier[u].state \in Unsettled
    BY <1>0, <1>9 DEF FallDue, Lapse, Overrun, Leased, In, Frontier, Unsettled
  <2>2. PICK row : row = [frontier[u] EXCEPT !.waiting = FALSE]
    OBVIOUS
  <2>3. row.state \in Unsettled
    BY <2>1, <2>2 DEF Row
  <2>4. frontier' = [frontier EXCEPT ![u] = row] /\ UNCHANGED <<status, pages, canceller>>
    BY <1>0, <1>9, <2>2 DEF FallDue, Lapse, Overrun, Frontier, run
  <2> QED
    BY <1>2, <2>1, <2>3, <2>4
<1>10. CASE UNCHANGED vars
  BY <1>3, <1>10 DEF vars, run
<1> QED
  BY <1>3, <1>4, <1>5, <1>6, <1>7, <1>8, <1>9, <1>10 DEF Next, Time

LEMMA IInvInit == Init => IInv
<1> SUFFICES ASSUME Init
             PROVE  IInv
  OBVIOUS
<1>1. Scheduled(frontier) = {}
  BY DEF Init, Scheduled, Url
<1>2. Bounded /\ SeedFirst
  BY <1>1, FS_EmptySet, LimitAssumption DEF Init, Bounded, SeedFirst
<1>3. SettledIsRecorded /\ NoRowsYet /\ CancelClosed
  BY DEF Init, SettledIsRecorded, NoRowsYet, CancelClosed, Open
<1> QED
  BY <1>2, <1>3, TypedInit DEF IInv

LEMMA IInvStep == IInv /\ [Next]_vars => IInv'
<1> SUFFICES ASSUME IInv, [Next]_vars
             PROVE  IInv'
  OBVIOUS
<1>1. Typed /\ Bounded /\ SeedFirst
  BY DEF IInv
<1>2. Typed'
  BY <1>1, TypedStep
<1>3. Bounded' /\ SeedFirst'
  BY <1>1, BoundedStep
<1>4. SettledIsRecorded' /\ NoRowsYet' /\ CancelClosed'
  BY SettledStep
<1> QED
  BY <1>2, <1>3, <1>4 DEF IInv

(***************************************************************************)
(* The refinement.                                                         *)
(***************************************************************************)
phase == IF status \in Open THEN "open" ELSE status

(* Traversal counts as FiniteSets does.                                    *)
LEMMA SameCardinality == \A S : T!Cardinality(S) = Cardinality(S)
  BY DEF T!Cardinality, Cardinality, T!IsFiniteSet, IsFiniteSet

(* Nothing Traversal speaks of changes.                                    *)
LEMMA Stutters ==
  ASSUME IInv, status' = status \/ (status \in Open /\ status' \in Open),
         UNCHANGED <<pages, visited>>,
         \A v \in Url : frontier'[v] = None <=> frontier[v] = None
  PROVE  UNCHANGED T!vars
<1>1. Scheduled(frontier)' = Scheduled(frontier)
  BY DEF Scheduled, Url
<1> QED
  BY <1>1 DEF T!vars

(* A `complete` that takes effect is a step of Traversal: its page, if it  *)
(* was not recorded yet, is visited, and pages are scheduled.              *)
LEMMA CommitProgresses ==
  ASSUME IInv, Bounded', TypeOK', NEW p \in Process, at[p] = "complete", Commit(p),
         status # "CANCELLED"
  PROVE  T!Next
<1> DEFINE u == claim[p].url
<1>0. /\ Typed /\ TypeOK /\ frontier \in Frontier /\ Bounded
      /\ SettledIsRecorded /\ NoRowsYet
  BY DEF IInv, Typed, TypeOK, Frontier
<1>1. u \in Url /\ frontier[u] # None
  BY <1>0, HeldRow
<1>2. /\ \A v \in Url : frontier[v] # None /\ v # u => frontier'[v] = frontier[v]
      /\ \A v \in Url : frontier[v] = None =>
           frontier'[v] = None \/ frontier'[v].state = "PENDING"
      /\ \A v \in Url : frontier[v] # None => frontier'[v] # None
      /\ status' = Finished(frontier')
      /\ \/ u \notin Page /\ UNCHANGED <<pages, visited>>
         \/ /\ u \in Page
            /\ pages' = pages \cup {u}
            /\ visited' = visited + Inserted(u)
  BY <1>0, CommitEffect
<1> HIDE DEF u
<1>3. PICK P : P = {u} \cap (Page \ pages)
  OBVIOUS
<1>4. PICK N : N = Scheduled(frontier) \cup Scheduled(frontier')
  OBVIOUS
<1>5. P \in {{}} \cup {{w} : w \in Page} /\ N \in SUBSET Page
  BY <1>3, <1>4 DEF Scheduled
<1>6. status # "none" /\ phase \notin {"none", "CANCELLED"}
  BY <1>0, <1>1 DEF NoRowsYet, phase
<1>7. P \subseteq Scheduled(frontier) \ pages
  BY <1>1, <1>3 DEF Scheduled
<1>8. pages' = pages \cup P /\ visited' = visited + Cardinality(P)
  <2>1. CASE u \in Page \ pages
    <3>1. P = {u}
      BY <1>3, <2>1
    <3>2. Cardinality(P) = 1
      BY <3>1, FS_Singleton
    <3> QED
      BY <1>2, <2>1, <3>1, <3>2 DEF Inserted
  <2>2. CASE u \notin Page \ pages
    <3>1. P = {} /\ Cardinality(P) = 0
      BY <1>3, <2>2, FS_EmptySet
    <3>2. pages' = pages
      BY <1>2, <2>2
    <3>3. visited' = visited \/ visited' = visited + 0
      BY <1>2, <2>2 DEF Inserted
    <3>4. visited \in Nat
      BY <1>0 DEF TypeOK
    <3> QED
      BY <3>1, <3>2, <3>3, <3>4
  <2> QED
    BY <2>1, <2>2
<1>9. Scheduled(frontier') = Scheduled(frontier) \cup N
  BY <1>2, <1>4 DEF Scheduled, Url
<1>10. Cardinality(Scheduled(frontier')) <= MaxPages
  BY DEF Bounded
<1>11. \/ phase' = phase
       \/ phase = "open" /\ phase' = "SUCCEEDED" /\ Scheduled(frontier') \subseteq pages'
  <2>1. CASE status' = status
    BY <2>1 DEF phase
  <2>2. CASE status' # status
    <3>1. /\ status \in Open /\ status' = "SUCCEEDED"
          /\ \A v \in Url : frontier'[v] # None => frontier'[v].state \notin Unsettled
      BY <1>2, <2>2 DEF Finished
    <3>2. ASSUME NEW v \in Scheduled(frontier')
          PROVE  v \in pages'
      <4>1. v \in Page /\ v \in Url /\ frontier'[v] # None /\ frontier'[v].state \notin Unsettled
        BY <3>1 DEF Scheduled, Url
      <4>2. frontier[v] # None
        BY <1>2, <4>1 DEF Unsettled
      <4>3. CASE v = u
        BY <1>2, <4>1, <4>3
      <4>4. CASE v # u
        BY <1>0, <1>8, <1>2, <3>1, <4>1, <4>2, <4>4 DEF SettledIsRecorded
      <4> QED
        BY <4>3, <4>4
    <3> QED
      BY <3>1, <3>2 DEF phase, Open
  <2> QED
    BY <2>1, <2>2
<1>12. T!Progress(P, N)
  <2>1. \/ (IF status' \in Open THEN "open" ELSE status') = (IF status \in Open THEN "open" ELSE status)
        \/ /\ (IF status \in Open THEN "open" ELSE status) = "open"
           /\ (IF status' \in Open THEN "open" ELSE status') = "SUCCEEDED"
           /\ Scheduled(frontier') \subseteq pages'
    BY <1>11 DEF phase
  <2>2. (IF status \in Open THEN "open" ELSE status) \notin {"none", "CANCELLED"}
    BY <1>6 DEF phase
  <2> QED
    BY <1>7, <1>8, <1>9, <1>10, <2>1, <2>2, SameCardinality DEF T!Progress
<1> QED
  BY <1>5, <1>12 DEF T!Next

LEMMA StepSimulation == IInv /\ TypeOK' /\ Bounded' /\ [Next]_vars => [T!Next]_(T!vars)
<1> SUFFICES ASSUME IInv, TypeOK', Bounded', [Next]_vars
             PROVE  T!Next \/ UNCHANGED T!vars
  OBVIOUS
<1>0. /\ Typed /\ TypeOK /\ frontier \in Frontier
      /\ SettledIsRecorded /\ NoRowsYet /\ CancelClosed
  BY DEF IInv, Typed, TypeOK, Frontier
<1>1. ASSUME NEW u \in Url, frontier[u] # None, NEW row \in Row,
             frontier' = [frontier EXCEPT ![u] = row]
      PROVE  \A v \in Url : frontier'[v] = None <=> frontier[v] = None
  BY <1>0, <1>1, RowFields DEF Frontier
<1>2. CASE Start
  <2>1. Scheduled(frontier)' = Scheduled(frontier)
    BY <1>0, <1>2, UrlAssumption DEF Start, Scheduled, Frontier, Url
  <2>2. T!Start
    BY <1>2, <2>1 DEF Start, T!Start, Open
  <2> QED
    BY <2>2 DEF T!Next
<1>3. CASE CancelRun
  <2>1. T!Stop("CANCELLED")
    BY <1>3 DEF CancelRun, T!Stop, Open
  <2> QED
    BY <2>1 DEF T!Next, T!Ends
<1>4. CASE CancelFrontier
  BY <1>0, <1>4, Stutters, AllCancelledKeeps DEF CancelFrontier, run
<1>5. CASE CancellerDies
  BY <1>5, Stutters DEF CancellerDies, run
<1>6. ASSUME NEW p \in Process, Work(p) \/ Die(p)
      PROVE  T!Next \/ UNCHANGED T!vars
  <2>1. ASSUME NEW u \in Url, ClaimUrl(p, u)
        PROVE  T!Next \/ UNCHANGED T!vars
    <3>1. frontier[u] \in Row /\ frontier[u] # None
      BY <1>0, <2>1 DEF ClaimUrl, Runnable, In, Frontier
    <3>2. PICK row : row = [frontier[u] EXCEPT !.state = "RUNNING", !.attempts = @ + 1, !.waiting = TRUE]
      OBVIOUS
    <3>3. row \in Row
      <4>1. frontier[u].attempts + 1 \in Nat
        BY <3>1, RowFields
      <4> QED
        BY <3>1, <3>2, <4>1 DEF Row, Unsettled
    <3>4. frontier' = [frontier EXCEPT ![u] = row]
      BY <1>0, <2>1, <3>2 DEF ClaimUrl, Frontier
    <3>5. status \in Open /\ status' \in Open /\ UNCHANGED <<pages, visited>>
      BY <2>1 DEF ClaimUrl, Open
    <3> QED
      BY <1>1, <3>1, <3>3, <3>4, <3>5, Stutters
  <2>2. CASE Fetch(p) \/ CompleteRaises(p) \/ FailRaises(p) \/ Die(p)
    BY <2>2, Stutters DEF Fetch, CompleteRaises, FailRaises, Die, run
  <2>3. CASE Complete(p) \/ CompleteLate(p)
    <3>1. at[p] = "complete" /\ Commit(p)
      BY <2>3 DEF Complete, CompleteLate
    <3>2. CASE status = "CANCELLED"
      <4>1. frontier' = Marked(frontier, claim[p].url, "CANCELLED") /\ UNCHANGED <<status, pages, visited>>
        BY <3>1, <3>2 DEF Commit, run
      <4>2. \A v \in Url : frontier'[v] = None <=> frontier[v] = None
        BY <1>0, <3>1, <4>1, HeldRow, MarkedKeeps
      <4> QED
        BY <4>1, <4>2, Stutters
    <3>3. CASE status # "CANCELLED"
      BY <3>1, <3>3, CommitProgresses
    <3> QED
      BY <3>2, <3>3
  <2>4. CASE PutBack(p)
    <3>1. PICK u \in Url : u = claim[p].url
      BY <1>0, <2>4, HeldRow DEF PutBack
    <3>2. frontier[u] # None /\ frontier[u] \in Row
      BY <1>0, <2>4, <3>1, HeldRow DEF PutBack
    <3>3. PICK row : row = [frontier[u] EXCEPT !.state = "PENDING", !.waiting = TRUE]
      OBVIOUS
    <3>4. row \in Row
      BY <3>2, <3>3 DEF Row, Unsettled
    <3>5. frontier' = frontier \/ frontier' = [frontier EXCEPT ![u] = row]
      BY <1>0, <2>4, <3>1, <3>3 DEF PutBack, Frontier
    <3>6. UNCHANGED <<status, pages, visited>>
      BY <2>4 DEF PutBack, run
    <3> QED
      BY <1>1, <3>2, <3>4, <3>5, <3>6, Stutters
  <2>5. CASE FailRun(p)
    <3>1. claim[p].url \in Url /\ frontier[claim[p].url] # None
      BY <1>0, <2>5, HeldRow DEF FailRun
    <3>2. PICK f : f = Marked(frontier, claim[p].url, "FAILED")
      OBVIOUS
    <3>3. /\ f \in Frontier
          /\ \A v \in Url : f[v] = None <=> frontier[v] = None
      BY <1>0, <3>1, <3>2, MarkedKeeps
    <3>4. frontier' = AllCancelled(f) /\ UNCHANGED <<pages, visited>>
      BY <2>5, <3>2 DEF FailRun
    <3>5. \A v \in Url : frontier'[v] = None <=> frontier[v] = None
      BY <3>3, <3>4, AllCancelledKeeps
    <3>6. CASE status \in Open
      <4>1. status' = "FAILED"
        BY <2>5, <3>6 DEF FailRun
      <4>2. Scheduled(frontier)' = Scheduled(frontier)
        BY <3>5 DEF Scheduled, Url
      <4>3. T!Stop("FAILED")
        BY <3>4, <3>6, <4>1, <4>2 DEF T!Stop, Open
      <4> QED
        BY <4>3 DEF T!Next, T!Ends
    <3>7. CASE status \notin Open
      <4>1. status' = status
        BY <2>5, <3>7 DEF FailRun
      <4> QED
        BY <3>4, <3>5, <4>1, Stutters
    <3> QED
      BY <3>6, <3>7
  <2> QED
    BY <1>6, <2>1, <2>2, <2>3, <2>4, <2>5 DEF Work
<1>7. ASSUME NEW u \in Url, FallDue(u) \/ Lapse(u) \/ Overrun(u)
      PROVE  T!Next \/ UNCHANGED T!vars
  <2>1. frontier[u] \in Row /\ frontier[u] # None
    BY <1>0, <1>7 DEF FallDue, Lapse, Overrun, Leased, In, Frontier
  <2>2. PICK row : row = [frontier[u] EXCEPT !.waiting = FALSE]
    OBVIOUS
  <2>3. row \in Row
    BY <2>1, <2>2 DEF Row
  <2>4. frontier' = [frontier EXCEPT ![u] = row] /\ UNCHANGED <<status, pages, visited>>
    BY <1>0, <1>7, <2>2 DEF FallDue, Lapse, Overrun, Frontier, run
  <2> QED
    BY <1>1, <2>1, <2>3, <2>4, Stutters
<1>8. CASE UNCHANGED vars
  BY <1>8, Stutters DEF vars, run
<1> QED
  BY <1>2, <1>3, <1>4, <1>5, <1>6, <1>7, <1>8 DEF Next, Time

(* Workers, leases, retries and repeated completions implement Traversal:  *)
(* nothing scheduled is lost or visited twice, a run succeeds only when    *)
(* all that was scheduled has been visited, a run that ended stays ended,  *)
(* and nothing is visited after a cancellation.                            *)
THEOREM WorkflowImplements == Spec => Implements
<1>1. Init => T!Init
  <2> SUFFICES ASSUME Init
               PROVE  T!Init
    OBVIOUS
  <2>1. Scheduled(frontier) = {}
    BY DEF Init, Scheduled, Url
  <2> QED
    BY <2>1 DEF Init, T!Init, Open
<1>2. IInv /\ IInv' /\ [Next]_vars => [T!Next]_(T!vars)
  BY StepSimulation DEF IInv, Typed
<1> QED
  BY <1>1, <1>2, IInvInit, IInvStep, PTL DEF Spec, Implements, T!Spec
=============================================================================
