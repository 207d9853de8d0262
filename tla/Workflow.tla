------------------------------ MODULE Workflow ------------------------------
(***************************************************************************)
(* One run of the HTTP workflow jails generates                            *)
(* (templates/spring/http_workflow_java.java): a frontier in PostgreSQL    *)
(* that the workers of all processes lease rows of, the origin's robots    *)
(* policy first and then page after page, and a caller who may cancel.     *)
(*                                                                         *)
(* A transaction is one step: `complete` holds the run's row from its      *)
(* first statement on.  `cancel` is not one, so it takes two.  What the    *)
(* server answers is chosen anew for every fetch.                          *)
(***************************************************************************)
EXTENDS Integers, FiniteSets

CONSTANTS
  Page,         \* canonical URLs of the origin
  Seed,
  Robots,       \* /robots.txt, a frontier row too
  Links,        \* for each page, the sets of links it may answer with
  Policies,     \* the sets of URLs the robots policy may allow
  Process,      \* application processes, one worker each
  MaxPages, MaxDepth, MaxAttempts,
  MaxMishaps,   \* bound: deaths, late exceptions, database errors, overrun leases
  None

Url == Page \cup {Robots}

ASSUME UrlAssumption ==
  /\ IsFiniteSet(Page)
  /\ Seed \in Page /\ Robots \notin Page
  /\ Links \in [Page -> SUBSET SUBSET Url]
  /\ Policies \subseteq SUBSET Url
ASSUME LimitAssumption ==
  /\ MaxPages \in Nat \ {0} /\ MaxDepth \in Nat /\ MaxAttempts \in Nat \ {0}
  /\ MaxMishaps \in Nat

Open == {"QUEUED", "RUNNING"}
Ended == {"SUCCEEDED", "FAILED", "CANCELLED"}
Unsettled == {"PENDING", "RUNNING"}

\* `waiting`: next_attempt_at of a PENDING row, lease_until of a RUNNING one,
\* is still to come.
Row == [state : Unsettled \cup Ended, depth : Int, attempts : Nat, waiting : BOOLEAN]
Claim == [url : Url, attempt : Nat]

ASSUME NoneAssumption == None \notin Row /\ None \notin Claim

VARIABLES
  status,     \* of the run, "none" before it is started; CANCELLED goes with cancel_requested
  rules,      \* robots_rules: the URLs they allow, all while there are none
  frontier,   \* its rows by URL
  pages,      \* the page ledger
  visited,    \* pages_visited
  at,         \* where each worker is
  claim,      \* the row it has leased, and the attempt that is
  canceller,  \* the caller of `cancel`: "away", "between" its statements, or "died" there
  mishaps

run == <<status, rules, pages, visited>>
worker == <<at, claim>>
vars == <<run, frontier, worker, canceller, mishaps>>

Init ==
  /\ status = "none"
  /\ rules = Url
  /\ frontier = [u \in Url |-> None]
  /\ pages = {}
  /\ visited = 0
  /\ at = [p \in Process |-> "idle"]
  /\ claim = [p \in Process |-> None]
  /\ canceller = "away"
  /\ mishaps = 0

Goto(p, label) == at' = [at EXCEPT ![p] = label]

\* Mutant: a worker that is through keeps its claim.
ReleaseVariant(p) == Goto(p, "idle") /\ UNCHANGED claim

Release(p) ==
  /\ Goto(p, "idle")
  /\ claim' = [claim EXCEPT ![p] = None]

Suffer ==
  /\ mishaps < MaxMishaps
  /\ mishaps' = mishaps + 1

In(u, states) == frontier[u] # None /\ frontier[u].state \in states

\* Mutant: a lease that ran out is not claimed again.
RunnableVariant(u) == In(u, {"PENDING"}) /\ ~frontier[u].waiting

Runnable(u) == In(u, Unsettled) /\ ~frontier[u].waiting
Current(p, u) == claim[p] # None /\ claim[p].url = u /\ claim[p].attempt = frontier[u].attempts

Fresh(depth) == [state |-> "PENDING", depth |-> depth, attempts |-> 0, waiting |-> FALSE]

\* `markFrontier`: only a row that is RUNNING changes.
Marked(f, u, state) ==
  IF f[u].state = "RUNNING" THEN [f EXCEPT ![u].state = state, ![u].waiting = FALSE] ELSE f

AllCancelled(f) ==
  [u \in Url |-> IF f[u] # None /\ f[u].state \in Unsettled
                 THEN [f[u] EXCEPT !.state = "CANCELLED", !.waiting = FALSE] ELSE f[u]]

(* Callers. *)

\* Starting the run again, with the same input or another, changes nothing.
Start ==
  /\ status = "none"
  /\ status' = "QUEUED"
  /\ frontier' = [frontier EXCEPT ![Robots] = Fresh(-1)]
  /\ UNCHANGED <<rules, pages, visited, worker, canceller, mishaps>>

CancelRun ==
  /\ status \in Open
  /\ status' = "CANCELLED"
  /\ canceller' = "between"
  /\ UNCHANGED <<rules, frontier, pages, visited, worker, mishaps>>

CancelFrontier ==
  /\ canceller = "between"
  /\ frontier' = AllCancelled(frontier)
  /\ canceller' = "away"
  /\ UNCHANGED <<run, worker, mishaps>>

\* The caller's process dies between the two; calling `cancel` again finds
\* nothing to change.
CancellerDies ==
  /\ canceller = "between"
  /\ Suffer
  /\ canceller' = "died"
  /\ UNCHANGED <<run, frontier, worker>>

(* A worker. *)

\* The shallowest runnable row, first come or first in the alphabet.
ClaimUrl(p, u) ==
  /\ at[p] = "idle"
  /\ status \in Open
  /\ Runnable(u)
  /\ \A v \in Url : Runnable(v) => frontier[u].depth <= frontier[v].depth
  /\ frontier' = [frontier EXCEPT ![u].state = "RUNNING", ![u].attempts = @ + 1, ![u].waiting = TRUE]
  /\ status' = "RUNNING"
  /\ claim' = [claim EXCEPT ![p] = [url |-> u, attempt |-> frontier[u].attempts + 1]]
  /\ Goto(p, "fetch")
  /\ UNCHANGED <<rules, pages, visited, canceller, mishaps>>

Fetch(p) ==
  /\ at[p] = "fetch"
  /\ \E outcome \in {"complete", "retry", "give up"} : Goto(p, outcome)
  /\ UNCHANGED <<run, frontier, claim, canceller, mishaps>>

\* Mutant: a page that is recorded already is counted again.
InsertedVariant(u) == 1

\* `on conflict do nothing`.
Inserted(u) == IF u \in pages THEN 0 ELSE 1

Scheduled(f) == {u \in Page : f[u] # None}

\* Mutant: only what a worker holds counts as left.
FinishedVariant(f) ==
  IF status \in Open /\ \A u \in Url : f[u] # None => f[u].state # "RUNNING"
  THEN "SUCCEEDED" ELSE status

\* `finishIfDone`, given what is left.
Finished(f) ==
  IF status \in Open /\ \A u \in Url : f[u] # None => f[u].state \notin Unsettled
  THEN "SUCCEEDED" ELSE status

\* The first statement of `complete` locks the run.  Links are a set without
\* an order, so any of the new ones may be those that still fit.
CompletePolicy(p) ==
  /\ claim[p].url = Robots
  /\ \E policy \in Policies :
    LET planned == IF Seed \in policy /\ frontier[Seed] = None
                   THEN [frontier EXCEPT ![Seed] = Fresh(0)] ELSE frontier
    IN
    /\ rules' = policy
    /\ frontier' = Marked(planned, Robots, "SUCCEEDED")
    /\ status' = Finished(frontier')
    /\ UNCHANGED <<pages, visited>>

CompletePage(p) ==
  /\ claim[p].url \in Page
  /\ \E links \in Links[claim[p].url] :
    LET u == claim[p].url
        open == {v \in links : frontier[v] = None /\ v \in rules}
        room == MaxPages - Cardinality(Scheduled(frontier))
        follow == visited + Inserted(u) < MaxPages /\ frontier[u].depth < MaxDepth
    IN
    /\ pages' = pages \cup {u}
    /\ visited' = visited + Inserted(u)
    /\ \E fit \in SUBSET open :
         /\ IF ~follow \/ room <= 0 THEN fit = {}
            ELSE Cardinality(fit) = IF Cardinality(open) < room THEN Cardinality(open) ELSE room
         /\ frontier' = Marked([v \in Url |-> IF v \in fit THEN Fresh(frontier[u].depth + 1)
                                              ELSE frontier[v]], u, "SUCCEEDED")
    /\ status' = Finished(frontier')
    /\ UNCHANGED rules

\* Mutant: what the run has become meanwhile is not asked.
CommitVariant(p) == CompletePolicy(p) \/ CompletePage(p)

Commit(p) ==
  IF status = "CANCELLED"
  THEN frontier' = Marked(frontier, claim[p].url, "CANCELLED") /\ UNCHANGED run
  ELSE CompletePolicy(p) \/ CompletePage(p)

Complete(p) ==
  /\ at[p] = "complete"
  /\ Commit(p)
  /\ Release(p)
  /\ UNCHANGED <<canceller, mishaps>>

\* The transaction commits and the worker hears of an exception.
CompleteLate(p) ==
  /\ at[p] = "complete"
  /\ Commit(p)
  /\ Suffer
  /\ Goto(p, "retry")
  /\ UNCHANGED <<claim, canceller>>

\* It raises and is rolled back.
CompleteRaises(p) ==
  /\ at[p] = "complete"
  /\ Suffer
  /\ Goto(p, "retry")
  /\ UNCHANGED <<run, frontier, claim, canceller>>

\* `attempt` is the claim's own, not the row's.
PutBack(p) ==
  /\ at[p] = "retry" /\ claim[p].attempt < MaxAttempts
  /\ LET u == claim[p].url IN
     frontier' = IF frontier[u].state = "RUNNING"
                 THEN [frontier EXCEPT ![u].state = "PENDING", ![u].waiting = TRUE] ELSE frontier
  /\ Release(p)
  /\ UNCHANGED <<run, canceller, mishaps>>

\* One terminal failure ends the whole run, whoever reports it.
FailRun(p) ==
  /\ at[p] = "give up" \/ (at[p] = "retry" /\ claim[p].attempt >= MaxAttempts)
  /\ frontier' = AllCancelled(Marked(frontier, claim[p].url, "FAILED"))
  /\ status' = IF status \in Open THEN "FAILED" ELSE status
  /\ Release(p)
  /\ UNCHANGED <<rules, pages, visited, canceller, mishaps>>

FailRaises(p) ==
  /\ at[p] \in {"retry", "give up"}
  /\ Suffer
  /\ Release(p)
  /\ UNCHANGED <<run, frontier, canceller>>

Die(p) ==
  /\ at[p] # "idle"
  /\ Suffer
  /\ Release(p)
  /\ UNCHANGED <<run, frontier, canceller>>

(* Time. *)

FallDue(u) ==
  /\ In(u, {"PENDING"}) /\ frontier[u].waiting
  /\ frontier' = [frontier EXCEPT ![u].waiting = FALSE]
  /\ UNCHANGED <<run, worker, canceller, mishaps>>

Leased(u) == In(u, {"RUNNING"}) /\ frontier[u].waiting
Abandoned(u) == \A p \in Process : ~Current(p, u)

Lapse(u) ==
  /\ Leased(u) /\ Abandoned(u)
  /\ frontier' = [frontier EXCEPT ![u].waiting = FALSE]
  /\ UNCHANGED <<run, worker, canceller, mishaps>>

\* A lease runs out under a worker that is still at work.
Overrun(u) ==
  /\ Leased(u) /\ ~Abandoned(u)
  /\ Suffer
  /\ frontier' = [frontier EXCEPT ![u].waiting = FALSE]
  /\ UNCHANGED <<run, worker, canceller>>

Work(p) ==
  \/ \E u \in Url : ClaimUrl(p, u)
  \/ Fetch(p) \/ Complete(p) \/ CompleteLate(p) \/ CompleteRaises(p)
  \/ PutBack(p) \/ FailRun(p) \/ FailRaises(p)

Time == \E u \in Url : FallDue(u) \/ Lapse(u)

Next ==
  \/ Start \/ CancelRun \/ CancelFrontier \/ CancellerDies
  \/ \E p \in Process : Work(p) \/ Die(p)
  \/ Time
  \/ \E u \in Url : Overrun(u)

Spec == Init /\ [][Next]_vars

\* The schedule ticks for ever, fetches are bounded by the fetcher's timeouts,
\* and time passes.
FairSpec ==
  /\ Spec
  /\ \A p \in Process : WF_vars(Work(p))
  /\ WF_vars(Time)

(* Properties. *)

\* Every variable has its type; a worker holds a claim exactly while it works.
TypeOK ==
  /\ status \in {"none"} \cup Open \cup Ended
  /\ rules \subseteq Url
  /\ frontier \in [Url -> Row \cup {None}]
  /\ pages \subseteq Page
  /\ visited \in Nat
  /\ at \in [Process -> {"idle", "fetch", "complete", "retry", "give up"}]
  /\ claim \in [Process -> Claim \cup {None}]
  /\ \A p \in Process : claim[p] = None <=> at[p] = "idle"
  /\ canceller \in {"away", "between", "died"}
  /\ mishaps \in 0..MaxMishaps

\* However many workers complete, repeat or fail a page, the run counts every
\* page once and neither counts nor schedules more than its limits
\* (http_workflow_java.java:239-262, 322-325).
Bounded ==
  /\ visited = Cardinality(pages)
  /\ pages \subseteq Scheduled(frontier)
  /\ Cardinality(Scheduled(frontier)) <= MaxPages
  /\ \A u \in Scheduled(frontier) : frontier[u].depth \in 0..MaxDepth

\* Once a cancellation has returned, nothing of the run is runnable, held or
\* added any more, whatever workers were at (http_workflow_java.java:152-166).
CancelSettles ==
  status = "CANCELLED" /\ canceller = "away" =>
    \A u \in Url : ~In(u, Unsettled)

T == INSTANCE Traversal WITH
  phase <- IF status \in Open THEN "open" ELSE status,
  scheduled <- Scheduled(frontier),
  visited <- [pages |-> pages, count |-> visited]

\* Leases, retries and repeated completions together keep what Traversal says
\* of a run: nothing lost, nothing counted twice, success only when all that
\* was scheduled has been visited, nothing visited after a cancellation.
Implements == T!Spec

\* A started run ends: what a dead worker held is claimed again, and whichever
\* worker completes the last row finishes the run (http_workflow_java.java:335-346).
RunEnds == []<>(status = "none" \/ status \in Ended)
=============================================================================
