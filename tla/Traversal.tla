----------------------------- MODULE Traversal ------------------------------
(***************************************************************************)
(* What an HTTP workflow promises of one run: pages are scheduled within   *)
(* the page limit, each is visited once and none is lost, a run succeeds   *)
(* only when all that was scheduled has been visited, a run that ended     *)
(* stays ended, and after a cancellation nothing is visited any more.      *)
(***************************************************************************)
EXTENDS Naturals, FiniteSets

CONSTANTS Page, MaxPages

VARIABLES
  phase,      \* "none", "open", or how the run ended
  scheduled,  \* pages in the frontier
  visited     \* pages recorded, with how many the run counts
vars == <<phase, scheduled, visited>>

Ends == {"SUCCEEDED", "FAILED", "CANCELLED"}

Init == phase = "none" /\ scheduled = {} /\ visited = [pages |-> {}, count |-> 0]

Start == phase = "none" /\ phase' = "open" /\ UNCHANGED <<scheduled, visited>>

\* A page is visited, and pages it links to are scheduled: always in one step.
Progress(P, N) ==
  /\ phase \notin {"none", "CANCELLED"}
  /\ P \subseteq scheduled \ visited.pages
  /\ visited' = [pages |-> visited.pages \cup P, count |-> visited.count + Cardinality(P)]
  /\ scheduled' = scheduled \cup N
  /\ Cardinality(scheduled') <= MaxPages
  /\ \/ phase' = phase
     \/ phase = "open" /\ phase' = "SUCCEEDED" /\ scheduled' \subseteq visited'.pages

Stop(end) ==
  /\ phase = "open"
  /\ end \in {"FAILED", "CANCELLED"}
  /\ phase' = end
  /\ UNCHANGED <<scheduled, visited>>

Next ==
  \/ Start
  \/ \E P \in {{}} \cup {{u} : u \in Page}, N \in SUBSET Page : Progress(P, N)
  \/ \E end \in Ends : Stop(end)

Spec == Init /\ [][Next]_vars
=============================================================================
