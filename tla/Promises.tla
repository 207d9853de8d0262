------------------------------ MODULE Promises ------------------------------
(***************************************************************************)
(* What a durable job over an outbox command promises: accepted work has   *)
(* its effect once, a sink is told of nothing that did not happen, work is *)
(* reported done only when it is, and an event delivered only when every   *)
(* sink was told.  Who does it, how often it is tried and what dies        *)
(* meanwhile is nobody's business here.                                    *)
(***************************************************************************)
CONSTANTS Item, Sink

VARIABLES
  accepted,   \* the items enqueued
  done,       \* those that had their effect
  told,       \* which sinks were told of which
  reported,   \* the items whose status says success
  announced   \* those whose event's status says success

vars == <<accepted, done, told, reported, announced>>

Init ==
  /\ accepted = {} /\ done = {} /\ told = {}
  /\ reported = {} /\ announced = {}

Accept(i) ==
  /\ accepted' = accepted \cup {i}
  /\ UNCHANGED <<done, told, reported, announced>>

Do(i) ==
  /\ i \in accepted \ done
  /\ done' = done \cup {i}
  /\ UNCHANGED <<accepted, told, reported, announced>>

Tell(i, s) ==
  /\ i \in done
  /\ told' = told \cup {<<i, s>>}
  /\ UNCHANGED <<accepted, done, reported, announced>>

Report(i) ==
  /\ i \in done
  /\ reported' = reported \cup {i}
  /\ UNCHANGED <<accepted, done, told, announced>>

Announce(i) ==
  /\ \A s \in Sink : <<i, s>> \in told
  /\ announced' = announced \cup {i}
  /\ UNCHANGED <<accepted, done, told, reported>>

Next ==
  \E i \in Item :
    \/ Accept(i) \/ Do(i) \/ Report(i) \/ Announce(i)
    \/ \E s \in Sink : Tell(i, s)

Spec == Init /\ [][Next]_vars
=============================================================================
