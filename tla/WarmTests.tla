----------------------------- MODULE WarmTests -----------------------------
(***************************************************************************)
(* What the warm test engine promises a client, whatever becomes of the    *)
(* daemons behind it: a report speaks of one run, and that run began while *)
(* the compiled outputs were the ones the client had taken a snapshot of.  *)
(* A client may leave empty-handed at any moment.                          *)
(***************************************************************************)
CONSTANTS Client, Output, None

VARIABLES
  outputs,  \* the compiled classes, as one digest
  phase,    \* of each client's request
  snap      \* the snapshot the request carries

vars == <<outputs, phase, snap>>

Init ==
  /\ outputs \in Output
  /\ phase = [c \in Client |-> "idle"]
  /\ snap = [c \in Client |-> None]

Move(c, from, to) ==
  /\ phase[c] = from
  /\ phase' = [phase EXCEPT ![c] = to]

Ask(c) ==
  /\ Move(c, "idle", "asked")
  /\ snap' = [snap EXCEPT ![c] = outputs]
  /\ UNCHANGED outputs

Run(c) ==
  /\ Move(c, "asked", "running")
  /\ snap[c] = outputs
  /\ UNCHANGED <<outputs, snap>>

Report(c) ==
  /\ Move(c, "running", "reported")
  /\ UNCHANGED <<outputs, snap>>

\* One daemon that stops ends every exchange it holds.
LeaveAll(C) ==
  /\ C # {}
  /\ phase' = [c \in Client |-> IF c \in C THEN "idle" ELSE phase[c]]
  /\ snap' = [c \in Client |-> IF c \in C THEN None ELSE snap[c]]
  /\ UNCHANGED outputs

Recompile ==
  /\ outputs' \in Output
  /\ UNCHANGED <<phase, snap>>

Next ==
  \/ \E c \in Client : Ask(c) \/ Run(c) \/ Report(c)
  \/ \E C \in SUBSET Client : LeaveAll(C)
  \/ Recompile

Spec == Init /\ [][Next]_vars
=============================================================================
