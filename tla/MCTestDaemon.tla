---------------------------- MODULE MCTestDaemon ----------------------------
(***************************************************************************)
(* Two terminals in one project: one that asks for tests, one that stops,  *)
(* starts or restarts the daemon.                                          *)
(***************************************************************************)
EXTENDS TestDaemon, TLC

CONSTANTS c1, c2

TestAndStop == c1 :> {"test"} @@ c2 :> {"stop"}
TestAndStart == c1 :> {"test"} @@ c2 :> {"start"}
TestAndRestart == c1 :> {"test"} @@ c2 :> {"restart"}

Sym == Permutations(Daemon) \cup Permutations(Output) \cup Permutations(Classpath)
=============================================================================
