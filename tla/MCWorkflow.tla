----------------------------- MODULE MCWorkflow -----------------------------
(***************************************************************************)
(* A seed whose links change between fetches, on an origin of three pages. *)
(***************************************************************************)
EXTENDS Workflow, TLC

CONSTANTS home, a, b

Site == home :> {{a, b, Robots}, {a}} @@ a :> {{home, b}} @@ b :> {{}}
Rules == {Url, Url \ {b}}
=============================================================================
