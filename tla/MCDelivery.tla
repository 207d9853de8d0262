----------------------------- MODULE MCDelivery -----------------------------
(***************************************************************************)
(* Two processes of one application and an outbox with two sinks.          *)
(***************************************************************************)
EXTENDS Delivery

CONSTANTS s1, s2

TwoSinks == <<s1, s2>>
=============================================================================
