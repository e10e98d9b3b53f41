------------------------------ MODULE MCStream ------------------------------
(***************************************************************************)
(* Stream for TLC: events that are fanned out at once, that may fail, and  *)
(* a foreign payload that cannot be decoded, in batches of two.            *)
(***************************************************************************)
EXTENDS Stream

MCMessages == {[kind |-> "plain", org |-> "acme"], [kind |-> "subscription", org |-> "acme"],
               [kind |-> "garbled", org |-> "acme"], [kind |-> "plain", org |-> "other"]}
=============================================================================
