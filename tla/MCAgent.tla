------------------------------ MODULE MCAgent ------------------------------
(***************************************************************************)
(* Agent for TLC: the agent with two connections, so that a request it     *)
(* gave up and its next one are both under way, and two writes of others.  *)
(* With two attempts per sync (three in the code) two conflicts and a lost *)
(* request lead to the last one's conflict.                                *)
(***************************************************************************)
EXTENDS Agent, TLC

CONSTANTS hand, MaxBeats

MCSpecs == {hand} \cup {node_document(n, d) : n \in 1 .. MaxBeats, d \in BOOLEAN}

MCStatusWrites == {<<"Ready", "plain">>}
=============================================================================
