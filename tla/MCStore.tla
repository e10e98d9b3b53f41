------------------------------ MODULE MCStore ------------------------------
(***************************************************************************)
(* Store and its readers for TLC: two logical keys over three ids, so that *)
(* a key is deleted and created again; two specs and one that Validate     *)
(* rejects; a ring of two slots, so that it wraps more than once; pages of *)
(* one entry over an audit ring of two and an event ring of three, both    *)
(* of which roll past the reader; event numbers beyond the cursor bound.   *)
(***************************************************************************)
EXTENDS Feed

MCStatusWrites == {<<"Ready", "plain">>}
=============================================================================
