------------------------------- MODULE MCApi -------------------------------
(***************************************************************************)
(* Api for TLC: two clients contending for one logical key, which is       *)
(* created, updated, deleted and created again.  The ring is large enough  *)
(* to keep every entry, so that the trail and the events can be compared   *)
(* in full.                                                                *)
(***************************************************************************)
EXTENDS Api

MCStatusWrites == {<<"Ready", "plain">>}
=============================================================================
