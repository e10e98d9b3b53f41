----------------------------- MODULE MCPgStore -----------------------------
(***************************************************************************)
(* PgStore for TLC: two callers on one or two addresses, enough calls for  *)
(* an address to be created, changed from two sides, deleted and created   *)
(* again.                                                                  *)
(***************************************************************************)
EXTENDS PgStore

MCStatusWrites == {<<"Ready", "plain">>}
=============================================================================
