------------------------------- MODULE MCKeys -------------------------------
(***************************************************************************)
(* Keys for TLC: the bootstrap admin and one minted key, listed one per    *)
(* page, so that a deletion between two pages moves a key.                 *)
(***************************************************************************)
EXTENDS Keys

MCBootKeys == {[principal |-> "root", token |-> 0]}
MCKeyRequests == {[roles |-> {"viewer"}, scopes |-> {}, org |-> "acme", project |-> ""],
                  [roles |-> {"operator"}, scopes |-> {}, org |-> "", project |-> ""]}
MCPatches == {[active |-> FALSE], [roles |-> {"operator"}], [roles |-> {"admin"}]}
MCRequests == {[route |-> "document", method |-> "PUT", org |-> "acme", project |-> "core"],
               [route |-> "index", method |-> "GET", org |-> "", project |-> ""],
               [route |-> "id", method |-> "GET", org |-> "", project |-> ""]}
=============================================================================
