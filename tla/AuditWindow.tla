---------------------------- MODULE AuditWindow ----------------------------
(***************************************************************************)
(* What the audit log of the memory backend promises                       *)
(* (internal/state/store.go, ListAudit and the retention notes of issue    *)
(* #85): a listing shows the newest AuditCap entries, newest first;        *)
(* older ones are "simply absent from listings, never phantom or           *)
(* reordered", and the eviction counter says how many are gone.            *)
(*                                                                         *)
(* Store.tla keeps the same entries in an overwritten ring with a write    *)
(* index; it is shown to implement this specification.                     *)
(***************************************************************************)
EXTENDS Naturals, Sequences

CONSTANTS AuditCap, \* number of entries retained
          Entry     \* the audit entries that can be written

VARIABLES window,   \* the retained entries, newest first
          evicted   \* how many entries have been evicted

wvars == <<window, evicted>>

Init ==
  /\ window = <<>>
  /\ evicted = 0

\* One entry becomes the newest; when the window is full the oldest leaves.
Record(e) ==
  IF Len(window) < AuditCap
    THEN /\ window' = <<e>> \o window
         /\ UNCHANGED evicted
    ELSE /\ window' = <<e>> \o SubSeq(window, 1, AuditCap - 1)
         /\ evicted' = evicted + 1

Next == \E e \in Entry : Record(e)

Spec == Init /\ [][Next]_wvars
=============================================================================
