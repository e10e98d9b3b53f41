------------------------------ MODULE Resource ------------------------------
(***************************************************************************)
(* The resource document and what the store computes from it               *)
(* (internal/state/resource.go and the pure part of store.go), shared by   *)
(* the store, the API handlers and the reconciler.                         *)
(*                                                                         *)
(* A document keeps what control decisions look at: its logical key, the   *)
(* user-written spec and labels (opaque values), the generation, and the   *)
(* reconciler-owned status.  Timestamps, actors and the wording of         *)
(* messages are left out; a message is one of the few the code tells       *)
(* apart.                                                                  *)
(***************************************************************************)
EXTENDS Naturals, Sequences

CONSTANTS Keys,        \* logical keys org/project/env/kind/name
          Specs,       \* spec documents a client may send
          ValidSpecs,  \* those Validate accepts
          Labels,      \* label sets
          NoLabels     \* a PUT body without "labels" (nil map)

ASSUME SpecsAssumption == ValidSpecs \subseteq Specs

ASSUME LabelsAssumption == NoLabels \notin Labels

\* The frozen phase vocabulary.
Phases == {"Pending", "Provisioning", "Ready", "Degraded", "Failed", "Terminating"}

\* Status messages the code tells apart: "Drifted: ..." and all others.
Messages == {"plain", "Drifted"}

Resource == [key : Keys, spec : Specs, labels : Labels, gen : Nat,
             phase : Phases, msg : Messages, obs : Nat]

\* Validate: the spec is what can be wrong with a document of a known scope.
Validate(spec) == spec \in ValidSpecs

\* The stored form of a new document: server-owned generation and observed
\* generation; a phase supplied by the caller is kept, "" becomes Pending.
Created(key, spec, labels, phase) ==
  [key |-> key, spec |-> spec, labels |-> labels, gen |-> 1,
   phase |-> IF phase = "" THEN "Pending" ELSE phase, msg |-> "plain", obs |-> 0]

\* specLabelsEqual: the predicate that decides whether an update is a change.
specLabelsEqual(a, b) == a.spec = b.spec /\ a.labels = b.labels

\* The body of a PUT applied to a stored document: labels stay when omitted.
Edited(r, spec, labels) ==
  [r EXCEPT !.spec = spec, !.labels = IF labels = NoLabels THEN @ ELSE labels]

\* A variant that stores the edited copy without advancing the generation.
Bumped_Kept(r, work) == work

\* UpdateResource after its checks: the generation advances on a change only.
Bumped(r, work) ==
  [work EXCEPT !.gen = IF specLabelsEqual(r, work) THEN r.gen ELSE r.gen + 1]

\* UpdateStatus: phase and message are written, and the observed generation
\* becomes the generation the document has now.
Stamped(r, phase, msg) ==
  [r EXCEPT !.phase = phase, !.msg = msg, !.obs = r.gen]

\* Go map writes: insert or overwrite one key, delete one key.
MapPut(f, k, v) == [x \in DOMAIN f \cup {k} |-> IF x = k THEN v ELSE f[x]]
MapDelete(f, k) == [x \in DOMAIN f \ {k} |-> f[x]]
=============================================================================
