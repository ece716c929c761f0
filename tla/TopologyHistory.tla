--------------------------- MODULE TopologyHistory ---------------------------
(* The structural edits of a session as they leave it and as they come to  *)
(* count: the reducer's state, and three histories that say what became of *)
(* every request.  TopologyTransaction and TopologySession share it.       *)
EXTENDS TopologyReducer, Sequences, FiniteSets

CONSTANTS
  Edits,        \* the structural edits a user may propose
  MaxId         \* bound: requests sent

Request == [generation : Nat, id : Nat, baseRevision : Nat, proposal : Edits]

ASSUME BoundAssumption == MaxId \in Nat
ASSUME NoRequestAssumption == NoRequest \notin Request

VARIABLES
  topology,     \* the reducer's state
  requests,     \* history: every request sent
  applied,      \* history: the requests whose edit the scene took, in order
  abandoned     \* history: the requests whose outcome became unknown

GivenUp(t) == IF t.outcome.kind = "unknown" THEN {t.outcome.request} ELSE {}

-----------------------------------------------------------------------------
(* The steps of the protocol.                                              *)

Propose(edit) ==
  /\ topology.nextId <= MaxId
  /\ MaySubmit(topology)
  /\ topology' = submit(topology, edit, 0)
  /\ requests' = requests \cup {NextRequest(topology, edit)}
  /\ UNCHANGED <<applied, abandoned>>

Recover ==
  /\ topology.nextId <= MaxId
  /\ topology.outcome.kind = "unknown"
  /\ topology' = recover(topology, 0)
  /\ requests' = requests \cup
       {NextRequest(invalidateGeneration(topology), topology.outcome.request.proposal)}
  /\ UNCHANGED <<applied, abandoned>>

Deliver(request, kind) ==
  LET after == receive(topology, [kind |-> kind, generation |-> request.generation,
                                  id |-> request.id])
  IN  /\ topology' = IF after.accepted = NoRequest THEN after ELSE clearAccepted(after)
      /\ applied' = IF after.accepted = NoRequest THEN applied
                    ELSE Append(applied, after.accepted)
      /\ abandoned' = abandoned \cup GivenUp(after)
      /\ UNCHANGED requests

\* The one-shot timer of the session, a deadline after the submission.
Timeout ==
  /\ topology' = deadlineElapsed(topology, TRANSACTION_DEADLINE_MS)
  /\ abandoned' = abandoned \cup GivenUp(topology')
  /\ UNCHANGED <<requests, applied>>

-----------------------------------------------------------------------------
OutcomeKinds == {"idle", "submitting", "rejected", "unknown", "unavailable"}

OutcomeState ==
  [kind : OutcomeKinds, request : Request \cup {NoRequest}, deadlineMs : Nat]

TopologyState ==
  [generation : Nat, revision : Nat, nextId : Nat, outcome : OutcomeState,
   accepted : Request \cup {NoRequest}]

\* Types of the reducer's state and of the histories.
TypeOK ==
  /\ topology \in TopologyState
  /\ topology.outcome.kind # "idle" => topology.outcome.request \in Request
  /\ topology.accepted = NoRequest
  /\ requests \subseteq Request
  /\ applied \in Seq(Request)
  /\ abandoned \subseteq Request

\* The revision the next request is based on counts the applied edits.
RevisionCountsEdits == topology.revision = Len(applied)

\* No request is applied twice, and none is overtaken by an older one, even
\* when its acceptance arrives twice or after a recovery.
AppliedInOrder ==
  \A i, j \in DOMAIN applied : i < j => applied[i].id < applied[j].id

\* Serial edits: the n-th edit the scene took was compiled against the scene
\* as it was after exactly n-1 edits, so no accepted edit was validated
\* against a scene that another edit changed in the meantime.
AppliedOnItsBase == \A i \in DOMAIN applied : applied[i].baseRevision = i - 1

\* Absence of a reply is never a rejection or an acceptance: a request whose
\* outcome became unknown is itself never applied, only its recovery is.
AbandonedNeverApplied == \A i \in DOMAIN applied : applied[i] \notin abandoned
-----------------------------------------------------------------------------
(* What makes them inductive.  Ids are drawn in order and never reused, so *)
(* the open request is newer than everything applied or abandoned; while   *)
(* it is open neither the revision nor the generation moves.               *)

IdsAreFresh ==
  /\ \A r \in requests : r.id < topology.nextId
  /\ \A r, s \in requests : r.id = s.id => r = s
  /\ abandoned \subseteq requests
  /\ \A i \in DOMAIN applied : applied[i] \in requests
  /\ topology.outcome.kind # "idle" => topology.outcome.request \in requests
  /\ topology.outcome.kind = "unknown" => topology.outcome.request \in abandoned

OpenRequestIsCurrent ==
  topology.outcome.kind = "submitting" =>
    /\ topology.outcome.request.baseRevision = topology.revision
    /\ topology.outcome.request.generation = topology.generation
    /\ topology.outcome.request \notin abandoned
    /\ \A i \in DOMAIN applied : applied[i].id < topology.outcome.request.id

IInv ==
  /\ TypeOK
  /\ IdsAreFresh
  /\ OpenRequestIsCurrent
  /\ AppliedOnItsBase
  /\ AppliedInOrder
  /\ RevisionCountsEdits
  /\ AbandonedNeverApplied
=============================================================================
