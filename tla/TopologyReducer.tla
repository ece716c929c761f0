--------------------------- MODULE TopologyReducer ---------------------------
(* The pure state transitions of web/src/topology-transaction.ts: one      *)
(* structural change at a time is proposed to the engine, and every reply  *)
(* is correlated by (generation, id).  Labels, versions and messages are   *)
(* left out; a proposal is whatever edit the session wants replayed.       *)
EXTENDS Integers

CONSTANTS
  NoRequest,                 \* null
  TRANSACTION_DEADLINE_MS

ASSUME DeadlineAssumption == TRANSACTION_DEADLINE_MS \in Nat

Idle == [kind |-> "idle", request |-> NoRequest, deadlineMs |-> 0]

Outcome(kind, request) == [kind |-> kind, request |-> request, deadlineMs |-> 0]

initialTopologyState ==
  [generation |-> 0, revision |-> 0, nextId |-> 1, outcome |-> Idle,
   accepted |-> NoRequest]

MaySubmit(t) == t.outcome.kind \notin {"submitting", "unknown"}

NextRequest(t, proposal) ==
  [generation |-> t.generation, id |-> t.nextId, baseRevision |-> t.revision,
   proposal |-> proposal]

\* The state after submit; the request goes out only where MaySubmit holds.
submit(t, proposal, now) ==
  IF ~MaySubmit(t) THEN t
  ELSE [t EXCEPT !.nextId = @ + 1,
                 !.outcome = [kind |-> "submitting",
                              request |-> NextRequest(t, proposal),
                              deadlineMs |-> now + TRANSACTION_DEADLINE_MS],
                 !.accepted = NoRequest]

\* A reply also after the deadline.
CorrelatesLate(t, reply) ==
  /\ t.outcome.kind \in {"submitting", "unknown"}
  /\ reply.generation = t.generation
  /\ reply.id = t.outcome.request.id

Correlates(t, reply) ==
  /\ t.outcome.kind = "submitting"
  /\ reply.generation = t.generation
  /\ reply.generation = t.outcome.request.generation
  /\ reply.id = t.outcome.request.id

ReplyKinds == {"accepted", "rejected", "busy", "unavailable", "processor-failure"}

OutcomeOf(kind) ==
  CASE kind = "unavailable"       -> "unavailable"
    [] kind = "processor-failure" -> "unknown"
    [] OTHER                      -> "rejected"

\* The revision once an edit is accepted; and one that does not count it.
Uncounted(t) == t.revision
NextRevision(t) == t.revision + 1

receive(t, reply) ==
  IF ~Correlates(t, reply) THEN t
  ELSE IF reply.kind = "accepted"
  THEN [t EXCEPT !.revision = NextRevision(t), !.outcome = Idle,
                 !.accepted = t.outcome.request]
  ELSE [t EXCEPT !.outcome = Outcome(OutcomeOf(reply.kind), t.outcome.request)]

\* Silence taken for a rejection; a deadline that has to be exceeded.
silenceRejects(t, now) ==
  IF t.outcome.kind # "submitting" \/ now < t.outcome.deadlineMs THEN t
  ELSE [t EXCEPT !.outcome = Outcome("rejected", t.outcome.request)]

deadlineExceeded(t, now) ==
  IF t.outcome.kind # "submitting" \/ now <= t.outcome.deadlineMs THEN t
  ELSE [t EXCEPT !.outcome = Outcome("unknown", t.outcome.request)]

deadlineElapsed(t, now) ==
  IF t.outcome.kind # "submitting" \/ now < t.outcome.deadlineMs THEN t
  ELSE [t EXCEPT !.outcome = Outcome("unknown", t.outcome.request)]

clearAccepted(t) == [t EXCEPT !.accepted = NoRequest]

invalidateGeneration(t) ==
  [t EXCEPT !.generation = @ + 1, !.outcome = Idle, !.accepted = NoRequest]

\* recover: only from "unknown"; the old proposal under a new generation.
recover(t, now) ==
  submit(invalidateGeneration(t), t.outcome.request.proposal, now)
=============================================================================
