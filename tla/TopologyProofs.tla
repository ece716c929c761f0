--------------------------- MODULE TopologyProofs ---------------------------
(* The exchange of structural edits.  First the reducer: what one step of  *)
(* the transaction protocol does to its state and to the histories, for    *)
(* every set of edits and every deadline.  Then the protocol, for every    *)
(* behaviour of engine and channel.  Then the page, the port and the       *)
(* worklet, which implement it, and what the page believes of the engine;  *)
(* for every set of cables, edits and levels, every length of the queues   *)
(* and every number of requests.                                           *)
EXTENDS TopologySession, TLAPS

(* The reducer's operators, field by field. *)

LEMMA OutcomeFields ==
  ASSUME NEW t \in TopologyState, NEW o \in OutcomeState
  PROVE  LET after == [t EXCEPT !.outcome = o]
         IN  /\ after \in TopologyState
             /\ after.generation = t.generation
             /\ after.revision = t.revision
             /\ after.nextId = t.nextId
             /\ after.accepted = t.accepted
             /\ after.outcome = o
  BY DEF TopologyState

LEMMA OutcomeIsTyped ==
  ASSUME NEW kind \in OutcomeKinds, NEW r \in Request
  PROVE  /\ Outcome(kind, r) \in OutcomeState
         /\ Outcome(kind, r).kind = kind
         /\ Outcome(kind, r).request = r
  BY DEF Outcome, OutcomeState

LEMMA SubmitFields ==
  ASSUME NEW t \in TopologyState, NEW e \in Edits, NEW now \in Nat, MaySubmit(t)
  PROVE  /\ submit(t, e, now) \in TopologyState
         /\ submit(t, e, now).generation = t.generation
         /\ submit(t, e, now).revision = t.revision
         /\ submit(t, e, now).nextId = t.nextId + 1
         /\ submit(t, e, now).accepted = NoRequest
         /\ submit(t, e, now).outcome.kind = "submitting"
         /\ submit(t, e, now).outcome.request = NextRequest(t, e)
         /\ submit(t, e, now).outcome.deadlineMs = now + TRANSACTION_DEADLINE_MS
         /\ NextRequest(t, e) \in Request
         /\ NextRequest(t, e).generation = t.generation
         /\ NextRequest(t, e).id = t.nextId
         /\ NextRequest(t, e).baseRevision = t.revision
         /\ NextRequest(t, e).proposal = e
  <1>1. /\ NextRequest(t, e) \in Request
        /\ NextRequest(t, e).generation = t.generation
        /\ NextRequest(t, e).id = t.nextId
        /\ NextRequest(t, e).baseRevision = t.revision
        /\ NextRequest(t, e).proposal = e
    BY DEF NextRequest, Request, TopologyState
  <1>2. PICK o : o = [kind |-> "submitting", request |-> NextRequest(t, e),
                      deadlineMs |-> now + TRANSACTION_DEADLINE_MS]
    OBVIOUS
  <1>3. now + TRANSACTION_DEADLINE_MS \in Nat
    BY DeadlineAssumption
  <1>4. /\ o \in OutcomeState /\ o.kind = "submitting" /\ o.request = NextRequest(t, e)
        /\ o.deadlineMs = now + TRANSACTION_DEADLINE_MS
    BY <1>1, <1>2, <1>3 DEF OutcomeKinds, OutcomeState
  <1>5. PICK n \in Nat : n = t.nextId + 1
    BY DEF TopologyState
  <1>6. submit(t, e, now) = [t EXCEPT !.nextId = n, !.outcome = o,
                                      !.accepted = NoRequest]
    BY <1>2, <1>5 DEF submit
  <1>7. /\ submit(t, e, now) \in TopologyState
        /\ submit(t, e, now).generation = t.generation
        /\ submit(t, e, now).revision = t.revision
        /\ submit(t, e, now).nextId = t.nextId + 1
        /\ submit(t, e, now).accepted = NoRequest
        /\ submit(t, e, now).outcome = o
    BY <1>4, <1>5, <1>6 DEF TopologyState
  <1> QED BY <1>1, <1>4, <1>7

LEMMA InvalidateFields ==
  ASSUME NEW t \in TopologyState
  PROVE  /\ invalidateGeneration(t) \in TopologyState
         /\ invalidateGeneration(t).generation = t.generation + 1
         /\ invalidateGeneration(t).revision = t.revision
         /\ invalidateGeneration(t).nextId = t.nextId
         /\ MaySubmit(invalidateGeneration(t))
  <1>1. Idle \in OutcomeState /\ Idle.kind = "idle"
    BY DEF Idle, OutcomeKinds, OutcomeState
  <1>2. PICK g \in Nat : g = t.generation + 1
    BY DEF TopologyState
  <1>3. invalidateGeneration(t) =
          [t EXCEPT !.generation = g, !.outcome = Idle, !.accepted = NoRequest]
    BY <1>2 DEF invalidateGeneration
  <1>4. /\ invalidateGeneration(t) \in TopologyState
        /\ invalidateGeneration(t).generation = t.generation + 1
        /\ invalidateGeneration(t).revision = t.revision
        /\ invalidateGeneration(t).nextId = t.nextId
        /\ invalidateGeneration(t).outcome = Idle
    BY <1>1, <1>2, <1>3 DEF TopologyState
  <1> QED BY <1>1, <1>4 DEF MaySubmit

(* Deliver, case by case: an obsolete reply changes nothing, an acceptance *)
(* appends the open request, anything else closes it.                      *)

LEMMA ObsoleteReply ==
  ASSUME TypeOK, NEW r \in requests, NEW k \in ReplyKinds, Deliver(r, k),
         ~(/\ topology.outcome.kind = "submitting"
           /\ r.generation = topology.generation
           /\ r.generation = topology.outcome.request.generation
           /\ r.id = topology.outcome.request.id)
  PROVE  /\ topology' = topology /\ applied' = applied /\ requests' = requests
         /\ abandoned' = abandoned \cup GivenUp(topology)
  BY DEF TypeOK, Deliver, receive, Correlates, NextRevision

LEMMA AcceptingReply ==
  ASSUME TypeOK, NEW r \in requests, Deliver(r, "accepted"),
         topology.outcome.kind = "submitting",
         r.generation = topology.generation,
         r.generation = topology.outcome.request.generation,
         r.id = topology.outcome.request.id
  PROVE  /\ topology' \in TopologyState
         /\ topology'.generation = topology.generation
         /\ topology'.revision = topology.revision + 1
         /\ topology'.nextId = topology.nextId
         /\ topology'.outcome.kind = "idle"
         /\ topology'.accepted = NoRequest
         /\ applied' = Append(applied, topology.outcome.request)
         /\ requests' = requests
         /\ abandoned' = abandoned
  <1> DEFINE reply == [kind |-> "accepted", generation |-> r.generation, id |-> r.id]
  <1>1. PICK after : after = receive(topology, reply)
    OBVIOUS
  <1>2. PICK n \in Nat : n = topology.revision + 1
    BY DEF TypeOK, TopologyState
  <1>3. after = [topology EXCEPT !.revision = n, !.outcome = Idle,
                                 !.accepted = topology.outcome.request]
    BY <1>1, <1>2 DEF receive, Correlates, NextRevision
  <1>4. /\ Idle \in OutcomeState /\ Idle.kind = "idle"
        /\ topology \in TopologyState /\ topology.outcome.request \in Request
    BY DEF Idle, OutcomeKinds, OutcomeState, TypeOK
  <1>5. /\ after \in TopologyState
        /\ after.generation = topology.generation
        /\ after.revision = n
        /\ after.nextId = topology.nextId
        /\ after.outcome = Idle
        /\ after.accepted = topology.outcome.request
    BY <1>3, <1>4 DEF TopologyState
  <1>6. after.accepted # NoRequest
    BY <1>4, <1>5, NoRequestAssumption
  <1>7. /\ topology' = [after EXCEPT !.accepted = NoRequest]
        /\ applied' = Append(applied, after.accepted)
        /\ abandoned' = abandoned \cup GivenUp(after)
        /\ requests' = requests
    BY <1>1, <1>6 DEF Deliver, clearAccepted
  <1>8. GivenUp(after) = {}
    BY <1>4, <1>5 DEF GivenUp
  <1> QED BY <1>2, <1>4, <1>5, <1>7, <1>8 DEF TopologyState

LEMMA RefusingReply ==
  ASSUME TypeOK, NEW r \in requests, NEW k \in ReplyKinds \ {"accepted"},
         Deliver(r, k),
         topology.outcome.kind = "submitting",
         r.generation = topology.generation,
         r.generation = topology.outcome.request.generation,
         r.id = topology.outcome.request.id
  PROVE  /\ topology' \in TopologyState
         /\ topology'.generation = topology.generation
         /\ topology'.revision = topology.revision
         /\ topology'.nextId = topology.nextId
         /\ topology'.outcome.kind \in OutcomeKinds \ {"idle", "submitting"}
         /\ topology'.outcome.request = topology.outcome.request
         /\ topology'.accepted = NoRequest
         /\ applied' = applied
         /\ requests' = requests
         /\ abandoned' = abandoned \cup GivenUp(topology')
  <1> DEFINE reply == [kind |-> k, generation |-> r.generation, id |-> r.id]
  <1>1. PICK after : after = receive(topology, reply)
    OBVIOUS
  <1>2. PICK o : o = Outcome(OutcomeOf(k), topology.outcome.request)
    OBVIOUS
  <1>3. OutcomeOf(k) \in OutcomeKinds \ {"idle", "submitting"}
    BY DEF OutcomeOf, OutcomeKinds
  <1>4. /\ o \in OutcomeState /\ o.kind = OutcomeOf(k)
        /\ o.request = topology.outcome.request
    BY <1>2, <1>3, OutcomeIsTyped DEF TypeOK
  <1>5. after = [topology EXCEPT !.outcome = o]
    BY <1>1, <1>2 DEF receive, Correlates, NextRevision
  <1>6. /\ after \in TopologyState
        /\ after.generation = topology.generation
        /\ after.revision = topology.revision
        /\ after.nextId = topology.nextId
        /\ after.accepted = NoRequest
        /\ after.outcome = o
    BY <1>4, <1>5, OutcomeFields DEF TypeOK
  <1>7. /\ topology' = after /\ applied' = applied /\ requests' = requests
        /\ abandoned' = abandoned \cup GivenUp(after)
    BY <1>1, <1>6 DEF Deliver
  <1> QED BY <1>3, <1>4, <1>6, <1>7

LEMMA TimeoutFields ==
  ASSUME TypeOK, Timeout
  PROVE  /\ applied' = applied /\ requests' = requests
         /\ \/ topology' = topology /\ abandoned' = abandoned \cup GivenUp(topology)
            \/ /\ topology.outcome.kind = "submitting"
               /\ topology' \in TopologyState
               /\ topology'.generation = topology.generation
               /\ topology'.revision = topology.revision
               /\ topology'.nextId = topology.nextId
               /\ topology'.outcome.kind = "unknown"
               /\ topology'.outcome.request = topology.outcome.request
               /\ topology'.accepted = NoRequest
               /\ abandoned' = abandoned \cup {topology.outcome.request}
  <1>1. CASE topology' = topology
    BY <1>1 DEF Timeout, GivenUp
  <1>2. CASE topology' # topology
    <2>1. topology.outcome.kind = "submitting"
      BY <1>2 DEF Timeout, deadlineElapsed
    <2>2. PICK o : o = Outcome("unknown", topology.outcome.request)
      OBVIOUS
    <2>3. topology' = [topology EXCEPT !.outcome = o]
      BY <1>2, <2>2 DEF Timeout, deadlineElapsed
    <2>4. o \in OutcomeState /\ o.kind = "unknown"
          /\ o.request = topology.outcome.request
      BY <2>1, <2>2, OutcomeIsTyped DEF TypeOK, OutcomeKinds
    <2>5. /\ topology' \in TopologyState
          /\ topology'.generation = topology.generation
          /\ topology'.revision = topology.revision
          /\ topology'.nextId = topology.nextId
          /\ topology'.accepted = NoRequest
          /\ topology'.outcome = o
      BY <2>3, <2>4, OutcomeFields DEF TypeOK
    <2> QED BY <2>1, <2>4, <2>5 DEF Timeout, GivenUp
  <1> QED BY <1>1, <1>2

(* One lemma per kind of step. *)

\* Propose and Recover: a new request, from a state of the same revision.
LEMMA SubmitStep ==
  ASSUME IInv, NEW t \in TopologyState, NEW e \in Edits, MaySubmit(t),
         t.revision = topology.revision, t.nextId = topology.nextId,
         topology' = submit(t, e, 0),
         requests' = requests \cup {NextRequest(t, e)},
         applied' = applied, abandoned' = abandoned
  PROVE  IInv'
  <1>1. PICK r : r = NextRequest(t, e)
    OBVIOUS
  <1>2. /\ topology' \in TopologyState
        /\ topology'.revision = topology.revision
        /\ topology'.generation = t.generation
        /\ topology'.nextId = topology.nextId + 1
        /\ topology'.accepted = NoRequest
        /\ topology'.outcome.kind = "submitting"
        /\ topology'.outcome.request = r
        /\ r \in Request
        /\ r.generation = t.generation
        /\ r.id = topology.nextId
        /\ r.baseRevision = topology.revision
        /\ requests' = requests \cup {r}
    BY <1>1, SubmitFields
  <1>3. topology.nextId \in Nat
    BY DEF IInv, TypeOK, TopologyState
  <1>4. TypeOK'
    BY <1>2 DEF IInv, TypeOK
  <1>5. \A s \in requests : s.id \in Nat /\ s.id < topology.nextId
    BY DEF IInv, TypeOK, IdsAreFresh, Request
  <1>6. IdsAreFresh'
    BY <1>2, <1>3, <1>5 DEF IInv, IdsAreFresh
  <1>7. OpenRequestIsCurrent'
    <2>1. r \notin abandoned
      BY <1>2, <1>3, <1>5 DEF IInv, IdsAreFresh
    <2>2. \A i \in DOMAIN applied : applied[i].id < r.id
      BY <1>2, <1>5 DEF IInv, IdsAreFresh
    <2> QED BY <1>2, <2>1, <2>2 DEF OpenRequestIsCurrent
  <1>8. (AppliedOnItsBase /\ AppliedInOrder /\ RevisionCountsEdits /\ AbandonedNeverApplied)'
    BY <1>2 DEF IInv, AppliedOnItsBase, AppliedInOrder, RevisionCountsEdits,
                AbandonedNeverApplied
  <1> QED BY <1>4, <1>6, <1>7, <1>8 DEF IInv

\* A refusing reply and the timer: the open request closes, nothing is applied.
LEMMA CloseStep ==
  ASSUME IInv, topology.outcome.kind = "submitting",
         topology' \in TopologyState,
         topology'.revision = topology.revision,
         topology'.generation = topology.generation,
         topology'.nextId = topology.nextId,
         topology'.outcome.kind \in OutcomeKinds \ {"idle", "submitting"},
         topology'.outcome.request = topology.outcome.request,
         topology'.accepted = NoRequest,
         applied' = applied, requests' = requests,
         abandoned' = abandoned \cup GivenUp(topology')
  PROVE  IInv'
  <1>1. /\ topology.outcome.request \in Request
        /\ topology.outcome.request \in requests
    BY DEF IInv, TypeOK, IdsAreFresh
  <1>2. abandoned' \subseteq abandoned \cup {topology.outcome.request}
    BY DEF GivenUp
  <1>3. TypeOK'
    BY <1>1, <1>2 DEF IInv, TypeOK
  <1>4. IdsAreFresh'
    BY <1>1, <1>2 DEF IInv, IdsAreFresh, GivenUp
  <1>5. \A i \in DOMAIN applied : applied[i] # topology.outcome.request
    <2> SUFFICES ASSUME NEW i \in DOMAIN applied,
                        applied[i] = topology.outcome.request
                 PROVE  FALSE
      OBVIOUS
    <2>1. topology.outcome.request.id < topology.outcome.request.id
      BY DEF IInv, OpenRequestIsCurrent
    <2>2. topology.outcome.request.id \in Nat
      BY <1>1 DEF Request
    <2> QED BY <2>1, <2>2
  <1>6. AbandonedNeverApplied'
    BY <1>2, <1>5 DEF IInv, AbandonedNeverApplied
  <1>7. (OpenRequestIsCurrent /\ AppliedOnItsBase /\ AppliedInOrder /\ RevisionCountsEdits)'
    BY DEF IInv, OpenRequestIsCurrent, AppliedOnItsBase, AppliedInOrder,
           RevisionCountsEdits
  <1> QED BY <1>3, <1>4, <1>6, <1>7 DEF IInv

\* The acceptance of the open request: its edit becomes the newest.
LEMMA AcceptStep ==
  ASSUME IInv, topology.outcome.kind = "submitting",
         topology' \in TopologyState,
         topology'.revision = topology.revision + 1,
         topology'.nextId = topology.nextId,
         topology'.outcome.kind = "idle",
         topology'.accepted = NoRequest,
         applied' = Append(applied, topology.outcome.request),
         requests' = requests, abandoned' = abandoned
  PROVE  IInv'
  <1>1. PICK r \in Request : r = topology.outcome.request
    BY DEF IInv, TypeOK
  <1>2. /\ r \in requests
        /\ r.baseRevision = topology.revision
        /\ r \notin abandoned
        /\ \A i \in DOMAIN applied : applied[i].id < r.id
    BY <1>1 DEF IInv, OpenRequestIsCurrent, IdsAreFresh
  <1>3. /\ applied \in Seq(Request)
        /\ topology.revision = Len(applied)
        /\ Len(applied) \in Nat
    BY DEF IInv, TypeOK, RevisionCountsEdits
  <1>4. /\ applied' \in Seq(Request)
        /\ Len(applied') = Len(applied) + 1
        /\ DOMAIN applied' = DOMAIN applied \cup {Len(applied) + 1}
        /\ \A i \in DOMAIN applied : applied'[i] = applied[i]
        /\ applied'[Len(applied) + 1] = r
    BY <1>1, <1>3
  <1>5. TypeOK'
    BY <1>4 DEF IInv, TypeOK
  <1>6. IdsAreFresh'
    BY <1>2, <1>4 DEF IInv, IdsAreFresh
  <1>7. OpenRequestIsCurrent'
    BY DEF OpenRequestIsCurrent
  <1>8. AppliedOnItsBase'
    BY <1>2, <1>3, <1>4 DEF IInv, AppliedOnItsBase
  <1>9. AppliedInOrder'
    <2> SUFFICES ASSUME NEW i \in DOMAIN applied', NEW j \in DOMAIN applied', i < j
                 PROVE  applied'[i].id < applied'[j].id
      BY DEF AppliedInOrder
    <2>1. i \in DOMAIN applied
      BY <1>3, <1>4
    <2>2. CASE j \in DOMAIN applied
      BY <1>4, <2>1, <2>2 DEF IInv, AppliedInOrder
    <2>3. CASE j = Len(applied) + 1
      BY <1>2, <1>4, <2>1, <2>3
    <2> QED BY <1>4, <2>2, <2>3
  <1>10. RevisionCountsEdits'
    BY <1>3, <1>4 DEF RevisionCountsEdits
  <1>11. AbandonedNeverApplied'
    BY <1>2, <1>4 DEF IInv, AbandonedNeverApplied
  <1> QED BY <1>5, <1>6, <1>7, <1>8, <1>9, <1>10, <1>11 DEF IInv

\* A step that leaves the reducer alone: at most the open "unknown" request is
\* noted again as abandoned.
LEMMA IdleStep ==
  ASSUME IInv, topology' = topology, applied' = applied, requests' = requests,
         abandoned' = abandoned \cup GivenUp(topology)
  PROVE  IInv'
  <1>1. abandoned' = abandoned
    BY DEF IInv, IdsAreFresh, GivenUp
  <1> QED BY <1>1 DEF IInv, TypeOK, IdsAreFresh, OpenRequestIsCurrent,
                      AppliedOnItsBase, AppliedInOrder, RevisionCountsEdits,
                      AbandonedNeverApplied

LEMMA DeliverStep ==
  ASSUME IInv, NEW r \in requests, NEW k \in ReplyKinds, Deliver(r, k)
  PROVE  IInv'
  <1> DEFINE answersOpen == /\ topology.outcome.kind = "submitting"
                            /\ r.generation = topology.generation
                            /\ r.generation = topology.outcome.request.generation
                            /\ r.id = topology.outcome.request.id
  <1>1. CASE ~answersOpen
    BY <1>1, ObsoleteReply, IdleStep DEF IInv
  <1>2. CASE answersOpen /\ k = "accepted"
    BY <1>2, AcceptingReply, AcceptStep DEF IInv
  <1>3. CASE answersOpen /\ k # "accepted"
    BY <1>3, RefusingReply, CloseStep DEF IInv
  <1> QED BY <1>1, <1>2, <1>3
-----------------------------------------------------------------------------
(* The transaction protocol, for every set of edits, every deadline and    *)
(* every number of requests: nothing here uses what the page's edits are.  *)

Protocol == INSTANCE TopologyTransaction

\* The protocol seen through INSTANCE is the protocol of TopologyHistory.
LEMMA ProtocolSteps ==
  ASSUME NEW e, NEW r, NEW k
  PROVE  /\ Protocol!Propose(e) <=> Propose(e)
         /\ Protocol!Recover <=> Recover
         /\ Protocol!Deliver(r, k) <=> Deliver(r, k)
         /\ Protocol!Timeout <=> Timeout
  <1>1. Protocol!Idle = Idle
    BY DEF Idle, Protocol!Idle
  <1>2. \A kind, req : Protocol!Outcome(kind, req) = Outcome(kind, req)
    BY DEF Outcome, Protocol!Outcome
  <1>3. \A t : Protocol!MaySubmit(t) = MaySubmit(t)
    BY DEF MaySubmit, Protocol!MaySubmit
  <1>4. \A t, p : Protocol!NextRequest(t, p) = NextRequest(t, p)
    BY DEF NextRequest, Protocol!NextRequest
  <1>5. \A t, p, now : Protocol!submit(t, p, now) = submit(t, p, now)
    BY <1>3, <1>4 DEF submit, Protocol!submit
  <1>6. \A t : Protocol!invalidateGeneration(t) = invalidateGeneration(t)
    BY <1>1 DEF invalidateGeneration, Protocol!invalidateGeneration
  <1>7. \A t, now : Protocol!recover(t, now) = recover(t, now)
    BY <1>5, <1>6 DEF recover, Protocol!recover
  <1>8. \A t, reply : Protocol!receive(t, reply) = receive(t, reply)
    BY <1>1, <1>2 DEF receive, Protocol!receive, Correlates, Protocol!Correlates,
       OutcomeOf, Protocol!OutcomeOf, NextRevision, Protocol!NextRevision
  <1>9. \A t, now : Protocol!deadlineElapsed(t, now) = deadlineElapsed(t, now)
    BY <1>2 DEF deadlineElapsed, Protocol!deadlineElapsed
  <1>10. \A t : /\ Protocol!clearAccepted(t) = clearAccepted(t)
                /\ Protocol!GivenUp(t) = GivenUp(t)
    BY DEF clearAccepted, Protocol!clearAccepted, GivenUp, Protocol!GivenUp
  <1>11. Protocol!Propose(e) <=> Propose(e)
    BY <1>3, <1>4, <1>5 DEF Propose, Protocol!Propose
  <1>12. Protocol!Recover <=> Recover
    BY <1>4, <1>6, <1>7 DEF Recover, Protocol!Recover
  <1>13. Protocol!Deliver(r, k) <=> Deliver(r, k)
    BY <1>8, <1>10 DEF Deliver, Protocol!Deliver
  <1>14. Protocol!Timeout <=> Timeout
    BY <1>9, <1>10 DEF Timeout, Protocol!Timeout
  <1> QED BY <1>11, <1>12, <1>13, <1>14

LEMMA ProtocolInit == Protocol!Init => IInv
  <1> SUFFICES ASSUME Protocol!Init PROVE IInv
    OBVIOUS
  <1>1. Idle \in OutcomeState /\ Idle.kind = "idle"
    BY DEF Idle, OutcomeState, OutcomeKinds
  <1>2. topology = initialTopologyState /\ requests = {} /\ applied = <<>> /\ abandoned = {}
    BY DEF Protocol!Init, Protocol!initialTopologyState, Protocol!Idle, initialTopologyState, Idle
  <1>3. /\ topology \in TopologyState
        /\ topology.outcome.kind = "idle" /\ topology.accepted = NoRequest
        /\ topology.revision = 0 /\ topology.nextId = 1
    BY <1>1, <1>2 DEF initialTopologyState, TopologyState
  <1> QED BY <1>2, <1>3 DEF IInv, TypeOK, IdsAreFresh, OpenRequestIsCurrent,
       AppliedOnItsBase, AppliedInOrder, RevisionCountsEdits, AbandonedNeverApplied

LEMMA ProtocolNext == IInv /\ [Protocol!Next]_(Protocol!vars) => IInv'
  <1> SUFFICES ASSUME IInv, [Protocol!Next]_(Protocol!vars) PROVE IInv'
    OBVIOUS
  <1>1. ASSUME NEW e \in Edits, Protocol!Propose(e) PROVE IInv'
    BY <1>1, ProtocolSteps, SubmitStep DEF Propose, IInv, TypeOK
  <1>2. CASE Protocol!Recover
    <2>0. Recover
      BY <1>2, ProtocolSteps
    <2>1. PICK t : t = invalidateGeneration(topology)
      OBVIOUS
    <2>2. /\ topology \in TopologyState
          /\ topology.outcome.request.proposal \in Edits
      BY <2>0 DEF Recover, IInv, TypeOK, Request
    <2>3. /\ t \in TopologyState /\ MaySubmit(t)
          /\ t.revision = topology.revision /\ t.nextId = topology.nextId
      BY <2>1, <2>2, InvalidateFields
    <2> QED BY <2>0, <2>1, <2>2, <2>3, SubmitStep DEF Recover, recover
  <1>3. ASSUME NEW r \in requests, NEW k \in ReplyKinds, Protocol!Deliver(r, k) PROVE IInv'
    BY <1>3, ProtocolSteps, DeliverStep
  <1>4. CASE Protocol!Timeout
    <2>0. Timeout
      BY <1>4, ProtocolSteps
    <2>1. TypeOK
      BY DEF IInv
    <2>2. abandoned' = abandoned \cup GivenUp(topology')
      BY <2>0 DEF Timeout
    <2> QED BY <2>0, <2>1, <2>2, TimeoutFields, IdleStep, CloseStep DEF OutcomeKinds
  <1>5. CASE UNCHANGED Protocol!vars
    BY <1>5 DEF Protocol!vars, IInv, TypeOK, IdsAreFresh, OpenRequestIsCurrent,
       AppliedOnItsBase, AppliedInOrder, RevisionCountsEdits, AbandonedNeverApplied
  <1>6. ReplyKinds = Protocol!ReplyKinds
    BY DEF ReplyKinds, Protocol!ReplyKinds
  <1> QED BY <1>1, <1>2, <1>3, <1>4, <1>5, <1>6 DEF Protocol!Next

\* The strengthened invariant, for every execution of the protocol.
THEOREM InvariantHolds == Protocol!Spec => []IInv
  BY ProtocolInit, ProtocolNext, PTL DEF Protocol!Spec

\* Whatever replies the channel delivers, the n-th edit the session applied
\* (#receiveTopology) was requested on top of exactly the n-1 edits before it.
THEOREM SerialEdits == Protocol!Spec => [](AppliedOnItsBase /\ RevisionCountsEdits)
  <1>1. IInv => AppliedOnItsBase /\ RevisionCountsEdits
    BY DEF IInv
  <1> QED BY <1>1, InvariantHolds, PTL

\* No edit is applied twice and none out of the order of its requests.
THEOREM OrderedEdits == Protocol!Spec => []AppliedInOrder
  <1>1. IInv => AppliedInOrder
    BY DEF IInv
  <1> QED BY <1>1, InvariantHolds, PTL

\* A request that timed out, or whose processor failed, is never applied
\* itself, however late its acceptance arrives; only its recovery is.
THEOREM TimedOutEditsStayOut == Protocol!Spec => []AbandonedNeverApplied
  <1>1. IInv => AbandonedNeverApplied
    BY DEF IInv
  <1> QED BY <1>1, InvariantHolds, PTL

\* `receive` decides only the request a reply answers: a step that delivers a
\* reply and applies an edit delivers that edit's own acceptance.
THEOREM RepliesDecideTheirOwnRequest == Protocol!Spec => Protocol!EditsNeedTheirOwnAcceptance
  <1> DEFINE Own == \A r \in requests, k \in Protocol!ReplyKinds :
                      Protocol!Deliver(r, k) /\ applied' # applied
                        => k = "accepted" /\ applied'[Len(applied')] = r
  <1>1. IInv => Own
    <2> SUFFICES ASSUME IInv, NEW r \in requests, NEW k \in ReplyKinds,
                        Deliver(r, k), applied' # applied
                 PROVE  k = "accepted" /\ applied'[Len(applied')] = r
      BY ProtocolSteps DEF ReplyKinds, Protocol!ReplyKinds
    <2>1. /\ topology.outcome.kind = "submitting"
          /\ r.generation = topology.generation
          /\ r.generation = topology.outcome.request.generation
          /\ r.id = topology.outcome.request.id
      BY ObsoleteReply DEF IInv
    <2>2. k = "accepted"
      BY <2>1, RefusingReply DEF IInv
    <2>3. r = topology.outcome.request
      BY <2>1 DEF IInv, IdsAreFresh
    <2>4. applied \in Seq(Request) /\ r \in Request
      BY DEF IInv, TypeOK
    <2>5. applied' = Append(applied, r)
      BY <2>1, <2>2, <2>3, AcceptingReply DEF IInv
    <2> QED BY <2>2, <2>4, <2>5
  <1>2. IInv /\ [Protocol!Next]_(Protocol!vars) => [Own]_(Protocol!vars)
    BY <1>1
  <1> QED BY <1>2, InvariantHolds, PTL DEF Protocol!Spec, Protocol!EditsNeedTheirOwnAcceptance
-----------------------------------------------------------------------------
(* The queues, and the messages in them. *)

LEMMA AppendItems ==
  ASSUME NEW S, NEW q \in Seq(S), NEW m \in S
  PROVE  /\ Append(q, m) \in Seq(S)
         /\ Len(q) \in Nat /\ Len(Append(q, m)) = Len(q) + 1
         /\ \A i \in 1..Len(q) : Append(q, m)[i] = q[i]
         /\ Append(q, m)[Len(q) + 1] = m
  OBVIOUS

LEMMA TailItems ==
  ASSUME NEW S, NEW q \in Seq(S), q # <<>>
  PROVE  /\ Tail(q) \in Seq(S)
         /\ Len(q) \in Nat \ {0} /\ Len(Tail(q)) = Len(q) - 1
         /\ Head(q) = q[1] /\ Head(q) \in S
         /\ \A i \in 1..Len(Tail(q)) : Tail(q)[i] = q[i + 1]
  OBVIOUS

LEMMA AppendTwoItems ==
  ASSUME NEW S, NEW q \in Seq(S), NEW a \in S, NEW b \in S
  PROVE  /\ q \o <<a, b>> \in Seq(S)
         /\ Len(q) \in Nat /\ Len(q \o <<a, b>>) = Len(q) + 2
         /\ \A i \in 1..Len(q) : (q \o <<a, b>>)[i] = q[i]
         /\ (q \o <<a, b>>)[Len(q) + 1] = a
         /\ (q \o <<a, b>>)[Len(q) + 2] = b
  OBVIOUS

LEMMA Messages ==
  /\ \A m \in ToWorklet : IsLoad(m) => m \in LoadMessage
  /\ \A m \in ToWorklet : ~IsLoad(m) => m \in ControlMessage
  /\ \A m \in ToMain : IsReply(m) => m \in Reply
  /\ \A m \in ToMain : IsReply(m) <=> ~IsReport(m)
  BY DEF ToWorklet, ToMain, LoadMessage, ControlMessage, Reply, Report,
         IsLoad, IsReply, IsReport

\* Edits keep scenes well formed, and what they make of the cables depends on
\* nothing else: knobs and tracks may move while a request is open.
LEMMA EditedScene ==
  ASSUME NEW e \in Edits, NEW s \in Scene
  PROVE  /\ ApplyEdit(e, s) \in Scene
         /\ \A t \in Scene : t.cables = s.cables
              => ApplyEdit(e, t).cables = ApplyEdit(e, s).cables
  <1>1. CASE e \in [kind : {"connect", "disconnect"}, cable : Cable]
    BY <1>1 DEF ApplyEdit, Scene
  <1>2. CASE e \in [kind : {"load"}, scene : SavedScenes]
    BY <1>2, SceneAssumption DEF ApplyEdit, Scene
  <1> QED BY <1>1, <1>2, EditsAssumption DEF PageEdits

LEMMA LoadPatchFields ==
  ASSUME NEW r \in Request, NEW s \in Scene
  PROVE  /\ LoadPatch(r, s) \in ToWorklet
         /\ IsLoad(LoadPatch(r, s)) /\ ~IsTrack(LoadPatch(r, s))
         /\ LoadPatch(r, s).request = r
         /\ LoadPatch(r, s).patch.cables = s.cables
  BY DEF LoadPatch, ToWorklet, LoadMessage, Patch, Scene, IsLoad, IsTrack

(* The page implements the protocol, step by step. *)

SessionInv == IInv /\ EngineInv

LEMMA TimerIsATimeout ==
  ASSUME SessionInv, NEW now \in TimerReadings, deadlineTimer(now)
  PROVE  Timeout \/ UNCHANGED <<topology, requests, applied, abandoned>>
  <1>1. CASE topology' = topology
    BY <1>1 DEF deadlineTimer, SessionInv, IInv, IdsAreFresh, GivenUp
  <1>2. CASE topology' # topology
    <2>1. topology.outcome.kind = "submitting" /\ ~(now < topology.outcome.deadlineMs)
      BY <1>2 DEF deadlineTimer, deadlineElapsed
    <2>2. topology.outcome.deadlineMs = TRANSACTION_DEADLINE_MS
      BY <2>1 DEF SessionInv, EngineInv, DeadlineIsTheTimers
    <2>3. ~(TRANSACTION_DEADLINE_MS < topology.outcome.deadlineMs)
      BY <2>2, DeadlineAssumption
    <2>4. topology' = deadlineElapsed(topology, TRANSACTION_DEADLINE_MS)
      BY <2>1, <2>3 DEF deadlineTimer, deadlineElapsed
    <2> QED BY <2>4 DEF deadlineTimer, Timeout
  <1> QED BY <1>1, <1>2

LEMMA ReceiptIsADelivery ==
  ASSUME SessionInv, receiveTopology
  PROVE  /\ Head(toMain) \in Reply
         /\ Head(toMain).request \in requests
         /\ Head(toMain).type \in ReplyKinds
         /\ Deliver(Head(toMain).request, Head(toMain).type)
  <1>1. toMain \in Seq(ToMain) /\ toMain # <<>>
    BY DEF receiveTopology, SessionInv, EngineInv, PortTypeOK
  <1>2. /\ Head(toMain) = toMain[1] /\ 1 \in 1..Len(toMain)
        /\ Head(toMain) \in ToMain
    BY <1>1, TailItems
  <1>3. IsReply(Head(toMain))
    BY DEF receiveTopology, IsReply
  <1>4. Head(toMain) \in Reply /\ Head(toMain).request \in requests
    BY <1>2, <1>3, Messages DEF SessionInv, EngineInv, PortTypeOK
  <1>5. Head(toMain).type \in ReplyKinds
    BY DEF receiveTopology, ReplyKinds
  <1>6. Deliver(Head(toMain).request, Head(toMain).type)
    BY DEF receiveTopology, Deliver, Consumed
  <1> QED BY <1>4, <1>5, <1>6

\* The steps that the protocol does not see.
LEMMA Unseen ==
  ASSUME \/ \E v \in Level : onParamInput(v) \/ setTrack(v)
         \/ Resume \/ receiveInstalled \/ onmessage_loadPatch
         \/ onmessage_control \/ process \/ Hang \/ UNCHANGED vars
  PROVE  UNCHANGED <<topology, requests, applied, abandoned>>
  BY DEF onParamInput, setTrack, Resume, receiveInstalled, onmessage_loadPatch,
         onmessage_control, process, Hang, vars, page, history

\* The protocol seen through INSTANCE is the protocol of TopologyHistory.
LEMMA SameSteps ==
  ASSUME NEW e, NEW r, NEW k
  PROVE  /\ Propose(e) => Transaction!Propose(e)
         /\ Recover => Transaction!Recover
         /\ Deliver(r, k) => Transaction!Deliver(r, k)
         /\ Timeout => Transaction!Timeout
  <1>1. Transaction!Idle = Idle
    BY DEF Idle, Transaction!Idle
  <1>2. \A kind, req : Transaction!Outcome(kind, req) = Outcome(kind, req)
    BY DEF Outcome, Transaction!Outcome
  <1>3. \A t : Transaction!MaySubmit(t) = MaySubmit(t)
    BY DEF MaySubmit, Transaction!MaySubmit
  <1>4. \A t, p : Transaction!NextRequest(t, p) = NextRequest(t, p)
    BY DEF NextRequest, Transaction!NextRequest
  <1>5. \A t, p, now : Transaction!submit(t, p, now) = submit(t, p, now)
    BY <1>3, <1>4 DEF submit, Transaction!submit
  <1>6. \A t : Transaction!invalidateGeneration(t) = invalidateGeneration(t)
    BY <1>1 DEF invalidateGeneration, Transaction!invalidateGeneration
  <1>7. \A t, now : Transaction!recover(t, now) = recover(t, now)
    BY <1>5, <1>6 DEF recover, Transaction!recover
  <1>8. \A t, reply : Transaction!receive(t, reply) = receive(t, reply)
    BY <1>1, <1>2 DEF receive, Transaction!receive, Correlates, Transaction!Correlates,
       OutcomeOf, Transaction!OutcomeOf, NextRevision, Transaction!NextRevision
  <1>9. \A t, now : Transaction!deadlineElapsed(t, now) = deadlineElapsed(t, now)
    BY <1>2 DEF deadlineElapsed, Transaction!deadlineElapsed
  <1>10. \A t : /\ Transaction!clearAccepted(t) = clearAccepted(t)
                /\ Transaction!GivenUp(t) = GivenUp(t)
    BY DEF clearAccepted, Transaction!clearAccepted, GivenUp, Transaction!GivenUp
  <1>11. Propose(e) => Transaction!Propose(e)
    BY <1>3, <1>4, <1>5 DEF Propose, Transaction!Propose
  <1>12. Recover => Transaction!Recover
    BY <1>4, <1>6, <1>7 DEF Recover, Transaction!Recover
  <1>13. Deliver(r, k) => Transaction!Deliver(r, k)
    BY <1>8, <1>10 DEF Deliver, Transaction!Deliver
  <1>14. Timeout => Transaction!Timeout
    BY <1>9, <1>10 DEF Timeout, Transaction!Timeout
  <1> QED BY <1>11, <1>12, <1>13, <1>14

LEMMA StepsImplement ==
  ASSUME SessionInv, [Next]_vars
  PROVE  [Transaction!Next]_(Transaction!vars)
  <1> USE DEF Transaction!vars
  <1>1. ASSUME NEW e \in Edits, proposeTopology(e)
        PROVE  Transaction!Next
    <2>1. Propose(e)
      BY <1>1 DEF proposeTopology, Propose
    <2> QED BY <2>1, SameSteps, EditsAssumption DEF Transaction!Next
  <1>2. CASE recoverTopology
    <2>1. Recover
      BY <1>2 DEF recoverTopology, Recover
    <2> QED BY <2>1, SameSteps DEF Transaction!Next
  <1>3. ASSUME NEW now \in TimerReadings, deadlineTimer(now)
        PROVE  [Transaction!Next]_(Transaction!vars)
    BY <1>3, TimerIsATimeout, SameSteps DEF Transaction!Next
  <1>4. CASE receiveTopology
    <2>1. ReplyKinds = Transaction!ReplyKinds
      BY DEF ReplyKinds, Transaction!ReplyKinds
    <2> QED BY <1>4, <2>1, ReceiptIsADelivery, SameSteps DEF Transaction!Next
  <1> QED BY <1>1, <1>2, <1>3, <1>4, Unseen DEF Next

(* The invariant of the port and the engine, by kind of step. *)

\* What a submission does to the reducer's state.
Submits(e, r) ==
  /\ r \in Request /\ r \notin requests /\ r.proposal = e
  /\ topology'.outcome.kind = "submitting"
  /\ topology'.outcome.request = r
  /\ topology'.outcome.deadlineMs = TRANSACTION_DEADLINE_MS
  /\ requests' = requests \cup {r}
  /\ toWorklet' = Append(toWorklet, LoadPatch(r, ApplyEdit(e, scene)))
  /\ UNCHANGED <<scene, toMain, engine, report>>

LEMMA ProposalSubmits ==
  ASSUME SessionInv, NEW e \in Edits, proposeTopology(e)
  PROVE  ~RequestOpen /\ Submits(e, NextRequest(topology, e)) /\ IInv'
  <1>1. topology \in TopologyState /\ MaySubmit(topology)
    BY DEF SessionInv, IInv, TypeOK, proposeTopology
  <1>2. ~RequestOpen
    BY <1>1 DEF RequestOpen, MaySubmit
  <1>3. PICK r : r = NextRequest(topology, e)
    OBVIOUS
  <1>4. topology.nextId \in Nat
    BY <1>1 DEF TopologyState
  <1>5. /\ r \in Request /\ r.proposal = e /\ r.id = topology.nextId
        /\ topology'.outcome.kind = "submitting"
        /\ topology'.outcome.request = r
        /\ topology'.outcome.deadlineMs = TRANSACTION_DEADLINE_MS
    BY <1>1, <1>3, SubmitFields, DeadlineAssumption, SMTT(30) DEF proposeTopology
  <1>6. r \notin requests
    BY <1>4, <1>5 DEF SessionInv, IInv, IdsAreFresh
  <1>7. Submits(e, r)
    BY <1>3, <1>5, <1>6 DEF Submits, proposeTopology
  <1>8. IInv'
    BY <1>1, SubmitStep DEF proposeTopology, SessionInv
  <1> QED BY <1>2, <1>3, <1>7, <1>8

LEMMA RecoverySubmits ==
  ASSUME SessionInv, recoverTopology
  PROVE  /\ RequestOpen /\ OpenRequest.proposal \in Edits
         /\ Submits(OpenRequest.proposal,
                    NextRequest(invalidateGeneration(topology), OpenRequest.proposal))
         /\ IInv'
  <1>1. PICK t : t = invalidateGeneration(topology)
    OBVIOUS
  <1>2. PICK e : e = OpenRequest.proposal
    OBVIOUS
  <1>3. PICK r : r = NextRequest(t, e)
    OBVIOUS
  <1>4. topology \in TopologyState /\ e \in Edits /\ RequestOpen
    BY <1>2 DEF recoverTopology, SessionInv, IInv, TypeOK, Request, OpenRequest,
                RequestOpen
  <1>5. /\ t \in TopologyState /\ MaySubmit(t)
        /\ t.revision = topology.revision /\ t.nextId = topology.nextId
    BY <1>1, <1>4, InvalidateFields
  <1>6. topology.nextId \in Nat
    BY <1>4 DEF TopologyState
  <1>7. /\ topology' = submit(t, e, 0) /\ requests' = requests \cup {r}
        /\ applied' = applied /\ abandoned' = abandoned
    BY <1>1, <1>2, <1>3 DEF recoverTopology, recover, OpenRequest
  <1>8. /\ r \in Request /\ r.proposal = e /\ r.id = topology.nextId
        /\ topology'.outcome.kind = "submitting"
        /\ topology'.outcome.request = r
        /\ topology'.outcome.deadlineMs = TRANSACTION_DEADLINE_MS
    BY <1>3, <1>4, <1>5, <1>7, SubmitFields, DeadlineAssumption
  <1>9. r \notin requests
    BY <1>6, <1>8 DEF SessionInv, IInv, IdsAreFresh
  <1>10. Submits(e, r)
    BY <1>1, <1>2, <1>3, <1>8, <1>9 DEF Submits, recoverTopology, OpenRequest
  <1>11. IInv'
    BY <1>3, <1>4, <1>5, <1>7, SubmitStep DEF SessionInv
  <1> QED BY <1>1, <1>2, <1>3, <1>4, <1>10, <1>11

LEMMA SubmissionKeepsEngineInv ==
  ASSUME SessionInv, NEW e \in Edits, NEW r, Submits(e, r),
         RequestOpen => e = OpenRequest.proposal
  PROVE  EngineInv'
  <1>1. PICK m : m = LoadPatch(r, ApplyEdit(e, scene))
    OBVIOUS
  <1>2. /\ m \in ToWorklet /\ IsLoad(m) /\ m.request = r
        /\ m.patch.cables = ApplyEdit(e, scene).cables
    BY <1>1, EditedScene, LoadPatchFields DEF Submits, SessionInv, EngineInv, PortTypeOK
  <1>3. /\ toWorklet \in Seq(ToWorklet) /\ toWorklet' = Append(toWorklet, m)
        /\ toMain' = toMain /\ scene' = scene /\ requests' = requests \cup {r}
    BY <1>1 DEF Submits, SessionInv, EngineInv, PortTypeOK
  <1>4. /\ toWorklet' \in Seq(ToWorklet)
        /\ Len(toWorklet) \in Nat /\ Len(toWorklet') = Len(toWorklet) + 1
        /\ \A i \in 1..Len(toWorklet) : toWorklet'[i] = toWorklet[i]
        /\ toWorklet'[Len(toWorklet) + 1] = m
    BY <1>2, <1>3, AppendItems
  <1>5. PortTypeOK'
    BY <1>2, <1>3, <1>4 DEF Submits, SessionInv, EngineInv, PortTypeOK, engine, report,
       IsLoad, IsReply
  <1>6. /\ RequestOpen' /\ OpenRequest' = r
        /\ TargetCables' = m.patch.cables
        /\ RequestOpen => TargetCables' = TargetCables
    BY <1>2, <1>3 DEF Submits, RequestOpen, OpenRequest, TargetCables
  <1>7. EngineCables' = EngineCables
    BY DEF EngineCables, Submits, engine
  <1>8. DeadlineIsTheTimers'
    BY DEF DeadlineIsTheTimers, Submits
  <1>9. ClosedIsQuiet'
    BY <1>6 DEF ClosedIsQuiet
  <1>10. OpenHeadsForItsTarget'
    <2>1. CASE RequestOpen
      BY <2>1, <1>2, <1>3, <1>4, <1>6, <1>7
         DEF SessionInv, EngineInv, OpenHeadsForItsTarget, IsLoad
    <2>2. CASE ~RequestOpen
      BY <2>2, <1>2, <1>3, <1>4, <1>6, <1>7
         DEF SessionInv, EngineInv, ClosedIsQuiet, OpenHeadsForItsTarget, IsLoad, IsReply
    <2> QED BY <2>1, <2>2
  <1>11. OpenIsTheLastSent'
    <2>1. \A i \in 1..Len(toWorklet') : IsLoad(toWorklet'[i])
            => i = Len(toWorklet') \/ toWorklet'[i].request # r
      BY <1>4 DEF SessionInv, EngineInv, PortTypeOK, Submits, IsLoad
    <2>2. \A i \in 1..Len(toMain') : IsReply(toMain'[i]) => toMain'[i].request # r
      BY <1>3 DEF SessionInv, EngineInv, PortTypeOK, Submits, IsReply
    <2> QED BY <1>4, <1>6, <2>1, <2>2 DEF OpenIsTheLastSent
  <1> QED BY <1>5, <1>8, <1>9, <1>10, <1>11 DEF EngineInv

\* A step that leaves the open request open and the cables of the page alone.
SameRequest ==
  /\ RequestOpen' = RequestOpen
  /\ RequestOpen => OpenRequest' = OpenRequest
  /\ DeadlineIsTheTimers'
  /\ requests' = requests
  /\ scene' \in Scene /\ scene'.cables = scene.cables

LEMMA TargetStays ==
  ASSUME SessionInv, SameRequest, RequestOpen
  PROVE  TargetCables' = TargetCables
  <1>1. OpenRequest.proposal \in Edits /\ scene \in Scene
    BY DEF SessionInv, IInv, TypeOK, RequestOpen, OpenRequest, Request, EngineInv,
           PortTypeOK
  <1>2. PICK e \in Edits : e = OpenRequest.proposal
    BY <1>1
  <1>3. ApplyEdit(e, scene').cables = ApplyEdit(e, scene).cables
    BY <1>1, EditedScene DEF SameRequest
  <1> QED BY <1>2, <1>3 DEF SameRequest, TargetCables

LEMMA ReducerIdle ==
  ASSUME SessionInv, topology' = topology, requests' = requests,
         scene' \in Scene, scene'.cables = scene.cables
  PROVE  SameRequest
  BY DEF SameRequest, SessionInv, EngineInv, RequestOpen, OpenRequest, DeadlineIsTheTimers

\* The page moves a knob or a track, or resends one: a control joins the queue.
LEMMA ControlSent ==
  ASSUME SessionInv, SameRequest, NEW m \in ControlMessage,
         toWorklet' = Append(toWorklet, m), UNCHANGED <<toMain, engine, report>>
  PROVE  EngineInv'
  <1>1. m \in ToWorklet /\ ~IsLoad(m)
    BY DEF ToWorklet, ControlMessage, IsLoad
  <1>2. /\ toWorklet' \in Seq(ToWorklet)
        /\ Len(toWorklet) \in Nat /\ Len(toWorklet') = Len(toWorklet) + 1
        /\ \A i \in 1..Len(toWorklet) : toWorklet'[i] = toWorklet[i]
        /\ toWorklet'[Len(toWorklet) + 1] = m
    BY <1>1, AppendItems DEF SessionInv, EngineInv, PortTypeOK
  <1>3. /\ EngineCables' = EngineCables /\ toMain' = toMain
        /\ requests' = requests
        /\ RequestOpen' = RequestOpen /\ scene'.cables = scene.cables
    BY DEF EngineCables, engine, SameRequest
  <1>4. PortTypeOK'
    BY <1>1, <1>2, <1>3 DEF SessionInv, EngineInv, PortTypeOK, SameRequest, engine, report,
       IsLoad, IsReply
  <1>5. \A i \in 1..Len(toWorklet') :
          IsLoad(toWorklet'[i]) => i \in 1..Len(toWorklet) /\ toWorklet'[i] = toWorklet[i]
    BY <1>1, <1>2 DEF IsLoad
  <1>6. ClosedIsQuiet'
    BY <1>3, <1>5 DEF SessionInv, EngineInv, ClosedIsQuiet, IsLoad, IsReply
  <1>7. OpenHeadsForItsTarget'
    BY <1>3, <1>5, TargetStays DEF SessionInv, EngineInv, OpenHeadsForItsTarget, IsLoad
  <1>8. OpenIsTheLastSent'
    BY <1>2, <1>3, <1>5 DEF SessionInv, EngineInv, OpenIsTheLastSent, IsLoad, IsReply, SameRequest
  <1> QED BY <1>4, <1>6, <1>7, <1>8 DEF EngineInv, SameRequest

\* A step that touches neither the port nor the cables of the engine.
LEMMA NothingSent ==
  ASSUME SessionInv, SameRequest, UNCHANGED <<toWorklet, toMain, engine, report>>
  PROVE  EngineInv'
  <1>1. /\ EngineCables' = EngineCables /\ toMain' = toMain /\ toWorklet' = toWorklet
        /\ RequestOpen' = RequestOpen /\ scene'.cables = scene.cables
    BY DEF EngineCables, engine, SameRequest
  <1>2. PortTypeOK'
    BY <1>1 DEF SessionInv, EngineInv, PortTypeOK, SameRequest, engine, report,
       IsLoad, IsReply
  <1>3. ClosedIsQuiet'
    BY <1>1 DEF SessionInv, EngineInv, ClosedIsQuiet, IsLoad, IsReply
  <1>4. OpenHeadsForItsTarget'
    BY <1>1, TargetStays DEF SessionInv, EngineInv, OpenHeadsForItsTarget, IsLoad
  <1>5. OpenIsTheLastSent'
    BY <1>1 DEF SessionInv, EngineInv, OpenIsTheLastSent, IsLoad, IsReply, SameRequest
  <1> QED BY <1>2, <1>3, <1>4, <1>5 DEF EngineInv, SameRequest

LEMMA TimerKeepsEngineInv ==
  ASSUME SessionInv, NEW now \in TimerReadings, deadlineTimer(now)
  PROVE  EngineInv'
  <1>1. \/ topology' = topology
        \/ /\ topology.outcome.kind = "submitting"
           /\ topology'.outcome.kind = "unknown"
           /\ topology'.outcome.request = topology.outcome.request
    BY TimerIsATimeout, TimeoutFields DEF SessionInv, IInv
  <1>2. scene' = scene /\ requests' = requests /\ scene \in Scene
    BY DEF deadlineTimer, SessionInv, EngineInv, PortTypeOK
  <1>3. SameRequest
    BY <1>1, <1>2, ReducerIdle DEF SameRequest, RequestOpen, OpenRequest, DeadlineIsTheTimers
  <1> QED BY <1>3, NothingSent DEF deadlineTimer

\* The worklet consumes a control.
LEMMA ControlTaken ==
  ASSUME SessionInv, onmessage_control
  PROVE  EngineInv'
  <1>1. toWorklet \in Seq(ToWorklet) /\ toWorklet # <<>> /\ toWorklet' = Tail(toWorklet)
    BY DEF SessionInv, EngineInv, PortTypeOK, onmessage_control
  <1>2. /\ toWorklet' \in Seq(ToWorklet)
        /\ Len(toWorklet) \in Nat \ {0} /\ Len(toWorklet') = Len(toWorklet) - 1
        /\ Head(toWorklet) \in ToWorklet
        /\ \A i \in 1..Len(toWorklet') : toWorklet'[i] = toWorklet[i + 1]
    BY <1>1, TailItems
  <1>3. /\ EngineCables' = EngineCables /\ toMain' = toMain /\ scene' = scene
        /\ UNCHANGED <<topology, requests, report, live, pending>>
    BY DEF EngineCables, onmessage_control, page, history
  <1>4. SameRequest
    BY <1>3, ReducerIdle DEF SessionInv, EngineInv, PortTypeOK
  <1>5. Head(toWorklet).value \in Level
    BY <1>2, Messages DEF onmessage_control, IsLoad, ControlMessage
  <1>6. PortTypeOK'
    BY <1>2, <1>3, <1>5 DEF SessionInv, EngineInv, PortTypeOK, report, IsLoad, IsReply,
       onmessage_control
  <1>7. ClosedIsQuiet'
    BY <1>2, <1>3, <1>4 DEF SessionInv, EngineInv, ClosedIsQuiet, IsLoad, IsReply, SameRequest
  <1>8. OpenHeadsForItsTarget'
    BY <1>2, <1>3, <1>4, TargetStays
       DEF SessionInv, EngineInv, OpenHeadsForItsTarget, IsLoad, SameRequest
  <1>9. OpenIsTheLastSent'
    <2> SUFFICES ASSUME RequestOpen'
                 PROVE  OpenIsTheLastSent'
      BY DEF OpenIsTheLastSent
    <2>1. RequestOpen /\ OpenRequest' = OpenRequest
      BY <1>4 DEF SameRequest
    <2>2. \A i \in 1..Len(toWorklet') : i + 1 \in 1..Len(toWorklet)
      BY <1>2
    <2>3. \A i \in 1..Len(toWorklet') : \A j \in i+1..Len(toWorklet') : j + 1 \in i+1+1..Len(toWorklet)
      BY <1>2
    <2>4. ASSUME NEW i \in 1..Len(toWorklet'), IsLoad(toWorklet'[i]),
                 toWorklet'[i].request = OpenRequest,
                 NEW j \in i+1..Len(toWorklet')
          PROVE  ~IsLoad(toWorklet'[j])
      <3>1. toWorklet'[i] = toWorklet[i + 1] /\ toWorklet'[j] = toWorklet[j + 1]
        BY <1>2
      <3>2. ~IsLoad(toWorklet[j + 1])
        BY <2>1, <2>2, <2>3, <2>4, <3>1
           DEF SessionInv, EngineInv, OpenIsTheLastSent, IsLoad
      <3> QED BY <3>1, <3>2 DEF IsLoad
    <2>5. \A i \in 1..Len(toMain') :
            IsReply(toMain'[i]) /\ toMain'[i].request = OpenRequest =>
              /\ \A j \in i+1..Len(toMain') : ~IsReply(toMain'[j])
              /\ \A j \in 1..Len(toWorklet') : ~IsLoad(toWorklet'[j])
      BY <1>2, <1>3, <2>1, <2>2 DEF SessionInv, EngineInv, OpenIsTheLastSent, IsLoad, IsReply
    <2> QED BY <2>1, <2>4, <2>5 DEF OpenIsTheLastSent
  <1> QED BY <1>4, <1>6, <1>7, <1>8, <1>9 DEF EngineInv, SameRequest

\* The worklet compiles, or refuses, a patch: the engine heads for it, and the
\* reply joins the queue behind all the others.
LEMMA LoadTaken ==
  ASSUME SessionInv, onmessage_loadPatch
  PROVE  EngineInv'
  <1>1. /\ toWorklet \in Seq(ToWorklet) /\ toWorklet # <<>> /\ toWorklet' = Tail(toWorklet)
        /\ toMain \in Seq(ToMain)
        /\ scene \in Scene
    BY DEF SessionInv, EngineInv, PortTypeOK, onmessage_loadPatch
  <1>2. /\ toWorklet' \in Seq(ToWorklet)
        /\ Len(toWorklet) \in Nat \ {0} /\ Len(toWorklet') = Len(toWorklet) - 1
        /\ Head(toWorklet) = toWorklet[1] /\ Head(toWorklet) \in ToWorklet
        /\ \A i \in 1..Len(toWorklet') : toWorklet'[i] = toWorklet[i + 1]
    BY <1>1, TailItems
  <1>3. PICK m : m = Head(toWorklet)
    OBVIOUS
  <1>4. m \in LoadMessage /\ m = toWorklet[1] /\ IsLoad(m) /\ 1 \in 1..Len(toWorklet)
    BY <1>2, <1>3, Messages DEF onmessage_loadPatch, IsLoad
  <1>5. m.request \in Request /\ m.patch \in Patch /\ m.patch # NoPatch
        /\ m.patch.cables \subseteq Cable
    BY <1>4, NoPatchAssumption DEF LoadMessage, Patch
  <1>6. PICK a : a = [type |-> IF Compiles(m.patch) THEN "accepted" ELSE "rejected",
                      request |-> m.request]
    OBVIOUS
  <1>7. /\ a \in ToMain /\ IsReply(a) /\ a.request = m.request
        /\ a.type = IF Compiles(m.patch) THEN "accepted" ELSE "rejected"
    BY <1>5, <1>6 DEF ToMain, Reply, IsReply
  <1>8. /\ toMain' = Append(toMain, a)
        /\ UNCHANGED <<page, live, engineKnob, engineTrack, history>>
        /\ IF Compiles(m.patch)
           THEN pending' = m.patch /\ lossesDirty' = TRUE /\ pendingInstall' = m.request
           ELSE UNCHANGED <<pending, report>>
    BY <1>3, <1>6 DEF onmessage_loadPatch
  <1>9. /\ toMain' \in Seq(ToMain)
        /\ Len(toMain) \in Nat /\ Len(toMain') = Len(toMain) + 1
        /\ \A i \in 1..Len(toMain) : toMain'[i] = toMain[i]
        /\ toMain'[Len(toMain) + 1] = a
    BY <1>1, <1>7, <1>8, AppendItems
  <1>10. /\ topology' = topology /\ requests' = requests /\ scene' = scene
         /\ live' = live /\ engineKnob' = engineKnob /\ engineTrack' = engineTrack
    BY <1>8 DEF page, history
  <1>11. SameRequest
    BY <1>1, <1>10, ReducerIdle
  <1>12. RequestOpen /\ RequestOpen' /\ OpenRequest' = OpenRequest
    BY <1>4, <1>11 DEF SessionInv, EngineInv, ClosedIsQuiet, SameRequest
  <1>13. m.patch.cables = TargetCables
    BY <1>4, <1>12 DEF SessionInv, EngineInv, OpenHeadsForItsTarget
  <1>14. m.request \in requests
    BY <1>4 DEF SessionInv, EngineInv, PortTypeOK
  <1>15. TargetCables' = TargetCables
    BY <1>11, <1>12, TargetStays
  <1>16. PortTypeOK'
    <2>1. \A i \in 1..Len(toWorklet') : IsLoad(toWorklet'[i]) => toWorklet'[i].request \in requests'
      BY <1>2, <1>10 DEF SessionInv, EngineInv, PortTypeOK, IsLoad
    <2>2. \A i \in 1..Len(toMain') : IsReply(toMain'[i]) => toMain'[i].request \in requests'
      BY <1>7, <1>9, <1>10, <1>14 DEF SessionInv, EngineInv, PortTypeOK, IsReply
    <2> QED BY <1>1, <1>2, <1>5, <1>8, <1>9, <1>10, <2>1, <2>2
            DEF SessionInv, EngineInv, PortTypeOK, report
  <1>17. ClosedIsQuiet'
    BY <1>12 DEF ClosedIsQuiet
  <1>18. EngineCables' = IF Compiles(m.patch) THEN TargetCables ELSE EngineCables
    BY <1>5, <1>8, <1>10, <1>13 DEF EngineCables
  <1>19. Compiles(m.patch) <=> TargetCables \in Compilable
    BY <1>13 DEF Compiles
  <1>20. OpenHeadsForItsTarget'
    <2>1. \A i \in 1..Len(toWorklet') :
            IsLoad(toWorklet'[i]) => toWorklet'[i].patch.cables = TargetCables
      BY <1>2, <1>12 DEF SessionInv, EngineInv, OpenHeadsForItsTarget, IsLoad
    <2>2. ASSUME NEW i \in 1..Len(toMain')
          PROVE  /\ toMain'[i].type = "accepted" => EngineCables' = TargetCables
                 /\ toMain'[i].type = "rejected" => TargetCables \notin Compilable
      <3>1. CASE i = Len(toMain) + 1
        BY <3>1, <1>7, <1>9, <1>18, <1>19
      <3>2. CASE i \in 1..Len(toMain)
        BY <3>2, <1>9, <1>12, <1>18 DEF SessionInv, EngineInv, OpenHeadsForItsTarget
      <3> QED BY <1>9, <3>1, <3>2
    <2>3. \/ EngineCables' = scene.cables
          \/ EngineCables' = TargetCables /\ TargetCables \in Compilable
      BY <1>12, <1>18, <1>19 DEF SessionInv, EngineInv, OpenHeadsForItsTarget
    <2> QED BY <1>10, <1>15, <2>1, <2>2, <2>3 DEF OpenHeadsForItsTarget
  <1>21. OpenIsTheLastSent'
    <2>1. ASSUME NEW i \in 1..Len(toWorklet'), IsLoad(toWorklet'[i]),
                 toWorklet'[i].request = OpenRequest,
                 NEW j \in i+1..Len(toWorklet')
          PROVE  ~IsLoad(toWorklet'[j])
      <3>1. toWorklet'[i] = toWorklet[i + 1] /\ toWorklet'[j] = toWorklet[j + 1]
        BY <1>2
      <3>2. i + 1 \in 1..Len(toWorklet) /\ j + 1 \in i+1+1..Len(toWorklet)
        BY <1>2
      <3>3. ~IsLoad(toWorklet[j + 1])
        BY <1>12, <2>1, <3>1, <3>2
           DEF SessionInv, EngineInv, OpenIsTheLastSent, IsLoad
      <3> QED BY <3>1, <3>3 DEF IsLoad
    <2>2. ASSUME NEW i \in 1..Len(toMain'), IsReply(toMain'[i]),
                 toMain'[i].request = OpenRequest
          PROVE  /\ \A j \in i+1..Len(toMain') : ~IsReply(toMain'[j])
                 /\ \A j \in 1..Len(toWorklet') : ~IsLoad(toWorklet'[j])
      <3>1. i = Len(toMain) + 1
        BY <1>4, <1>9, <1>12, <2>2 DEF SessionInv, EngineInv, OpenIsTheLastSent, IsReply
      <3>2. m.request = OpenRequest
        BY <1>7, <1>9, <2>2, <3>1
      <3>3. \A j \in 2..Len(toWorklet) : ~IsLoad(toWorklet[j])
        BY <1>4, <1>12, <3>2 DEF SessionInv, EngineInv, OpenIsTheLastSent
      <3>4. \A j \in 1..Len(toWorklet') : ~IsLoad(toWorklet'[j])
        BY <1>2, <3>3 DEF IsLoad
      <3> QED BY <1>9, <3>1, <3>4
    <2> QED BY <1>12, <2>1, <2>2 DEF OpenIsTheLastSent
  <1> QED BY <1>11, <1>16, <1>17, <1>20, <1>21 DEF EngineInv, SameRequest

\* A quantum installs what is pending and may report it.
LEMMA QuantumRendered ==
  ASSUME SessionInv, process
  PROVE  EngineInv'
  <1>1. /\ UNCHANGED <<topology, requests, toWorklet>> /\ scene' = scene /\ scene \in Scene
        /\ toMain \in Seq(ToMain) /\ pending' = NoPatch /\ live' = EngineCables
    BY DEF process, page, history, SessionInv, EngineInv, PortTypeOK, Installed, EngineCables
  <1>2. SameRequest
    BY <1>1, ReducerIdle
  <1>3. EngineCables' = EngineCables
    BY <1>1 DEF EngineCables
  <1>4. PICK a : a = [type |-> "losses"]
    OBVIOUS
  <1>5. PICK b : b = [type |-> "topologyInstalled", request |-> pendingInstall]
    OBVIOUS
  <1>6. a \in ToMain /\ b \in ToMain /\ ~IsReply(a) /\ ~IsReply(b)
    BY <1>4, <1>5 DEF SessionInv, EngineInv, PortTypeOK, ToMain, Report, IsReply
  <1>7. /\ toMain' \in Seq(ToMain)
        /\ Len(toMain) \in Nat /\ Len(toMain') \in {Len(toMain), Len(toMain) + 2}
        /\ \A i \in 1..Len(toMain) : toMain'[i] = toMain[i]
        /\ \A i \in Len(toMain)+1..Len(toMain') : ~IsReply(toMain'[i])
    <2>1. CASE lossesDirty
      <3>1. toMain' = toMain \o <<a, b>>
        BY <2>1, <1>4, <1>5 DEF process
      <3>2. /\ toMain' \in Seq(ToMain)
            /\ Len(toMain) \in Nat /\ Len(toMain') = Len(toMain) + 2
            /\ \A i \in 1..Len(toMain) : toMain'[i] = toMain[i]
            /\ toMain'[Len(toMain) + 1] = a
            /\ toMain'[Len(toMain) + 2] = b
        BY <1>1, <1>6, <3>1, AppendTwoItems
      <3>3. \A i \in Len(toMain)+1..Len(toMain') : i = Len(toMain) + 1 \/ i = Len(toMain) + 2
        BY <3>2
      <3> QED BY <1>6, <3>2, <3>3
    <2>2. CASE ~lossesDirty
      BY <1>1, <2>2 DEF process
    <2> QED BY <2>1, <2>2
  <1>8. \A i \in 1..Len(toMain') :
          IsReply(toMain'[i]) => i \in 1..Len(toMain) /\ toMain'[i] = toMain[i]
    BY <1>7
  <1>9. /\ engineKnob' \in Level /\ engineTrack' \in Level
        /\ lossesDirty' = FALSE /\ pendingInstall' \in Request \cup {NoRequest}
    BY SceneAssumption DEF process, SessionInv, EngineInv, PortTypeOK, Patch
  <1>10. EngineCables \subseteq Cable
    BY DEF EngineCables, SessionInv, EngineInv, PortTypeOK, Patch
  <1>11. PortTypeOK'
    BY <1>1, <1>7, <1>8, <1>9, <1>10
       DEF SessionInv, EngineInv, PortTypeOK, IsLoad, IsReply
  <1>12. ClosedIsQuiet'
    BY <1>1, <1>2, <1>3, <1>8
       DEF SessionInv, EngineInv, ClosedIsQuiet, IsLoad, SameRequest
  <1>13. OpenHeadsForItsTarget'
    <2> SUFFICES ASSUME RequestOpen PROVE OpenHeadsForItsTarget'
      BY <1>2 DEF OpenHeadsForItsTarget, SameRequest
    <2>1. \A i \in 1..Len(toMain') :
            /\ toMain'[i].type = "accepted" => EngineCables = TargetCables
            /\ toMain'[i].type = "rejected" => TargetCables \notin Compilable
      BY <1>8 DEF SessionInv, EngineInv, OpenHeadsForItsTarget, IsReply
    <2> QED BY <1>1, <1>2, <1>3, <2>1, TargetStays
            DEF SessionInv, EngineInv, OpenHeadsForItsTarget, IsLoad
  <1>14. OpenIsTheLastSent'
    BY <1>1, <1>2, <1>7, <1>8
       DEF SessionInv, EngineInv, OpenIsTheLastSent, IsLoad, SameRequest
  <1> QED BY <1>2, <1>11, <1>12, <1>13, <1>14 DEF EngineInv, SameRequest

\* The page takes a message that closes nothing; it may send a control.
LEMMA MessageTaken ==
  ASSUME SessionInv, SameRequest, toMain # <<>>, toMain' = Tail(toMain),
         \/ toWorklet' = toWorklet
         \/ \E m \in ControlMessage : toWorklet' = Append(toWorklet, m),
         UNCHANGED <<engine, report>>
  PROVE  EngineInv'
  <1>1. /\ toMain' \in Seq(ToMain)
        /\ Len(toMain) \in Nat \ {0} /\ Len(toMain') = Len(toMain) - 1
        /\ \A i \in 1..Len(toMain') : toMain'[i] = toMain[i + 1]
    BY TailItems DEF SessionInv, EngineInv, PortTypeOK
  <1>2. /\ toWorklet' \in Seq(ToWorklet)
        /\ Len(toWorklet) \in Nat /\ Len(toWorklet') \in {Len(toWorklet), Len(toWorklet) + 1}
        /\ \A i \in 1..Len(toWorklet') :
             IsLoad(toWorklet'[i]) => i \in 1..Len(toWorklet) /\ toWorklet'[i] = toWorklet[i]
    <2>1. toWorklet \in Seq(ToWorklet)
      BY DEF SessionInv, EngineInv, PortTypeOK
    <2>2. CASE toWorklet' = toWorklet
      BY <2>1, <2>2
    <2>3. ASSUME NEW m \in ControlMessage, toWorklet' = Append(toWorklet, m)
          PROVE  /\ toWorklet' \in Seq(ToWorklet)
                 /\ Len(toWorklet) \in Nat
                 /\ Len(toWorklet') \in {Len(toWorklet), Len(toWorklet) + 1}
                 /\ \A i \in 1..Len(toWorklet') :
                      IsLoad(toWorklet'[i])
                        => i \in 1..Len(toWorklet) /\ toWorklet'[i] = toWorklet[i]
      <3>1. m \in ToWorklet /\ ~IsLoad(m)
        BY DEF ToWorklet, ControlMessage, IsLoad
      <3>2. /\ toWorklet' \in Seq(ToWorklet)
            /\ Len(toWorklet) \in Nat /\ Len(toWorklet') = Len(toWorklet) + 1
            /\ \A i \in 1..Len(toWorklet) : toWorklet'[i] = toWorklet[i]
            /\ toWorklet'[Len(toWorklet) + 1] = m
        BY <2>1, <2>3, <3>1, AppendItems
      <3> QED BY <3>1, <3>2 DEF IsLoad
    <2> QED BY <2>2, <2>3
  <1>3. /\ EngineCables' = EngineCables
        /\ requests' = requests
        /\ RequestOpen' = RequestOpen /\ scene'.cables = scene.cables
    BY DEF EngineCables, engine, SameRequest
  <1>4. \A i \in 1..Len(toMain') : i + 1 \in 1..Len(toMain)
    BY <1>1
  <1>5. PortTypeOK'
    BY <1>1, <1>2, <1>3, <1>4
       DEF SessionInv, EngineInv, PortTypeOK, SameRequest, engine, report, IsLoad, IsReply
  <1>6. ClosedIsQuiet'
    BY <1>1, <1>2, <1>3, <1>4 DEF SessionInv, EngineInv, ClosedIsQuiet, IsLoad, IsReply
  <1>7. OpenHeadsForItsTarget'
    BY <1>1, <1>2, <1>3, <1>4, TargetStays
       DEF SessionInv, EngineInv, OpenHeadsForItsTarget, IsLoad
  <1>8. OpenIsTheLastSent'
    <2> SUFFICES ASSUME RequestOpen'
                 PROVE  OpenIsTheLastSent'
      BY DEF OpenIsTheLastSent
    <2>1. RequestOpen /\ OpenRequest' = OpenRequest
      BY <1>3 DEF SameRequest
    <2>2. ASSUME NEW i \in 1..Len(toMain'), IsReply(toMain'[i]),
                 toMain'[i].request = OpenRequest
          PROVE  /\ \A j \in i+1..Len(toMain') : ~IsReply(toMain'[j])
                 /\ \A j \in 1..Len(toWorklet') : ~IsLoad(toWorklet'[j])
      <3>1. toMain'[i] = toMain[i + 1] /\ i + 1 \in 1..Len(toMain)
        BY <1>1
      <3>2. /\ \A j \in i+1+1..Len(toMain) : ~IsReply(toMain[j])
            /\ \A j \in 1..Len(toWorklet) : ~IsLoad(toWorklet[j])
        BY <2>1, <2>2, <3>1 DEF SessionInv, EngineInv, OpenIsTheLastSent, IsReply
      <3>3. ASSUME NEW j \in i+1..Len(toMain')
            PROVE  ~IsReply(toMain'[j])
        <4>1. toMain'[j] = toMain[j + 1] /\ j + 1 \in i+1+1..Len(toMain)
          BY <1>1
        <4> QED BY <3>2, <4>1 DEF IsReply
      <3> QED BY <1>2, <3>2, <3>3 DEF IsLoad
    <2>3. \A i \in 1..Len(toWorklet') :
            IsLoad(toWorklet'[i]) /\ toWorklet'[i].request = OpenRequest =>
              \A j \in i+1..Len(toWorklet') : ~IsLoad(toWorklet'[j])
      BY <1>2, <2>1, SMTT(30) DEF SessionInv, EngineInv, OpenIsTheLastSent, IsLoad
    <2> QED BY <2>1, <2>2, <2>3 DEF OpenIsTheLastSent
  <1> QED BY <1>5, <1>6, <1>7, <1>8 DEF EngineInv, SameRequest

\* The reply that closes the open request was the last message about it.
LEMMA OpenReplyTaken ==
  ASSUME SessionInv, receiveTopology, RequestOpen, Head(toMain).request = OpenRequest
  PROVE  /\ \A i \in 1..Len(toWorklet) : ~IsLoad(toWorklet[i])
         /\ toMain' \in Seq(ToMain)
         /\ \A i \in 1..Len(toMain') : ~IsReply(toMain'[i])
         /\ Head(toMain).type = "accepted" => EngineCables = TargetCables
         /\ Head(toMain).type = "rejected" => EngineCables = scene.cables
  <1>1. /\ toMain' = Tail(toMain) /\ toMain # <<>> /\ toMain \in Seq(ToMain)
        /\ IsReply(Head(toMain))
    BY DEF receiveTopology, SessionInv, EngineInv, PortTypeOK, IsReply
  <1>2. /\ toMain' \in Seq(ToMain)
        /\ Len(toMain) \in Nat \ {0} /\ Len(toMain') = Len(toMain) - 1
        /\ Head(toMain) = toMain[1] /\ 1 \in 1..Len(toMain)
        /\ \A i \in 1..Len(toMain') : toMain'[i] = toMain[i + 1]
    BY <1>1, TailItems
  <1>3. /\ \A j \in 2..Len(toMain) : ~IsReply(toMain[j])
        /\ \A j \in 1..Len(toWorklet) : ~IsLoad(toWorklet[j])
    BY <1>1, <1>2 DEF SessionInv, EngineInv, OpenIsTheLastSent
  <1>4. ASSUME NEW i \in 1..Len(toMain')
        PROVE  ~IsReply(toMain'[i])
    <2>1. toMain'[i] = toMain[i + 1] /\ i + 1 \in 2..Len(toMain)
      BY <1>2
    <2> QED BY <1>3, <2>1 DEF IsReply
  <1>5. /\ Head(toMain).type = "accepted" => EngineCables = TargetCables
        /\ Head(toMain).type = "rejected" => EngineCables = scene.cables
    BY <1>2 DEF SessionInv, EngineInv, OpenHeadsForItsTarget
  <1> QED BY <1>2, <1>3, <1>4, <1>5

LEMMA ReplyTaken ==
  ASSUME SessionInv, receiveTopology
  PROVE  EngineInv' /\ IInv'
  <1>1. PICK r, k : r = Head(toMain).request /\ k = Head(toMain).type
    OBVIOUS
  <1>2. /\ r \in requests /\ k \in ReplyKinds /\ k \in {"accepted", "rejected"}
        /\ Deliver(r, k)
    BY <1>1, ReceiptIsADelivery DEF receiveTopology
  <1>3. IInv /\ TypeOK /\ IInv'
    BY <1>2, DeliverStep DEF SessionInv, IInv
  <1>4. PICK after : after = receive(topology, [kind |-> k, generation |-> r.generation,
                                                id |-> r.id])
    OBVIOUS
  <1>5. /\ scene' = IF after.accepted # NoRequest
                    THEN ApplyEdit(after.accepted.proposal, scene) ELSE scene
        /\ toMain' = Tail(toMain) /\ toMain # <<>> /\ toMain \in Seq(ToMain)
        /\ UNCHANGED <<toWorklet, engine, report, requests>>
        /\ scene \in Scene
    BY <1>1, <1>4 DEF receiveTopology, SessionInv, EngineInv, PortTypeOK
  <1> DEFINE answersOpen == /\ topology.outcome.kind = "submitting"
                            /\ r.generation = topology.generation
                            /\ r.generation = topology.outcome.request.generation
                            /\ r.id = topology.outcome.request.id
  <1>6. CASE ~answersOpen
    <2>1. topology' = topology
      BY <1>2, <1>3, <1>6, ObsoleteReply
    <2>2. after = topology /\ topology.accepted = NoRequest
      BY <1>3, <1>4, <1>6 DEF receive, Correlates, TypeOK
    <2>3. SameRequest
      BY <1>5, <2>1, <2>2, ReducerIdle
    <2> QED BY <1>3, <1>5, <2>3, MessageTaken
  <1>7. CASE answersOpen
    <2>1. r = OpenRequest /\ RequestOpen /\ topology.outcome.request \in Request
      BY <1>2, <1>3, <1>7 DEF IInv, IdsAreFresh, TypeOK, OpenRequest, RequestOpen
    <2>2. /\ \A i \in 1..Len(toWorklet) : ~IsLoad(toWorklet[i])
          /\ toMain' \in Seq(ToMain)
          /\ \A i \in 1..Len(toMain') : ~IsReply(toMain'[i])
          /\ k = "accepted" => EngineCables = TargetCables
          /\ k = "rejected" => EngineCables = scene.cables
      BY <1>1, <2>1, OpenReplyTaken
    <2>3. EngineCables' = EngineCables
      BY <1>5 DEF EngineCables, engine
    <2>4. /\ topology'.outcome.kind \in {"idle", "rejected"}
          /\ scene' \in Scene /\ EngineCables = scene'.cables
      <3>1. CASE k = "accepted"
        <4>1. topology'.outcome.kind = "idle"
          BY <1>2, <1>3, <1>7, <3>1, AcceptingReply
        <4>2. after.accepted = topology.outcome.request
          BY <1>3, <1>4, <1>7, <3>1 DEF receive, Correlates, TypeOK, TopologyState
        <4>3. scene' = ApplyEdit(OpenRequest.proposal, scene)
          BY <1>5, <2>1, <4>2, NoRequestAssumption DEF OpenRequest
        <4>4. OpenRequest.proposal \in Edits
          BY <2>1 DEF OpenRequest, Request
        <4> QED BY <1>5, <2>2, <3>1, <4>1, <4>3, <4>4, EditedScene DEF TargetCables
      <3>2. CASE k = "rejected"
        <4>1. after = [topology EXCEPT !.outcome = Outcome("rejected", topology.outcome.request)]
          BY <1>4, <1>7, <3>2 DEF receive, Correlates, OutcomeOf
        <4>2. Outcome("rejected", topology.outcome.request) \in OutcomeState
          BY <2>1, OutcomeIsTyped DEF OutcomeKinds
        <4>3. after.accepted = NoRequest /\ after.outcome.kind = "rejected"
          BY <1>3, <2>1, <4>1, <4>2, OutcomeFields, OutcomeIsTyped DEF TypeOK, OutcomeKinds
        <4>4. topology' = after
          BY <1>2, <1>4, <4>3 DEF Deliver
        <4> QED BY <1>5, <2>2, <3>2, <4>3, <4>4
      <3> QED BY <1>2, <3>1, <3>2
    <2>5. ~RequestOpen'
      BY <2>4 DEF RequestOpen
    <2>6. PortTypeOK'
      BY <1>5, <2>2, <2>4
         DEF SessionInv, EngineInv, PortTypeOK, engine, report, IsLoad, IsReply
    <2>7. DeadlineIsTheTimers'
      BY <2>4 DEF DeadlineIsTheTimers
    <2>8. ClosedIsQuiet'
      BY <1>5, <2>2, <2>3, <2>4 DEF ClosedIsQuiet, IsLoad
    <2> QED BY <1>3, <2>5, <2>6, <2>7, <2>8
            DEF EngineInv, OpenHeadsForItsTarget, OpenIsTheLastSent
  <1> QED BY <1>6, <1>7

LEMMA NextSessionInv == SessionInv /\ [Next]_vars => SessionInv'
  <1> SUFFICES ASSUME SessionInv, [Next]_vars PROVE SessionInv'
    OBVIOUS
  <1> USE DEF SessionInv
  <1>1. IInv /\ EngineInv /\ scene \in Scene
    BY DEF EngineInv, PortTypeOK
  <1>2. UNCHANGED <<topology, requests, applied, abandoned>> => IInv'
    BY DEF IInv, TypeOK, IdsAreFresh, OpenRequestIsCurrent, AppliedOnItsBase,
           AppliedInOrder, RevisionCountsEdits, AbandonedNeverApplied
  <1>3. ASSUME NEW e \in Edits, proposeTopology(e) PROVE SessionInv'
    BY <1>3, ProposalSubmits, SubmissionKeepsEngineInv
  <1>4. CASE recoverTopology
    <2>1. PICK e \in Edits : e = OpenRequest.proposal
      BY <1>4, RecoverySubmits
    <2> QED BY <1>4, <2>1, RecoverySubmits, SubmissionKeepsEngineInv
  <1>5. ASSUME NEW now \in TimerReadings, deadlineTimer(now) PROVE SessionInv'
    <2>1. CASE Timeout
      <3>1. TypeOK /\ abandoned' = abandoned \cup GivenUp(topology')
        BY <2>1 DEF IInv, Timeout
      <3>2. IInv'
        BY <2>1, <3>1, TimeoutFields, IdleStep, CloseStep DEF OutcomeKinds
      <3> QED BY <1>5, <3>2, TimerKeepsEngineInv
    <2> QED BY <1>2, <1>5, <2>1, TimerIsATimeout, TimerKeepsEngineInv
  <1>6. ASSUME NEW v \in Level, onParamInput(v) PROVE SessionInv'
    <2>1. scene' \in Scene /\ scene'.cables = scene.cables
      BY <1>1, <1>6 DEF onParamInput, Scene
    <2>2. SameRequest
      BY <1>6, <2>1, ReducerIdle DEF onParamInput, history
    <2>3. PICK m \in ControlMessage : m = [type |-> "param", value |-> v]
      BY DEF ControlMessage
    <2>4. EngineInv'
      BY <1>6, <2>2, <2>3, ControlSent DEF onParamInput
    <2> QED BY <1>2, <1>6, <2>4, Unseen
  <1>7. ASSUME NEW v \in Level, setTrack(v) PROVE SessionInv'
    <2>1. scene' \in Scene /\ scene'.cables = scene.cables
      BY <1>1, <1>7 DEF setTrack, Scene
    <2>2. SameRequest
      BY <1>7, <2>1, ReducerIdle DEF setTrack, history
    <2>3. PICK m \in ControlMessage : m = [type |-> "track", value |-> v]
      BY DEF ControlMessage
    <2>4. EngineInv'
      BY <1>7, <2>2, <2>3, ControlSent DEF setTrack
    <2> QED BY <1>2, <1>7, <2>4, Unseen
  <1>8. CASE Resume \/ Hang \/ UNCHANGED vars
    <2>1. UNCHANGED <<scene, topology, requests, toWorklet, toMain, engine, report>>
      BY <1>8 DEF Resume, Hang, vars, page, history
    <2>2. SameRequest
      BY <1>1, <2>1, ReducerIdle
    <2> QED BY <1>2, <1>8, <2>1, <2>2, NothingSent, Unseen
  <1>9. CASE receiveTopology
    BY <1>9, ReplyTaken
  <1>10. CASE receiveInstalled
    <2>1. SameRequest
      BY <1>1, <1>10, ReducerIdle DEF receiveInstalled, page, history
    <2>2. PICK m \in ControlMessage : m = [type |-> "track", value |-> scene.track]
      BY <1>1 DEF ControlMessage, Scene
    <2>3. EngineInv'
      BY <1>10, <2>1, <2>2, MessageTaken DEF receiveInstalled, applyTrackState
    <2> QED BY <1>2, <1>10, <2>3, Unseen
  <1>11. CASE onmessage_loadPatch
    BY <1>2, <1>11, LoadTaken, Unseen
  <1>12. CASE onmessage_control
    BY <1>2, <1>12, ControlTaken, Unseen
  <1>13. CASE process
    BY <1>2, <1>13, QuantumRendered, Unseen
  <1> QED BY <1>3, <1>4, <1>5, <1>6, <1>7, <1>8, <1>9, <1>10, <1>11, <1>12, <1>13
          DEF Next

LEMMA InitSessionInv == Init => SessionInv
  <1> SUFFICES ASSUME Init PROVE SessionInv
    OBVIOUS
  <1>1. Idle \in OutcomeState /\ Idle.kind = "idle"
    BY DEF Idle, OutcomeState, OutcomeKinds
  <1>2. /\ topology \in TopologyState
        /\ topology.outcome.kind = "idle" /\ topology.accepted = NoRequest
        /\ topology.revision = 0 /\ topology.nextId = 1
    BY <1>1 DEF Init, initialTopologyState, TopologyState
  <1>3. IInv
    BY <1>2 DEF Init, IInv, TypeOK, IdsAreFresh, OpenRequestIsCurrent,
       AppliedOnItsBase, AppliedInOrder, RevisionCountsEdits, AbandonedNeverApplied
  <1>4. PICK a, b : /\ a = [type |-> "param", value |-> DefaultLevel]
                    /\ b = [type |-> "track", value |-> DefaultLevel]
    OBVIOUS
  <1>5. /\ a \in ToWorklet /\ b \in ToWorklet /\ ~IsLoad(a) /\ ~IsLoad(b)
    BY <1>4, SceneAssumption DEF ToWorklet, ControlMessage, IsLoad
  <1>6. /\ toWorklet \in Seq(ToWorklet)
        /\ \A i \in 1..Len(toWorklet) : ~IsLoad(toWorklet[i])
    BY <1>4, <1>5 DEF Init, IsLoad
  <1>7. toMain \in Seq(ToMain) /\ \A i \in 1..Len(toMain) : FALSE
    BY DEF Init
  <1>8. scene \in Scene /\ scene.cables = {}
    BY SceneAssumption DEF Init, Scene
  <1>9. PortTypeOK
    BY <1>6, <1>7, <1>8, SceneAssumption DEF Init, PortTypeOK
  <1>10. ClosedIsQuiet
    BY <1>6, <1>7, <1>8 DEF Init, ClosedIsQuiet, EngineCables
  <1>11. DeadlineIsTheTimers /\ OpenHeadsForItsTarget /\ OpenIsTheLastSent
    BY <1>2 DEF DeadlineIsTheTimers, OpenHeadsForItsTarget, OpenIsTheLastSent, RequestOpen
  <1> QED BY <1>3, <1>9, <1>10, <1>11 DEF SessionInv, EngineInv

LEMMA SessionInvariant == Spec => []SessionInv
  BY InitSessionInv, NextSessionInv, PTL DEF Spec

\* The page, its timer, the two queues and the worklet (session.svelte.ts,
\* processor-impl.js) are one of the environments the transaction protocol
\* allows: every step of theirs is a step of TopologyTransaction or changes
\* nothing of what it speaks about.
THEOREM SessionImplementsTransaction == Spec => TransactionProtocol
  <1>1. Init => Transaction!Init
    BY DEF Init, Transaction!Init, initialTopologyState, Transaction!initialTopologyState,
           Idle, Transaction!Idle
  <1>2. SessionInv /\ [Next]_vars => [Transaction!Next]_(Transaction!vars)
    BY StepsImplement
  <1> QED BY <1>1, <1>2, SessionInvariant, PTL
          DEF Spec, TransactionProtocol, Transaction!Spec

\* The scene of the page took its n-th structural edit on top of exactly the
\* n-1 before it, and none that was given up at its deadline.
THEOREM SessionEditsAreSerial == Spec => [](AppliedOnItsBase /\ AbandonedNeverApplied)
  <1>1. SessionInv => AppliedOnItsBase /\ AbandonedNeverApplied
    BY DEF SessionInv, IInv
  <1> QED BY <1>1, SessionInvariant, PTL

\* After an acceptance, a rejection, a time-out with a late answer or a
\* recovery, as soon as no request is open the engine renders, or will from
\* its next quantum, exactly the cables the page shows.
THEOREM ClosedRequestsAgree == Spec => []EngineHasTheScene
  <1>1. SessionInv => EngineHasTheScene
    BY DEF SessionInv, EngineInv, ClosedIsQuiet, EngineHasTheScene, RequestOpen
  <1> QED BY <1>1, SessionInvariant, PTL

(* The recorder's tracks. *)

\* Which track setting the engine will have once the queue has drained, after
\* a message joins the queue and after one leaves it.
LEMMA LastTrackAfterSend ==
  ASSUME PortTypeOK, NEW m \in ToWorklet, toWorklet' = Append(toWorklet, m),
         engineTrack' = engineTrack
  PROVE  /\ ~IsTrack(m) => \A v \in Level : LastTrackIs(v) => LastTrackIs(v)'
         /\ IsTrack(m) => LastTrackIs(m.value)'
  <1>1. /\ Len(toWorklet) \in Nat /\ Len(toWorklet') = Len(toWorklet) + 1
        /\ \A i \in 1..Len(toWorklet) : toWorklet'[i] = toWorklet[i]
        /\ toWorklet'[Len(toWorklet) + 1] = m
    BY AppendItems DEF PortTypeOK
  <1>2. ASSUME ~IsTrack(m), NEW v \in Level, LastTrackIs(v)
        PROVE  LastTrackIs(v)'
    <2>1. \A i \in 1..Len(toWorklet') :
            IsTrack(toWorklet'[i]) => i \in 1..Len(toWorklet) /\ IsTrack(toWorklet[i])
      BY <1>1, <1>2 DEF IsTrack
    <2>2. CASE engineTrack = v /\ \A i \in 1..Len(toWorklet) : ~IsTrack(toWorklet[i])
      BY <2>1, <2>2 DEF LastTrackIs, IsTrack
    <2>3. ASSUME NEW i \in 1..Len(toWorklet), IsTrack(toWorklet[i]), toWorklet[i].value = v,
                 \A j \in i+1..Len(toWorklet) : ~IsTrack(toWorklet[j])
          PROVE  LastTrackIs(v)'
      <3>1. /\ i \in 1..Len(toWorklet') /\ toWorklet'[i] = toWorklet[i]
            /\ \A j \in i+1..Len(toWorklet') : ~IsTrack(toWorklet'[j])
        BY <1>1, <2>1, <2>3 DEF IsTrack
      <3> QED BY <2>3, <3>1 DEF LastTrackIs, IsTrack
    <2> QED BY <1>2, <2>2, <2>3 DEF LastTrackIs
  <1>3. IsTrack(m) => LastTrackIs(m.value)'
    BY <1>1 DEF LastTrackIs, IsTrack
  <1> QED BY <1>2, <1>3

LEMMA LastTrackAfterTaking ==
  ASSUME PortTypeOK, toWorklet # <<>>, toWorklet' = Tail(toWorklet),
         engineTrack' = IF IsTrack(Head(toWorklet)) THEN Head(toWorklet).value ELSE engineTrack,
         NEW v \in Level, LastTrackIs(v)
  PROVE  LastTrackIs(v)'
  <1>1. /\ Len(toWorklet) \in Nat \ {0} /\ Len(toWorklet') = Len(toWorklet) - 1
        /\ Head(toWorklet) = toWorklet[1] /\ 1 \in 1..Len(toWorklet)
        /\ \A i \in 1..Len(toWorklet') : toWorklet'[i] = toWorklet[i + 1]
    BY TailItems DEF PortTypeOK
  <1>2. \A j \in 1..Len(toWorklet') : j + 1 \in 2..Len(toWorklet)
    BY <1>1
  <1>3. CASE engineTrack = v /\ \A i \in 1..Len(toWorklet) : ~IsTrack(toWorklet[i])
    BY <1>1, <1>2, <1>3 DEF LastTrackIs, IsTrack
  <1>4. ASSUME NEW i \in 1..Len(toWorklet), IsTrack(toWorklet[i]), toWorklet[i].value = v,
               \A j \in i+1..Len(toWorklet) : ~IsTrack(toWorklet[j])
        PROVE  LastTrackIs(v)'
    <2>1. CASE i = 1
      <3>1. engineTrack' = v
        BY <1>1, <1>4, <2>1
      <3>2. \A j \in 1..Len(toWorklet') : ~IsTrack(toWorklet'[j])
        BY <1>1, <1>2, <1>4, <2>1 DEF IsTrack
      <3> QED BY <3>1, <3>2 DEF LastTrackIs, IsTrack
    <2>2. CASE i # 1
      <3>1. i - 1 \in 1..Len(toWorklet') /\ toWorklet'[i - 1] = toWorklet[i]
        BY <1>1, <2>2
      <3>2. ASSUME NEW j \in (i-1)+1..Len(toWorklet')
            PROVE  ~IsTrack(toWorklet'[j])
        <4>1. toWorklet'[j] = toWorklet[j + 1] /\ j + 1 \in i+1..Len(toWorklet)
          BY <1>1, <3>1
        <4> QED BY <1>4, <4>1 DEF IsTrack
      <3> QED BY <1>4, <3>1, <3>2 DEF LastTrackIs, IsTrack
    <2> QED BY <2>1, <2>2
  <1> QED BY <1>3, <1>4 DEF LastTrackIs

\* A step that leaves the queue to the page, the report and the track alone.
LEMMA TracksAlone ==
  ASSUME TracksInv, UNCHANGED <<toMain, lossesDirty, pending>>,
         ReportToCome(1) \/ LastTrackIs(scene.track)'
  PROVE  TracksInv'
  BY DEF TracksInv, ReportToCome, IsReport

\* The page takes the head of its queue: a report still to come still is.
LEMMA TracksAfterReceipt ==
  ASSUME PortTypeOK, TracksInv, toMain # <<>>, toMain' = Tail(toMain),
         UNCHANGED <<lossesDirty, pending>>
  PROVE  /\ ReportToCome(1) => ReportToCome(2) \/ IsReport(Head(toMain))
         /\ Head(toMain).type = "accepted" => ReportToCome(2)
         /\ ReportToCome(2) \/ LastTrackIs(scene.track)' => TracksInv'
  <1>1. /\ Len(toMain) \in Nat \ {0} /\ Len(toMain') = Len(toMain) - 1
        /\ Head(toMain) = toMain[1] /\ 1 \in 1..Len(toMain)
        /\ \A i \in 1..Len(toMain') : toMain'[i] = toMain[i + 1]
    BY TailItems DEF PortTypeOK
  <1>2. \A i \in Nat \ {0} : ReportToCome(i + 1) => ReportToCome(i)'
    <2> SUFFICES ASSUME NEW i \in Nat \ {0}, ~lossesDirty,
                        NEW j \in i+1..Len(toMain), IsReport(toMain[j])
                 PROVE  \E n \in i..Len(toMain') : IsReport(toMain'[n])
      BY DEF ReportToCome, IsReport
    <2>1. j - 1 \in i..Len(toMain') /\ toMain'[j - 1] = toMain[j]
      BY <1>1
    <2> QED BY <2>1 DEF IsReport
  <1>3. /\ ReportToCome(1) => ReportToCome(2) \/ IsReport(Head(toMain))
        /\ Head(toMain).type = "accepted" => ReportToCome(2)
    BY <1>1 DEF TracksInv, ReportToCome, IsReport
  <1>4. \A i \in 1..Len(toMain') : toMain'[i].type = "accepted" => ReportToCome(i + 1)'
    <2> SUFFICES ASSUME NEW i \in 1..Len(toMain'), toMain'[i].type = "accepted"
                 PROVE  ReportToCome(i + 1)'
      OBVIOUS
    <2>1. toMain'[i] = toMain[i + 1] /\ i + 1 \in 1..Len(toMain) /\ i + 1 \in Nat \ {0}
      BY <1>1
    <2>2. ReportToCome(i + 1 + 1)
      BY <2>1 DEF TracksInv
    <2> QED BY <1>2, <2>1, <2>2
  <1>5. ReportToCome(2) => ReportToCome(1)'
    BY <1>2
  <1> QED BY <1>3, <1>4, <1>5 DEF TracksInv

LEMMA NextTracksInv ==
  ASSUME SessionInv, TracksInv, [Next]_vars
  PROVE  TracksInv'
  <1>1. /\ IInv /\ PortTypeOK /\ scene \in Scene /\ scene.track \in Level
        /\ ReportToCome(1) \/ LastTrackIs(scene.track)
    BY DEF SessionInv, EngineInv, PortTypeOK, Scene, TracksInv
  \* A message other than a track joins the queue; the page's track stays.
  <1>2. ASSUME NEW m \in ToWorklet, ~IsTrack(m), toWorklet' = Append(toWorklet, m),
               UNCHANGED <<toMain, engine, report>>, scene'.track = scene.track
        PROVE  TracksInv'
    <2>1. LastTrackIs(scene.track) => LastTrackIs(scene.track)'
      <3>1. \A v \in Level : LastTrackIs(v) => LastTrackIs(v)'
        BY <1>1, <1>2, LastTrackAfterSend DEF engine
      <3> QED BY <1>1, <1>2, <3>1 DEF LastTrackIs
    <2> QED BY <1>1, <1>2, <2>1, TracksAlone DEF engine, report
  <1>3. ASSUME NEW e \in Edits, proposeTopology(e) PROVE TracksInv'
    <2>1. PICK r : Submits(e, r)
      BY <1>3, ProposalSubmits
    <2>2. PICK m : m = LoadPatch(r, ApplyEdit(e, scene))
      OBVIOUS
    <2>3. m \in ToWorklet /\ ~IsTrack(m)
      BY <1>1, <2>1, <2>2, EditedScene, LoadPatchFields DEF Submits
    <2> QED BY <1>2, <2>1, <2>2, <2>3 DEF Submits
  <1>4. CASE recoverTopology
    <2>1. PICK e \in Edits, r \in Request : Submits(e, r)
      BY <1>4, RecoverySubmits DEF Submits
    <2>2. PICK m : m = LoadPatch(r, ApplyEdit(e, scene))
      OBVIOUS
    <2>3. m \in ToWorklet /\ ~IsTrack(m)
      BY <1>1, <2>1, <2>2, EditedScene, LoadPatchFields DEF Submits
    <2> QED BY <1>2, <2>1, <2>2, <2>3 DEF Submits
  <1>5. CASE \/ \E now \in TimerReadings : deadlineTimer(now)
             \/ Resume \/ Hang \/ UNCHANGED vars
    <2>1. UNCHANGED <<scene, toWorklet, toMain, engine, report>>
      BY <1>5 DEF deadlineTimer, Resume, Hang, vars, page
    <2> QED BY <1>1, <2>1, TracksAlone DEF engine, report, LastTrackIs, IsTrack
  <1>6. ASSUME NEW v \in Level, onParamInput(v) PROVE TracksInv'
    <2>1. PICK m : m = [type |-> "param", value |-> v]
      OBVIOUS
    <2>2. m \in ToWorklet /\ ~IsTrack(m)
      BY <2>1 DEF ToWorklet, ControlMessage, IsTrack
    <2>3. scene'.track = scene.track
      BY <1>1, <1>6 DEF onParamInput, Scene
    <2> QED BY <1>2, <1>6, <2>1, <2>2, <2>3 DEF onParamInput
  <1>7. ASSUME NEW v \in Level, setTrack(v) PROVE TracksInv'
    <2>1. PICK m : m = [type |-> "track", value |-> v]
      OBVIOUS
    <2>2. m \in ToWorklet /\ IsTrack(m) /\ m.value = v
      BY <2>1 DEF ToWorklet, ControlMessage, IsTrack
    <2>3. LastTrackIs(m.value)'
      BY <1>1, <1>7, <2>1, <2>2, LastTrackAfterSend DEF setTrack, engine
    <2>4. scene'.track = v
      BY <1>1, <1>7 DEF setTrack, Scene
    <2>5. LastTrackIs(scene.track)'
      BY <2>1, <2>2, <2>3, <2>4 DEF LastTrackIs
    <2> QED BY <1>7, <2>5, TracksAlone DEF setTrack, engine, report
  <1>8. CASE receiveTopology
    <2>1. /\ toMain # <<>> /\ toMain' = Tail(toMain) /\ ~IsReport(Head(toMain))
          /\ UNCHANGED <<lossesDirty, pending, toWorklet, engineTrack>>
      BY <1>8 DEF receiveTopology, engine, report, IsReport
    <2>2. scene' = scene \/ Head(toMain).type = "accepted"
      BY <1>1, <1>8 DEF receiveTopology, receive, Correlates, IInv, TypeOK
    <2>3. scene' = scene => (LastTrackIs(scene.track) => LastTrackIs(scene.track)')
      BY <2>1 DEF LastTrackIs, IsTrack
    <2> QED BY <1>1, <2>1, <2>2, <2>3, TracksAfterReceipt
  <1>9. CASE receiveInstalled
    <2>1. PICK m : m = [type |-> "track", value |-> scene.track]
      OBVIOUS
    <2>2. m \in ToWorklet /\ IsTrack(m) /\ m.value = scene.track
      BY <1>1, <2>1 DEF ToWorklet, ControlMessage, IsTrack
    <2>3. /\ toMain # <<>> /\ toMain' = Tail(toMain) /\ scene' = scene
          /\ UNCHANGED <<lossesDirty, pending, engineTrack>>
          /\ toWorklet' = Append(toWorklet, m)
      BY <1>9, <2>1 DEF receiveInstalled, applyTrackState, page, engine, report
    <2>4. LastTrackIs(m.value)'
      BY <1>1, <2>2, <2>3, LastTrackAfterSend
    <2>5. LastTrackIs(scene.track)'
      BY <2>1, <2>2, <2>3, <2>4 DEF LastTrackIs
    <2> QED BY <1>1, <2>3, <2>5, TracksAfterReceipt
  <1>10. CASE onmessage_loadPatch
    <2>1. PICK m : m = Head(toWorklet)
      OBVIOUS
    <2>2. PICK a : /\ a.type = IF Compiles(m.patch) THEN "accepted" ELSE "rejected"
                   /\ toMain' = Append(toMain, a) /\ toMain \in Seq(ToMain) /\ a \in ToMain
      <3>1. m \in ToWorklet /\ m.request \in Request
        BY <1>1, <1>10, <2>1, TailItems, Messages
           DEF PortTypeOK, onmessage_loadPatch, IsLoad, LoadMessage
      <3> DEFINE reply == [type |-> IF Compiles(m.patch) THEN "accepted" ELSE "rejected",
                           request |-> m.request]
      <3>2. toMain' = Append(toMain, reply)
        BY <1>10, <2>1 DEF onmessage_loadPatch
      <3>3. reply \in ToMain
        BY <3>1 DEF ToMain, Reply
      <3>4. reply.type = IF Compiles(m.patch) THEN "accepted" ELSE "rejected"
        OBVIOUS
      <3> HIDE DEF reply
      <3> QED BY <1>1, <3>2, <3>3, <3>4 DEF PortTypeOK
    <2>3. /\ Len(toMain) \in Nat /\ Len(toMain') = Len(toMain) + 1
          /\ \A i \in 1..Len(toMain) : toMain'[i] = toMain[i]
          /\ toMain'[Len(toMain) + 1] = a
      BY <2>2, AppendItems
    <2>4. /\ toWorklet # <<>> /\ toWorklet' = Tail(toWorklet) /\ ~IsTrack(Head(toWorklet))
          /\ engineTrack' = engineTrack /\ scene' = scene
          /\ IF Compiles(m.patch) THEN lossesDirty' = TRUE
             ELSE UNCHANGED <<pending, lossesDirty>>
      BY <1>10, <2>1 DEF onmessage_loadPatch, page, report, IsTrack
    <2>5. \A i \in Nat \ {0} : ReportToCome(i) => ReportToCome(i)'
      BY <2>3, <2>4 DEF ReportToCome, IsReport
    <2>6. ASSUME NEW i \in 1..Len(toMain'), toMain'[i].type = "accepted"
          PROVE  ReportToCome(i + 1)'
      <3>1. CASE i \in 1..Len(toMain)
        BY <2>3, <2>5, <2>6, <3>1 DEF TracksInv
      <3>2. CASE i = Len(toMain) + 1
        BY <2>2, <2>3, <2>4, <2>6, <3>2 DEF ReportToCome
      <3> QED BY <2>3, <3>1, <3>2
    <2>7. LastTrackIs(scene.track) => LastTrackIs(scene.track)'
      <3>1. \A v \in Level : LastTrackIs(v) => LastTrackIs(v)'
        BY <1>1, <2>4, LastTrackAfterTaking
      <3> QED BY <1>1, <2>4, <3>1 DEF LastTrackIs
    <2> QED BY <1>1, <2>4, <2>5, <2>6, <2>7 DEF TracksInv
  <1>11. CASE onmessage_control
    <2>1. /\ toWorklet # <<>> /\ toWorklet' = Tail(toWorklet) /\ scene' = scene
          /\ engineTrack' = IF IsTrack(Head(toWorklet)) THEN Head(toWorklet).value
                            ELSE engineTrack
          /\ UNCHANGED <<toMain, lossesDirty, pending>>
      BY <1>11 DEF onmessage_control, page, report, IsTrack
    <2>2. \A v \in Level : LastTrackIs(v) => LastTrackIs(v)'
      BY <1>1, <2>1, LastTrackAfterTaking
    <2>3. LastTrackIs(scene.track) => LastTrackIs(scene.track)'
      BY <1>1, <2>1, <2>2 DEF LastTrackIs
    <2> QED BY <1>1, <2>1, <2>3, TracksAlone
  <1>12. CASE process
    <2>1. CASE ~lossesDirty
      <3>1. pending = NoPatch /\ lossesDirty = FALSE
        BY <1>1, <2>1 DEF TracksInv, PortTypeOK
      <3>2. /\ UNCHANGED <<toMain, lossesDirty, toWorklet, engineTrack, pending>>
            /\ scene' = scene
        BY <1>12, <3>1 DEF process, page
      <3>3. LastTrackIs(scene.track) => LastTrackIs(scene.track)'
        BY <3>2 DEF LastTrackIs, IsTrack
      <3> QED BY <1>1, <3>2, <3>3, TracksAlone
    <2>2. CASE lossesDirty
      <3>1. PICK a, b : /\ a = [type |-> "losses"]
                        /\ b = [type |-> "topologyInstalled", request |-> pendingInstall]
        OBVIOUS
      <3>2. /\ a \in ToMain /\ b \in ToMain /\ IsReport(b)
            /\ a.type # "accepted" /\ b.type # "accepted"
        BY <1>1, <3>1 DEF PortTypeOK, ToMain, Report, IsReport
      <3>3. toMain' = toMain \o <<a, b>> /\ toMain \in Seq(ToMain) /\ pending' = NoPatch
        BY <1>1, <1>12, <2>2, <3>1 DEF process, PortTypeOK
      <3>4. /\ Len(toMain) \in Nat /\ Len(toMain') = Len(toMain) + 2
            /\ \A i \in 1..Len(toMain) : toMain'[i] = toMain[i]
            /\ toMain'[Len(toMain) + 1] = a
            /\ toMain'[Len(toMain) + 2] = b
        BY <3>2, <3>3, AppendTwoItems
      <3>5. \A i \in 1..Len(toMain) + 1 : ReportToCome(i)'
        <4> SUFFICES ASSUME NEW i \in 1..Len(toMain) + 1
                     PROVE  ReportToCome(i)'
          OBVIOUS
        <4>1. Len(toMain) + 2 \in i..Len(toMain')
          BY <3>4
        <4> QED BY <3>2, <3>4, <4>1 DEF ReportToCome, IsReport
      <3>6. \A i \in 1..Len(toMain') : toMain'[i].type = "accepted" => i \in 1..Len(toMain)
        BY <3>2, <3>4
      <3>7. ReportToCome(1)'
        BY <3>4, <3>5
      <3>8. \A i \in 1..Len(toMain') : toMain'[i].type = "accepted" => ReportToCome(i + 1)'
        <4> SUFFICES ASSUME NEW i \in 1..Len(toMain)
                     PROVE  ReportToCome(i + 1)'
          BY <3>6
        <4>1. i + 1 \in 1..Len(toMain) + 1
          BY <3>4
        <4> QED BY <3>5, <4>1
      <3> QED BY <3>3, <3>7, <3>8 DEF TracksInv
    <2> QED BY <2>1, <2>2
  <1> QED BY <1>3, <1>4, <1>5, <1>6, <1>7, <1>8, <1>9, <1>10, <1>11, <1>12 DEF Next

\* A recompiled patch boots with its recorder's defaults, and a loaded scene
\* brings its own tracks; the page resends its tracks after every installation
\* (applyTrackState in session.svelte.ts).  So once nothing is in flight the
\* engine's track setting is the page's, whatever swaps came in between.
THEOREM TracksFollowThePage == Spec => []TracksSurviveSwaps
  <1>1. Init => TracksInv
    <2> SUFFICES ASSUME Init PROVE TracksInv
      OBVIOUS
    <2>1. PICK a, b : /\ a = [type |-> "param", value |-> DefaultLevel]
                      /\ b = [type |-> "track", value |-> DefaultLevel]
      OBVIOUS
    <2>2. toWorklet = <<a, b>> /\ IsTrack(b) /\ b.value = scene.track
      BY <2>1 DEF Init, IsTrack
    <2>3. LastTrackIs(scene.track)
      BY <2>2 DEF LastTrackIs
    <2>4. pending = NoPatch /\ toMain = <<>>
      BY DEF Init
    <2> QED BY <2>3, <2>4 DEF TracksInv
  <1>2. SessionInv /\ TracksInv /\ [Next]_vars => TracksInv'
    BY NextTracksInv
  <1>3. TracksInv => TracksSurviveSwaps
    BY DEF TracksInv, TracksSurviveSwaps, NothingInFlight, ReportToCome, LastTrackIs
  <1> QED BY <1>1, <1>2, <1>3, SessionInvariant, PTL DEF Spec
=============================================================================
