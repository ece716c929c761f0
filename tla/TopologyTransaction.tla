------------------------- MODULE TopologyTransaction -------------------------
(***************************************************************************)
(* What the transaction protocol promises whatever the engine and the      *)
(* channel do: requests go out through the reducer, and any reply to any   *)
(* request ever sent may arrive at any time, late, repeated, out of order, *)
(* or never.  The handler is the session's (#receiveTopology): correlate,  *)
(* apply an accepted edit to the scene, forget it.                         *)
(***************************************************************************)
EXTENDS TopologyHistory

vars == <<topology, requests, applied, abandoned>>

Init ==
  /\ topology = initialTopologyState
  /\ requests = {}
  /\ applied = <<>>
  /\ abandoned = {}

Next ==
  \/ \E e \in Edits : Propose(e)
  \/ Recover
  \/ \E r \in requests, k \in ReplyKinds : Deliver(r, k)
  \/ Timeout

Spec == Init /\ [][Next]_vars

-----------------------------------------------------------------------------
\* A reply decides only the request it answers: an edit is applied by an
\* acceptance that carries its own generation and id, so a late or repeated
\* reply to an obsolete request is inert.
EditsNeedTheirOwnAcceptance ==
  [][\A r \in requests, k \in ReplyKinds :
       Deliver(r, k) /\ applied' # applied
         => k = "accepted" /\ applied'[Len(applied')] = r]_vars
=============================================================================
