----------------------------- MODULE Conductors -----------------------------
(***************************************************************************)
(* infer_conductors (crates/engine/src/schedule.rs): how many conductors   *)
(* the inline processors of a patch have.                                  *)
(*                                                                         *)
(* A port owns lanes: the conductors of an analog port, the channels of a  *)
(* digital one, one for air and for events.  Most nodes fix the lanes of   *)
(* their ports.  A per-conductor node (a DC blocker) takes as many as the  *)
(* wires it is found between: the edges are swept, in the order they were  *)
(* connected, and a known end fixes an unknown one, until a sweep changes  *)
(* nothing.  One turn of the sweep is one action.                          *)
(***************************************************************************)
EXTENDS PatchGraph

CONSTANTS
  Patches   \* the graphs to compile, whose edges already name existing ports

ASSUME PatchesAssumption ==
  \A g \in Patches :
    /\ \A n \in DOMAIN g.nodes :
         /\ g.nodes[n].per_conductor \in BOOLEAN
         /\ \A p \in DOMAIN g.nodes[n].in : g.nodes[n].in[p].lanes \in Nat \ {0}
         /\ \A p \in DOMAIN g.nodes[n].out : g.nodes[n].out[p].lanes \in Nat \ {0}
    /\ Len(g.edges) \in Nat /\ DOMAIN g.edges = 1..Len(g.edges)
    /\ \A e \in DOMAIN g.edges :
         LET edge == g.edges[e] IN
         /\ edge.from \in DOMAIN g.nodes /\ edge.to \in DOMAIN g.nodes
         /\ edge.out \in DOMAIN g.nodes[edge.from].out
         /\ edge.in \in DOMAIN g.nodes[edge.to].in

VARIABLES
  patch,     \* the graph
  m,         \* the multiplicity of each per-conductor node, Unknown until inferred
  at,        \* the edge the sweep is at
  changed,   \* this sweep has inferred something
  verdict    \* "inferring", "solved", or the error "LaneCountMismatch"

inference == <<m, at, changed, verdict>>
inferVars == <<patch, inference>>

Unknown == 0

-----------------------------------------------------------------------------
Nodes == DOMAIN patch.nodes
Edges == DOMAIN patch.edges
PerConductor == {n \in Nodes : patch.nodes[n].per_conductor}

OutFace(e) == OutFaceOf(patch, patch.edges[e])
InFace(e) == InFaceOf(patch, patch.edges[e])

\* port_cond at the two ends of an edge, for multiplicities `mm`.
FromLanes(mm, e) ==
  IF patch.edges[e].from \in PerConductor THEN mm[patch.edges[e].from] ELSE OutFace(e).lanes
ToLanes(mm, e) ==
  IF patch.edges[e].to \in PerConductor THEN mm[patch.edges[e].to] ELSE InFace(e).lanes

\* The grounding edge: an unbalanced plug in a balanced socket.
Grounding(from, to, e) == from = 1 /\ to = 2 /\ OutFace(e).domain = "analog"

InferInit ==
  /\ m = [n \in Nodes |-> Unknown]
  /\ at = 1 /\ changed = FALSE
  /\ verdict = "inferring"

\* Mutant: an inline processor has one conductor unless a later wire says more.
Balanceless(e) ==
  LET from == FromLanes(m, e)
      to == ToLanes(m, e)
  IN  IF from # Unknown /\ to = Unknown THEN [m EXCEPT ![patch.edges[e].to] = 1]
      ELSE IF from = Unknown /\ to # Unknown THEN [m EXCEPT ![patch.edges[e].from] = to]
      ELSE m

\* One known end fixes the other; two known ends, and two unknown, fix nothing.
Inferred(e) ==
  LET from == FromLanes(m, e)
      to == ToLanes(m, e)
  IN  IF from # Unknown /\ to = Unknown THEN [m EXCEPT ![patch.edges[e].to] = from]
      ELSE IF from = Unknown /\ to # Unknown THEN [m EXCEPT ![patch.edges[e].from] = to]
      ELSE m

Clash(e) ==
  LET from == FromLanes(m, e)
      to == ToLanes(m, e)
  IN  from # Unknown /\ to # Unknown /\ from # to /\ ~ Grounding(from, to, e)

Visit ==
  /\ verdict = "inferring" /\ at \in Edges
  /\ ~ Clash(at)
  /\ m' = Inferred(at)
  /\ changed' = (changed \/ m' # m)
  /\ at' = at + 1
  /\ UNCHANGED <<patch, verdict>>

LaneCountMismatch ==
  /\ verdict = "inferring" /\ at \in Edges
  /\ Clash(at)
  /\ verdict' = "LaneCountMismatch"
  /\ UNCHANGED <<patch, m, at, changed>>

SweepAgain ==
  /\ verdict = "inferring" /\ at \notin Edges
  /\ changed
  /\ at' = 1 /\ changed' = FALSE
  /\ UNCHANGED <<patch, m, verdict>>

\* A sweep that changed nothing is the last.  What is still unknown is 1.
Settle ==
  /\ verdict = "inferring" /\ at \notin Edges
  /\ ~ changed
  /\ m' = [n \in Nodes |-> IF m[n] = Unknown THEN 1 ELSE m[n]]
  /\ verdict' = "solved"
  /\ UNCHANGED <<patch, at, changed>>

Infer == Visit \/ LaneCountMismatch \/ SweepAgain \/ Settle

InferSpec == patch \in Patches /\ InferInit /\ [][Infer]_inferVars

-----------------------------------------------------------------------------
\* The types of the inference's state.
InferTypeOK ==
  /\ m \in [Nodes -> Nat]
  /\ at \in 1..(Len(patch.edges) + 1)
  /\ changed \in BOOLEAN
  /\ verdict \in {"inferring", "solved", "LaneCountMismatch"}

\* A choice of multiplicities under which the two ends of every wire are
\* equally wide.
EqualEnds(mm) == \A e \in Edges : FromLanes(mm, e) = ToLanes(mm, e)

\* A patch that can be wired without grounding anything is never refused for
\* its widths, whatever the order its cables were plugged in: what a sweep
\* infers is what every such choice says.
EqualEndsAreAccepted ==
  verdict = "LaneCountMismatch" => ~ \E mm \in [Nodes -> 1..2] : EqualEnds(mm)

\* A choice under which every wire fits, grounding where that helps.
Fits(mm) ==
  \A e \in Edges :
    FromLanes(mm, e) = ToLanes(mm, e) \/ Grounding(FromLanes(mm, e), ToLanes(mm, e), e)

\* A patch that is accepted has only wires with two equally wide ends, and
\* plugs that ground the cold pin of a balanced socket.
WiresFit == verdict = "solved" => Fits(m)
=============================================================================
