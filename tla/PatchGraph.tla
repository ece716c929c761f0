----------------------------- MODULE PatchGraph -----------------------------
(***************************************************************************)
(* The patch graph (crates/engine/src/graph.rs) and what compile           *)
(* (crates/engine/src/schedule.rs) reads off it: whether its wires join    *)
(* ports that exist and carry the same, and which microphones are powered. *)
(*                                                                         *)
(* A graph `g` is a record: `nodes`, each with its faces `in` and `out`;   *)
(* `edges` in the order they were connected, each from port `out` of node  *)
(* `from` to port `in` of node `to`; and the node and port of the `output` *)
(* tap.  Nodes, ports and edges are numbered from 1.                       *)
(***************************************************************************)
EXTENDS Integers, Sequences, FiniteSets

NoFault == "none"

OutFaceOf(g, edge) == g.nodes[edge.from].out[edge.out]
InFaceOf(g, edge) == g.nodes[edge.to].in[edge.in]

-----------------------------------------------------------------------------
(* Building one.                                                           *)

EmptyGraph == [nodes |-> <<>>, edges |-> <<>>, output |-> <<>>]

AddNodes(g, nodes) == [g EXCEPT !.nodes = @ \o nodes]
PushEdges(g, edges) == [g EXCEPT !.edges = @ \o edges]
SetOutput(g, tap) == [g EXCEPT !.output = tap]

\* An edge from the output `src` to the input `dst`, both <<node, port>>.
EdgeFrom(src, dst, cable, delayed) ==
  [from |-> src[1], out |-> src[2], to |-> dst[1], in |-> dst[2],
   cable |-> cable, delayed |-> delayed]

-----------------------------------------------------------------------------
(* Steps 1 and 2 of compile.                                               *)

TapFault(g) ==
  IF g.output = <<>> THEN "NoOutput"
  ELSE IF g.output[1] \notin DOMAIN g.nodes THEN "NodeOutOfRange"
  ELSE IF g.output[2] \notin DOMAIN g.nodes[g.output[1]].out THEN "OutputPortOutOfRange"
  ELSE NoFault

EdgeFault(g, edge) ==
  IF {edge.from, edge.to} \ DOMAIN g.nodes # {} THEN "NodeOutOfRange"
  ELSE IF edge.out \notin DOMAIN g.nodes[edge.from].out THEN "OutputPortOutOfRange"
  ELSE IF edge.in \notin DOMAIN g.nodes[edge.to].in THEN "InputPortOutOfRange"
  ELSE IF OutFaceOf(g, edge).domain # InFaceOf(g, edge).domain THEN "DomainMismatch"
  ELSE NoFault

Faulty(g) == {e \in DOMAIN g.edges : EdgeFault(g, g.edges[e]) # NoFault}

\* What compile says first: of the tap, then of the edges in order.
WiringFault(g) ==
  IF TapFault(g) # NoFault THEN TapFault(g)
  ELSE IF Faulty(g) = {} THEN NoFault
  ELSE EdgeFault(g, g.edges[CHOOSE e \in Faulty(g) : \A f \in Faulty(g) : e <= f])

-----------------------------------------------------------------------------
(* Step 8b, the phantom operating point.  A node names the output ports    *)
(* that draw phantom power in `draws`, the input ports that can supply it  *)
(* in `supplies` and those whose supply is switched on in `engaged`.       *)

AnySupply(g, edge) == edge.in \in g.nodes[edge.to].supplies   \* mutant: switched off, too

EngagedSupply(g, edge) ==
  edge.in \in g.nodes[edge.to].supplies /\ edge.in \in g.nodes[edge.to].engaged

Feeds(g, n, p) ==
  {e \in DOMAIN g.edges :
     g.edges[e].from = n /\ g.edges[e].out = p /\ EngagedSupply(g, g.edges[e])}

Loads(g) == UNION {{<<n, p>> : p \in g.nodes[n].draws} : n \in DOMAIN g.nodes}

\* Two feeds into one load are refused; one powers it, none leaves it at 0 V.
PhantomFanIn(g) == \E l \in Loads(g) : Cardinality(Feeds(g, l[1], l[2])) > 1

Powered(g) == {l \in Loads(g) : Feeds(g, l[1], l[2]) # {}}
=============================================================================
