---------------------------- MODULE LaneSchedule ----------------------------
(***************************************************************************)
(* compile and process_io at the level of lanes                            *)
(* (crates/engine/src/schedule.rs): the checks, the inference of           *)
(* Conductors, one pool lane per conductor or channel, the step of each    *)
(* lane of each wire, and the interference the cables pick up.             *)
(*                                                                         *)
(* Schedule is what this implements: it sees ports where this sees lanes,  *)
(* and its actions sort the graph here too.  A lane holds a signal: which  *)
(* node put it out, on which of its lanes and in which block, and the      *)
(* interference added to it on the way.                                    *)
(***************************************************************************)
EXTENDS Conductors, FiniteSetsExt, SequencesExt

CONSTANTS
  Broken,      \* graphs with a wire or a tap that does not fit
  NodeCount, PortCount,   \* every graph has so many nodes; no node more ports
  AnalogRate, BlockLen,   \* samples a second, and samples a block
  NoNode,
  MaxBlocks    \* bound: blocks rendered

\* A port's face: its medium and its lanes, one in the air and for events; the
\* rate of a digital one; the room of one for events.
Face ==
  {f \in [domain : {"acoustic", "analog", "digital", "events"},
          lanes : Nat \ {0}, rate : Nat, capacity : Nat] :
     f.domain \in {"acoustic", "events"} => f.lanes = 1}

\* A per-conductor node has one input and one output, in a wire; a balanced
\* input is a receiver's; no other node is heard on more than one conductor.
FacesOfItsKind(node) ==
  /\ node.kind = "inline" <=> node.per_conductor
  /\ node.kind = "inline" =>
       /\ Len(node.in) = 1 /\ Len(node.out) = 1
       /\ node.in[1].domain = "analog" /\ node.out[1].domain = "analog"
  /\ node.kind = "receiver" =>
       Len(node.in) = 1 /\ node.in[1].domain = "analog" /\ node.in[1].lanes = 2
  /\ node.kind \notin {"inline", "receiver"} =>
       \A p \in DOMAIN node.in : node.in[p].domain = "analog" => node.in[p].lanes = 1

ASSUME LanesAssumption ==
  /\ NodeCount \in Nat
  /\ \A g \in Patches :
       /\ DOMAIN g.nodes = 1..NodeCount
       /\ \A n \in 1..NodeCount :
            LET node == g.nodes[n] IN
            /\ node.in \in Seq(Face) /\ node.out \in Seq(Face)
            /\ node.out # <<>> /\ {Len(node.in), Len(node.out)} \subseteq 0..PortCount
            /\ FacesOfItsKind(node)
  /\ \A g \in Broken : WiringFault(g) # NoFault

VARIABLES
  phase,     \* how far compile has come, or its error
  delayed, in_degree, ready, order,   \* as in Schedule
  pools,     \* the lanes of the two pools and the steps of each edge
  powered,   \* the loads that phantom power reaches
  input_pool, output_pool,   \* pool index -> the signal in that lane
  block, primed, pos         \* as in Schedule

sorting == <<delayed, in_degree, ready, order>>
running == <<input_pool, output_pool, block, primed, pos>>
vars == <<patch, inference, phase, sorting, pools, powered, running>>

NodeIds == 1..NodeCount
PortIds == 1..PortCount

-----------------------------------------------------------------------------
(* Lanes.                                                                  *)

Directed(n, dir) == IF dir = "in" THEN patch.nodes[n].in ELSE patch.nodes[n].out

\* lane_count; a lifted node's ports are as wide as it was inferred to be.
LaneCount(n, dir, p) ==
  IF n \in PerConductor THEN m[n] ELSE Directed(n, dir)[p].lanes

\* alloc_lane's two checks of a digital face.
Decimation(face) == AnalogRate \div face.rate
RateIndivisible(face) == face.domain = "digital" /\ AnalogRate % face.rate # 0
BlockLenIndivisible(face) == face.domain = "digital" /\ BlockLen % Decimation(face) # 0

\* What a lane is allocated as: samples of a block, or room for events.
LaneLen(face) ==
  CASE face.domain = "digital" -> BlockLen \div Decimation(face)
    [] face.domain = "events" -> face.capacity
    [] OTHER -> BlockLen

\* The pool of one direction: the lanes in node, port and conductor order.
Pool(dir) ==
  FlattenSeq([n \in NodeIds |-> FlattenSeq([p \in DOMAIN Directed(n, dir) |->
    [k \in 1..LaneCount(n, dir, p) |->
       [node |-> n, port |-> p, lane |-> k, domain |-> Directed(n, dir)[p].domain,
        len |-> LaneLen(Directed(n, dir)[p])]]])])

\* in_port_base and out_port_base: the index before a port's first lane.
Base(pool, n, p) ==
  (CHOOSE i \in DOMAIN pool : pool[i].node = n /\ pool[i].port = p /\ pool[i].lane = 1) - 1

\* A node's slice of a pool, and the index before it (in_offset, out_offset).
Slice(pool, n) == {i \in DOMAIN pool : pool[i].node = n}
Offset(pool, n) == Min(Slice(pool, n)) - 1

\* The faces in the order compile allocates them.
FacesInOrder ==
  FlattenSeq([n \in NodeIds |-> patch.nodes[n].out \o patch.nodes[n].in])

AllocFault ==
  LET bad == {i \in DOMAIN FacesInOrder : \/ RateIndivisible(FacesInOrder[i])
                                          \/ BlockLenIndivisible(FacesInOrder[i])}
  IN  IF bad = {} THEN NoFault
      ELSE IF RateIndivisible(FacesInOrder[Min(bad)]) THEN "RateIndivisible"
      ELSE "BlockLenIndivisible"

\* emit_edge: one step per lane of the destination.  Past the source's own
\* lanes the cold leg is grounded: it reads the last source lane with gain 0.
LanesAcross(e) ==
  IF OutFace(e).domain \in {"analog", "digital"}
  THEN LaneCount(patch.edges[e].to, "in", patch.edges[e].in) ELSE 1
Uncapped(k, src_lanes) == k   \* mutant: the lane past the source's own
Capped(k, src_lanes) == IF k < src_lanes THEN k ELSE src_lanes

EdgeSteps(e, ins, outs) ==
  LET edge == patch.edges[e]
      src_lanes == LaneCount(edge.from, "out", edge.out)
  IN [k \in 1..LanesAcross(e) |->
        [src |-> Base(outs, edge.from, edge.out) + Capped(k, src_lanes),
         dst |-> Base(ins, edge.to, edge.in) + k,
         grounded |-> OutFace(e).domain = "analog" /\ k > src_lanes]]

\* The event inputs that no edge feeds, which the host may.
OpenEventInputs(ins) ==
  {i \in DOMAIN ins :
     ins[i].domain = "events"
     /\ \A e \in Edges : <<patch.edges[e].to, patch.edges[e].in>> # <<ins[i].node, ins[i].port>>}

NoPools == [in |-> <<>>, out |-> <<>>, steps |-> <<>>, event_inputs |-> {}]

-----------------------------------------------------------------------------
(* Interference.  Each edge has a stream of its own, split off in edge     *)
(* order whether it is cabled or not; every conductor of the edge draws    *)
(* from a clone of it.  A draw is known by the edge, its stream, what it   *)
(* is, the block and, after a balanced driver, its sign.                   *)

\* Mutant: a stream for each conductor.
OwnDraw(e, kind, k) ==
  [edge |-> e, stream |-> <<e, k>>, kind |-> kind, block |-> block, sign |-> 1]
Draw(e, kind, k) == [edge |-> e, stream |-> e, kind |-> kind, block |-> block, sign |-> 1]

PickedUp(e, k) ==
  IF OutFace(e).domain # "analog" THEN {}
  ELSE {Draw(e, kind, k) : kind \in patch.edges[e].cable}

Inverted(draws) == {[d EXCEPT !.sign = -d.sign] : d \in draws}

\* What a node lets through to its output lane k (of all its lanes): a balanced
\* driver puts its input on two legs, one inverted; a receiver takes the
\* difference of two; a lifted node works on each leg; any other node mixes.
Through(n, k, heard) ==
  LET mixed == UNION {heard[i] : i \in DOMAIN heard} IN
  CASE patch.nodes[n].kind = "driver" -> IF k = 1 THEN mixed ELSE Inverted(mixed)
    [] patch.nodes[n].kind = "receiver" ->
         (heard[1] \ heard[2]) \cup Inverted(heard[2] \ heard[1])
    [] patch.nodes[n].kind = "inline" -> heard[k]
    [] OTHER -> mixed

\* A lane's signal; block 0 is the silence it is allocated with.
PutOut(n, i, b, draws) == [from |-> n, lane |-> i, block |-> b, picked_up |-> draws]
Silence == [from |-> NoNode, lane |-> 0, block |-> 0, picked_up |-> {}]

-----------------------------------------------------------------------------
(* The view Schedule has of this.                                          *)

\* The graph as Schedule knows it; none for one that has a fault.
PortGraph(g) ==
  IF WiringFault(g) # NoFault THEN <<>>
  ELSE [e \in DOMAIN g.edges |->
          [from |-> g.edges[e].from, to |-> g.edges[e].to, port |-> g.edges[e].in,
           domain |-> OutFaceOf(g, g.edges[e]).domain, delayed |-> g.edges[e].delayed]]

PortGraphs == {PortGraph(g) : g \in Patches \cup Broken}

\* Where a port stands in Schedule: its first lane.
Heard(n, p) ==
  IF pools.in = <<>> \/ p > Len(patch.nodes[n].in)
  THEN [from |-> NoNode, block |-> 0]
  ELSE LET s == input_pool[Base(pools.in, n, p) + 1] IN [from |-> s.from, block |-> s.block]

LastRun(n) ==
  IF pools.out = <<>> THEN 0 ELSE output_pool[Base(pools.out, n, 1) + 1].block

PortPhase ==
  CASE phase \in {"running", "conflict", "cycle"} -> phase
    [] phase \in {"sorting", "PhantomFanIn", "ClockCrossingUnsupported"} -> "sorting"
    [] OTHER -> "wiring"

Ports ==
  INSTANCE Schedule WITH
    Node <- NodeIds,
    Port <- PortIds,
    NoNode <- NoNode,
    Graphs <- PortGraphs,
    BlockBound <- MaxBlocks,
    graph <- PortGraph(patch),
    phase <- PortPhase,
    delayed <- delayed,
    in_degree <- in_degree,
    ready <- ready,
    order <- order,
    input_pool <- [i \in NodeIds \X PortIds |-> Heard(i[1], i[2])],
    output_pool <- [n \in NodeIds |-> LastRun(n)],
    block <- block,
    primed <- primed,
    pos <- pos
-----------------------------------------------------------------------------
(* compile.                                                                *)

Init ==
  /\ patch \in Patches \cup Broken
  /\ InferInit
  /\ phase = "checking"
  /\ delayed = {e \in DOMAIN PortGraph(patch) : patch.edges[e].delayed}
  /\ in_degree = [n \in NodeIds |-> 0] /\ ready = {} /\ order = <<>>
  /\ pools = NoPools /\ powered = {}
  /\ input_pool = <<>> /\ output_pool = <<>>
  /\ block = 1 /\ primed = FALSE /\ pos = 0

\* Steps 1 and 2.
Check ==
  /\ phase = "checking"
  /\ phase' = IF WiringFault(patch) = NoFault THEN "inferring" ELSE WiringFault(patch)
  /\ UNCHANGED <<patch, inference, sorting, pools, powered, running>>

\* Step 3.
InferConductors ==
  /\ phase = "inferring"
  /\ Infer
  /\ phase' = CASE verdict' = "inferring" -> phase
                 [] verdict' = "solved" -> "pooling"
                 [] OTHER -> verdict'
  /\ UNCHANGED <<sorting, pools, powered, running>>

\* Steps 4 and 5b, with the indices step 8 makes of the edges.
Allocate ==
  /\ phase = "pooling"
  /\ AllocFault = NoFault
  /\ LET ins == Pool("in")
         outs == Pool("out")
     IN  /\ pools' = [in |-> ins, out |-> outs,
                      steps |-> [e \in Edges |-> EdgeSteps(e, ins, outs)],
                      event_inputs |-> OpenEventInputs(ins)]
         /\ input_pool' = [i \in DOMAIN ins |-> Silence]
         /\ output_pool' = [i \in DOMAIN outs |-> PutOut(outs[i].node, i, 0, {})]
  /\ phase' = "wiring"
  /\ UNCHANGED <<patch, inference, sorting, powered, block, primed, pos>>

CannotAllocate ==
  /\ phase = "pooling"
  /\ AllocFault # NoFault
  /\ phase' = AllocFault
  /\ UNCHANGED <<patch, inference, sorting, pools, powered, running>>

\* Steps 5, 5c and 6 are Schedule's.
Wired ==
  /\ phase = "wiring"
  /\ phase' = "sorting"
  /\ UNCHANGED <<patch, inference, pools, powered, running>>
  /\ Ports!Wired

InputAlreadyConnected ==
  /\ phase = "wiring"
  /\ phase' = "conflict"
  /\ UNCHANGED <<patch, inference, sorting, pools, powered, running>>
  /\ Ports!InputAlreadyConnected

Sort ==
  /\ phase = "sorting"
  /\ UNCHANGED <<patch, inference, phase, pools, powered, running>>
  /\ \/ \E n \in NodeIds : Ports!Place(n)
     \/ \E e \in Edges : Ports!CutEdge(e)

RejectCycle ==
  /\ phase = "sorting"
  /\ phase' = "cycle"
  /\ UNCHANGED <<patch, inference, sorting, pools, powered, running>>
  /\ Ports!RejectCycle

Sorted == phase = "sorting" /\ ready = {} /\ Ports!EveryNodePlaced

\* Step 7: a digital wire between two rates.
ClockCrossing ==
  \E e \in Edges : OutFace(e).domain = "digital" /\ OutFace(e).rate # InFace(e).rate

RejectClockCrossing ==
  /\ Sorted /\ ClockCrossing
  /\ phase' = "ClockCrossingUnsupported"
  /\ UNCHANGED <<patch, inference, sorting, pools, powered, running>>

\* Step 8b.
RejectPhantomFanIn ==
  /\ Sorted /\ ~ ClockCrossing /\ PhantomFanIn(patch)
  /\ phase' = "PhantomFanIn"
  /\ UNCHANGED <<patch, inference, sorting, pools, powered, running>>

Compiled ==
  /\ Sorted /\ ~ ClockCrossing /\ ~ PhantomFanIn(patch)
  /\ powered' = Powered(patch)
  /\ phase' = "running"
  /\ UNCHANGED <<patch, inference, sorting, pools, running>>

Compile ==
  \/ Check \/ InferConductors \/ Allocate \/ CannotAllocate \/ Wired
  \/ InputAlreadyConnected \/ Sort \/ RejectCycle \/ RejectClockCrossing \/ RejectPhantomFanIn \/ Compiled

-----------------------------------------------------------------------------
(* process_io.                                                             *)

\* EdgeTransform::process and the copies of the other media, on lane k of `e`.
Arrived(e, k, outs) ==
  LET step == pools.steps[e][k]
      sent == outs[step.src]
  IN  IF step.grounded THEN [Silence EXCEPT !.picked_up = PickedUp(e, k)]
      ELSE [sent EXCEPT !.picked_up = @ \cup PickedUp(e, k)]

Carried(edges, outs) ==
  [i \in DOMAIN input_pool |->
     IF \E e \in edges : \E k \in DOMAIN pools.steps[e] : pools.steps[e][k].dst = i
     THEN LET e == CHOOSE e \in edges :
                     \E k \in DOMAIN pools.steps[e] : pools.steps[e][k].dst = i
              k == CHOOSE k \in DOMAIN pools.steps[e] : pools.steps[e][k].dst = i
          IN  Arrived(e, k, outs)
     ELSE input_pool[i]]

RunDelayedSteps ==
  /\ phase = "running" /\ ~ primed
  /\ input_pool' = Carried(delayed, output_pool)
  /\ primed' = TRUE
  /\ UNCHANGED <<patch, inference, phase, sorting, pools, powered, output_pool, block, pos>>

\* Mutant: the delayed edges are copied after their node as well.
EveryEdge(n) == {e \in Edges : patch.edges[e].from = n}
EmittedAfter(n) == {e \in Edges \ delayed : patch.edges[e].from = n}

\* A node's process on its slice of lanes, and its edges' steps.
RunNode ==
  /\ phase = "running" /\ primed /\ pos < Len(order)
  /\ LET n == order[pos + 1]
         heard == [k \in {i - Offset(pools.in, n) : i \in Slice(pools.in, n)} |->
                     input_pool[Offset(pools.in, n) + k].picked_up]
     IN  /\ output_pool' =
              [i \in DOMAIN output_pool |->
                 IF pools.out[i].node # n THEN output_pool[i]
                 ELSE PutOut(n, i, block, Through(n, i - Offset(pools.out, n), heard))]
         /\ input_pool' =
              Carried(EmittedAfter(n), output_pool')
  /\ pos' = pos + 1
  /\ UNCHANGED <<patch, inference, phase, sorting, pools, powered, block, primed>>

EndBlock ==
  /\ phase = "running" /\ primed /\ pos = Len(order)
  /\ block <= MaxBlocks
  /\ block' = block + 1 /\ primed' = FALSE /\ pos' = 0
  /\ UNCHANGED <<patch, inference, phase, sorting, pools, powered, input_pool, output_pool>>

Next == Compile \/ RunDelayedSteps \/ RunNode \/ EndBlock

Spec == Init /\ [][Next]_vars

-----------------------------------------------------------------------------
\* What a port of Schedule sees of its lanes is what Schedule says of it: the
\* detailed schedule implements the schedule of ports.
ImplementsSchedule == Ports!ScheduleSpec

Writers(i) ==
  UNION {{e} \X {k \in DOMAIN pools.steps[e] : pools.steps[e][k].dst = i} : e \in Edges}

Owner(pool, i) == <<pool[i].node, pool[i].port>>

\* Every leg of every wire is served, and no step can panic on the audio thread
\* or reach a lane that is not its own: each joins two lanes of the two ports it
\* was connected to, of one medium and of one length, and every lane has one
\* writer: a wire, or the host.
StepsFit ==
  phase = "running" =>
    /\ \A e \in Edges : DOMAIN pools.steps[e] = 1..ToLanes(m, e)
    /\ \A e \in Edges : \A k \in DOMAIN pools.steps[e] :
         LET step == pools.steps[e][k]
             edge == patch.edges[e]
         IN /\ step.src \in DOMAIN pools.out /\ step.dst \in DOMAIN pools.in
            /\ Owner(pools.out, step.src) = <<edge.from, edge.out>>
            /\ Owner(pools.in, step.dst) = <<edge.to, edge.in>>
            /\ pools.out[step.src].domain = pools.in[step.dst].domain
            /\ pools.out[step.src].domain # "events"
                 => pools.out[step.src].len = pools.in[step.dst].len
    /\ \A i \in DOMAIN pools.in :
         Cardinality(Writers(i)) <= (IF i \in pools.event_inputs THEN 0 ELSE 1)

\* What a balanced line picks up ends at its receiver, through however many
\* inline processors it comes and also when its cold leg is grounded.
BalancedLinesAreQuiet ==
  \A i \in DOMAIN output_pool :
    patch.nodes[pools.out[i].node].kind = "receiver" =>
      \A d \in output_pool[i].picked_up : ToLanes(m, d.edge) = 1
=============================================================================
