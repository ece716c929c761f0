------------------------------ MODULE Schedule ------------------------------
(***************************************************************************)
(* compile and the step loop of Schedule::process_io                       *)
(* (crates/engine/src/schedule.rs), with topo_sort and reaches             *)
(* (schedule/topo.rs).                                                     *)
(*                                                                         *)
(* A patch graph may have loops.  compile sorts it topologically; when the *)
(* sort gets stuck it cuts one edge of a loop, an edge of a medium that    *)
(* carries latency, and sorts again.  A cut edge is served at the start of *)
(* a block from what its producer wrote in the block before; every other   *)
(* edge right after its producer ran.  A signal is reduced to where it     *)
(* comes from: a buffer holds the block that wrote it.                     *)
(***************************************************************************)
EXTENDS Integers, Sequences, FiniteSets

CONSTANTS
  Node, Port, NoNode,
  Graphs,     \* the graphs to compile: functions from edge indices to Edge
  BlockBound   \* bound: blocks rendered

Domain == {"acoustic", "analog", "digital", "events"}

\* `delayed` is what the patch declares (connect_delayed).
Edge == [from : Node, to : Node, port : Port, domain : Domain, delayed : BOOLEAN]

ASSUME GraphsAssumption ==
  /\ IsFiniteSet(Node) /\ NoNode \notin Node
  /\ \A g \in Graphs : /\ DOMAIN g \subseteq Nat /\ IsFiniteSet(DOMAIN g)
                       /\ g \in [DOMAIN g -> Edge]
  /\ BlockBound \in Nat

VARIABLES
  graph,
  delayed,      \* the edges that carry a block of latency
  phase,        \* "wiring", "sorting", "running", or the error "conflict", "cycle"
  in_degree, ready, order,   \* the current topological sort
  input_pool,   \* input port -> the producer and block of the signal in it
  output_pool,  \* node -> the block that last wrote its output buffers
  block,        \* the block being rendered
  primed,       \* its delayed steps have run
  pos           \* the nodes of `order` that have run in it

compiling == <<graph, delayed, in_degree, ready, order>>
pools == <<input_pool, output_pool, block, primed, pos>>
scheduleVars == <<compiling, phase, pools>>

-----------------------------------------------------------------------------
EdgeIds == DOMAIN graph
Input(e) == <<graph[e].to, graph[e].port>>

\* The edges the sort respects.
Deps == EdgeIds \ delayed

\* What reaches computes: the nodes one or more dependencies away from `src`
\* are the members of every set that holds its successors and is closed.
Successors(deps, n) == {graph[e].to : e \in {d \in deps : graph[d].from = n}}

Reaches(deps, src, dst) ==
  \A S \in SUBSET Node :
    /\ Successors(deps, src) \subseteq S
    /\ \A n \in S : Successors(deps, n) \subseteq S
    => dst \in S

OnCycle(deps, e) == Reaches(deps, graph[e].to, graph[e].from)

Between(m, n) == {e \in Deps : graph[e].from = m /\ graph[e].to = n}

Silence == [from |-> NoNode, block |-> 0]
Signal(e, b) == [from |-> graph[e].from, block |-> b]

-----------------------------------------------------------------------------
ScheduleInit ==
  /\ graph \in Graphs
  /\ delayed = {e \in DOMAIN graph : graph[e].delayed}
  /\ phase = "wiring"
  /\ in_degree = [n \in Node |-> 0] /\ ready = {} /\ order = <<>>
  /\ input_pool = [i \in Node \X Port |-> Silence]
  /\ output_pool = [n \in Node |-> 0]
  /\ block = 1 /\ primed = FALSE /\ pos = 0

\* topo_sort, first part.  `ready` is a stack in the code, but "order within
\* ready is an implementation detail - any topological order is valid".
StartSort ==
  /\ in_degree' = [n \in Node |-> Cardinality({e \in EdgeIds \ delayed' : graph[e].to = n})]
  /\ ready' = {n \in Node : \A e \in EdgeIds \ delayed' : graph[e].to # n}
  /\ order' = <<>>

\* Two connections into one input port are an error.
Wired ==
  /\ phase = "wiring"
  /\ \A e, f \in EdgeIds : Input(e) = Input(f) => e = f
  /\ phase' = "sorting"
  /\ delayed' = delayed /\ StartSort
  /\ UNCHANGED <<graph, pools>>

InputAlreadyConnected ==
  /\ phase = "wiring"
  /\ \E e, f \in EdgeIds : Input(e) = Input(f) /\ e # f
  /\ phase' = "conflict"
  /\ UNCHANGED <<compiling, pools>>

\* topo_sort, one turn of its loop: every edge to a successor is met, and a
\* successor whose last edge that was becomes ready.
BecomesReady(n) ==
  ready' = (ready \ {n}) \cup
           {m \in Node : Between(n, m) # {} /\ in_degree'[m] = 0}

Place(n) ==
  /\ phase = "sorting"
  /\ n \in ready
  /\ order' = Append(order, n)
  /\ in_degree' = [m \in Node |-> in_degree[m] - Cardinality(Between(n, m))]
  /\ BecomesReady(n)
  /\ UNCHANGED <<graph, delayed, phase, pools>>

\* "Every node placed => acyclic".
EveryNodePlaced == Len(order) = Cardinality(Node)

Stuck == phase = "sorting" /\ ready = {} /\ ~EveryNodePlaced

Breakable(domain) ==
  {e \in Deps : graph[e].domain = domain /\ OnCycle(Deps, e)}

\* Other choices of what to cut: digital links first; none in the air.
DigitalFirst ==
  IF Breakable("digital") # {} THEN Breakable("digital") ELSE Breakable("acoustic")
DigitalOnly == Breakable("digital")

\* The air is preferred to a digital link.
Candidates ==
  IF Breakable("acoustic") # {} THEN Breakable("acoustic") ELSE Breakable("digital")

\* Marks the edge as cut; and a cut that is forgotten.
Forgotten(e) == delayed
Delay(e) == delayed \cup {e}

CutEdge(e) ==
  /\ Stuck
  /\ e \in Candidates /\ \A f \in Candidates : e <= f
  /\ delayed' = Delay(e)
  /\ StartSort
  /\ UNCHANGED <<graph, phase, pools>>

RejectCycle ==
  /\ Stuck
  /\ Candidates = {}
  /\ phase' = "cycle"
  /\ UNCHANGED <<compiling, pools>>

Compiled ==
  /\ phase = "sorting" /\ ready = {} /\ EveryNodePlaced
  /\ phase' = "running"
  /\ UNCHANGED <<compiling, pools>>

-----------------------------------------------------------------------------
Copy(edges) ==
  [i \in Node \X Port |->
     IF \E e \in edges : Input(e) = i
     THEN LET e == CHOOSE e \in edges : Input(e) = i
          IN  Signal(e, output_pool[graph[e].from])
     ELSE input_pool[i]]

RunDelayedSteps ==
  /\ phase = "running" /\ ~primed
  /\ input_pool' = Copy(delayed)
  /\ primed' = TRUE
  /\ UNCHANGED <<compiling, phase, output_pool, block, pos>>

\* The outgoing edges that follow a node in the step list; and a list that
\* copies the delayed ones there too.
AllOutgoing(n) == {e \in EdgeIds : graph[e].from = n}
Outgoing(n) == {e \in Deps : graph[e].from = n}

\* A node step, then the steps of its outgoing edges.
RunNode ==
  /\ phase = "running" /\ primed /\ pos < Len(order)
  /\ LET n == order[pos + 1]
     IN  /\ output_pool' = [output_pool EXCEPT ![n] = block]
         /\ input_pool' =
              [i \in Node \X Port |->
                 IF \E e \in Outgoing(n) : Input(e) = i
                 THEN [from |-> n, block |-> block]
                 ELSE input_pool[i]]
  /\ pos' = pos + 1
  /\ UNCHANGED <<compiling, phase, block, primed>>

EndBlock ==
  /\ phase = "running" /\ primed /\ pos = Len(order)
  /\ block <= BlockBound
  /\ block' = block + 1 /\ primed' = FALSE /\ pos' = 0
  /\ UNCHANGED <<compiling, phase, input_pool, output_pool>>

ScheduleNext ==
  \/ Wired
  \/ InputAlreadyConnected
  \/ \E n \in Node : Place(n)
  \/ \E e \in EdgeIds : CutEdge(e)
  \/ RejectCycle
  \/ Compiled
  \/ RunDelayedSteps
  \/ RunNode
  \/ EndBlock

ScheduleSpec == ScheduleInit /\ [][ScheduleNext]_scheduleVars

\* compile is one synchronous call: it keeps going until it returns.
FairScheduleSpec == ScheduleSpec /\ WF_scheduleVars(ScheduleNext)

-----------------------------------------------------------------------------
\* Types of the compiler's and the schedule's state.
ScheduleTypeOK ==
  /\ DOMAIN graph \subseteq Nat /\ graph \in [DOMAIN graph -> Edge]
  /\ delayed \subseteq EdgeIds
  /\ phase \in {"wiring", "sorting", "running", "conflict", "cycle"}
  /\ in_degree \in [Node -> Nat]
  /\ ready \subseteq Node
  /\ order \in Seq(Node)
  /\ input_pool \in [Node \X Port -> [from : Node \cup {NoNode}, block : Nat]]
  /\ output_pool \in [Node -> Nat]
  /\ block \in Nat /\ pos \in Nat /\ primed \in BOOLEAN

\* What a node must find in an input when it runs.
Expected(e) == Signal(e, IF e \in delayed THEN block - 1 ELSE block)

\* When a node runs, every connected input holds this block's signal of its
\* producer or, over an edge that carries latency, exactly last block's: no
\* path is a block late by accident and none is early.
InputsAreCurrent ==
  phase = "running" /\ primed /\ pos < Len(order) =>
    \A e \in EdgeIds :
      graph[e].to = order[pos + 1] => input_pool[Input(e)] = Expected(e)

\* A set of nodes each of which waits for another one of the set.
WaitsOnItself(deps, S) ==
  S # {} /\ \A n \in S : \E e \in deps : graph[e].to = n /\ graph[e].from \in S

\* A schedule that runs has no feedback within a block: on every loop some
\* edge carries a block of latency.
NoFeedbackWithinABlock ==
  phase = "running" => \A S \in SUBSET Node : ~WaitsOnItself(Deps, S)

\* Latency is added only where the medium has it, by the compiler, or where
\* the patch declares it, and only on a loop of the patch.
CutsAreLatent ==
  \A e \in delayed :
    \/ graph[e].delayed
    \/ graph[e].domain \in {"acoustic", "digital"} /\ OnCycle(EdgeIds, e)

\* A loop through the air is cut in the air: a digital link is delayed only
\* if it is on a loop of the patch that has no acoustic edge.
AirIsCutFirst ==
  \A e \in delayed :
    graph[e].domain = "digital" /\ ~graph[e].delayed
      => OnCycle({d \in EdgeIds : graph[d].domain # "acoustic"}, e)

\* A patch is rejected as a cycle exactly for a loop that has nowhere to carry
\* the latency; every other loop is broken.
Unbreakable(deps) == {e \in deps : graph[e].domain \in {"analog", "events"}
                                   /\ ~graph[e].delayed}

HopelessLoop ==
  \E S \in SUBSET Node : WaitsOnItself(Unbreakable(EdgeIds), S)

OnlyHopelessLoopsAreRejected ==
  /\ phase = "cycle" => HopelessLoop
  /\ phase = "running" => ~HopelessLoop

\* compile returns.
CompileEnds == <>(phase \notin {"wiring", "sorting"})
=============================================================================
