---------------------------- MODULE EngineProofs ----------------------------
(***************************************************************************)
(* What renders: the order and the step loop of a compiled patch           *)
(* (Schedule), for every finite patch graph and every number of blocks;    *)
(* and the scene engine's invariants, for every family of scenes, every    *)
(* pair of queue capacities and every block length.                        *)
(***************************************************************************)
EXTENDS Schedule, SceneEngine, FiniteSetTheorems, SequenceTheorems,
        WellFoundedInduction, TLAPS

-----------------------------------------------------------------------------
(* The schedule.                                                           *)

Placed == {order[i] : i \in 1..Len(order)}

\* The edges into a node whose producers are not in the order yet.
Pending(n) == {e \in Deps : graph[e].to = n /\ graph[e].from \notin Placed}

Declared == {e \in EdgeIds : graph[e].delayed}

\* The sort has begun; the wiring is not in conflict.
SortBegun == phase \in {"sorting", "running", "cycle"}

Counted == SortBegun => \A n \in Node : in_degree[n] = Cardinality(Pending(n))

ReadyIsReady ==
  SortBegun => ready = {n \in Node : n \notin Placed /\ Pending(n) = {}}

PlacedOnce ==
  \A i, j \in 1..Len(order) : order[i] = order[j] => i = j

ProducersFirst ==
  \A e \in Deps : \A j \in 1..Len(order) :
    order[j] = graph[e].to => \E i \in 1..(j - 1) : order[i] = graph[e].from

\* A set whose members wait for one another never gets one of them placed.
WaitersWait ==
  \A S \in SUBSET Node : WaitsOnItself(Deps, S) => S \cap Placed = {}

OneWirePerInput ==
  SortBegun => \A e, f \in EdgeIds : Input(e) = Input(f) => e = f

SortInvariant ==
  /\ Counted /\ ReadyIsReady /\ PlacedOnce /\ ProducersFirst /\ WaitersWait
  /\ OneWirePerInput
  /\ Declared \subseteq delayed
  /\ phase \in {"wiring", "conflict"} => order = <<>>
  /\ phase = "running" => Placed = Node

\* The nodes before `pos` have written this block, the others the last one;
\* an input holds its edge's signal once the step that copies it has run.
PoolInvariant ==
  /\ phase # "running" => ~primed /\ block = 1 /\ output_pool = [n \in Node |-> 0]
  /\ block \in Nat \ {0}
  /\ pos \in 0..Len(order)
  /\ ~primed => pos = 0
  /\ \A i \in 1..Len(order) :
       output_pool[order[i]] = IF i <= pos THEN block ELSE block - 1
  /\ primed => \A e \in delayed : input_pool[Input(e)] = Signal(e, block - 1)
  /\ \A e \in Deps : \A i \in 1..pos :
       order[i] = graph[e].from => input_pool[Input(e)] = Signal(e, block)

LatencyInvariant ==
  CutsAreLatent /\ AirIsCutFirst /\ (phase = "cycle" => HopelessLoop)

Typed == ScheduleTypeOK /\ IsFiniteSet(EdgeIds)

ScheduleIInv == Typed /\ SortInvariant /\ PoolInvariant /\ LatencyInvariant

-----------------------------------------------------------------------------
(* Reachability. *)

LEMMA ReachesStep ==
  ASSUME NEW D, NEW d \in D, graph[d].to \in Node
  PROVE  Reaches(D, graph[d].from, graph[d].to)
  BY DEF Reaches, Successors

LEMMA ReachesTransitive ==
  ASSUME NEW D, NEW a, NEW b, NEW c, Reaches(D, a, b), Reaches(D, b, c)
  PROVE  Reaches(D, a, c)
  BY DEF Reaches

LEMMA ReachesMonotone ==
  ASSUME NEW D, NEW E, D \subseteq E, NEW a, NEW b, Reaches(D, a, b)
  PROVE  Reaches(E, a, b)
  <1>1. \A n : Successors(D, n) \subseteq Successors(E, n)
    BY DEF Successors
  <1> QED BY <1>1 DEF Reaches

\* If no edge of D in a medium is on a loop of D, a loop of D does without
\* that medium.
LEMMA LoopAvoids ==
  ASSUME NEW D, \A d \in D : graph[d].from \in Node /\ graph[d].to \in Node,
         NEW medium,
         \A d \in D : graph[d].domain = medium => ~OnCycle(D, d),
         NEW e \in D, OnCycle(D, e)
  PROVE  OnCycle({d \in D : graph[d].domain # medium}, e)
  <1> DEFINE K == {d \in D : graph[d].domain # medium}
             head == graph[e].to
             tail == graph[e].from
  <1> SUFFICES ASSUME NEW S \in SUBSET Node,
                      Successors(K, head) \subseteq S,
                      \A n \in S : Successors(K, n) \subseteq S
               PROVE  tail \in S
    BY DEF OnCycle, Reaches
  <1> DEFINE Ahead == {n \in Node : Reaches(D, head, n)}
             Behind == {n \in Node : n = tail \/ Reaches(D, n, tail)}
             T == (S \cap Ahead) \cup (Node \ Behind)
  <1>1. /\ head \in Node /\ tail \in Node /\ Reaches(D, tail, head)
        /\ Reaches(D, head, tail)
    BY ReachesStep DEF OnCycle
  <1>2. ASSUME NEW d \in D, graph[d].to \in Behind,
               graph[d].from = head \/ graph[d].from \in Ahead
        PROVE  d \in K /\ graph[d].to \in Ahead
    <2>1. Reaches(D, graph[d].from, graph[d].to) /\ graph[d].to \in Node
      BY ReachesStep
    <2>2. Reaches(D, graph[d].to, head)
      BY <1>1, <1>2, ReachesTransitive
    <2>3. Reaches(D, graph[d].to, graph[d].from)
      BY <2>2, <1>2, ReachesTransitive
    <2>4. Reaches(D, head, graph[d].to)
      BY <2>1, <1>2, ReachesTransitive
    <2> QED BY <2>1, <2>3, <2>4 DEF OnCycle
  <1>3. Successors(D, head) \subseteq T
    <2> SUFFICES ASSUME NEW d \in D, graph[d].from = head, graph[d].to \in Behind
                 PROVE  graph[d].to \in T
      BY DEF Successors
    <2>1. d \in K /\ graph[d].to \in Ahead
      BY <1>2
    <2>2. graph[d].to \in S
      BY <2>1 DEF Successors
    <2> QED BY <2>1, <2>2
  <1>4. \A n \in T : Successors(D, n) \subseteq T
    <2> SUFFICES ASSUME NEW d \in D, graph[d].from \in T, graph[d].to \in Behind
                 PROVE  graph[d].to \in T
      BY DEF Successors
    <2>1. graph[d].from \in Behind
      <3>1. Reaches(D, graph[d].from, graph[d].to)
        BY ReachesStep
      <3>2. Reaches(D, graph[d].from, tail)
        BY <3>1, ReachesTransitive
      <3> QED BY <3>2
    <2>2. graph[d].from \in S /\ graph[d].from \in Ahead
      BY ONLY <2>1, graph[d].from \in T
    <2>3. d \in K /\ graph[d].to \in Ahead
      BY <1>2, <2>2
    <2>4. graph[d].to \in S
      BY <2>2, <2>3 DEF Successors
    <2> QED BY <2>3, <2>4
  <1>5. tail \in T
    BY <1>1, <1>3, <1>4, ZenonT(60) DEF Reaches
  <1> QED BY <1>1, <1>5

\* A smallest set of nodes that wait for one another is strongly connected.
LEMMA SmallestWaiters ==
  ASSUME NEW D, NEW S \in SUBSET Node, WaitsOnItself(D, S)
  PROVE  \E M \in SUBSET S :
           /\ WaitsOnItself(D, M)
           /\ \A q, n \in M : Reaches(D, n, q)
  <1> DEFINE Waiters == {W \in SUBSET S : WaitsOnItself(D, W)}
  <1>1. IsFiniteSet(S)
    BY FS_Subset, GraphsAssumption
  <1>2. IsWellFoundedOn(StrictSubsetOrdering(S), SUBSET S)
    BY <1>1, FS_StrictSubsetOrderingWellFounded, FS_FiniteSubsetsOfFinite
  <1>3. Waiters \subseteq SUBSET S /\ Waiters # {}
    OBVIOUS
  <1>4. PICK M \in Waiters : \A W \in Waiters : <<W, M>> \notin StrictSubsetOrdering(S)
    BY <1>2, <1>3, WFMin
  <1>5. \A W \in Waiters : W \subseteq M => W = M
    BY <1>4 DEF StrictSubsetOrdering
  <1>6. ASSUME NEW q \in M, NEW n \in M
        PROVE  Reaches(D, n, q)
    <2> DEFINE A == {x \in M : Reaches(D, x, q)}
    <2>1. A # {}
      <3>1. PICK d \in D : graph[d].to = q /\ graph[d].from \in M
        BY DEF WaitsOnItself
      <3>2. Reaches(D, graph[d].from, q)
        BY <3>1, ReachesStep
      <3> QED BY <3>1, <3>2
    <2>2. ASSUME NEW x \in A
          PROVE  \E d \in D : graph[d].to = x /\ graph[d].from \in A
      <3>1. PICK d \in D : graph[d].to = x /\ graph[d].from \in M
        BY DEF WaitsOnItself
      <3>2. Reaches(D, graph[d].from, x)
        BY <3>1, ReachesStep
      <3>3. Reaches(D, graph[d].from, q)
        BY <3>2, ReachesTransitive
      <3> QED BY <3>1, <3>3
    <2>3. A \in Waiters
      BY <2>1, <2>2 DEF WaitsOnItself
    <2> QED BY <1>5, <2>3
  <1> QED BY <1>6
-----------------------------------------------------------------------------
(* The graph. *)

LEMMA EdgeFacts ==
  ASSUME ScheduleTypeOK, NEW e \in EdgeIds
  PROVE  graph[e] \in Edge /\ graph[e].from \in Node /\ graph[e].to \in Node
         /\ Input(e) \in Node \X Port /\ Signal(e, 0).from \in Node
  BY DEF ScheduleTypeOK, EdgeIds, Edge, Input, Signal

LEMMA PendingFinite ==
  ASSUME Typed, NEW n
  PROVE  IsFiniteSet(Pending(n)) /\ Cardinality(Pending(n)) \in Nat
         /\ (Cardinality(Pending(n)) = 0 <=> Pending(n) = {})
  <1>1. Pending(n) \subseteq EdgeIds
    BY DEF Pending, Deps
  <1> QED BY <1>1, FS_Subset, FS_CardinalityType, FS_EmptySet DEF Typed

-----------------------------------------------------------------------------
(* Starting and restarting the sort. *)

LEMMA StartSortFacts ==
  ASSUME Typed, StartSort, UNCHANGED graph, delayed' \subseteq EdgeIds
  PROVE  /\ Placed' = {} /\ order' = <<>>
         /\ Counted' /\ ReadyIsReady' /\ PlacedOnce' /\ ProducersFirst' /\ WaitersWait'
         /\ in_degree' \in [Node -> Nat] /\ ready' \subseteq Node /\ order' \in Seq(Node)
  <1>1. order' = <<>> /\ Placed' = {}
    BY DEF StartSort, Placed
  <1>2. \A n : Pending(n)' = {e \in EdgeIds \ delayed' : graph[e].to = n}
    BY <1>1 DEF Pending, Deps, EdgeIds
  <1>3. \A n \in Node : in_degree'[n] = Cardinality(Pending(n)')
    BY <1>2 DEF StartSort
  <1>4. \A n : Pending(n)' \subseteq EdgeIds
    BY <1>2
  <1>5. \A n : Cardinality(Pending(n)') \in Nat
    BY <1>4, FS_Subset, FS_CardinalityType DEF Typed
  <1>6. in_degree' \in [Node -> Nat]
    BY <1>2, <1>5 DEF StartSort
  <1>7. ready' = {n \in Node : n \notin Placed' /\ Pending(n)' = {}}
    BY <1>1, <1>2 DEF StartSort
  <1>8. PlacedOnce' /\ ProducersFirst' /\ WaitersWait'
    BY <1>1 DEF PlacedOnce, ProducersFirst, WaitersWait
  <1> QED BY <1>1, <1>3, <1>6, <1>7, <1>8 DEF Counted, ReadyIsReady

-----------------------------------------------------------------------------
(* Placing a node. *)

LEMMA PlaceOrder ==
  ASSUME ScheduleTypeOK, NEW n \in Node, Place(n)
  PROVE  /\ order' \in Seq(Node)
         /\ Len(order') = Len(order) + 1
         /\ \A i \in 1..Len(order) : order'[i] = order[i]
         /\ order'[Len(order) + 1] = n
         /\ Placed' = Placed \cup {n}
         /\ Deps' = Deps
  <1>1. /\ order' \in Seq(Node) /\ Len(order') = Len(order) + 1
        /\ \A i \in 1..Len(order) : order'[i] = order[i]
        /\ order'[Len(order) + 1] = n
    BY DEF ScheduleTypeOK, Place
  <1>2. Len(order) \in Nat /\ 1..Len(order') = 1..Len(order) \cup {Len(order) + 1}
    BY <1>1 DEF ScheduleTypeOK
  <1>3. Placed' = {order'[i] : i \in 1..Len(order')}
    BY DEF Placed
  <1>4. {order'[i] : i \in 1..Len(order')}
          = {order'[i] : i \in 1..Len(order)} \cup {order'[Len(order) + 1]}
    BY <1>2
  <1>5. {order'[i] : i \in 1..Len(order)} = Placed
    BY <1>1 DEF Placed
  <1>6. Placed' = Placed \cup {n}
    BY <1>1, <1>3, <1>4, <1>5
  <1> QED BY <1>1, <1>6 DEF Place, Deps, EdgeIds

LEMMA PlacePending ==
  ASSUME Typed, SortInvariant, NEW n \in Node, Place(n), NEW q \in Node
  PROVE  /\ Between(n, q) \subseteq Pending(q)
         /\ Pending(q)' = Pending(q) \ Between(n, q)
         /\ q = n => Pending(q) = {}
         /\ Between(n, q) # {} => q \notin Placed'
         /\ in_degree'[q] = Cardinality(Pending(q)')
         /\ in_degree'[q] \in Nat
         /\ in_degree'[q] = 0 <=> Pending(q)' = {}
  <1>1. Placed' = Placed \cup {n} /\ Deps' = Deps /\ graph' = graph
    BY PlaceOrder DEF Place, Typed
  <1>2. n \notin Placed /\ Pending(n) = {}
    BY DEF Place, SortInvariant, ReadyIsReady, SortBegun
  <1>3. Between(n, q) \subseteq Pending(q)
    BY <1>2 DEF Between, Pending
  <1>4. Pending(q)' = Pending(q) \ Between(n, q)
    BY <1>1 DEF Between, Pending
  <1>5. ASSUME NEW e \in Between(n, q)
        PROVE  q \notin Placed'
    <2>1. q # n
      BY <1>2, <1>3
    <2>2. ASSUME q \in Placed
          PROVE  FALSE
      <3>1. PICK j \in 1..Len(order) : order[j] = q
        BY <2>2 DEF Placed
      <3>2. PICK i \in 1..(j - 1) : order[i] = n
        BY <3>1 DEF SortInvariant, ProducersFirst, Between
      <3>3. i \in 1..Len(order)
        BY DEF Typed, ScheduleTypeOK
      <3> QED BY <1>2, <3>2, <3>3 DEF Placed
    <2> QED BY <1>1, <2>1, <2>2
  <1>6. /\ Cardinality(Pending(q)') = Cardinality(Pending(q)) - Cardinality(Between(n, q))
        /\ IsFiniteSet(Pending(q)')
    <2>1. Pending(q) \cap Between(n, q) = Between(n, q)
      BY <1>3
    <2>2. IsFiniteSet(Pending(q))
      BY PendingFinite
    <2>3. /\ IsFiniteSet(Pending(q) \ Between(n, q))
          /\ Cardinality(Pending(q) \ Between(n, q))
               = Cardinality(Pending(q)) - Cardinality(Pending(q) \cap Between(n, q))
      BY <2>2, FS_Difference
    <2> QED BY <1>4, <2>1, <2>3
  <1>7. in_degree'[q] = Cardinality(Pending(q)')
    BY <1>6 DEF Place, SortInvariant, Counted, SortBegun
  <1>8. Cardinality(Pending(q)') \in Nat /\ (Cardinality(Pending(q)') = 0 <=> Pending(q)' = {})
    BY <1>6, FS_CardinalityType, FS_EmptySet
  <1> QED BY <1>2, <1>3, <1>4, <1>5, <1>7, <1>8

LEMMA PlaceSorts ==
  ASSUME Typed, SortInvariant, NEW n \in Node, Place(n)
  PROVE  SortInvariant'
  <1> USE DEF SortInvariant
  <1>1. /\ SortBegun /\ SortBegun' /\ phase = "sorting" /\ phase' = "sorting"
        /\ graph' = graph /\ delayed' = delayed /\ EdgeIds' = EdgeIds
    BY DEF Place, SortBegun, EdgeIds
  <1>2. n \notin Placed /\ Pending(n) = {} /\ n \in ready
    BY <1>1 DEF Place, ReadyIsReady
  <1>3. Len(order) \in Nat
    BY DEF Typed, ScheduleTypeOK
  <1>4. Counted'
    BY PlacePending DEF Counted
  <1>5. ReadyIsReady'
    <2>1. ready' \subseteq Node
      BY DEF Place, BecomesReady, Typed, ScheduleTypeOK
    <2>2. ASSUME NEW q \in Node
          PROVE  q \in ready' <=> q \notin Placed' /\ Pending(q)' = {}
      <3>1. CASE Between(n, q) = {}
        <4>1. Pending(q)' = Pending(q)
          BY <3>1, PlacePending
        <4>2. q \in ready' <=> q \in ready /\ q # n
          BY <3>1 DEF Place, BecomesReady
        <4> QED BY <4>1, <4>2, <1>1, PlaceOrder DEF ReadyIsReady, Typed
      <3>2. CASE Between(n, q) # {}
        <4>1. q \notin ready /\ q \notin Placed'
          BY <1>1, <3>2, PlacePending DEF ReadyIsReady
        <4>2. q \in ready' <=> in_degree'[q] = 0
          BY <3>2, <4>1 DEF Place, BecomesReady
        <4> QED BY <4>1, <4>2, PlacePending
      <3> QED BY <3>1, <3>2
    <2> QED BY <2>1, <2>2 DEF ReadyIsReady
  <1>6. PlacedOnce'
    <2> SUFFICES ASSUME NEW i \in 1..Len(order'), NEW j \in 1..Len(order'),
                        order'[i] = order'[j]
                 PROVE  i = j
      BY DEF PlacedOnce
    <2>1. \A k \in 1..Len(order) : order[k] # n
      BY <1>2 DEF Placed
    <2> QED BY <2>1, <1>3, PlaceOrder DEF PlacedOnce, Typed
  <1>7. ProducersFirst'
    <2> SUFFICES ASSUME NEW e \in Deps, NEW j \in 1..Len(order'),
                        order'[j] = graph[e].to
                 PROVE  \E i \in 1..(j - 1) : order'[i] = graph[e].from
      BY <1>1, PlaceOrder DEF ProducersFirst, Typed
    <2>1. CASE j \in 1..Len(order)
      <3>1. PICK i \in 1..(j - 1) : order[i] = graph[e].from
        BY <2>1, PlaceOrder DEF ProducersFirst, Typed
      <3>2. i \in 1..Len(order)
        BY <2>1, <1>3
      <3> QED BY <3>1, <3>2, PlaceOrder DEF Typed
    <2>2. CASE j = Len(order) + 1
      <3>1. graph[e].to = n
        BY <2>2, PlaceOrder DEF Typed
      <3>2. graph[e].from \in Placed
        BY <1>2, <3>1 DEF Pending
      <3>3. PICK i \in 1..Len(order) : order[i] = graph[e].from
        BY <3>2 DEF Placed
      <3>4. i \in 1..(j - 1)
        BY <2>2, <1>3
      <3> QED BY <3>3, <3>4, PlaceOrder DEF Typed
    <2>3. Len(order') = Len(order) + 1
      BY PlaceOrder DEF Typed
    <2> QED BY <2>1, <2>2, <2>3, <1>3
  <1>8. WaitersWait'
    <2> SUFFICES ASSUME NEW S \in SUBSET Node, WaitsOnItself(Deps, S)
                 PROVE  S \cap Placed' = {}
      <3>1. Deps' = Deps /\ graph' = graph
        BY <1>1, PlaceOrder DEF Typed
      <3>2. \A S : WaitsOnItself(Deps, S)' <=> WaitsOnItself(Deps, S)
        BY <3>1 DEF WaitsOnItself
      <3> QED BY <3>1, <3>2 DEF WaitersWait
    <2>1. S \cap Placed = {}
      BY DEF WaitersWait
    <2>2. n \notin S
      BY <2>1, <1>2 DEF WaitsOnItself, Pending
    <2> QED BY <2>1, <2>2, PlaceOrder DEF Typed
  <1>9. OneWirePerInput'
    BY <1>1 DEF OneWirePerInput, Input
  <1>10. Declared' \subseteq delayed'
    BY <1>1 DEF Declared
  <1> QED BY <1>1, <1>4, <1>5, <1>6, <1>7, <1>8, <1>9, <1>10
-----------------------------------------------------------------------------
(* The steps of compile. *)

LEMMA RestartSorts ==
  ASSUME Typed, StartSort, UNCHANGED graph, delayed' \subseteq EdgeIds,
         phase' = "sorting", Declared \subseteq delayed',
         \A e, f \in EdgeIds : Input(e) = Input(f) => e = f
  PROVE  SortInvariant'
  <1>1. Declared' = Declared
    BY DEF Declared, EdgeIds
  <1>2. OneWirePerInput'
    BY DEF OneWirePerInput, Input, EdgeIds
  <1> QED BY <1>1, <1>2, StartSortFacts DEF SortInvariant

LEMMA WiredSorts ==
  ASSUME ScheduleIInv, Wired
  PROVE  SortInvariant'
  BY RestartSorts DEF ScheduleIInv, Wired, SortInvariant, Typed, ScheduleTypeOK

LEMMA CutEdgeSorts ==
  ASSUME ScheduleIInv, NEW e \in EdgeIds, CutEdge(e)
  PROVE  SortInvariant'
  <1>1. delayed' = delayed \cup {e}
    BY DEF CutEdge, Delay
  <1>2. phase' = "sorting" /\ \A f, g \in EdgeIds : Input(f) = Input(g) => f = g
    BY DEF CutEdge, Stuck, ScheduleIInv, SortInvariant, OneWirePerInput, SortBegun
  <1>3. delayed' \subseteq EdgeIds /\ Declared \subseteq delayed'
    BY <1>1 DEF ScheduleIInv, Typed, ScheduleTypeOK, SortInvariant
  <1> QED BY <1>2, <1>3, RestartSorts DEF CutEdge, ScheduleIInv

\* The order is complete when it is as long as the graph has nodes.
LEMMA PlacedCount ==
  ASSUME Typed, PlacedOnce
  PROVE  Placed \in SUBSET Node /\ (EveryNodePlaced <=> Placed = Node)
  <1> DEFINE f == [i \in 1..Len(order) |-> order[i]]
  <1>1. Len(order) \in Nat /\ \A i \in 1..Len(order) : order[i] \in Node
    BY DEF Typed, ScheduleTypeOK
  <1>2. f \in Bijection(1..Len(order), Placed)
    <2>1. f \in [1..Len(order) -> Placed]
      BY DEF Placed
    <2>2. \A i, j \in 1..Len(order) : f[i] = f[j] => i = j
      BY DEF PlacedOnce
    <2>3. \A n \in Placed : \E i \in 1..Len(order) : f[i] = n
      BY DEF Placed
    <2> QED BY <2>1, <2>2, <2>3 DEF Bijection, Injection, Surjection, IsInjective
  <1>3. IsFiniteSet(1..Len(order)) /\ Cardinality(1..Len(order)) = Len(order)
    BY <1>1, FS_Interval
  <1>4. Cardinality(Placed) = Len(order)
    BY <1>2, <1>3, FS_Bijection DEF ExistsBijection
  <1>5. Placed \in SUBSET Node
    BY <1>1 DEF Placed
  <1> QED BY <1>4, <1>5, FS_Subset, GraphsAssumption DEF EveryNodePlaced

\* What is left when the sort is stuck waits on itself.
LEMMA StuckWaits ==
  ASSUME ScheduleIInv, Stuck
  PROVE  WaitsOnItself(Deps, Node \ Placed)
  <1>1. Node \ Placed # {}
    BY PlacedCount DEF ScheduleIInv, SortInvariant, Stuck
  <1>2. ASSUME NEW n \in Node \ Placed
        PROVE  \E d \in Deps : graph[d].to = n /\ graph[d].from \in Node \ Placed
    <2>1. n \notin ready
      BY DEF Stuck
    <2>2. Pending(n) # {}
      BY <2>1 DEF ScheduleIInv, SortInvariant, ReadyIsReady, SortBegun, Stuck
    <2>3. PICK d \in Deps : graph[d].to = n /\ graph[d].from \notin Placed
      BY <2>2 DEF Pending
    <2>4. graph[d].from \in Node
      BY EdgeFacts DEF Deps, ScheduleIInv, Typed
    <2> QED BY <2>3, <2>4
  <1> QED BY <1>1, <1>2 DEF WaitsOnItself

\* A loop that is left when there is nothing to cut is all analog or events.
LEMMA RejectedLoop ==
  ASSUME ScheduleIInv, RejectCycle
  PROVE  HopelessLoop
  <1>1. Stuck /\ Breakable("acoustic") = {} /\ Breakable("digital") = {}
    BY DEF RejectCycle, Candidates
  <1>2. WaitsOnItself(Deps, Node \ Placed)
    BY <1>1, StuckWaits
  <1>3. PICK M \in SUBSET (Node \ Placed) :
          WaitsOnItself(Deps, M) /\ \A q, n \in M : Reaches(Deps, n, q)
    BY <1>2, SmallestWaiters
  <1>4. ASSUME NEW d \in Deps, graph[d].to \in M, graph[d].from \in M
        PROVE  d \in Unbreakable(EdgeIds)
    <2>1. OnCycle(Deps, d)
      BY <1>3, <1>4 DEF OnCycle
    <2>2. graph[d].domain \in Domain
      BY EdgeFacts DEF Deps, Edge, ScheduleIInv, Typed
    <2>3. ~graph[d].delayed
      BY DEF Deps, ScheduleIInv, SortInvariant, Declared
    <2> QED BY <1>1, <2>1, <2>2, <2>3 DEF Breakable, Domain, Unbreakable, Deps
  <1>5. WaitsOnItself(Unbreakable(EdgeIds), M)
    BY <1>3, <1>4 DEF WaitsOnItself
  <1> QED BY <1>5 DEF HopelessLoop
-----------------------------------------------------------------------------
(* Latency. *)

LEMMA DepsBoundary ==
  ASSUME Typed
  PROVE  \A d \in Deps : graph[d].from \in Node /\ graph[d].to \in Node
  BY EdgeFacts DEF Deps, Typed

LEMMA CutEdgeLatency ==
  ASSUME ScheduleIInv, NEW e \in EdgeIds, CutEdge(e)
  PROVE  LatencyInvariant'
  <1>1. delayed' = delayed \cup {e} /\ graph' = graph /\ EdgeIds' = EdgeIds
    BY DEF CutEdge, Delay, EdgeIds
  <1>2. /\ e \in Deps /\ OnCycle(Deps, e)
        /\ graph[e].domain \in {"acoustic", "digital"}
        /\ graph[e].domain = "digital" => Breakable("acoustic") = {}
    BY DEF CutEdge, Candidates, Breakable
  <1>3. Deps \subseteq EdgeIds
    BY DEF Deps
  <1>4. OnCycle(EdgeIds, e)
    BY <1>2, <1>3, ReachesMonotone DEF OnCycle
  <1>5. CutsAreLatent'
    <2> SUFFICES ASSUME NEW d \in delayed \cup {e}
                 PROVE  \/ graph[d].delayed
                        \/ graph[d].domain \in {"acoustic", "digital"} /\ OnCycle(EdgeIds, d)
      BY <1>1 DEF CutsAreLatent, OnCycle, Reaches, Successors
    <2> QED BY <1>2, <1>4 DEF ScheduleIInv, LatencyInvariant, CutsAreLatent
  <1>6. ASSUME graph[e].domain = "digital"
        PROVE  OnCycle({d \in EdgeIds : graph[d].domain # "acoustic"}, e)
    <2>1. \A d \in Deps : graph[d].domain = "acoustic" => ~OnCycle(Deps, d)
      BY <1>2, <1>6 DEF Breakable
    <2>2. OnCycle({d \in Deps : graph[d].domain # "acoustic"}, e)
      BY <1>2, <2>1, DepsBoundary, LoopAvoids DEF ScheduleIInv
    <2>3. {d \in Deps : graph[d].domain # "acoustic"}
            \subseteq {d \in EdgeIds : graph[d].domain # "acoustic"}
      BY <1>3
    <2> QED BY <2>2, <2>3, ReachesMonotone DEF OnCycle
  <1>7. AirIsCutFirst'
    <2> SUFFICES ASSUME NEW d \in delayed \cup {e},
                        graph[d].domain = "digital", ~graph[d].delayed
                 PROVE  OnCycle({c \in EdgeIds : graph[c].domain # "acoustic"}, d)
      BY <1>1 DEF AirIsCutFirst, OnCycle, Reaches, Successors
    <2> QED BY <1>6 DEF ScheduleIInv, LatencyInvariant, AirIsCutFirst
  <1>8. phase' # "cycle"
    BY DEF CutEdge, Stuck
  <1> QED BY <1>5, <1>7, <1>8 DEF LatencyInvariant

LEMMA RejectCycleLatency ==
  ASSUME ScheduleIInv, RejectCycle
  PROVE  LatencyInvariant'
  <1>1. graph' = graph /\ delayed' = delayed
    BY DEF RejectCycle, compiling
  <1>2. HopelessLoop'
    BY <1>1, RejectedLoop DEF HopelessLoop, WaitsOnItself, Unbreakable, EdgeIds
  <1> QED BY <1>1, <1>2
          DEF ScheduleIInv, LatencyInvariant, CutsAreLatent, AirIsCutFirst, OnCycle, Reaches,
              Successors, EdgeIds

\* The other steps add no latency.
LEMMA SameLatency ==
  ASSUME LatencyInvariant, UNCHANGED <<graph, delayed>>, phase' = phase \/ phase' # "cycle"
  PROVE  LatencyInvariant'
  BY DEF LatencyInvariant, CutsAreLatent, AirIsCutFirst, OnCycle, Reaches,
         Successors, EdgeIds, HopelessLoop, WaitsOnItself, Unbreakable
-----------------------------------------------------------------------------
(* The pools. *)

\* Before the first block nothing has run; so whatever the order becomes.
LEMMA PoolsBeforeRunning ==
  ASSUME ScheduleIInv, phase # "running", UNCHANGED pools, order' \in Seq(Node),
         phase' = "running" => order' = order
  PROVE  PoolInvariant'
  <1>1. /\ block = 1 /\ primed = FALSE /\ pos = 0
        /\ output_pool = [n \in Node |-> 0]
    BY DEF ScheduleIInv, PoolInvariant, Typed, ScheduleTypeOK
  <1>2. /\ block' = 1 /\ primed' = FALSE /\ pos' = 0
        /\ output_pool' = [n \in Node |-> 0]
    BY <1>1 DEF pools
  <1>3. Len(order') \in Nat /\ \A i \in 1..Len(order') : order'[i] \in Node
    OBVIOUS
  <1>4. \A i \in 1..Len(order') : output_pool'[order'[i]] = 0
    BY <1>2, <1>3
  <1> QED BY <1>2, <1>3, <1>4 DEF PoolInvariant

LEMMA RunDelayedStepsPools ==
  ASSUME ScheduleIInv, RunDelayedSteps
  PROVE  PoolInvariant'
  <1>1. /\ UNCHANGED <<graph, delayed, order, phase, output_pool, block, pos>>
        /\ phase = "running" /\ pos = 0 /\ primed' = TRUE
        /\ input_pool' = Copy(delayed)
    BY DEF RunDelayedSteps, compiling, ScheduleIInv, PoolInvariant
  <1>2. EdgeIds' = EdgeIds /\ Deps' = Deps /\ \A e : Input(e)' = Input(e)
    BY <1>1 DEF EdgeIds, Deps, Input
  <1>3. ASSUME NEW e \in delayed
        PROVE  input_pool'[Input(e)] = Signal(e, block - 1)
    <2>1. e \in EdgeIds /\ Input(e) \in Node \X Port /\ graph[e].from \in Node
      BY EdgeFacts DEF ScheduleIInv, Typed, ScheduleTypeOK
    <2>2. \A f \in delayed : Input(f) = Input(e) => f = e
      BY <1>1, <2>1 DEF ScheduleIInv, SortInvariant, OneWirePerInput, SortBegun, Typed, ScheduleTypeOK
    <2>3. input_pool'[Input(e)] = Signal(e, output_pool[graph[e].from])
      BY <1>1, <2>1, <2>2 DEF Copy
    <2>4. PICK i \in 1..Len(order) : order[i] = graph[e].from
      BY <1>1, <2>1 DEF ScheduleIInv, SortInvariant, Placed
    <2>5. output_pool[graph[e].from] = block - 1
      BY <1>1, <2>4 DEF ScheduleIInv, PoolInvariant
    <2> QED BY <2>3, <2>5
  <1>4. \A e \in delayed : Signal(e, block - 1)' = Signal(e, block - 1)
    BY <1>1 DEF Signal
  <1>5. \A e \in delayed' : input_pool'[Input(e)'] = Signal(e, block - 1)'
    BY <1>1, <1>2, <1>3, <1>4
  <1> QED BY <1>1, <1>2, <1>5 DEF ScheduleIInv, PoolInvariant

LEMMA RunNodePools ==
  ASSUME ScheduleIInv, RunNode
  PROVE  PoolInvariant'
  <1> DEFINE n == order[pos + 1]
  <1>1. /\ UNCHANGED <<graph, delayed, order, phase, block, primed>>
        /\ phase = "running" /\ primed /\ pos < Len(order) /\ pos' = pos + 1
        /\ output_pool' = [output_pool EXCEPT ![n] = block]
        /\ input_pool' = [i \in Node \X Port |->
                            IF \E e \in Outgoing(n) : Input(e) = i
                            THEN [from |-> n, block |-> block]
                            ELSE input_pool[i]]
    BY DEF RunNode, compiling
  <1>2. /\ EdgeIds' = EdgeIds /\ Deps' = Deps
        /\ \A e : Input(e)' = Input(e)
        /\ \A e, b : graph'[e] = graph[e] /\ [from |-> graph'[e].from, block |-> b]
                                               = Signal(e, b)
    BY <1>1 DEF EdgeIds, Deps, Input, Signal
  <1>3. pos \in Nat /\ Len(order) \in Nat /\ pos + 1 \in 1..Len(order)
    BY <1>1 DEF ScheduleIInv, Typed, ScheduleTypeOK
  <1>4. \A e, f \in EdgeIds : Input(e) = Input(f) => e = f
    BY <1>1 DEF ScheduleIInv, SortInvariant, OneWirePerInput, SortBegun
  <1>5. ASSUME NEW i \in 1..Len(order)
        PROVE  output_pool'[order[i]] = IF i <= pos + 1 THEN block ELSE block - 1
    <2>1. output_pool[order[i]] = IF i <= pos THEN block ELSE block - 1
      BY DEF ScheduleIInv, PoolInvariant
    <2>2. order[i] = n <=> i = pos + 1
      BY <1>3 DEF ScheduleIInv, SortInvariant, PlacedOnce
    <2>3. order[i] \in Node /\ output_pool \in [Node -> Nat]
      BY DEF ScheduleIInv, Typed, ScheduleTypeOK
    <2>4. CASE i = pos + 1
      BY <1>1, <2>2, <2>3, <2>4, <1>3
    <2>5. CASE i # pos + 1
      <3>1. output_pool'[order[i]] = output_pool[order[i]]
        BY <1>1, <2>2, <2>3, <2>5
      <3> QED BY <1>3, <2>1, <2>5, <3>1
    <2> QED BY <2>4, <2>5
  <1>6. ASSUME NEW e \in delayed
        PROVE  input_pool'[Input(e)] = Signal(e, block - 1)
    <2>1. e \in EdgeIds /\ Input(e) \in Node \X Port
      BY EdgeFacts DEF ScheduleIInv, Typed, ScheduleTypeOK
    <2>2. ~\E f \in Outgoing(n) : Input(f) = Input(e)
      BY <1>4, <2>1 DEF Outgoing, Deps
    <2>3. input_pool'[Input(e)] = input_pool[Input(e)]
      BY <1>1, <2>1, <2>2
    <2> QED BY <1>1, <2>3 DEF ScheduleIInv, PoolInvariant
  <1>7. ASSUME NEW e \in Deps, NEW i \in 1..(pos + 1), order[i] = graph[e].from
        PROVE  input_pool'[Input(e)] = Signal(e, block)
    <2>1. e \in EdgeIds /\ Input(e) \in Node \X Port
      BY EdgeFacts DEF Deps, ScheduleIInv, Typed
    <2>2. CASE graph[e].from = n
      <3>1. e \in Outgoing(n)
        BY <2>2 DEF Outgoing
      <3> QED BY <1>1, <2>1, <2>2, <3>1 DEF Signal
    <2>3. CASE graph[e].from # n
      <3>1. ~\E f \in Outgoing(n) : Input(f) = Input(e)
        BY <1>4, <2>1, <2>3 DEF Outgoing, Deps
      <3>2. input_pool'[Input(e)] = input_pool[Input(e)]
        BY <1>1, <2>1, <3>1
      <3>3. i \in 1..pos
        BY <1>3, <1>7, <2>3
      <3>4. input_pool[Input(e)] = Signal(e, block)
        BY <1>7, <3>3 DEF ScheduleIInv, PoolInvariant
      <3> QED BY <3>2, <3>4
    <2> QED BY <2>2, <2>3
  <1>14. \A e, b : Signal(e, b)' = [from |-> graph[e].from, block |-> b']
    BY <1>1 DEF Signal
  <1>15. \A e, b : Signal(e, b) = [from |-> graph[e].from, block |-> b]
    BY DEF Signal
  <1>8. \A e \in delayed' : input_pool'[Input(e)'] = Signal(e, block - 1)'
    <2>1. \A e : Signal(e, block - 1)' = Signal(e, block - 1)
      BY <1>1, <1>14, <1>15
    <2>2. \A e \in delayed : input_pool'[Input(e)] = Signal(e, block - 1)
      BY ONLY <1>6
    <2> QED
      BY ONLY <2>1, <2>2, <1>1, <1>2
  <1>9. \A e \in Deps' : \A i \in 1..pos' :
          order'[i] = graph'[e].from => input_pool'[Input(e)'] = Signal(e, block)'
    <2>1. \A e : Signal(e, block)' = Signal(e, block)
      BY <1>1, <1>14, <1>15
    <2>2. \A e \in Deps : \A i \in 1..(pos + 1) :
            order[i] = graph[e].from => input_pool'[Input(e)] = Signal(e, block)
      BY ONLY <1>7
    <2>3. order' = order /\ pos' = pos + 1 /\ graph' = graph
      BY <1>1
    <2> QED
      BY ONLY <2>1, <2>2, <2>3, <1>2
  <1>10. pos' \in 0..Len(order') /\ (phase' # "running" => FALSE) /\ primed'
    BY <1>1, <1>3
  <1>11. \A i \in 1..Len(order') :
           output_pool'[order'[i]] = IF i <= pos' THEN block' ELSE block' - 1
    BY <1>1, <1>5
  <1>12. block' \in Nat \ {0}
    BY <1>1 DEF ScheduleIInv, PoolInvariant
  <1> QED BY <1>8, <1>9, <1>10, <1>11, <1>12 DEF PoolInvariant

LEMMA EndBlockPools ==
  ASSUME ScheduleIInv, EndBlock
  PROVE  PoolInvariant'
  <1>1. /\ UNCHANGED <<graph, delayed, order, phase, output_pool>>
        /\ phase = "running" /\ pos = Len(order) /\ pos' = 0 /\ primed' = FALSE
        /\ block \in Nat \ {0} /\ block' = block + 1 /\ Len(order) \in Nat
    BY DEF EndBlock, compiling, ScheduleIInv, PoolInvariant, Typed, ScheduleTypeOK
  <1>2. \A i \in 1..Len(order) : output_pool[order[i]] = block
    BY <1>1 DEF ScheduleIInv, PoolInvariant
  <1>3. \A i \in 1..Len(order') :
          output_pool'[order'[i]] = IF i <= pos' THEN block' ELSE block' - 1
    BY <1>1, <1>2
  <1>4. 1..pos' = {}
    BY <1>1
  <1> QED BY <1>1, <1>3, <1>4 DEF PoolInvariant
-----------------------------------------------------------------------------
(* Types. *)

LEMMA SortTyped ==
  ASSUME Typed, StartSort, UNCHANGED graph, UNCHANGED pools,
         phase' \in {"sorting", phase}, delayed' \subseteq EdgeIds
  PROVE  Typed'
  <1>1. /\ in_degree' \in [Node -> Nat] /\ ready' \subseteq Node
        /\ order' \in Seq(Node)
    BY StartSortFacts
  <1> QED BY <1>1 DEF Typed, ScheduleTypeOK, EdgeIds, pools

LEMMA RunTyped ==
  ASSUME ScheduleIInv, RunDelayedSteps \/ RunNode \/ EndBlock
  PROVE  Typed'
  <1>1. UNCHANGED <<graph, delayed, phase, in_degree, ready, order>>
    BY DEF RunDelayedSteps, RunNode, EndBlock, compiling
  <1>2. \A e \in EdgeIds, b \in Nat :
          Signal(e, b) \in [from : Node \cup {NoNode}, block : Nat]
    BY EdgeFacts DEF Signal, ScheduleIInv, Typed
  <1>3. CASE RunDelayedSteps
    <2>1. \A e \in delayed : output_pool[graph[e].from] \in Nat
      BY EdgeFacts DEF ScheduleIInv, Typed, ScheduleTypeOK
    <2>2. ASSUME NEW i \in Node \X Port, \E e \in delayed : Input(e) = i
          PROVE  Copy(delayed)[i] \in [from : Node \cup {NoNode}, block : Nat]
      <3> DEFINE e == CHOOSE e \in delayed : Input(e) = i
      <3>1. e \in delayed /\ e \in EdgeIds
        BY <2>2 DEF ScheduleIInv, Typed, ScheduleTypeOK
      <3>2. Copy(delayed)[i] = Signal(e, output_pool[graph[e].from])
        BY <2>2 DEF Copy
      <3> HIDE DEF e
      <3> QED BY <1>2, <2>1, <3>1, <3>2
    <2>3. ASSUME NEW i \in Node \X Port, ~\E e \in delayed : Input(e) = i
          PROVE  Copy(delayed)[i] \in [from : Node \cup {NoNode}, block : Nat]
      BY <2>3 DEF Copy, ScheduleIInv, Typed, ScheduleTypeOK
    <2>4. Copy(delayed) \in [Node \X Port -> [from : Node \cup {NoNode}, block : Nat]]
      BY <2>2, <2>3 DEF Copy
    <2> QED BY <1>1, <1>3, <2>4 DEF RunDelayedSteps, ScheduleIInv, Typed, ScheduleTypeOK, EdgeIds
  <1>4. CASE RunNode
    <2> DEFINE n == order[pos + 1]
    <2>1. pos + 1 \in 1..Len(order) /\ pos' = pos + 1
      BY <1>4 DEF RunNode, ScheduleIInv, Typed, ScheduleTypeOK
    <2>2. n \in Node
      BY <2>1 DEF ScheduleIInv, Typed, ScheduleTypeOK
    <2>3. output_pool' \in [Node -> Nat]
      BY <1>4, <2>2 DEF RunNode, ScheduleIInv, Typed, ScheduleTypeOK
    <2>4. [from |-> n, block |-> block] \in [from : Node \cup {NoNode}, block : Nat]
      BY <2>2 DEF ScheduleIInv, Typed, ScheduleTypeOK
    <2>5. input_pool' \in [Node \X Port -> [from : Node \cup {NoNode}, block : Nat]]
      BY <1>4, <2>4 DEF RunNode, ScheduleIInv, Typed, ScheduleTypeOK
    <2> QED BY <1>1, <1>4, <2>1, <2>3, <2>5, SMTT(30) DEF RunNode, ScheduleIInv, Typed, ScheduleTypeOK, EdgeIds
  <1>5. CASE EndBlock
    <2>1. block \in Nat
      BY DEF ScheduleIInv, Typed, ScheduleTypeOK
    <2>2. block' \in Nat /\ pos' = 0 /\ primed' = FALSE
      BY <1>5, <2>1 DEF EndBlock
    <2>3. UNCHANGED <<input_pool, output_pool>>
      BY <1>5 DEF EndBlock
    <2> QED BY <1>1, <2>2, <2>3 DEF ScheduleIInv, Typed, ScheduleTypeOK, EdgeIds
  <1> QED BY <1>3, <1>4, <1>5

-----------------------------------------------------------------------------
(* The invariant is inductive. *)

LEMMA InitScheduleIInv == ScheduleInit => ScheduleIInv
  <1> SUFFICES ASSUME ScheduleInit
               PROVE  ScheduleIInv
    OBVIOUS
  <1>1. /\ DOMAIN graph \subseteq Nat /\ IsFiniteSet(DOMAIN graph)
        /\ graph \in [DOMAIN graph -> Edge]
    BY GraphsAssumption DEF ScheduleInit
  <1>2. Silence \in [from : Node \cup {NoNode}, block : Nat]
    BY DEF Silence
  <1>3. /\ in_degree \in [Node -> Nat] /\ output_pool \in [Node -> Nat]
        /\ ready \subseteq Node /\ order \in Seq(Node) /\ delayed \subseteq EdgeIds
    BY DEF ScheduleInit, EdgeIds
  <1>4. input_pool \in [Node \X Port -> [from : Node \cup {NoNode}, block : Nat]]
    BY <1>2 DEF ScheduleInit
  <1>5. Typed
    BY <1>1, <1>3, <1>4 DEF ScheduleInit, Typed, ScheduleTypeOK, EdgeIds
  <1>6. Placed = {} /\ Len(order) = 0
    BY DEF ScheduleInit, Placed
  <1>7. SortInvariant
    BY <1>6 DEF ScheduleInit, SortInvariant, Counted, ReadyIsReady, PlacedOnce, ProducersFirst,
                WaitersWait, OneWirePerInput, SortBegun, Declared, EdgeIds
  <1>8. PoolInvariant
    BY <1>6 DEF ScheduleInit, PoolInvariant
  <1>9. LatencyInvariant
    BY DEF ScheduleInit, LatencyInvariant, CutsAreLatent, AirIsCutFirst, EdgeIds
  <1> QED BY <1>5, <1>7, <1>8, <1>9 DEF ScheduleIInv

\* Steps that only move to another phase keep the sort.
LEMMA SameSort ==
  ASSUME ScheduleIInv, UNCHANGED compiling,
         \/ phase' = phase
         \/ phase = "wiring" /\ phase' = "conflict"
         \/ phase = "sorting" /\ phase' \in {"running", "cycle"},
         phase' = "running" => Placed = Node
  PROVE  SortInvariant'
  <1>1. /\ EdgeIds' = EdgeIds /\ Deps' = Deps /\ Placed' = Placed /\ order' = order
        /\ Declared' = Declared /\ delayed' = delayed /\ graph' = graph
        /\ SortBegun' = SortBegun
    BY DEF compiling, EdgeIds, Deps, Placed, Declared, SortBegun
  <1>2. Counted' /\ ReadyIsReady'
    BY <1>1 DEF ScheduleIInv, SortInvariant, Counted, ReadyIsReady, Pending, compiling
  <1>3. PlacedOnce' /\ ProducersFirst'
    BY <1>1 DEF ScheduleIInv, SortInvariant, PlacedOnce, ProducersFirst
  <1>4. WaitersWait' /\ OneWirePerInput'
    BY <1>1 DEF ScheduleIInv, SortInvariant, WaitersWait, WaitsOnItself, OneWirePerInput, Input
  <1> QED BY <1>1, <1>2, <1>3, <1>4 DEF ScheduleIInv, SortInvariant, SortBegun

LEMMA NextScheduleIInv == ScheduleIInv /\ [ScheduleNext]_scheduleVars => ScheduleIInv'
  <1> SUFFICES ASSUME ScheduleIInv, [ScheduleNext]_scheduleVars
               PROVE  ScheduleIInv'
    OBVIOUS
  <1> USE DEF ScheduleIInv
  <1>1. CASE Wired
    <2>1. /\ phase = "wiring" /\ phase' = "sorting" /\ UNCHANGED <<graph, delayed>>
          /\ UNCHANGED pools
      BY <1>1 DEF Wired
    <2>2. StartSort /\ delayed' \subseteq EdgeIds
      BY <1>1 DEF Wired, Typed, ScheduleTypeOK
    <2>3. Typed'
      BY <2>1, <2>2, SortTyped
    <2>4. PoolInvariant'
      BY <2>1, <2>2, PoolsBeforeRunning, StartSortFacts
    <2> QED BY <1>1, <2>1, <2>3, <2>4, WiredSorts, SameLatency
  <1>2. CASE InputAlreadyConnected
    <2>1. /\ phase = "wiring" /\ phase' = "conflict" /\ UNCHANGED compiling
          /\ UNCHANGED pools /\ UNCHANGED <<graph, delayed, order>>
      BY <1>2 DEF InputAlreadyConnected, compiling
    <2>2. Typed'
      BY <2>1 DEF Typed, ScheduleTypeOK, EdgeIds, compiling, pools
    <2>3. order' \in Seq(Node)
      BY <2>1 DEF Typed, ScheduleTypeOK
    <2> QED BY <2>1, <2>2, <2>3, SameSort, SameLatency, PoolsBeforeRunning
  <1>3. ASSUME NEW n \in Node, Place(n)
        PROVE  ScheduleIInv'
    <2>1. /\ UNCHANGED <<graph, delayed, phase>> /\ UNCHANGED pools /\ phase = "sorting"
      BY <1>3 DEF Place
    <2>2. in_degree' \in [Node -> Nat]
      <3>1. in_degree' = [q \in Node |-> in_degree'[q]]
        BY <1>3 DEF Place
      <3>2. \A q \in Node : in_degree'[q] \in Nat
        BY <1>3, PlacePending
      <3> QED BY <3>1, <3>2
    <2>3. ready' \subseteq Node /\ order' \in Seq(Node)
      BY <1>3, PlaceOrder DEF Place, BecomesReady, Typed, ScheduleTypeOK
    <2>4. Typed'
      BY <2>1, <2>2, <2>3 DEF Typed, ScheduleTypeOK, EdgeIds, pools
    <2> QED BY <1>3, <2>1, <2>3, <2>4, PlaceSorts, SameLatency, PoolsBeforeRunning
  <1>4. ASSUME NEW e \in EdgeIds, CutEdge(e)
        PROVE  ScheduleIInv'
    <2>1. phase = "sorting" /\ UNCHANGED phase /\ UNCHANGED pools
      BY <1>4 DEF CutEdge, Stuck
    <2>2. Typed'
      BY <1>4, SortTyped DEF CutEdge, Stuck, Delay, Typed, ScheduleTypeOK
    <2>3. order' \in Seq(Node)
      BY <2>2 DEF Typed, ScheduleTypeOK
    <2> QED BY <1>4, <2>1, <2>2, <2>3, CutEdgeSorts, CutEdgeLatency, PoolsBeforeRunning
  <1>5. CASE RejectCycle
    <2>1. /\ phase = "sorting" /\ phase' = "cycle" /\ UNCHANGED compiling
          /\ UNCHANGED pools
      BY <1>5 DEF RejectCycle, Stuck
    <2>2. Typed'
      BY <2>1 DEF Typed, ScheduleTypeOK, EdgeIds, compiling, pools
    <2>3. order' \in Seq(Node)
      BY <2>2 DEF Typed, ScheduleTypeOK
    <2> QED BY <1>5, <2>1, <2>2, <2>3, SameSort, RejectCycleLatency, PoolsBeforeRunning
  <1>6. CASE Compiled
    <2>1. /\ phase = "sorting" /\ phase' = "running" /\ UNCHANGED compiling
          /\ UNCHANGED pools /\ EveryNodePlaced /\ UNCHANGED <<graph, delayed, order>>
      BY <1>6 DEF Compiled, compiling
    <2>2. Placed = Node
      BY <2>1, PlacedCount DEF SortInvariant
    <2>3. Typed'
      BY <2>1 DEF Typed, ScheduleTypeOK, EdgeIds, compiling, pools
    <2>4. order' \in Seq(Node)
      BY <2>3 DEF Typed, ScheduleTypeOK
    <2> QED BY <2>1, <2>2, <2>3, <2>4, SameSort, SameLatency, PoolsBeforeRunning
  <1>7. ASSUME RunDelayedSteps \/ RunNode \/ EndBlock
        PROVE  ScheduleIInv'
    <2>1. UNCHANGED compiling /\ UNCHANGED <<graph, delayed, phase>>
      BY <1>7 DEF RunDelayedSteps, RunNode, EndBlock, compiling
    <2>2. SortInvariant'
      BY <2>1, SameSort DEF SortInvariant
    <2>3. PoolInvariant'
      BY <1>7, RunDelayedStepsPools, RunNodePools, EndBlockPools
    <2> QED BY <1>7, <2>1, <2>2, <2>3, RunTyped, SameLatency
  <1>8. CASE UNCHANGED scheduleVars
    <2>1. UNCHANGED compiling /\ UNCHANGED <<graph, delayed, phase>> /\ UNCHANGED pools
      BY <1>8 DEF scheduleVars, compiling
    <2>2. Typed'
      BY <2>1 DEF Typed, ScheduleTypeOK, EdgeIds, compiling, pools
    <2>3. SortInvariant'
      BY <2>1, SameSort DEF SortInvariant
    <2>4. PoolInvariant'
      BY <2>1 DEF PoolInvariant, compiling, pools, EdgeIds, Deps, Input, Signal
    <2> QED BY <2>1, <2>2, <2>3, <2>4, SameLatency
  <1> QED BY <1>1, <1>2, <1>3, <1>4, <1>5, <1>6, <1>7, <1>8 DEF ScheduleNext

LEMMA SpecScheduleIInv == ScheduleSpec => []ScheduleIInv
  BY InitScheduleIInv, NextScheduleIInv, PTL DEF ScheduleSpec

-----------------------------------------------------------------------------
\* The compiler's and the schedule's state is well typed; in_degree never
\* underflows.
THEOREM SpecScheduleTypeOK == ScheduleSpec => []ScheduleTypeOK
  <1>1. ScheduleIInv => ScheduleTypeOK
    BY DEF ScheduleIInv, Typed
  <1> QED BY <1>1, SpecScheduleIInv, PTL

LEMMA SignalsAreCurrent == ScheduleIInv => InputsAreCurrent
  <1> SUFFICES ASSUME ScheduleIInv, phase = "running", primed, pos < Len(order),
                      NEW e \in EdgeIds, graph[e].to = order[pos + 1]
               PROVE  input_pool[Input(e)] = Expected(e)
    BY DEF InputsAreCurrent
  <1>1. CASE e \in delayed
    BY <1>1 DEF ScheduleIInv, PoolInvariant, Expected
  <1>2. CASE e \notin delayed
    <2>1. pos \in Nat /\ Len(order) \in Nat /\ pos + 1 \in 1..Len(order) /\ e \in Deps
      BY <1>2 DEF ScheduleIInv, Typed, ScheduleTypeOK, Deps
    <2>2. PICK i \in 1..((pos + 1) - 1) : order[i] = graph[e].from
      BY <2>1 DEF ScheduleIInv, SortInvariant, ProducersFirst
    <2>3. i \in 1..pos
      BY <2>1
    <2> QED BY <1>2, <2>1, <2>2, <2>3 DEF ScheduleIInv, PoolInvariant, Expected
  <1> QED BY <1>1, <1>2

\* Every node of every compiled patch reads this block's signals, and exactly
\* last block's over the edges that carry latency.
THEOREM SpecInputsAreCurrent == ScheduleSpec => []InputsAreCurrent
  BY SpecScheduleIInv, SignalsAreCurrent, PTL

LEMMA LoopsAreBroken == ScheduleIInv => NoFeedbackWithinABlock
  <1> SUFFICES ASSUME ScheduleIInv, phase = "running", NEW S \in SUBSET Node,
                      WaitsOnItself(Deps, S)
               PROVE  FALSE
    BY DEF NoFeedbackWithinABlock
  <1>1. S \cap Placed = {} /\ Placed = Node
    BY DEF ScheduleIInv, SortInvariant, WaitersWait
  <1> QED BY <1>1 DEF WaitsOnItself

\* A schedule that runs has no feedback within a block.
THEOREM SpecNoFeedbackWithinABlock == ScheduleSpec => []NoFeedbackWithinABlock
  BY SpecScheduleIInv, LoopsAreBroken, PTL

\* Latency is added only on loops, in the air or on a digital link.
THEOREM SpecCutsAreLatent == ScheduleSpec => []CutsAreLatent
  <1>1. ScheduleIInv => CutsAreLatent
    BY DEF ScheduleIInv, LatencyInvariant
  <1> QED BY <1>1, SpecScheduleIInv, PTL

\* A digital link is delayed only on a loop that has no acoustic edge.
THEOREM SpecAirIsCutFirst == ScheduleSpec => []AirIsCutFirst
  <1>1. ScheduleIInv => AirIsCutFirst
    BY DEF ScheduleIInv, LatencyInvariant
  <1> QED BY <1>1, SpecScheduleIInv, PTL

LEMMA RejectionsAreRight == ScheduleIInv => OnlyHopelessLoopsAreRejected
  <1> SUFFICES ASSUME ScheduleIInv
               PROVE  OnlyHopelessLoopsAreRejected
    OBVIOUS
  <1>1. ASSUME phase = "running", NEW S \in SUBSET Node,
               WaitsOnItself(Unbreakable(EdgeIds), S)
        PROVE  FALSE
    <2>1. Unbreakable(EdgeIds) \subseteq Deps
      BY DEF Unbreakable, Deps, ScheduleIInv, LatencyInvariant, CutsAreLatent
    <2>2. WaitsOnItself(Deps, S)
      BY <1>1, <2>1 DEF WaitsOnItself
    <2> QED BY <1>1, <2>2, LoopsAreBroken DEF NoFeedbackWithinABlock
  <1> QED BY <1>1 DEF OnlyHopelessLoopsAreRejected, HopelessLoop, ScheduleIInv, LatencyInvariant

\* A patch is rejected exactly for a loop with nowhere to carry latency.
THEOREM SpecOnlyHopelessLoopsAreRejected == ScheduleSpec => []OnlyHopelessLoopsAreRejected
  BY SpecScheduleIInv, RejectionsAreRight, PTL

-----------------------------------------------------------------------------
(* Pushing a batch.                                                        *)

\* A batch of entries for the smoothers of scene p, totally ordered.
IsBatch(batch, p) ==
  /\ batch \subseteq Entry
  /\ IsFiniteSet(batch)
  /\ \A e \in batch : e.handle \in Handles[p]
  /\ \A e, f \in batch : e.setting = f.setting /\ e.member = f.member => e = f

Stored(queue, batch) == batch \ DroppedFrom(queue, batch)

LEMMA PushAllDomain ==
  ASSUME NEW queue, NEW batch
  PROVE  /\ DOMAIN PushAll(queue, batch)
              = DOMAIN queue \cup HandlesOf(Stored(queue, batch))
         /\ HandlesOf(Stored(queue, batch)) \subseteq HandlesOf(batch)
         /\ \A h \in HandlesOf(batch) :
              h \in HandlesOf(Stored(queue, batch))
                \/ h \in HandlesOf(DroppedFrom(queue, batch))
  BY DEF PushAll, Stored, HandlesOf

\* Handles of the batch that were not dropped take a value from it.
LEMMA PushAllTakes ==
  ASSUME NEW queue, NEW batch, NEW h \in HandlesOf(Stored(queue, batch))
  PROVE  \E e \in batch : e.handle = h /\ PushAll(queue, batch)[h] = e.value
  <1> DEFINE stored == Stored(queue, batch)
             e == CHOOSE x \in stored : x.handle = h
  <1>1. \E x \in stored : x.handle = h
    BY DEF HandlesOf
  <1>2. e \in stored /\ e.handle = h
    BY <1>1
  <1>3. PushAll(queue, batch)[h] = e.value
    BY DEF PushAll, Stored
  <1>4. stored \subseteq batch
    BY DEF Stored
  <1> HIDE DEF stored, e
  <1> QED BY <1>2, <1>3, <1>4

\* The others keep theirs.
LEMMA PushAllKeeps ==
  ASSUME NEW queue, NEW batch, NEW h \in DOMAIN queue,
         h \notin HandlesOf(Stored(queue, batch))
  PROVE  PushAll(queue, batch)[h] = queue[h]
  BY DEF PushAll, Stored

LEMMA PushAllIsAFunction ==
  ASSUME NEW queue, NEW batch
  PROVE  PushAll(queue, batch) =
           [h \in DOMAIN PushAll(queue, batch) |-> PushAll(queue, batch)[h]]
  BY DEF PushAll

\* Pushing typed entries keeps the queue typed and within the scene.
LEMMA PushAllTyped ==
  ASSUME NEW p \in Buildable, NEW Q \in SUBSET Handles[p],
         NEW queue \in [Q -> Value], NEW batch, IsBatch(batch, p)
  PROVE  /\ PushAll(queue, batch) \in [DOMAIN PushAll(queue, batch) -> Value]
         /\ DOMAIN PushAll(queue, batch) \subseteq Handles[p]
  <1>1. \A e \in batch : e.value \in Value /\ e.handle \in Handles[p]
    BY DEF IsBatch, Entry
  <1> DEFINE q == PushAll(queue, batch)
  <1>2. /\ DOMAIN q = DOMAIN queue \cup HandlesOf(Stored(queue, batch))
        /\ HandlesOf(Stored(queue, batch)) \subseteq HandlesOf(batch)
    BY PushAllDomain
  <1>3. q = [h \in DOMAIN q |-> q[h]]
    BY PushAllIsAFunction
  <1> HIDE DEF q
  <1>4. \A h \in DOMAIN q : q[h] \in Value
    <2> SUFFICES ASSUME NEW h \in DOMAIN q PROVE q[h] \in Value
      OBVIOUS
    <2>1. CASE h \in HandlesOf(Stored(queue, batch))
      <3>1. \E e \in batch : e.handle = h /\ q[h] = e.value
        BY <2>1, PushAllTakes DEF q
      <3> QED BY <1>1, <3>1
    <2>2. CASE h \notin HandlesOf(Stored(queue, batch))
      <3>1. h \in DOMAIN queue
        BY <1>2, <2>2
      <3>2. q[h] = queue[h]
        BY <2>2, <3>1, PushAllKeeps DEF q
      <3> QED BY <3>1, <3>2
    <2> QED BY <2>1, <2>2
  <1>5. q \in [DOMAIN q -> Value]
    BY <1>3, <1>4
  <1>6. HandlesOf(batch) \subseteq Handles[p]
    BY <1>1 DEF HandlesOf
  <1>7. DOMAIN q \subseteq Handles[p]
    BY <1>2, <1>6
  <1> QED BY <1>5, <1>7 DEF q

\* A batch never takes the queue past its capacity: the entries kept have
\* distinct ranks below the room that was left.
LEMMA PushAllBounded ==
  ASSUME NEW p \in Buildable, NEW queue, NEW batch, IsBatch(batch, p),
         IsFiniteSet(DOMAIN queue), Cardinality(DOMAIN queue) <= PARAM_QUEUE_CAP
  PROVE  /\ IsFiniteSet(DOMAIN PushAll(queue, batch))
         /\ Cardinality(DOMAIN PushAll(queue, batch)) <= PARAM_QUEUE_CAP
         /\ IsFiniteSet(DroppedFrom(queue, batch))
  <1> DEFINE fresh == Fresh(queue, batch)
             room == PARAM_QUEUE_CAP - Cardinality(DOMAIN queue)
             older(e) == {f \in fresh : Before(f, e)}
             kept == {e \in fresh : Cardinality(older(e)) < room}
  <1>1. /\ room \in Nat /\ Cardinality(DOMAIN queue) \in Nat
        /\ Cardinality(DOMAIN queue) + room = PARAM_QUEUE_CAP
    BY FS_CardinalityType, ConstantsAssumption
  <1>2. /\ \A e \in fresh : e \in batch /\ e.setting \in Nat /\ e.member \in Nat
        /\ \A e, f \in fresh : e.setting = f.setting /\ e.member = f.member => e = f
    BY DEF Fresh, IsBatch, Entry
  <1>3. IsFiniteSet(batch)
    BY DEF IsBatch
  <1>4. fresh \subseteq batch
    BY DEF Fresh
  <1>5. /\ IsFiniteSet(fresh)
        /\ \A S \in SUBSET fresh : IsFiniteSet(S) /\ Cardinality(S) \in Nat
    <2>1. IsFiniteSet(fresh)
      BY <1>3, <1>4, FS_Subset
    <2> HIDE DEF fresh
    <2> QED BY <2>1, FS_Subset, FS_CardinalityType
  <1>6. DroppedFrom(queue, batch) = {e \in fresh : Cardinality(older(e)) >= room}
    BY DEF DroppedFrom
  <1>7. IsFiniteSet(DroppedFrom(queue, batch))
    BY <1>5, <1>6
  <1> HIDE DEF fresh
  <1>8. \A e \in fresh : Cardinality(older(e)) \in Nat
    BY <1>5
  <1>9. kept = fresh \ DroppedFrom(queue, batch)
    BY <1>1, <1>6, <1>8
  <1>10. IsFiniteSet(kept) /\ Cardinality(kept) <= room
    <2> DEFINE rank == [e \in kept |-> Cardinality(older(e))]
    <2>1. rank \in [kept -> 0..(room - 1)]
      BY <1>1, <1>8
    <2>2. ASSUME NEW e \in kept, NEW f \in kept, Before(e, f)
          PROVE  rank[e] < rank[f]
      <3>1. e \in fresh /\ f \in fresh
        OBVIOUS
      <3>2. older(e) \subseteq older(f)
        BY <1>2, <2>2, <3>1 DEF Before
      <3>3. e \in older(f) /\ e \notin older(e)
        BY <1>2, <2>2, <3>1 DEF Before
      <3>4. IsFiniteSet(older(f)) /\ Cardinality(older(f)) \in Nat
            /\ Cardinality(older(e)) \in Nat
        BY <1>5
      <3> HIDE DEF older
      <3>5. Cardinality(older(e)) <= Cardinality(older(f))
            /\ Cardinality(older(e)) # Cardinality(older(f))
        BY <3>2, <3>3, <3>4, FS_Subset
      <3> QED BY <3>4, <3>5
    <2>3. ASSUME NEW e \in kept, NEW f \in kept, e # f
          PROVE  rank[e] # rank[f]
      <3>1. Before(e, f) \/ Before(f, e)
        BY <1>2, <2>3 DEF Before
      <3>2. rank[e] \in Int /\ rank[f] \in Int
        BY <2>1
      <3> HIDE DEF rank, kept
      <3>3. CASE Before(e, f)
        BY <2>2, <3>2, <3>3
      <3>4. CASE Before(f, e)
        BY <2>2, <3>2, <3>4
      <3> QED BY <3>1, <3>3, <3>4
    <2> HIDE DEF rank, kept, room
    <2>4. IsFiniteSet(0..(room - 1)) /\ Cardinality(0..(room - 1)) = room
      <3>1. room - 1 \in Int
        BY <1>1
      <3>2. /\ IsFiniteSet(0..(room - 1))
            /\ Cardinality(0..(room - 1)) = IF 0 > room - 1 THEN 0 ELSE (room - 1) - 0 + 1
        BY <3>1, FS_Interval
      <3> QED BY <1>1, <3>2
    <2>5. rank \in Injection(kept, 0..(room - 1))
      <3>1. DOMAIN rank = kept
        BY <2>1
      <3>2. \A e, f \in kept : rank[e] = rank[f] => e = f
        BY <2>3
      <3>3. IsInjective(rank)
        BY <3>1, <3>2 DEF IsInjective
      <3> QED BY <2>1, <3>3 DEF Injection
    <2> QED BY <2>4, <2>5, FS_Injection
  <1>11. IsFiniteSet(HandlesOf(kept)) /\ Cardinality(HandlesOf(kept)) <= room
    <2> DEFINE f == [e \in kept |-> e.handle]
    <2>1. f \in Surjection(kept, HandlesOf(kept))
      BY DEF Surjection, HandlesOf
    <2> HIDE DEF f, kept, room
    <2>2. IsFiniteSet(HandlesOf(kept)) /\ Cardinality(HandlesOf(kept)) <= Cardinality(kept)
      BY <1>10, <2>1, FS_Surjection
    <2>3. Cardinality(HandlesOf(kept)) \in Nat
      BY <2>2, FS_CardinalityType
    <2>4. Cardinality(kept) \in Nat
      BY <1>10, FS_CardinalityType
    <2> QED BY <1>1, <1>10, <2>2, <2>3, <2>4
  <1>12. DOMAIN PushAll(queue, batch) = DOMAIN queue \cup HandlesOf(kept)
    <2> HIDE DEF kept
    <2>1. HandlesOf(Stored(queue, batch)) \subseteq DOMAIN queue \cup HandlesOf(kept)
      BY <1>9 DEF HandlesOf, Stored, Fresh, fresh
    <2>2. HandlesOf(kept) \subseteq HandlesOf(Stored(queue, batch))
      BY <1>4, <1>9 DEF HandlesOf, Stored
    <2>3. DOMAIN PushAll(queue, batch) = DOMAIN queue \cup HandlesOf(Stored(queue, batch))
      BY PushAllDomain
    <2> QED BY <2>1, <2>2, <2>3
  <1> HIDE DEF kept, room
  <1>13. /\ IsFiniteSet(DOMAIN queue \cup HandlesOf(kept))
         /\ Cardinality(DOMAIN queue \cup HandlesOf(kept))
              <= Cardinality(DOMAIN queue) + Cardinality(HandlesOf(kept))
    <2>1. IsFiniteSet(DOMAIN queue \cap HandlesOf(kept))
      BY <1>11, FS_Subset
    <2>2. Cardinality(DOMAIN queue \cap HandlesOf(kept)) \in Nat
      BY <2>1, FS_CardinalityType
    <2>3. Cardinality(HandlesOf(kept)) \in Nat
      BY <1>11, FS_CardinalityType
    <2> QED BY <1>1, <1>11, <2>2, <2>3, FS_Union
  <1>14. Cardinality(DOMAIN queue \cup HandlesOf(kept)) <= PARAM_QUEUE_CAP
    <2>1. /\ Cardinality(HandlesOf(kept)) \in Nat
          /\ Cardinality(DOMAIN queue \cup HandlesOf(kept)) \in Nat
      BY <1>11, <1>13, FS_CardinalityType
    <2> QED BY <1>1, <1>11, <1>13, <2>1, ConstantsAssumption
  <1> QED BY <1>7, <1>12, <1>13, <1>14

LEMMA EmptyQueueTyped ==
  /\ DOMAIN EmptyQueue = {}
  /\ EmptyQueue \in [DOMAIN EmptyQueue -> Value]
  <1>1. EmptyQueue \in [{} -> Value]
    BY DEF EmptyQueue
  <1>2. DOMAIN EmptyQueue = {}
    BY DEF EmptyQueue
  <1> QED BY <1>1, <1>2

-----------------------------------------------------------------------------
(* The batches the code pushes.                                            *)

LEMMA SettingsTyped ==
  ASSUME NEW p \in Buildable
  PROVE  /\ DOMAIN Settings[p] = 1..Len(Settings[p]) /\ Len(Settings[p]) \in Nat
         /\ \A s \in DOMAIN Settings[p] :
              /\ Settings[p][s].device \in Device /\ Settings[p][s].id \in ParamId
              /\ Settings[p][s].value \in Value /\ s \in Nat
  <1> DEFINE saved == Settings[p]
  <1>1. saved \in Seq([device : Device, id : ParamId, value : Value])
    BY SettingsAssumption
  <1> HIDE DEF saved
  <1>2. DOMAIN saved = 1..Len(saved) /\ Len(saved) \in Nat
    BY <1>1
  <1>3. ASSUME NEW s \in DOMAIN saved
        PROVE  /\ saved[s].device \in Device /\ saved[s].id \in ParamId
               /\ saved[s].value \in Value /\ s \in Nat
    <2>1. s \in 1..Len(saved)
      BY <1>2
    <2>2. saved[s] \in [device : Device, id : ParamId, value : Value]
      BY <1>1, <2>1, ElementOfSeq
    <2> QED BY <1>2, <2>1, <2>2
  <1> QED BY <1>2, <1>3 DEF saved

LEMMA FanFacts ==
  ASSUME NEW p \in Buildable, NEW d \in Device, NEW k \in ParamId,
         NEW s \in Nat, NEW v \in Value
  PROVE  /\ IsBatch(Fan(p, d, k, s, v), p)
         /\ \A e \in Fan(p, d, k, s, v) :
              /\ e.setting = s /\ e.value = v
              /\ \E i \in DOMAIN ParamHandles[p][d][k] :
                   e.handle = ParamHandles[p][d][k][i]
         /\ HandlesOf(Fan(p, d, k, s, v))
              = {ParamHandles[p][d][k][i] : i \in DOMAIN ParamHandles[p][d][k]}
  <1> DEFINE group == ParamHandles[p][d][k]
             entry(i) == [setting |-> s, member |-> i, handle |-> group[i], value |-> v]
             fan == Fan(p, d, k, s, v)
  <1>1. group \in Seq(Nat) /\ \A i \in DOMAIN group : group[i] \in Handles[p]
    BY HandlesAssumption
  <1>2. DOMAIN group = 1..Len(group) /\ Len(group) \in Nat
    BY <1>1
  <1>3. fan = {entry(i) : i \in DOMAIN group}
    BY DEF Fan
  <1>4. \A i \in DOMAIN group : entry(i) \in Entry
    BY <1>1, <1>2 DEF Entry
  <1>5. IsFiniteSet(fan)
    <2> DEFINE f == [i \in 1..Len(group) |-> entry(i)]
    <2>1. f \in Surjection(1..Len(group), fan)
      <3>1. f \in [1..Len(group) -> fan]
        BY <1>2, <1>3
      <3>2. \A e \in fan : \E i \in 1..Len(group) : f[i] = e
        BY <1>2, <1>3
      <3> QED BY <3>1, <3>2 DEF Surjection
    <2>2. IsFiniteSet(1..Len(group))
      <3>1. 1 \in Int /\ Len(group) \in Int
        BY ONLY <1>2
      <3> QED
        BY ONLY <3>1, FS_Interval
    <2> HIDE DEF f, fan
    <2> QED BY <2>1, <2>2, FS_Surjection
  <1>6. \A e \in fan : \E i \in DOMAIN group :
          /\ e.setting = s /\ e.value = v /\ e.member = i /\ e.handle = group[i]
          /\ e = entry(i)
    BY <1>3
  <1>7. fan \subseteq Entry
    BY <1>3, <1>4
  <1>8. HandlesOf(fan) = {group[i] : i \in DOMAIN group}
    <2>1. \A i \in DOMAIN group : entry(i) \in fan /\ entry(i).handle = group[i]
      BY <1>3
    <2> HIDE DEF fan, group, entry
    <2> QED BY <1>6, <2>1 DEF HandlesOf
  <1> HIDE DEF fan, group
  <1>9. IsBatch(fan, p)
    BY <1>1, <1>5, <1>6, <1>7, SMTT(30) DEF IsBatch
  <1> QED BY <1>6, <1>8, <1>9 DEF fan, group

LEMMA InitialParamsFacts ==
  ASSUME NEW p \in Buildable
  PROVE  /\ IsBatch(initial_params(p), p)
         /\ \A e \in initial_params(p) : \E s \in DOMAIN Settings[p] :
              /\ e.value = Settings[p][s].value
              /\ \E i \in DOMAIN ParamHandles[p][Settings[p][s].device][Settings[p][s].id] :
                   e.handle = ParamHandles[p][Settings[p][s].device][Settings[p][s].id][i]
         /\ \A s \in DOMAIN Settings[p] :
              \A i \in DOMAIN ParamHandles[p][Settings[p][s].device][Settings[p][s].id] :
                ParamHandles[p][Settings[p][s].device][Settings[p][s].id][i]
                  \in HandlesOf(initial_params(p))
  <1> DEFINE saved == Settings[p]
             fan(s) == Fan(p, saved[s].device, saved[s].id, s, saved[s].value)
             fans == {fan(s) : s \in DOMAIN saved}
             group(s) == ParamHandles[p][saved[s].device][saved[s].id]
  <1>1. DOMAIN saved = 1..Len(saved) /\ Len(saved) \in Nat
    BY SettingsTyped
  <1>2. \A s \in DOMAIN saved : /\ saved[s].device \in Device /\ saved[s].id \in ParamId
                               /\ saved[s].value \in Value /\ s \in Nat
    BY SettingsTyped
  <1>3. initial_params(p) = UNION fans
    BY DEF initial_params
  <1>4. ASSUME NEW s \in DOMAIN saved
        PROVE  /\ IsBatch(fan(s), p)
               /\ \A e \in fan(s) : /\ e.setting = s /\ e.value = saved[s].value
                                    /\ \E i \in DOMAIN group(s) : e.handle = group(s)[i]
               /\ HandlesOf(fan(s)) = {group(s)[i] : i \in DOMAIN group(s)}
    BY <1>2, FanFacts
  <1>5. IsFiniteSet(UNION fans)
    <2> DEFINE f == [s \in 1..Len(saved) |-> fan(s)]
    <2>1. f \in Surjection(1..Len(saved), fans)
      <3>1. f \in [1..Len(saved) -> fans]
        BY <1>1
      <3>2. \A x \in fans : \E s \in 1..Len(saved) : f[s] = x
        BY <1>1
      <3> QED BY <3>1, <3>2 DEF Surjection
    <2>2. IsFiniteSet(1..Len(saved))
      <3> HIDE DEF saved
      <3> QED BY <1>1, FS_Interval, SMTT(30)
    <2>3. \A x \in fans : IsFiniteSet(x)
      BY <1>4 DEF IsBatch
    <2> HIDE DEF f, fans
    <2>4. IsFiniteSet(fans)
      BY <2>1, <2>2, FS_Surjection
    <2> QED BY <2>3, <2>4, FS_UNION
  <1> HIDE DEF fan
  <1>6. \A e : e \in UNION fans <=> \E s \in DOMAIN saved : e \in fan(s)
    OBVIOUS
  <1>7. IsBatch(UNION fans, p)
    <2>1. ASSUME NEW e \in UNION fans, NEW f \in UNION fans,
                 e.setting = f.setting, e.member = f.member
          PROVE  e = f
      <3>1. PICK s \in DOMAIN saved : e \in fan(s)
        BY <1>6
      <3>2. PICK t \in DOMAIN saved : f \in fan(t)
        BY <1>6
      <3>3. s = t
        BY <1>4, <2>1, <3>1, <3>2
      <3> QED BY <1>4, <2>1, <3>1, <3>2, <3>3 DEF IsBatch
    <2>2. \A e \in UNION fans : e \in Entry /\ e.handle \in Handles[p]
      BY <1>4, <1>6, SMTT(30) DEF IsBatch
    <2> QED BY <1>5, <2>1, <2>2 DEF IsBatch
  <1>8. \A e \in UNION fans : \E s \in DOMAIN saved :
          /\ e.value = saved[s].value
          /\ \E i \in DOMAIN group(s) : e.handle = group(s)[i]
    BY <1>4, <1>6
  <1>9. \A s \in DOMAIN saved : \A i \in DOMAIN group(s) :
          group(s)[i] \in HandlesOf(UNION fans)
    <2> SUFFICES ASSUME NEW s \in DOMAIN saved, NEW i \in DOMAIN group(s)
                 PROVE  group(s)[i] \in HandlesOf(UNION fans)
      OBVIOUS
    <2>1. group(s)[i] \in HandlesOf(fan(s))
      BY <1>4, ZenonT(60)
    <2> QED BY <1>6, <2>1 DEF HandlesOf
  <1> QED BY <1>3, <1>7, <1>8, <1>9

\* What a scene starts from: its queue of saved values is well formed, and
\* makes every knob it could hold follow the saved setting or the default.
LEMMA SavedFacts ==
  ASSUME NEW p \in Buildable, NEW d \in Device, NEW k \in ParamId
  PROVE  /\ Saved(p)[d][k] \in Value \cup {Unset}
         /\ \A s \in DOMAIN Settings[p] :
              Settings[p][s].device = d /\ Settings[p][s].id = k
                => Saved(p)[d][k] = Settings[p][s].value
         /\ Saved(p)[d][k] # Unset =>
              \E s \in DOMAIN Settings[p] :
                 Settings[p][s].device = d /\ Settings[p][s].id = k
  <1> DEFINE saved == Settings[p]
             mine == {s \in DOMAIN saved : saved[s].device = d /\ saved[s].id = k}
             chosen == CHOOSE s \in mine : TRUE
  <1>1. Saved(p)[d][k] = IF mine = {} THEN Unset ELSE saved[chosen].value
    BY DEF Saved
  <1>2. mine # {} => chosen \in mine
    OBVIOUS
  <1>3. \A s \in DOMAIN saved : saved[s].value \in Value
    BY SettingsTyped
  <1>4. \A s, t \in mine : s = t
    BY SettingsAssumption
  <1> HIDE DEF chosen
  <1> QED BY <1>1, <1>2, <1>3, <1>4

LEMMA SavedTyped ==
  ASSUME NEW p \in Buildable
  PROVE  Saved(p) \in [Device -> [ParamId -> Value \cup {Unset}]]
  <1>1. \A d \in Device, k \in ParamId : Saved(p)[d][k] \in Value \cup {Unset}
    BY SavedFacts
  <1> QED BY <1>1 DEF Saved

LEMMA LostTyped ==
  ASSUME NEW p \in Buildable, NEW queue, NEW batch, IsBatch(batch, p)
  PROVE  HandlesOf(DroppedFrom(queue, batch)) \subseteq Nat
  BY DEF IsBatch, Entry, HandlesOf, DroppedFrom, Fresh

LEMMA InstalledParams ==
  ASSUME NEW p \in Buildable, NEW queue,
         queue = PushAll(EmptyQueue, initial_params(p))
  PROVE  /\ queue \in [DOMAIN queue -> Value]
         /\ DOMAIN queue \subseteq Handles[p]
         /\ IsFiniteSet(DOMAIN queue) /\ Cardinality(DOMAIN queue) <= PARAM_QUEUE_CAP
  <1>1. IsBatch(initial_params(p), p)
    BY InitialParamsFacts
  <1>2. EmptyQueue \in [{} -> Value]
    BY EmptyQueueTyped
  <1>3. {} \in SUBSET Handles[p]
    OBVIOUS
  <1>4. queue \in [DOMAIN queue -> Value] /\ DOMAIN queue \subseteq Handles[p]
    BY <1>1, <1>2, <1>3, PushAllTyped
  <1>5. IsFiniteSet(DOMAIN EmptyQueue) /\ Cardinality(DOMAIN EmptyQueue) <= PARAM_QUEUE_CAP
    BY EmptyQueueTyped, FS_EmptySet, ConstantsAssumption
  <1>6. IsFiniteSet(DOMAIN queue) /\ Cardinality(DOMAIN queue) <= PARAM_QUEUE_CAP
    BY <1>1, <1>5, PushAllBounded
  <1> QED BY <1>4, <1>6

LEMMA DistinctKnobs ==
  ASSUME NEW p \in Buildable, NEW d1 \in Device, NEW d2 \in Device,
         NEW k1 \in ParamId, NEW k2 \in ParamId,
         NEW i \in DOMAIN ParamHandles[p][d1][k1],
         NEW j \in DOMAIN ParamHandles[p][d2][k2],
         ParamHandles[p][d1][k1][i] = ParamHandles[p][d2][k2][j]
  PROVE  d1 = d2 /\ k1 = k2
  BY GroupsAreDisjoint

LEMMA InstalledKnobs ==
  ASSUME NEW p \in Buildable, NEW queue,
         queue = PushAll(EmptyQueue, initial_params(p)),
         NEW d \in Device, NEW k \in ParamId,
         NEW i \in DOMAIN ParamHandles[p][d][k], NEW h,
         h = ParamHandles[p][d][k][i],
         h \notin HandlesOf(DroppedFrom(EmptyQueue, initial_params(p)))
  PROVE  (IF h \in DOMAIN queue THEN queue[h] ELSE Default)
           = (IF Saved(p)[d][k] = Unset THEN Default ELSE Saved(p)[d][k])
  <1> DEFINE batch == initial_params(p)
             saved == Settings[p]
  <1>1. DOMAIN EmptyQueue = {}
    BY EmptyQueueTyped
  <1>2. DOMAIN queue = HandlesOf(Stored(EmptyQueue, batch))
    <2>1. DOMAIN queue = DOMAIN EmptyQueue \cup HandlesOf(Stored(EmptyQueue, batch))
      BY PushAllDomain
    <2> QED BY <1>1, <2>1
  <1>5. h \in HandlesOf(batch) => h \in HandlesOf(Stored(EmptyQueue, batch))
    BY PushAllDomain
  <1>3. CASE h \in DOMAIN queue
    <2>1. PICK e \in batch : e.handle = h /\ queue[h] = e.value
      BY <1>2, <1>3, PushAllTakes
    <2>0. \A x \in batch : \E s \in DOMAIN saved :
            /\ x.value = saved[s].value
            /\ \E j \in DOMAIN ParamHandles[p][saved[s].device][saved[s].id] :
                 x.handle = ParamHandles[p][saved[s].device][saved[s].id][j]
      BY InitialParamsFacts, ZenonT(60)
    <2>2. PICK s \in DOMAIN saved :
            /\ e.value = saved[s].value
            /\ \E j \in DOMAIN ParamHandles[p][saved[s].device][saved[s].id] :
                 e.handle = ParamHandles[p][saved[s].device][saved[s].id][j]
      BY ONLY <2>0, e \in batch, ZenonT(60)
    <2>3. saved[s].device \in Device /\ saved[s].id \in ParamId /\ saved[s].value \in Value
      BY SettingsTyped
    <2>4. saved[s].device = d /\ saved[s].id = k
      <3>1. PICK j \in DOMAIN ParamHandles[p][saved[s].device][saved[s].id] :
              h = ParamHandles[p][saved[s].device][saved[s].id][j]
        BY <2>1, <2>2
      <3>2. ParamHandles[p][d][k][i] = ParamHandles[p][saved[s].device][saved[s].id][j]
        BY <3>1
      <3> HIDE DEF saved
      <3>3. PICK d2 \in Device, k2 \in ParamId : d2 = saved[s].device /\ k2 = saved[s].id
        BY <2>3
      <3>4. PICK j2 \in DOMAIN ParamHandles[p][d2][k2] :
              ParamHandles[p][d][k][i] = ParamHandles[p][d2][k2][j2]
        BY ONLY <3>2, <3>3, j \in DOMAIN ParamHandles[p][saved[s].device][saved[s].id]
      <3>5. d = d2 /\ k = k2
        BY ONLY <3>4, DistinctKnobs, p \in Buildable, d \in Device, k \in ParamId,
                i \in DOMAIN ParamHandles[p][d][k]
      <3> QED BY ONLY <3>3, <3>5, ZenonT(60)
    <2>5. Saved(p)[d][k] = saved[s].value
      BY <2>4, SavedFacts, SMTT(30)
    <2>6. queue[h] = Saved(p)[d][k] /\ Saved(p)[d][k] \in Value
      BY <2>1, <2>2, <2>3, <2>5
    <2>7. Saved(p)[d][k] # Unset
      BY <2>6, ConstantsAssumption
    <2> QED BY <1>3, <2>6, <2>7
  <1>4. CASE h \notin DOMAIN queue
    <2>1. h \notin HandlesOf(batch)
      BY <1>2, <1>4, <1>5
    <2>2. \A s \in DOMAIN saved : ~(saved[s].device = d /\ saved[s].id = k)
      BY <2>1, InitialParamsFacts
    <2>3. Saved(p)[d][k] = Unset
      BY <2>2, SavedFacts
    <2> QED BY <1>4, <2>3
  <1> QED BY <1>3, <1>4

-----------------------------------------------------------------------------
(* Draining the event queue.                                               *)

LEMMA AllDue ==
  ASSUME NEW clock \in Nat,
         NEW queue \in Seq([when : Nat, target : Nat, message : Message]),
         \A i \in DOMAIN queue : queue[i].when = clock
  PROVE  DueCount(queue, clock + BLOCK_LEN) = Len(queue)
  <1> DEFINE end == clock + BLOCK_LEN
             P(n) == /\ \A i \in 1..n : queue[i].when < end
                     /\ n < Len(queue) => queue[n + 1].when >= end
  <1>1. end \in Nat /\ clock < end
    BY ConstantsAssumption
  <1>2. Len(queue) \in Nat /\ DOMAIN queue = 1..Len(queue)
    OBVIOUS
  <1>3. P(Len(queue))
    <2>1. \A i \in 1..Len(queue) : queue[i].when < end
      BY <1>1, <1>2, SMTT(30)
    <2> QED BY <2>1, <1>2
  <1>4. \A n \in 0..Len(queue) : P(n) => n = Len(queue)
    <2>1. ASSUME NEW n \in 0..Len(queue), P(n), n # Len(queue) PROVE FALSE
      <3>1. n < Len(queue) /\ n + 1 \in DOMAIN queue
        <4>1. PICK l \in Nat : l = Len(queue) /\ DOMAIN queue = 1..l
          BY ONLY <1>2
        <4>2. n \in 0..l /\ n # l
          BY ONLY <2>1, <4>1, n \in 0..Len(queue)
        <4>3. n < l /\ n + 1 \in 1..l
          BY ONLY <4>2, l \in Nat
        <4> QED
          BY ONLY <4>1, <4>3
      <3>2. queue[n + 1].when = clock
        BY ONLY <3>1, \A i \in DOMAIN queue : queue[i].when = clock
      <3> QED
        BY ONLY <1>1, <2>1, <3>1, <3>2
    <2> HIDE DEF P
    <2> QED
      BY ONLY <2>1
  <1>5. DueCount(queue, end) = CHOOSE n \in 0..Len(queue) : P(n)
    BY DEF DueCount
  <1> HIDE DEF P
  <1>6. Len(queue) \in 0..Len(queue)
    BY <1>2
  <1>7. DueCount(queue, end) = Len(queue)
    BY <1>3, <1>4, <1>5, <1>6
  <1> QED BY <1>7

LEMMA DeliverFacts ==
  ASSUME NEW p \in Buildable, NEW clock \in Nat,
         NEW queue \in Seq([when : Nat, target : Nat, message : Message]),
         \A i \in DOMAIN queue : queue[i].when = clock /\ queue[i].target \in EventLanes(p)
  PROVE  /\ Deliver(queue, p, clock) \in Seq([lane : Nat \cup {NoInput}, message : Message,
                                           offset : 0..(BLOCK_LEN - 1)])
         /\ \A i \in DOMAIN Deliver(queue, p, clock) :
              /\ Deliver(queue, p, clock)[i].offset = 0
              /\ Deliver(queue, p, clock)[i].lane # NoInput
         /\ SubSeq(queue, DueCount(queue, clock + BLOCK_LEN) + 1, Len(queue)) = <<>>
  <1>1. DueCount(queue, clock + BLOCK_LEN) = Len(queue)
    BY AllDue
  <1>2. Len(queue) \in Nat /\ DOMAIN queue = 1..Len(queue)
    OBVIOUS
  <1>3. Offset(clock, clock) = 0 /\ 0 \in 0..(BLOCK_LEN - 1)
    BY ConstantsAssumption DEF Offset
  <1> DEFINE fired(i) == [lane |-> queue[i].target, message |-> queue[i].message,
                          offset |-> 0]
             Fired == [lane : Nat \cup {NoInput}, message : Message,
                       offset : 0..(BLOCK_LEN - 1)]
  <1>4. \A i \in 1..Len(queue) :
          /\ queue[i].when = clock /\ queue[i].target \in EventLanes(p)
          /\ queue[i].target \in Nat /\ queue[i].message \in Message
    <2> SUFFICES ASSUME NEW i \in 1..Len(queue)
                 PROVE  /\ queue[i].when = clock /\ queue[i].target \in EventLanes(p)
                        /\ queue[i].target \in Nat /\ queue[i].message \in Message
      OBVIOUS
    <2>1. queue[i] \in [when : Nat, target : Nat, message : Message]
      BY ElementOfSeq
    <2> QED BY <1>2, <2>1
  <1>5. Deliver(queue, p, clock) = [i \in 1..Len(queue) |-> fired(i)]
    BY <1>1, <1>3, <1>4 DEF Deliver
  <1>6. \A i \in 1..Len(queue) :
          fired(i) \in Fired /\ fired(i).offset = 0 /\ fired(i).lane # NoInput
    BY <1>3, <1>4, EventInputAssumption
  <1> HIDE DEF fired, Fired
  <1>7. Deliver(queue, p, clock) \in Seq(Fired)
    BY <1>2, <1>5, <1>6, IsASeq
  <1>8. SubSeq(queue, Len(queue) + 1, Len(queue)) = <<>>
    BY <1>2, SubSeqEmpty
  <1> QED BY <1>1, <1>5, <1>6, <1>7, <1>8 DEF Fired

-----------------------------------------------------------------------------
(* The steps.                                                              *)

LEMMA IncrementTyped ==
  ASSUME NEW drops \in Nat, NEW n \in Nat
  PROVE  Increment(drops, n) \in Nat
  BY ConstantsAssumption DEF Increment

LEMMA InitIInv == Init => IInv
  <1> SUFFICES ASSUME Init PROVE IInv
    OBVIOUS
  <1>1. InitialPatch \in Buildable /\ current = InitialPatch /\ current \in Buildable
    BY ConstantsAssumption DEF Init
  <1>2. params = PushAll(EmptyQueue, initial_params(current))
    BY <1>1 DEF Init
  <1>3. /\ params \in [DOMAIN params -> Value] /\ DOMAIN params \subseteq Handles[current]
        /\ IsFiniteSet(DOMAIN params) /\ Cardinality(DOMAIN params) <= PARAM_QUEUE_CAP
    BY <1>1, <1>2, InstalledParams
  <1>4. Handles[current] \subseteq Nat
    BY <1>1, HandlesAssumption
  <1>5. want = Saved(current) /\ want \in [Device -> [ParamId -> Value \cup {Unset}]]
    BY <1>1, SavedTyped DEF Init
  <1>6. lost \subseteq Nat
    BY <1>1, LostTyped, InitialParamsFacts DEF Init
  <1>7. TypeOK
    BY <1>1, <1>3, <1>4, <1>5, <1>6, ConstantsAssumption DEF Init, TypeOK
  <1>8. ClocksAgree /\ NotesFireNextQuantum
    BY ConstantsAssumption DEF Init, ClocksAgree, NotesFireNextQuantum, NoteStamp
  <1>9. QueuedHandlesAreLive /\ QueuesBounded
    BY <1>3, ConstantsAssumption DEF Init, QueuedHandlesAreLive, QueuesBounded
  <1>10. KnobsFollowRequests
    <2> SUFFICES ASSUME NEW d \in Device, NEW k \in ParamId,
                        NEW i \in DOMAIN ParamHandles[current][d][k],
                        NEW h, h = ParamHandles[current][d][k][i], h \notin lost
                 PROVE  Effective(h) = Asked(d, k)
      BY DEF KnobsFollowRequests
    <2>1. h \in Handles[current]
      BY <1>1, HandlesAssumption
    <2>2. target[h] = Default
      BY <1>1, <2>1 DEF Init
    <2>3. h \notin HandlesOf(DroppedFrom(EmptyQueue, initial_params(current)))
      BY <1>1 DEF Init
    <2> QED BY <1>1, <1>2, <1>5, <2>2, <2>3, InstalledKnobs DEF Effective, Asked
  <1> QED BY <1>3, <1>7, <1>8, <1>9, <1>10 DEF IInv

LEMMA LoadPatchStep ==
  ASSUME IInv, NEW p \in Patches, load_patch(p)
  PROVE  IInv'
  BY DEF load_patch, IInv, TypeOK, ClocksAgree, NotesFireNextQuantum,
         QueuedHandlesAreLive, KnobsFollowRequests, QueuesBounded, NoteStamp,
         EventLanes, Effective, Asked

LEMMA PushEventStep ==
  ASSUME IInv, NEW d \in Device, NEW message \in Message, push_event(d, message)
  PROVE  IInv'
  <1> DEFINE event == [when |-> NoteStamp, target |-> EventInput[current][d],
                       message |-> message]
             Event == [when : Nat, target : Nat, message : Message]
  <1>1. /\ current \in Buildable /\ events \in Seq(Event) /\ event_drops \in Nat
        /\ \A i \in DOMAIN events : /\ events[i].when = sample_pos
                                    /\ events[i].target \in EventLanes(current)
    BY DEF IInv, TypeOK, NotesFireNextQuantum, QueuedHandlesAreLive
  <1>2. /\ EventInput[current][d] \in Nat
        /\ EventInput[current][d] \in EventLanes(current)
    BY <1>1, EventInputAssumption DEF push_event, EventLanes
  <1>3. NoteStamp = sample_pos /\ sample_pos \in Nat
    BY DEF IInv, TypeOK, ClocksAgree
  <1>4. event \in Event /\ event.when = sample_pos
        /\ event.target \in EventLanes(current)
    BY <1>2, <1>3
  <1> HIDE DEF event, Event
  <1>5. /\ events' \in Seq(Event)
        /\ \A i \in DOMAIN events' : /\ events'[i].when = sample_pos
                                     /\ events'[i].target \in EventLanes(current)
        /\ Len(events') <= EVENT_QUEUE_CAP
    <2>1. CASE Len(events) < EVENT_QUEUE_CAP
      <3>1. events' = Append(events, event)
        BY <2>1 DEF push_event, event
      <3>2. EVENT_QUEUE_CAP \in Nat
        BY ConstantsAssumption
      <3> QED BY <1>1, <1>4, <2>1, <3>1, <3>2
    <2>2. CASE ~(Len(events) < EVENT_QUEUE_CAP)
      <3>1. events' = events
        BY <2>2 DEF push_event
      <3> QED BY <1>1, <3>1 DEF IInv, QueuesBounded
    <2> QED BY <2>1, <2>2
  <1>6. event_drops' \in Nat
    BY <1>1, IncrementTyped DEF push_event
  <1>7. UNCHANGED <<current, pending, params, blocks, sample_pos, target,
                    delivered, param_drops, want, lost>>
    BY DEF push_event
  <1>8. TypeOK'
    BY <1>5, <1>6, <1>7 DEF IInv, TypeOK, Event
  <1>9. EventLanes(current)' = EventLanes(current)
    BY <1>7 DEF EventLanes
  <1>10. (ClocksAgree /\ NotesFireNextQuantum /\ QueuedHandlesAreLive)'
    BY <1>5, <1>7, <1>9 DEF IInv, ClocksAgree, NotesFireNextQuantum,
                            QueuedHandlesAreLive, NoteStamp
  <1>11. KnobsFollowRequests'
    BY <1>7 DEF IInv, KnobsFollowRequests, Effective, Asked
  <1>12. QueuesBounded' /\ IsFiniteSet(DOMAIN params)'
    BY <1>5, <1>7 DEF IInv, QueuesBounded
  <1> QED BY <1>8, <1>10, <1>11, <1>12 DEF IInv

LEMMA SetParamStep ==
  ASSUME IInv, NEW d \in Device, NEW k \in ParamId, NEW v \in Value, set_param(d, k, v)
  PROVE  IInv'
  <1> DEFINE batch == Fan(current, d, k, 1, v)
             dropped == DroppedFrom(params, batch)
  <1>1. /\ current \in Buildable
        /\ params \in [DOMAIN params -> Value] /\ DOMAIN params \subseteq Handles[current]
        /\ IsFiniteSet(DOMAIN params) /\ Cardinality(DOMAIN params) <= PARAM_QUEUE_CAP
        /\ param_drops \in Nat
    BY DEF IInv, TypeOK, QueuedHandlesAreLive, QueuesBounded
  <1>2. /\ IsBatch(batch, current)
        /\ \A e \in batch : e.value = v
        /\ HandlesOf(batch) = {ParamHandles[current][d][k][i] :
                                 i \in DOMAIN ParamHandles[current][d][k]}
    BY <1>1, FanFacts
  <1>3. /\ params' = PushAll(params, batch)
        /\ param_drops' = Increment(param_drops, Cardinality(dropped))
        /\ want' = IF batch = {} THEN want ELSE [want EXCEPT ![d][k] = v]
        /\ lost' = (lost \ HandlesOf(batch)) \cup HandlesOf(dropped)
        /\ UNCHANGED <<current, pending, events, blocks, sample_pos, target,
                       delivered, event_drops>>
    BY DEF set_param
  <1> HIDE DEF batch, dropped
  <1>4. /\ params' \in [DOMAIN params' -> Value] /\ DOMAIN params' \subseteq Handles[current]
    BY <1>1, <1>2, <1>3, PushAllTyped
  <1>5. /\ IsFiniteSet(DOMAIN params') /\ Cardinality(DOMAIN params') <= PARAM_QUEUE_CAP
        /\ IsFiniteSet(dropped)
    BY <1>1, <1>2, <1>3, PushAllBounded DEF dropped
  <1>6. param_drops' \in Nat
    BY <1>1, <1>3, <1>5, FS_CardinalityType, IncrementTyped
  <1>7. want' \in [Device -> [ParamId -> Value \cup {Unset}]]
    BY <1>3 DEF IInv, TypeOK
  <1>8. lost' \subseteq Nat
    BY <1>1, <1>2, <1>3, LostTyped DEF IInv, TypeOK, dropped
  <1>9. Handles[current] \subseteq Nat
    BY <1>1, HandlesAssumption
  <1>10. TypeOK'
    BY <1>3, <1>4, <1>6, <1>7, <1>8, <1>9 DEF IInv, TypeOK
  <1>11. (ClocksAgree /\ NotesFireNextQuantum)'
    BY <1>3 DEF IInv, ClocksAgree, NotesFireNextQuantum, NoteStamp
  <1>12. (QueuedHandlesAreLive /\ QueuesBounded)'
    BY <1>3, <1>4, <1>5 DEF IInv, QueuedHandlesAreLive, QueuesBounded, EventLanes
  <1>13. KnobsFollowRequests'
    <2> SUFFICES ASSUME NEW d1 \in Device, NEW k1 \in ParamId,
                        NEW i \in DOMAIN ParamHandles[current][d1][k1],
                        NEW h, h = ParamHandles[current][d1][k1][i], h \notin lost'
                 PROVE  Effective(h)' = Asked(d1, k1)'
      BY <1>3 DEF KnobsFollowRequests
    <2>1. CASE d1 = d /\ k1 = k
      <3>1. h \in HandlesOf(batch) /\ h \notin HandlesOf(dropped)
        BY <1>2, <1>3, <2>1
      <3>2. h \in HandlesOf(Stored(params, batch))
        BY <3>1, PushAllDomain DEF dropped
      <3>3. PICK e \in batch : e.handle = h /\ params'[h] = e.value
        BY <1>3, <3>2, PushAllTakes
      <3>4. h \in DOMAIN params'
        <4>1. DOMAIN params' = DOMAIN params \cup HandlesOf(Stored(params, batch))
          BY <1>3, PushAllDomain
        <4> QED BY <3>2, <4>1
      <3>5. Effective(h)' = v
        BY <1>2, <3>3, <3>4 DEF Effective
      <3>6. want'[d1][k1] = v
        BY <1>3, <2>1, <3>3 DEF IInv, TypeOK
      <3> QED BY <3>5, <3>6, ConstantsAssumption DEF Asked
    <2>2. CASE ~(d1 = d /\ k1 = k)
      <3>1. h \notin HandlesOf(batch)
        <4> SUFFICES ASSUME NEW j \in DOMAIN ParamHandles[current][d][k],
                            h = ParamHandles[current][d][k][j]
                     PROVE  FALSE
          BY <1>2
        <4>1. ParamHandles[current][d1][k1][i] = ParamHandles[current][d][k][j]
          OBVIOUS
        <4> QED BY <1>1, <2>2, <4>1, DistinctKnobs
      <3>2. h \notin lost
        BY <1>3, <3>1
      <3>3. Effective(h) = Asked(d1, k1)
        BY <3>2 DEF IInv, KnobsFollowRequests
      <3>4. want'[d1][k1] = want[d1][k1]
        BY <1>3, <2>2 DEF IInv, TypeOK
      <3>5. h \notin HandlesOf(Stored(params, batch))
        BY <3>1, PushAllDomain
      <3>6. h \in DOMAIN params' <=> h \in DOMAIN params
        <4>1. DOMAIN params' = DOMAIN params \cup HandlesOf(Stored(params, batch))
          BY <1>3, PushAllDomain
        <4> QED BY <3>5, <4>1
      <3>7. h \in DOMAIN params => params'[h] = params[h]
        BY <1>3, <3>5, PushAllKeeps
      <3> QED BY <1>3, <3>3, <3>4, <3>6, <3>7 DEF Effective, Asked
    <2> QED BY <2>1, <2>2
  <1> QED BY <1>5, <1>10, <1>11, <1>12, <1>13 DEF IInv

\* The two halves of a quantum share everything but what they start from.
LEMMA QuantumStep ==
  ASSUME render_quantum,
         SceneAtStart \in Buildable,
         ParamsAtStart \in [DOMAIN ParamsAtStart -> Value],
         TargetAtStart \in [Handles[SceneAtStart] -> Value],
         EventsAtStart \in Seq([when : Nat, target : Nat, message : Message]),
         BlocksAtStart \in Nat, PosAtStart \in Nat,
         BlocksAtStart * BLOCK_LEN = PosAtStart,
         \A i \in DOMAIN EventsAtStart :
           /\ EventsAtStart[i].when = PosAtStart
           /\ EventsAtStart[i].target \in EventLanes(SceneAtStart),
         event_drops \in Nat, param_drops \in Nat,
         want' \in [Device -> [ParamId -> Value \cup {Unset}]],
         lost' \subseteq Nat,
         \A d \in Device, k \in ParamId :
           \A i \in DOMAIN ParamHandles[SceneAtStart][d][k] :
             LET h == ParamHandles[SceneAtStart][d][k][i]
             IN  h \notin lost' =>
                   (IF h \in DOMAIN ParamsAtStart THEN ParamsAtStart[h]
                    ELSE TargetAtStart[h])
                     = (IF want'[d][k] = Unset THEN Default ELSE want'[d][k])
  PROVE  IInv'
  <1>1. /\ current' = SceneAtStart /\ pending' = NoPatch
        /\ target' = DrainParams(ParamsAtStart, TargetAtStart)
        /\ params' = EmptyQueue
        /\ delivered' = Deliver(EventsAtStart, SceneAtStart, PosAtStart)
        /\ events' = SubSeq(EventsAtStart,
                            DueCount(EventsAtStart, PosAtStart + BLOCK_LEN) + 1,
                            Len(EventsAtStart))
        /\ sample_pos' = PosAtStart + BLOCK_LEN
        /\ blocks' = BlocksAtStart + 1
        /\ UNCHANGED <<event_drops, param_drops>>
    BY DEF render_quantum
  <1>2. /\ delivered' \in Seq([lane : Nat \cup {NoInput}, message : Message,
                               offset : 0..(BLOCK_LEN - 1)])
        /\ \A i \in DOMAIN delivered' :
             delivered'[i].offset = 0 /\ delivered'[i].lane # NoInput
        /\ events' = <<>>
    <2> DEFINE scene == SceneAtStart
               clock == PosAtStart
               queue == EventsAtStart
    <2>1. /\ scene \in Buildable /\ clock \in Nat
          /\ queue \in Seq([when : Nat, target : Nat, message : Message])
          /\ \A i \in DOMAIN queue :
               queue[i].when = clock /\ queue[i].target \in EventLanes(scene)
          /\ delivered' = Deliver(queue, scene, clock)
          /\ events' = SubSeq(queue, DueCount(queue, clock + BLOCK_LEN) + 1, Len(queue))
      BY <1>1
    <2> HIDE DEF scene, clock, queue
    <2>2. /\ Deliver(queue, scene, clock) \in
               Seq([lane : Nat \cup {NoInput}, message : Message,
                    offset : 0..(BLOCK_LEN - 1)])
          /\ \A i \in DOMAIN Deliver(queue, scene, clock) :
               /\ Deliver(queue, scene, clock)[i].offset = 0
               /\ Deliver(queue, scene, clock)[i].lane # NoInput
      BY ONLY <2>1, DeliverFacts, ZenonT(60)
    <2>3. SubSeq(queue, DueCount(queue, clock + BLOCK_LEN) + 1, Len(queue)) = <<>>
      BY ONLY <2>1, DeliverFacts, ZenonT(60)
    <2>4. events' = <<>>
      BY <2>1, <2>3
    <2>5. delivered' = Deliver(queue, scene, clock)
      BY <2>1
    <2> QED BY ONLY <2>2, <2>4, <2>5
  <1>3. DOMAIN params' = {} /\ params' \in [DOMAIN params' -> Value]
    BY <1>1, EmptyQueueTyped
  <1>4. target' \in [Handles[SceneAtStart] -> Value]
    BY <1>1 DEF DrainParams
  <1>5. sample_pos' \in Nat /\ blocks' \in Nat
    BY <1>1, ConstantsAssumption, SMTT(30)
  <1>6. TypeOK'
    <2>1. events' \in Seq([when : Nat, target : Nat, message : Message])
      BY <1>2
    <2>2. current' \in Buildable /\ pending' \in Buildable \cup {NoPatch}
          /\ DOMAIN params' \subseteq Nat /\ target' \in [Handles[current'] -> Value]
          /\ event_drops' \in Nat /\ param_drops' \in Nat
      BY <1>1, <1>3, <1>4
    <2> QED BY <1>2, <1>3, <1>5, <2>1, <2>2 DEF TypeOK
  <1>7. ClocksAgree'
    <2>1. \A b, n \in Nat : (b + 1) * n = b * n + n
      OBVIOUS
    <2> QED BY <1>1, <2>1, ConstantsAssumption DEF ClocksAgree, NoteStamp
  <1>8. (NotesFireNextQuantum /\ QueuedHandlesAreLive)'
    BY <1>2, <1>3 DEF NotesFireNextQuantum, QueuedHandlesAreLive
  <1>9. QueuesBounded' /\ IsFiniteSet(DOMAIN params')
    BY <1>2, <1>3, FS_EmptySet, ConstantsAssumption DEF QueuesBounded
  <1>10. KnobsFollowRequests'
    <2> SUFFICES ASSUME NEW d \in Device, NEW k \in ParamId,
                        NEW i \in DOMAIN ParamHandles[SceneAtStart][d][k],
                        NEW h, h = ParamHandles[SceneAtStart][d][k][i], h \notin lost'
                 PROVE  Effective(h)' = Asked(d, k)'
      BY <1>1 DEF KnobsFollowRequests
    <2>1. h \in Handles[SceneAtStart]
      BY HandlesAssumption
    <2>2. Effective(h)' = IF h \in DOMAIN ParamsAtStart THEN ParamsAtStart[h]
                          ELSE TargetAtStart[h]
      BY <1>1, <1>3, <2>1 DEF Effective, DrainParams
    <2> QED BY <2>2 DEF Asked
  <1> QED BY <1>6, <1>7, <1>8, <1>9, <1>10 DEF IInv

LEMMA RenderStep ==
  ASSUME IInv, render_quantum
  PROVE  IInv'
  <1>1. event_drops \in Nat /\ param_drops \in Nat
    BY DEF IInv, TypeOK
  <1>2. CASE Swapping
    <2>1. pending \in Buildable
      BY <1>2 DEF Swapping, IInv, TypeOK
    <2>2. /\ SceneAtStart = pending
          /\ ParamsAtStart = PushAll(EmptyQueue, initial_params(pending))
          /\ EventsAtStart = <<>> /\ BlocksAtStart = 0 /\ PosAtStart = 0
          /\ TargetAtStart = [h \in Handles[pending] |-> Default]
          /\ want' = Saved(pending)
          /\ lost' = HandlesOf(DroppedFrom(EmptyQueue, initial_params(pending)))
      BY <1>2 DEF SceneAtStart, ParamsAtStart, EventsAtStart, BlocksAtStart,
                  PosAtStart, TargetAtStart, render_quantum
    <2>3. ParamsAtStart \in [DOMAIN ParamsAtStart -> Value]
      BY <2>1, <2>2, InstalledParams
    <2>4. TargetAtStart \in [Handles[SceneAtStart] -> Value]
      BY <2>2, ConstantsAssumption
    <2>5. /\ want' \in [Device -> [ParamId -> Value \cup {Unset}]]
          /\ lost' \subseteq Nat
      BY <2>1, <2>2, SavedTyped, LostTyped, InitialParamsFacts
    <2>6. ASSUME NEW d \in Device, NEW k \in ParamId,
                 NEW i \in DOMAIN ParamHandles[SceneAtStart][d][k],
                 NEW h, h = ParamHandles[SceneAtStart][d][k][i], h \notin lost'
          PROVE  (IF h \in DOMAIN ParamsAtStart THEN ParamsAtStart[h] ELSE TargetAtStart[h])
                   = (IF want'[d][k] = Unset THEN Default ELSE want'[d][k])
      <3>1. h \in Handles[pending]
        BY <2>1, <2>2, <2>6, HandlesAssumption
      <3>2. TargetAtStart[h] = Default
        BY <2>2, <3>1
      <3> QED BY <2>1, <2>2, <2>6, <3>2, InstalledKnobs
    <2>7. /\ EventsAtStart \in Seq([when : Nat, target : Nat, message : Message])
          /\ DOMAIN EventsAtStart = {}
      BY <2>2
    <2>8. BlocksAtStart * BLOCK_LEN = PosAtStart
      BY <2>2, ConstantsAssumption
    <2> QED BY <1>1, <2>1, <2>2, <2>3, <2>4, <2>5, <2>6, <2>7, <2>8, QuantumStep
  <1>3. CASE ~Swapping
    <2>1. /\ SceneAtStart = current /\ ParamsAtStart = params
          /\ EventsAtStart = events /\ BlocksAtStart = blocks
          /\ PosAtStart = sample_pos /\ TargetAtStart = target
          /\ want' = want /\ lost' = lost
      BY <1>3 DEF SceneAtStart, ParamsAtStart, EventsAtStart, BlocksAtStart,
                  PosAtStart, TargetAtStart, render_quantum
    <2>2. /\ current \in Buildable /\ params \in [DOMAIN params -> Value]
          /\ target \in [Handles[current] -> Value]
          /\ events \in Seq([when : Nat, target : Nat, message : Message])
          /\ blocks \in Nat /\ sample_pos \in Nat
          /\ want \in [Device -> [ParamId -> Value \cup {Unset}]] /\ lost \subseteq Nat
          /\ blocks * BLOCK_LEN = sample_pos
      BY DEF IInv, TypeOK, ClocksAgree, NoteStamp
    <2>3. \A i \in DOMAIN events : /\ events[i].when = sample_pos
                                   /\ events[i].target \in EventLanes(current)
      BY DEF IInv, NotesFireNextQuantum, QueuedHandlesAreLive
    <2>4. ASSUME NEW d \in Device, NEW k \in ParamId,
                 NEW i \in DOMAIN ParamHandles[current][d][k],
                 NEW h, h = ParamHandles[current][d][k][i], h \notin lost
          PROVE  (IF h \in DOMAIN params THEN params[h] ELSE target[h])
                   = (IF want[d][k] = Unset THEN Default ELSE want[d][k])
      BY <2>4 DEF IInv, KnobsFollowRequests, Effective, Asked
    <2> QED BY <1>1, <2>1, <2>2, <2>3, <2>4, QuantumStep
  <1> QED BY <1>2, <1>3

LEMMA NextIInv == IInv /\ [Next]_vars => IInv'
  <1> SUFFICES ASSUME IInv, [Next]_vars PROVE IInv'
    OBVIOUS
  <1>1. ASSUME NEW p \in Patches, load_patch(p) PROVE IInv'
    BY <1>1, LoadPatchStep
  <1>2. ASSUME NEW d \in Device, NEW k \in ParamId, NEW v \in Value, set_param(d, k, v)
        PROVE  IInv'
    BY <1>2, SetParamStep
  <1>3. ASSUME NEW d \in Device, NEW m \in Message, push_event(d, m) PROVE IInv'
    BY <1>3, PushEventStep
  <1>4. CASE render_quantum
    BY <1>4, RenderStep
  <1>5. CASE UNCHANGED vars
    BY <1>5 DEF vars, IInv, TypeOK, ClocksAgree, NotesFireNextQuantum,
       QueuedHandlesAreLive, KnobsFollowRequests, QueuesBounded, NoteStamp,
       EventLanes, Effective, Asked
  <1> QED BY <1>1, <1>2, <1>3, <1>4, <1>5 DEF Next

\* The strengthened invariant, for every execution of the engine.
THEOREM InvariantHolds == Spec => []IInv
  BY InitIInv, NextIInv, PTL DEF Spec

\* The engine's fields keep their types: in particular every smoother of the
\* live scene has a target and every event an offset inside its block.
THEOREM TypeCorrect == Spec => []TypeOK
  <1>1. IInv => TypeOK
    BY DEF IInv
  <1> QED BY <1>1, InvariantHolds, PTL

\* Whatever the order of loads, moves, notes and quanta, every smoother that
\* did not lose a value to a full queue is aimed at what was last asked of it.
THEOREM KnobsAreHonoured == Spec => []KnobsFollowRequests
  <1>1. IInv => KnobsFollowRequests
    BY DEF IInv
  <1> QED BY <1>1, InvariantHolds, PTL

\* No handle resolved in one scene is ever used on another: the swap of
\* render_quantum leaves none behind.
THEOREM HandlesStayLive == Spec => []QueuedHandlesAreLive
  <1>1. IInv => QueuedHandlesAreLive
    BY DEF IInv
  <1> QED BY <1>1, InvariantHolds, PTL

\* The two clocks agree at every quantum, so every note fires on the first
\* sample of the quantum after it was struck.
THEOREM NotesAreOnTime == Spec => [](ClocksAgree /\ NotesFireNextQuantum)
  <1>1. IInv => ClocksAgree /\ NotesFireNextQuantum
    BY DEF IInv
  <1> QED BY <1>1, InvariantHolds, PTL

\* Neither queue ever needs more than the room it was allocated with, so the
\* audio thread never allocates for them.
THEOREM QueuesFit == Spec => []QueuesBounded
  <1>1. IInv => QueuesBounded
    BY DEF IInv
  <1> QED BY <1>1, InvariantHolds, PTL
=============================================================================
