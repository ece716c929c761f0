---------------------------- MODULE PatchProofs ----------------------------
(***************************************************************************)
(* What a patch becomes: the inference of Conductors, for every set of     *)
(* graphs that meets PatchesAssumption, of any number of nodes and wires,  *)
(* of any widths; the handles of ControlStore, for every number of nodes   *)
(* and controls; and the lanes of LaneSchedule, for every set of graphs    *)
(* that meets LanesAssumption and any number of blocks.                    *)
(*                                                                         *)
(* The argument about the lanes goes in four steps.  Pools: FlattenSeq     *)
(* lays the lanes of the ports end to end, each once, so that Base finds   *)
(* them.  LaneInv: what compile has checked, inferred and laid out by each *)
(* phase; StepsFit follows from it.  QuietInv: the lanes of one port hold  *)
(* the same draws of every wire with several conductors, because these     *)
(* draw from clones of one stream, and inline processors work leg by leg;  *)
(* so a receiver takes all of them away.  ViewInv: the lanes of a node     *)
(* hold one block, so that a port's first lane can stand for the port, and *)
(* every step is one of Schedule's or none that it sees.                   *)
(***************************************************************************)
EXTENDS LaneSchedule, ControlStore, FiniteSetTheorems, SequenceTheorems,
        WellFoundedInduction, TLAPS

-----------------------------------------------------------------------------
(* The inference of conductors.                                            *)

\* The types, with what no step changes: the graph.
InferTyped == patch \in Patches /\ InferTypeOK

\* A multiplicity for every node.
Multiplicities == [Nodes -> Nat \ {0}]

\* What has been inferred is what every choice of equal ends says.
Forced ==
  verdict # "solved" =>
    \A mm \in Multiplicities : EqualEnds(mm) =>
      \A n \in PerConductor : m[n] # Unknown => m[n] = mm[n]

\* A patch refused for its widths has no choice of equal ends, of any width.
Unequal == verdict = "LaneCountMismatch" => ~ \E mm \in Multiplicities : EqualEnds(mm)

\* An edge that a sweep leaves alone: its ends are both unknown, or they fit.
Rests(e) ==
  \/ FromLanes(m, e) = Unknown /\ ToLanes(m, e) = Unknown
  \/ /\ FromLanes(m, e) # Unknown /\ ToLanes(m, e) # Unknown
     /\ FromLanes(m, e) = ToLanes(m, e) \/ Grounding(FromLanes(m, e), ToLanes(m, e), e)

\* While a sweep changes nothing, the edges behind it rest.
RestsBehind ==
  verdict = "inferring" /\ ~ changed => \A e \in Edges : e < at => Rests(e)

-----------------------------------------------------------------------------
(* The graph.                                                              *)

\* The ends of an edge are nodes, and their ports have lanes.
LEMMA EndsOfAnEdge ==
  ASSUME patch \in Patches, NEW e \in Edges
  PROVE  /\ patch.edges[e].from \in Nodes /\ patch.edges[e].to \in Nodes
         /\ OutFace(e).lanes \in Nat \ {0} /\ InFace(e).lanes \in Nat \ {0}
  <1>1. /\ patch.edges[e].from \in Nodes /\ patch.edges[e].to \in Nodes
        /\ patch.edges[e].out \in DOMAIN patch.nodes[patch.edges[e].from].out
        /\ patch.edges[e].in \in DOMAIN patch.nodes[patch.edges[e].to].in
    BY PatchesAssumption DEF Edges, Nodes
  <1>2. \A n \in Nodes :
          /\ \A p \in DOMAIN patch.nodes[n].in : patch.nodes[n].in[p].lanes \in Nat \ {0}
          /\ \A p \in DOMAIN patch.nodes[n].out : patch.nodes[n].out[p].lanes \in Nat \ {0}
    BY PatchesAssumption DEF Nodes
  <1> QED BY <1>1, <1>2 DEF OutFace, InFace, OutFaceOf, InFaceOf

\* The edges are numbered from 1, without gaps.
LEMMA EdgeNumbers ==
  ASSUME patch \in Patches
  PROVE  Len(patch.edges) \in Nat /\ Edges = 1..Len(patch.edges)
  BY PatchesAssumption DEF Edges

\* Both ends of an edge have a number of lanes.
LEMMA LanesAreNumbers ==
  ASSUME patch \in Patches, NEW mm \in [Nodes -> Nat], NEW e \in Edges
  PROVE  FromLanes(mm, e) \in Nat /\ ToLanes(mm, e) \in Nat
  BY EndsOfAnEdge DEF FromLanes, ToLanes

\* An end whose width is unknown is a per-conductor node that has none yet.
LEMMA UnknownEnd ==
  ASSUME patch \in Patches, NEW e \in Edges
  PROVE  /\ FromLanes(m, e) = Unknown
              => patch.edges[e].from \in PerConductor /\ m[patch.edges[e].from] = Unknown
         /\ ToLanes(m, e) = Unknown
              => patch.edges[e].to \in PerConductor /\ m[patch.edges[e].to] = Unknown
  BY EndsOfAnEdge DEF FromLanes, ToLanes, Unknown

-----------------------------------------------------------------------------
(* Types.                                                                  *)

\* A visit infers a number.
LEMMA InferredIsTyped ==
  ASSUME InferTyped, NEW e \in Edges
  PROVE  Inferred(e) \in [Nodes -> Nat]
  <1>1. m \in [Nodes -> Nat] BY DEF InferTyped, InferTypeOK
  <1>2. FromLanes(m, e) \in Nat /\ ToLanes(m, e) \in Nat BY <1>1, LanesAreNumbers DEF InferTyped
  <1>3. patch.edges[e].from \in Nodes /\ patch.edges[e].to \in Nodes BY EndsOfAnEdge DEF InferTyped
  <1> QED BY <1>1, <1>2, <1>3 DEF Inferred

\* The inference is typed when it starts.
LEMMA InitInferTyped == ASSUME patch \in Patches, InferInit PROVE InferTyped
  <1>1. 1 \in 1..(Len(patch.edges) + 1) BY EdgeNumbers
  <1> QED BY <1>1 DEF InferTyped, InferInit, InferTypeOK, Unknown

\* Every step keeps it typed.
LEMMA StepInferTyped == ASSUME InferTyped, [Infer]_inferVars PROVE InferTyped'
  <1> USE DEF InferTyped, InferTypeOK, Nodes, Edges
  <1>0. Edges = 1..Len(patch.edges) /\ Len(patch.edges) \in Nat BY EdgeNumbers
  <1>1. CASE Visit
    <2>1. Inferred(at) \in [Nodes -> Nat] BY <1>1, InferredIsTyped DEF Visit
    <2>2. at + 1 \in 1..(Len(patch.edges) + 1) BY <1>0, <1>1 DEF Visit
    <2> QED BY <1>1, <2>1, <2>2 DEF Visit
  <1>2. CASE LaneCountMismatch BY <1>2 DEF LaneCountMismatch
  <1>3. CASE SweepAgain
    <2>1. 1 \in 1..(Len(patch.edges) + 1) BY <1>0
    <2> QED BY <1>3, <2>1 DEF SweepAgain
  <1>4. CASE Settle
    <2>1. \A n \in Nodes : (IF m[n] = Unknown THEN 1 ELSE m[n]) \in Nat OBVIOUS
    <2>2. m' \in [Nodes -> Nat] BY <1>4, <2>1 DEF Settle
    <2> QED BY <1>4, <2>2 DEF Settle
  <1>5. CASE UNCHANGED inferVars BY <1>5 DEF inferVars, inference
  <1> QED BY <1>1, <1>2, <1>3, <1>4, <1>5 DEF Infer

\* The inference keeps to its types in every graph: a sweep never runs past the
\* end of the edges, and every multiplicity is a number.
THEOREM SpecInferTypeOK == InferSpec => []InferTypeOK
  <1>1. patch \in Patches /\ InferInit => InferTyped BY InitInferTyped
  <1>2. InferTyped /\ [Infer]_inferVars => InferTyped' BY StepInferTyped
  <1>3. InferTyped => InferTypeOK BY DEF InferTyped
  <1> QED BY <1>1, <1>2, <1>3, PTL DEF InferSpec

-----------------------------------------------------------------------------
(* What is inferred is forced.                                             *)

\* An end that is known is as wide as any choice of equal ends makes it.
LEMMA KnownEndsAreForced ==
  ASSUME InferTyped, NEW mm \in Multiplicities,
         \A n \in PerConductor : m[n] # Unknown => m[n] = mm[n],
         NEW e \in Edges
  PROVE  /\ FromLanes(m, e) # Unknown => FromLanes(m, e) = FromLanes(mm, e)
         /\ ToLanes(m, e) # Unknown => ToLanes(m, e) = ToLanes(mm, e)
  BY DEF FromLanes, ToLanes

\* A choice is a multiplicity for the ends too.
LEMMA ChosenEnds ==
  ASSUME patch \in Patches, NEW mm \in Multiplicities, NEW e \in Edges
  PROVE  FromLanes(mm, e) \in Nat /\ ToLanes(mm, e) \in Nat
  <1>1. mm \in [Nodes -> Nat] BY DEF Multiplicities
  <1> QED BY <1>1, LanesAreNumbers

\* A visit keeps to what is forced.
LEMMA VisitForced ==
  ASSUME InferTyped, NEW mm \in Multiplicities, EqualEnds(mm),
         \A n \in PerConductor : m[n] # Unknown => m[n] = mm[n],
         NEW e \in Edges, NEW n \in PerConductor, Inferred(e)[n] # Unknown
  PROVE  Inferred(e)[n] = mm[n]
  <1>1. /\ FromLanes(m, e) # Unknown => FromLanes(m, e) = FromLanes(mm, e)
        /\ ToLanes(m, e) # Unknown => ToLanes(m, e) = ToLanes(mm, e)
    BY KnownEndsAreForced
  <1>2. FromLanes(mm, e) = ToLanes(mm, e) BY DEF EqualEnds
  <1>3. m \in [Nodes -> Nat] /\ n \in Nodes BY DEF InferTyped, InferTypeOK, PerConductor
  <1>4. patch.edges[e].from \in Nodes /\ patch.edges[e].to \in Nodes BY EndsOfAnEdge DEF InferTyped
  <1>5. CASE FromLanes(m, e) # Unknown /\ ToLanes(m, e) = Unknown
    <2>1. ToLanes(mm, e) = mm[patch.edges[e].to]
      BY <1>5, UnknownEnd DEF InferTyped, ToLanes
    <2>2. Inferred(e) = [m EXCEPT ![patch.edges[e].to] = FromLanes(m, e)] BY <1>5 DEF Inferred
    <2> QED BY <1>1, <1>2, <1>3, <1>4, <1>5, <2>1, <2>2
  <1>6. CASE FromLanes(m, e) = Unknown /\ ToLanes(m, e) # Unknown
    <2>1. FromLanes(mm, e) = mm[patch.edges[e].from]
      BY <1>6, UnknownEnd DEF InferTyped, FromLanes
    <2>2. Inferred(e) = [m EXCEPT ![patch.edges[e].from] = ToLanes(m, e)] BY <1>6 DEF Inferred
    <2> QED BY <1>1, <1>2, <1>3, <1>4, <1>6, <2>1, <2>2
  <1>7. CASE ~ (FromLanes(m, e) # Unknown /\ ToLanes(m, e) = Unknown)
             /\ ~ (FromLanes(m, e) = Unknown /\ ToLanes(m, e) # Unknown)
    <2>1. Inferred(e) = m BY <1>7 DEF Inferred
    <2> QED BY <2>1
  <1> QED BY <1>5, <1>6, <1>7

\* Two known ends that every choice makes equal do not clash.
LEMMA ForcedEndsDoNotClash ==
  ASSUME InferTyped, NEW mm \in Multiplicities, EqualEnds(mm),
         \A n \in PerConductor : m[n] # Unknown => m[n] = mm[n],
         NEW e \in Edges
  PROVE  ~ Clash(e)
  BY KnownEndsAreForced DEF EqualEnds, Clash

\* At the start nothing is inferred.
LEMMA InitForced == ASSUME patch \in Patches, InferInit PROVE Forced /\ Unequal
  BY DEF Forced, Unequal, InferInit, PerConductor

\* Every step keeps to what is forced.
LEMMA StepForced == ASSUME InferTyped, Forced, [Infer]_inferVars PROVE Forced'
  <1>1. CASE Visit
    <2> SUFFICES ASSUME NEW mm \in Multiplicities, EqualEnds(mm), NEW n \in PerConductor,
                        m'[n] # Unknown
                 PROVE  m'[n] = mm[n]
      BY <1>1 DEF Visit, Forced, Multiplicities, EqualEnds, PerConductor, Nodes, Edges,
                  FromLanes, ToLanes, OutFace, InFace
    <2>1. \A k \in PerConductor : m[k] # Unknown => m[k] = mm[k] BY <1>1 DEF Forced, Visit
    <2>2. at \in Edges /\ m' = Inferred(at) BY <1>1 DEF Visit
    <2> QED BY <2>1, <2>2, VisitForced
  <1>2. CASE LaneCountMismatch
    BY <1>2 DEF LaneCountMismatch, Forced, Multiplicities, EqualEnds, PerConductor, Nodes, Edges,
                FromLanes, ToLanes, OutFace, InFace
  <1>3. CASE SweepAgain
    BY <1>3 DEF SweepAgain, Forced, Multiplicities, EqualEnds, PerConductor, Nodes, Edges,
                FromLanes, ToLanes, OutFace, InFace
  <1>4. CASE Settle BY <1>4 DEF Settle, Forced
  <1>5. CASE UNCHANGED inferVars
    BY <1>5 DEF inferVars, inference, Forced, Multiplicities, EqualEnds, PerConductor, Nodes, Edges,
                FromLanes, ToLanes, OutFace, InFace
  <1> QED BY <1>1, <1>2, <1>3, <1>4, <1>5 DEF Infer

\* Only a clash refuses, and no choice of equal ends clashes.
LEMMA StepUnequal == ASSUME InferTyped, Forced, Unequal, [Infer]_inferVars PROVE Unequal'
  <1> SUFFICES ASSUME verdict' = "LaneCountMismatch"
               PROVE  ~ \E mm \in Multiplicities : EqualEnds(mm)
    BY DEF Unequal, Infer, inferVars, inference, Visit, LaneCountMismatch, SweepAgain, Settle,
           Multiplicities, EqualEnds, PerConductor, Nodes, Edges, FromLanes, ToLanes, OutFace, InFace
  <1>1. CASE LaneCountMismatch
    <2> SUFFICES ASSUME NEW mm \in Multiplicities, EqualEnds(mm) PROVE FALSE OBVIOUS
    <2>1. \A n \in PerConductor : m[n] # Unknown => m[n] = mm[n]
      BY <1>1 DEF Forced, LaneCountMismatch
    <2>2. at \in Edges /\ Clash(at) BY <1>1 DEF LaneCountMismatch
    <2> QED BY <2>1, <2>2, ForcedEndsDoNotClash
  <1>2. CASE verdict = "LaneCountMismatch" BY <1>2 DEF Unequal
  <1> QED
    BY <1>1, <1>2 DEF Infer, inferVars, inference, Visit, SweepAgain, Settle

\* A patch that can be wired without grounding anything is accepted by the
\* inference, however many its nodes and wires and in whatever order its cables
\* were plugged in.
THEOREM SpecEqualEndsAreAccepted == InferSpec => []EqualEndsAreAccepted
  <1>1. patch \in Patches /\ InferInit => InferTyped /\ Forced /\ Unequal BY InitInferTyped, InitForced
  <1>2. InferTyped /\ Forced /\ Unequal /\ [Infer]_inferVars => (InferTyped /\ Forced /\ Unequal)'
    BY StepInferTyped, StepForced, StepUnequal
  <1>3. Unequal => EqualEndsAreAccepted
    <2>1. [Nodes -> 1..2] \subseteq Multiplicities BY DEF Multiplicities
    <2> QED BY <2>1 DEF Unequal, EqualEndsAreAccepted
  <1> QED BY <1>1, <1>2, <1>3, PTL DEF InferSpec

-----------------------------------------------------------------------------
(* A sweep that changed nothing leaves only wires that fit.                *)

\* A visit that infers nothing leaves its edge at rest.
LEMMA QuietVisit ==
  ASSUME InferTyped, NEW e \in Edges, ~ Clash(e), Inferred(e) = m
  PROVE  Rests(e)
  <1>1. m \in [Nodes -> Nat] BY DEF InferTyped, InferTypeOK
  <1>2. patch.edges[e].from \in Nodes /\ patch.edges[e].to \in Nodes BY EndsOfAnEdge DEF InferTyped
  <1>3. FromLanes(m, e) = Unknown \/ ToLanes(m, e) # Unknown
    <2> SUFFICES ASSUME FromLanes(m, e) # Unknown, ToLanes(m, e) = Unknown PROVE FALSE OBVIOUS
    <2>1. m[patch.edges[e].to] = Unknown BY UnknownEnd DEF InferTyped
    <2>2. Inferred(e) = [m EXCEPT ![patch.edges[e].to] = FromLanes(m, e)] BY DEF Inferred
    <2>3. Inferred(e)[patch.edges[e].to] = FromLanes(m, e) BY <1>1, <1>2, <2>2
    <2> QED BY <2>1, <2>3
  <1>4. FromLanes(m, e) # Unknown \/ ToLanes(m, e) = Unknown
    <2> SUFFICES ASSUME FromLanes(m, e) = Unknown, ToLanes(m, e) # Unknown PROVE FALSE OBVIOUS
    <2>1. m[patch.edges[e].from] = Unknown BY UnknownEnd DEF InferTyped
    <2>2. Inferred(e) = [m EXCEPT ![patch.edges[e].from] = ToLanes(m, e)] BY DEF Inferred
    <2>3. Inferred(e)[patch.edges[e].from] = ToLanes(m, e) BY <1>1, <1>2, <2>2
    <2> QED BY <2>1, <2>3
  <1> QED BY <1>3, <1>4 DEF Rests, Clash

\* When what is unknown is settled at one lane, an edge at rest fits.
LEMMA SettledEdge ==
  ASSUME InferTyped, Settle, NEW e \in Edges, Rests(e)
  PROVE  \/ FromLanes(m, e)' = ToLanes(m, e)'
         \/ Grounding(FromLanes(m, e), ToLanes(m, e), e)'
  <1>1. /\ patch' = patch
        /\ m' = [n \in Nodes |-> IF m[n] = Unknown THEN 1 ELSE m[n]]
    BY DEF Settle
  <1>2. patch.edges[e].from \in Nodes /\ patch.edges[e].to \in Nodes BY EndsOfAnEdge DEF InferTyped
  <1>3. FromLanes(m, e)' = IF FromLanes(m, e) = Unknown THEN 1 ELSE FromLanes(m, e)
    <2>1. CASE patch.edges[e].from \in PerConductor
      BY <1>1, <1>2, <2>1 DEF FromLanes, PerConductor, Nodes
    <2>2. CASE patch.edges[e].from \notin PerConductor
      <3>1. FromLanes(m, e)' = FromLanes(m, e)
        BY <1>1, <2>2 DEF FromLanes, PerConductor, Nodes, OutFace
      <3>2. FromLanes(m, e) # Unknown BY <2>2, UnknownEnd DEF InferTyped
      <3> QED BY <3>1, <3>2
    <2> QED BY <2>1, <2>2
  <1>4. ToLanes(m, e)' = IF ToLanes(m, e) = Unknown THEN 1 ELSE ToLanes(m, e)
    <2>1. CASE patch.edges[e].to \in PerConductor
      BY <1>1, <1>2, <2>1 DEF ToLanes, PerConductor, Nodes
    <2>2. CASE patch.edges[e].to \notin PerConductor
      <3>1. ToLanes(m, e)' = ToLanes(m, e)
        BY <1>1, <2>2 DEF ToLanes, PerConductor, Nodes, InFace
      <3>2. ToLanes(m, e) # Unknown BY <2>2, UnknownEnd DEF InferTyped
      <3> QED BY <3>1, <3>2
    <2> QED BY <2>1, <2>2
  <1>5. OutFace(e)' = OutFace(e) BY <1>1 DEF OutFace
  <1>6. CASE FromLanes(m, e) = Unknown /\ ToLanes(m, e) = Unknown
    BY <1>3, <1>4, <1>6
  <1>7. CASE FromLanes(m, e) = ToLanes(m, e)
    BY <1>3, <1>4, <1>7
  <1>8. CASE /\ FromLanes(m, e) # Unknown /\ ToLanes(m, e) # Unknown
             /\ Grounding(FromLanes(m, e), ToLanes(m, e), e)
    BY <1>3, <1>4, <1>5, <1>8 DEF Grounding
  <1> QED BY <1>6, <1>7, <1>8 DEF Rests

\* The edges behind a sweep that has not begun: none.
LEMMA InitRests == ASSUME patch \in Patches, InferInit PROVE RestsBehind /\ WiresFit
  <1>1. \A e \in Edges : ~ (e < 1) BY EdgeNumbers
  <1> QED BY <1>1 DEF RestsBehind, WiresFit, InferInit

\* A sweep leaves at rest what it has passed, as long as it changes nothing.
LEMMA StepRests == ASSUME InferTyped, RestsBehind, [Infer]_inferVars PROVE RestsBehind'
  <1>0. \A e \in Edges : e \in Nat /\ e >= 1 BY EdgeNumbers DEF InferTyped
  <1>1. CASE Visit
    <2> SUFFICES ASSUME verdict' = "inferring", ~ changed', NEW e \in Edges, e < at' PROVE Rests(e)'
      BY <1>1 DEF RestsBehind, Visit, Edges
    <2>1. ~ changed /\ m' = m /\ patch' = patch /\ at \in Edges /\ ~ Clash(at)
          /\ m = Inferred(at) /\ verdict = "inferring" /\ at' = at + 1
      BY <1>1 DEF Visit
    <2>2. Rests(e)
      <3>1. CASE e = at BY <2>1, <3>1, QuietVisit
      <3>2. CASE e < at BY <2>1, <3>2 DEF RestsBehind
      <3> QED BY <1>0, <2>1, <3>1, <3>2
    <2> QED
      BY <2>1, <2>2 DEF Rests, FromLanes, ToLanes, OutFace, InFace, PerConductor, Nodes, Grounding
  <1>2. CASE LaneCountMismatch BY <1>2 DEF LaneCountMismatch, RestsBehind
  <1>3. CASE SweepAgain BY <1>0, <1>3 DEF SweepAgain, RestsBehind, Edges
  <1>4. CASE Settle BY <1>4 DEF Settle, RestsBehind
  <1>5. CASE UNCHANGED inferVars
    BY <1>5 DEF inferVars, inference, RestsBehind, Rests, FromLanes, ToLanes, OutFace, InFace,
                PerConductor, Nodes, Edges, Grounding
  <1> QED BY <1>1, <1>2, <1>3, <1>4, <1>5 DEF Infer

\* The inference settles when every edge rests, and then every wire fits.
LEMMA StepWiresFit == ASSUME InferTyped, RestsBehind, WiresFit, [Infer]_inferVars PROVE WiresFit'
  <1>1. CASE Settle
    <2>1. \A e \in Edges : Rests(e)
      <3>1. \A e \in Edges : e < at
        BY <1>1, EdgeNumbers DEF Settle, InferTyped, InferTypeOK
      <3> QED BY <1>1, <3>1 DEF Settle, RestsBehind
    <2>2. patch' = patch BY <1>1 DEF Settle
    <2> SUFFICES ASSUME NEW e \in Edges
                 PROVE  \/ FromLanes(m, e)' = ToLanes(m, e)'
                        \/ Grounding(FromLanes(m, e), ToLanes(m, e), e)'
      BY <2>2 DEF WiresFit, Fits, Edges
    <2> QED BY <1>1, <2>1, SettledEdge
  <1>2. CASE ~ Settle /\ verdict' = "solved"
    <2>1. UNCHANGED inferVars
      BY <1>2 DEF Infer, Visit, LaneCountMismatch, SweepAgain
    <2> QED
      BY <2>1 DEF inferVars, inference, WiresFit, Fits, FromLanes, ToLanes, OutFace, InFace,
                  PerConductor, Nodes, Edges, Grounding
  <1> QED BY <1>1, <1>2 DEF WiresFit

\* Whatever the graph, a patch that the inference accepts has only wires whose
\* ends are equally wide and plugs that ground the cold pin of a balanced
\* socket: one sweep without a change is enough to end on.
THEOREM SpecWiresFit == InferSpec => []WiresFit
  <1>1. patch \in Patches /\ InferInit => InferTyped /\ RestsBehind /\ WiresFit
    BY InitInferTyped, InitRests
  <1>2. InferTyped /\ RestsBehind /\ WiresFit /\ [Infer]_inferVars => (InferTyped /\ RestsBehind /\ WiresFit)'
    BY StepInferTyped, StepRests, StepWiresFit
  <1> QED BY <1>1, <1>2, PTL DEF InferSpec

-----------------------------------------------------------------------------
(* The control store.                                                      *)

StoreTypeOK ==
  /\ declared \in Seq(Nat) /\ base \in Seq(Nat) /\ length \in Nat
  /\ Len(base) <= Len(declared)

EndsBy(n, limit) == base[n] + declared[n] <= limit

\* Earlier nodes end before later ones begin, and all of them in the store.
InOrder ==
  /\ \A n \in 1..Len(base) : EndsBy(n, length)
  /\ \A n \in 1..Len(base), k \in 1..Len(base) : n < k => EndsBy(n, base[k])

StoreInv == StoreTypeOK /\ InOrder

\* Nothing is reserved at first.
LEMMA StoreInitInv == StoreInit => StoreInv
  BY DEF StoreInit, StoreInv, StoreTypeOK, InOrder

\* Reserving a node keeps the types.
LEMMA ReserveTypes == StoreInv /\ Reserve => StoreTypeOK'
<1> SUFFICES ASSUME StoreInv, Reserve PROVE StoreTypeOK'
  OBVIOUS
<1> USE DEF StoreInv, StoreTypeOK, Reserve, AllReserved, Reserved, PushControls
<1>1. Len(base) + 1 \in 1..Len(declared)
  OBVIOUS
<1>2. declared[Len(base) + 1] \in Nat
  BY <1>1
<1> QED
  BY <1>1, <1>2

\* Reserving a node appends it after all the others.
LEMMA ReserveInOrder == StoreInv /\ Reserve => InOrder'
<1> SUFFICES ASSUME StoreInv, Reserve PROVE InOrder'
  OBVIOUS
<1> USE DEF StoreInv, StoreTypeOK, Reserve, AllReserved, Reserved, PushControls
<1> DEFINE new == Len(base) + 1
<1>1. new \in 1..Len(declared) /\ declared[new] \in Nat
  OBVIOUS
<1>2. Len(base') = new /\ base'[new] = length /\ length' = length + declared[new]
  OBVIOUS
<1>3. \A n \in 1..Len(base) : base'[n] = base[n] /\ base[n] \in Nat /\ declared[n] \in Nat
  BY SMTT(30)
<1>4. \A n \in 1..Len(base) : EndsBy(n, length)
  BY DEF InOrder
<1>5. \A n \in 1..Len(base) : base'[n] + declared'[n] <= length'
  <2>1. declared' = declared /\ length \in Nat
    OBVIOUS
  <2>2. length' = length + declared[new] /\ declared[new] \in Nat
    BY <1>1, <1>2
  <2>3. \A n \in 1..Len(base) : base[n] + declared[n] <= length
    BY ONLY <1>4 DEF EndsBy
  <2> QED
    BY ONLY <2>1, <2>2, <2>3, <1>3, SMTT(30)
<1>6. base'[new] + declared'[new] <= length'
  BY <1>1, <1>2 DEF EndsBy
<1>7. \A n \in 1..Len(base) : base'[n] + declared'[n] <= base'[new]
  BY <1>2, <1>3, <1>4 DEF EndsBy
<1>8. \A n \in 1..Len(base), k \in 1..Len(base) : n < k => base'[n] + declared'[n] <= base'[k]
  BY <1>3 DEF InOrder, EndsBy
<1>9. \A n \in 1..Len(base') : n = new \/ n \in 1..Len(base)
  BY <1>2
<1>10. \A n \in 1..Len(base'), k \in 1..Len(base') :
         n < k => base'[n] + declared'[n] <= base'[k]
  BY <1>2, <1>7, <1>8, <1>9, SMTT(30)
<1> QED
  BY <1>5, <1>6, <1>9, <1>10 DEF InOrder, EndsBy

\* A node's base and its number of controls are numbers.
LEMMA BaseIsNat == ASSUME StoreInv, NEW n \in 1..Len(base) PROVE base[n] \in Nat
  BY DEF StoreInv, StoreTypeOK
LEMMA DeclaredIsNat == ASSUME StoreInv, NEW n \in 1..Len(base) PROVE declared[n] \in Nat
  BY DEF StoreInv, StoreTypeOK

\* A handle lies between its node's base and what the node ends by.
LEMMA HandleBounds ==
  ASSUME StoreInv, NEW n \in 1..Len(base), NEW h \in Handles(n)
  PROVE  h \in Nat /\ base[n] <= h /\ h < base[n] + declared[n]
<1>1. PICK id \in 0..(declared[n] - 1) : h = base[n] + id
  BY DEF Handles, Handle
<1> QED
  BY <1>1, BaseIsNat, DeclaredIsNat

\* A handle is an index of the store.
LEMMA HandleInStore ==
  ASSUME StoreInv, NEW n \in 1..Len(base), NEW h \in Handles(n)
  PROVE  h \in 0..(length - 1)
<1>1. base[n] + declared[n] <= length /\ length \in Nat
  BY DEF StoreInv, StoreTypeOK, InOrder, EndsBy
<1> QED
  BY <1>1, HandleBounds, BaseIsNat, DeclaredIsNat

\* The handles of an earlier node are below those of a later one.
LEMMA EarlierIsLower ==
  ASSUME StoreInv, NEW n \in 1..Len(base), NEW k \in 1..Len(base), n < k,
         NEW h \in Handles(n), NEW i \in Handles(k)
  PROVE  h < i
<1>1. base[n] + declared[n] <= base[k]
  BY DEF StoreInv, InOrder, EndsBy
<1>2. h \in Nat /\ h < base[n] + declared[n]
  BY HandleBounds
<1>3. i \in Nat /\ base[k] <= i
  BY HandleBounds
<1> QED
  BY <1>1, <1>2, <1>3, BaseIsNat, DeclaredIsNat

\* Two nodes have no handle in common.
LEMMA NodesAreApart ==
  ASSUME StoreInv, NEW n \in 1..Len(base), NEW k \in 1..Len(base), n # k
  PROVE  Handles(n) \cap Handles(k) = {}
<1> SUFFICES ASSUME NEW h \in Handles(n), h \in Handles(k) PROVE FALSE
  OBVIOUS
<1>1. h \in Nat
  BY HandleBounds
<1>2. CASE n < k
  <2>1. h < h
    BY <1>2, EarlierIsLower
  <2> QED
    BY <1>1, <2>1
<1>3. CASE k < n
  <2>1. h < h
    BY <1>3, EarlierIsLower
  <2> QED
    BY <1>1, <2>1
<1> QED
  BY <1>2, <1>3

\* The invariant of the store.
LEMMA StoreInvariant == StoreSpec => []StoreInv
<1>1. StoreInv /\ [Reserve]_storeVars => StoreInv'
  <2> SUFFICES ASSUME StoreInv, [Reserve]_storeVars PROVE StoreInv'
    OBVIOUS
  <2>1. CASE Reserve
    BY <2>1, ReserveTypes, ReserveInOrder DEF StoreInv
  <2>2. CASE UNCHANGED storeVars
    BY <2>2 DEF storeVars, StoreInv, StoreTypeOK, InOrder, EndsBy
  <2> QED
    BY <2>1, <2>2
<1> QED
  BY StoreInitInv, <1>1, PTL DEF StoreSpec

\* Whatever the nodes of a patch declare, a handle names one control: no two
\* parameters share a smoother, no two readouts a scalar, and none lies
\* outside the store (Schedule::param, Schedule::readout).
THEOREM StoreHandlesAreApart == StoreSpec => []HandlesAreApart
<1>1. StoreInv => HandlesAreApart
  BY HandleInStore, NodesAreApart DEF HandlesAreApart, Reserved
<1> QED
  BY <1>1, StoreInvariant, PTL

-----------------------------------------------------------------------------
(* Numbers, and a sequence of sequences end to end.                        *)

\* Induction, on the set of the numbers that have a property.
LEMMA NatSetInduction ==
  ASSUME NEW T \in SUBSET Nat, 0 \in T, \A n \in T : n + 1 \in T
  PROVE  T = Nat
<1> DEFINE U == Nat \ T
<1> SUFFICES ASSUME U # {} PROVE FALSE
  OBVIOUS
<1>1. PICK x \in U : \A y \in U : ~ (<<y, x>> \in OpToRel(<,Nat))
  BY NatLessThanWellFounded, WFMin
<1>2. \A y \in U : ~ (y < x)
  BY <1>1 DEF OpToRel
<1>3. x \in Nat /\ x # 0
  OBVIOUS
<1>4. x - 1 \in T
  BY <1>2, <1>3
<1> QED
  BY <1>3, <1>4

\* Min of numbers is one of them, and the least.
LEMMA SmallestExists ==
  ASSUME NEW s \in SUBSET Nat, s # {}
  PROVE  Min(s) \in s /\ \A y \in s : Min(s) <= y
<1>1. PICK x \in s : \A y \in s : ~ (<<y, x>> \in OpToRel(<,Nat))
  BY NatLessThanWellFounded, WFMin
<1>2. \A y \in s : ~ (y < x)
  BY <1>1 DEF OpToRel
<1>3. \A y \in s : x =< y
  BY <1>2
<1>4. Min(s) \in s /\ \A y \in s : Min(s) =< y
  BY <1>3 DEF Min
<1> QED
  BY <1>4

\* What FlattenSeq computes of the first i sequences of f, from its value g before.
Joined(f, g, i) == IF i = 1 THEN f[i] ELSE g[i-1] \o f[i]
Joining(f, n) == CHOOSE g : g = [i \in 1..n |-> Joined(f, g, i)]

\* FlattenSeq joins one sequence after another.
LEMMA FlattenIsJoining ==
  ASSUME NEW f, Len(f) # 0
  PROVE  FlattenSeq(f) = Joining(f, Len(f))[Len(f)]
  BY DEF FlattenSeq, Joining, Joined

\* The recursion of FlattenSeq has a solution.
LEMMA JoiningExists ==
  ASSUME NEW f, NEW n \in Nat
  PROVE  \E g : g = [i \in 1..n |-> Joined(f, g, i)]
<1> DEFINE T == {k \in Nat : \E g : g = [i \in 1..k |-> Joined(f, g, i)]}
<1>1. 0 \in T
  <2> DEFINE g == [i \in 1..0 |-> f]
  <2>1. g = [i \in 1..0 |-> Joined(f, g, i)]
    OBVIOUS
  <2> QED
    BY <2>1
<1>2. ASSUME NEW k \in T PROVE k + 1 \in T
  <2>1. PICK g : g = [i \in 1..k |-> Joined(f, g, i)]
    OBVIOUS
  <2> DEFINE h == [i \in 1..(k + 1) |-> Joined(f, g, i)]
  <2>2. \A i \in 1..k : h[i] = g[i]
    <3> TAKE i \in 1..k
    <3>1. i \in 1..(k + 1)
      OBVIOUS
    <3>2. h[i] = Joined(f, g, i)
      BY <3>1
    <3>3. g[i] = Joined(f, g, i)
      BY ONLY <2>1, i \in 1..k, Zenon
    <3> QED
      BY <3>2, <3>3
  <2>3. ASSUME NEW i \in 1..(k + 1) PROVE Joined(f, g, i) = Joined(f, h, i)
    <3>1. CASE i = 1
      BY <3>1 DEF Joined
    <3>2. CASE i # 1
      <4>1. i - 1 \in 1..k
        BY <3>2
      <4> HIDE DEF h
      <4> QED
        BY ONLY <2>2, <4>1, <3>2 DEF Joined
    <3> QED
      BY <3>1, <3>2
  <2>4. h = [i \in 1..(k + 1) |-> Joined(f, h, i)]
    BY <2>3
  <2>5. \E u : u = [i \in 1..(k + 1) |-> Joined(f, u, i)]
    <3> HIDE DEF h
    <3> QED
      BY ONLY <2>4
  <2> QED
    BY <2>5
<1>3. T = Nat
  BY <1>1, <1>2, NatSetInduction
<1> QED
  BY <1>3

\* Whatever holds of the first sequence, and with each that is appended, holds
\* of all of them end to end.
LEMMA Flattened ==
  ASSUME NEW f, NEW n \in Nat \ {0}, Len(f) = n, NEW T,
         <<1, f[1]>> \in T,
         \A i \in 1..(n - 1) : \A q : <<i, q>> \in T => <<i + 1, q \o f[i + 1]>> \in T
  PROVE  <<n, FlattenSeq(f)>> \in T
<1> DEFINE g == Joining(f, n)
<1>1. \E h : h = [i \in 1..n |-> Joined(f, h, i)]
  BY JoiningExists
<1>2. g = [i \in 1..n |-> Joined(f, g, i)]
  BY <1>1 DEF Joining
<1> HIDE DEF g
<1>3. \A i \in 1..n : g[i] = Joined(f, g, i)
  BY <1>2, Zenon
<1> DEFINE U == {k \in Nat : k + 1 \in 1..n => <<k + 1, g[k + 1]>> \in T}
<1>4. 0 \in U
  BY <1>3, SMTT(30) DEF Joined
<1>5. ASSUME NEW k \in U PROVE k + 1 \in U
  <2> SUFFICES ASSUME (k + 1) + 1 \in 1..n PROVE <<(k + 1) + 1, g[(k + 1) + 1]>> \in T
    OBVIOUS
  <2>1. k + 1 \in 1..(n - 1) /\ k + 1 \in 1..n
    OBVIOUS
  <2>2. g[(k + 1) + 1] = g[k + 1] \o f[(k + 1) + 1]
    <3>1. (k + 1) + 1 # 1 /\ ((k + 1) + 1) - 1 = k + 1
      OBVIOUS
    <3> QED
      BY ONLY <1>3, <3>1, (k + 1) + 1 \in 1..n DEF Joined
  <2>3. <<k + 1, g[k + 1]>> \in T
    BY <2>1
  <2> QED
    BY ONLY <2>1, <2>2, <2>3, \A i \in 1..(n - 1) : \A q : <<i, q>> \in T => <<i + 1, q \o f[i + 1]>> \in T
<1>6. U = Nat
  BY <1>4, <1>5, NatSetInduction
<1>7. n - 1 \in Nat /\ (n - 1) + 1 = n /\ n \in 1..n
  OBVIOUS
<1>8. FlattenSeq(f) = g[n]
  BY FlattenIsJoining DEF g
<1> QED
  BY <1>6, <1>7, <1>8

\* What the first i sequences of f are, end to end: each of them lies somewhere in q
\* as a whole, nothing else is in q, and nothing is there twice.
LaidOut(f, i, q) ==
  /\ \A j \in 1..i : \E b \in Nat :
       \A k \in 1..Len(f[j]) : b + k \in 1..Len(q) /\ q[b + k] = f[j][k]
  /\ \A x \in 1..Len(q) : \E j \in 1..i : \E k \in 1..Len(f[j]) : q[x] = f[j][k]
  /\ \A x, y \in 1..Len(q) : q[x] = q[y] => x = y

\* No item is in two places of f.
Distinct(f, n) ==
  \A i, j \in 1..n : \A k \in 1..Len(f[i]), l \in 1..Len(f[j]) :
    f[i][k] = f[j][l] => i = j /\ k = l

\* Where the elements of a concatenation stand.
LEMMA Concatenated ==
  ASSUME NEW S, NEW q \in Seq(S), NEW r \in Seq(S)
  PROVE  /\ q \o r \in Seq(S) /\ Len(q \o r) = Len(q) + Len(r)
         /\ Len(q) \in Nat /\ Len(r) \in Nat
         /\ \A k \in 1..Len(q) : (q \o r)[k] = q[k]
         /\ \A k \in 1..Len(r) : (q \o r)[Len(q) + k] = r[k]
<1>1. Len(q) \in Nat /\ Len(r) \in Nat
  BY LenProperties
<1>2. /\ q \o r \in Seq(S) /\ Len(q \o r) = Len(q) + Len(r)
      /\ \A i \in 1..(Len(q) + Len(r)) : (q \o r)[i] = IF i <= Len(q) THEN q[i] ELSE r[i - Len(q)]
  BY ConcatProperties
<1>3. ASSUME NEW k \in 1..Len(q) PROVE (q \o r)[k] = q[k]
  BY ONLY <1>1, <1>2, k \in 1..Len(q)
<1>4. ASSUME NEW k \in 1..Len(r) PROVE (q \o r)[Len(q) + k] = r[k]
  <2>1. Len(q) + k \in 1..(Len(q) + Len(r)) /\ ~ (Len(q) + k <= Len(q)) /\ (Len(q) + k) - Len(q) = k
    BY ONLY <1>1, k \in 1..Len(r)
  <2> QED
    BY ONLY <1>2, <2>1
<1> QED
  BY ONLY <1>1, <1>2, <1>3, <1>4

\* One more sequence at the end.
LEMMA OneMore ==
  ASSUME NEW S, NEW n \in Nat, NEW i \in 1..(n - 1), NEW f,
         \A j \in 1..n : f[j] \in Seq(S), Distinct(f, n),
         NEW q \in Seq(S), LaidOut(f, i, q)
  PROVE  q \o f[i + 1] \in Seq(S) /\ LaidOut(f, i + 1, q \o f[i + 1])
<1>1. i \in 1..n /\ i + 1 \in 1..n /\ 1..(i + 1) = (1..i) \cup {i + 1} /\ 1..i \subseteq 1..n
  OBVIOUS
<1>2. PICK r \in Seq(S) : r = f[i + 1]
  BY ONLY <1>1, \A j \in 1..n : f[j] \in Seq(S)
<1>3. /\ q \o r \in Seq(S) /\ Len(q \o r) = Len(q) + Len(r)
      /\ Len(q) \in Nat /\ Len(r) \in Nat
      /\ \A k \in 1..Len(q) : (q \o r)[k] = q[k]
      /\ \A k \in 1..Len(r) : (q \o r)[Len(q) + k] = r[k]
  BY ONLY Concatenated, q \in Seq(S), r \in Seq(S)
<1>4. PICK qr : qr = q \o r
  OBVIOUS
<1>5. /\ qr \in Seq(S) /\ Len(qr) = Len(q) + Len(r) /\ Len(q) \in Nat /\ Len(r) \in Nat
      /\ \A k \in 1..Len(q) : qr[k] = q[k]
      /\ \A k \in 1..Len(r) : qr[Len(q) + k] = r[k]
  BY ONLY <1>3, <1>4
<1>6. ASSUME NEW x \in 1..Len(qr)
      PROVE  x \in 1..Len(q) \/ \E k \in 1..Len(r) : x = Len(q) + k
  <2>1. CASE x <= Len(q)
    BY ONLY <1>5, <2>1, x \in 1..Len(qr)
  <2>2. CASE ~ (x <= Len(q))
    <3>1. x - Len(q) \in 1..Len(r) /\ x = Len(q) + (x - Len(q))
      BY ONLY <1>5, <2>2, x \in 1..Len(qr)
    <3> QED
      BY ONLY <3>1
  <2> QED
    BY ONLY <2>1, <2>2
<1>7. ASSUME NEW j \in 1..(i + 1)
      PROVE  \E b \in Nat : \A k \in 1..Len(f[j]) : b + k \in 1..Len(qr) /\ qr[b + k] = f[j][k]
  <2>1. CASE j \in 1..i
    <3>1. PICK b \in Nat : \A k \in 1..Len(f[j]) : b + k \in 1..Len(q) /\ q[b + k] = f[j][k]
      BY ONLY LaidOut(f, i, q), <2>1 DEF LaidOut
    <3>2. \A x \in 1..Len(q) : x \in 1..Len(qr)
      BY ONLY <1>5
    <3>3. \A k \in 1..Len(f[j]) : b + k \in 1..Len(qr) /\ qr[b + k] = f[j][k]
      BY ONLY <3>1, <3>2, <1>5
    <3> QED
      BY ONLY <3>3
  <2>2. CASE j = i + 1
    <3>1. \A k \in 1..Len(r) : Len(q) + k \in 1..Len(qr)
      BY ONLY <1>5
    <3>2. \A k \in 1..Len(f[j]) : Len(q) + k \in 1..Len(qr) /\ qr[Len(q) + k] = f[j][k]
      BY ONLY <1>2, <1>5, <2>2, <3>1
    <3> QED
      BY ONLY <3>2, <1>5
  <2> QED
    BY ONLY <1>1, <2>1, <2>2
<1>8. ASSUME NEW x \in 1..Len(qr)
      PROVE  \E j \in 1..(i + 1) : \E k \in 1..Len(f[j]) : qr[x] = f[j][k]
  <2>1. CASE x \in 1..Len(q)
    <3>1. PICK j \in 1..i : \E k \in 1..Len(f[j]) : q[x] = f[j][k]
      BY ONLY LaidOut(f, i, q), <2>1 DEF LaidOut
    <3> QED
      BY ONLY <1>1, <1>5, <2>1, <3>1
  <2>2. CASE \E k \in 1..Len(r) : x = Len(q) + k
    BY ONLY <1>1, <1>2, <1>5, <2>2
  <2> QED
    BY ONLY <1>6, <2>1, <2>2
<1>9. ASSUME NEW x \in 1..Len(q), NEW l \in 1..Len(r) PROVE q[x] # r[l]
  <2>1. PICK j \in 1..i : \E k \in 1..Len(f[j]) : q[x] = f[j][k]
    BY ONLY LaidOut(f, i, q), x \in 1..Len(q) DEF LaidOut
  <2>2. j \in 1..n /\ j # i + 1
    BY ONLY <1>1, j \in 1..i, i \in 1..(n - 1), n \in Nat
  <2> QED
    BY ONLY <1>1, <1>2, <2>1, <2>2, Distinct(f, n), l \in 1..Len(r) DEF Distinct
<1>10. ASSUME NEW x \in 1..Len(qr), NEW y \in 1..Len(qr), qr[x] = qr[y] PROVE x = y
  <2>1. CASE x \in 1..Len(q) /\ y \in 1..Len(q)
    BY ONLY LaidOut(f, i, q), <2>1, <1>5, <1>10 DEF LaidOut
  <2>2. CASE x \in 1..Len(q) /\ \E k \in 1..Len(r) : y = Len(q) + k
    BY ONLY <2>2, <1>5, <1>9, <1>10
  <2>3. CASE y \in 1..Len(q) /\ \E k \in 1..Len(r) : x = Len(q) + k
    BY ONLY <2>3, <1>5, <1>9, <1>10
  <2>4. CASE (\E k \in 1..Len(r) : x = Len(q) + k) /\ (\E k \in 1..Len(r) : y = Len(q) + k)
    <3>1. PICK k \in 1..Len(r), l \in 1..Len(r) : x = Len(q) + k /\ y = Len(q) + l
      BY ONLY <2>4
    <3>2. r[k] = r[l]
      BY ONLY <3>1, <1>5, <1>10
    <3>3. k = l
      BY ONLY <3>2, <1>1, <1>2, Distinct(f, n) DEF Distinct
    <3> QED
      BY ONLY <3>1, <3>3
  <2> QED
    BY ONLY <1>6, <2>1, <2>2, <2>3, <2>4
<1> QED
  BY ONLY <1>2, <1>4, <1>5, <1>7, <1>8, <1>10, ZenonT(60) DEF LaidOut

\* FlattenSeq lays its sequences end to end.
LEMMA FlattenLaysOut ==
  ASSUME NEW S, NEW n \in Nat, NEW f, Len(f) = n, f = <<>> \/ n # 0,
         \A j \in 1..n : f[j] \in Seq(S), Distinct(f, n)
  PROVE  FlattenSeq(f) \in Seq(S) /\ LaidOut(f, n, FlattenSeq(f))
<1>1. CASE n = 0
  <2>1. FlattenSeq(f) = <<>> /\ 1..Len(<<>>) = {} /\ <<>> \in Seq(S) /\ 1..n = {}
    BY <1>1 DEF FlattenSeq
  <2> QED
    BY ONLY <2>1 DEF LaidOut
<1>2. CASE n # 0
  <2> DEFINE T == {p \in (1..n) \X Seq(S) : LaidOut(f, p[1], p[2])}
  <2>1. <<1, f[1]>> \in T
    <3>1. 1 \in 1..n /\ f[1] \in Seq(S) /\ 1..1 = {1} /\ 0 \in Nat
      BY <1>2
    <3>2. \A k \in 1..Len(f[1]) : 0 + k = k
      BY ONLY <3>1, LenProperties
    <3>3. \A x, y \in 1..Len(f[1]) : f[1][x] = f[1][y] => x = y
      BY ONLY <3>1, Distinct(f, n) DEF Distinct
    <3>4. LaidOut(f, 1, f[1])
      BY ONLY <3>1, <3>2, <3>3 DEF LaidOut
    <3> QED
      BY ONLY <3>1, <3>4
  <2>2. ASSUME NEW i \in 1..(n - 1), NEW q, <<i, q>> \in T
        PROVE  <<i + 1, q \o f[i + 1]>> \in T
    <3>1. q \in Seq(S) /\ LaidOut(f, i, q)
      BY ONLY <2>2
    <3>2. q \o f[i + 1] \in Seq(S) /\ LaidOut(f, i + 1, q \o f[i + 1])
      BY ONLY <3>1, OneMore, n \in Nat, i \in 1..(n - 1), Distinct(f, n), \A j \in 1..n : f[j] \in Seq(S)
    <3>3. i + 1 \in 1..n
      OBVIOUS
    <3> QED
      BY ONLY <3>2, <3>3
  <2>3. <<n, FlattenSeq(f)>> \in T
    <3> HIDE DEF T
    <3> QED
      BY ONLY <1>2, <2>1, <2>2, Flattened, n \in Nat, Len(f) = n
  <2> QED
    BY ONLY <2>3
<1> QED
  BY ONLY <1>1, <1>2

-----------------------------------------------------------------------------
(* The pools.                                                              *)

\* The inference is over: every processor has a number of conductors.
Sized == patch \in Patches /\ m \in [Nodes -> Nat \ {0}]

Dirs == {"in", "out"}

LaneOf(n, dir, p, k) ==
  [node |-> n, port |-> p, lane |-> k, domain |-> Directed(n, dir)[p].domain,
   len |-> LaneLen(Directed(n, dir)[p])]

PortLanes(n, dir) ==
  [p \in DOMAIN Directed(n, dir) |-> [k \in 1..LaneCount(n, dir, p) |-> LaneOf(n, dir, p, k)]]

NodeLanes(dir) == [n \in NodeIds |-> FlattenSeq(PortLanes(n, dir))]

AnyLane(dir) == {LaneOf(n, dir, p, k) : n \in NodeIds, p \in Nat, k \in Nat}

LEMMA PoolIs == \A dir : Pool(dir) = FlattenSeq(NodeLanes(dir))
  BY DEF Pool, NodeLanes, PortLanes, LaneOf

\* The ports of a node, each with a lane at least.
LEMMA PortsOf ==
  ASSUME Sized, NEW n \in NodeIds, NEW dir \in Dirs
  PROVE  /\ Directed(n, dir) \in Seq(Face) /\ Len(Directed(n, dir)) \in Nat
         /\ DOMAIN Directed(n, dir) = 1..Len(Directed(n, dir))
         /\ \A p \in 1..Len(Directed(n, dir)) :
              LaneCount(n, dir, p) \in Nat \ {0} /\ Directed(n, dir)[p] \in Face
<1>1. patch.nodes[n].in \in Seq(Face) /\ patch.nodes[n].out \in Seq(Face)
  BY LanesAssumption DEF Sized, NodeIds
<1>2. PICK s \in Seq(Face) : s = Directed(n, dir)
  BY <1>1 DEF Directed, Dirs
<1>3. n \in Nodes
  BY LanesAssumption DEF Sized, NodeIds, Nodes
<1>4. Len(s) \in Nat /\ DOMAIN s = 1..Len(s) /\ \A p \in 1..Len(s) : s[p] \in Face
  BY ONLY s \in Seq(Face), LenProperties, ElementOfSeq
<1>5. \A p \in 1..Len(s) : s[p].lanes \in Nat \ {0}
  BY ONLY <1>4 DEF Face
<1>6. ASSUME NEW p \in 1..Len(s) PROVE LaneCount(n, dir, p) \in Nat \ {0}
  <2>1. m[n] \in Nat \ {0}
    BY <1>3 DEF Sized
  <2> QED
    BY ONLY <1>2, <1>5, <2>1, p \in 1..Len(s) DEF LaneCount
<1> QED
  BY ONLY <1>2, <1>4, <1>6

\* Lanes are told apart by their node, port and number.
LEMMA LanesDiffer ==
  \A dir, n, p, k, n2, p2, k2 :
    LaneOf(n, dir, p, k) = LaneOf(n2, dir, p2, k2) => n = n2 /\ p = p2 /\ k = k2
<1> SUFFICES ASSUME NEW dir, NEW n, NEW p, NEW k, NEW n2, NEW p2, NEW k2,
                    LaneOf(n, dir, p, k) = LaneOf(n2, dir, p2, k2)
             PROVE  n = n2 /\ p = p2 /\ k = k2
  OBVIOUS
<1>1. \A a, b, c : /\ LaneOf(a, dir, b, c).node = a /\ LaneOf(a, dir, b, c).port = b
                   /\ LaneOf(a, dir, b, c).lane = c
  BY DEF LaneOf
<1> QED
  BY ONLY <1>1, LaneOf(n, dir, p, k) = LaneOf(n2, dir, p2, k2)

\* What q is, if it holds the lanes of a node, each port's end to end.
NodeHas(n, dir, q) ==
  /\ q \in Seq(AnyLane(dir))
  /\ \A p \in 1..Len(Directed(n, dir)) : \E b \in Nat : \A k \in 1..LaneCount(n, dir, p) :
       b + k \in 1..Len(q) /\ q[b + k] = LaneOf(n, dir, p, k)
  /\ \A x \in 1..Len(q) :
       \E p \in 1..Len(Directed(n, dir)) : \E k \in 1..LaneCount(n, dir, p) :
         q[x] = LaneOf(n, dir, p, k)
  /\ \A x, y \in 1..Len(q) : q[x] = q[y] => x = y

\* A node's lanes are its own, and each is there once.
LEMMA NodeHolds ==
  ASSUME NEW n, NEW dir, NEW q, NodeHas(n, dir, q), NEW x \in 1..Len(q)
  PROVE  q[x].node = n /\ \A y \in 1..Len(q) : q[x] = q[y] => x = y
<1>1. PICK p : \E k \in 1..LaneCount(n, dir, p) : q[x] = LaneOf(n, dir, p, k)
  BY ONLY NodeHas(n, dir, q), x \in 1..Len(q), Zenon DEF NodeHas
<1>2. \A k : LaneOf(n, dir, p, k).node = n
  BY ONLY DEF LaneOf
<1>3. \A y \in 1..Len(q) : q[x] = q[y] => x = y
  BY DEF NodeHas
<1> QED
  BY ONLY <1>1, <1>2, <1>3

\* The lanes of a node lie port by port.
LEMMA NodeLaidOut ==
  ASSUME Sized, NEW n \in NodeIds, NEW dir \in Dirs
  PROVE  NodeHas(n, dir, NodeLanes(dir)[n])
<1>1. PICK ports \in Nat : /\ ports = Len(Directed(n, dir)) /\ DOMAIN Directed(n, dir) = 1..ports
                           /\ \A p \in 1..ports : LaneCount(n, dir, p) \in Nat \ {0}
  BY PortsOf
<1>2. PICK f : f = PortLanes(n, dir)
  OBVIOUS
<1>3. f = [p \in 1..ports |-> [k \in 1..LaneCount(n, dir, p) |-> LaneOf(n, dir, p, k)]]
  BY ONLY <1>1, <1>2 DEF PortLanes
<1>4. ASSUME NEW p \in 1..ports
      PROVE  /\ f[p] \in Seq(AnyLane(dir)) /\ Len(f[p]) = LaneCount(n, dir, p)
             /\ \A k \in 1..LaneCount(n, dir, p) : f[p][k] = LaneOf(n, dir, p, k)
  <2>1. PICK c \in Nat : c = LaneCount(n, dir, p)
    BY ONLY <1>1, p \in 1..ports
  <2>2. \A k \in 1..c : LaneOf(n, dir, p, k) \in AnyLane(dir)
    BY ONLY n \in NodeIds, ports \in Nat, p \in 1..ports, <2>1 DEF AnyLane
  <2>3. f[p] = [k \in 1..c |-> LaneOf(n, dir, p, k)]
    BY ONLY <1>3, <2>1, p \in 1..ports
  <2> QED
    BY ONLY <2>1, <2>2, <2>3, IsASeq
<1>5. Len(f) = ports /\ (f = <<>> \/ ports # 0)
  BY ONLY <1>3, ports \in Nat
<1>6. Distinct(f, ports)
  <2>1. ASSUME NEW i \in 1..ports, NEW j \in 1..ports,
               NEW k \in 1..Len(f[i]), NEW l \in 1..Len(f[j]), f[i][k] = f[j][l]
        PROVE  i = j /\ k = l
    <3>1. f[i][k] = LaneOf(n, dir, i, k)
      BY ONLY <1>4, i \in 1..ports, k \in 1..Len(f[i])
    <3>2. f[j][l] = LaneOf(n, dir, j, l)
      BY ONLY <1>4, j \in 1..ports, l \in 1..Len(f[j])
    <3>3. LaneOf(n, dir, i, k) = LaneOf(n, dir, j, l)
      BY ONLY <2>1, <3>1, <3>2
    <3> QED
      BY ONLY <3>3, LanesDiffer
  <2> QED
    BY ONLY <2>1 DEF Distinct
<1>7. FlattenSeq(f) \in Seq(AnyLane(dir)) /\ LaidOut(f, ports, FlattenSeq(f))
  BY ONLY <1>4, <1>5, <1>6, ports \in Nat, FlattenLaysOut
<1>8. PICK q \in Seq(AnyLane(dir)) : q = NodeLanes(dir)[n] /\ LaidOut(f, ports, q)
  BY ONLY <1>2, <1>7, n \in NodeIds DEF NodeLanes
<1>9. ASSUME NEW p \in 1..ports
      PROVE  \E b \in Nat : \A k \in 1..LaneCount(n, dir, p) :
               b + k \in 1..Len(q) /\ q[b + k] = LaneOf(n, dir, p, k)
  <2>1. PICK b \in Nat : \A k \in 1..Len(f[p]) : b + k \in 1..Len(q) /\ q[b + k] = f[p][k]
    BY ONLY <1>8, p \in 1..ports DEF LaidOut
  <2> QED
    BY ONLY <2>1, <1>4, p \in 1..ports
<1>10. ASSUME NEW x \in 1..Len(q)
       PROVE  \E p \in 1..ports : \E k \in 1..LaneCount(n, dir, p) : q[x] = LaneOf(n, dir, p, k)
  <2>1. PICK p \in 1..ports : \E k \in 1..Len(f[p]) : q[x] = f[p][k]
    BY ONLY <1>8, x \in 1..Len(q) DEF LaidOut
  <2>2. PICK k \in 1..Len(f[p]) : q[x] = f[p][k]
    BY ONLY <2>1
  <2>3. Len(f[p]) = LaneCount(n, dir, p) /\ \A c \in 1..LaneCount(n, dir, p) : f[p][c] = LaneOf(n, dir, p, c)
    BY ONLY <1>4, p \in 1..ports
  <2> QED
    BY ONLY <2>2, <2>3, p \in 1..ports
<1>11. \A x, y \in 1..Len(q) : q[x] = q[y] => x = y
  BY ONLY <1>8 DEF LaidOut
<1> QED
  BY ONLY <1>1, <1>8, <1>9, <1>10, <1>11, ZenonT(60) DEF NodeHas

\* What a pool is: the lanes of every node end to end, and no others.
PoolHas(dir, pool) ==
  /\ pool \in Seq(AnyLane(dir))
  /\ \A n \in NodeIds : \E b \in Nat : \A k \in 1..Len(NodeLanes(dir)[n]) :
       b + k \in 1..Len(pool) /\ pool[b + k] = NodeLanes(dir)[n][k]
  /\ \A x \in 1..Len(pool) :
       \E n \in NodeIds : \E k \in 1..Len(NodeLanes(dir)[n]) : pool[x] = NodeLanes(dir)[n][k]
  /\ \A x, y \in 1..Len(pool) : pool[x] = pool[y] => x = y

\* The lanes of a pool lie node by node.
LEMMA PoolLaidOut == ASSUME Sized, NEW dir \in Dirs PROVE PoolHas(dir, Pool(dir))
<1>1. PICK f : f = NodeLanes(dir)
  OBVIOUS
<1>2. NodeCount \in Nat /\ NodeIds = 1..NodeCount
  BY LanesAssumption DEF NodeIds
<1>3. Len(f) = NodeCount /\ (f = <<>> \/ NodeCount # 0)
  BY ONLY <1>1, <1>2 DEF NodeLanes
<1>4. \A n \in 1..NodeCount : NodeHas(n, dir, f[n])
  BY ONLY <1>1, <1>2, NodeLaidOut, Sized, dir \in Dirs
<1>5. Distinct(f, NodeCount)
  <2>1. ASSUME NEW i \in 1..NodeCount, NEW j \in 1..NodeCount
        PROVE  \A k \in 1..Len(f[i]), l \in 1..Len(f[j]) : f[i][k] = f[j][l] => i = j /\ k = l
    <3>1. PICK r : r = f[i] /\ NodeHas(i, dir, r)
      BY ONLY <1>4, i \in 1..NodeCount
    <3>2. PICK s : s = f[j] /\ NodeHas(j, dir, s)
      BY ONLY <1>4, j \in 1..NodeCount
    <3>3. ASSUME NEW k \in 1..Len(r), NEW l \in 1..Len(s), r[k] = s[l] PROVE i = j /\ k = l
      <4>1. r[k].node = i /\ s[l].node = j
        BY ONLY <3>1, <3>2, k \in 1..Len(r), l \in 1..Len(s), NodeHolds
      <4>2. i = j
        BY ONLY <3>3, <4>1
      <4>3. l \in 1..Len(r) /\ r[k] = r[l]
        BY ONLY <3>1, <3>2, <3>3, <4>2, l \in 1..Len(s)
      <4> QED
        BY ONLY <3>1, <4>2, <4>3, k \in 1..Len(r), NodeHolds
    <3> QED
      BY ONLY <3>1, <3>2, <3>3
  <2> QED
    BY ONLY <2>1 DEF Distinct
<1>6. FlattenSeq(f) \in Seq(AnyLane(dir)) /\ LaidOut(f, NodeCount, FlattenSeq(f))
  <2>1. \A n \in 1..NodeCount : f[n] \in Seq(AnyLane(dir))
    BY ONLY <1>4 DEF NodeHas
  <2> QED
    BY ONLY <1>2, <1>3, <2>1, <1>5, FlattenLaysOut
<1>7. PICK q \in Seq(AnyLane(dir)) : q = Pool(dir) /\ LaidOut(f, NodeCount, q)
  BY ONLY <1>1, <1>6, PoolIs
<1>8. PoolHas(dir, q)
  <2>1. /\ \A n \in NodeIds : \E b \in Nat : \A k \in 1..Len(f[n]) :
             b + k \in 1..Len(q) /\ q[b + k] = f[n][k]
        /\ \A x \in 1..Len(q) : \E n \in NodeIds : \E k \in 1..Len(f[n]) : q[x] = f[n][k]
        /\ \A x, y \in 1..Len(q) : q[x] = q[y] => x = y
    BY ONLY <1>2, <1>7 DEF LaidOut
  <2> QED
    BY ONLY <1>1, <2>1, q \in Seq(AnyLane(dir)) DEF PoolHas
<1> QED
  BY ONLY <1>7, <1>8

\* Base is where a port's lanes begin, and the lanes of a pool are those of the ports.
LEMMA PoolHolds ==
  ASSUME Sized, NEW n \in NodeIds, NEW dir \in Dirs, NEW p \in 1..Len(Directed(n, dir))
  PROVE  \E b \in Nat : \A k \in 1..LaneCount(n, dir, p) :
           b + k \in 1..Len(Pool(dir)) /\ Pool(dir)[b + k] = LaneOf(n, dir, p, k)
<1>1. PICK q : q = NodeLanes(dir)[n] /\ NodeHas(n, dir, q)
  BY NodeLaidOut
<1>2. PICK b1 \in Nat : \A k \in 1..Len(q) : b1 + k \in 1..Len(Pool(dir)) /\ Pool(dir)[b1 + k] = q[k]
  <2>1. PoolHas(dir, Pool(dir))
    BY PoolLaidOut
  <2> QED
    BY ONLY <1>1, <2>1, n \in NodeIds DEF PoolHas
<1>3. PICK b2 \in Nat : \A k \in 1..LaneCount(n, dir, p) :
                          b2 + k \in 1..Len(q) /\ q[b2 + k] = LaneOf(n, dir, p, k)
  BY ONLY <1>1, p \in 1..Len(Directed(n, dir)) DEF NodeHas
<1>4. LaneCount(n, dir, p) \in Nat
  BY PortsOf
<1>5. ASSUME NEW k \in 1..LaneCount(n, dir, p)
      PROVE  (b1 + b2) + k \in 1..Len(Pool(dir)) /\ Pool(dir)[(b1 + b2) + k] = LaneOf(n, dir, p, k)
  <2>1. b1 + (b2 + k) = (b1 + b2) + k
    BY ONLY <1>4, b1 \in Nat, b2 \in Nat, k \in 1..LaneCount(n, dir, p)
  <2> QED
    BY ONLY <2>1, <1>2, <1>3, k \in 1..LaneCount(n, dir, p)
<1> QED
  BY ONLY <1>5, b1 \in Nat, b2 \in Nat, b1 + b2 \in Nat

\* Nothing else is in a pool.
LEMMA PoolOnly ==
  ASSUME Sized, NEW dir \in Dirs, NEW x \in 1..Len(Pool(dir))
  PROVE  \E n \in NodeIds : \E p \in 1..Len(Directed(n, dir)) :
           \E k \in 1..LaneCount(n, dir, p) : Pool(dir)[x] = LaneOf(n, dir, p, k)
<1>1. PoolHas(dir, Pool(dir))
  BY PoolLaidOut
<1>2. PICK n \in NodeIds : \E k \in 1..Len(NodeLanes(dir)[n]) : Pool(dir)[x] = NodeLanes(dir)[n][k]
  BY ONLY <1>1, x \in 1..Len(Pool(dir)) DEF PoolHas
<1>3. NodeHas(n, dir, NodeLanes(dir)[n])
  BY NodeLaidOut
<1> QED
  BY ONLY <1>2, <1>3 DEF NodeHas

\* What a pool holds at an index is told by the lane's node, port and number.
LEMMA PoolInjective ==
  ASSUME Sized, NEW dir \in Dirs,
         NEW x \in DOMAIN Pool(dir), NEW y \in DOMAIN Pool(dir),
         Pool(dir)[x].node = Pool(dir)[y].node, Pool(dir)[x].port = Pool(dir)[y].port,
         Pool(dir)[x].lane = Pool(dir)[y].lane
  PROVE  x = y
<1>1. PICK q \in Seq(AnyLane(dir)) : q = Pool(dir) /\ PoolHas(dir, q)
  BY PoolLaidOut DEF PoolHas
<1>2. DOMAIN q = 1..Len(q)
  BY ONLY q \in Seq(AnyLane(dir)), LenProperties
<1>3. x \in 1..Len(q) /\ y \in 1..Len(q)
  BY ONLY <1>1, <1>2, x \in DOMAIN Pool(dir), y \in DOMAIN Pool(dir)
<1>4. (\E n, p, k : q[x] = LaneOf(n, dir, p, k)) /\ (\E n, p, k : q[y] = LaneOf(n, dir, p, k))
  <2>1. x \in 1..Len(Pool(dir)) /\ y \in 1..Len(Pool(dir))
    BY ONLY <1>1, <1>3
  <2>2. \E n \in NodeIds : \E p \in 1..Len(Directed(n, dir)) :
          \E k \in 1..LaneCount(n, dir, p) : Pool(dir)[x] = LaneOf(n, dir, p, k)
    BY ONLY <2>1, PoolOnly, Sized, dir \in Dirs
  <2>3. \E n \in NodeIds : \E p \in 1..Len(Directed(n, dir)) :
          \E k \in 1..LaneCount(n, dir, p) : Pool(dir)[y] = LaneOf(n, dir, p, k)
    BY ONLY <2>1, PoolOnly, Sized, dir \in Dirs
  <2> QED
    BY ONLY <1>1, <2>2, <2>3
<1>5. PICK nx, px, kx : q[x] = LaneOf(nx, dir, px, kx)
  BY ONLY <1>4
<1>6. PICK ny, py, ky : q[y] = LaneOf(ny, dir, py, ky)
  BY ONLY <1>4
<1>7. \A n, p, k : /\ LaneOf(n, dir, p, k).node = n /\ LaneOf(n, dir, p, k).port = p
                   /\ LaneOf(n, dir, p, k).lane = k
  BY ONLY DEF LaneOf
<1>8. q[x].node = q[y].node /\ q[x].port = q[y].port /\ q[x].lane = q[y].lane
  BY <1>1
<1>9. nx = ny /\ px = py /\ kx = ky
  BY ONLY <1>5, <1>6, <1>7, <1>8
<1>10. q[x] = q[y]
  BY ONLY <1>5, <1>6, <1>9
<1> QED
  BY ONLY <1>1, <1>3, <1>10 DEF PoolHas

\* Base is the index before a port's first lane.
LEMMA BaseIs ==
  ASSUME Sized, NEW n \in NodeIds, NEW dir \in Dirs, NEW p \in 1..Len(Directed(n, dir))
  PROVE  /\ Base(Pool(dir), n, p) \in Nat
         /\ \A k \in 1..LaneCount(n, dir, p) :
              /\ Base(Pool(dir), n, p) + k \in DOMAIN Pool(dir)
              /\ Pool(dir)[Base(Pool(dir), n, p) + k] = LaneOf(n, dir, p, k)
<1>1. PICK b \in Nat : \A k \in 1..LaneCount(n, dir, p) :
         b + k \in 1..Len(Pool(dir)) /\ Pool(dir)[b + k] = LaneOf(n, dir, p, k)
  BY PoolHolds
<1>2. LaneCount(n, dir, p) \in Nat \ {0}
  BY PortsOf
<1>3. Pool(dir) \in Seq(AnyLane(dir))
  BY PoolLaidOut DEF PoolHas
<1>4. DOMAIN Pool(dir) = 1..Len(Pool(dir))
  BY ONLY <1>3, LenProperties
<1>5. b + 1 \in DOMAIN Pool(dir) /\ Pool(dir)[b + 1] = LaneOf(n, dir, p, 1)
  BY ONLY <1>1, <1>2, <1>4
<1>6. LaneOf(n, dir, p, 1).node = n /\ LaneOf(n, dir, p, 1).port = p /\ LaneOf(n, dir, p, 1).lane = 1
  BY ONLY DEF LaneOf
<1>7. ASSUME NEW i \in DOMAIN Pool(dir),
             Pool(dir)[i].node = n, Pool(dir)[i].port = p, Pool(dir)[i].lane = 1
      PROVE  i = b + 1
  BY <1>5, <1>6, <1>7, PoolInjective
<1>8. (CHOOSE i \in DOMAIN Pool(dir) :
         Pool(dir)[i].node = n /\ Pool(dir)[i].port = p /\ Pool(dir)[i].lane = 1) = b + 1
  BY ONLY <1>5, <1>6, <1>7
<1>9. Base(Pool(dir), n, p) = (b + 1) - 1
  BY ONLY <1>8 DEF Base
<1>10. Base(Pool(dir), n, p) = b
  BY ONLY <1>9, b \in Nat
<1> QED
  BY ONLY <1>1, <1>4, <1>10

-----------------------------------------------------------------------------
(* The steps of a wire.                                                    *)

\* A patch whose wires join what exists and carries the same.
Sound == WiringFault(patch) = NoFault

\* In a sound patch every wire passes the checks of step 2.
LEMMA NoneIsFaulty == ASSUME patch \in Patches, Sound PROVE Faulty(patch) = {}
<1> SUFFICES ASSUME Faulty(patch) # {} PROVE FALSE
  OBVIOUS
<1>1. PICK F : F = Faulty(patch)
  OBVIOUS
<1>2. F \in SUBSET Nat
  BY <1>1, EdgeNumbers DEF Faulty, Edges
<1>3. \E e \in F : \A f \in F : e <= f
  BY ONLY <1>1, <1>2, Faulty(patch) # {}, SmallestExists
<1>4. (CHOOSE e \in F : \A f \in F : e <= f) \in F
  BY ONLY <1>3
<1>5. EdgeFault(patch, patch.edges[CHOOSE e \in F : \A f \in F : e <= f]) # NoFault
  BY ONLY <1>1, <1>4 DEF Faulty
<1> QED
  BY ONLY <1>1, <1>5, Sound, Faulty(patch) # {} DEF Sound, WiringFault, NoFault

\* A wire of a sound patch joins two ports that there are, of one medium.
LEMMA EndsOfAWire ==
  ASSUME Sized, Sound, NEW e \in Edges
  PROVE  LET edge == patch.edges[e] IN
         /\ edge.from \in NodeIds /\ edge.to \in NodeIds
         /\ edge.out \in 1..Len(Directed(edge.from, "out"))
         /\ edge.in \in 1..Len(Directed(edge.to, "in"))
         /\ OutFace(e) = Directed(edge.from, "out")[edge.out]
         /\ InFace(e) = Directed(edge.to, "in")[edge.in]
         /\ OutFace(e) \in Face /\ InFace(e) \in Face
         /\ OutFace(e).domain = InFace(e).domain
<1> DEFINE edge == patch.edges[e]
<1>1. /\ edge.from \in NodeIds /\ edge.to \in NodeIds
      /\ edge.out \in DOMAIN patch.nodes[edge.from].out
      /\ edge.in \in DOMAIN patch.nodes[edge.to].in
  BY PatchesAssumption, LanesAssumption DEF Sized, Edges, NodeIds
<1>2. Directed(edge.from, "out") = patch.nodes[edge.from].out /\ Directed(edge.to, "in") = patch.nodes[edge.to].in
  BY DEF Directed
<1>3. /\ OutFace(e) = Directed(edge.from, "out")[edge.out]
      /\ InFace(e) = Directed(edge.to, "in")[edge.in]
  BY <1>2 DEF OutFace, InFace, OutFaceOf, InFaceOf
<1>4. "in" \in Dirs /\ "out" \in Dirs
  BY DEF Dirs
<1>5. edge.out \in 1..Len(Directed(edge.from, "out")) /\ edge.in \in 1..Len(Directed(edge.to, "in"))
  BY <1>1, <1>2, <1>4, PortsOf
<1>6. OutFace(e) \in Face /\ InFace(e) \in Face
  BY <1>1, <1>3, <1>4, <1>5, PortsOf
<1>7. OutFace(e).domain = InFace(e).domain
  <2>1. Faulty(patch) = {}
    BY NoneIsFaulty DEF Sized
  <2>2. EdgeFault(patch, edge) = NoFault
    BY <2>1 DEF Faulty, Edges
  <2> QED
    BY <2>2 DEF EdgeFault, NoFault, OutFace, InFace
<1> QED
  BY ONLY <1>1, <1>3, <1>5, <1>6, <1>7

\* A wire has a step for each lane of the port it ends at.
LEMMA LanesOfAWire ==
  ASSUME Sized, Sound, NEW e \in Edges
  PROVE  LET edge == patch.edges[e] IN
         /\ LanesAcross(e) = ToLanes(m, e)
         /\ LanesAcross(e) = LaneCount(edge.to, "in", edge.in)
         /\ LaneCount(edge.to, "in", edge.in) \in Nat \ {0}
         /\ LaneCount(edge.from, "out", edge.out) \in Nat \ {0}
<1> DEFINE edge == patch.edges[e]
<1>1. /\ edge.from \in NodeIds /\ edge.to \in NodeIds
      /\ edge.out \in 1..Len(Directed(edge.from, "out"))
      /\ edge.in \in 1..Len(Directed(edge.to, "in"))
      /\ InFace(e) = Directed(edge.to, "in")[edge.in]
      /\ InFace(e) \in Face /\ OutFace(e).domain = InFace(e).domain
  BY EndsOfAWire
<1>2. LaneCount(edge.to, "in", edge.in) \in Nat \ {0} /\ LaneCount(edge.from, "out", edge.out) \in Nat \ {0}
  BY <1>1, PortsOf DEF Dirs
<1>3. ToLanes(m, e) = LaneCount(edge.to, "in", edge.in)
  BY ONLY <1>1 DEF ToLanes, LaneCount
<1>4. CASE OutFace(e).domain \in {"analog", "digital"}
  BY ONLY <1>2, <1>3, <1>4 DEF LanesAcross
<1>5. CASE OutFace(e).domain \notin {"analog", "digital"}
  <2>1. InFace(e).domain \in {"acoustic", "events"} /\ InFace(e).lanes = 1
    BY ONLY <1>1, <1>5, SMTT(30) DEF Face
  <2>2. edge.to \notin PerConductor
    <3>1. Len(patch.nodes[edge.to].in) = 1 => edge.in = 1
      BY ONLY <1>1 DEF Directed
    <3>2. FacesOfItsKind(patch.nodes[edge.to])
      BY <1>1, LanesAssumption DEF Sized, NodeIds
    <3> QED
      BY ONLY <1>1, <2>1, <3>1, <3>2 DEF FacesOfItsKind, PerConductor, Directed
  <2>3. LaneCount(edge.to, "in", edge.in) = 1
    BY ONLY <1>1, <2>1, <2>2 DEF LaneCount
  <2> QED
    BY ONLY <1>2, <1>3, <1>5, <2>3 DEF LanesAcross
<1> QED
  BY ONLY <1>2, <1>4, <1>5

\* A step joins two lanes of the ports it was connected to, of one medium and,
\* unless it is digital and between two rates, of one length.
OneRate(e) == OutFace(e).domain = "digital" => OutFace(e).rate = InFace(e).rate

StepJoins(e, k, step, ins, outs) ==
  /\ step.src \in DOMAIN outs /\ step.dst \in DOMAIN ins
  /\ Owner(outs, step.src) = <<patch.edges[e].from, patch.edges[e].out>>
  /\ Owner(ins, step.dst) = <<patch.edges[e].to, patch.edges[e].in>>
  /\ ins[step.dst].lane = k /\ (step.grounded => FromLanes(m, e) < k)
  /\ outs[step.src].domain = ins[step.dst].domain
  /\ OneRate(e) => (outs[step.src].domain # "events" => outs[step.src].len = ins[step.dst].len)

\* What emit_edge makes of a wire.
LEMMA StepsJoin ==
  ASSUME Sized, Sound, NEW e \in Edges, NEW steps,
         steps = EdgeSteps(e, Pool("in"), Pool("out"))
  PROVE  /\ DOMAIN steps = 1..ToLanes(m, e)
         /\ \A k \in DOMAIN steps : StepJoins(e, k, steps[k], Pool("in"), Pool("out"))
         /\ \A k, l \in DOMAIN steps : steps[k].dst = steps[l].dst => k = l
<1> DEFINE edge == patch.edges[e]
<1>1. PICK ins, outs : ins = Pool("in") /\ outs = Pool("out")
  OBVIOUS
<1>2. PICK a \in Nat : /\ a = Base(outs, edge.from, edge.out)
                       /\ \A k \in 1..LaneCount(edge.from, "out", edge.out) :
                            a + k \in DOMAIN outs /\ outs[a + k] = LaneOf(edge.from, "out", edge.out, k)
  BY <1>1, EndsOfAWire, BaseIs DEF Dirs
<1>3. PICK b \in Nat : /\ b = Base(ins, edge.to, edge.in)
                       /\ \A k \in 1..LaneCount(edge.to, "in", edge.in) :
                            b + k \in DOMAIN ins /\ ins[b + k] = LaneOf(edge.to, "in", edge.in, k)
  BY <1>1, EndsOfAWire, BaseIs DEF Dirs
<1>4. PICK c \in Nat \ {0} : c = LaneCount(edge.from, "out", edge.out)
  BY LanesOfAWire
<1>5. PICK d \in Nat \ {0} : /\ d = LaneCount(edge.to, "in", edge.in)
                             /\ d = LanesAcross(e) /\ d = ToLanes(m, e)
  BY LanesOfAWire
<1>6. steps = [k \in 1..d |-> [src |-> a + Capped(k, c), dst |-> b + k,
                               grounded |-> OutFace(e).domain = "analog" /\ k > c]]
  BY ONLY <1>1, <1>2, <1>3, <1>4, <1>5, steps = EdgeSteps(e, Pool("in"), Pool("out")) DEF EdgeSteps
<1>7. ASSUME NEW k \in 1..d PROVE StepJoins(e, k, steps[k], ins, outs)
  <2>1. Capped(k, c) \in 1..c
    BY ONLY k \in 1..d, d \in Nat \ {0}, c \in Nat \ {0} DEF Capped
  <2>2. PICK j \in 1..c : j = Capped(k, c)
    BY ONLY <2>1
  <2>3. steps[k].src = a + j /\ steps[k].dst = b + k
    BY ONLY <1>6, <2>2, k \in 1..d
  <2>4. a + j \in DOMAIN outs /\ outs[a + j] = LaneOf(edge.from, "out", edge.out, j)
    BY ONLY <1>2, <1>4, j \in 1..c
  <2>5. b + k \in DOMAIN ins /\ ins[b + k] = LaneOf(edge.to, "in", edge.in, k)
    BY ONLY <1>3, <1>5, k \in 1..d
  <2>6. /\ OutFace(e) = Directed(edge.from, "out")[edge.out]
        /\ InFace(e) = Directed(edge.to, "in")[edge.in]
        /\ OutFace(e).domain = InFace(e).domain
    BY EndsOfAWire
  <2>7. /\ outs[a + j].node = edge.from /\ outs[a + j].port = edge.out
        /\ outs[a + j].domain = OutFace(e).domain /\ outs[a + j].len = LaneLen(OutFace(e))
    BY ONLY <2>4, <2>6 DEF LaneOf
  <2>8. /\ ins[b + k].node = edge.to /\ ins[b + k].port = edge.in /\ ins[b + k].lane = k
        /\ ins[b + k].domain = InFace(e).domain /\ ins[b + k].len = LaneLen(InFace(e))
    BY ONLY <2>5, <2>6 DEF LaneOf
  <2>9. ASSUME OneRate(e), OutFace(e).domain # "events" PROVE LaneLen(OutFace(e)) = LaneLen(InFace(e))
    <3>1. CASE OutFace(e).domain = "digital"
      BY ONLY <2>6, <2>9, <3>1 DEF OneRate, LaneLen, Decimation
    <3>2. CASE OutFace(e).domain # "digital"
      BY ONLY <2>6, <2>9, <3>2 DEF LaneLen
    <3> QED
      BY ONLY <3>1, <3>2
  <2>10. steps[k].grounded => FromLanes(m, e) < k
    <3>1. steps[k].grounded => k > c
      BY ONLY <1>6, k \in 1..d
    <3>2. FromLanes(m, e) = LaneCount(edge.from, "out", edge.out)
      BY ONLY <2>6 DEF FromLanes, LaneCount
    <3> QED
      BY ONLY <1>4, <3>1, <3>2, k \in 1..d, d \in Nat \ {0}, c \in Nat \ {0}
  <2> QED
    BY ONLY <2>3, <2>4, <2>5, <2>6, <2>7, <2>8, <2>9, <2>10 DEF StepJoins, Owner
<1>8. ASSUME NEW k \in 1..d, NEW l \in 1..d, steps[k].dst = steps[l].dst PROVE k = l
  <2>1. b + k = b + l
    BY ONLY <1>6, <1>8
  <2> QED
    BY ONLY <2>1, k \in 1..d, l \in 1..d, b \in Nat
<1>9. DOMAIN steps = 1..d
  BY ONLY <1>6
<1> QED
  BY ONLY <1>1, <1>5, <1>7, <1>8, <1>9

\* What Allocate makes of the edges.
PoolsFit(ps) ==
  /\ \A e \in Edges :
       /\ DOMAIN ps.steps[e] = 1..ToLanes(m, e)
       /\ \A k \in DOMAIN ps.steps[e] : StepJoins(e, k, ps.steps[e][k], ps.in, ps.out)
       /\ \A k, l \in DOMAIN ps.steps[e] : ps.steps[e][k].dst = ps.steps[e][l].dst => k = l
  /\ \A i \in ps.event_inputs : \A e \in Edges :
       <<patch.edges[e].to, patch.edges[e].in>> # Owner(ps.in, i)

\* What Allocate makes of the patch.
LEMMA AllocatedFit ==
  ASSUME Sized, Sound, NEW ps,
         ps = [in |-> Pool("in"), out |-> Pool("out"),
               steps |-> [e \in Edges |-> EdgeSteps(e, Pool("in"), Pool("out"))],
               event_inputs |-> OpenEventInputs(Pool("in"))]
  PROVE  PoolsFit(ps)
<1>1. /\ ps.in = Pool("in") /\ ps.out = Pool("out") /\ ps.event_inputs = OpenEventInputs(Pool("in"))
      /\ \A e \in Edges : ps.steps[e] = EdgeSteps(e, Pool("in"), Pool("out"))
  OBVIOUS
<1>2. ASSUME NEW e \in Edges
      PROVE  /\ DOMAIN ps.steps[e] = 1..ToLanes(m, e)
             /\ \A k \in DOMAIN ps.steps[e] : StepJoins(e, k, ps.steps[e][k], ps.in, ps.out)
             /\ \A k, l \in DOMAIN ps.steps[e] : ps.steps[e][k].dst = ps.steps[e][l].dst => k = l
  <2>1. PICK steps : steps = ps.steps[e]
    OBVIOUS
  <2>2. steps = EdgeSteps(e, Pool("in"), Pool("out"))
    BY ONLY <1>1, <2>1, e \in Edges
  <2>3. /\ DOMAIN steps = 1..ToLanes(m, e)
        /\ \A k \in DOMAIN steps : StepJoins(e, k, steps[k], Pool("in"), Pool("out"))
        /\ \A k, l \in DOMAIN steps : steps[k].dst = steps[l].dst => k = l
    BY ONLY <2>2, StepsJoin, Sized, Sound, e \in Edges
  <2> QED
    BY ONLY <1>1, <2>1, <2>3
<1>3. ASSUME NEW i \in ps.event_inputs, NEW e \in Edges
      PROVE  <<patch.edges[e].to, patch.edges[e].in>> # Owner(ps.in, i)
  BY ONLY <1>1, i \in ps.event_inputs, e \in Edges DEF OpenEventInputs, Owner
<1> QED
  BY ONLY <1>2, <1>3 DEF PoolsFit

-----------------------------------------------------------------------------
(* The invariant of compile.                                               *)

\* The errors of the first two steps.
WiringFaults ==
  {"NoOutput", "NodeOutOfRange", "OutputPortOutOfRange", "InputPortOutOfRange", "DomainMismatch"}

Unchecked == {"checking"} \cup WiringFaults

\* No input has two wires.
OneWire ==
  \A e, f \in Edges :
    /\ patch.edges[e].to = patch.edges[f].to
    /\ patch.edges[e].in = patch.edges[f].in
    => e = f

InferInv == InferTyped /\ Forced /\ Unequal /\ RestsBehind /\ WiresFit

\* Every step of compile leaves what those after it build on.
LaneInv ==
  /\ patch \in Patches \cup Broken
  /\ phase \in Unchecked => verdict = "inferring"
  /\ phase = "checking" => InferInit
  /\ phase \notin Unchecked => Sound /\ InferInv
  /\ phase \in {"pooling", "wiring", "sorting", "running"} => Sized
  /\ phase \in {"wiring", "sorting", "running"} => PoolsFit(pools)
  /\ phase \in {"sorting", "running"} => OneWire
  /\ phase = "running" => ~ ClockCrossing

LEMMA FaultNames ==
  ASSUME NEW g, WiringFault(g) # NoFault
  PROVE  WiringFault(g) \in WiringFaults
<1>1. \A edge : EdgeFault(g, edge) \in WiringFaults \cup {NoFault}
  BY ONLY DEF EdgeFault, WiringFaults
<1>2. TapFault(g) \in WiringFaults \cup {NoFault}
  BY ONLY DEF TapFault, WiringFaults
<1>3. PICK edge : WiringFault(g) \in {TapFault(g), NoFault, EdgeFault(g, edge)}
  BY ONLY DEF WiringFault
<1> QED
  BY ONLY <1>1, <1>2, <1>3, WiringFault(g) # NoFault

LEMMA InferInvStarts == ASSUME patch \in Patches, InferInit PROVE InferInv
  BY InitInferTyped, InitForced, InitRests DEF InferInv

LEMMA InferInvStays == ASSUME InferInv, [Infer]_inferVars PROVE InferInv'
  BY StepInferTyped, StepForced, StepUnequal, StepRests, StepWiresFit DEF InferInv

\* What is sound stays so, and what is built stays, while nothing of it changes.
LEMMA Stays ==
  ASSUME UNCHANGED <<patch, inference>>
  PROVE  /\ Sound => Sound'
         /\ InferInv => InferInv'
         /\ Sized => Sized'
         /\ OneWire => OneWire'
         /\ ~ ClockCrossing => ~ ClockCrossing'
         /\ InferInit => InferInit'
<1> USE DEF inference
<1>1. Sound => Sound'
  BY DEF Sound
<1>2. InferInv => InferInv'
  BY InferInvStays DEF inferVars
<1>3. Sized => Sized'
  BY DEF Sized, Nodes
<1>4. OneWire => OneWire'
  BY DEF OneWire, Edges
<1>5. ~ ClockCrossing => ~ ClockCrossing'
  BY DEF ClockCrossing, Edges, OutFace, InFace
<1>6. InferInit => InferInit'
  BY DEF InferInit, Nodes
<1> QED
  BY ONLY <1>1, <1>2, <1>3, <1>4, <1>5, <1>6

LEMMA PoolsStay ==
  ASSUME PoolsFit(pools), UNCHANGED <<patch, inference, pools>>
  PROVE  PoolsFit(pools)'
<1>1. Edges' = Edges /\ patch' = patch /\ pools' = pools /\ m' = m
  BY DEF Edges, inference
<1>2. \A e \in Edges : ToLanes(m, e)' = ToLanes(m, e)
  BY <1>1 DEF ToLanes, PerConductor, Nodes, InFace
<1>3. \A e \in Edges : OneRate(e)' <=> OneRate(e)
  BY <1>1 DEF OneRate, OutFace, InFace
<1>6. \A e \in Edges : FromLanes(m, e)' = FromLanes(m, e)
  BY <1>1, SMTT(30) DEF FromLanes, PerConductor, Nodes, OutFace
<1>4. \A e \in Edges : \A k \in DOMAIN pools.steps[e] :
        StepJoins(e, k, pools.steps[e][k], pools.in, pools.out)'
          <=> StepJoins(e, k, pools.steps[e][k], pools.in, pools.out)
  BY <1>1, <1>3, <1>6 DEF StepJoins, Owner
<1>5. \A i : Owner(pools.in, i)' = Owner(pools.in, i)
  BY <1>1 DEF Owner
<1> QED
  BY <1>1, <1>2, <1>4, <1>5 DEF PoolsFit

\* It holds at the start.
LEMMA LaneInvStarts == Init => LaneInv
<1> SUFFICES ASSUME Init PROVE LaneInv
  OBVIOUS
<1>1. patch \in Patches \cup Broken /\ InferInit /\ phase = "checking"
  BY DEF Init
<1>2. verdict = "inferring"
  BY <1>1 DEF InferInit
<1> QED
  BY ONLY <1>1, <1>2 DEF LaneInv, Unchecked

\* Steps 1 and 2 keep it.
LEMMA CheckKeeps == ASSUME LaneInv, Check PROVE LaneInv'
<1>1. /\ phase = "checking" /\ UNCHANGED <<patch, inference, pools>>
      /\ phase' = IF WiringFault(patch) = NoFault THEN "inferring" ELSE WiringFault(patch)
  BY DEF Check
<1>2. verdict = "inferring" /\ InferInit /\ patch \in Patches \cup Broken
  BY ONLY <1>1, LaneInv DEF LaneInv, Unchecked
<1>3. verdict' = "inferring" /\ patch' \in Patches \cup Broken
  BY ONLY <1>1, <1>2 DEF inference
<1>4. CASE WiringFault(patch) = NoFault
  <2>1. patch \in Patches /\ Sound
    BY <1>2, <1>4, LanesAssumption DEF Sound
  <2>2. Sound' /\ InferInv'
    BY <1>1, <1>2, <2>1, InferInvStarts, Stays
  <2>3. phase' = "inferring"
    BY ONLY <1>1, <1>4
  <2> QED
    BY ONLY <1>3, <2>2, <2>3 DEF LaneInv, Unchecked, WiringFaults
<1>5. CASE WiringFault(patch) # NoFault
  <2>1. phase' \in WiringFaults
    BY ONLY <1>1, <1>5, FaultNames
  <2> QED
    BY ONLY <1>3, <2>1 DEF LaneInv, Unchecked, WiringFaults
<1> QED
  BY ONLY <1>4, <1>5

\* Step 3 keeps it.
LEMMA InferenceKeeps == ASSUME LaneInv, InferConductors PROVE LaneInv'
<1>1. /\ phase = "inferring" /\ Infer
      /\ phase' = CASE verdict' = "inferring" -> phase
                    [] verdict' = "solved" -> "pooling"
                    [] OTHER -> verdict'
  BY DEF InferConductors
<1>2. Sound /\ InferInv /\ patch \in Patches \cup Broken
  BY ONLY <1>1, LaneInv DEF LaneInv, Unchecked, WiringFaults
<1>3. patch' = patch
  BY <1>1 DEF Infer, Visit, LaneCountMismatch, SweepAgain, Settle
<1>4. InferInv' /\ Sound'
  BY <1>1, <1>2, <1>3, InferInvStays DEF Sound
<1>5. verdict' \in {"inferring", "solved", "LaneCountMismatch"}
  BY <1>4 DEF InferInv, InferTyped, InferTypeOK
<1>6. CASE verdict' = "solved"
  <2>1. Settle
    BY <1>1, <1>6 DEF Infer, Visit, LaneCountMismatch, SweepAgain
  <2>2. m' \in [Nodes -> Nat \ {0}]
    <3>1. m \in [Nodes -> Nat] /\ m' = [n \in Nodes |-> IF m[n] = Unknown THEN 1 ELSE m[n]]
      BY <1>2, <2>1 DEF Settle, InferInv, InferTyped, InferTypeOK
    <3> QED
      BY ONLY <3>1 DEF Unknown
  <2>3. Sized'
    BY <1>2, <1>3, <2>2 DEF Sized, InferInv, InferTyped, Nodes
  <2>4. phase' = "pooling"
    BY ONLY <1>1, <1>6
  <2> QED
    BY ONLY <1>2, <1>3, <1>4, <2>3, <2>4 DEF LaneInv, Unchecked, WiringFaults
<1>7. CASE verdict' # "solved"
  <2>1. phase' \in {"inferring", "LaneCountMismatch"}
    BY ONLY <1>1, <1>5, <1>7
  <2> QED
    BY ONLY <1>2, <1>3, <1>4, <2>1 DEF LaneInv, Unchecked, WiringFaults
<1> QED
  BY ONLY <1>6, <1>7

\* What every later step keeps.
LEMMA LaterKeeps ==
  ASSUME LaneInv, UNCHANGED <<patch, inference>>, phase \notin Unchecked
  PROVE  /\ patch' \in Patches \cup Broken /\ Sound' /\ InferInv'
         /\ Sized => Sized'
         /\ OneWire => OneWire'
         /\ ~ ClockCrossing => ~ ClockCrossing'
  BY Stays DEF LaneInv

\* Steps 4 and 5b keep it.
LEMMA AllocateKeeps == ASSUME LaneInv, Allocate PROVE LaneInv'
<1>1. /\ phase = "pooling" /\ phase' = "wiring" /\ UNCHANGED <<patch, inference>>
      /\ pools' = [in |-> Pool("in"), out |-> Pool("out"),
                   steps |-> [e \in Edges |-> EdgeSteps(e, Pool("in"), Pool("out"))],
                   event_inputs |-> OpenEventInputs(Pool("in"))]
  BY DEF Allocate
<1>2. Sized /\ Sound /\ phase \notin Unchecked
  BY ONLY <1>1, LaneInv DEF LaneInv, Unchecked, WiringFaults
<1>3. PICK ps : ps = pools' /\ PoolsFit(ps)
  BY <1>1, <1>2, AllocatedFit
<1>4. PoolsFit(ps)'
  <2>1. Edges' = Edges /\ patch' = patch /\ m' = m
    BY <1>1 DEF Edges, inference
  <2>2. \A e \in Edges : ToLanes(m, e)' = ToLanes(m, e)
    BY <2>1 DEF ToLanes, PerConductor, Nodes, InFace
  <2>3. \A e \in Edges : OneRate(e)' <=> OneRate(e)
    BY <2>1 DEF OneRate, OutFace, InFace
  <2>5. \A e \in Edges : FromLanes(m, e)' = FromLanes(m, e)
    BY <2>1 DEF FromLanes, PerConductor, Nodes, OutFace
  <2>4. \A e \in Edges : \A k \in DOMAIN ps.steps[e] :
          StepJoins(e, k, ps.steps[e][k], ps.in, ps.out)' <=> StepJoins(e, k, ps.steps[e][k], ps.in, ps.out)
    BY <2>1, <2>3, <2>5 DEF StepJoins
  <2> QED
    BY <1>3, <2>1, <2>2, <2>4 DEF PoolsFit
<1>5. PoolsFit(pools)'
  BY <1>3, <1>4 DEF PoolsFit
<1>6. patch' \in Patches \cup Broken /\ Sound' /\ InferInv' /\ Sized'
  BY ONLY <1>1, <1>2, LaterKeeps, LaneInv
<1> QED
  BY ONLY <1>1, <1>5, <1>6 DEF LaneInv, Unchecked, WiringFaults

\* An error is the end of it.
LEMMA ErrorKeeps ==
  ASSUME LaneInv, UNCHANGED <<patch, inference>>, phase \notin Unchecked,
         phase' \notin Unchecked \cup {"pooling", "wiring", "sorting", "running"}
  PROVE  LaneInv'
<1>1. patch' \in Patches \cup Broken /\ Sound' /\ InferInv'
  BY LaterKeeps
<1>2. phase' # "checking"
  BY DEF Unchecked
<1> QED
  BY ONLY <1>1, <1>2, phase' \notin Unchecked \cup {"pooling", "wiring", "sorting", "running"} DEF LaneInv

\* So it is with a step that leaves the pools, to a later phase or the same.
LEMMA PoolsKept ==
  ASSUME LaneInv, UNCHANGED <<patch, inference, pools>>, phase \in {"wiring", "sorting", "running"},
         phase' \in {"sorting", "running"}, phase = "wiring" => OneWire,
         phase' = "running" => ~ ClockCrossing
  PROVE  LaneInv'
<1>1. phase \notin Unchecked /\ phase' \notin Unchecked
  BY DEF Unchecked, WiringFaults
<1>2. Sized /\ PoolsFit(pools) /\ OneWire
  BY DEF LaneInv
<1>3. /\ patch' \in Patches \cup Broken /\ Sound' /\ InferInv' /\ Sized' /\ OneWire'
      /\ ~ ClockCrossing => ~ ClockCrossing'
  BY ONLY <1>1, <1>2, LaterKeeps, LaneInv, UNCHANGED <<patch, inference, pools>>
<1>4. PoolsFit(pools)'
  BY ONLY <1>2, PoolsStay, UNCHANGED <<patch, inference, pools>>
<1>5. phase' \in {"sorting", "running"} /\ (phase' = "running" => ~ ClockCrossing')
  BY ONLY <1>3, phase' \in {"sorting", "running"}, phase' = "running" => ~ ClockCrossing
<1> QED
  BY ONLY <1>1, <1>3, <1>4, <1>5 DEF LaneInv, Unchecked

\* Step 5 keeps it: no input is left with two wires.
LEMMA WiredKeeps == ASSUME LaneInv, Wired PROVE LaneInv'
<1>1. /\ phase = "wiring" /\ phase' = "sorting" /\ UNCHANGED <<patch, inference, pools>>
      /\ Ports!Wired
  BY DEF Wired
<1>2. Sound /\ Sized
  BY ONLY <1>1, LaneInv DEF LaneInv, Unchecked, WiringFaults
<1>3. PortGraph(patch) =
        [e \in Edges |->
           [from |-> patch.edges[e].from, to |-> patch.edges[e].to, port |-> patch.edges[e].in,
            domain |-> OutFace(e).domain, delayed |-> patch.edges[e].delayed]]
  BY <1>2 DEF PortGraph, Sound, Edges, OutFace
<1>4. \A e, f \in DOMAIN PortGraph(patch) :
        <<PortGraph(patch)[e].to, PortGraph(patch)[e].port>>
          = <<PortGraph(patch)[f].to, PortGraph(patch)[f].port>> => e = f
  BY ONLY <1>1 DEF Ports!Wired, Ports!EdgeIds, Ports!Input
<1>5. OneWire
  <2>1. PICK g : g = PortGraph(patch)
    OBVIOUS
  <2>2. DOMAIN g = Edges /\ \A e \in Edges : g[e].to = patch.edges[e].to /\ g[e].port = patch.edges[e].in
    BY ONLY <1>3, <2>1
  <2>3. \A e, f \in Edges : <<g[e].to, g[e].port>> = <<g[f].to, g[f].port>> => e = f
    BY ONLY <1>4, <2>1, <2>2
  <2> QED
    BY ONLY <2>2, <2>3 DEF OneWire
<1> QED
  BY <1>1, <1>5, PoolsKept

\* Each of the steps keeps the invariant.
LEMMA LaneStep == ASSUME LaneInv, [Next]_vars PROVE LaneInv'
<1> USE DEF Unchecked, WiringFaults
<1>1. CASE Check
  BY <1>1, CheckKeeps
<1>2. CASE InferConductors
  BY <1>2, InferenceKeeps
<1>3. CASE Allocate
  BY <1>3, AllocateKeeps
<1>4. CASE CannotAllocate
  <2>1. phase = "pooling" /\ phase' = AllocFault /\ AllocFault # NoFault /\ UNCHANGED <<patch, inference>>
    BY <1>4 DEF CannotAllocate
  <2>2. AllocFault \in {NoFault, "RateIndivisible", "BlockLenIndivisible"}
    BY ONLY DEF AllocFault
  <2> QED
    BY <2>1, <2>2, ErrorKeeps
<1>5. CASE Wired
  BY <1>5, WiredKeeps
<1>6. CASE InputAlreadyConnected
  <2>1. phase = "wiring" /\ phase' = "conflict" /\ UNCHANGED <<patch, inference>>
    BY <1>6 DEF InputAlreadyConnected
  <2> QED
    BY <2>1, ErrorKeeps
<1>7. CASE Sort
  <2>1. phase = "sorting" /\ phase' = phase /\ UNCHANGED <<patch, inference, pools>>
    BY <1>7 DEF Sort
  <2> QED
    BY <2>1, PoolsKept
<1>8. CASE RejectCycle
  <2>1. phase = "sorting" /\ phase' = "cycle" /\ UNCHANGED <<patch, inference>>
    BY <1>8 DEF RejectCycle
  <2> QED
    BY <2>1, ErrorKeeps
<1>9. CASE RejectClockCrossing
  <2>1. phase = "sorting" /\ phase' = "ClockCrossingUnsupported" /\ UNCHANGED <<patch, inference>>
    BY <1>9 DEF RejectClockCrossing, Sorted
  <2> QED
    BY <2>1, ErrorKeeps
<1>10. CASE RejectPhantomFanIn
  <2>1. phase = "sorting" /\ phase' = "PhantomFanIn" /\ UNCHANGED <<patch, inference>>
    BY <1>10 DEF RejectPhantomFanIn, Sorted
  <2> QED
    BY <2>1, ErrorKeeps
<1>11. CASE Compiled
  <2>1. phase = "sorting" /\ phase' = "running" /\ ~ ClockCrossing /\ UNCHANGED <<patch, inference, pools>>
    BY <1>11 DEF Compiled, Sorted
  <2> QED
    BY <2>1, PoolsKept
<1>12. CASE RunDelayedSteps \/ RunNode \/ EndBlock
  <2>1. phase = "running" /\ phase' = phase /\ UNCHANGED <<patch, inference, pools>>
    BY <1>12 DEF RunDelayedSteps, RunNode, EndBlock
  <2>2. ~ ClockCrossing
    BY <2>1 DEF LaneInv
  <2> QED
    BY <2>1, <2>2, PoolsKept
<1>13. CASE UNCHANGED vars
  <2>1. UNCHANGED <<patch, inference, phase, pools>>
    BY <1>13 DEF vars
  <2>2. verdict' = verdict /\ patch' = patch
    BY <2>1 DEF inference
  <2>3. /\ Sound => Sound'
        /\ InferInv => InferInv'
        /\ Sized => Sized'
        /\ OneWire => OneWire'
        /\ ~ ClockCrossing => ~ ClockCrossing'
        /\ InferInit => InferInit'
    BY ONLY <2>1, Stays
  <2>4. PoolsFit(pools) => PoolsFit(pools)'
    BY ONLY <2>1, PoolsStay
  <2> QED
    BY ONLY <2>1, <2>2, <2>3, <2>4, LaneInv DEF LaneInv
<1> QED
  BY <1>1, <1>2, <1>3, <1>4, <1>5, <1>6, <1>7, <1>8, <1>9, <1>10, <1>11, <1>12, <1>13
     DEF Next, Compile

\* It is an invariant of compile and process_io.
LEMMA LaneInvariant == Spec => []LaneInv
<1>1. LaneInv /\ [Next]_vars => LaneInv'
  BY LaneStep
<1> QED
  BY LaneInvStarts, <1>1, PTL DEF Spec

\* No lane has two writers, and one that the host writes has none.
LEMMA OneWriter ==
  ASSUME PoolsFit(pools), OneWire, NEW i \in DOMAIN pools.in
  PROVE  Cardinality(Writers(i)) <= (IF i \in pools.event_inputs THEN 0 ELSE 1)
<1>1. \A w \in Writers(i) : \E e \in Edges : \E k \in DOMAIN pools.steps[e] :
         w = <<e, k>> /\ pools.steps[e][k].dst = i
  BY DEF Writers
<1>2. ASSUME NEW e \in Edges, NEW k \in DOMAIN pools.steps[e], pools.steps[e][k].dst = i
      PROVE  Owner(pools.in, i) = <<patch.edges[e].to, patch.edges[e].in>>
  BY <1>2 DEF PoolsFit, StepJoins
<1>3. CASE i \in pools.event_inputs
  <2>1. Writers(i) = {}
    BY <1>1, <1>2, <1>3 DEF PoolsFit
  <2> QED
    BY <1>3, <2>1, FS_EmptySet
<1>4. CASE i \notin pools.event_inputs
  <2>1. ASSUME NEW w \in Writers(i), NEW v \in Writers(i) PROVE w = v
    <3>1. PICK e \in Edges : \E k \in DOMAIN pools.steps[e] : w = <<e, k>> /\ pools.steps[e][k].dst = i
      BY <1>1
    <3>2. PICK f \in Edges : \E k \in DOMAIN pools.steps[f] : v = <<f, k>> /\ pools.steps[f][k].dst = i
      BY <1>1
    <3>3. /\ Owner(pools.in, i) = <<patch.edges[e].to, patch.edges[e].in>>
          /\ Owner(pools.in, i) = <<patch.edges[f].to, patch.edges[f].in>>
      BY <1>2, <3>1, <3>2
    <3>4. e = f
      BY ONLY <3>3, OneWire, e \in Edges, f \in Edges DEF OneWire
    <3>5. \A k, l \in DOMAIN pools.steps[e] : pools.steps[e][k].dst = pools.steps[e][l].dst => k = l
      BY ONLY PoolsFit(pools), e \in Edges DEF PoolsFit
    <3> QED
      BY ONLY <3>1, <3>2, <3>4, <3>5
  <2>2. Writers(i) = {} \/ \E w : Writers(i) = {w}
    BY ONLY <2>1
  <2>3. Cardinality({}) = 0 /\ \A w : Cardinality({w}) = 1
    BY ONLY FS_EmptySet, FS_Singleton
  <2>4. Cardinality(Writers(i)) = 0 \/ Cardinality(Writers(i)) = 1
    <3>1. CASE Writers(i) = {}
      BY ONLY <2>3, <3>1
    <3>2. CASE \E w : Writers(i) = {w}
      <4>1. PICK w : Writers(i) = {w}
        BY ONLY <3>2
      <4>2. Cardinality({w}) = 1
        BY ONLY <2>3
      <4> QED
        BY ONLY <4>1, <4>2
    <3> QED
      BY ONLY <2>2, <3>1, <3>2
  <2> QED
    BY ONLY <1>4, <2>4
<1> QED
  BY ONLY <1>3, <1>4

\* Every leg of every wire is served and no step reaches a lane that is not its own,
\* whatever is patched (emit_edge, Schedule::process_io).
THEOREM SpecStepsFit == Spec => []StepsFit
<1>1. ASSUME LaneInv PROVE StepsFit
  <2> SUFFICES ASSUME phase = "running" PROVE StepsFit
    BY DEF StepsFit
  <2>1. PoolsFit(pools) /\ OneWire /\ ~ ClockCrossing
    BY <1>1 DEF LaneInv
  <2>2. \A e \in Edges : OneRate(e)
    BY <2>1 DEF ClockCrossing, OneRate
  <2>3. \A e \in Edges : /\ DOMAIN pools.steps[e] = 1..ToLanes(m, e)
                         /\ \A k \in DOMAIN pools.steps[e] : StepJoins(e, k, pools.steps[e][k], pools.in, pools.out)
    BY ONLY <2>1 DEF PoolsFit
  <2>4. \A i \in DOMAIN pools.in :
          Cardinality(Writers(i)) <= (IF i \in pools.event_inputs THEN 0 ELSE 1)
    BY ONLY <2>1, OneWriter
  <2> QED
    BY ONLY <2>2, <2>3, <2>4 DEF StepsFit, StepJoins
<1> QED
  BY <1>1, LaneInvariant, PTL

\* No patch that can be wired with equal ends is refused for its widths, by compile too
\* (infer_conductors).
THEOREM SpecEqualWidthsCompile == Spec => []EqualEndsAreAccepted
<1>1. ASSUME LaneInv PROVE EqualEndsAreAccepted
  <2>1. CASE phase \in Unchecked
    BY <1>1, <2>1 DEF LaneInv, EqualEndsAreAccepted
  <2>2. CASE phase \notin Unchecked
    <3>1. Unequal
      BY <1>1, <2>2 DEF LaneInv, InferInv
    <3>2. [Nodes -> 1..2] \subseteq Multiplicities
      BY DEF Multiplicities
    <3> QED
      BY <3>1, <3>2 DEF Unequal, EqualEndsAreAccepted
  <2> QED
    BY <2>1, <2>2
<1> QED
  BY <1>1, LaneInvariant, PTL

-----------------------------------------------------------------------------
(* The shape of a pool.                                                    *)

\* The lanes of a pool are those of the ports, each once, and a port's end to end.
LanesArePorts(pool, dir) ==
  \A x \in DOMAIN pool :
    /\ x \in Nat /\ pool[x].node \in NodeIds
    /\ pool[x].port \in 1..Len(Directed(pool[x].node, dir))
    /\ pool[x].lane \in 1..LaneCount(pool[x].node, dir, pool[x].port)
    /\ pool[x].domain = Directed(pool[x].node, dir)[pool[x].port].domain

EachOnce(pool) ==
  \A x, y \in DOMAIN pool :
    pool[x].node = pool[y].node /\ pool[x].port = pool[y].port /\ pool[x].lane = pool[y].lane
    => x = y

StretchOf(pool, n, p, lanes) ==
  \E b \in Nat : \A k \in lanes :
    /\ b + k \in DOMAIN pool
    /\ pool[b + k].node = n /\ pool[b + k].port = p /\ pool[b + k].lane = k

EndToEnd(pool, dir) ==
  \A n \in NodeIds : \A p \in 1..Len(Directed(n, dir)) :
    StretchOf(pool, n, p, 1..LaneCount(n, dir, p))

Shaped(pool, dir) == LanesArePorts(pool, dir) /\ EachOnce(pool) /\ EndToEnd(pool, dir)

\* The pools that compile makes have this shape.
LEMMA PoolShaped ==
  ASSUME Sized, NEW dir \in Dirs, NEW pool, pool = Pool(dir)
  PROVE  Shaped(pool, dir)
<1>1. \A n, p, k : /\ LaneOf(n, dir, p, k).node = n /\ LaneOf(n, dir, p, k).port = p
                   /\ LaneOf(n, dir, p, k).lane = k
                   /\ LaneOf(n, dir, p, k).domain = Directed(n, dir)[p].domain
  BY ONLY DEF LaneOf
<1>2. LanesArePorts(pool, dir)
  <2>1. ASSUME NEW x \in DOMAIN pool
        PROVE  x \in Nat /\ \E n \in NodeIds : \E p \in 1..Len(Directed(n, dir)) :
                 \E k \in 1..LaneCount(n, dir, p) : pool[x] = LaneOf(n, dir, p, k)
    <3>1. Pool(dir) \in Seq(AnyLane(dir))
      BY PoolLaidOut DEF PoolHas
    <3>2. DOMAIN Pool(dir) = 1..Len(Pool(dir)) /\ Len(Pool(dir)) \in Nat
      BY ONLY <3>1, LenProperties
    <3>3. x \in 1..Len(Pool(dir)) /\ x \in Nat
      BY ONLY <3>2, pool = Pool(dir), x \in DOMAIN pool
    <3> QED
      BY ONLY <3>3, PoolOnly, Sized, dir \in Dirs, pool = Pool(dir)
  <2>2. ASSUME NEW x \in DOMAIN pool, NEW n \in NodeIds, NEW p \in 1..Len(Directed(n, dir)),
               NEW k \in 1..LaneCount(n, dir, p), pool[x] = LaneOf(n, dir, p, k)
        PROVE  /\ pool[x].node = n /\ pool[x].port = p /\ pool[x].lane = k
               /\ pool[x].domain = Directed(n, dir)[p].domain
    BY ONLY <1>1, <2>2
  <2> QED
    BY ONLY <2>1, <2>2 DEF LanesArePorts
<1>3. EachOnce(pool)
  BY PoolInjective DEF EachOnce
<1>4. EndToEnd(pool, dir)
  <2> SUFFICES ASSUME NEW n \in NodeIds, NEW p \in 1..Len(Directed(n, dir))
               PROVE  \E b \in Nat : \A k \in 1..LaneCount(n, dir, p) :
                        /\ b + k \in DOMAIN pool
                        /\ pool[b + k].node = n /\ pool[b + k].port = p /\ pool[b + k].lane = k
    BY DEF EndToEnd, StretchOf
  <2>1. /\ Base(pool, n, p) \in Nat
        /\ \A k \in 1..LaneCount(n, dir, p) :
             Base(pool, n, p) + k \in DOMAIN pool /\ pool[Base(pool, n, p) + k] = LaneOf(n, dir, p, k)
    BY BaseIs
  <2>2. PICK b \in Nat : b = Base(pool, n, p)
    BY ONLY <2>1
  <2>3. \A k \in 1..LaneCount(n, dir, p) :
          /\ b + k \in DOMAIN pool
          /\ pool[b + k].node = n /\ pool[b + k].port = p /\ pool[b + k].lane = k
    BY ONLY <1>1, <2>1, <2>2
  <2> QED
    BY ONLY <2>3
<1> QED
  BY ONLY <1>2, <1>3, <1>4 DEF Shaped

\* A node's only port fills its slice.
LEMMA OnlyPort ==
  ASSUME Sized, NEW dir \in Dirs, NEW pool, Shaped(pool, dir),
         NEW n \in NodeIds, Len(Directed(n, dir)) = 1
  PROVE  /\ LaneCount(n, dir, 1) \in Nat \ {0}
         /\ Offset(pool, n) \in Nat
         /\ \A k : k \in 1..LaneCount(n, dir, 1) <=>
                     k \in {i - Offset(pool, n) : i \in Slice(pool, n)}
         /\ \A k \in 1..LaneCount(n, dir, 1) :
              Offset(pool, n) + k \in DOMAIN pool
                /\ pool[Offset(pool, n) + k].node = n /\ pool[Offset(pool, n) + k].port = 1
         /\ \A i \in Slice(pool, n) : i - Offset(pool, n) \in 1..LaneCount(n, dir, 1)
<1>1. PICK c \in Nat \ {0} : c = LaneCount(n, dir, 1)
  BY PortsOf
<1>2. 1 \in 1..Len(Directed(n, dir))
  BY ONLY Len(Directed(n, dir)) = 1
<1>3. PICK b \in Nat : \A k \in 1..c : /\ b + k \in DOMAIN pool
                                       /\ pool[b + k].node = n /\ pool[b + k].port = 1 /\ pool[b + k].lane = k
  <2>1. \A p \in 1..Len(Directed(n, dir)) :
          \E b \in Nat : \A k \in 1..LaneCount(n, dir, p) :
            /\ b + k \in DOMAIN pool
            /\ pool[b + k].node = n /\ pool[b + k].port = p /\ pool[b + k].lane = k
    BY ONLY Shaped(pool, dir), n \in NodeIds DEF Shaped, EndToEnd, StretchOf
  <2> QED
    BY ONLY <1>1, <1>2, <2>1, ZenonT(60)
<1>4. ASSUME NEW x \in DOMAIN pool, pool[x].node = n PROVE \E k \in 1..c : x = b + k
  <2>1. pool[x].port \in 1..1 /\ pool[x].lane \in 1..LaneCount(n, dir, pool[x].port)
    BY ONLY <1>4, Shaped(pool, dir), Len(Directed(n, dir)) = 1 DEF Shaped, LanesArePorts
  <2>2. pool[x].port = 1 /\ pool[x].lane \in 1..c
    BY ONLY <1>1, <2>1
  <2>3. PICK k \in 1..c : k = pool[x].lane
    BY ONLY <2>2
  <2>4. x = b + k
    BY ONLY <1>3, <1>4, <2>2, <2>3, Shaped(pool, dir), x \in DOMAIN pool, k \in 1..c DEF Shaped, EachOnce
  <2> QED
    BY ONLY <2>4
<1>5. PICK s : s = Slice(pool, n)
  OBVIOUS
<1>6. s \in SUBSET Nat /\ \A i : i \in s <=> \E k \in 1..c : i = b + k
  BY ONLY <1>3, <1>4, <1>5, b \in Nat, c \in Nat \ {0} DEF Slice
<1>7. b + 1 \in s /\ \A i \in s : b + 1 <= i
  BY ONLY <1>6, b \in Nat, c \in Nat \ {0}
<1>8. Min(s) \in s /\ \A y \in s : Min(s) <= y
  BY ONLY <1>6, <1>7, SmallestExists
<1>9. Min(s) = b + 1
  BY ONLY <1>6, <1>7, <1>8, b \in Nat
<1>10. Offset(pool, n) = b
  BY ONLY <1>5, <1>9, b \in Nat DEF Offset
<1>11. \A k : k \in 1..c <=> k \in {i - b : i \in s}
  <2>1. ASSUME NEW k \in 1..c PROVE k \in {i - b : i \in s}
    <3>1. b + k \in s /\ (b + k) - b = k
      BY ONLY <1>6, k \in 1..c, b \in Nat, c \in Nat \ {0}
    <3> QED
      BY ONLY <3>1
  <2>2. ASSUME NEW i \in s PROVE i - b \in 1..c
    BY ONLY <1>6, i \in s, b \in Nat, c \in Nat \ {0}
  <2> QED
    BY ONLY <2>1, <2>2
<1>12. \A i \in s : i - b \in 1..c
  BY ONLY <1>11
<1> QED
  BY ONLY <1>1, <1>3, <1>5, <1>10, <1>11, <1>12, b \in Nat

-----------------------------------------------------------------------------
(* Interference.                                                           *)

\* The draws of wires with more than one conductor.
Wide(draws) == {d \in draws : ToLanes(m, d.edge) # 1}

IsDraw(d) ==
  \E e, s, k, b, g : d = [edge |-> e, stream |-> s, kind |-> k, block |-> b, sign |-> g]

IsSignal(s) ==
  \E n, l, b, p : /\ s = [from |-> n, lane |-> l, block |-> b, picked_up |-> p]
                  /\ \A d \in p : IsDraw(d)

\* Lanes that no conductor runs beside.
Alone(pool, dir, x) ==
  pool[x].domain # "analog" \/ LaneCount(pool[x].node, dir, pool[x].port) = 1

\* The lanes of a port hold the same of a wire's interference on each of its conductors.
Even(pool, dir, sig) ==
  /\ DOMAIN sig = DOMAIN pool
  /\ \A x \in DOMAIN pool : IsSignal(sig[x])
  /\ \A x \in DOMAIN pool : Alone(pool, dir, x) => Wide(sig[x].picked_up) = {}
  /\ \A x, y \in DOMAIN pool :
       Owner(pool, x) = Owner(pool, y) => Wide(sig[x].picked_up) = Wide(sig[y].picked_up)

LEMMA SignalIs ==
  /\ \A n, l, b, p : (\A d \in p : IsDraw(d))
       => IsSignal([from |-> n, lane |-> l, block |-> b, picked_up |-> p])
  /\ \A s : IsSignal(s) => \A d \in s.picked_up : IsDraw(d)
<1>1. ASSUME NEW n, NEW l, NEW b, NEW p, \A d \in p : IsDraw(d)
      PROVE  IsSignal([from |-> n, lane |-> l, block |-> b, picked_up |-> p])
  BY ONLY <1>1, Zenon DEF IsSignal
<1>2. ASSUME NEW s, IsSignal(s) PROVE \A d \in s.picked_up : IsDraw(d)
  <2>1. PICK n, l, b, p : /\ s = [from |-> n, lane |-> l, block |-> b, picked_up |-> p]
                          /\ \A d \in p : IsDraw(d)
    BY <1>2 DEF IsSignal
  <2>2. s.picked_up = p
    BY ONLY <2>1
  <2> QED
    BY ONLY <2>1, <2>2
<1> QED
  BY ONLY <1>1, <1>2

LEMMA SignalsPickUp ==
  ASSUME NEW s, IsSignal(s), NEW more, \A d \in more : IsDraw(d)
  PROVE  /\ IsSignal([s EXCEPT !.picked_up = more])
         /\ [s EXCEPT !.picked_up = more].picked_up = more
<1>1. PICK n, l, b, p : /\ s = [from |-> n, lane |-> l, block |-> b, picked_up |-> p]
                        /\ \A d \in p : IsDraw(d)
  BY DEF IsSignal
<1>2. [s EXCEPT !.picked_up = more] = [from |-> n, lane |-> l, block |-> b, picked_up |-> more]
  BY ONLY <1>1
<1>3. [from |-> n, lane |-> l, block |-> b, picked_up |-> more].picked_up = more
  BY ONLY <1>1
<1>4. IsSignal([from |-> n, lane |-> l, block |-> b, picked_up |-> more])
  BY ONLY SignalIs, \A d \in more : IsDraw(d)
<1> QED
  BY ONLY <1>2, <1>3, <1>4

\* Every conductor of a wire picks up the same.
LEMMA PickedUpIs ==
  ASSUME NEW e
  PROVE  /\ \A k : \A d \in PickedUp(e, k) : IsDraw(d) /\ d.edge = e
         /\ \A k, l : PickedUp(e, k) = PickedUp(e, l)
         /\ \A k : OutFace(e).domain # "analog" => PickedUp(e, k) = {}
<1>1. \A k : \A d \in PickedUp(e, k) : IsDraw(d) /\ d.edge = e
  BY DEF PickedUp, Draw, IsDraw
<1>2. \A k, l : \A kind : Draw(e, kind, k) = Draw(e, kind, l)
  BY DEF Draw
<1>3. \A k, l : PickedUp(e, k) = PickedUp(e, l)
  BY <1>2 DEF PickedUp
<1>4. \A k : OutFace(e).domain # "analog" => PickedUp(e, k) = {}
  BY DEF PickedUp
<1> QED
  BY ONLY <1>1, <1>3, <1>4

\* What a wire delivers on its conductors is even.
LEMMA ArrivesEven ==
  ASSUME Sized, Sound, Fits(m), PoolsFit(pools), Shaped(pools.out, "out"),
         NEW outs, Even(pools.out, "out", outs), NEW e \in Edges
  PROVE  \E w : \A k \in DOMAIN pools.steps[e] :
           /\ IsSignal(Arrived(e, k, outs))
           /\ Wide(Arrived(e, k, outs).picked_up) = w
           /\ OutFace(e).domain # "analog" \/ ToLanes(m, e) = 1 => w = {}
<1> DEFINE edge == patch.edges[e]
           draws == PickedUp(e, 1)
           steps == pools.steps[e]
<1>1. /\ \A k \in DOMAIN steps : StepJoins(e, k, steps[k], pools.in, pools.out)
      /\ DOMAIN steps = 1..ToLanes(m, e)
  BY DEF PoolsFit
<1>2. /\ edge.from \in NodeIds /\ OutFace(e) = Directed(edge.from, "out")[edge.out]
      /\ FromLanes(m, e) = LaneCount(edge.from, "out", edge.out)
  <2>1. edge.from \in NodeIds /\ OutFace(e) = Directed(edge.from, "out")[edge.out]
    BY EndsOfAWire
  <2> QED
    BY <2>1 DEF FromLanes, LaneCount
<1>3. FromLanes(m, e) \in Nat \ {0} /\ ToLanes(m, e) \in Nat \ {0}
  BY <1>2, LanesOfAWire
<1>4. FromLanes(m, e) = ToLanes(m, e)
        \/ (FromLanes(m, e) = 1 /\ ToLanes(m, e) = 2 /\ OutFace(e).domain = "analog")
  BY DEF Fits, Grounding
<1>5. /\ \A d \in draws : IsDraw(d) /\ d.edge = e
      /\ \A k : PickedUp(e, k) = draws
      /\ OutFace(e).domain # "analog" => draws = {}
  <2>1. /\ \A k : \A d \in PickedUp(e, k) : IsDraw(d) /\ d.edge = e
        /\ \A k, l : PickedUp(e, k) = PickedUp(e, l)
        /\ \A k : OutFace(e).domain # "analog" => PickedUp(e, k) = {}
    BY PickedUpIs
  <2> QED
    BY ONLY <2>1
<1>6. ToLanes(m, e) = 1 => Wide(draws) = {}
  BY ONLY <1>5 DEF Wide
<1>7. ASSUME NEW k \in DOMAIN steps
      PROVE  /\ steps[k].src \in DOMAIN pools.out
             /\ Owner(pools.out, steps[k].src) = <<edge.from, edge.out>>
             /\ IsSignal(outs[steps[k].src])
             /\ OutFace(e).domain # "analog" \/ FromLanes(m, e) = 1
                  => Wide(outs[steps[k].src].picked_up) = {}
  <2>0. PICK x : x = steps[k].src
    OBVIOUS
  <2>1. x \in DOMAIN pools.out /\ Owner(pools.out, x) = <<edge.from, edge.out>>
    BY <1>1, <2>0 DEF StepJoins
  <2>2. /\ IsSignal(outs[x])
        /\ Alone(pools.out, "out", x) => Wide(outs[x].picked_up) = {}
    BY <2>1 DEF Even
  <2>3. pools.out[x].node = edge.from /\ pools.out[x].port = edge.out
    BY ONLY <2>1 DEF Owner
  <2>4. pools.out[x].domain = OutFace(e).domain
    BY ONLY <1>2, <2>1, <2>3, Shaped(pools.out, "out") DEF Shaped, LanesArePorts
  <2>5. OutFace(e).domain # "analog" \/ FromLanes(m, e) = 1 => Alone(pools.out, "out", x)
    BY ONLY <1>2, <2>3, <2>4 DEF Alone
  <2> QED
    BY ONLY <2>0, <2>1, <2>2, <2>5
<1>8. ASSUME NEW k \in DOMAIN steps
      PROVE  /\ IsSignal(Arrived(e, k, outs))
             /\ steps[k].grounded => Arrived(e, k, outs).picked_up = draws
             /\ ~ steps[k].grounded =>
                  Arrived(e, k, outs).picked_up = outs[steps[k].src].picked_up \cup draws
  <2>1. IsSignal(Silence)
    <3>1. Silence = [from |-> NoNode, lane |-> 0, block |-> 0, picked_up |-> {}]
      BY DEF Silence
    <3>2. IsSignal([from |-> NoNode, lane |-> 0, block |-> 0, picked_up |-> {}])
      BY ONLY SignalIs
    <3> QED
      BY ONLY <3>1, <3>2
  <2>2. CASE steps[k].grounded
    <3>1. Arrived(e, k, outs) = [Silence EXCEPT !.picked_up = draws]
      BY <1>5, <2>2, ZenonT(60) DEF Arrived
    <3> QED
      BY <1>5, <2>1, <2>2, <3>1, SignalsPickUp
  <2>3. CASE ~ steps[k].grounded
    <3>1. Arrived(e, k, outs) = [outs[steps[k].src] EXCEPT !.picked_up = outs[steps[k].src].picked_up \cup draws]
      BY <1>5, <2>3 DEF Arrived
    <3>2. PICK s : s = outs[steps[k].src] /\ IsSignal(s)
      BY <1>7
    <3>3. \A d \in s.picked_up : IsDraw(d)
      BY ONLY <3>2, SignalIs
    <3>4. PICK more : more = s.picked_up \cup draws
      OBVIOUS
    <3>5. \A d \in more : IsDraw(d)
      BY ONLY <1>5, <3>3, <3>4
    <3>6. IsSignal([s EXCEPT !.picked_up = more]) /\ [s EXCEPT !.picked_up = more].picked_up = more
      BY ONLY <3>2, <3>5, SignalsPickUp
    <3>7. Arrived(e, k, outs) = [s EXCEPT !.picked_up = more]
      BY ONLY <3>1, <3>2, <3>4
    <3> QED
      BY ONLY <2>3, <3>2, <3>4, <3>6, <3>7
  <2> QED
    BY ONLY <2>2, <2>3
<1>9. \A a, b : Wide(a \cup b) = Wide(a) \cup Wide(b)
  BY ONLY DEF Wide
<1> HIDE DEF draws, edge, steps
<1>10. CASE OutFace(e).domain # "analog" \/ FromLanes(m, e) = 1
  <2>1. ASSUME NEW k \in DOMAIN steps PROVE Wide(Arrived(e, k, outs).picked_up) = Wide(draws)
    <3>1. Wide(outs[steps[k].src].picked_up) = {}
      BY ONLY <1>7, <1>10, k \in DOMAIN steps
    <3>2. Wide(outs[steps[k].src].picked_up \cup draws) = {} \cup Wide(draws)
      BY ONLY <1>9, <3>1
    <3>3. {} \cup Wide(draws) = Wide(draws)
      BY ONLY DEF Wide
    <3> QED
      BY ONLY <1>8, <3>2, <3>3, k \in DOMAIN steps
  <2>2. OutFace(e).domain # "analog" \/ ToLanes(m, e) = 1 => Wide(draws) = {}
    BY ONLY <1>5, <1>6 DEF Wide
  <2> QED
    BY ONLY <1>8, <2>1, <2>2 DEF steps
<1>11. CASE OutFace(e).domain = "analog" /\ FromLanes(m, e) # 1
  <2>1. ToLanes(m, e) = FromLanes(m, e)
    BY ONLY <1>4, <1>11
  <2>2. ASSUME NEW k \in DOMAIN steps PROVE ~ steps[k].grounded
    BY ONLY <1>1, <1>3, <2>1, k \in DOMAIN steps DEF StepJoins
  <2>3. ASSUME NEW k \in DOMAIN steps, NEW l \in DOMAIN steps
        PROVE  Wide(outs[steps[k].src].picked_up) = Wide(outs[steps[l].src].picked_up)
    BY ONLY <1>7, k \in DOMAIN steps, l \in DOMAIN steps, Even(pools.out, "out", outs) DEF Even
  <2>4. 1 \in DOMAIN steps
    BY ONLY <1>1, <1>3
  <2>5. \A k \in DOMAIN steps :
          Wide(Arrived(e, k, outs).picked_up) = Wide(outs[steps[1].src].picked_up) \cup Wide(draws)
    BY ONLY <1>8, <1>9, <2>2, <2>3, <2>4
  <2> QED
    BY ONLY <1>8, <1>11, <2>1, <2>5 DEF steps
<1> QED
  BY ONLY <1>10, <1>11

\* A wire serves the lanes of the port it ends at.
EndOf(e) == <<patch.edges[e].to, patch.edges[e].in>>
Serves(e, x) == \E k \in DOMAIN pools.steps[e] : pools.steps[e][k].dst = x

LEMMA ServesItsPort ==
  ASSUME Sized, Sound, PoolsFit(pools), Shaped(pools.in, "in"), NEW e \in Edges, NEW x \in DOMAIN pools.in
  PROVE  Serves(e, x) <=> Owner(pools.in, x) = EndOf(e)
<1> DEFINE edge == patch.edges[e]
<1>1. /\ \A k \in DOMAIN pools.steps[e] : StepJoins(e, k, pools.steps[e][k], pools.in, pools.out)
      /\ DOMAIN pools.steps[e] = 1..ToLanes(m, e)
  BY DEF PoolsFit
<1>2. \A k \in DOMAIN pools.steps[e] :
        /\ pools.steps[e][k].dst \in DOMAIN pools.in
        /\ Owner(pools.in, pools.steps[e][k].dst) = EndOf(e)
        /\ pools.in[pools.steps[e][k].dst].lane = k
  BY ONLY <1>1 DEF StepJoins, EndOf
<1>3. Serves(e, x) => Owner(pools.in, x) = EndOf(e)
  BY ONLY <1>2, ZenonT(60) DEF Serves
<1>4. ASSUME Owner(pools.in, x) = EndOf(e) PROVE Serves(e, x)
  <2>1. pools.in[x].node = edge.to /\ pools.in[x].port = edge.in
    BY ONLY <1>4 DEF Owner, EndOf
  <2>2. ToLanes(m, e) = LaneCount(edge.to, "in", edge.in)
    BY LanesOfAWire
  <2>3. PICK k : k = pools.in[x].lane /\ k \in 1..ToLanes(m, e)
    BY ONLY <2>1, <2>2, Shaped(pools.in, "in"), x \in DOMAIN pools.in DEF Shaped, LanesArePorts
  <2>4. PICK y \in DOMAIN pools.in : y = pools.steps[e][k].dst
    BY ONLY <1>1, <1>2, <2>3
  <2>5. Owner(pools.in, y) = EndOf(e) /\ pools.in[y].lane = k
    BY ONLY <1>1, <1>2, <2>3, <2>4
  <2>6. pools.in[y].node = edge.to /\ pools.in[y].port = edge.in
    BY ONLY <2>5 DEF Owner, EndOf
  <2>7. x = y
    BY ONLY <2>1, <2>3, <2>5, <2>6, Shaped(pools.in, "in"), x \in DOMAIN pools.in, y \in DOMAIN pools.in
       DEF Shaped, EachOnce
  <2> QED
    BY ONLY <1>1, <2>3, <2>4, <2>7 DEF Serves
<1> QED
  BY ONLY <1>3, <1>4

\* What an input lane holds once some of the wires are served.
LEMMA CarriedAt ==
  ASSUME Sized, Sound, PoolsFit(pools), Shaped(pools.in, "in"), OneWire, DOMAIN input_pool = DOMAIN pools.in,
         NEW edges \in SUBSET Edges, NEW outs, NEW x \in DOMAIN pools.in
  PROVE  /\ \A e \in edges : Owner(pools.in, x) = EndOf(e) =>
              \E k \in DOMAIN pools.steps[e] :
                /\ Carried(edges, outs)[x] = Arrived(e, k, outs)
                /\ pools.steps[e][k].dst = x
         /\ (\A e \in edges : Owner(pools.in, x) # EndOf(e)) => Carried(edges, outs)[x] = input_pool[x]
<1>1. Carried(edges, outs) =
        [i \in DOMAIN input_pool |->
           IF \E e \in edges : Serves(e, i)
           THEN LET e == CHOOSE e \in edges : Serves(e, i)
                    k == CHOOSE k \in DOMAIN pools.steps[e] : pools.steps[e][k].dst = i
                IN  Arrived(e, k, outs)
           ELSE input_pool[i]]
  BY ONLY DEF Carried, Serves
<1>2. \A e \in edges : Serves(e, x) <=> Owner(pools.in, x) = EndOf(e)
  BY ServesItsPort
<1>3. ASSUME NEW e \in edges, Owner(pools.in, x) = EndOf(e)
      PROVE  \E k \in DOMAIN pools.steps[e] :
               Carried(edges, outs)[x] = Arrived(e, k, outs) /\ pools.steps[e][k].dst = x
  <2>1. PICK c : c = CHOOSE f \in edges : Serves(f, x)
    OBVIOUS
  <2>2. Serves(e, x)
    BY ONLY <1>2, <1>3
  <2>3. c \in edges /\ Serves(c, x)
    BY ONLY <2>1, <2>2, e \in edges
  <2>4. EndOf(c) = EndOf(e)
    BY ONLY <1>2, <1>3, <2>3
  <2>5. c = e
    BY ONLY <2>3, <2>4, OneWire, e \in edges, edges \in SUBSET Edges DEF OneWire, EndOf
  <2>6. PICK k : k = CHOOSE j \in DOMAIN pools.steps[e] : pools.steps[e][j].dst = x
    OBVIOUS
  <2>7. k \in DOMAIN pools.steps[e] /\ pools.steps[e][k].dst = x
    BY ONLY <2>2, <2>6 DEF Serves
  <2>8. Carried(edges, outs)[x] =
          LET d == CHOOSE f \in edges : Serves(f, x)
              l == CHOOSE k2 \in DOMAIN pools.steps[d] : pools.steps[d][k2].dst = x
          IN  Arrived(d, l, outs)
    BY ONLY <1>1, <2>2, e \in edges, DOMAIN input_pool = DOMAIN pools.in, x \in DOMAIN pools.in
  <2>9. Carried(edges, outs)[x] = Arrived(e, k, outs)
    BY ONLY <2>1, <2>5, <2>6, <2>8
  <2> QED
    BY ONLY <2>7, <2>9
<1>4. ASSUME \A e \in edges : Owner(pools.in, x) # EndOf(e) PROVE Carried(edges, outs)[x] = input_pool[x]
  BY ONLY <1>1, <1>2, <1>4, DOMAIN input_pool = DOMAIN pools.in, x \in DOMAIN pools.in
<1> QED
  BY ONLY <1>3, <1>4

\* The lanes of an input stay even, whichever wires are served.
LEMMA CarriedEven ==
  ASSUME Sized, Sound, Fits(m), PoolsFit(pools), Shaped(pools.in, "in"), Shaped(pools.out, "out"), OneWire,
         NEW edges \in SUBSET Edges, NEW outs, Even(pools.out, "out", outs),
         Even(pools.in, "in", input_pool),
         NEW ins, ins = Carried(edges, outs)
  PROVE  Even(pools.in, "in", ins)
<1>0. DOMAIN input_pool = DOMAIN pools.in
  BY DEF Even
<1>1. DOMAIN ins = DOMAIN pools.in
  BY ONLY <1>0, ins = Carried(edges, outs) DEF Carried
<1>2. ASSUME NEW e \in edges
      PROVE  \E w : /\ \A x \in DOMAIN pools.in : Owner(pools.in, x) = EndOf(e) =>
                         IsSignal(ins[x]) /\ Wide(ins[x].picked_up) = w
                    /\ OutFace(e).domain # "analog" \/ ToLanes(m, e) = 1 => w = {}
  <2>1. \E w : \A k \in DOMAIN pools.steps[e] :
          /\ IsSignal(Arrived(e, k, outs))
          /\ Wide(Arrived(e, k, outs).picked_up) = w
          /\ OutFace(e).domain # "analog" \/ ToLanes(m, e) = 1 => w = {}
    BY ArrivesEven
  <2>2. PICK w : \A k \in DOMAIN pools.steps[e] :
          /\ IsSignal(Arrived(e, k, outs))
          /\ Wide(Arrived(e, k, outs).picked_up) = w
          /\ OutFace(e).domain # "analog" \/ ToLanes(m, e) = 1 => w = {}
    BY ONLY <2>1
  <2>3. 1 \in DOMAIN pools.steps[e]
    <3>1. DOMAIN pools.steps[e] = 1..ToLanes(m, e)
      BY DEF PoolsFit
    <3>2. ToLanes(m, e) \in Nat \ {0}
      BY LanesOfAWire
    <3> QED
      BY ONLY <3>1, <3>2
  <2>4. ASSUME NEW x \in DOMAIN pools.in, Owner(pools.in, x) = EndOf(e)
        PROVE  IsSignal(ins[x]) /\ Wide(ins[x].picked_up) = w
    <3>1. /\ \A f \in edges : Owner(pools.in, x) = EndOf(f) =>
               \E k \in DOMAIN pools.steps[f] :
                 /\ Carried(edges, outs)[x] = Arrived(f, k, outs)
                 /\ pools.steps[f][k].dst = x
          /\ (\A f \in edges : Owner(pools.in, x) # EndOf(f)) => Carried(edges, outs)[x] = input_pool[x]
      BY ONLY <1>0, CarriedAt, Sized, Sound, PoolsFit(pools), Shaped(pools.in, "in"), OneWire,
              edges \in SUBSET Edges, x \in DOMAIN pools.in, ZenonT(60)
    <3>2. \E k \in DOMAIN pools.steps[e] : Carried(edges, outs)[x] = Arrived(e, k, outs)
      BY ONLY <2>4, <3>1, e \in edges
    <3> QED
      BY ONLY <2>2, <3>2, ins = Carried(edges, outs)
  <2> QED
    BY ONLY <2>2, <2>3, <2>4
<1>3. ASSUME NEW x \in DOMAIN pools.in, \A e \in edges : Owner(pools.in, x) # EndOf(e)
      PROVE  ins[x] = input_pool[x]
  BY <1>0, <1>3, CarriedAt
<1>4. ASSUME NEW x \in DOMAIN pools.in PROVE IsSignal(ins[x])
  <2>1. CASE \E e \in edges : Owner(pools.in, x) = EndOf(e)
    BY ONLY <1>2, <2>1, x \in DOMAIN pools.in
  <2>2. CASE \A e \in edges : Owner(pools.in, x) # EndOf(e)
    BY ONLY <1>3, <2>2, x \in DOMAIN pools.in, Even(pools.in, "in", input_pool) DEF Even
  <2> QED
    BY ONLY <2>1, <2>2
<1>5. ASSUME NEW x \in DOMAIN pools.in, Alone(pools.in, "in", x) PROVE Wide(ins[x].picked_up) = {}
  <2>1. ASSUME NEW e \in edges, Owner(pools.in, x) = EndOf(e)
        PROVE  OutFace(e).domain # "analog" \/ ToLanes(m, e) = 1
    <3>1. pools.in[x].node = patch.edges[e].to /\ pools.in[x].port = patch.edges[e].in
      BY ONLY <2>1 DEF Owner, EndOf
    <3>2. pools.in[x].domain = Directed(patch.edges[e].to, "in")[patch.edges[e].in].domain
      BY ONLY <3>1, Shaped(pools.in, "in"), x \in DOMAIN pools.in DEF Shaped, LanesArePorts
    <3>3. InFace(e) = Directed(patch.edges[e].to, "in")[patch.edges[e].in] /\ OutFace(e).domain = InFace(e).domain
      BY EndsOfAWire
    <3>4. ToLanes(m, e) = LaneCount(patch.edges[e].to, "in", patch.edges[e].in)
      BY LanesOfAWire
    <3> QED
      BY ONLY <1>5, <3>1, <3>2, <3>3, <3>4 DEF Alone
  <2>2. CASE \E e \in edges : Owner(pools.in, x) = EndOf(e)
    BY ONLY <1>2, <2>1, <2>2, x \in DOMAIN pools.in
  <2>3. CASE \A e \in edges : Owner(pools.in, x) # EndOf(e)
    BY ONLY <1>3, <1>5, <2>3, x \in DOMAIN pools.in, Even(pools.in, "in", input_pool) DEF Even
  <2> QED
    BY ONLY <2>2, <2>3
<1>6. ASSUME NEW x \in DOMAIN pools.in, NEW y \in DOMAIN pools.in, Owner(pools.in, x) = Owner(pools.in, y)
      PROVE  Wide(ins[x].picked_up) = Wide(ins[y].picked_up)
  <2>1. CASE \E e \in edges : Owner(pools.in, x) = EndOf(e)
    BY ONLY <1>2, <1>6, <2>1, x \in DOMAIN pools.in, y \in DOMAIN pools.in
  <2>2. CASE \A e \in edges : Owner(pools.in, x) # EndOf(e)
    <3>1. ins[x] = input_pool[x] /\ ins[y] = input_pool[y]
      BY ONLY <1>3, <1>6, <2>2, x \in DOMAIN pools.in, y \in DOMAIN pools.in
    <3> QED
      BY ONLY <1>6, <3>1, x \in DOMAIN pools.in, y \in DOMAIN pools.in, Even(pools.in, "in", input_pool) DEF Even
  <2> QED
    BY ONLY <2>1, <2>2
<1> QED
  BY ONLY <1>1, <1>4, <1>5, <1>6 DEF Even

\* What a node hears on its lanes, and what its outputs hold when it has run.
HeardBy(n) ==
  [k \in {i - Offset(pools.in, n) : i \in Slice(pools.in, n)} |->
     input_pool[Offset(pools.in, n) + k].picked_up]

Ran(n) ==
  [i \in DOMAIN output_pool |->
     IF pools.out[i].node # n THEN output_pool[i]
     ELSE PutOut(n, i, block, Through(n, i - Offset(pools.out, n), HeardBy(n)))]

\* An inverted leg carries draws of the same wires.
LEMMA InvertedIs ==
  ASSUME NEW draws, \A d \in draws : IsDraw(d)
  PROVE  \A c \in Inverted(draws) : IsDraw(c) /\ \E d \in draws : d.edge = c.edge
<1> SUFFICES ASSUME NEW d \in draws
             PROVE  IsDraw([d EXCEPT !.sign = -d.sign]) /\ [d EXCEPT !.sign = -d.sign].edge = d.edge
  BY DEF Inverted
<1>1. PICK e, s, k, b, g : d = [edge |-> e, stream |-> s, kind |-> k, block |-> b, sign |-> g]
  BY DEF IsDraw
<1>2. [d EXCEPT !.sign = -d.sign] = [edge |-> e, stream |-> s, kind |-> k, block |-> b, sign |-> -g]
  BY ONLY <1>1
<1>3. IsDraw([edge |-> e, stream |-> s, kind |-> k, block |-> b, sign |-> -g])
  BY ONLY DEF IsDraw
<1>4. d.edge = e /\ [edge |-> e, stream |-> s, kind |-> k, block |-> b, sign |-> -g].edge = e
  BY ONLY <1>1
<1> QED
  BY ONLY <1>2, <1>3, <1>4

LEMMA WideInverted ==
  ASSUME NEW draws, \A d \in draws : IsDraw(d), Wide(draws) = {}
  PROVE  Wide(Inverted(draws)) = {}
  BY ONLY InvertedIs, \A d \in draws : IsDraw(d), Wide(draws) = {} DEF Wide

\* A node hears the lanes of its slice.
LEMMA HearsItsSlice ==
  ASSUME Shaped(pools.in, "in"), NEW n, NEW k \in DOMAIN HeardBy(n)
  PROVE  \E x \in DOMAIN pools.in : pools.in[x].node = n /\ HeardBy(n)[k] = input_pool[x].picked_up
<1>1. PICK s : s = Slice(pools.in, n)
  OBVIOUS
<1>2. \A x \in s : x \in Nat /\ x \in DOMAIN pools.in /\ pools.in[x].node = n
  BY ONLY <1>1, Shaped(pools.in, "in") DEF Slice, Shaped, LanesArePorts
<1>3. HeardBy(n) = [c \in {i - Offset(pools.in, n) : i \in s} |-> input_pool[Offset(pools.in, n) + c].picked_up]
  BY ONLY <1>1 DEF HeardBy
<1>4. PICK x \in s : k = x - Offset(pools.in, n)
  BY ONLY <1>3, k \in DOMAIN HeardBy(n)
<1>5. Offset(pools.in, n) \in Int
  <2>1. s \in SUBSET Nat /\ s # {}
    BY ONLY <1>2, x \in s
  <2>2. Min(s) \in s
    BY ONLY <2>1, SmallestExists
  <2> QED
    BY ONLY <1>1, <1>2, <2>2 DEF Offset
<1>6. Offset(pools.in, n) + k = x
  BY ONLY <1>2, <1>4, <1>5, x \in s
<1>7. HeardBy(n)[k] = input_pool[Offset(pools.in, n) + k].picked_up
  BY ONLY <1>3, k \in DOMAIN HeardBy(n)
<1> QED
  BY ONLY <1>2, <1>6, <1>7, x \in s

LEMMA HearsDraws ==
  ASSUME Shaped(pools.in, "in"), Even(pools.in, "in", input_pool), NEW n, NEW k \in DOMAIN HeardBy(n)
  PROVE  \A d \in HeardBy(n)[k] : IsDraw(d)
<1>1. PICK x \in DOMAIN pools.in : HeardBy(n)[k] = input_pool[x].picked_up
  BY HearsItsSlice
<1>2. IsSignal(input_pool[x])
  BY ONLY x \in DOMAIN pools.in, Even(pools.in, "in", input_pool) DEF Even
<1> QED
  BY ONLY <1>1, <1>2, SignalIs

\* The ports of each kind of node.
LEMMA KindsOfNodes ==
  ASSUME Sized, NEW n \in NodeIds
  PROVE  /\ patch.nodes[n].kind = "inline" <=> n \in PerConductor
         /\ patch.nodes[n].kind = "inline" =>
              /\ Len(Directed(n, "in")) = 1 /\ Len(Directed(n, "out")) = 1
              /\ Directed(n, "in")[1].domain = "analog" /\ Directed(n, "out")[1].domain = "analog"
         /\ patch.nodes[n].kind = "receiver" =>
              Len(Directed(n, "in")) = 1 /\ Directed(n, "in")[1].domain = "analog" /\ LaneCount(n, "in", 1) = 2
         /\ patch.nodes[n].kind \notin {"inline", "receiver"} =>
              \A p \in 1..Len(Directed(n, "in")) :
                Directed(n, "in")[p].domain = "analog" => LaneCount(n, "in", p) = 1
<1>1. FacesOfItsKind(patch.nodes[n]) /\ n \in Nodes
  BY LanesAssumption DEF Sized, NodeIds, Nodes
<1>2. Directed(n, "in") = patch.nodes[n].in /\ Directed(n, "out") = patch.nodes[n].out
  BY DEF Directed
<1>3. patch.nodes[n].kind = "inline" <=> n \in PerConductor
  BY ONLY <1>1 DEF FacesOfItsKind, PerConductor
<1>4. DOMAIN patch.nodes[n].in = 1..Len(patch.nodes[n].in)
  BY <1>2, PortsOf DEF Dirs
<1> QED
  BY ONLY <1>1, <1>2, <1>3, <1>4 DEF FacesOfItsKind, LaneCount

\* A node that mixes hears nothing wide.
LEMMA MixesNothingWide ==
  ASSUME Sized, Shaped(pools.in, "in"), Even(pools.in, "in", input_pool),
         NEW n \in NodeIds, patch.nodes[n].kind \notin {"inline", "receiver"}, NEW k
  PROVE  /\ \A d \in Through(n, k, HeardBy(n)) : IsDraw(d)
         /\ Wide(Through(n, k, HeardBy(n))) = {}
<1>1. PICK heard : heard = HeardBy(n)
  OBVIOUS
<1>2. \A i \in DOMAIN heard : \A d \in heard[i] : IsDraw(d)
  BY ONLY <1>1, HearsDraws, Shaped(pools.in, "in"), Even(pools.in, "in", input_pool)
<1>3. ASSUME NEW i \in DOMAIN heard PROVE Wide(heard[i]) = {}
  <2>1. PICK x \in DOMAIN pools.in : pools.in[x].node = n /\ heard[i] = input_pool[x].picked_up
    BY ONLY <1>1, i \in DOMAIN heard, HearsItsSlice, Shaped(pools.in, "in")
  <2>2. /\ pools.in[x].port \in 1..Len(Directed(n, "in"))
        /\ pools.in[x].domain = Directed(n, "in")[pools.in[x].port].domain
    BY ONLY <2>1, Shaped(pools.in, "in") DEF Shaped, LanesArePorts
  <2>3. Directed(n, "in")[pools.in[x].port].domain = "analog" => LaneCount(n, "in", pools.in[x].port) = 1
    BY <2>2, KindsOfNodes
  <2>4. Alone(pools.in, "in", x)
    BY ONLY <2>1, <2>2, <2>3 DEF Alone
  <2> QED
    BY ONLY <2>1, <2>4, Even(pools.in, "in", input_pool) DEF Even
<1>4. PICK mixed : mixed = UNION {heard[i] : i \in DOMAIN heard}
  OBVIOUS
<1>5. (\A d \in mixed : IsDraw(d)) /\ Wide(mixed) = {}
  <2>1. \A d \in mixed : \E i \in DOMAIN heard : d \in heard[i]
    BY ONLY <1>4
  <2>2. \A d \in mixed : IsDraw(d)
    BY ONLY <1>2, <2>1
  <2>3. \A d \in mixed : ~ (ToLanes(m, d.edge) # 1)
    BY ONLY <1>3, <2>1 DEF Wide
  <2> QED
    BY ONLY <2>2, <2>3 DEF Wide
<1>6. (\A d \in Inverted(mixed) : IsDraw(d)) /\ Wide(Inverted(mixed)) = {}
  BY ONLY <1>5, InvertedIs, WideInverted
<1>7. Through(n, k, heard) = mixed \/ Through(n, k, heard) = Inverted(mixed)
  BY ONLY <1>4, patch.nodes[n].kind \notin {"inline", "receiver"} DEF Through
<1> QED
  BY ONLY <1>1, <1>5, <1>6, <1>7

\* The lanes of a node's only input agree.
LEMMA OneInputAgrees ==
  ASSUME Sized, Shaped(pools.in, "in"), Even(pools.in, "in", input_pool),
         NEW n \in NodeIds, Len(Directed(n, "in")) = 1
  PROVE  /\ DOMAIN HeardBy(n) = 1..LaneCount(n, "in", 1)
         /\ \A k, l \in DOMAIN HeardBy(n) : Wide(HeardBy(n)[k]) = Wide(HeardBy(n)[l])
         /\ LaneCount(n, "in", 1) = 1 => \A k \in DOMAIN HeardBy(n) : Wide(HeardBy(n)[k]) = {}
<1>1. /\ \A k : k \in 1..LaneCount(n, "in", 1) <=> k \in {i - Offset(pools.in, n) : i \in Slice(pools.in, n)}
      /\ \A k \in 1..LaneCount(n, "in", 1) :
           Offset(pools.in, n) + k \in DOMAIN pools.in
             /\ pools.in[Offset(pools.in, n) + k].node = n /\ pools.in[Offset(pools.in, n) + k].port = 1
  BY OnlyPort DEF Dirs
<1>2. PICK heard : heard = HeardBy(n)
  OBVIOUS
<1>3. DOMAIN heard = 1..LaneCount(n, "in", 1)
  <2>1. DOMAIN heard = {i - Offset(pools.in, n) : i \in Slice(pools.in, n)}
    BY ONLY <1>2 DEF HeardBy
  <2> QED
    BY ONLY <1>1, <2>1
<1>4. ASSUME NEW k \in DOMAIN heard
      PROVE  \E x \in DOMAIN pools.in : /\ pools.in[x].node = n /\ pools.in[x].port = 1
                                        /\ heard[k] = input_pool[x].picked_up
  <2>1. heard[k] = input_pool[Offset(pools.in, n) + k].picked_up
    BY ONLY <1>2, k \in DOMAIN heard DEF HeardBy
  <2> QED
    BY ONLY <1>1, <1>3, <2>1, k \in DOMAIN heard
<1>5. ASSUME NEW k \in DOMAIN heard, NEW l \in DOMAIN heard PROVE Wide(heard[k]) = Wide(heard[l])
  <2>1. PICK x \in DOMAIN pools.in : /\ pools.in[x].node = n /\ pools.in[x].port = 1
                                     /\ heard[k] = input_pool[x].picked_up
    BY ONLY <1>4, k \in DOMAIN heard
  <2>2. PICK y \in DOMAIN pools.in : /\ pools.in[y].node = n /\ pools.in[y].port = 1
                                     /\ heard[l] = input_pool[y].picked_up
    BY ONLY <1>4, l \in DOMAIN heard
  <2>3. Owner(pools.in, x) = Owner(pools.in, y)
    BY ONLY <2>1, <2>2 DEF Owner
  <2> QED
    BY ONLY <2>1, <2>2, <2>3, Even(pools.in, "in", input_pool) DEF Even
<1>6. ASSUME NEW k \in DOMAIN heard, LaneCount(n, "in", 1) = 1 PROVE Wide(heard[k]) = {}
  <2>1. PICK x \in DOMAIN pools.in : /\ pools.in[x].node = n /\ pools.in[x].port = 1
                                     /\ heard[k] = input_pool[x].picked_up
    BY ONLY <1>4, k \in DOMAIN heard
  <2>2. Alone(pools.in, "in", x)
    BY ONLY <2>1, <1>6 DEF Alone
  <2> QED
    BY ONLY <2>1, <2>2, Even(pools.in, "in", input_pool) DEF Even
<1> QED
  BY ONLY <1>2, <1>3, <1>5, <1>6

\* A receiver takes the difference of two lanes that agree.
LEMMA ReceiverCancels ==
  ASSUME Sized, Shaped(pools.in, "in"), Even(pools.in, "in", input_pool),
         NEW n \in NodeIds, patch.nodes[n].kind = "receiver", NEW k
  PROVE  /\ \A d \in Through(n, k, HeardBy(n)) : IsDraw(d)
         /\ Wide(Through(n, k, HeardBy(n))) = {}
<1>1. Len(Directed(n, "in")) = 1 /\ LaneCount(n, "in", 1) = 2
  BY KindsOfNodes
<1>2. /\ DOMAIN HeardBy(n) = 1..2
      /\ \A i, j \in DOMAIN HeardBy(n) : Wide(HeardBy(n)[i]) = Wide(HeardBy(n)[j])
  BY <1>1, OneInputAgrees
<1>3. PICK a, b : a = HeardBy(n)[1] /\ b = HeardBy(n)[2]
  OBVIOUS
<1>4. 1 \in DOMAIN HeardBy(n) /\ 2 \in DOMAIN HeardBy(n)
  BY ONLY <1>2
<1>5. (\A d \in a : IsDraw(d)) /\ (\A d \in b : IsDraw(d))
  BY ONLY <1>3, <1>4, HearsDraws, Shaped(pools.in, "in"), Even(pools.in, "in", input_pool)
<1>6. Wide(a) = Wide(b)
  BY ONLY <1>2, <1>3, <1>4
<1>7. Wide(a \ b) = {} /\ Wide(b \ a) = {}
  BY ONLY <1>6 DEF Wide
<1>8. /\ \A d \in Inverted(b \ a) : IsDraw(d)
      /\ Wide(Inverted(b \ a)) = {}
  BY ONLY <1>5, <1>7, InvertedIs, WideInverted
<1>9. Through(n, k, HeardBy(n)) = (a \ b) \cup Inverted(b \ a)
  BY ONLY <1>3, patch.nodes[n].kind = "receiver" DEF Through
<1>10. Wide((a \ b) \cup Inverted(b \ a)) = {}
  BY ONLY <1>7, <1>8 DEF Wide
<1> QED
  BY ONLY <1>5, <1>8, <1>9, <1>10

\* What an inline processor puts out on a leg is what it hears on it.
LEMMA InlineAgrees ==
  ASSUME Sized, Shaped(pools.in, "in"), Shaped(pools.out, "out"), Even(pools.in, "in", input_pool),
         NEW n \in NodeIds, patch.nodes[n].kind = "inline"
  PROVE  \E w : /\ \A i \in Slice(pools.out, n) :
                     LET t == Through(n, i - Offset(pools.out, n), HeardBy(n))
                     IN  (\A d \in t : IsDraw(d)) /\ Wide(t) = w
                /\ \A i \in Slice(pools.out, n) : Alone(pools.out, "out", i) => w = {}
<1>1. /\ n \in PerConductor /\ Len(Directed(n, "in")) = 1 /\ Len(Directed(n, "out")) = 1
      /\ Directed(n, "out")[1].domain = "analog"
  BY KindsOfNodes
<1>2. LaneCount(n, "in", 1) = m[n] /\ LaneCount(n, "out", 1) = m[n]
  BY ONLY <1>1 DEF LaneCount
<1>3. /\ DOMAIN HeardBy(n) = 1..m[n]
      /\ \A k, l \in DOMAIN HeardBy(n) : Wide(HeardBy(n)[k]) = Wide(HeardBy(n)[l])
      /\ m[n] = 1 => \A k \in DOMAIN HeardBy(n) : Wide(HeardBy(n)[k]) = {}
  <2>1. /\ DOMAIN HeardBy(n) = 1..LaneCount(n, "in", 1)
        /\ \A k, l \in DOMAIN HeardBy(n) : Wide(HeardBy(n)[k]) = Wide(HeardBy(n)[l])
        /\ LaneCount(n, "in", 1) = 1 => \A k \in DOMAIN HeardBy(n) : Wide(HeardBy(n)[k]) = {}
    BY <1>1, OneInputAgrees
  <2> QED
    BY ONLY <1>2, <2>1
<1>4. \A i \in Slice(pools.out, n) : i - Offset(pools.out, n) \in 1..m[n]
  <2>1. \A i \in Slice(pools.out, n) : i - Offset(pools.out, n) \in 1..LaneCount(n, "out", 1)
    BY <1>1, OnlyPort DEF Dirs
  <2> QED
    BY ONLY <1>2, <2>1
<1>5. m[n] \in Nat \ {0}
  BY <1>1 DEF Sized, PerConductor
<1>6. PICK w : w = Wide(HeardBy(n)[1])
  OBVIOUS
<1>7. ASSUME NEW k \in 1..m[n]
      PROVE  /\ \A d \in Through(n, k, HeardBy(n)) : IsDraw(d)
             /\ Wide(Through(n, k, HeardBy(n))) = w
  <2>1. Through(n, k, HeardBy(n)) = HeardBy(n)[k]
    BY ONLY patch.nodes[n].kind = "inline" DEF Through
  <2>2. 1 \in DOMAIN HeardBy(n) /\ k \in DOMAIN HeardBy(n)
    BY ONLY <1>3, <1>5, k \in 1..m[n]
  <2>3. \A d \in HeardBy(n)[k] : IsDraw(d)
    BY ONLY <2>2, HearsDraws, Shaped(pools.in, "in"), Even(pools.in, "in", input_pool)
  <2>4. Wide(HeardBy(n)[k]) = w
    BY ONLY <1>3, <1>6, <2>2
  <2> QED
    BY ONLY <2>1, <2>3, <2>4
<1>8. ASSUME NEW i \in Slice(pools.out, n), Alone(pools.out, "out", i) PROVE w = {}
  <2>1. i \in DOMAIN pools.out /\ pools.out[i].node = n
    BY ONLY i \in Slice(pools.out, n) DEF Slice
  <2>2. /\ pools.out[i].port \in 1..Len(Directed(n, "out"))
        /\ pools.out[i].domain = Directed(n, "out")[pools.out[i].port].domain
    BY ONLY <2>1, Shaped(pools.out, "out") DEF Shaped, LanesArePorts
  <2>3. pools.out[i].port = 1 /\ pools.out[i].domain = "analog"
    BY ONLY <1>1, <2>2
  <2>4. m[n] = 1
    BY ONLY <1>2, <1>8, <2>1, <2>3 DEF Alone
  <2> QED
    BY ONLY <1>3, <1>6, <2>4
<1> QED
  BY ONLY <1>4, <1>7, <1>8

\* What a node puts out is even, and nothing wide if it is a receiver.
LEMMA ThroughEven ==
  ASSUME Sized, Shaped(pools.in, "in"), Shaped(pools.out, "out"), Even(pools.in, "in", input_pool),
         NEW n \in NodeIds
  PROVE  \E w : /\ \A i \in Slice(pools.out, n) :
                     LET t == Through(n, i - Offset(pools.out, n), HeardBy(n))
                     IN  (\A d \in t : IsDraw(d)) /\ Wide(t) = w
                /\ \A i \in Slice(pools.out, n) : Alone(pools.out, "out", i) => w = {}
                /\ patch.nodes[n].kind = "receiver" => w = {}
<1>1. CASE patch.nodes[n].kind = "inline"
  BY <1>1, InlineAgrees
<1>2. CASE patch.nodes[n].kind # "inline"
  <2>1. \A k : /\ \A d \in Through(n, k, HeardBy(n)) : IsDraw(d)
               /\ Wide(Through(n, k, HeardBy(n))) = {}
    BY <1>2, MixesNothingWide, ReceiverCancels
  <2> QED
    BY ONLY <2>1
<1> QED
  BY ONLY <1>1, <1>2

ReceiversQuiet(sig) ==
  \A x \in DOMAIN pools.out :
    patch.nodes[pools.out[x].node].kind = "receiver" => Wide(sig[x].picked_up) = {}

\* The lanes of an output stay even when a node runs, and receivers quiet.
LEMMA RanEven ==
  ASSUME Sized, Shaped(pools.in, "in"), Shaped(pools.out, "out"), Even(pools.in, "in", input_pool),
         Even(pools.out, "out", output_pool), ReceiversQuiet(output_pool), NEW n, NEW outs, outs = Ran(n)
  PROVE  Even(pools.out, "out", outs) /\ ReceiversQuiet(outs)
<1>1. DOMAIN output_pool = DOMAIN pools.out
  BY DEF Even
<1>2. DOMAIN outs = DOMAIN pools.out
  BY ONLY <1>1, outs = Ran(n) DEF Ran
<1>3. ASSUME NEW x \in DOMAIN pools.out, pools.out[x].node # n PROVE outs[x] = output_pool[x]
  BY ONLY <1>1, <1>3, outs = Ran(n) DEF Ran
<1>4. ASSUME n \in NodeIds
      PROVE  \E w : /\ \A x \in Slice(pools.out, n) : IsSignal(outs[x]) /\ Wide(outs[x].picked_up) = w
                    /\ \A x \in Slice(pools.out, n) : Alone(pools.out, "out", x) => w = {}
                    /\ patch.nodes[n].kind = "receiver" => w = {}
  <2>1. PICK w : /\ \A i \in Slice(pools.out, n) :
                      LET t == Through(n, i - Offset(pools.out, n), HeardBy(n))
                      IN  (\A d \in t : IsDraw(d)) /\ Wide(t) = w
                 /\ \A i \in Slice(pools.out, n) : Alone(pools.out, "out", i) => w = {}
                 /\ patch.nodes[n].kind = "receiver" => w = {}
    BY ONLY <1>4, ThroughEven, Sized, Shaped(pools.in, "in"), Shaped(pools.out, "out"),
            Even(pools.in, "in", input_pool)
  <2>2. ASSUME NEW x \in Slice(pools.out, n) PROVE IsSignal(outs[x]) /\ Wide(outs[x].picked_up) = w
    <3>1. PICK t : t = Through(n, x - Offset(pools.out, n), HeardBy(n))
      OBVIOUS
    <3>2. (\A d \in t : IsDraw(d)) /\ Wide(t) = w
      BY ONLY <2>1, <3>1, x \in Slice(pools.out, n)
    <3>3. x \in DOMAIN output_pool /\ pools.out[x].node = n
      BY ONLY <1>1, x \in Slice(pools.out, n) DEF Slice
    <3>4. outs[x] = [from |-> n, lane |-> x, block |-> block, picked_up |-> t]
      BY ONLY <3>1, <3>3, outs = Ran(n) DEF Ran, PutOut
    <3>5. IsSignal([from |-> n, lane |-> x, block |-> block, picked_up |-> t])
      BY ONLY <3>2, SignalIs
    <3> QED
      BY ONLY <3>2, <3>4, <3>5
  <2> QED
    BY ONLY <2>1, <2>2
<1>5. ASSUME NEW x \in DOMAIN pools.out, pools.out[x].node = n
      PROVE  n \in NodeIds /\ x \in Slice(pools.out, n)
  BY ONLY <1>5, Shaped(pools.out, "out") DEF Shaped, LanesArePorts, Slice
<1>6. ASSUME NEW x \in DOMAIN pools.out
      PROVE  /\ IsSignal(outs[x])
             /\ Alone(pools.out, "out", x) => Wide(outs[x].picked_up) = {}
             /\ patch.nodes[pools.out[x].node].kind = "receiver" => Wide(outs[x].picked_up) = {}
  <2>1. CASE pools.out[x].node = n
    BY ONLY <1>4, <1>5, <2>1, x \in DOMAIN pools.out
  <2>2. CASE pools.out[x].node # n
    BY ONLY <1>3, <2>2, x \in DOMAIN pools.out, Even(pools.out, "out", output_pool), ReceiversQuiet(output_pool)
       DEF Even, ReceiversQuiet
  <2> QED
    BY ONLY <2>1, <2>2
<1>7. ASSUME NEW x \in DOMAIN pools.out, NEW y \in DOMAIN pools.out, Owner(pools.out, x) = Owner(pools.out, y)
      PROVE  Wide(outs[x].picked_up) = Wide(outs[y].picked_up)
  <2>1. pools.out[x].node = pools.out[y].node
    BY ONLY <1>7 DEF Owner
  <2>2. CASE pools.out[x].node = n
    BY ONLY <1>4, <1>5, <2>1, <2>2, x \in DOMAIN pools.out, y \in DOMAIN pools.out
  <2>3. CASE pools.out[x].node # n
    <3>1. outs[x] = output_pool[x] /\ outs[y] = output_pool[y]
      BY ONLY <1>3, <2>1, <2>3, x \in DOMAIN pools.out, y \in DOMAIN pools.out
    <3> QED
      BY ONLY <1>7, <3>1, x \in DOMAIN pools.out, y \in DOMAIN pools.out, Even(pools.out, "out", output_pool) DEF Even
  <2> QED
    BY ONLY <2>2, <2>3
<1> QED
  BY ONLY <1>2, <1>6, <1>7 DEF Even, ReceiversQuiet

\* Before the first block nothing has been picked up.
Silent(pool, sig) ==
  /\ DOMAIN sig = DOMAIN pool
  /\ \A x \in DOMAIN pool : IsSignal(sig[x]) /\ sig[x].picked_up = {}

\* Before the first block nothing has been picked up; after, the lanes of a port hold
\* the same of a wire's interference, and a receiver none.
QuietInv ==
  /\ delayed \subseteq Edges
  /\ phase \in {"pooling", "wiring", "sorting", "running"} => verdict = "solved"
  /\ phase # "running" => \A i \in DOMAIN output_pool : output_pool[i].picked_up = {}
  /\ phase \in {"wiring", "sorting", "running"} => Shaped(pools.in, "in") /\ Shaped(pools.out, "out")
  /\ phase \in {"wiring", "sorting"} => Silent(pools.in, input_pool) /\ Silent(pools.out, output_pool)
  /\ phase = "running" =>
       Even(pools.in, "in", input_pool) /\ Even(pools.out, "out", output_pool) /\ ReceiversQuiet(output_pool)

\* It holds at the start.
LEMMA QuietStarts == Init => QuietInv
<1> SUFFICES ASSUME Init PROVE QuietInv
  OBVIOUS
<1>1. phase = "checking" /\ output_pool = <<>> /\ delayed = {e \in DOMAIN PortGraph(patch) : patch.edges[e].delayed}
  BY DEF Init
<1>2. DOMAIN PortGraph(patch) \subseteq Edges
  BY DEF PortGraph, Edges
<1>3. \A i \in DOMAIN output_pool : output_pool[i].picked_up = {}
  BY ONLY <1>1
<1> QED
  BY ONLY <1>1, <1>2, <1>3 DEF QuietInv

\* What is even stays so while the graph and the conductors stay.
LEMMA FramesStay ==
  ASSUME UNCHANGED <<patch, inference>>
  PROVE  /\ Edges' = Edges
         /\ \A e : ToLanes(m, e)' = ToLanes(m, e)
         /\ \A n, p : LaneCount(n, "in", p)' = LaneCount(n, "in", p)
         /\ \A n, p : LaneCount(n, "out", p)' = LaneCount(n, "out", p)
         /\ \A n : Directed(n, "in")' = Directed(n, "in") /\ Directed(n, "out")' = Directed(n, "out")
         /\ patch' = patch
<1>1. patch' = patch /\ m' = m
  BY DEF inference
<1>2. PerConductor' = PerConductor
  BY <1>1 DEF PerConductor, Nodes
<1>3. \A n : Directed(n, "in")' = Directed(n, "in") /\ Directed(n, "out")' = Directed(n, "out")
  BY <1>1 DEF Directed
<1>4. \A e : ToLanes(m, e)' = ToLanes(m, e)
  BY <1>1, <1>2 DEF ToLanes, InFace
<1>5. /\ \A n, p : LaneCount(n, "in", p)' = LaneCount(n, "in", p)
      /\ \A n, p : LaneCount(n, "out", p)' = LaneCount(n, "out", p)
  BY <1>1, <1>2, <1>3 DEF LaneCount
<1>6. Edges' = Edges
  BY <1>1 DEF Edges
<1> QED
  BY ONLY <1>1, <1>3, <1>4, <1>5, <1>6

\* A pool keeps its shape while the graph and the conductors stay.
LEMMA ShapesStay ==
  ASSUME UNCHANGED <<patch, inference>>,
         NEW ins, ins = pools'.in, Shaped(ins, "in"),
         NEW outs, outs = pools'.out, Shaped(outs, "out")
  PROVE  Shaped(pools.in, "in")' /\ Shaped(pools.out, "out")'
<1>1. patch' = patch /\ m' = m /\ PerConductor' = PerConductor
  BY DEF inference, PerConductor, Nodes
<1>2. Shaped(pools.in, "in")'
  <2>1. LanesArePorts(ins, "in") /\ EachOnce(ins) /\ EndToEnd(ins, "in")
    BY ONLY Shaped(ins, "in") DEF Shaped
  <2>2. LanesArePorts(pools.in, "in")'
    BY ONLY <1>1, <2>1, ins = pools'.in DEF LanesArePorts, LaneCount, Directed
  <2>3. EachOnce(pools.in)'
    BY ONLY <2>1, ins = pools'.in DEF EachOnce
  <2>4. EndToEnd(pools.in, "in")'
    BY ONLY <1>1, <2>1, ins = pools'.in DEF EndToEnd, LaneCount, Directed
  <2> QED
    BY ONLY <2>2, <2>3, <2>4 DEF Shaped
<1>3. Shaped(pools.out, "out")'
  <2>1. LanesArePorts(outs, "out") /\ EachOnce(outs) /\ EndToEnd(outs, "out")
    BY ONLY Shaped(outs, "out") DEF Shaped
  <2>2. LanesArePorts(pools.out, "out")'
    BY ONLY <1>1, <2>1, outs = pools'.out DEF LanesArePorts, LaneCount, Directed
  <2>3. EachOnce(pools.out)'
    BY ONLY <2>1, outs = pools'.out DEF EachOnce
  <2>4. EndToEnd(pools.out, "out")'
    BY ONLY <1>1, <2>1, outs = pools'.out DEF EndToEnd, LaneCount, Directed
  <2> QED
    BY ONLY <2>2, <2>3, <2>4 DEF Shaped
<1> QED
  BY ONLY <1>2, <1>3

\* What is even stays so while the pools are not touched.
LEMMA EvenStays ==
  ASSUME UNCHANGED <<patch, inference, pools>>,
         NEW ins, NEW outs, ins = input_pool', outs = output_pool'
  PROVE  /\ Even(pools.in, "in", ins) => Even(pools.in, "in", input_pool)'
         /\ Even(pools.out, "out", outs) => Even(pools.out, "out", output_pool)'
         /\ ReceiversQuiet(outs) => ReceiversQuiet(output_pool)'
<1>1. /\ \A e : ToLanes(m, e)' = ToLanes(m, e)
      /\ \A n, p : LaneCount(n, "in", p)' = LaneCount(n, "in", p)
      /\ \A n, p : LaneCount(n, "out", p)' = LaneCount(n, "out", p)
      /\ patch' = patch /\ pools' = pools
  BY FramesStay
<1>2. \A s : Wide(s)' = Wide(s)
  BY ONLY <1>1 DEF Wide
<1>3. \A x : /\ Alone(pools.in, "in", x)' <=> Alone(pools.in, "in", x)
             /\ Alone(pools.out, "out", x)' <=> Alone(pools.out, "out", x)
  BY ONLY <1>1 DEF Alone
<1>4. \A x, y : /\ (Owner(pools.in, x) = Owner(pools.in, y))' <=> Owner(pools.in, x) = Owner(pools.in, y)
                /\ (Owner(pools.out, x) = Owner(pools.out, y))' <=> Owner(pools.out, x) = Owner(pools.out, y)
  BY ONLY <1>1 DEF Owner
<1>5. Even(pools.in, "in", ins) => Even(pools.in, "in", input_pool)'
  BY ONLY <1>1, <1>2, <1>3, <1>4, ins = input_pool' DEF Even
<1>6. Even(pools.out, "out", outs) => Even(pools.out, "out", output_pool)'
  BY ONLY <1>1, <1>2, <1>3, <1>4, outs = output_pool' DEF Even
<1>7. ReceiversQuiet(outs) => ReceiversQuiet(output_pool)'
  BY ONLY <1>1, <1>2, outs = output_pool' DEF ReceiversQuiet
<1> QED
  BY ONLY <1>5, <1>6, <1>7

\* The steps of compile after the first run nothing.
LEMMA AllocatedQuiet == ASSUME LaneInv, QuietInv, Allocate PROVE QuietInv'
<1>1. /\ phase = "pooling" /\ phase' = "wiring" /\ UNCHANGED <<patch, inference, sorting>>
      /\ pools'.in = Pool("in") /\ pools'.out = Pool("out")
      /\ input_pool' = [i \in DOMAIN Pool("in") |-> Silence]
      /\ output_pool' = [i \in DOMAIN Pool("out") |-> PutOut(Pool("out")[i].node, i, 0, {})]
  BY DEF Allocate
<1>2. Sized
  BY <1>1 DEF LaneInv
<1>3. PICK ins, outs : ins = Pool("in") /\ outs = Pool("out")
  OBVIOUS
<1>4. Shaped(ins, "in") /\ Shaped(outs, "out")
  BY <1>2, <1>3, PoolShaped DEF Dirs
<1>5. Shaped(pools.in, "in")' /\ Shaped(pools.out, "out")'
  <2>1. pools'.in = ins /\ pools'.out = outs
    BY ONLY <1>1, <1>3
  <2> QED
    BY <1>1, <1>4, <2>1, ShapesStay
<1>6. \A n, l : /\ IsSignal(PutOut(n, l, 0, {})) /\ PutOut(n, l, 0, {}).picked_up = {}
  <2>1. \A n, l : IsSignal([from |-> n, lane |-> l, block |-> 0, picked_up |-> {}])
    BY ONLY SignalIs
  <2> QED
    BY ONLY <2>1 DEF PutOut
<1>7. Silence = PutOut(NoNode, 0, 0, {})
  BY ONLY DEF Silence, PutOut
<1>8. Silent(pools.in, input_pool)'
  BY ONLY <1>1, <1>6, <1>7 DEF Silent
<1>9. Silent(pools.out, output_pool)'
  BY ONLY <1>1, <1>6 DEF Silent
<1>10. delayed' \subseteq Edges' /\ verdict' = "solved"
  BY <1>1 DEF QuietInv, sorting, Edges, inference
<1>11. \A i \in DOMAIN output_pool' : output_pool'[i].picked_up = {}
  BY ONLY <1>9 DEF Silent
<1> QED
  BY ONLY <1>1, <1>5, <1>8, <1>9, <1>10, <1>11 DEF QuietInv

\* A step that lays out no pools and runs nothing.
LEMMA ChecksQuiet ==
  ASSUME QuietInv, phase # "running", UNCHANGED <<patch, delayed, output_pool>>,
         phase' \notin {"wiring", "sorting", "running"}, phase' = "pooling" => verdict' = "solved"
  PROVE  QuietInv'
<1>1. Edges' = Edges
  BY DEF Edges
<1>2. delayed' \subseteq Edges' /\ \A i \in DOMAIN output_pool' : output_pool'[i].picked_up = {}
  BY ONLY <1>1, QuietInv, phase # "running", UNCHANGED <<patch, delayed, output_pool>> DEF QuietInv
<1> QED
  BY ONLY <1>2, phase' \notin {"wiring", "sorting", "running"}, phase' = "pooling" => verdict' = "solved"
     DEF QuietInv

\* The pools keep their shape while they stay.
LEMMA PoolsKeepShape ==
  ASSUME QuietInv, phase \in {"wiring", "sorting", "running"}, UNCHANGED <<patch, inference, pools>>
  PROVE  /\ Shaped(pools.in, "in")' /\ Shaped(pools.out, "out")'
         /\ verdict' = "solved"
         /\ Edges' = Edges
<1>1. PICK ins, outs : ins = pools.in /\ outs = pools.out
  OBVIOUS
<1>2. Shaped(ins, "in") /\ Shaped(outs, "out")
  BY <1>1 DEF QuietInv
<1>3. ins = pools'.in /\ outs = pools'.out
  BY <1>1
<1>4. Shaped(pools.in, "in")' /\ Shaped(pools.out, "out")'
  BY <1>2, <1>3, ShapesStay
<1>5. Edges' = Edges
  BY FramesStay
<1>6. verdict' = "solved"
  BY DEF QuietInv, inference
<1> QED
  BY ONLY <1>4, <1>5, <1>6

\* A step that wires or sorts.
LEMMA SortsQuiet ==
  ASSUME QuietInv, phase \in {"wiring", "sorting"}, phase' = "sorting",
         UNCHANGED <<patch, inference, pools, running>>, delayed' \subseteq Edges
  PROVE  QuietInv'
<1>1. /\ Shaped(pools.in, "in")' /\ Shaped(pools.out, "out")' /\ verdict' = "solved" /\ Edges' = Edges
  BY PoolsKeepShape
<1>2. /\ Silent(pools.in, input_pool) /\ Silent(pools.out, output_pool)
      /\ \A i \in DOMAIN output_pool : output_pool[i].picked_up = {}
  BY ONLY QuietInv, phase \in {"wiring", "sorting"} DEF QuietInv
<1>3. pools' = pools /\ input_pool' = input_pool /\ output_pool' = output_pool
  BY DEF running
<1>4. /\ Silent(pools.in, input_pool)' /\ Silent(pools.out, output_pool)'
      /\ \A i \in DOMAIN output_pool' : output_pool'[i].picked_up = {}
  BY ONLY <1>2, <1>3 DEF Silent
<1> QED
  BY ONLY <1>1, <1>4, phase' = "sorting", delayed' \subseteq Edges DEF QuietInv

\* A step of process_io.
LEMMA RunsQuiet ==
  ASSUME QuietInv, phase \in {"sorting", "running"}, phase' = "running",
         UNCHANGED <<patch, inference, pools, delayed>>,
         NEW ins, ins = input_pool', Even(pools.in, "in", ins),
         NEW outs, outs = output_pool', Even(pools.out, "out", outs), ReceiversQuiet(outs)
  PROVE  QuietInv'
<1>1. /\ Shaped(pools.in, "in")' /\ Shaped(pools.out, "out")' /\ verdict' = "solved" /\ Edges' = Edges
  BY PoolsKeepShape
<1>2. /\ Even(pools.in, "in", input_pool)' /\ Even(pools.out, "out", output_pool)'
      /\ ReceiversQuiet(output_pool)'
  BY EvenStays
<1>3. delayed' \subseteq Edges
  BY DEF QuietInv
<1> QED
  BY ONLY <1>1, <1>2, <1>3, phase' = "running" DEF QuietInv

\* Nothing picked up is the same on every conductor.
LEMMA SilentIsEven ==
  ASSUME NEW pool, NEW dir, NEW sig, Silent(pool, sig)
  PROVE  Even(pool, dir, sig)
<1>1. Wide({}) = {}
  BY ONLY DEF Wide
<1>2. \A x \in DOMAIN pool : Wide(sig[x].picked_up) = {}
  BY ONLY <1>1, Silent(pool, sig) DEF Silent
<1> QED
  BY ONLY <1>2, Silent(pool, sig) DEF Silent, Even

\* What the steps of a block build on.
LEMMA RunningIs ==
  ASSUME LaneInv, QuietInv, phase = "running"
  PROVE  /\ Sized /\ Sound /\ Fits(m) /\ PoolsFit(pools) /\ OneWire
         /\ Shaped(pools.in, "in") /\ Shaped(pools.out, "out")
         /\ Even(pools.in, "in", input_pool) /\ Even(pools.out, "out", output_pool)
         /\ ReceiversQuiet(output_pool)
         /\ delayed \in SUBSET Edges
<1>1. Sized /\ Sound /\ PoolsFit(pools) /\ OneWire /\ WiresFit
  BY ONLY LaneInv, phase = "running" DEF LaneInv, InferInv, Unchecked, WiringFaults
<1>2. Fits(m)
  BY ONLY <1>1, QuietInv, phase = "running" DEF QuietInv, WiresFit
<1> QED
  BY ONLY <1>1, <1>2, QuietInv, phase = "running" DEF QuietInv

\* The steps of compile keep it.
LEMMA CompileQuiet == ASSUME LaneInv, QuietInv, Compile PROVE QuietInv'
<1>1. CASE Check
  <2>1. /\ phase = "checking" /\ UNCHANGED <<patch, delayed, output_pool>>
        /\ phase' = IF WiringFault(patch) = NoFault THEN "inferring" ELSE WiringFault(patch)
    BY <1>1 DEF Check, sorting, running
  <2>2. phase' = "inferring" \/ phase' \in WiringFaults
    BY ONLY <2>1, FaultNames
  <2>3. phase' \notin {"pooling", "wiring", "sorting", "running"}
    BY ONLY <2>2 DEF WiringFaults
  <2> QED
    BY <2>1, <2>3, ChecksQuiet
<1>2. CASE InferConductors
  <2>1. /\ phase = "inferring" /\ UNCHANGED <<patch, delayed, output_pool>>
        /\ phase' = CASE verdict' = "inferring" -> phase
                      [] verdict' = "solved" -> "pooling"
                      [] OTHER -> verdict'
    BY <1>2 DEF InferConductors, Infer, Visit, LaneCountMismatch, SweepAgain, Settle, sorting, running
  <2>2. LaneInv'
    BY <1>2, InferenceKeeps
  <2>3. phase' \notin Unchecked => verdict' \in {"inferring", "solved", "LaneCountMismatch"}
    BY ONLY <2>2 DEF LaneInv, InferInv, InferTyped, InferTypeOK
  <2>4. /\ phase' \notin {"wiring", "sorting", "running"}
        /\ phase' = "pooling" => verdict' = "solved"
    BY ONLY <2>1, <2>3 DEF Unchecked, WiringFaults
  <2> QED
    BY <2>1, <2>4, ChecksQuiet
<1>3. CASE Allocate
  BY <1>3, AllocatedQuiet
<1>4. CASE CannotAllocate
  <2>1. phase = "pooling" /\ phase' = AllocFault /\ AllocFault # NoFault /\ UNCHANGED <<patch, delayed, output_pool>>
    BY <1>4 DEF CannotAllocate, sorting, running
  <2>2. phase' \in {NoFault, "RateIndivisible", "BlockLenIndivisible"} /\ phase' # NoFault
    BY ONLY <2>1 DEF AllocFault
  <2>3. phase' \notin {"pooling", "wiring", "sorting", "running"}
    BY ONLY <2>2
  <2> QED
    BY <2>1, <2>3, ChecksQuiet
<1>5. CASE Wired
  <2>1. /\ phase = "wiring" /\ phase' = "sorting" /\ UNCHANGED <<patch, inference, pools, running>>
        /\ delayed' = delayed
    BY <1>5 DEF Wired, Ports!Wired
  <2>2. delayed' \subseteq Edges
    BY ONLY <2>1, QuietInv DEF QuietInv
  <2> QED
    BY <2>1, <2>2, SortsQuiet
<1>6. CASE InputAlreadyConnected \/ RejectCycle \/ RejectClockCrossing \/ RejectPhantomFanIn
  <2>1. /\ phase \in {"wiring", "sorting"}
        /\ phase' \in {"conflict", "cycle", "ClockCrossingUnsupported", "PhantomFanIn"}
        /\ UNCHANGED <<patch, delayed, output_pool>>
    BY <1>6 DEF InputAlreadyConnected, RejectCycle, RejectClockCrossing, RejectPhantomFanIn, Sorted,
                sorting, running
  <2>2. phase # "running" /\ phase' \notin {"pooling", "wiring", "sorting", "running"}
    BY ONLY <2>1
  <2> QED
    BY <2>1, <2>2, ChecksQuiet
<1>7. CASE Sort
  <2>1. phase = "sorting" /\ phase' = "sorting" /\ UNCHANGED <<patch, inference, pools, running>>
    BY <1>7 DEF Sort
  <2>2. delayed \subseteq Edges
    BY ONLY QuietInv DEF QuietInv
  <2>3. delayed' \subseteq Edges
    <3>1. CASE \E n \in NodeIds : Ports!Place(n)
      BY <2>2, <3>1 DEF Ports!Place
    <3>2. CASE \E e \in Edges : Ports!CutEdge(e)
      <4>1. PICK e \in Edges : Ports!CutEdge(e)
        BY ONLY <3>2
      <4>2. delayed' = delayed \cup {e}
        BY ONLY <4>1 DEF Ports!CutEdge, Ports!Delay
      <4> QED
        BY ONLY <2>2, <4>2, e \in Edges
    <3> QED
      BY <1>7, <3>1, <3>2 DEF Sort
  <2> QED
    BY <2>1, <2>3, SortsQuiet
<1>8. CASE Compiled
  <2>1. phase = "sorting" /\ phase' = "running" /\ UNCHANGED <<patch, inference, pools, delayed, input_pool, output_pool>>
    BY <1>8 DEF Compiled, Sorted, sorting, running
  <2>2. PICK ins, outs : ins = input_pool /\ outs = output_pool
    OBVIOUS
  <2>3. /\ Silent(pools.in, ins) /\ Silent(pools.out, outs)
    BY ONLY <2>1, <2>2, QuietInv DEF QuietInv
  <2>4. Even(pools.in, "in", ins) /\ Even(pools.out, "out", outs)
    BY ONLY <2>3, SilentIsEven
  <2>5. ReceiversQuiet(outs)
    BY ONLY <2>3 DEF Silent, ReceiversQuiet, Wide
  <2>6. ins = input_pool' /\ outs = output_pool'
    BY ONLY <2>1, <2>2
  <2> QED
    BY <2>1, <2>4, <2>5, <2>6, RunsQuiet
<1> QED
  BY <1>1, <1>2, <1>3, <1>4, <1>5, <1>6, <1>7, <1>8 DEF Compile

\* The steps of process_io keep it.
LEMMA BlockQuiet ==
  ASSUME LaneInv, QuietInv, RunDelayedSteps \/ RunNode \/ EndBlock
  PROVE  QuietInv'
<1>1. phase = "running" /\ phase' = "running" /\ UNCHANGED <<patch, inference, pools, delayed>>
  BY DEF RunDelayedSteps, RunNode, EndBlock, sorting
<1>2. /\ Sized /\ Sound /\ Fits(m) /\ PoolsFit(pools) /\ OneWire
      /\ Shaped(pools.in, "in") /\ Shaped(pools.out, "out")
      /\ Even(pools.in, "in", input_pool) /\ Even(pools.out, "out", output_pool)
      /\ ReceiversQuiet(output_pool)
      /\ delayed \in SUBSET Edges
  BY <1>1, RunningIs
<1>3. CASE RunDelayedSteps
  <2>1. PICK outs : outs = output_pool
    OBVIOUS
  <2>2. PICK ins : ins = Carried(delayed, outs)
    OBVIOUS
  <2>3. ins = input_pool' /\ outs = output_pool'
    BY <1>3, <2>1, <2>2 DEF RunDelayedSteps
  <2>4. Even(pools.out, "out", outs) /\ ReceiversQuiet(outs)
    BY ONLY <1>2, <2>1
  <2>5. Even(pools.in, "in", ins)
    BY <1>2, <2>2, <2>4, CarriedEven
  <2> QED
    BY <1>1, <2>3, <2>4, <2>5, RunsQuiet
<1>4. CASE RunNode
  <2>1. PICK n : n = order[pos + 1]
    OBVIOUS
  <2>2. PICK outs : outs = output_pool'
    OBVIOUS
  <2>3. outs = Ran(n) /\ input_pool' = Carried(EmittedAfter(n), outs)
    BY <1>4, <2>1, <2>2 DEF RunNode, Ran, HeardBy
  <2>4. Even(pools.out, "out", outs) /\ ReceiversQuiet(outs)
    BY <1>2, <2>3, RanEven
  <2>5. PICK ins : ins = Carried(EmittedAfter(n), outs)
    OBVIOUS
  <2>6. EmittedAfter(n) \in SUBSET Edges
    BY DEF EmittedAfter
  <2>7. Even(pools.in, "in", ins)
    BY <1>2, <2>4, <2>5, <2>6, CarriedEven
  <2>8. ins = input_pool'
    BY ONLY <2>3, <2>5
  <2> QED
    BY <1>1, <2>2, <2>4, <2>7, <2>8, RunsQuiet
<1>5. CASE EndBlock
  <2>1. PICK ins, outs : ins = input_pool /\ outs = output_pool
    OBVIOUS
  <2>2. ins = input_pool' /\ outs = output_pool'
    BY <1>5, <2>1 DEF EndBlock
  <2>3. Even(pools.in, "in", ins) /\ Even(pools.out, "out", outs) /\ ReceiversQuiet(outs)
    BY ONLY <1>2, <2>1
  <2> QED
    BY <1>1, <2>2, <2>3, RunsQuiet
<1> QED
  BY <1>3, <1>4, <1>5

\* Nothing changes.
LEMMA StutterQuiet == ASSUME QuietInv, UNCHANGED vars PROVE QuietInv'
<1>1. UNCHANGED <<patch, inference, phase, pools, delayed, input_pool, output_pool, running>> /\ verdict' = verdict
  BY DEF vars, sorting, running, inference
<1>2. CASE phase = "running"
  <2>1. PICK ins, outs : ins = input_pool /\ outs = output_pool
    OBVIOUS
  <2>2. Even(pools.in, "in", ins) /\ Even(pools.out, "out", outs) /\ ReceiversQuiet(outs)
    BY ONLY <1>2, <2>1, QuietInv DEF QuietInv
  <2>3. ins = input_pool' /\ outs = output_pool'
    BY ONLY <1>1, <2>1
  <2> QED
    BY <1>1, <1>2, <2>2, <2>3, RunsQuiet
<1>3. CASE phase = "wiring"
  <2>1. Shaped(pools.in, "in")' /\ Shaped(pools.out, "out")' /\ verdict' = "solved" /\ Edges' = Edges
    BY <1>1, <1>3, PoolsKeepShape
  <2>2. /\ Silent(pools.in, input_pool) /\ Silent(pools.out, output_pool)
        /\ \A i \in DOMAIN output_pool : output_pool[i].picked_up = {}
        /\ delayed \subseteq Edges
    BY ONLY QuietInv, <1>3 DEF QuietInv
  <2>3. /\ Silent(pools.in, input_pool)' /\ Silent(pools.out, output_pool)'
        /\ \A i \in DOMAIN output_pool' : output_pool'[i].picked_up = {}
        /\ delayed' \subseteq Edges /\ phase' = "wiring"
    BY ONLY <1>1, <1>3, <2>2 DEF Silent
  <2> QED
    BY ONLY <2>1, <2>3 DEF QuietInv
<1>4. CASE phase = "sorting"
  <2>1. delayed' \subseteq Edges
    BY ONLY <1>1, QuietInv DEF QuietInv
  <2> QED
    BY <1>1, <1>4, <2>1, SortsQuiet
<1>5. CASE phase \notin {"wiring", "sorting", "running"}
  <2>1. phase = "pooling" => verdict = "solved"
    BY ONLY QuietInv DEF QuietInv
  <2> QED
    BY <1>1, <1>5, <2>1, ChecksQuiet
<1> QED
  BY ONLY <1>2, <1>3, <1>4, <1>5

\* What a balanced line picks up ends at its receiver, whatever is patched and through
\* however many inline processors it comes (LaneTransform of emit_edge, BalancedReceiver).
THEOREM SpecBalancedLinesAreQuiet == Spec => []BalancedLinesAreQuiet
<1>1. ASSUME QuietInv PROVE BalancedLinesAreQuiet
  <2>1. CASE phase = "running"
    <3>1. Even(pools.out, "out", output_pool) /\ ReceiversQuiet(output_pool)
      BY ONLY <1>1, <2>1 DEF QuietInv
    <3>2. DOMAIN output_pool = DOMAIN pools.out
      BY ONLY <3>1 DEF Even
    <3> QED
      BY ONLY <3>1, <3>2 DEF ReceiversQuiet, Wide, BalancedLinesAreQuiet
  <2>2. CASE phase # "running"
    <3>1. \A i \in DOMAIN output_pool : output_pool[i].picked_up = {}
      BY ONLY <1>1, <2>2 DEF QuietInv
    <3> QED
      BY ONLY <3>1 DEF BalancedLinesAreQuiet
  <2> QED
    BY ONLY <2>1, <2>2
<1>2. LaneInv /\ QuietInv /\ [Next]_vars => QuietInv'
  BY CompileQuiet, BlockQuiet, StutterQuiet DEF Next
<1>3. Spec => []LaneInv
  BY LaneInvariant
<1> QED
  BY QuietStarts, <1>1, <1>2, <1>3, PTL DEF Spec

-----------------------------------------------------------------------------
(* What a port of Schedule sees.                                           *)

\* A port's first lane.
First(pool, n, p) == Base(pool, n, p) + 1

\* Base finds the lane that it names.
LEMMA FirstIs ==
  ASSUME NEW dir, NEW pool, Shaped(pool, dir),
         NEW n \in NodeIds, NEW p \in 1..Len(Directed(n, dir)), LaneCount(n, dir, p) \in Nat \ {0}
  PROVE  /\ First(pool, n, p) \in DOMAIN pool
         /\ pool[First(pool, n, p)].node = n /\ pool[First(pool, n, p)].port = p
         /\ pool[First(pool, n, p)].lane = 1
<1>1. PICK K : K = 1..LaneCount(n, dir, p)
  OBVIOUS
<1>2. 1 \in K
  BY ONLY <1>1, LaneCount(n, dir, p) \in Nat \ {0}
<1>3. StretchOf(pool, n, p, K)
  BY ONLY <1>1, Shaped(pool, dir), n \in NodeIds, p \in 1..Len(Directed(n, dir)) DEF Shaped, EndToEnd
<1>4. PICK b \in Nat : /\ b + 1 \in DOMAIN pool
                       /\ pool[b + 1].node = n /\ pool[b + 1].port = p /\ pool[b + 1].lane = 1
  BY ONLY <1>2, <1>3 DEF StretchOf
<1>5. PICK c : c = CHOOSE i \in DOMAIN pool : pool[i].node = n /\ pool[i].port = p /\ pool[i].lane = 1
  OBVIOUS
<1>6. c \in DOMAIN pool /\ pool[c].node = n /\ pool[c].port = p /\ pool[c].lane = 1
  BY ONLY <1>4, <1>5
<1>7. c \in Nat
  BY ONLY <1>6, Shaped(pool, dir) DEF Shaped, LanesArePorts
<1>8. Base(pool, n, p) = c - 1
  BY ONLY <1>5 DEF Base
<1>9. First(pool, n, p) = c
  BY ONLY <1>7, <1>8 DEF First
<1> QED
  BY ONLY <1>6, <1>9

\* The lanes of a node hold one block.
Agreeing(outs) ==
  \A x, y \in DOMAIN pools.out :
    /\ outs[x].from = pools.out[x].node
    /\ pools.out[x].node = pools.out[y].node => outs[x].block = outs[y].block

\* Before the pools there is nothing to hear; after, the lanes of a node agree.
ViewInv ==
  /\ phase \in {"checking", "inferring", "pooling"} => pools = NoPools
  /\ phase \in {"wiring", "sorting", "running"} => Agreeing(output_pool)

\* They do at the start.
LEMMA ViewStarts == Init => ViewInv
  BY DEF Init, ViewInv

\* A node that runs puts this block on all of its lanes.
LEMMA RanAgrees ==
  ASSUME Agreeing(output_pool), DOMAIN output_pool = DOMAIN pools.out, NEW n, NEW outs, outs = Ran(n)
  PROVE  /\ Agreeing(outs)
         /\ \A x \in DOMAIN pools.out :
              outs[x].block = IF pools.out[x].node = n THEN block ELSE output_pool[x].block
<1>1. \A i, b, d : PutOut(n, i, b, d).from = n /\ PutOut(n, i, b, d).block = b
  BY ONLY DEF PutOut
<1>2. \A x \in DOMAIN pools.out :
        /\ pools.out[x].node = n => outs[x].from = n /\ outs[x].block = block
        /\ pools.out[x].node # n => outs[x] = output_pool[x]
  BY ONLY <1>1, outs = Ran(n), DOMAIN output_pool = DOMAIN pools.out DEF Ran
<1> QED
  BY ONLY <1>2, Agreeing(output_pool) DEF Agreeing

\* Each of the steps keeps what the ports see together.
LEMMA ViewStep == ASSUME LaneInv, QuietInv, ViewInv, [Next]_vars PROVE ViewInv'
<1>1. CASE phase \in {"wiring", "sorting", "running"} /\ UNCHANGED <<pools, output_pool>>
  <2>1. Agreeing(output_pool)'
    BY ONLY <1>1, ViewInv DEF ViewInv, Agreeing
  <2>2. phase' \notin {"checking", "inferring", "pooling"}
    BY <1>1 DEF Next, Compile, vars, Check, InferConductors, Allocate, CannotAllocate, Wired,
                InputAlreadyConnected, Sort, RejectCycle, RejectClockCrossing, RejectPhantomFanIn, Sorted,
                Compiled, RunDelayedSteps, RunNode, EndBlock
  <2> QED
    BY ONLY <2>1, <2>2 DEF ViewInv
<1>2. CASE RunNode
  <2>1. phase = "running" /\ phase' = "running" /\ pools' = pools
    BY <1>2 DEF RunNode
  <2>2. PICK n : n = order[pos + 1]
    OBVIOUS
  <2>3. PICK outs : outs = output_pool'
    OBVIOUS
  <2>4. outs = Ran(n)
    BY <1>2, <2>2, <2>3 DEF RunNode, Ran, HeardBy
  <2>5. Agreeing(output_pool) /\ DOMAIN output_pool = DOMAIN pools.out
    BY ONLY <2>1, ViewInv, QuietInv DEF ViewInv, QuietInv, Even
  <2>6. Agreeing(outs)
    BY <2>4, <2>5, RanAgrees
  <2>7. Agreeing(output_pool)'
    BY ONLY <2>1, <2>3, <2>6 DEF Agreeing
  <2> QED
    BY ONLY <2>1, <2>7 DEF ViewInv
<1>3. CASE Allocate
  <2>1. /\ phase' = "wiring" /\ pools'.out = Pool("out")
        /\ output_pool' = [i \in DOMAIN Pool("out") |-> PutOut(Pool("out")[i].node, i, 0, {})]
    BY <1>3 DEF Allocate
  <2>2. \A n, i : PutOut(n, i, 0, {}).from = n /\ PutOut(n, i, 0, {}).block = 0
    BY ONLY DEF PutOut
  <2>3. Agreeing(output_pool)'
    BY ONLY <2>1, <2>2 DEF Agreeing
  <2> QED
    BY ONLY <2>1, <2>3 DEF ViewInv
<1>4. CASE phase \notin {"wiring", "sorting", "running"} /\ phase' \notin {"wiring", "sorting", "running"}
  <2>1. phase' \in {"checking", "inferring", "pooling"} =>
          phase \in {"checking", "inferring", "pooling"} /\ pools' = pools
    <3>1. phase' = phase \/ phase \in {"checking", "inferring", "pooling"}
      BY <1>4 DEF Next, Compile, vars, Check, InferConductors, Allocate, CannotAllocate, Wired,
                  InputAlreadyConnected, Sort, RejectCycle, RejectClockCrossing, RejectPhantomFanIn, Sorted,
                  Compiled, RunDelayedSteps, RunNode, EndBlock
    <3>2. pools' = pools
      BY <1>4 DEF Next, Compile, vars, Check, InferConductors, Allocate, CannotAllocate, Wired,
                  InputAlreadyConnected, Sort, RejectCycle, RejectClockCrossing, RejectPhantomFanIn, Sorted,
                  Compiled, RunDelayedSteps, RunNode, EndBlock
    <3> QED
      BY ONLY <3>1, <3>2
  <2> QED
    BY ONLY <1>4, <2>1, ViewInv DEF ViewInv
<1>5. CASE phase \notin {"wiring", "sorting", "running"} /\ phase' \in {"wiring", "sorting", "running"}
  <2>1. Allocate
    <3>1. CASE Check
      <4>1. phase' = IF WiringFault(patch) = NoFault THEN "inferring" ELSE WiringFault(patch)
        BY <3>1 DEF Check
      <4>2. phase' = "inferring" \/ phase' \in WiringFaults
        BY ONLY <4>1, FaultNames
      <4> QED
        BY ONLY <1>5, <4>2 DEF WiringFaults
    <3>2. CASE InferConductors
      <4>1. LaneInv' /\ phase' \in {phase, "pooling", verdict'} /\ phase = "inferring"
        BY <3>2, InferenceKeeps DEF InferConductors
      <4>2. verdict' \notin {"wiring", "sorting", "running"}
        BY ONLY <1>5, <4>1 DEF LaneInv, InferInv, InferTyped, InferTypeOK, Unchecked, WiringFaults
      <4> QED
        BY ONLY <1>5, <4>1, <4>2
    <3>3. CASE CannotAllocate
      <4>1. phase' = AllocFault /\ AllocFault # NoFault
        BY <3>3 DEF CannotAllocate
      <4>2. AllocFault \in {NoFault, "RateIndivisible", "BlockLenIndivisible"}
        BY ONLY DEF AllocFault
      <4> QED
        BY ONLY <1>5, <4>1, <4>2
    <3> QED
      BY <1>5, <3>1, <3>2, <3>3
         DEF Next, Compile, vars, Wired, InputAlreadyConnected, Sort, RejectCycle, RejectClockCrossing,
             RejectPhantomFanIn, Sorted, Compiled, RunDelayedSteps, RunNode, EndBlock
  <2> QED
    BY <1>3, <2>1
<1>6. CASE phase \in {"wiring", "sorting", "running"} /\ ~ UNCHANGED <<pools, output_pool>>
  <2>1. RunNode
    BY <1>6 DEF Next, Compile, vars, Check, InferConductors, Allocate, CannotAllocate, Wired,
                InputAlreadyConnected, Sort, RejectCycle, RejectClockCrossing, RejectPhantomFanIn, Sorted,
                Compiled, RunDelayedSteps, EndBlock, running
  <2> QED
    BY <1>2, <2>1
<1> QED
  BY ONLY <1>1, <1>4, <1>5, <1>6

\* What stands in the schedule of ports for the lanes of a port, and for a node's.
SeenIn == [i \in NodeIds \X PortIds |-> Heard(i[1], i[2])]
SeenOut == [n \in NodeIds |-> LastRun(n)]

SeenOf(s) == [from |-> s.from, block |-> s.block]

\* The same of any contents of the pools.
HeardOf(ins, n, p) ==
  IF pools.in = <<>> \/ p > Len(patch.nodes[n].in) THEN [from |-> NoNode, block |-> 0]
  ELSE SeenOf(ins[First(pools.in, n, p)])

LastRunOf(outs, n) == IF pools.out = <<>> THEN 0 ELSE outs[First(pools.out, n, 1)].block

LEMMA SeenNow ==
  ASSUME NEW ins, NEW outs
  PROVE  /\ ins = input_pool => \A n, p : Heard(n, p) = HeardOf(ins, n, p)
         /\ outs = output_pool => \A n : LastRun(n) = LastRunOf(outs, n)
         /\ ins = input_pool' /\ UNCHANGED <<patch, pools>> => \A n, p : Heard(n, p)' = HeardOf(ins, n, p)
         /\ outs = output_pool' /\ UNCHANGED pools => \A n : LastRun(n)' = LastRunOf(outs, n)
  BY DEF Heard, HeardOf, LastRun, LastRunOf, SeenOf, First

\* A port of Schedule stands for the first lane of the port.
LEMMA HeardIs ==
  ASSUME QuietInv, Sized, phase \in {"wiring", "sorting", "running"}, NEW n \in NodeIds, NEW p \in PortIds,
         NEW ins
  PROVE  /\ p \in 1..Len(Directed(n, "in")) =>
              /\ First(pools.in, n, p) \in DOMAIN pools.in
              /\ Owner(pools.in, First(pools.in, n, p)) = <<n, p>>
              /\ HeardOf(ins, n, p) = SeenOf(ins[First(pools.in, n, p)])
         /\ p \notin 1..Len(Directed(n, "in")) => HeardOf(ins, n, p) = [from |-> NoNode, block |-> 0]
<1>1. Shaped(pools.in, "in")
  BY DEF QuietInv
<1>2. /\ Len(Directed(n, "in")) \in Nat
      /\ \A q \in 1..Len(Directed(n, "in")) : LaneCount(n, "in", q) \in Nat \ {0}
  BY PortsOf DEF Dirs
<1>3. p \in Nat \ {0}
  BY LanesAssumption DEF PortIds
<1>4. Directed(n, "in") = patch.nodes[n].in
  BY DEF Directed
<1>5. CASE p \in 1..Len(Directed(n, "in"))
  <2>1. PICK x : x = First(pools.in, n, p)
    OBVIOUS
  <2>2. x \in DOMAIN pools.in /\ pools.in[x].node = n /\ pools.in[x].port = p
    BY <1>1, <1>2, <1>5, <2>1, FirstIs
  <2>3. pools.in # <<>>
    BY ONLY <2>2
  <2>4. ~ p > Len(patch.nodes[n].in)
    BY ONLY <1>2, <1>4, <1>5
  <2>5. HeardOf(ins, n, p) = SeenOf(ins[x])
    BY ONLY <2>1, <2>3, <2>4 DEF HeardOf
  <2> QED
    BY ONLY <1>5, <2>1, <2>2, <2>5 DEF Owner
<1>6. CASE p \notin 1..Len(Directed(n, "in"))
  <2>1. p > Len(patch.nodes[n].in)
    BY ONLY <1>2, <1>3, <1>4, <1>6
  <2> QED
    BY ONLY <1>6, <2>1 DEF HeardOf
<1> QED
  BY ONLY <1>5, <1>6

\* A node of Schedule stands for the first lane of its first output.
LEMMA LastRunIs ==
  ASSUME QuietInv, Sized, phase \in {"wiring", "sorting", "running"}, NEW n \in NodeIds, NEW outs
  PROVE  /\ First(pools.out, n, 1) \in DOMAIN pools.out
         /\ pools.out[First(pools.out, n, 1)].node = n
         /\ LastRunOf(outs, n) = outs[First(pools.out, n, 1)].block
<1>1. Shaped(pools.out, "out")
  BY DEF QuietInv
<1>2. /\ Len(Directed(n, "out")) \in Nat
      /\ \A q \in 1..Len(Directed(n, "out")) : LaneCount(n, "out", q) \in Nat \ {0}
  BY PortsOf DEF Dirs
<1>3. Directed(n, "out") \in Seq(Face) /\ Directed(n, "out") # <<>>
  BY LanesAssumption DEF Directed, Sized, NodeIds
<1>4. 1 \in 1..Len(Directed(n, "out"))
  BY ONLY <1>2, <1>3
<1>5. PICK x : x = First(pools.out, n, 1)
  OBVIOUS
<1>6. x \in DOMAIN pools.out /\ pools.out[x].node = n
  BY <1>1, <1>2, <1>4, <1>5, FirstIs
<1>7. pools.out # <<>>
  BY ONLY <1>6
<1> QED
  BY ONLY <1>5, <1>6, <1>7 DEF LastRunOf

\* What a wire brings to the first lane of the port it ends at.
LEMMA CarriedSeen ==
  ASSUME Sized, Sound, PoolsFit(pools), Shaped(pools.in, "in"), OneWire, DOMAIN input_pool = DOMAIN pools.in,
         NEW edges \in SUBSET Edges, NEW outs, Agreeing(outs), \A y \in DOMAIN pools.out : IsSignal(outs[y]),
         NEW x \in DOMAIN pools.in, pools.in[x].lane = 1,
         NEW e \in edges, Owner(pools.in, x) = EndOf(e),
         NEW y \in DOMAIN pools.out, pools.out[y].node = patch.edges[e].from
  PROVE  SeenOf(Carried(edges, outs)[x]) = [from |-> patch.edges[e].from, block |-> outs[y].block]
<1>1. PICK k \in DOMAIN pools.steps[e] :
         Carried(edges, outs)[x] = Arrived(e, k, outs) /\ pools.steps[e][k].dst = x
  <2>1. \A f \in edges : Owner(pools.in, x) = EndOf(f) =>
          \E k \in DOMAIN pools.steps[f] :
            Carried(edges, outs)[x] = Arrived(f, k, outs) /\ pools.steps[f][k].dst = x
    BY ONLY CarriedAt, Sized, Sound, PoolsFit(pools), Shaped(pools.in, "in"), OneWire,
            DOMAIN input_pool = DOMAIN pools.in, SMTT(60), edges \in SUBSET Edges, x \in DOMAIN pools.in
  <2> QED
    BY ONLY <2>1, e \in edges, Owner(pools.in, x) = EndOf(e)
<1>2. StepJoins(e, k, pools.steps[e][k], pools.in, pools.out)
  BY <1>1 DEF PoolsFit
<1>3. PICK step : step = pools.steps[e][k]
  OBVIOUS
<1>4. k = 1
  BY ONLY <1>1, <1>2, pools.in[x].lane = 1 DEF StepJoins
<1>5. FromLanes(m, e) \in Nat \ {0}
  <2>1. LaneCount(patch.edges[e].from, "out", patch.edges[e].out) \in Nat \ {0}
    BY LanesOfAWire
  <2>2. OutFace(e) = Directed(patch.edges[e].from, "out")[patch.edges[e].out]
    BY EndsOfAWire
  <2> QED
    BY ONLY <2>1, <2>2 DEF FromLanes, LaneCount
<1>6. ~ step.grounded
  BY ONLY <1>2, <1>3, <1>4, <1>5 DEF StepJoins
<1>7. step.src \in DOMAIN pools.out /\ pools.out[step.src].node = patch.edges[e].from
  BY ONLY <1>2, <1>3 DEF StepJoins, Owner
<1>8. outs[step.src].from = patch.edges[e].from /\ outs[step.src].block = outs[y].block
  BY ONLY <1>7, Agreeing(outs), y \in DOMAIN pools.out, pools.out[y].node = patch.edges[e].from DEF Agreeing
<1>9. Arrived(e, k, outs) = [outs[step.src] EXCEPT !.picked_up = @ \cup PickedUp(e, k)]
  BY ONLY <1>3, <1>6 DEF Arrived
<1>10. \A s, more : IsSignal(s) =>
          /\ [s EXCEPT !.picked_up = @ \cup more].from = s.from
          /\ [s EXCEPT !.picked_up = @ \cup more].block = s.block
  BY ONLY DEF IsSignal
<1>11. IsSignal(outs[step.src])
  BY ONLY <1>7, \A y2 \in DOMAIN pools.out : IsSignal(outs[y2])
<1> QED
  BY ONLY <1>1, <1>8, <1>9, <1>10, <1>11 DEF SeenOf

\* The graph of ports has the wires of the patch.
LEMMA PortGraphIs ==
  ASSUME Sound
  PROVE  PortGraph(patch) =
           [e \in Edges |->
              [from |-> patch.edges[e].from, to |-> patch.edges[e].to, port |-> patch.edges[e].in,
               domain |-> OutFace(e).domain, delayed |-> patch.edges[e].delayed]]
  BY DEF PortGraph, Sound, Edges, OutFace

\* What is seen stays while the pools are not touched.
LEMMA SeenStays ==
  ASSUME UNCHANGED <<patch, pools, input_pool, output_pool>>
  PROVE  UNCHANGED <<PortGraph(patch), SeenIn, SeenOut>>
  BY DEF SeenIn, SeenOut, Heard, LastRun, PortGraph

\* The schedule of ports starts with this one.
LEMMA RefinesStart == Init => Ports!ScheduleInit
<1> SUFFICES ASSUME Init PROVE Ports!ScheduleInit
  OBVIOUS
<1>1. /\ patch \in Patches \cup Broken /\ phase = "checking" /\ pools = NoPools
      /\ in_degree = [n \in NodeIds |-> 0] /\ ready = {} /\ order = <<>>
      /\ block = 1 /\ primed = FALSE /\ pos = 0
      /\ delayed = {e \in DOMAIN PortGraph(patch) : patch.edges[e].delayed}
  BY DEF Init
<1>2. PortGraph(patch) \in PortGraphs
  BY ONLY <1>1 DEF PortGraphs
<1>3. delayed = {e \in DOMAIN PortGraph(patch) : PortGraph(patch)[e].delayed}
  <2>1. \A e \in DOMAIN PortGraph(patch) : PortGraph(patch)[e].delayed = patch.edges[e].delayed
    BY ONLY DEF PortGraph
  <2> QED
    BY ONLY <1>1, <2>1
<1>4. PortPhase = "wiring"
  BY ONLY <1>1 DEF PortPhase
<1>5. /\ \A n, p : Heard(n, p) = [from |-> NoNode, block |-> 0]
      /\ \A n : LastRun(n) = 0
  BY ONLY <1>1 DEF Heard, LastRun, NoPools
<1> QED
  BY ONLY <1>1, <1>2, <1>3, <1>4, <1>5 DEF Ports!ScheduleInit, Ports!Silence

\* What a port hears once some of the wires are served.
LEMMA ServedSeen ==
  ASSUME LaneInv, QuietInv, phase = "running",
         NEW edges \in SUBSET Edges,
         NEW outs, Agreeing(outs), \A y \in DOMAIN pools.out : IsSignal(outs[y]),
         NEW ins, ins = Carried(edges, outs), NEW n \in NodeIds, NEW p \in PortIds
  PROVE  /\ \A e \in edges : EndOf(e) = <<n, p>> =>
              HeardOf(ins, n, p) = [from |-> patch.edges[e].from, block |-> LastRunOf(outs, patch.edges[e].from)]
         /\ (\A e \in edges : EndOf(e) # <<n, p>>) => HeardOf(ins, n, p) = HeardOf(input_pool, n, p)
<1>1. /\ Sized /\ Sound /\ PoolsFit(pools) /\ OneWire /\ Shaped(pools.in, "in")
      /\ DOMAIN input_pool = DOMAIN pools.in
  BY RunningIs DEF Even
<1>2. PICK x : x = First(pools.in, n, p)
  OBVIOUS
<1>3. /\ p \in 1..Len(Directed(n, "in")) =>
           /\ x \in DOMAIN pools.in /\ Owner(pools.in, x) = <<n, p>>
           /\ HeardOf(ins, n, p) = SeenOf(ins[x])
           /\ HeardOf(input_pool, n, p) = SeenOf(input_pool[x])
      /\ p \notin 1..Len(Directed(n, "in")) => HeardOf(ins, n, p) = HeardOf(input_pool, n, p)
  BY <1>1, <1>2, HeardIs
<1>4. p \in 1..Len(Directed(n, "in")) => pools.in[x].lane = 1
  BY <1>1, <1>2, PortsOf, FirstIs DEF Dirs
<1>5. ASSUME NEW e \in edges, EndOf(e) = <<n, p>>
      PROVE  HeardOf(ins, n, p) = [from |-> patch.edges[e].from, block |-> LastRunOf(outs, patch.edges[e].from)]
  <2>1. e \in Edges /\ patch.edges[e].to = n /\ patch.edges[e].in = p
    BY <1>5 DEF EndOf
  <2>2. p \in 1..Len(Directed(n, "in")) /\ patch.edges[e].from \in NodeIds
    BY <1>1, <2>1, EndsOfAWire
  <2>3. PICK y \in DOMAIN pools.out :
          /\ pools.out[y].node = patch.edges[e].from
          /\ LastRunOf(outs, patch.edges[e].from) = outs[y].block
    BY <1>1, <2>2, LastRunIs
  <2>4. SeenOf(Carried(edges, outs)[x]) = [from |-> patch.edges[e].from, block |-> outs[y].block]
    <3>1. x \in DOMAIN pools.in /\ pools.in[x].lane = 1 /\ Owner(pools.in, x) = EndOf(e)
      BY ONLY <1>3, <1>4, <1>5, <2>2
    <3> QED
      BY <1>1, <2>3, <3>1, CarriedSeen
  <2> QED
    BY ONLY <1>3, <2>2, <2>3, <2>4, ins = Carried(edges, outs)
<1>6. ASSUME \A e \in edges : EndOf(e) # <<n, p>>, p \in 1..Len(Directed(n, "in"))
      PROVE  HeardOf(ins, n, p) = HeardOf(input_pool, n, p)
  <2>1. \A e \in edges : Owner(pools.in, x) # EndOf(e)
    BY ONLY <1>3, <1>6
  <2>2. x \in DOMAIN pools.in
    BY ONLY <1>3, <1>6
  <2>3. Carried(edges, outs)[x] = input_pool[x]
    BY ONLY <1>1, <2>1, <2>2, CarriedAt, edges \in SUBSET Edges
  <2> QED
    BY ONLY <1>3, <1>6, <2>3, ins = Carried(edges, outs)
<1> QED
  BY ONLY <1>3, <1>5, <1>6

\* The delayed steps copy to the ports what the schedule of ports does.
LEMMA RefinesDelayedSteps ==
  ASSUME LaneInv, QuietInv, ViewInv, RunDelayedSteps
  PROVE  Ports!RunDelayedSteps
<1>1. /\ phase = "running" /\ phase' = "running" /\ ~ primed /\ primed' = TRUE
      /\ UNCHANGED <<patch, pools, delayed, in_degree, ready, order, output_pool, block, pos>>
      /\ input_pool' = Carried(delayed, output_pool)
  BY DEF RunDelayedSteps, sorting
<1>2. /\ Sized /\ Sound /\ OneWire /\ delayed \in SUBSET Edges
      /\ Even(pools.out, "out", output_pool) /\ Agreeing(output_pool)
  BY <1>1, RunningIs DEF ViewInv
<1>3. PICK outs : outs = output_pool
  OBVIOUS
<1>4. PICK ins : ins = Carried(delayed, outs)
  OBVIOUS
<1>5. Agreeing(outs) /\ \A y \in DOMAIN pools.out : IsSignal(outs[y])
  BY ONLY <1>2, <1>3 DEF Even
<1>6. ASSUME NEW n \in NodeIds, NEW p \in PortIds
      PROVE  /\ \A e \in delayed : EndOf(e) = <<n, p>> =>
                  HeardOf(ins, n, p) = [from |-> patch.edges[e].from, block |-> LastRunOf(outs, patch.edges[e].from)]
             /\ (\A e \in delayed : EndOf(e) # <<n, p>>) => HeardOf(ins, n, p) = HeardOf(input_pool, n, p)
  BY <1>1, <1>2, <1>4, <1>5, ServedSeen
<1>7. /\ \A n, p : Heard(n, p)' = HeardOf(ins, n, p) /\ Heard(n, p) = HeardOf(input_pool, n, p)
      /\ \A n : LastRun(n)' = LastRun(n) /\ LastRun(n) = LastRunOf(outs, n)
  <2>1. ins = input_pool' /\ outs = output_pool /\ outs = output_pool'
    BY ONLY <1>1, <1>3, <1>4
  <2> QED
    BY <1>1, <2>1, SeenNow
<1>8. /\ \A e \in delayed : Ports!Input(e) = EndOf(e)
      /\ \A e \in delayed : PortGraph(patch)[e].from = patch.edges[e].from /\ patch.edges[e].from \in NodeIds
  BY <1>2, PortGraphIs, EndsOfAWire DEF Ports!Input, EndOf
<1>9. \A e, f \in delayed : EndOf(e) = EndOf(f) => e = f
  BY ONLY <1>2 DEF OneWire, EndOf
<1>10. [i \in NodeIds \X PortIds |-> Heard(i[1], i[2])]' = Ports!Copy(delayed)
  <2>1. ASSUME NEW n \in NodeIds, NEW p \in PortIds
        PROVE  HeardOf(ins, n, p) = Ports!Copy(delayed)[<<n, p>>]
    <3>1. CASE \E e \in delayed : EndOf(e) = <<n, p>>
      <4>1. PICK e \in delayed : EndOf(e) = <<n, p>>
        BY ONLY <3>1
      <4>2. (CHOOSE f \in delayed : Ports!Input(f) = <<n, p>>) = e
        BY ONLY <1>8, <1>9, <4>1
      <4>3. Ports!Copy(delayed)[<<n, p>>] = Ports!Signal(e, LastRun(patch.edges[e].from))
        BY ONLY <1>8, <4>1, <4>2, n \in NodeIds, p \in PortIds DEF Ports!Copy
      <4>4. Ports!Copy(delayed)[<<n, p>>] = [from |-> patch.edges[e].from, block |-> LastRun(patch.edges[e].from)]
        BY ONLY <1>8, <4>1, <4>3 DEF Ports!Signal
      <4> QED
        BY ONLY <1>6, <1>7, <4>1, <4>4, n \in NodeIds, p \in PortIds
    <3>2. CASE \A e \in delayed : EndOf(e) # <<n, p>>
      <4>1. Ports!Copy(delayed)[<<n, p>>] = Heard(n, p)
        BY ONLY <1>8, <3>2, n \in NodeIds, p \in PortIds DEF Ports!Copy
      <4> QED
        BY ONLY <1>6, <1>7, <3>2, <4>1, n \in NodeIds, p \in PortIds
    <3> QED
      BY ONLY <3>1, <3>2
  <2>2. PICK f : f = Ports!Copy(delayed)
    OBVIOUS
  <2>3. f = [i \in NodeIds \X PortIds |-> f[i]]
    BY ONLY <2>2 DEF Ports!Copy
  <2>4. \A i \in NodeIds \X PortIds : HeardOf(ins, i[1], i[2]) = f[i]
    BY ONLY <2>1, <2>2
  <2> QED
    BY ONLY <1>7, <2>2, <2>3, <2>4
<1>11. PortPhase = "running" /\ PortPhase' = "running"
  BY ONLY <1>1 DEF PortPhase
<1>12. PortGraph(patch)' = PortGraph(patch)
  BY ONLY <1>1 DEF PortGraph
<1> QED
  BY ONLY <1>1, <1>7, <1>10, <1>11, <1>12 DEF Ports!RunDelayedSteps, Ports!compiling

\* A node's step and those of its wires leave the ports what the schedule of ports does.
LEMMA RefinesRunNode ==
  ASSUME LaneInv, QuietInv, ViewInv, RunNode
  PROVE  Ports!RunNode
<1>1. /\ phase = "running" /\ phase' = "running" /\ primed /\ pos < Len(order) /\ pos' = pos + 1
      /\ UNCHANGED <<patch, pools, delayed, in_degree, ready, order, block, primed>>
  BY DEF RunNode, sorting
<1>2. /\ Sized /\ Sound /\ Shaped(pools.in, "in") /\ Shaped(pools.out, "out")
      /\ Even(pools.in, "in", input_pool) /\ Even(pools.out, "out", output_pool)
      /\ ReceiversQuiet(output_pool) /\ Agreeing(output_pool)
  BY <1>1, RunningIs DEF ViewInv
<1>3. PICK n : n = order[pos + 1]
  OBVIOUS
<1>4. PICK outs : outs = output_pool'
  OBVIOUS
<1>5. outs = Ran(n) /\ input_pool' = Carried(EmittedAfter(n), outs)
  BY <1>3, <1>4 DEF RunNode, Ran, HeardBy
<1>6. PICK ins : ins = Carried(EmittedAfter(n), outs)
  OBVIOUS
<1>7. /\ Agreeing(outs) /\ \A y \in DOMAIN pools.out : IsSignal(outs[y])
      /\ \A x \in DOMAIN pools.out :
           outs[x].block = IF pools.out[x].node = n THEN block ELSE output_pool[x].block
  <2>1. DOMAIN output_pool = DOMAIN pools.out
    BY ONLY <1>2 DEF Even
  <2>2. Even(pools.out, "out", outs)
    BY <1>2, <1>5, RanEven
  <2> QED
    BY <1>2, <1>5, <2>1, <2>2, RanAgrees DEF Even
<1>8. EmittedAfter(n) \in SUBSET Edges /\ \A e \in EmittedAfter(n) : patch.edges[e].from = n
  BY DEF EmittedAfter
<1>9. ASSUME NEW k \in NodeIds, NEW p \in PortIds
      PROVE  /\ \A e \in EmittedAfter(n) : EndOf(e) = <<k, p>> =>
                  HeardOf(ins, k, p) = [from |-> patch.edges[e].from, block |-> LastRunOf(outs, patch.edges[e].from)]
             /\ (\A e \in EmittedAfter(n) : EndOf(e) # <<k, p>>) => HeardOf(ins, k, p) = HeardOf(input_pool, k, p)
  BY <1>1, <1>6, <1>7, <1>8, ServedSeen
<1>10. \A k \in NodeIds : LastRunOf(outs, k) = IF k = n THEN block ELSE LastRunOf(output_pool, k)
  <2>1. ASSUME NEW k \in NodeIds PROVE LastRunOf(outs, k) = IF k = n THEN block ELSE LastRunOf(output_pool, k)
    <3>1. PICK x : x = First(pools.out, k, 1)
      OBVIOUS
    <3>2. /\ x \in DOMAIN pools.out /\ pools.out[x].node = k
          /\ LastRunOf(outs, k) = outs[x].block /\ LastRunOf(output_pool, k) = output_pool[x].block
      BY <1>1, <1>2, <3>1, LastRunIs
    <3> QED
      BY ONLY <1>7, <3>2
  <2> QED
    BY ONLY <2>1
<1>11. /\ \A k, p : Heard(k, p)' = HeardOf(ins, k, p) /\ Heard(k, p) = HeardOf(input_pool, k, p)
       /\ \A k : LastRun(k)' = LastRunOf(outs, k) /\ LastRun(k) = LastRunOf(output_pool, k)
  <2>1. ins = input_pool'
    BY ONLY <1>5, <1>6
  <2> QED
    BY <1>1, <1>4, <2>1, SeenNow
<1>12. /\ \A e \in EmittedAfter(n) : Ports!Input(e) = EndOf(e) /\ patch.edges[e].from \in NodeIds
       /\ Ports!Outgoing(n) = EmittedAfter(n)
  <2>1. \A e \in Edges : Ports!Input(e) = EndOf(e) /\ patch.edges[e].from \in NodeIds
    BY <1>2, PortGraphIs, EndsOfAWire DEF Ports!Input, EndOf
  <2>2. DOMAIN PortGraph(patch) = Edges /\ \A e \in Edges : PortGraph(patch)[e].from = patch.edges[e].from
    BY <1>2, PortGraphIs
  <2>3. Ports!Outgoing(n) = EmittedAfter(n)
    BY ONLY <2>2 DEF Ports!Outgoing, Ports!Deps, Ports!EdgeIds, EmittedAfter
  <2> QED
    BY ONLY <1>8, <2>1, <2>3
<1>13. ASSUME NEW k \in NodeIds, NEW p \in PortIds
       PROVE  HeardOf(ins, k, p) =
                IF \E e \in Ports!Outgoing(n) : Ports!Input(e) = <<k, p>> THEN [from |-> n, block |-> block]
                ELSE Heard(k, p)
  <2>1. CASE \E e \in EmittedAfter(n) : EndOf(e) = <<k, p>>
    <3>1. PICK e \in EmittedAfter(n) : EndOf(e) = <<k, p>>
      BY ONLY <2>1
    <3>2. patch.edges[e].from = n /\ n \in NodeIds
      BY ONLY <1>8, <1>12, e \in EmittedAfter(n)
    <3>3. HeardOf(ins, k, p) = [from |-> n, block |-> LastRunOf(outs, n)]
      BY ONLY <1>9, <3>1, <3>2, k \in NodeIds, p \in PortIds
    <3>4. LastRunOf(outs, n) = block
      BY ONLY <1>10, <3>2
    <3> QED
      BY ONLY <1>12, <3>1, <3>3, <3>4
  <2>2. CASE \A e \in EmittedAfter(n) : EndOf(e) # <<k, p>>
    BY ONLY <1>9, <1>11, <1>12, <2>2, k \in NodeIds, p \in PortIds
  <2> QED
    BY ONLY <2>1, <2>2
<1>14. [i \in NodeIds \X PortIds |-> Heard(i[1], i[2])]' =
         [i \in NodeIds \X PortIds |->
            IF \E e \in Ports!Outgoing(n) : Ports!Input(e) = i THEN [from |-> n, block |-> block]
            ELSE [j \in NodeIds \X PortIds |-> Heard(j[1], j[2])][i]]
  <2>1. \A i \in NodeIds \X PortIds :
          HeardOf(ins, i[1], i[2]) =
            IF \E e \in Ports!Outgoing(n) : Ports!Input(e) = i THEN [from |-> n, block |-> block]
            ELSE Heard(i[1], i[2])
    BY ONLY <1>13
  <2> QED
    BY ONLY <1>11, <2>1
<1>15. [k \in NodeIds |-> LastRun(k)]' = [[k \in NodeIds |-> LastRun(k)] EXCEPT ![n] = block]
  BY ONLY <1>10, <1>11
<1>16. PortPhase = "running" /\ PortPhase' = "running"
  BY ONLY <1>1 DEF PortPhase
<1>17. PortGraph(patch)' = PortGraph(patch)
  BY ONLY <1>1 DEF PortGraph
<1> QED
  BY ONLY <1>1, <1>3, <1>14, <1>15, <1>16, <1>17 DEF Ports!RunNode, Ports!compiling

\* Steps that ports do not see.
LEMMA UnseenStep ==
  ASSUME UNCHANGED <<patch, pools, sorting, running>>, PortPhase' = PortPhase
  PROVE  UNCHANGED Ports!scheduleVars
<1>1. UNCHANGED <<PortGraph(patch), delayed, in_degree, ready, order, block, primed, pos>>
  BY DEF PortGraph, sorting, running
<1>2. UNCHANGED <<SeenIn, SeenOut>>
  BY SeenStays DEF running
<1>3. /\ [i \in NodeIds \X PortIds |-> Heard(i[1], i[2])]' = [i \in NodeIds \X PortIds |-> Heard(i[1], i[2])]
      /\ [n \in NodeIds |-> LastRun(n)]' = [n \in NodeIds |-> LastRun(n)]
  BY ONLY <1>2 DEF SeenIn, SeenOut
<1> QED
  BY ONLY <1>1, <1>3, PortPhase' = PortPhase DEF Ports!scheduleVars, Ports!compiling, Ports!pools

\* The pools are allocated with the silence that Schedule starts with.
LEMMA AllocateUnseen ==
  ASSUME LaneInv, ViewInv, QuietInv, Allocate
  PROVE  UNCHANGED Ports!scheduleVars
<1>1. /\ phase = "pooling" /\ phase' = "wiring" /\ UNCHANGED <<patch, inference, sorting, block, primed, pos>>
      /\ pools'.in = Pool("in") /\ pools'.out = Pool("out")
      /\ input_pool' = [i \in DOMAIN Pool("in") |-> Silence]
      /\ output_pool' = [i \in DOMAIN Pool("out") |-> PutOut(Pool("out")[i].node, i, 0, {})]
  BY DEF Allocate
<1>2. Sized /\ pools = NoPools
  BY ONLY <1>1, LaneInv, ViewInv DEF LaneInv, ViewInv
<1>3. /\ \A n, p : Heard(n, p) = [from |-> NoNode, block |-> 0]
      /\ \A n : LastRun(n) = 0
  BY ONLY <1>2 DEF Heard, LastRun, NoPools
<1>4. PICK ins, outs : ins = Pool("in") /\ outs = Pool("out")
  OBVIOUS
<1>5. Shaped(ins, "in") /\ Shaped(outs, "out")
  BY <1>2, <1>4, PoolShaped DEF Dirs
<1>6. \A n, i : PutOut(n, i, 0, {}).block = 0
  BY ONLY DEF PutOut
<1>7. ASSUME NEW n \in NodeIds, NEW p \in PortIds PROVE Heard(n, p)' = [from |-> NoNode, block |-> 0]
  <2>1. /\ Len(Directed(n, "in")) \in Nat
        /\ \A q \in 1..Len(Directed(n, "in")) : LaneCount(n, "in", q) \in Nat \ {0}
    BY <1>2, PortsOf DEF Dirs
  <2>2. p \in Nat \ {0}
    BY LanesAssumption DEF PortIds
  <2>3. Directed(n, "in") = patch'.nodes[n].in
    BY ONLY <1>1 DEF Directed
  <2>4. CASE p \in 1..Len(Directed(n, "in"))
    <3>1. PICK x : x = First(ins, n, p)
      OBVIOUS
    <3>2. x \in DOMAIN ins
      BY <1>5, <2>1, <2>4, <3>1, FirstIs
    <3>3. x \in DOMAIN input_pool' /\ input_pool'[x] = Silence
      BY ONLY <1>1, <1>4, <3>2
    <3>4. x = Base(pools'.in, n, p) + 1
      BY ONLY <1>1, <1>4, <3>1 DEF First
    <3> QED
      BY ONLY <3>3, <3>4 DEF Heard, Silence
  <2>5. CASE p \notin 1..Len(Directed(n, "in"))
    <3>1. p > Len(patch'.nodes[n].in)
      BY ONLY <2>1, <2>2, <2>3, <2>5
    <3> QED
      BY ONLY <3>1 DEF Heard
  <2> QED
    BY ONLY <2>4, <2>5
<1>8. ASSUME NEW n \in NodeIds PROVE LastRun(n)' = 0
  <2>1. /\ Len(Directed(n, "out")) \in Nat
        /\ \A q \in 1..Len(Directed(n, "out")) : LaneCount(n, "out", q) \in Nat \ {0}
    BY <1>2, PortsOf DEF Dirs
  <2>2. Directed(n, "out") \in Seq(Face) /\ Directed(n, "out") # <<>>
    BY <1>2, LanesAssumption DEF Directed, Sized, NodeIds
  <2>3. 1 \in 1..Len(Directed(n, "out"))
    BY ONLY <2>1, <2>2
  <2>4. PICK x : x = First(outs, n, 1)
    OBVIOUS
  <2>5. x \in DOMAIN outs
    BY <1>5, <2>1, <2>3, <2>4, FirstIs
  <2>6. output_pool'[x].block = 0
    BY ONLY <1>1, <1>4, <1>6, <2>5
  <2>7. x = Base(pools'.out, n, 1) + 1
    BY ONLY <1>1, <1>4, <2>4 DEF First
  <2> QED
    BY ONLY <2>6, <2>7 DEF LastRun
<1>9. /\ [i \in NodeIds \X PortIds |-> Heard(i[1], i[2])]' = [i \in NodeIds \X PortIds |-> Heard(i[1], i[2])]
      /\ [n \in NodeIds |-> LastRun(n)]' = [n \in NodeIds |-> LastRun(n)]
  <2>1. \A i \in NodeIds \X PortIds : Heard(i[1], i[2])' = [from |-> NoNode, block |-> 0]
    BY ONLY <1>7
  <2> QED
    BY ONLY <1>3, <1>8, <2>1
<1>10. PortPhase = "wiring" /\ PortPhase' = "wiring"
  BY ONLY <1>1 DEF PortPhase
<1>11. UNCHANGED <<PortGraph(patch), delayed, in_degree, ready, order, block, primed, pos>>
  BY ONLY <1>1 DEF PortGraph, sorting
<1> QED
  BY ONLY <1>9, <1>10, <1>11 DEF Ports!scheduleVars, Ports!compiling, Ports!pools

\* Every step is one of the schedule of ports, or none that it sees.
LEMMA RefinesStep ==
  ASSUME LaneInv, QuietInv, ViewInv, [Next]_vars
  PROVE  [Ports!ScheduleNext]_Ports!scheduleVars
<1>1. CASE Check
  <2>1. /\ phase = "checking" /\ UNCHANGED <<patch, pools, sorting, running>>
        /\ phase' = IF WiringFault(patch) = NoFault THEN "inferring" ELSE WiringFault(patch)
    BY <1>1 DEF Check
  <2>2. phase' = "inferring" \/ phase' \in WiringFaults
    BY ONLY <2>1, FaultNames
  <2>3. PortPhase' = PortPhase
    BY ONLY <2>1, <2>2 DEF PortPhase, WiringFaults
  <2> QED
    BY <2>1, <2>3, UnseenStep
<1>2. CASE InferConductors
  <2>1. /\ phase = "inferring" /\ phase' \in {phase, "pooling", verdict'}
        /\ UNCHANGED <<patch, pools, sorting, running>>
    BY <1>2 DEF InferConductors, Infer, Visit, LaneCountMismatch, SweepAgain, Settle
  <2>2. LaneInv'
    BY <1>2, InferenceKeeps
  <2>3. phase' \in Unchecked \/ verdict' \in {"inferring", "solved", "LaneCountMismatch"}
    BY ONLY <2>2 DEF LaneInv, InferInv, InferTyped, InferTypeOK
  <2>4. PortPhase' = PortPhase
    BY ONLY <2>1, <2>3 DEF PortPhase, Unchecked, WiringFaults
  <2> QED
    BY <2>1, <2>4, UnseenStep
<1>3. CASE Allocate
  BY <1>3, AllocateUnseen
<1>4. CASE CannotAllocate
  <2>1. phase = "pooling" /\ phase' = AllocFault /\ UNCHANGED <<patch, pools, sorting, running>>
    BY <1>4 DEF CannotAllocate
  <2>2. phase' \in {NoFault, "RateIndivisible", "BlockLenIndivisible"}
    BY ONLY <2>1 DEF AllocFault
  <2>3. AllocFault # NoFault
    BY <1>4 DEF CannotAllocate
  <2>4. PortPhase' = PortPhase
    BY ONLY <2>1, <2>2, <2>3 DEF PortPhase
  <2> QED
    BY <2>1, <2>4, UnseenStep
<1>5. CASE Wired
  BY <1>5 DEF Wired, Ports!ScheduleNext
<1>6. CASE InputAlreadyConnected
  BY <1>6 DEF InputAlreadyConnected, Ports!ScheduleNext
<1>7. CASE Sort
  <2>1. Sound
    BY <1>7 DEF Sort, LaneInv, Unchecked, WiringFaults
  <2>2. DOMAIN PortGraph(patch) = Edges
    BY <2>1, PortGraphIs
  <2>3. CASE \E n \in NodeIds : Ports!Place(n)
    BY <2>3 DEF Ports!ScheduleNext
  <2>4. CASE \E e \in Edges : Ports!CutEdge(e)
    BY <2>2, <2>4 DEF Ports!ScheduleNext, Ports!EdgeIds
  <2> QED
    BY <1>7, <2>3, <2>4 DEF Sort
<1>8. CASE RejectCycle
  BY <1>8 DEF RejectCycle, Ports!ScheduleNext
<1>9. CASE RejectClockCrossing \/ RejectPhantomFanIn
  <2>1. /\ phase = "sorting" /\ phase' \in {"ClockCrossingUnsupported", "PhantomFanIn"}
        /\ UNCHANGED <<patch, pools, sorting, running>>
    BY <1>9 DEF RejectClockCrossing, RejectPhantomFanIn, Sorted
  <2>2. PortPhase' = PortPhase
    BY ONLY <2>1 DEF PortPhase
  <2> QED
    BY <2>1, <2>2, UnseenStep
<1>10. CASE Compiled
  <2>1. /\ phase = "sorting" /\ phase' = "running" /\ ready = {} /\ Ports!EveryNodePlaced
        /\ UNCHANGED <<patch, pools, sorting, running>>
    BY <1>10 DEF Compiled, Sorted
  <2>2. PortPhase = "sorting" /\ PortPhase' = "running"
    BY ONLY <2>1 DEF PortPhase
  <2>3. UNCHANGED <<PortGraph(patch), delayed, in_degree, ready, order, block, primed, pos>>
    BY <2>1 DEF PortGraph, sorting, running
  <2>4. UNCHANGED <<SeenIn, SeenOut>>
    BY <2>1, SeenStays DEF running
  <2>5. /\ [i \in NodeIds \X PortIds |-> Heard(i[1], i[2])]' = [i \in NodeIds \X PortIds |-> Heard(i[1], i[2])]
        /\ [n \in NodeIds |-> LastRun(n)]' = [n \in NodeIds |-> LastRun(n)]
    BY ONLY <2>4 DEF SeenIn, SeenOut
  <2>6. Ports!Compiled
    BY ONLY <2>1, <2>2, <2>3, <2>5 DEF Ports!Compiled, Ports!compiling, Ports!pools
  <2> QED
    BY ONLY <2>6 DEF Ports!ScheduleNext
<1>11. CASE RunDelayedSteps
  BY <1>11, RefinesDelayedSteps DEF Ports!ScheduleNext
<1>12. CASE RunNode
  BY <1>12, RefinesRunNode DEF Ports!ScheduleNext
<1>13. CASE EndBlock
  <2>1. /\ phase = "running" /\ phase' = "running" /\ primed /\ pos = Len(order) /\ block <= MaxBlocks
        /\ block' = block + 1 /\ primed' = FALSE /\ pos' = 0
        /\ UNCHANGED <<patch, pools, delayed, in_degree, ready, order, input_pool, output_pool>>
    BY <1>13 DEF EndBlock, sorting
  <2>2. PortPhase = "running" /\ PortPhase' = "running"
    BY ONLY <2>1 DEF PortPhase
  <2>3. UNCHANGED <<PortGraph(patch), SeenIn, SeenOut>>
    BY <2>1, SeenStays
  <2>4. /\ [i \in NodeIds \X PortIds |-> Heard(i[1], i[2])]' = [i \in NodeIds \X PortIds |-> Heard(i[1], i[2])]
        /\ [n \in NodeIds |-> LastRun(n)]' = [n \in NodeIds |-> LastRun(n)]
    BY ONLY <2>3 DEF SeenIn, SeenOut
  <2>5. Ports!EndBlock
    BY ONLY <2>1, <2>2, <2>3, <2>4 DEF Ports!EndBlock, Ports!compiling
  <2> QED
    BY ONLY <2>5 DEF Ports!ScheduleNext
<1>14. CASE UNCHANGED vars
  <2>1. UNCHANGED <<patch, pools, sorting, running>> /\ PortPhase' = PortPhase
    BY <1>14 DEF vars, PortPhase
  <2> QED
    BY <2>1, UnseenStep
<1> QED
  BY <1>1, <1>2, <1>3, <1>4, <1>5, <1>6, <1>7, <1>8, <1>9, <1>10, <1>11, <1>12, <1>13, <1>14
     DEF Next, Compile

\* compile and process_io at the level of lanes are the order and the step loop at the
\* level of ports: all that is proved of Schedule holds of them.
THEOREM SpecImplementsSchedule == Spec => ImplementsSchedule
<1>1. LaneInv /\ QuietInv /\ ViewInv /\ [Next]_vars => QuietInv' /\ ViewInv'
  BY CompileQuiet, BlockQuiet, StutterQuiet, ViewStep DEF Next
<1>2. LaneInv /\ QuietInv /\ ViewInv /\ [Next]_vars => [Ports!ScheduleNext]_Ports!scheduleVars
  BY RefinesStep
<1>3. Spec => []LaneInv
  BY LaneInvariant
<1> QED
  BY QuietStarts, ViewStarts, RefinesStart, <1>1, <1>2, <1>3, PTL
     DEF Spec, ImplementsSchedule, Ports!ScheduleSpec
=============================================================================
