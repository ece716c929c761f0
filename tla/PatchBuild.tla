----------------------------- MODULE PatchBuild -----------------------------
(***************************************************************************)
(* build_patch_with_assets (crates/devices/src/build.rs): a scene's        *)
(* devices are expanded into the nodes of one graph, its connections       *)
(* become edges between them, the graph is compiled, and what the host     *)
(* will drive is resolved: knobs to smoothers, devices to the event lane   *)
(* their notes go to, to their readouts and to the node of their recorder. *)
(*                                                                         *)
(* A scene is what the page sends: devices [id, type, config], connections *)
(* [from, to, cable, duplex] between device ports <<id, port>>, and the    *)
(* output tap.  Each turn of the builder's loops is one action; the first  *)
(* thing that is wrong ends the build.                                     *)
(***************************************************************************)
EXTENDS DeviceDescriptors, PatchGraph, ControlStore

CONSTANTS
  Requests     \* the scenes to build, each with the sound fonts loaded by then

VARIABLES
  scene, soundfonts,
  stage,       \* "devices", "connections", "returns", "tap", "compile",
               \* "params", "readouts", "resolve", "daw", "built", or the error
  at,          \* the device or connection the loop is at
  graph,
  built,       \* device id -> its footprint in the graph (BuiltDevice)
  connection_edges,   \* connection -> its forward edge
  readout_base, readout_length,   \* as base and length, for the readouts
  scene_out    \* the BuiltScene

vars == <<scene, soundfonts, stage, at, graph, built, connection_edges,
          storeVars, readout_base, readout_length, scene_out>>

Readouts ==
  INSTANCE ControlStore WITH
    declared <- [n \in DOMAIN graph.nodes |-> graph.nodes[n].readouts],
    base <- readout_base,
    length <- readout_length

-----------------------------------------------------------------------------
(* Configuration: DeviceConfig, and what the builders read of it.          *)

AtLeastOne(count) == IF count < 1 THEN 1 ELSE count

UsbChannelCount(config) ==
  <<AtLeastOne(GetOr(config, "usb_sends", BuiltIn[1])),
    AtLeastOne(GetOr(config, "usb_returns", BuiltIn[2]))>>
TrackCount(config) == AtLeastOne(GetOr(config, "track_count", DefaultTrackCount))

PhantomOn(config) == GetOr(config, "phantom", 0) = 1
TimGm6mb == "tim_gm_6mb"

\* A node as the graph holds it.
Placed(node, config) ==
  node @@ [draws    |-> IF "load" \in node.has THEN {1} ELSE {},
           supplies |-> IF "supply" \in node.has THEN {1} ELSE {},
           engaged  |-> IF PhantomOn(config) THEN {1} ELSE {}]

-----------------------------------------------------------------------------
(* The catalog, expanded: nodes, internal wires and the exposed face.      *)
(* Only a computer's shape depends on its configuration.                   *)

NoTables == [x \in {} |-> <<>>]

Wires(e) == FoldSet(LAMBDA w, s : Append(s, w), <<>>, e.internal)

Expand(e) ==
  [nodes |-> e.nodes, wires |-> Wires(e), inputs |-> OpenInputs(e), outputs |-> OpenOutputs(e),
   knobs |-> Knobs(e), readouts |-> ExposedReadouts(e), face |-> Described(e)]

Expansion(type, config) == Expand(Entry(type, UsbChannelCount(config), TrackCount(config)))

\* instantiate_with_assets: where a device's nodes, ports and knobs are in a
\* graph that has `offset` nodes before it.
Footprint(x, offset) ==
  LET node(n) == offset + n + 1
      port(p) == <<node(p.node), p.port + 1>>
  IN [nodes    |-> [n \in DOMAIN x.nodes |-> offset + n],
      inputs   |-> [p \in DOMAIN x.inputs |-> port(x.inputs[p])],
      outputs  |-> [p \in DOMAIN x.outputs |-> port(x.outputs[p])],
      params   |-> [k \in DOMAIN x.knobs |-> {<<node(t[1]), t[2]>> : t \in x.knobs[k]}],
      readouts |-> [r \in DOMAIN x.readouts |-> <<node(x.readouts[r][1]), x.readouts[r][2]>>]]

InternalEdges(x, offset) ==
  [w \in DOMAIN x.wires |-> LET i == x.wires[w] IN
     EdgeFrom(<<offset + i[1] + 1, i[2] + 1>>, <<offset + i[3] + 1, i[4] + 1>>, Ideal, FALSE)]

-----------------------------------------------------------------------------
(* 1. Devices.                                                             *)

Device(i) == scene.devices[i]
NeedsAsset(type) ==
  \E n \in ToSet(Entry(type, BuiltIn, DefaultTrackCount).nodes) : "asset" \in n.has

DeviceFault(d) ==
  IF d.type \notin Types THEN "UnknownType"
  ELSE IF NeedsAsset(d.type) /\ TimGm6mb \notin soundfonts THEN "MissingSoundFont"
  ELSE IF d.id \in DOMAIN built THEN "DuplicateDevice"
  ELSE NoFault

Proceed(next) == stage' = next /\ at' = 1

Instantiate ==
  /\ stage = "devices" /\ at \in DOMAIN scene.devices
  /\ DeviceFault(Device(at)) = NoFault
  /\ LET d == Device(at)
         x == Expansion(d.type, d.config)
         offset == Len(graph.nodes)
         nodes == [n \in DOMAIN x.nodes |-> Placed(x.nodes[n], d.config)]
     IN  /\ graph' = PushEdges(AddNodes(graph, nodes), InternalEdges(x, offset))
         /\ built' = (d.id :> Footprint(x, offset)) @@ built
  /\ at' = at + 1
  /\ UNCHANGED <<scene, soundfonts, stage, connection_edges, storeVars, readout_base,
                 readout_length, scene_out>>

Fail(fault) ==
  /\ fault # NoFault /\ stage' = fault
  /\ UNCHANGED <<scene, soundfonts, at, graph, built, connection_edges, storeVars,
                 readout_base, readout_length, scene_out>>

RejectDevice ==
  /\ stage = "devices" /\ at \in DOMAIN scene.devices
  /\ Fail(DeviceFault(Device(at)))

DevicesDone ==
  /\ stage = "devices" /\ at \notin DOMAIN scene.devices
  /\ Proceed("connections")
  /\ UNCHANGED <<scene, soundfonts, graph, built, connection_edges, storeVars, readout_base,
                 readout_length, scene_out>>

-----------------------------------------------------------------------------
(* 2. Connections, and the tap.                                            *)

\* descs and types: a device is described as the last of its type.
LastOfType(type) == Last(SelectSeq(scene.devices, LAMBDA d : d.type = type))
TypeOfId(id) == (CHOOSE i \in DOMAIN scene.devices : Device(i).id = id)

PortDescriptor(dir, ref) ==
  LET type == Device(TypeOfId(ref[1])).type
  IN  Expansion(type, LastOfType(type).config).face[dir][ref[2] + 1]

ResolveOutput(ref) == built[ref[1]].outputs[ref[2] + 1]
ResolveInput(ref) == built[ref[1]].inputs[ref[2] + 1]

OutputFault(ref) ==
  IF ref[1] \notin DOMAIN built THEN "UnknownDevice"
  ELSE IF ref[2] + 1 \notin DOMAIN built[ref[1]].outputs THEN "OutputPortOutOfRange"
  ELSE NoFault
InputFault(ref) ==
  IF ref[1] \notin DOMAIN built THEN "UnknownDevice"
  ELSE IF ref[2] + 1 \notin DOMAIN built[ref[1]].inputs THEN "InputPortOutOfRange"
  ELSE NoFault

\* Mutant: any cable adapts.
AnyAdapter(a, b, cable) == ~ ConnectorsCompatible(a.connector, b.connector) /\ cable = Ideal

\* Of two sockets of one medium.
Unseated(a, b, cable) ==
  ~ ConnectorsCompatible(a.connector, b.connector) /\ ~ Fits(cable, a.connector, b.connector)

OtherWidth(a, b) == a.domain = "digital" /\ a.lanes # b.lanes

\* add_edge's checks.
LegFault(from, to, cable) ==
  IF OutputFault(from) # NoFault THEN OutputFault(from)
  ELSE IF InputFault(to) # NoFault THEN InputFault(to)
  ELSE LET a == PortDescriptor("output", from)
           b == PortDescriptor("input", to)
       IN  IF a.domain # b.domain THEN NoFault
           ELSE IF Unseated(a, b, cable) THEN "ConnectorMismatch"
           ELSE IF OtherWidth(a, b) THEN "ChannelCountMismatch"
           ELSE NoFault

\* A delayed output takes no cable.
Leg(from, to, cable) ==
  LET late == PortDescriptor("output", from).delayed
  IN  EdgeFrom(ResolveOutput(from), ResolveInput(to), IF late THEN Ideal ELSE cable, late)

Connection == scene.connections[at]

\* The forward leg, which the connection's loss is read from.
ConnectionsSoFar(g) == Len(connection_edges) + 1   \* mutant: of the scene's own
EdgesSoFar(g) == Len(g.edges) + 1

Connect ==
  /\ stage = "connections" /\ at \in DOMAIN scene.connections
  /\ LegFault(Connection.from, Connection.to, Connection.cable) = NoFault
  /\ connection_edges' = Append(connection_edges, EdgesSoFar(graph))
  /\ graph' = PushEdges(graph, <<Leg(Connection.from, Connection.to, Connection.cable)>>)
  /\ IF Connection.duplex THEN stage' = "returns" /\ UNCHANGED at
     ELSE at' = at + 1 /\ UNCHANGED stage
  /\ UNCHANGED <<scene, soundfonts, built, storeVars, readout_base, readout_length, scene_out>>

RejectConnection ==
  /\ stage = "connections" /\ at \in DOMAIN scene.connections
  /\ Fail(LegFault(Connection.from, Connection.to, Connection.cable))

\* duplex_reverse, then the return leg of a duplex connection.
Partner(dir, ref) == PortDescriptor(dir, ref).partner
DuplexReverse(c) ==
  [from |-> <<c.to[1], Partner("input", c.to)>>,
   to   |-> <<c.from[1], Partner("output", c.from)>>]

ReturnFault(c) ==
  IF NoPartner \in {Partner("output", c.from), Partner("input", c.to)} THEN "NotDuplex"
  ELSE LegFault(DuplexReverse(c).from, DuplexReverse(c).to, c.cable)

ConnectBack ==
  /\ stage = "returns"
  /\ ReturnFault(Connection) = NoFault
  /\ LET r == DuplexReverse(Connection) IN
     graph' = PushEdges(graph, <<Leg(r.from, r.to, Connection.cable)>>)
  /\ stage' = "connections" /\ at' = at + 1
  /\ UNCHANGED <<scene, soundfonts, built, connection_edges, storeVars, readout_base,
                 readout_length, scene_out>>

RejectReturn == stage = "returns" /\ Fail(ReturnFault(Connection))

ConnectionsDone ==
  /\ stage = "connections" /\ at \notin DOMAIN scene.connections
  /\ Proceed("tap")
  /\ UNCHANGED <<scene, soundfonts, graph, built, connection_edges, storeVars, readout_base,
                 readout_length, scene_out>>

OutputTapFault(ref) ==
  IF OutputFault(ref) # NoFault THEN OutputFault(ref)
  ELSE IF PortDescriptor("output", ref).domain # "analog" THEN "OutputTapNotAnalog"
  ELSE NoFault

Tap ==
  /\ stage = "tap"
  /\ OutputTapFault(scene.output) = NoFault
  /\ graph' = SetOutput(graph, ResolveOutput(scene.output))
  /\ Proceed("compile")
  /\ UNCHANGED <<scene, soundfonts, built, connection_edges, storeVars, readout_base,
                 readout_length, scene_out>>

RejectTap == stage = "tap" /\ Fail(OutputTapFault(scene.output))

-----------------------------------------------------------------------------
(* 3. compile.  LaneSchedule has it step by step; what it refuses is read  *)
(* off the graph here.  No node of the catalog is per-conductor, and all   *)
(* its converters run at one rate, so that no lane fails to be allocated.  *)

Undelayable(g) ==
  {e \in DOMAIN g.edges : ~ g.edges[e].delayed /\ OutFaceOf(g, g.edges[e]).domain \in {"analog", "events"}}

\* What is left of the nodes when those that wait for none left are taken
\* away, again and again: a loop, and what it feeds.
Looping(g) ==
  LET waits == {g.edges[e] : e \in Undelayable(g)}
      waiting(left, n) == left \cap {w.to : w \in {v \in waits : v.from \in left}}
  IN  FoldLeft(waiting, DOMAIN g.nodes, g.nodes)

CompileFault(g) ==
  LET from(e) == OutFaceOf(g, g.edges[e])
      to(e) == InFaceOf(g, g.edges[e])
      input(e) == <<g.edges[e].to, g.edges[e].in>>
  IN  IF WiringFault(g) # NoFault THEN WiringFault(g)
      ELSE IF \E e \in DOMAIN g.edges :
                /\ from(e).lanes # to(e).lanes
                /\ ~ (from(e).domain = "analog" /\ from(e).lanes = 1 /\ to(e).lanes = 2)
           THEN "LaneCountMismatch"
      ELSE IF \E e \in DOMAIN g.edges : \E f \in 1..(e - 1) : input(e) = input(f)
           THEN "InputAlreadyConnected"
      ELSE IF Looping(g) # {} THEN "Cycle"
      ELSE IF PhantomFanIn(g) THEN "PhantomFanIn"
      ELSE NoFault

NoLoss == 0

\* 3b: the edge a connection's loading loss is read from, if it has one.
LossOf(edge) == IF OutFaceOf(graph, graph.edges[edge]).domain = "analog" THEN edge ELSE NoLoss

Compile ==
  /\ stage = "compile"
  /\ CompileFault(graph) = NoFault
  /\ declared' = [n \in DOMAIN graph.nodes |-> graph.nodes[n].params]
  /\ scene_out' = [scene_out EXCEPT
                     !.losses = [i \in DOMAIN connection_edges |-> LossOf(connection_edges[i])],
                     !.powered = Powered(graph)]
  /\ Proceed("params")
  /\ UNCHANGED <<scene, soundfonts, graph, built, connection_edges, base, length,
                 readout_base, readout_length>>

RejectPatch == stage = "compile" /\ Fail(CompileFault(graph))

\* compile's steps 10 and 11.
ReserveParams ==
  /\ stage = "params"
  /\ Reserve
  /\ UNCHANGED <<scene, soundfonts, stage, at, graph, built, connection_edges, readout_base,
                 readout_length, scene_out>>

ReserveReadouts ==
  /\ stage = "readouts"
  /\ UNCHANGED <<scene, soundfonts, stage, at, graph, built, connection_edges, storeVars, scene_out>>
  /\ Readouts!Reserve

StoreDone ==
  /\ \/ stage = "params" /\ AllReserved /\ Proceed("readouts")
     \/ stage = "readouts" /\ Readouts!AllReserved /\ Proceed("resolve")
  /\ UNCHANGED <<scene, soundfonts, graph, built, connection_edges, storeVars, readout_base,
                 readout_length, scene_out>>

-----------------------------------------------------------------------------
(* 4 and 5. The control surface.                                           *)

NoInput == <<>>

\* Schedule::event_input: open event inputs only.
IsOpenEventInput(port) ==
  /\ graph.nodes[port[1]].in[port[2]].domain = "events"
  /\ \A e \in DOMAIN graph.edges : <<graph.edges[e].to, graph.edges[e].in>> # port

FirstEventInput(inputs) ==
  LET open == SelectSeq(inputs, IsOpenEventInput) IN IF open = <<>> THEN NoInput ELSE Head(open)

\* Mutant: the node-local id taken for the handle.
LocalHandle(t) == t[2]
ParamHandle(t) == Handle(t[1], t[2])

ReadoutHandle(t) == Readouts!Handle(t[1], t[2])

Resolve ==
  /\ stage = "resolve" /\ at \in DOMAIN scene.devices
  /\ LET id == Device(at).id
         b == built[id]
     IN scene_out' = [scene_out EXCEPT
          !.params = (id :> [k \in DOMAIN b.params |-> {ParamHandle(t) : t \in b.params[k]}]) @@ @,
          !.events = (id :> FirstEventInput(b.inputs)) @@ @,
          !.readouts =
            IF b.readouts = <<>> THEN @
            ELSE (id :> [r \in DOMAIN b.readouts |-> ReadoutHandle(b.readouts[r])]) @@ @]
  /\ at' = at + 1
  /\ UNCHANGED <<scene, soundfonts, stage, graph, built, connection_edges, storeVars,
                 readout_base, readout_length>>

DawNodes(id) == SelectSeq(built[id].nodes, LAMBDA n : "daw" \in graph.nodes[n].has)

ResolveDaw ==
  /\ stage = "resolve" /\ at \notin DOMAIN scene.devices
  /\ LET daws == {id \in DOMAIN built : DawNodes(id) # <<>>} IN
     scene_out' = [scene_out EXCEPT !.daw = [id \in daws |-> Head(DawNodes(id))]]
  /\ stage' = "built"
  /\ UNCHANGED <<scene, soundfonts, at, graph, built, connection_edges, storeVars, readout_base,
                 readout_length>>

-----------------------------------------------------------------------------
Init ==
  /\ \E request \in Requests : scene = request[1] /\ soundfonts = request[2]
  /\ stage = "devices" /\ at = 1
  /\ graph = EmptyGraph /\ built = NoTables /\ connection_edges = <<>>
  /\ declared = <<>> /\ base = <<>> /\ length = 0
  /\ readout_base = <<>> /\ readout_length = 0
  /\ scene_out = [params |-> NoTables, events |-> NoTables, readouts |-> NoTables,
                  daw |-> NoTables, losses |-> <<>>, powered |-> {}]

Next ==
  \/ Instantiate \/ RejectDevice \/ DevicesDone
  \/ Connect \/ RejectConnection \/ ConnectBack \/ RejectReturn \/ ConnectionsDone
  \/ Tap \/ RejectTap
  \/ Compile \/ RejectPatch \/ ReserveParams \/ ReserveReadouts \/ StoreDone
  \/ Resolve \/ ResolveDaw

Spec == Init /\ [][Next]_vars

-----------------------------------------------------------------------------
(* Properties.  (HandlesAreApart of ControlStore is one of them.)          *)

Built == stage = "built"
Ids == DOMAIN built

\* What the host reaches through the knobs of a device, and how many ways.
Reached(id) == UNION ToSet(scene_out.params[id])
Ways(id) == FoldLeft(LAMBDA n, knob : n + Cardinality(knob), 0, scene_out.params[id])

Meters == DOMAIN scene_out.readouts
Screens == [id \in Meters |-> Len(scene_out.readouts[id])]

\* A knob moves its own device and nothing else: whatever was built before it,
\* its handles are smoothers of its device's nodes, and every smoother of the
\* scene is driven by exactly one knob.  So for the readouts and their screens.
EveryControlIsReachedOnce ==
  Built =>
    /\ \A id \in Ids : Reached(id) \subseteq UNION {Handles(n) : n \in ToSet(built[id].nodes)}
    /\ UNION {Reached(id) : id \in Ids} = 0..(length - 1)
    /\ MapThenSumSet(Ways, Ids) = length
    /\ UNION {ToSet(scene_out.readouts[id]) : id \in Meters} = 0..(readout_length - 1)
    /\ MapThenSumSet(LAMBDA id : Screens[id], Meters) = readout_length
    /\ \A id \in Meters : ToSet(scene_out.readouts[id]) \subseteq
                             UNION {Readouts!Handles(n) : n \in ToSet(built[id].nodes)}

Joins(edge, from, to) ==
  <<edge.from, edge.out, edge.to, edge.in>> = ResolveOutput(from) \o ResolveInput(to)

NodesOf(id) == ToSet(built[id].nodes)
BetweenDevices ==
  {e \in DOMAIN graph.edges :
     ~ \E id \in Ids : {graph.edges[e].from, graph.edges[e].to} \subseteq NodesOf(id)}

\* Every cable of the scene is in the graph, a duplex one as two edges that lead
\* back and forth between its two jacks; nothing else joins two devices; and
\* the loss shown on a cable is that of its own edge.
ConnectionsAreWired ==
  Built =>
    /\ \A i \in DOMAIN scene.connections :
         LET c == scene.connections[i]
             forward == connection_edges[i]
         IN  /\ Joins(graph.edges[forward], c.from, c.to)
             /\ c.duplex => \E e \in DOMAIN graph.edges \ {forward} :
                  /\ graph.edges[e].from \in NodesOf(c.to[1])
                  /\ graph.edges[e].to \in NodesOf(c.from[1])
                  /\ OutFaceOf(graph, graph.edges[e]).domain = OutFaceOf(graph, graph.edges[forward]).domain
             /\ scene_out.losses[i] \in {NoLoss, forward}
    /\ Cardinality(BetweenDevices) =
         Len(scene.connections) + Len(SelectSeq(scene.connections, LAMBDA c : c.duplex))

Condensers == {i \in DOMAIN scene.devices : Device(i).type = "condenser_mic"}

\* A condenser microphone has its phantom power exactly when it is plugged into
\* a preamp of an interface whose 48 V switch is on; and never from two.
PoweredByItsPreamp ==
  Built =>
    \A i \in Condensers :
      LET preamps == {c \in ToSet(scene.connections) :
                        /\ c.from = <<Device(i).id, 0>> /\ c.to[2] \in 0..1
                        /\ \E j \in DOMAIN scene.devices :
                             /\ Device(j).id = c.to[1] /\ Device(j).type = "scarlett_8i6"
                             /\ PhantomOn(Device(j).config)}
      IN  /\ ResolveOutput(<<Device(i).id, 0>>) \in scene_out.powered <=> preamps # {}
          /\ Cardinality(preamps) <= 1

-----------------------------------------------------------------------------
(* The page's idea of what builds: PatchEdits has it as one predicate over *)
(* a scene, whatever the order of its parts.                               *)

NoRoom(s) == 0
Computers == {id \in Ids : id[1] = "computer"}

PageScene ==
  [devices |-> [i \in DOMAIN scene.devices |-> Device(i).id],
   usb |-> [id \in Computers |->
              UsbChannelCount(scene.devices[CHOOSE i \in DOMAIN scene.devices : Device(i).id = id].config)],
   connections |-> scene.connections]

Edits ==
  INSTANCE PatchEdits WITH
    StartScenes <- {},
    Offered <- NoTables,
    MaxAdded <- NoTables,
    Room <- NoRoom,
    scene <- PageScene,
    held <- {}

\* Faults the page cannot make, or does not foresee.
Unforeseen ==
  {"UnknownType", "MissingSoundFont", "OutputPortOutOfRange", "InputPortOutOfRange",
   "OutputTapNotAnalog", "Cycle", "PhantomFanIn"}
Building == {"devices", "connections", "returns", "tap", "compile", "params", "readouts", "resolve"}

\* The builder and compile, step by step, accept exactly the scenes that the
\* order-free predicate the page is checked against accepts.
BuildsAsThePageExpects ==
  stage \notin Building \cup Unforeseen /\ scene.output = <<Edits!OutputDevice, 0>>
    => (Built <=> Edits!Builds(PageScene))
=============================================================================
