----------------------------- MODULE PatchEdits -----------------------------
(***************************************************************************)
(* Patching the studio: the gestures that edit a scene                     *)
(* (web/src/patching.ts, connections.ts, scene-ops.ts and                  *)
(* patch-controller.svelte.ts) and the checks the engine makes of the      *)
(* patch they produce (crates/devices/src/build.rs).                       *)
(*                                                                         *)
(* The page decides whether a gesture is legal and computes the edited     *)
(* scene; the engine builds it, and only a scene that builds replaces the  *)
(* one on screen (TopologySession models that exchange, one edit at a      *)
(* time; here it is one step).  A device is its type and a number, 0 for   *)
(* the gear of the default scene.  Loops are left to Schedule: every loop  *)
(* made within these bounds runs through a converter, where compile can    *)
(* cut it.                                                                 *)
(***************************************************************************)
EXTENDS DeviceCatalog

CONSTANTS
  StartScenes,   \* the scenes the page may open with
  Offered,       \* bound: per device, the sockets patched, <<direction, port>>
  MaxAdded,      \* bound: the types gear is added of, and how many of each
  Room(_)        \* bound: per scene, how many devices and cables it may be
                 \* grown to, and the presets cables are changed to

VARIABLES
  scene,   \* devices in order, the channel counts of computers, connections
  held     \* the endpoint a cable is held from

vars == <<scene, held>>

-----------------------------------------------------------------------------
(* Ports.                                                                  *)

\* Every type as the page knows it: a computer as it comes.
Faces == [type \in Types |-> Described(Entry(type, BuiltIn, DefaultTrackCount))]

\* A computer sized for an interface, the way build_patch describes it.
ComputerFaces ==
  [usb \in (1..8) \X (1..8) |-> Described(Entry("computer", usb, DefaultTrackCount))]

TypeOf(device) == device[1]
IsComputer(device) == TypeOf(device) = "computer"

PortAt(dir, ref) == Faces[TypeOf(ref[1])][dir][ref[2] + 1]

-----------------------------------------------------------------------------
(* The scene.                                                              *)

Devices(s) == ToSet(s.devices)
Computers(s) == {d \in Devices(s) : IsComputer(d)}

Link(from, to, duplex, cable) ==
  [from |-> from, to |-> to, duplex |-> duplex, cable |-> cable]

If0 == <<"scarlett_8i6", 0>>
Computer0 == <<"computer", 0>>
Speaker0 == <<"speaker", 0>>
Ctrl0 == <<"midi_controller", 0>>
Synth0 == <<"synth_voice", 0>>

\* The default studio.  Its USB cable is authored as two one-way links.
DefaultScene ==
  [devices |-> <<Ctrl0, Synth0, If0, Computer0, Speaker0>>,
   usb |-> [c \in {Computer0} |-> <<8, 6>>],
   connections |-> <<Link(<<Ctrl0, 0>>, <<Synth0, 0>>, FALSE, Ideal),
                     Link(<<Synth0, 0>>, <<If0, 0>>, FALSE, Ideal),
                     Link(<<If0, 0>>, <<Computer0, 0>>, FALSE, Ideal),
                     Link(<<Computer0, 0>>, <<If0, 7>>, FALSE, Ideal),
                     Link(<<If0, 2>>, <<Speaker0, 0>>, FALSE, Ideal)>>]

OutputDevice == Speaker0   \* the tap the studio is heard at

-----------------------------------------------------------------------------
(* build_patch: each connection becomes one edge, a duplex one two.        *)

\* Port descriptors are looked up by type, and devices of one type share one
\* descriptor, that of the last of them: it counts for every computer.
SharedShape(s) == s.usb[Last(SelectSeq(s.devices, IsComputer))]

DescribedLanes(s, dir, ref) ==
  IF IsComputer(ref[1]) THEN ComputerFaces[SharedShape(s)][dir][ref[2] + 1].lanes
  ELSE PortAt(dir, ref).lanes

BuiltLanes(s, dir, ref) ==
  IF IsComputer(ref[1]) THEN ComputerFaces[s.usb[ref[1]]][dir][ref[2] + 1].lanes
  ELSE PortAt(dir, ref).lanes

\* duplex_reverse: the return edge of a duplex connection.
DuplexReverse(c) ==
  [from |-> <<c.to[1], PortAt("input", c.to).partner>>,
   to   |-> <<c.from[1], PortAt("output", c.from).partner>>]

DuplexOnes(s) == {i \in DOMAIN s.connections : s.connections[i].duplex}

Forward(s, i) == [conn |-> i, from |-> s.connections[i].from, to |-> s.connections[i].to]

Return(s, i) ==
  LET r == DuplexReverse(s.connections[i]) IN [conn |-> i, from |-> r.from, to |-> r.to]

Edges(s) == {Forward(s, i) : i \in DOMAIN s.connections} \cup
            {Return(s, i) : i \in DuplexOnes(s)}

SameDomain(e) == PortAt("output", e.from).domain = PortAt("input", e.to).domain
Digital(e) == PortAt("output", e.from).domain = "digital"

DuplicateDevice(s) == ~ IsInjective(s.devices)

UnknownDevice(s) ==
  \/ OutputDevice \notin Devices(s)
  \/ \E i \in DOMAIN s.connections :
    ~ {s.connections[i].from[1], s.connections[i].to[1]} \subseteq Devices(s)

NotDuplex(s) ==
  \E i \in DuplexOnes(s) : LET c == s.connections[i] IN
    NoPartner \in {PortAt("output", c.from).partner, PortAt("input", c.to).partner}

ConnectorMismatch(s) ==
  \E e \in Edges(s) :
    LET a == PortAt("output", e.from).connector
        b == PortAt("input", e.to).connector
    IN SameDomain(e) /\ ~ ConnectorsCompatible(a, b)
       /\ ~ Fits(s.connections[e.conn].cable, a, b)

ChannelCountMismatch(s) ==
  \E e \in Edges(s) :
    /\ SameDomain(e) /\ Digital(e)
    /\ DescribedLanes(s, "output", e.from) # DescribedLanes(s, "input", e.to)

(* What compile checks again or alone, of the nodes that were built. *)

DomainMismatch(s) == \E e \in Edges(s) : ~ SameDomain(e)

\* One conductor into a balanced input is grounded.
Grounded(out, in, e) == out = 1 /\ in = 2 /\ ~ Digital(e)

LaneCountMismatch(s) ==
  \E e \in Edges(s) :
    LET out == BuiltLanes(s, "output", e.from)
        in == BuiltLanes(s, "input", e.to)
    IN out # in /\ ~ Grounded(out, in, e)

InputAlreadyConnected(s) ==
  \E e, f \in Edges(s) : e # f /\ e.to = f.to

\* The first failure is reported; which one comes first is left out.
Builds(s) ==
  /\ ~ DuplicateDevice(s) /\ ~ UnknownDevice(s)
  /\ ~ NotDuplex(s)
  /\ ~ ConnectorMismatch(s) /\ ~ ChannelCountMismatch(s)
  /\ ~ DomainMismatch(s) /\ ~ LaneCountMismatch(s) /\ ~ InputAlreadyConnected(s)

-----------------------------------------------------------------------------
(* Legality: evaluateConnection, for the sockets a gesture runs between.   *)

\* endpointFromJackKey
Endpoint(device, dir, id) ==
  LET p == PortAt(dir, <<device, id>>) IN
  [device |-> device, dir |-> dir, id |-> id,
   domain |-> p.domain, connector |-> p.connector, lanes |-> p.lanes, partner |-> p.partner]

IsDuplex(a) == a.partner # NoPartner

Opposite(dir) == IF dir = "output" THEN "input" ELSE "output"

\* aliasFor: a duplex socket is known by its output and by its input; a
\* press takes the output, a release the one that complements the source.
AliasFor(a, source) ==
  IF IsDuplex(a) /\ a.dir # Opposite(source.dir)
  THEN Endpoint(a.device, Opposite(a.dir), a.partner) ELSE a

Compatible(a, b) ==
  a.domain = b.domain /\ ConnectorsCompatible(a.connector, b.connector)

Adapted(a, b) == a.domain = b.domain /\ CablesFor(a.connector, b.connector) # <<>>

Side(a, b, dir) == IF a.dir = dir THEN a ELSE b
Ref(a) == <<a.device, a.id>>

\* One duplex connection, from the source's output to the input it takes for
\* the other end's partner; or output to input.
Joined(a, b) ==
  IF IsDuplex(a) THEN Link(Ref(a), <<b.device, b.partner>>, TRUE, Ideal)
  ELSE Link(Ref(Side(a, b, "output")), Ref(Side(a, b, "input")), FALSE, Ideal)

SameKey(c, d) == c.from = d.from /\ c.to = d.to

Legal(a, b) ==
  /\ a.device # b.device
  /\ IF IsDuplex(a) \/ IsDuplex(b)
     THEN IsDuplex(a) /\ IsDuplex(b) /\ Compatible(a, b)
     ELSE /\ a.dir # b.dir
          /\ Compatible(a, b) \/ Adapted(a, b)
          /\ a.domain = "digital" => a.lanes = b.lanes
          /\ \A i \in DOMAIN scene.connections : ~ SameKey(scene.connections[i], Joined(a, b))

Touches(c, a) == c.from = Ref(a) \/ c.to = <<a.device, a.partner>>

\* The first cable on either duplex jack; the cable into the input.
Replaces(c, a, b) ==
  IF IsDuplex(a) THEN c.duplex /\ (Touches(c, a) \/ Touches(c, b))
  ELSE c.to = Joined(a, b).to

Replaced(a, b) ==
  LET R == {i \in DOMAIN scene.connections : Replaces(scene.connections[i], a, b)}
  IN {i \in R : \A j \in R : i <= j}

-----------------------------------------------------------------------------
(* The edits of scene-ops.                                                 *)

\* The interface cabled to a computer by the first of its duplex links.
AttachedInterface(s, computer) ==
  LET peers(i) == {s.connections[i].from[1], s.connections[i].to[1]} \ {computer}
      cabled == {i \in DuplexOnes(s) :
                   /\ computer \in {s.connections[i].from[1], s.connections[i].to[1]}
                   /\ \E d \in peers(i) : ~ IsComputer(d)}
  IN UNION {peers(i) : i \in {k \in cabled : \A j \in cabled : k <= j}}

\* usbShape: what the interface sends and what it takes back.
UsbShape(d) ==
  LET usb(dir) == SelectSeq(Faces[TypeOf(d)][dir], LAMBDA p : p.connector = "usb")
  IN <<Head(usb("output")).lanes, Head(usb("input")).lanes>>

\* enumerateComputerUsb: the computer at the first computer end of c.
FromEnd(c) == {d \in {c.from[1]} : IsComputer(d)}   \* mutant: the near end only

EnumeratedEnd(c) == IF IsComputer(c.from[1]) THEN {c.from[1]}
                    ELSE {d \in {c.to[1]} : IsComputer(d)}

NotEnumerated(s, c) == s   \* mutant: no enumeration

Enumerated(s, c) ==
  [s EXCEPT !.usb = [d \in DOMAIN @ |->
     IF d \notin EnumeratedEnd(c) THEN @[d]
     ELSE IF AttachedInterface(s, d) = {} THEN BuiltIn
     ELSE UsbShape(CHOOSE p \in AttachedInterface(s, d) : TRUE)]]

\* A fresh analog connection takes the shortest cable that fits.
DefaultCable(c) ==
  LET p == PortAt("output", c.from)
      fits == CablesFor(p.connector, PortAt("input", c.to).connector)
  IN IF p.domain = "analog" /\ fits # <<>> THEN Head(fits).type ELSE Ideal

Without(s, drop(_)) ==
  [s EXCEPT !.connections = SelectSeq(@, LAMBDA c : ~ drop(c))]

\* PatchController.commitCable
Connected(a, b) ==
  LET old == {scene.connections[i] : i \in Replaced(a, b)}
      c == [Joined(a, b) EXCEPT !.cable = DefaultCable(Joined(a, b))]
      kept == Without(scene, LAMBDA d : \E r \in old : SameKey(r, d))
  IN Enumerated([kept EXCEPT !.connections = Append(@, c)], c)

\* PatchController.disconnect
Disconnected(i) ==
  LET c == scene.connections[i]
  IN Enumerated(Without(scene, LAMBDA d : SameKey(c, d)), c)

\* setCableType
Retyped(i, cable) == [scene EXCEPT !.connections[i].cable = cable]

NewDevice(type) ==
  LET free == {n \in 1..(Len(scene.devices) + 1) : <<type, n>> \notin Devices(scene)}
  IN <<type, CHOOSE n \in free : \A m \in free : n <= m>>

Added(type) ==
  LET d == NewDevice(type) IN
  [scene EXCEPT !.devices = Append(@, d),
                !.usb = [c \in Computers(scene) \cup {x \in {d} : IsComputer(x)} |->
                           IF c = d THEN BuiltIn ELSE @[c]]]

Removed(d) ==
  LET left == Without(scene, LAMBDA c : d \in {c.from[1], c.to[1]}) IN
  [left EXCEPT !.devices = SelectSeq(@, LAMBDA x : x # d),
               !.usb = [c \in DOMAIN @ \ {d} |-> @[c]]]

-----------------------------------------------------------------------------
Init == scene \in StartScenes /\ held = {}

\* proposeTopology, as far as it decides: a scene that builds replaces the one
\* on screen, one that does not is dropped.
Propose(candidate) == scene' = IF Builds(candidate) THEN candidate ELSE scene

\* The sockets in view, by the endpoint a press takes.
Sockets ==
  UNION {{Endpoint(d, o[1], o[2]) : o \in Offered[d]} : d \in Devices(scene) \cap DOMAIN Offered}

\* pointerDown; the hold survives every edit, by drag or as a pending pick.
Press(a) == held = {} /\ held' = {a} /\ UNCHANGED scene

\* cancel, or a release that names no other socket.
Cancel == held # {} /\ held' = {} /\ UNCHANGED scene

\* pointerUp on another socket.  What it refuses leaves the cable held.
Connect(a, socket) ==
  LET b == AliasFor(socket, a) IN
  /\ a \in held /\ Legal(a, b)
  /\ Len(scene.connections) < Room(scene).cables \/ Replaced(a, b) # {}
  /\ Propose(Connected(a, b))
  /\ held' = {}

Disconnect(i) == Propose(Disconnected(i)) /\ UNCHANGED held

\* The inspector offers a type only to an analog connection.
SetCableType(i, cable) ==
  LET c == scene.connections[i]
      p == PortAt("output", c.from)
  IN /\ p.domain = "analog"
     /\ cable = Ideal \/ Fits(cable, p.connector, PortAt("input", c.to).connector)
     /\ Propose(Retyped(i, cable))
     /\ UNCHANGED held

AddDevice(type) ==
  /\ NewDevice(type)[2] <= MaxAdded[type] /\ Len(scene.devices) < Room(scene).devices
  /\ Propose(Added(type))
  /\ UNCHANGED held

RemoveDevice(d) ==
  /\ d # OutputDevice
  /\ Propose(Removed(d))
  /\ UNCHANGED held

Next ==
  \/ \E a \in Sockets : Press(a)
  \/ Cancel
  \/ \E a \in held, b \in Sockets : Connect(a, b)
  \/ \E i \in DOMAIN scene.connections :
       \/ Disconnect(i)
       \/ \E cable \in {Ideal} \cup Room(scene).presets : SetCableType(i, cable)
  \/ \E type \in DOMAIN MaxAdded : AddDevice(type)
  \/ \E d \in Devices(scene) : RemoveDevice(d)

Spec == Init /\ [][Next]_vars

-----------------------------------------------------------------------------
(* Properties.                                                             *)

UsbSockets == {a \in Sockets : IsDuplex(a)}

\* The connections plugged into a USB socket, the authored one-way ones too.
PluggedIn(a) == {i \in DOMAIN scene.connections : Touches(scene.connections[i], a)}

\* What the page calls legal, the engine builds, of the cable that is held and
\* for every two sockets in the catalog.  A USB cable drawn from an
\* interface to the only computer, whatever the computer was sized for before,
\* if it has to replace at most one cable and none of the authored one-way
\* ones; an analog cable of the type the page picks, unless it takes a
\* balanced output to an unbalanced input.
UsbCableIsPlain(a, b) ==
  LET old == PluggedIn(a) \cup PluggedIn(b) IN
  /\ ~ IsComputer(a.device) /\ Computers(scene) = {b.device}
  /\ old \subseteq DuplexOnes(scene) /\ Cardinality(old) <= 1

KeepsConductors(c) == PortAt("output", c.from).lanes <= PortAt("input", c.to).lanes

LegalCablesBuild ==
  \A a \in held \cap Sockets :
    /\ IsDuplex(a) => \A b \in UsbSockets :
         UsbCableIsPlain(a, b) => Builds(Connected(a, AliasFor(b, a)))
    /\ ~ IsDuplex(a) => \A b \in Sockets \ UsbSockets :
         Legal(a, b) /\ KeepsConductors(Joined(a, b)) => Builds(Connected(a, b))

\* "Drag direction doesn't change the result" (connections.ts:110-111): such a
\* cable builds as well when it is drawn from the computer.  It is violated: the
\* socket it is released on is known by its input, whose partner is an output, and
\* that id is taken for the input the cable goes to.
DragDirectionDoesNotMatter ==
  \A a \in held \cap UsbSockets, b \in UsbSockets :
    UsbCableIsPlain(a, b) =>
      (Builds(Connected(b, AliasFor(a, b))) <=> Builds(Connected(a, AliasFor(b, a))))

\* Taking something away builds: removing gear, while there are at most two
\* computers (with three, the descriptor of the last one counts for all, and
\* removing it can leave a scene that does not build); unplugging the USB
\* cable of the only computer, which goes back to its own sound card.
TakingAwayBuilds ==
  /\ Cardinality(Computers(scene)) <= 2 =>
       \A d \in Devices(scene) \ {OutputDevice} : Builds(Removed(d))
  /\ \A i \in DuplexOnes(scene), d \in Computers(scene) :
       Computers(scene) = {d} =>
         Builds(Disconnected(i)) /\ Disconnected(i).usb[d] = BuiltIn

=============================================================================
