---------------------------- MODULE DeviceCatalog ----------------------------
(***************************************************************************)
(* The device catalog (crates/devices/src/catalog.rs): what each type of   *)
(* device is made of, and the face it shows.                               *)
(*                                                                         *)
(* A device is a chassis: engine nodes, wires between them, and groups of  *)
(* their parameters that one knob drives.  Its ports are the node ports no *)
(* internal wire uses, in node order; a port's id is its position.  Labels,*)
(* sizes, ranges, impedances and readouts are left out.                    *)
(***************************************************************************)
EXTENDS Integers, Sequences, FiniteSets, SequencesExt

-----------------------------------------------------------------------------
(* The faces of the engine's nodes: ports as carriers with a number of     *)
(* lanes (the channels of a digital port, the conductors of an analog one, *)
(* one for air and events), and how many parameters.                       *)

Lane(domain, lanes) == [domain |-> domain, lanes |-> lanes]
Air == Lane("acoustic", 1)
Wire == Lane("analog", 1)
Balanced == Lane("analog", 2)
Notes == Lane("events", 1)
Mono == Lane("digital", 1)
Bundle(n) == Lane("digital", n)
Each(n, lane) == [i \in 1..n |-> lane]

\* `has` says what else a node is found by: "asset", a sound font it is built
\* from; "daw", the control surface of a recorder; "load" and "supply", phantom
\* power drawn from its output and fed up its input.
Node(ins, outs, params) ==
  [in |-> ins, out |-> outs, params |-> params, readouts |-> 0, has |-> {}]

Metering(node, readouts) == [node EXCEPT !.readouts = readouts]
With(node, feature) == [node EXCEPT !.has = {feature}]

SynthVoice == Node(<<Notes>>, <<Wire>>, 6)
EventThru == Node(<<Notes>>, <<Notes>>, 0)
SoundFontSource == With(Node(<<Notes>>, <<Mono>>, 0), "asset")
SoundSource == Node(<<>>, <<Air>>, 2)
CondenserMic == With(Node(<<Air>>, <<Balanced>>, 0), "load")
DynamicMic == Node(<<Air>>, <<Balanced>>, 0)
PoweredMonitor == Node(<<Wire>>, <<Air>>, 1)
Speaker == Node(<<Wire>>, <<Wire>>, 0)
MicPreamp == With(Node(<<Balanced>>, <<Wire>>, 4), "supply")
BalancedReceiver == Node(<<Balanced>>, <<Wire>>, 0)
GainStage == Node(<<Wire>>, <<Wire>>, 2)
VuMeter == Metering(Node(<<Wire>>, <<Wire>>, 0), 2)
LumaLeveler == Metering(Node(<<Balanced>>, <<Balanced>>, 4), 2)
AdConverter == Node(<<Wire>>, <<Mono>>, 1)
DaConverter == Node(<<Mono>>, <<Wire>>, 1)
ThreeBandEq == Node(<<Mono>>, <<Mono>>, 0)
DigitalMeter(n) == Metering(Node(<<Bundle(n)>>, <<Bundle(n)>>, 0), 2 * n)
DigitalMux(n) == Node(Each(n, Mono), <<Bundle(n)>>, 0)
DigitalDemux(n) == Node(<<Bundle(n)>>, Each(n, Mono), 0)
Matrix(n, m) == Node(Each(n, Mono), Each(m, Mono), n * m)
SinglePortMatrix(n, m) == Node(<<Bundle(n)>>, <<Bundle(m)>>, n * m)
MultitrackRecorder(sends, tracks) ==
  With(Node(<<Bundle(sends)>>, <<Bundle(tracks)>>, 0), "daw")

\* Parameters that groups name.
GAIN == 0
POWERED == 1
CONVERTER_POWERED == 0

-----------------------------------------------------------------------------
(* The entries.  Nodes are numbered from 0; an internal edge is            *)
(* <<from_node, from_port, to_node, to_port>>; `inputs` and `outputs` name *)
(* the connector of each open port; `duplex` pairs an output id with the   *)
(* input id on the same jack.                                              *)

Chassis(nodes, internal, ins, outs) ==
  [nodes |-> nodes, internal |-> internal, groups |-> <<>>, inputs |-> ins,
   outputs |-> outs, delayed |-> {}, duplex |-> {}]

Single(node, ins, outs) == Chassis(<<node>>, {}, ins, outs)

\* Nodes one after another, each port 0 wired to the next one's.
Chain(n) == {<<i, 0, i + 1, 0>> : i \in 0..(n - 2)}

SynthVoiceEntry == Single(SynthVoice, <<"din5">>, <<"quarter_inch">>)
MidiController == Single(EventThru, <<"din5">>, <<"din5">>)
ElectricGuitar ==
  Chassis(<<SoundFontSource, DaConverter>>, Chain(2), <<"din5">>, <<"quarter_inch">>)
AcousticGuitar ==
  Chassis(<<SoundFontSource, DaConverter, PoweredMonitor>>, Chain(3),
          <<"din5">>, <<"acoustic">>)
Vox == Single(SoundSource, <<>>, <<"acoustic">>)
CondenserMicEntry == Single(CondenserMic, <<"acoustic">>, <<"xlr">>)
DynamicMicEntry == Single(DynamicMic, <<"acoustic">>, <<"xlr">>)
GainStageEntry == Single(GainStage, <<"quarter_inch">>, <<"quarter_inch">>)
ThreeBandEqEntry == Single(ThreeBandEq, <<"digital">>, <<"digital">>)
AdConverterEntry == Single(AdConverter, <<"quarter_inch">>, <<"digital">>)
DaConverterEntry == Single(DaConverter, <<"digital">>, <<"quarter_inch">>)
SpeakerEntry == Single(Speaker, <<"quarter_inch">>, <<"quarter_inch">>)
PoweredMonitorEntry == Single(PoweredMonitor, <<"quarter_inch">>, <<"acoustic">>)
ChannelStrip ==
  Chassis(<<GainStage, GainStage>>, Chain(2), <<"quarter_inch">>, <<"quarter_inch">>)
VuMeterEntry == Single(VuMeter, <<"quarter_inch">>, <<"quarter_inch">>)
LumaLevelerEntry == Single(LumaLeveler, <<"xlr">>, <<"xlr">>)
DigitalMeterEntry == Single(DigitalMeter(1), <<"digital">>, <<"digital">>)

-----------------------------------------------------------------------------
(* The 8i6: two preamps, four line inputs, a 14x14 routing matrix, USB and *)
(* S/PDIF bundles, monitor, line and phones outputs.                       *)

ScarlettNodes ==
  Each(2, MicPreamp) \o Each(2, AdConverter)                           \* 0-3
    \o Each(4, BalancedReceiver) \o Each(4, AdConverter)               \* 4-11
    \o <<DigitalDemux(2), DigitalDemux(6), DigitalMux(8), DigitalMux(2)>>
    \o Each(2, DaConverter) \o Each(2, GainStage)                      \* 16-19
    \o Each(2, DaConverter) \o Each(2, GainStage)                      \* 20-23
    \o <<EventThru, Matrix(14, 14)>> \o Each(2, VuMeter)               \* 24-27

\* preamp -> meter -> AD; line receiver -> AD; ADs and demuxes -> matrix inputs.
ScarlettInputWiring ==
  {<<i, 0, 26 + i, 0>> : i \in 0..1} \cup {<<26 + i, 0, 2 + i, 0>> : i \in 0..1}
    \cup {<<4 + i, 0, 8 + i, 0>> : i \in 0..3}
    \cup {<<2 + i, 0, 25, i>> : i \in 0..1} \cup {<<8 + i, 0, 25, 2 + i>> : i \in 0..3}
    \cup {<<12, i, 25, 6 + i>> : i \in 0..1} \cup {<<13, i, 25, 8 + i>> : i \in 0..5}

\* matrix outputs -> USB send, DAs, S/PDIF; the monitor DAs feed line and phones.
ScarlettOutputWiring ==
  {<<25, i, 14, i>> : i \in 0..7}
    \cup {<<25, 8 + i, 16 + i, 0>> : i \in 0..1} \cup {<<25, 10 + i, 20 + i, 0>> : i \in 0..1}
    \cup {<<25, 12 + i, 15, i>> : i \in 0..1}
    \cup {<<16 + i, 0, 18 + i, 0>> : i \in 0..1} \cup {<<16 + i, 0, 22 + i, 0>> : i \in 0..1}

Monitor == {<<18, GAIN>>, <<19, GAIN>>}
Power ==
  {<<n, POWERED>> : n \in {0, 1}}
    \cup {<<n, CONVERTER_POWERED>> : n \in {2, 3} \cup 8..11 \cup {16, 17, 20, 21}}
    \cup {<<n, POWERED>> : n \in {18, 19, 22, 23}}

ScarlettInputs ==
  Each(2, "combo") \o Each(4, "quarter_inch") \o <<"spdif", "usb", "din5">>
ScarlettOutputs == <<"usb", "spdif">> \o Each(6, "quarter_inch") \o <<"din5">>

Scarlett8i6 ==
  [Chassis(ScarlettNodes, ScarlettInputWiring \cup ScarlettOutputWiring,
           ScarlettInputs, ScarlettOutputs)
     EXCEPT !.groups = <<Monitor, Power>>, !.duplex = {<<0, 7>>}]

-----------------------------------------------------------------------------
(* The computer, shaped by its configuration: meters, the recorder's       *)
(* tracks, meters, a crossbar to the returns, meters.                      *)

ComputerEntry(sends, returns, tracks) ==
  [Chassis(<<DigitalMeter(sends), MultitrackRecorder(sends, tracks),
             DigitalMeter(tracks), SinglePortMatrix(tracks, returns),
             DigitalMeter(returns)>>,
           Chain(5), <<"usb">>, <<"usb">>)
     EXCEPT !.delayed = {0}, !.duplex = {<<0, 0>>}]

\* usb_channel_count and track_count of a computer that was never configured.
BuiltIn == <<2, 2>>
DefaultTrackCount == 1

-----------------------------------------------------------------------------
\* In the order of CATALOG.
TypeIds ==
  <<"synth_voice", "midi_controller", "electric_guitar", "acoustic_guitar", "vox",
    "condenser_mic", "dynamic_mic", "gain_stage", "three_band_eq", "ad_converter",
    "da_converter", "speaker", "powered_monitor", "channel_strip", "vu_meter",
    "luma_leveler", "digital_meter", "scarlett_8i6", "computer">>

Types == ToSet(TypeIds)

\* The entry of a type, built for a computer's counts <<sends, returns>>.
Entry(type, usb, tracks) ==
  CASE type = "synth_voice" -> SynthVoiceEntry
    [] type = "midi_controller" -> MidiController
    [] type = "electric_guitar" -> ElectricGuitar
    [] type = "acoustic_guitar" -> AcousticGuitar
    [] type = "vox" -> Vox
    [] type = "condenser_mic" -> CondenserMicEntry
    [] type = "dynamic_mic" -> DynamicMicEntry
    [] type = "gain_stage" -> GainStageEntry
    [] type = "three_band_eq" -> ThreeBandEqEntry
    [] type = "ad_converter" -> AdConverterEntry
    [] type = "da_converter" -> DaConverterEntry
    [] type = "speaker" -> SpeakerEntry
    [] type = "powered_monitor" -> PoweredMonitorEntry
    [] type = "channel_strip" -> ChannelStrip
    [] type = "vu_meter" -> VuMeterEntry
    [] type = "luma_leveler" -> LumaLevelerEntry
    [] type = "digital_meter" -> DigitalMeterEntry
    [] type = "scarlett_8i6" -> Scarlett8i6
    [] type = "computer" -> ComputerEntry(usb[1], usb[2], tracks)

-----------------------------------------------------------------------------
(* expose: the face of an entry.                                           *)

\* The ports of one direction that no internal edge uses, in node order:
\* `carriers[n]` are node n's ports, `used` the node and port of each edge's end.
OpenPorts(carriers, used) ==
  FlattenSeq([n \in DOMAIN carriers |->
    LET all == [p \in DOMAIN carriers[n] |->
                  [node |-> n - 1, port |-> p - 1, carrier |-> carriers[n][p]]]
    IN SelectSeq(all, LAMBDA q : <<q.node, q.port>> \notin used)])

OpenInputs(e) ==
  OpenPorts([n \in DOMAIN e.nodes |-> e.nodes[n].in], {<<i[3], i[4]>> : i \in e.internal})
OpenOutputs(e) ==
  OpenPorts([n \in DOMAIN e.nodes |-> e.nodes[n].out], {<<i[1], i[2]>> : i \in e.internal})

\* The node parameters each knob drives: those no group captures, in node
\* order, one each; then the groups.
Knobs(e) ==
  LET own(n) == [p \in 1..e.nodes[n].params |-> {<<n - 1, p - 1>>}]
      alone(k) == \A g \in ToSet(e.groups) : k \cap g = {}
  IN SelectSeq(FlattenSeq([n \in DOMAIN e.nodes |-> own(n)]), alone) \o e.groups

-----------------------------------------------------------------------------
(* describe: the ports the page and build_patch know a device by.          *)

NoPartner == -1
PartnerIn(pairs) == IF pairs = {} THEN NoPartner ELSE CHOOSE p \in pairs : TRUE

\* `partner` is the id of the other direction on a duplex jack.
Port(dir, id, open, connector, partner, delayed) ==
  [dir |-> dir, id |-> id, domain |-> open.carrier.domain, lanes |-> open.carrier.lanes,
   connector |-> connector, partner |-> partner, delayed |-> delayed]

Described(e) ==
  LET ins == OpenInputs(e)
      outs == OpenOutputs(e)
  IN [input |-> [i \in DOMAIN ins |->
        Port("input", i - 1, ins[i], e.inputs[i],
             PartnerIn({d[1] : d \in {x \in e.duplex : x[2] = i - 1}}), FALSE)],
      output |-> [i \in DOMAIN outs |->
        Port("output", i - 1, outs[i], e.outputs[i],
             PartnerIn({d[2] : d \in {x \in e.duplex : x[1] = i - 1}}),
             i - 1 \in e.delayed)]]

-----------------------------------------------------------------------------
(* What joins two sockets.                                                 *)

\* The cable presets, shortest first, with the connectors at their ends.
Cable(type, ends) == [type |-> type, ends |-> ends]
Cables ==
  <<Cable("patch_short", {"quarter_inch"}), Cable("instrument_3m", {"quarter_inch"}),
    Cable("instrument_6m", {"quarter_inch"}), Cable("mic_10m", {"xlr"}),
    Cable("speaker_5m", {"speakon"}),
    Cable("balanced_trs_xlr_3m", {"quarter_inch", "xlr"})>>

Ideal == "ideal"

ConnectorsCompatible(a, b) ==
  a = b \/ \E x \in {"xlr", "quarter_inch"} : {a, b} = {"combo", x}

CableTypes == {c.type : c \in ToSet(Cables)}
CablesFor(a, b) == SelectSeq(Cables, LAMBDA c : c.ends = {a, b})

\* cable_matches_connectors
Fits(cable, a, b) == \E c \in ToSet(CablesFor(a, b)) : c.type = cable

-----------------------------------------------------------------------------
(* What the tables must satisfy.  Each is a fact about every entry, at the *)
(* shapes a computer takes beside the 8i6, which TLC evaluates.            *)

Shapes == {BuiltIn, <<8, 6>>}
Entries == {Entry(t, usb, tracks) : t \in Types, usb \in Shapes, tracks \in 1..2}

\* Every port on the face has its connector, and no connector is left over
\* (the face and the labels are zipped, and the shorter one would win).
ASSUME FacesHaveTheirConnectors ==
  \A e \in Entries :
    Len(OpenInputs(e)) = Len(e.inputs) /\ Len(OpenOutputs(e)) = Len(e.outputs)

\* A device builds on its own: every internal edge joins two ports that exist,
\* carry the same and are equally wide, and no input is wired twice.
ASSUME ChassisAreWired ==
  \A e \in Entries :
    /\ \A i \in e.internal :
         LET from == e.nodes[i[1] + 1].out
             to == e.nodes[i[3] + 1].in
         IN /\ i[2] + 1 \in DOMAIN from /\ i[4] + 1 \in DOMAIN to
            /\ from[i[2] + 1] = to[i[4] + 1]
    /\ \A i, j \in e.internal : i # j => <<i[3], i[4]>> # <<j[3], j[4]>>

\* No node parameter is driven by two knobs, and every one is driven by some
\* knob: what SceneEngine assumes of the knobs it is given.
ASSUME KnobsPartitionTheParameters ==
  \A e \in Entries :
    LET knobs == Knobs(e)
        declared == {x \in (0..Len(e.nodes)) \X (0..200) :
                       x[1] < Len(e.nodes) /\ x[2] < e.nodes[x[1] + 1].params}
    IN /\ UNION ToSet(knobs) = declared
       /\ \A k, m \in DOMAIN knobs : k # m => knobs[k] \cap knobs[m] = {}

\* A duplex jack has an output and an input of one connector, and leads back.
ASSUME DuplexJacksPair ==
  \A e \in Entries : LET f == Described(e) IN
    \A o \in ToSet(f.output) :
      o.partner # NoPartner =>
        LET i == f.input[o.partner + 1]
        IN i.partner = o.id /\ i.connector = o.connector
=============================================================================
