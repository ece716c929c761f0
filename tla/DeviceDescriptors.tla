-------------------------- MODULE DeviceDescriptors --------------------------
(***************************************************************************)
(* What a device tells the page of itself (describe in                     *)
(* crates/devices/src/catalog.rs): the controls of its panel, its readouts,*)
(* its ports and its structural options.                                   *)
(*                                                                         *)
(* Half of a descriptor is derived from the nodes and half is written by   *)
(* hand beside the entry, and the two are zipped by position: nothing but  *)
(* the order says that a label is on its own control.  A label is modelled *)
(* by what it names: the parameter, the lanes of a crosspoint, the lane    *)
(* and measure of a reading.  Units, tapers, sizes and ranges are left out.*)
(***************************************************************************)
EXTENDS DeviceCatalog

\* What a node calls its parameters, in the order of their ids.
Declared(node) ==
  CASE node = SynthVoice -> <<"level", "attack", "decay", "sustain", "release", "powered">>
    [] node = SoundSource -> <<"level", "pitch">>
    [] node = PoweredMonitor -> <<"volume">>
    [] node = MicPreamp -> <<"gain", "powered", "pad", "air">>
    [] node = GainStage -> <<"gain", "powered">>
    [] node = LumaLeveler -> <<"peak_reduction", "gain", "limit", "powered">>
    [] node \in {AdConverter, DaConverter} -> <<"powered">>
    [] OTHER -> Each(node.params, "crosspoint")

-----------------------------------------------------------------------------
(* The labels beside the entries.                                          *)

Fader(of) == [widget |-> "fader", of |-> of]
Knob(of) == [widget |-> "knob", of |-> of]
Switch(of) == [widget |-> "switch", of |-> of]

\* params: those no group captures, less the grid's.
ParamUi(type) ==
  CASE type = "synth_voice" ->
         <<Fader("level"), Knob("attack"), Knob("decay"), Knob("sustain"), Knob("release"),
           Switch("powered")>>
    [] type \in {"electric_guitar", "ad_converter", "da_converter"} -> <<Switch("powered")>>
    [] type = "acoustic_guitar" -> <<Switch("powered"), Knob("volume")>>
    [] type = "vox" -> <<Knob("level"), Knob("pitch")>>
    [] type = "gain_stage" -> <<Knob("gain"), Switch("powered")>>
    [] type = "powered_monitor" -> <<Knob("volume")>>
    [] type = "channel_strip" ->
         <<Knob("gain"), Switch("powered"), Knob("gain"), Switch("powered")>>
    [] type = "luma_leveler" ->
         <<Knob("peak_reduction"), Knob("gain"), Switch("limit"), Switch("powered")>>
    [] type = "scarlett_8i6" ->
         <<Knob("gain"), Switch("pad"), Switch("air"), Knob("gain"), Switch("pad"),
           Switch("air"), Knob("gain"), Knob("gain")>>
    [] OTHER -> <<>>

\* param_groups: Monitor and Power.
GroupUi(type) == IF type = "scarlett_8i6" THEN <<Knob("gain"), Switch("powered")>> ELSE <<>>

\* param_grid: the axes of a routing matrix, each a list of names, or none for
\* names made up for as many lanes as there are.  A name is the socket it is
\* printed at and the lane there.
Lanes(socket, n) == [l \in 1..n |-> <<socket, l - 1>>]
Sockets(ids) == [i \in DOMAIN ids |-> <<ids[i], 0>>]
NamedRows == Sockets(<<0, 1, 2, 3, 4, 5>>) \o Lanes(6, 2) \o Lanes(7, 6)
NamedColumns == Lanes(0, 8) \o Sockets(<<2, 3, 4, 5>>) \o Lanes(1, 2)

Names(authored, count) == IF authored # <<>> THEN authored ELSE Lanes(0, count)

Grids ==
  [scarlett_8i6 |-> [rows |-> NamedRows, columns |-> NamedColumns],
   computer |-> [rows |-> <<>>, columns |-> <<>>]]

\* GridSpec::labels: row by row.
Route(row, column) == Knob("crosspoint") @@ [from |-> row, to |-> column]
GridLabels(grid, rows, columns) ==
  LET ins == Names(grid.rows, rows)
      outs == Names(grid.columns, columns)
  IN  FlattenSeq([i \in DOMAIN ins |-> [o \in DOMAIN outs |-> Route(ins[i], outs[o])]])

-----------------------------------------------------------------------------
(* Readouts: a list of measures, or a bank of lanes for each metering node.*)

PeakAndRms == <<"peak", "rms">>
Reading(of, lane, measure) == [of |-> of, lane |-> lane, measure |-> measure]
Static(measures) == [m \in DOMAIN measures |-> Reading("device", 1, measures[m])]

\* A bank has as many lanes as its node's readouts make.
Bank(of, count) ==
  FlattenSeq([lane \in 1..(count \div Len(PeakAndRms)) |->
    [m \in DOMAIN PeakAndRms |-> Reading(of, lane, PeakAndRms[m])]])

\* As zip does, with what both have.
Zipped(a, b) == [i \in 1..(IF Len(a) < Len(b) THEN Len(a) ELSE Len(b)) |-> <<a[i], b[i]>>]

\* node_readout_counts.
MeteringNodes(e) == SelectSeq(e.nodes, LAMBDA n : n.readouts > 0)

ReadoutUi(type, e) ==
  LET banks == Zipped(<<"sends", "tracks", "returns">>, MeteringNodes(e))
  IN  CASE type = "computer" -> FlattenSeq([b \in DOMAIN banks |-> Bank(banks[b][1], banks[b][2].readouts)])
        [] type = "scarlett_8i6" -> Static(<<"vu", "peak", "vu", "peak">>)
        [] type = "vu_meter" -> Static(<<"vu", "peak">>)
        [] type = "luma_leveler" -> Static(<<"gain_reduction", "output">>)
        [] type = "digital_meter" -> Static(PeakAndRms)
        [] OTHER -> <<>>

-----------------------------------------------------------------------------
(* Structural options, which are read when the device is built.            *)

GetOr(config, key, default) == IF key \in DOMAIN config THEN config[key] ELSE default

Toggle(key) == [key |-> key, default |-> 0, options |-> {}]
Select(key, default, options) == [key |-> key, default |-> default, options |-> options]

ElectricPreset == 27
AcousticPreset == 25
ElectricPresets == 26..31
AcousticPresets == 24..25

ConfigUi(type) ==
  CASE type = "electric_guitar" -> {Select("preset", ElectricPreset, ElectricPresets)}
    [] type = "acoustic_guitar" -> {Select("preset", AcousticPreset, AcousticPresets)}
    [] type = "scarlett_8i6" -> {Toggle("inst1"), Toggle("inst2"), Toggle("phantom")}
    [] OTHER -> {}

\* gm_preset, of a value in tenths: to the nearest program there is.
NonFinite == -1000
GmPreset(tenths, default) ==
  LET nearest == IF tenths = NonFinite THEN default ELSE (tenths + 5) \div 10
  IN  IF nearest < 0 THEN 0 ELSE IF nearest > 127 THEN 127 ELSE nearest

\* guitar_source: the program its voice is made of.
GuitarProgram(type, config) ==
  LET default == IF type = "acoustic_guitar" THEN AcousticPreset ELSE ElectricPreset
  IN  GmPreset(GetOr(config, "preset", 10 * default), default)

-----------------------------------------------------------------------------
(* describe.                                                               *)

\* The columns of the grid are the lanes the face puts out.
OutputLanes(e) == FoldLeft(LAMBDA n, o : n + o.carrier.lanes, 0, OpenOutputs(e))
NotBelowZero(n) == IF n < 0 THEN 0 ELSE n

Crosspoints(type, e) ==
  IF type \notin DOMAIN Grids THEN <<>>
  ELSE LET left == NotBelowZero(Len(Knobs(e)) - Len(ParamUi(type)) - Len(GroupUi(type)))
           columns == OutputLanes(e)
       IN  GridLabels(Grids[type], IF columns = 0 THEN 0 ELSE left \div columns, columns)

Labels(type, e) == ParamUi(type) \o Crosspoints(type, e) \o GroupUi(type)

\* Readout id -> node and node readout.
ExposedReadouts(e) ==
  FlattenSeq([n \in DOMAIN e.nodes |-> [r \in 1..e.nodes[n].readouts |-> <<n - 1, r - 1>>]])

DeviceDescriptor(type, e) ==
  [params |-> Zipped(Knobs(e), Labels(type, e)),
   ports |-> Described(e).input \o Described(e).output,
   readouts |-> Zipped(ExposedReadouts(e), ReadoutUi(type, e)),
   configs |-> ConfigUi(type)]

-----------------------------------------------------------------------------
(* crossbar_defaults, and the interface's: the routes that are open when a *)
(* device is new.                                                          *)

OpenRoutes(type, tracks) ==
  CASE type = "computer" -> {<<t, 0>> : t \in 0..(tracks - 1)}
    [] type = "scarlett_8i6" -> {<<i, i>> : i \in 0..13}
    [] OTHER -> {}

-----------------------------------------------------------------------------
(* What the tables must satisfy, of every entry at the shapes a computer   *)
(* takes, which TLC evaluates.                                             *)

Shaped == {<<t, Entry(t, usb, tracks)>> : t \in Types, usb \in Shapes, tracks \in 1..3}

DeclaredAt(e, target) == Declared(e.nodes[target[1] + 1])[target[2] + 1]

\* No control is without its label, and the label is that of every parameter the
\* control moves: a group moves parameters that are declared alike.
ASSUME LabelsAreOnTheirControls ==
  \A s \in Shaped :
    LET e == s[2]
        params == DeviceDescriptor(s[1], e).params
    IN  /\ \A n \in ToSet(e.nodes) : Len(Declared(n)) = n.params
        /\ Len(params) = Len(Knobs(e)) /\ Len(params) = Len(Labels(s[1], e))
        /\ \A p \in ToSet(params) : \A t \in p[1] : DeclaredAt(e, t) = p[2].of

\* The nodes before a node and after it inside a device.
Upstream(e, n) ==
  LET more(S) == S \cup {i[1] : i \in {x \in e.internal : x[3] \in S}} IN more(more(more({n})))
Downstream(e, n) ==
  LET more(S) == S \cup {i[3] : i \in {x \in e.internal : x[1] \in S}} IN more(more(more({n})))

\* The socket and lane that feed input i of the routing matrix of an 8i6 through
\* its wires, and those that its output o comes out of.
MatrixNode == 25
ComesFrom(i) ==
  LET e == Scarlett8i6
      w == CHOOSE x \in e.internal : x[3] = MatrixNode /\ x[4] = i
      socket == {p \in DOMAIN OpenInputs(e) : OpenInputs(e)[p].node \in Upstream(e, w[1])}
  IN  {<<p - 1, w[2]>> : p \in socket}
GoesTo(o) ==
  LET e == Scarlett8i6
      w == CHOOSE x \in e.internal : x[1] = MatrixNode /\ x[2] = o
      socket == {p \in DOMAIN OpenOutputs(e) : OpenOutputs(e)[p].node \in Downstream(e, w[3])}
  IN  {<<p - 1, w[4]>> : p \in socket}

\* A crosspoint is labelled with the sockets its signal really comes from and
\* goes to, though the names, the ids and the wires are three separate lists.
\* (The two monitor lines go to the headphones as well.)
ASSUME RoutesAreLabelledAsWired ==
  \A p \in ToSet(DeviceDescriptor("scarlett_8i6", Scarlett8i6).params) :
    p[2].of = "crosspoint" =>
      \E i, o \in 0..13 :
        /\ p[1] = {<<MatrixNode, i * 14 + o>>}
        /\ ComesFrom(i) = {p[2].from} /\ p[2].to \in GoesTo(o)

\* The routes that are open on a new computer are those that the page shows as
\* from each of its tracks to its first return, whatever its shape.
ASSUME EveryTrackIsOnMaster ==
  \A usb \in Shapes, tracks \in 1..3 :
    LET params == DeviceDescriptor("computer", ComputerEntry(usb[1], usb[2], tracks)).params
        open == {<<3, r[1] * usb[2] + r[2]>> : r \in OpenRoutes("computer", tracks)}
    IN  {p[2].from[2] : p \in {x \in ToSet(params) : x[1] \subseteq open}} = 0..(tracks - 1)
          /\ \A p \in ToSet(params) : p[1] \subseteq open <=> p[2].to = <<0, 0>>

\* A reading is shown on the meter that takes it: every one has a label, and a
\* computer's banks are its sends, its tracks and its returns, lane by lane.
ASSUME ReadingsAreOnTheirMeters ==
  \A s \in Shaped :
    LET readouts == DeviceDescriptor(s[1], s[2]).readouts
        meter == [sends |-> 0, tracks |-> 2, returns |-> 4]
    IN  /\ Len(readouts) = Len(ExposedReadouts(s[2]))
        /\ Len(readouts) = Len(ReadoutUi(s[1], s[2]))
        /\ s[1] = "computer" =>
             \A r \in ToSet(readouts) :
               r[1] = <<meter[r[2].of],
                        2 * (r[2].lane - 1) + (IF r[2].measure = "peak" THEN 0 ELSE 1)>>

\* What the page offers and shows as the default is what the builder makes of
\* it; and of any other value it makes a program that exists.
ASSUME PresetsAreKept ==
  \A type \in {"electric_guitar", "acoustic_guitar"} :
    /\ \A c \in ConfigUi(type) :
         /\ c.default \in c.options /\ GuitarProgram(type, <<>>) = c.default
         /\ \A o \in c.options : GuitarProgram(type, [preset |-> 10 * o]) = o
    /\ \A v \in (-20..1300) \cup {NonFinite} :
         GuitarProgram(type, [preset |-> v]) \in 0..127
=============================================================================
