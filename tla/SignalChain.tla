----------------------------- MODULE SignalChain -----------------------------
(***************************************************************************)
(* A channel of the audio interface, block by block: microphone line,      *)
(* preamp, AD, routing matrix, and from the matrix to the computer and     *)
(* through DA, monitor amplifier and loudspeaker to the capture stage.     *)
(* The nodes are those of crates/engine/src/node, wired as the Scarlett    *)
(* 8i6 of the catalog wires them, with one of its inputs, one of its USB   *)
(* sends and returns and one monitor.                                      *)
(*                                                                         *)
(* Knobs are turned between blocks; a block first re-aims the smoothers,   *)
(* then runs every node, which reads its parameters per sample.  The       *)
(* trace is what a listener at each node has heard since the start.        *)
(***************************************************************************)
EXTENDS Filters

CONSTANTS
  BlockLen, M,            \* analog samples a block; a converter's factor
  AaTaps, ReconTaps,      \* the kernels of the converters
  Shelf,                  \* the coefficients of AIR
  PadFactor, Rail, FullScale, Lsb,
  EinDraws, DitherDraws,  \* what the noise streams may draw in a block
  Phantoms,               \* the pedestals a powered line may carry
  MicBlocks, UsbBlocks,   \* what may arrive in a block
  Turns,                  \* <<control, target>>: what a hand may do
  PARAM_QUEUE_CAP,        \* how many parameters the queue holds
  MaxBlocks, MaxTurns     \* bounds: blocks rendered, knobs turned

Analog == 1..BlockLen
Digital == 1..(BlockLen \div M)

Ways == 2
Crosspoint(i, j) == i * Ways + j

\* Every crosspoint of the matrix is a knob of its own.
Routes == [ad_to_send |-> Crosspoint(0, 0), ad_to_monitor |-> Crosspoint(0, 1),
           usb_to_send |-> Crosspoint(1, 0), usb_to_monitor |-> Crosspoint(1, 1)]

Controls == {"power", "gain", "pad", "air", "volume"} \union DOMAIN Routes

ASSUME ChainAssumption ==
  /\ BlockLen \in Nat \ {0} /\ M \in Nat \ {0} /\ BlockLen % M = 0
  /\ \A taps \in {AaTaps, ReconTaps} : taps \in Seq(Int) /\ taps # <<>>
  /\ Shelf \in [b0 : Int, b1 : Int, b2 : Int, a1 : Int, a2 : Int]
  /\ PadFactor \in Int /\ Rail \in Nat /\ FullScale \in Nat /\ Lsb \in Nat \ {0}
  /\ Phantoms \subseteq Int
  /\ \A signal \in MicBlocks \union EinDraws : signal \in [Analog -> Int]
  /\ \A signal \in UsbBlocks \union DitherDraws : signal \in [Digital -> Int]
  /\ \A t \in Turns : t[1] \in Controls /\ t[2] \in Int
  /\ {PARAM_QUEUE_CAP, MaxBlocks, MaxTurns} \subseteq Nat

VARIABLES
  phantom,     \* the pedestal on both legs of the microphone line
  glides,      \* <<node, param>> -> its smoother
  pending,     \* the parameter queue: <<node, param>> -> newest target
  shelf, anti_alias, recon, host,   \* the filters' state
  block, turns,
  turned,      \* (history) the controls that were ever turned
  split,       \* (history) a control was turned and the queue had no room for
               \* all of its parameters
  trace        \* (history) the signal at each node, and the parameters it was read with

vars == <<phantom, glides, pending, shelf, anti_alias, recon, host, block, turns, turned, split, trace>>

-----------------------------------------------------------------------------
(* The parameters, and the controls of the device that bind them.          *)

GAIN == 0
POWERED == 1
PAD == 2
AIR == 3
CONVERTER_POWERED == 0

MaxGain == 4 * One

Switch(default) == Smoother(default, 0, One)

Declared ==
  [p \in {<<"preamp", GAIN>>, <<"preamp", POWERED>>, <<"preamp", PAD>>, <<"preamp", AIR>>,
          <<"amp", GAIN>>, <<"amp", POWERED>>, <<"ad", CONVERTER_POWERED>>,
          <<"da", CONVERTER_POWERED>>}
         \union {<<"matrix", Crosspoint(i, j)>> : i \in 0..1, j \in 0..1} |->
     CASE p[1] = "matrix" -> Smoother(IF p[2] % (Ways + 1) = 0 THEN One ELSE 0, 0, MaxGain)
       [] p = <<"preamp", GAIN>> -> Smoother(One, One, 1000 * One)
       [] p = <<"preamp", PAD>> \/ p = <<"preamp", AIR>> -> Switch(0)
       [] OTHER -> Switch(One)]

\* The members of a control's group, in the order they are set.
Bound(control) ==
  CASE control = "power" -> <<<<"preamp", POWERED>>, <<"ad", CONVERTER_POWERED>>,
                              <<"da", CONVERTER_POWERED>>, <<"amp", POWERED>>>>
    [] control = "gain" -> <<<<"preamp", GAIN>>>>
    [] control = "pad" -> <<<<"preamp", PAD>>>>
    [] control = "air" -> <<<<"preamp", AIR>>>>
    [] control = "volume" -> <<<<"amp", GAIN>>>>
    [] control \in DOMAIN Routes -> <<<<"matrix", Routes[control]>>>>

\* ParamQueue::set, member after member: one that is queued takes the newest
\* target, a new one is stored while there is room and refused otherwise.
Stored(group) ==
  LET room == PARAM_QUEUE_CAP - Cardinality(DOMAIN pending)
      new == {i \in DOMAIN group : group[i] \notin DOMAIN pending}
  IN  {group[i] : i \in {i \in DOMAIN group :
                           i \in new => Cardinality({j \in new : j <= i}) <= room}}

Turn(control, target) ==
  /\ turns < MaxTurns /\ block < MaxBlocks
  /\ LET stored == Stored(Bound(control)) IN
     /\ pending' = [p \in DOMAIN pending \union stored |->
                      IF p \in stored THEN target ELSE pending[p]]
     /\ split' = (split \/ stored # Range(Bound(control)))
  /\ turns' = turns + 1 /\ turned' = turned \union {control}
  /\ UNCHANGED <<phantom, glides, shelf, anti_alias, recon, host, block, trace>>

-----------------------------------------------------------------------------
(* The nodes, each over one block.  g is the block's smoothers.            *)

\* Mutant: each leg is clamped to the rail before the difference is taken.
LegsClamped(g, plus, minus, ein) ==
  [i \in Analog |->
     LET v == Clamp(plus[i], -Rail, Rail) - Clamp(minus[i], -Rail, Rail)
         padded == Times(v, One + Times(ValueAt(g[<<"preamp", PAD>>], i - 1), PadFactor - One))
     IN  Clamp(Times(padded + ein[i], ValueAt(g[<<"preamp", GAIN>>], i - 1)), -Rail, Rail)]

\* MicPreamp: difference, pad, noise, gain and rail.
Amped(g, plus, minus, ein) ==
  [i \in Analog |->
     LET pad == ValueAt(g[<<"preamp", PAD>>], i - 1)
         padded == Times(plus[i] - minus[i], One + Times(pad, PadFactor - One))
     IN  Clamp(Times(padded + ein[i], ValueAt(g[<<"preamp", GAIN>>], i - 1)), -Rail, Rail)]

\* Mutant: the shelf is only stepped while AIR is in.
ColdShelf(g, q, amped) ==
  LET out(i) == ValueAt(g[<<"preamp", AIR>>], i - 1) = 0
      after[i \in 0..BlockLen] ==
        IF i = 0 THEN q
        ELSE IF out(i) THEN after[i - 1] ELSE StepState(after[i - 1], Shelf, amped[i])
  IN  [state |-> after[BlockLen],
       out |-> [i \in Analog |-> IF out(i) THEN amped[i] ELSE Stepped(after[i - 1], Shelf, amped[i])]]

\* The shelf is stepped whether AIR is in or not: its state stays warm.
Shelved(g, q, amped) ==
  LET states == Steps(q, Shelf, amped) IN
  [state |-> Last(states),
   out |-> [i \in Analog |-> Stepped(states[i], Shelf, amped[i])]]

Preamp(g, amped, shelved) ==
  [i \in Analog |->
     LET air == ValueAt(g[<<"preamp", AIR>>], i - 1) IN
     Times(amped[i] + Times(shelved[i] - amped[i], air), ValueAt(g[<<"preamp", POWERED>>], i - 1))]

\* Round half away from zero, onto the grid of bits.
Rounded(x) == IF x >= 0 THEN (2 * x + Lsb) \div (2 * Lsb) ELSE -((Lsb - 2 * x) \div (2 * Lsb))
Quantised(volts, dither) ==
  Clamp(Rounded(Clamp(volts, -FullScale * Lsb, FullScale * Lsb) + dither), -FullScale, FullScale)

\* The analog instant of the i-th output sample, i * m from 0.
GateAt(i) == (i - 1) * M

\* AdConverter: what the filter let through is quantised, and gated last.
Ad(g, decimated, dither) ==
  [i \in Digital |->
     Quantised(decimated[i], dither[i]) * ValueAt(g[<<"ad", CONVERTER_POWERED>>], GateAt(i))]

GainOf(i, j) == <<"matrix", Crosspoint(i, j)>>

\* The matrix reads its gains at the digital index of a sample, from 0.
SampleIndex(s) == s - 1

\* Mutant: the crosspoints are laid out by output and read by input.
Transposed(g, ins, j) ==
  [s \in Digital |->
     SumFunction([i \in {0, 1} |->
        Times(ins[i + 1][s], ValueAt(g[GainOf(j, i)], SampleIndex(s)))])]

\* Matrix: output j is the sum of the inputs, each by its crosspoint's gain.
Routed(g, ins, j) ==
  [s \in Digital |->
     SumFunction([i \in {0, 1} |->
        Times(ins[i + 1][s], ValueAt(g[GainOf(i, j)], SampleIndex(s)))])]

\* DaConverter (its reference is 1): interpolated, and gated per analog sample.
Da(g, interpolated) ==
  [i \in Analog |-> Times(interpolated[i], ValueAt(g[<<"da", CONVERTER_POWERED>>], i - 1))]

\* GainStage, then the loudspeaker of unit sensitivity.
Amp(g, volts) ==
  [i \in Analog |->
     Times(Clamp(Times(volts[i], ValueAt(g[<<"amp", GAIN>>], i - 1)), -Rail * One, Rail * One),
           ValueAt(g[<<"amp", POWERED>>], i - 1))]

\* Capture: decimate, then clamp to full scale.
Captured(volts) == [i \in DOMAIN volts |-> Clamp(volts[i], -FullScale * One, FullScale * One)]

-----------------------------------------------------------------------------

Silent == [n \in {"line", "amped", "shelved", "preamp", "ad", "usb", "send", "monitor", "da", "amp",
                  "host", "air", "power", "ad_power", "da_power", "amp_power", "route"} |-> <<>>]

Init ==
  /\ phantom \in Phantoms
  /\ glides = Declared /\ pending = <<>>
  /\ shelf = Biquad
  /\ anti_alias = Ring(Len(AaTaps)) /\ host = Ring(Len(AaTaps))
  /\ recon = Ring(Span(ReconTaps, M))
  /\ block = 0 /\ turns = 0 /\ turned = {} /\ split = FALSE /\ trace = Silent

\* process_io drains the queue into the smoothers.
Aimed == [p \in DOMAIN glides |->
            IF p \in DOMAIN pending THEN SetTarget(glides[p], pending[p]) ELSE glides[p]]

Advanced(g) == [p \in DOMAIN g |-> Advance(g[p], BlockLen)]

Read(g, p, at) == [i \in DOMAIN at |-> ValueAt(g[p], at[i])]

\* Schedule::process_io, and the capture of the tap.
ProcessBlock(mic, usb, ein, dither) ==
  /\ block < MaxBlocks
  /\ LET g == Aimed
         each == [i \in Analog |-> i - 1]
         amped == Amped(g, [i \in Analog |-> mic[i] + phantom], [i \in Analog |-> phantom], ein)
         shelved == Shelved(g, shelf, amped)
         volts == Preamp(g, amped, shelved.out)
         decimated == Decimate(AaTaps, M, anti_alias, volts)
         ad == Ad(g, decimated.out, dither)
         send == Routed(g, <<ad, usb>>, 0)
         monitor == Routed(g, <<ad, usb>>, 1)
         lifted == Interpolate(ReconTaps, M, recon, monitor)
         da == Da(g, lifted.out)
         amp == Amp(g, da)
         heard == Decimate(AaTaps, M, host, amp)
         line == [i \in Analog |->
                    [mic |-> mic[i], ein |-> ein[i],
                     pad |-> ValueAt(g[<<"preamp", PAD>>], i - 1),
                     gain |-> ValueAt(g[<<"preamp", GAIN>>], i - 1)]]
         now == [line |-> line, amped |-> amped, shelved |-> shelved.out, preamp |-> volts, ad |-> ad,
                 usb |-> usb, send |-> send, monitor |-> monitor, da |-> da, amp |-> amp,
                 host |-> Captured(heard.out),
                 air |-> Read(g, <<"preamp", AIR>>, each),
                 power |-> Read(g, <<"preamp", POWERED>>, each),
                 ad_power |-> Read(g, <<"ad", CONVERTER_POWERED>>, [i \in Digital |-> GateAt(i)]),
                 da_power |-> Read(g, <<"da", CONVERTER_POWERED>>, each),
                 amp_power |-> Read(g, <<"amp", POWERED>>, each),
                 route |-> [s \in Digital |->
                   [c \in 0..3 |-> ValueAt(g[<<"matrix", c>>], SampleIndex(s))]]]
     IN  /\ glides' = Advanced(g)
         /\ shelf' = shelved.state
         /\ anti_alias' = decimated.ring /\ recon' = lifted.ring /\ host' = heard.ring
         /\ trace' = [n \in DOMAIN trace |-> trace[n] \o now[n]]
  /\ pending' = <<>>
  /\ block' = block + 1
  /\ UNCHANGED <<phantom, turns, turned, split>>

Next ==
  \/ \E t \in Turns : Turn(t[1], t[2])
  \/ \E mic \in MicBlocks, usb \in UsbBlocks, ein \in EinDraws, dither \in DitherDraws :
        ProcessBlock(mic, usb, ein, dither)

Spec == Init /\ [][Next]_vars

-----------------------------------------------------------------------------
(* Properties.                                                             *)

Past(x, n) == IF n \in DOMAIN x THEN x[n] ELSE 0
Convolved(taps, x, n) ==
  SumFunction([k \in DOMAIN taps |-> taps[k] * Past(x, n - k + 1)])
Stuffed(x) == [n \in 1..(Len(x) * M) |-> IF (n - 1) % M = 0 THEN x[1 + ((n - 1) \div M)] ELSE 0]

\* However the sound is cut into blocks, whatever was switched on the way and
\* wherever a ring buffer wraps, each converter and the capture compute their
\* kernel over everything heard since the start (fir.rs:158, fir.rs:262), the
\* AD within its dither and an off one exact silence (ad.rs:179), and the AIR
\* shelf, in or out, has heard it all when it is switched in.
FiltersHearTheWholePast ==
  LET t == trace IN
  /\ \A i \in DOMAIN t.ad : \E draws \in DitherDraws : \E d \in Range(draws) :
        t.ad[i] = Quantised(Convolved(AaTaps, t.preamp, i * M), d) * t.ad_power[i]
  /\ \A i \in DOMAIN t.host :
        t.host[i] = Clamp(Convolved(AaTaps, t.amp, i * M), -FullScale * One, FullScale * One)
  /\ \A n \in DOMAIN t.da :
        t.da[n] = Times(Convolved(ReconTaps, Stuffed(t.monitor), n), t.da_power[n])
  /\ \A n \in DOMAIN t.preamp :
        /\ t.shelved[n] = Shelf.b0 * t.amped[n] + Shelf.b1 * Past(t.amped, n - 1)
                            + Shelf.b2 * Past(t.amped, n - 2) - Shelf.a1 * Past(t.shelved, n - 1)
                            - Shelf.a2 * Past(t.shelved, n - 2)
        /\ t.air[n] = One /\ t.power[n] = One => t.preamp[n] = t.shelved[n]

\* The largest change of a parameter of that range from one analog sample to
\* the next: the range in GlideLen steps, rounded up.
GlideStep(range) == (range + GlideLen - 1) \div GlideLen

Apart(a, b) == IF a > b THEN a - b ELSE b - a

\* A switch never clicks: over block boundaries too, and when it is thrown
\* back while it still glides, its value moves by no more than a glide's step.
\* And while the queue had room for every member of what was turned, the one
\* power switch of the device gates preamp, AD, DA and amplifier alike at every
\* instant, though the AD sees an M-th of them (ad.rs:154-160).
SwitchesGlide ==
  LET t == trace IN
  /\ \A n \in 2..Len(t.power) :
        /\ Apart(t.power[n], t.power[n - 1]) <= GlideStep(One)
        /\ Apart(t.air[n], t.air[n - 1]) <= GlideStep(One)
  /\ ~split =>
        /\ t.da_power = t.power /\ t.amp_power = t.power
        /\ \A i \in DOMAIN t.ad_power : t.ad_power[i] = t.power[(i - 1) * M + 1]

\* "The gains are smoothed control params, so re-routing is click-free"
\* (matrix.rs:12): from one digital sample to the next, in a block and over its
\* end, a crosspoint moves by no more than its glide does in that time.
\* It is violated: the gains are read at the digital index (matrix.rs:183) of a
\* smoother that counts analog samples, so in a block a crosspoint moves too
\* slowly, and at the next block's start it jumps to where the glide is.
ReroutingIsClickFree ==
  \A n \in 2..Len(trace.route) : \A c \in 0..3 :
    Apart(trace.route[n][c], trace.route[n - 1][c]) <= M * GlideStep(MaxGain)

Amplified(l) ==
  Clamp(Times(Times(l.mic, One + Times(l.pad, PadFactor - One)) + l.ein, l.gain), -Rail, Rail)

\* The pedestal of phantom power, and whatever both legs of the line share, is
\* gone before the rail can clip it (mic_preamp.rs:315).
RailClipsTheDifference ==
  \A n \in DOMAIN trace.amped : trace.amped[n] = Amplified(trace.line[n])

\* The matrix is one flat array of gains (matrix.rs:48).  Whatever is mixed at
\* the crosspoints of one output, the other keeps the mix it was built with
\* until one of its own is turned: the computer records the converter, and the
\* performer hears the computer.
OutputsKeepTheirMix ==
  /\ turned \intersect {"ad_to_send", "usb_to_send"} = {} => trace.send = trace.ad
  /\ turned \intersect {"ad_to_monitor", "usb_to_monitor"} = {} => trace.monitor = trace.usb

=============================================================================
