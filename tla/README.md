# A TLA+ model of the audio engineering simulator

The repository is a browser application that simulates the devices of a small
studio. A Rust engine, compiled to WebAssembly, renders voltages block by block
inside an AudioWorklet; a TypeScript page owns the scene (devices, cables,
knobs, tracks), proposes structural changes, and relays recorded takes to a
storage worker. These modules model the control of that system: what is decided,
when, by whom, and what happens when two of those things overlap. Samples appear
as what tells them apart (who rendered them, in which block, from which byte), or
as integers where a filter's memory is the point; floating-point rounding and
layout are left out.

## Inventory

| Part | Source | State it keeps | Operations | What makes it hard |
| --- | --- | --- | --- | --- |
| Real-time engine surface | `crates/wasm-bindings/src/lib.rs` | live scene, pending scene, two control queues, note clock, drop counters | `load_patch`, `set_param`, `note_on`, `note_off`, `render_quantum`, transport and track setters | handles of one scene reach another; two clocks; full queues |
| Control queues | `crates/engine/src/param.rs`, `schedule/events.rs` | pending targets, pending events | `set`, `push`, `drain`, `clear` | capacity, coalescing, block boundaries |
| Compiler and schedule | `crates/engine/src/schedule.rs`, `schedule/topo.rs`, `graph.rs`, `port.rs` | graph, conductor counts, lane pools, steps, delayed steps, control stores | `compile`, `infer_conductors`, `process_io` | cycle breaking, order of steps, one block of delay exactly where an edge was cut; widths inferred along wires; flat indices into pools |
| Recorder | `node/multitrack.rs`, `transport.rs`, `byte_ring.rs` | transport, per-track rings, faders | play, stop, record, seek, arm, feed, drain, `process` | rings that wrap inside a frame and fill; overdubbing |
| Nodes, electrical, signal, DSP | `crates/engine/src/node`, `fir.rs`, `dsp/`, `param.rs`, `electrical`, `signal` | smoothers, filter histories, envelopes | `process` | state carried over block boundaries; two clocks in one node; bypassed filters; balanced pairs |
| Devices | `crates/devices/src/catalog.rs`, `build.rs` | catalog, the graph being built, handles | `describe`, `build_patch` | labels and tables zipped by position; one id for a group of knobs; per-instance shape; phantom power along cables |
| Capture, harness | `crates/capture`, `crates/harness` | decimator state | `process`, offline rendering | floating point, file output |
| Worklet processor | `web/worklet/processor-impl.js` | engine, `capturing`, install to report, counters | `onmessage`, `process` | messages between quanta, reports after a swap |
| Transaction reducer | `web/src/topology-transaction.ts` | generation, revision, next id, outcome | `submit`, `receive`, `deadlineElapsed`, `recover` | late, repeated and lost replies |
| Page session | `web/src/session.svelte.ts`, `engine.ts`, `params.ts`, `scene-ops.ts` | scene, live knob map, transaction, timer | every gesture; every worklet message | edits in flight while knobs and tracks move |
| Takes | `web/src/daw.ts`, `storage-client.ts`, `storage-worker.ts`, `take-store.ts`, `opfs-backend.ts` | playing streams, pending requests, open takes, file handles | record relay, load, pump, worker commands | asynchronous handlers in one worker |
| Patching gesture | `patch-controller.svelte.ts`, `patching.ts`, `pointer-session.ts`, `gesture-ownership.ts` | the cable being dragged | pointer events | cancelled and nested gestures |
| Keyboard and MIDI | `App.svelte`, `keyboard-input.svelte.ts`, `notes.ts`, `engine.ts`, `node/synth_voice.rs` | keys held, octave, focused window, voice | key, MIDI and window events; `EventThru`, `SynthVoice::apply` | a note-off that must find where its note-on went, although focus and octave moved |
| Scene files and views | `scene-store.ts`, `scene.ts`, `placement.ts`, `view-*.ts`, `spatial.ts`, widgets | layout | load, save, layout, rendering | geometry |

The page and the worklet talk through the two FIFO directions of a MessagePort;
the worklet calls the engine directly, between quanta (messages) and once per
quantum (`process`). The page and the storage worker talk through another pair
of channels; the storage worker's handlers are asynchronous.

## Plan

What decides whether the studio sounds right, and is the hardest to test, came
first: the engine's surface and the exchange of scenes between page and worklet,
then the schedule that every block runs, then takes and playback, then the
gestures that make scenes, then what a scene is compiled into, and last the nodes.

| Step | Modules | Composition | State |
| --- | --- | --- | --- |
| 1 | `SceneEngine`, `EngineProofs` | | checked, proved |
| 2 | `TopologyReducer`, `TopologyHistory`, `TopologyTransaction`, `TopologyProofs` | the abstract specification of the exchange | proved |
| 3 | `TopologySession`, `TopologyProofs` | extends the reducer, implements `TopologyTransaction` | checked; safety and refinement proved |
| 4 | `Schedule`, `EngineProofs` | | checked, proved |
| 5 | `TakeStorage`, `TakePipeline`, `TakePipelineProofs` | the pipeline extends the storage worker | checked; safety proved |
| 6 | `PlaybackFeed`, `PlaybackProofs` | | checked, proved |
| 7 | `DeviceCatalog`, `PatchEdits` | the edits extend the catalog, which meets `SceneEngine`'s assumption on knobs; they give `TopologySession` its edits and compiler verdicts | checked |
| 8 | `PatchGraph`, `Conductors`, `LaneSchedule`, `PatchProofs` | the lane-level compiler extends the inference, implements `Schedule` | checked; safety and refinement proved |
| 9 | `ControlStore`, `DeviceDescriptors`, `PatchBuild`, `PatchProofs` | the builder extends the descriptors, the graph and the control store, and is compared with `PatchEdits`' idea of what builds | checked; stores proved |
| 10 | `Filters`, `SignalChain`, `SignalChainProofs` | | checked, proved |
| 11 | `Performance`, `PerformanceProofs` | | checked; safety proved |
| 12 | `ByteRing`, `OverdubDesk`, `Recorder`, `RecorderProofs` | the recorder extends filters and rings, implements `OverdubDesk` | checked, proved |
| 13 | a hot swap during playback; knobs in flight beside `TopologySession`'s structural edits for more than one knob | | planned |

## Modules and code

Names follow the source where TLA+ allows it; `PROJECT.json` maps each definition
to the lines it stands for. Operators commented as mutants, or as something "gone
wrong", are not part of the model: they are the plausible bugs each property is
tested against.

### The engine's surface and the exchange of scenes

**SceneEngine** is `SceneEngine` of `wasm-bindings`, with `ParamQueue`,
`EventQueue` and the parts of `Schedule::process_io` that drain them. Calls arrive
between quanta, in any order and number: `load_patch`, `set_param`, `push_event`
(`note_on`, `note_off`), `render_quantum`. A handle is the bare index it is in the
code, so the same number means different smoothers in different scenes. `want`
(what each knob was last asked) and `lost` (what the full queue dropped) are
histories. A smoother is its target: gliding is in `Filters`.
A patch saves a knob once; knobs and members of a knob's group do not share a
smoother (`GroupsAreDisjoint`: a parameter is exposed on its own only if no group
captures it, `catalog.rs:2403-2411`, and no two groups of an entry share one;
`DeviceCatalog` checks the whole catalog for it, and `PatchBuild` the scenes built
from it).

**TopologyReducer** is `topology-transaction.ts`, operator by operator.
**TopologyHistory** adds what is to be remembered of requests, and states once, for
the next two, the protocol's steps (`Propose`, `Recover`, `Deliver`, `Timeout`) and
what they keep. **TopologyTransaction** is what the protocol promises in any
environment: whatever reply to whatever request, at any time, twice or never.
**TopologySession** is the real environment: the page (`session.svelte.ts`), two
FIFO ports, the worklet processor (`processor-impl.js`) and the engine inside it,
reduced to its live scene, its pending one, a knob and a track setting. `Hang` stops
the worklet's thread for good: a trapped engine or a closed context. Two branches of
the worklet's `loadPatch` (`processor-impl.js:163-196`) are left out because this page
never takes them. A request of another protocol version: the session starts the engine
without options, so page and worklet both speak version 1, and a worklet started with
another one returns from its constructor before it listens to the port
(`processor-impl.js:61-68`). And a rejection after `load_patch` has succeeded: port
descriptors fail only on an unknown type or a configuration that does not parse, which
`load_patch` refuses first. Its
`TransactionProtocol` is the refinement
(`INSTANCE TopologyTransaction WITH Edits <- PageEdits`): every step of the session
is one of the protocol's, or a stutter.

### The compiler and its schedule

**Schedule** is `compile` from the single-input check to the sorted order, with
`topo_sort` and `reaches`, and the step loop of `process_io`: delayed steps first,
then each node and the copies along its outgoing edges. A signal is reduced to its
producer and the block it was rendered in. `topo_sort`'s ready stack pops a certain
node; the model pops any. It sees a port where the code has lanes, and begins where
the graph is known to be sound.

**PatchGraph** is `graph.rs` with the checks `compile` makes of it and the search for
the phantom supply of each output. **Conductors** is `infer_conductors`, one turn of
its inner loop an action. **LaneSchedule** is the whole of `compile` and
`process_io` one level below `Schedule`: faults, the inferred widths, one pool lane
per conductor or channel (two pools, one writer per input lane, the host's event
inputs), the flat list of steps with what each cable adds to each leg, and the copies
themselves. A lane's content is its producer, its lane, its block and the
interference it has picked up; what the two legs of a cable pick up is equal or
not, and its size is left out, as are the electrical factors baked into a step.
`ImplementsSchedule` instantiates `Schedule` with the lanes of a port folded
together: sorting and cutting are `Schedule`'s own actions, and a block of the lanes
is a block of the ports.

**ControlStore** is the numbering of parameters and readouts at the end of
`compile`: a base for each node and a node-local id.

### The catalog and the builder

**DeviceCatalog** is the device catalog, all nineteen types: what each engine node
takes in, gives out and can be told, which nodes and wires a type is made of, and
`expose` and `describe`, which derive the face the page and `build_patch` know it by.
It states four facts about the tables as assumptions, which TLC evaluates with
`MCPatchEdits`: every port on a face has its connector; a chassis is wired port to
port, carrier and width alike, with no input wired twice; every node parameter is
driven by exactly one knob; a duplex jack leads back to itself. No node of the catalog
is per-conductor, so `infer_conductors` has nothing to infer in a scene the page can
make; `Conductors` is for the patches the engine's own tests and harness compile.

**DeviceDescriptors** is the hand-written half of `describe`: the labels, the grids,
the readouts and the presets that are zipped with the derived half by position. Its
five assumptions (`LabelsAreOnTheirControls`, `RoutesAreLabelledAsWired`,
`EveryTrackIsOnMaster`, `ReadingsAreOnTheirMeters`, `PresetsAreKept`), evaluated with
`MCPatchBuild` for every type and shape, say that each label is beside the parameter
it names, that a crosspoint's source and destination are the lanes the matrix joins,
and that a preset the page offers is one the builder takes.

**PatchBuild** is `build_patch_with_assets`, one turn of each of its loops an action,
with every error in the order the code finds it: devices expanded into nodes and
internal wires, connections resolved to edges (a duplex one to two), the tap, the
checks of `compile` (through `PatchGraph`), the control stores, and the handles given
to the host for knobs, readouts, notes, recorders and lost level.

**PatchEdits** is the gestures on a scene (`patching.ts`, `connections.ts`,
`scene-ops.ts`, `patch-controller.svelte.ts`) against the checks of `build_patch`
and of `compile`, from the default studio. A cable held from a socket survives every
other edit, so what it is released on is judged on another scene than the one it was
taken in. A candidate that does not build is dropped, as `TopologySession` shows. It
has the compiler's verdict as one predicate over a scene, whatever the order of its
parts; `BuildsAsThePageExpects` shows that the builder, step by step, accepts exactly
the scenes that predicate accepts. Loops are left to `Schedule`, because every loop
made within the bounds of `MCPatchEdits` runs through a converter.

### The nodes

**Filters** is the smoother of `param.rs`, the decimating and interpolating FIR of
`fir.rs` with their ring histories, and the biquad. **SignalChain** is one channel of
the interface through the nodes that use them: preamp (pad, AIR, rail, powered gain),
AD (dither, power), matrix, DA, gain stage, monitor, capture. Every crosspoint of the
matrix is a knob, those into the send to the computer included. A turn goes through
`ParamQueue::set` member by member, so that a group is split when the queue is full;
`split` and `turned` remember what was turned. A sample is an integer and a product is rounded down to a multiple of `1/One`; the FIRs and the shelf are
exact. `trace` is what every node has heard since the start, against which the
properties recompute it in one piece.

**Performance** is the way of a note: which window is the instrument being played
(`App.svelte`), the keyboard listener with its octave and held keys
(`wireKeyboard`), MIDI keys, the port, the engine's queue and its cap, `EventThru` of
the controller, the synth voice with its envelope (one voice, last note wins) and the
guitar. A MIDI key counts as played by whoever it struck. The listener is attached in
an effect whose teardown calls the `playNote` of its target while the target moves
(`keyboard-input.svelte.ts:22-28`, `App.svelte:450`). `Released` sends those releases to
the old target: that is Svelte's rule that a teardown reads the values its effect ran
with (Svelte 5.56, the version of `pnpm-lock.yaml`), not something the page's own code
sees to; `ReleasedToNew`, the mutant, is the page without it.

**Recorder** is `MultitrackRecorder` with its `Transport`, over **ByteRing**
(`byte_ring.rs`, copies that wrap included), driven by the functions of
`wasm-bindings` and `DawControl`. **OverdubDesk** is what it promises to a listener,
without any notion of recording; `PlaysAsOnTheDesk` is the refinement.

### Takes and playback

**TakeStorage** is the storage worker: `StorageClient`'s requests, the worker's
`onmessage`, `TakeStore` and `OpfsBackend` on one file. `onmessage` is
asynchronous and not serialised, so a handler that awaits a file handle lets later
messages in; `Suspend`, `Opened` and `OpenFails` are the two halves of that await.
**TakePipeline** adds one recorder track, its gates and ring, the worklet's drain
(`capturing`) and the page's relay. A frame is one quantum's block; the bytes below it
are `Recorder`'s.

**PlaybackFeed** is the other direction: `DawController.startPlayback`,
`stopPlayback` and `pump`, transport reports and feed messages in flight, the
playback rings and the playhead. Its unit is a quantum's block, 512 bytes, in which
the code's constants are `FEED_CHUNK_BYTES` 8, `FEED_HIGHWATER_BYTES` 32,
`STREAM_RING_BYTES` 64 and a report every 8 quanta.

## Runs

| Run | Module, configuration | Expect | Properties | Distinct states | What it shows |
| --- | --- | --- | --- | --- | --- |
| MCSceneEngine | `MCSceneEngine`, `MCSceneEngine.cfg` | pass | `NotesFireNextQuantum`, `QueuedHandlesAreLive`, `KnobsFollowRequests` | 248,544 | Across hot swaps, knob moves, notes, failed builds and full queues, handles stay those of the live scene, notes fire in the next quantum and every knob goes where it was last asked to. |
| MCTopologySession | `MCTopologySession`, `MCTopologySession.cfg` | pass | `AppliedOnItsBase`, `AbandonedNeverApplied`, `EngineHasTheScene`, `TracksSurviveSwaps`, `TransactionProtocol`, `RequestsEnd`, `AcceptedEditsAreHeard` | 450,580 | The page, the ports and the worklet together: each edit is applied to the scene it was compiled with and never after it was given up, the scene shown is the scene compiled and rendered, track settings survive swaps, and the page refines the transaction protocol. With a clock that has reached the deadline when the timer fires, every request ends even when the worklet dies, and accepted edits become audible. |
| MCSchedule | `MCSchedule`, `MCSchedule.cfg` | pass | `InputsAreCurrent`, `AirIsCutFirst`, `OnlyHopelessLoopsAreRejected`, `CompileEnds` | 1,803,718 | Every patch of three cables between three nodes, and two interlocking loops in every medium, compiled and rendered: what is cut, what is rejected, which block each node reads, and that the loop which cuts edges ends. |
| MCTakePipeline | `MCTakePipeline`, `MCTakePipeline.cfg` | pass | `TakeInMemoryIsWhole`, `FramesInOrder`, `RequestsSettle`, `TakesAreFinished` | 279,726 | Every interleaving of rolling, record-enable, arming, hot swaps, drains, loads and worker messages, in memory and in OPFS, where a file that is being opened lets later messages overtake: what a take keeps, and that every request and every take ends. |
| MCTakePipelineDropped | `MCTakePipeline`, `MCTakePipelineDropped.cfg` | violation | `TakeIsWhole` | about 310 | With OPFS the first chunks of a track's first take are dropped: they overtake the begin that is still opening the file. |
| MCPlaybackFeed | `MCPlaybackFeed`, `MCPlaybackFeed.cfg` | pass | `NothingIsLost`, `PlaysFromTheTop`, `NeverUnderruns` | 1,825,551 | Plays, stops and seeks; of every play that began at a standstill, the second one after a stop included, as long as loads, reports and messages starve a track for no more than the ring's slack over the high-water mark: the guess of the ring's level never overfills it, and every block is heard once. While the page answers each report before the next, no ring runs dry in the middle of a take. |
| MCPatchEdits | `MCPatchEdits`, `MCPatchEdits.cfg` | pass | `LegalCablesBuild`, `TakingAwayBuilds` | 166,022 | From the default studio and from every two devices of the catalog, over cables held across other edits, cables made, replaced, retyped and unplugged and gear added and removed: which edits the page offers as legal the engine builds, and what a scene on screen can look like. |
| MCLaneSchedule | `MCLaneSchedule`, `MCLaneSchedule.cfg` | pass | `EqualEndsAreAccepted`, `StepsFit`, `BalancedLinesAreQuiet`, `ImplementsSchedule` | 73,107 | compile and process_io on ports that have lanes: conductor counts are inferred in every order of cables, pools are laid out, each step joins two lanes of its own wire, a balanced line delivers what it was given and nothing it picked up, and the whole implements the schedule of ports. |
| MCPatchBuild | `MCPatchBuild`, `MCPatchBuild.cfg` | pass | `HandlesAreApart`, `EveryControlIsReachedOnce`, `ConnectionsAreWired`, `PoweredByItsPreamp`, `BuildsAsThePageExpects` | 44,435 | build_patch step by step on two devices of every kind, cabled and configured in every way, and on scenes that fail at each check: which handles, edges, notes and supplies come out, and that it accepts what the page's own predicate accepts. |
| MCSignalChain | `MCSignalChain`, `MCSignalChain.cfg` | pass | `FiltersHearTheWholePast`, `SwitchesGlide`, `RailClipsTheDifference`, `OutputsKeepTheirMix` | 40,834 | A microphone through preamp, converter, matrix, converter and amplifier to the capture, block by block while switches are thrown, knobs turned and routes made and unmade, until the parameter queue is full: each filter hears its whole past across blocks and bypasses, no switch clicks, one power switch gates its four nodes alike while the queue has room, the rail clips only what the legs do not share, and the mix of one output leaves the other's as it was built. |
| MCPerformance | `MCPerformance`, `MCPerformance.cfg` | pass | `NothingHangs`, `HandsOffIsSilence` | 111,588 | Keys and MIDI keys are struck and released while windows open and close, octaves shift and key-ups go unheard: a note that sounds belongs to somebody who will release it, and when every note has been released the voice runs through its envelope to silence. |
| MCRecorder | `MCRecorder`, `MCRecorder.cfg` | pass | `TakesAreTheInput`, `PlaysAsOnTheDesk` | 416,543 | Two tracks are fed, armed, monitored, faded and drained between quanta of a rolling recorder whose byte rings fill and wrap: what is heard is what a desk that knows of no recording would play, and what is drained is the input. |

Bounds, and why they are enough:

- `MCSceneEngine`: capacity 2 for both queues, so that a group of two smoothers and
  one knob overflow it and a group is split; three scenes, two of which give the
  same indices different meanings and one of which does not build; blocks of 2
  samples and 2 quanta between swaps. The proofs are for all values.
- `MCTopologySession`: 2 requests, so that a rejection, a time-out or a recovery of
  the first meets its late answer beside the second; 3 messages in each direction, a
  cable that builds and one that does not, two positions of the knob and of the
  track. The proofs are for any number of requests and messages.
- `MCSchedule`: every wiring of three edges between three nodes with two inputs each,
  in four media (up to renaming nodes; at most two edges declared delayed), and two
  loops of four nodes that share an edge, in every medium. Two blocks show both a
  first block and one that has a block before it. The proofs are for every finite
  graph.
- `MCLaneSchedule`: four nodes out of sources, microphones, inline processors,
  balanced drivers and receivers, every choice of what feeds the last three, plugged
  in every order, because the inference follows that order and two inline processors
  in a row are the least that passes a width on; converters at rates 4, 2, 3 and 1
  under an analog rate of 8 and blocks of 4, so that a rate divides the block, does
  not, or does not divide the analog rate; two-channel digital lanes in a loop and
  behind a delay; one microphone on two supplies; a loop through the air; notes; and
  graphs with each fault.
- `MCPatchBuild`: five families of scenes, each with every way to plug in one or two
  of its cables: a condenser or a ribbon microphone between two interfaces with phantom
  power on and off; two computers of every shape and an interface over USB, drawn from
  either end; controller, synth, guitar, strips and microphone in a loop and in the
  air; the default studio with 0 to 2 tracks; and scenes the page cannot make, one for
  each remaining error.
- `MCSignalChain`: kernels of five taps over blocks of four, so that every ring wraps
  inside a block; glides of six samples, so that every change crosses one; two turns
  in three blocks, so that a switch is thrown back while it still glides; each of the
  four crosspoints; a queue of four, which the power group fills, so that a knob
  queued first splits it. The proofs are for every kernel, rate, block, glide and queue.
- `MCPerformance`: two keys an octave apart and two octaves, so that two keys mean one
  note; a MIDI key on that note; three windows of which two are instruments; a queue
  of two, which a chord and its release fill; six gestures, as many as it takes to
  play, shift, refocus and release with both keyboards.
- `MCRecorder`: two tracks and two sends, rings of three frames of two bytes against
  blocks of two frames, so that a ring fills, refuses and wraps in the middle of a
  write; three blocks; three gestures after those that set up a fresh recorder before
  its first quantum.
- `MCTakePipeline`: 4 frames, drained every other quantum, so at most four takes and
  two drains in one take; two loads in flight at once, which is what it takes to
  contend for the handle. `MCTakePipelineDropped` needs three frames.
- `MCPlaybackFeed`: the code's ratios with smaller numbers (chunk 2, high-water 4,
  ring 8, a report every 2), two takes, one with a short last chunk.
  `MaxSilence` = 3 is the ring's size less the high-water mark and less one block
  short of a chunk. It is an assumption about the environment, and it is tight: the
  page estimates the ring's level from a playhead that also moves while a ring is
  empty, so every quantum a track starves makes it feed one block too many
  (`SlackAssumption`). In the
  code's numbers the slack is 25 blocks, about 67 ms at 48 kHz; beyond it chunks
  are dropped by a full ring. The only seek the page makes is to 0
  (`widgets/ComputerMixer.svelte:106`); a seek to elsewhere is offered too. Two plays
  and two stops or seeks. The properties are about plays that begin at a standstill:
  the transport stopped at the start, nothing under way but stops and seeks to the
  start, the rings empty. `fresh` remembers whether the last one did, and the search
  goes no further where it did not (`CONSTRAINT FromStandstill`): a second play after
  a stop is among them when the rings have run dry; one that finds blocks in them is
  not (see "Disagreements met").
  Neither the chunk nor the high-water mark is shorter than the report period asks
  (`PaceAssumption`; in the code a chunk lasts one period of 8 blocks and the mark
  four). The proofs are for every value of the constants under these assumptions, and
  for any number of plays, stops and seeks.
- `MCPatchEdits` opens three kinds of scene (a page opens the default one or whatever
  was saved): the default studio with no room for more gear; that studio without its
  instruments, which grows to three computers and three interfaces with their USB
  sockets, a leveler and the line sockets of the first interface, at most five devices
  and four cables; and every two types of the catalog beside the speaker, all their
  sockets, one cable of any preset at a time. Two computers are needed for descriptors
  to be shared, three for a removal to change which one wins; the pairs make every two
  sockets of the catalog meet. `LegalCablesBuild` looks at the cable that is held: any
  socket may be pressed in any scene, so every pair of ends is still judged.

Deadlock is not checked (`CHECK_DEADLOCK FALSE`) where the system may rest: no
gesture need ever come, a compile or a build ends, and once the bounds on requests,
frames, plays, turns or blocks are used up a model stops. It is checked for
`MCSceneEngine`, whose next quantum can always be rendered, and `MCPatchEdits`, where
a next gesture is always possible.

## Fairness

`TopologySession`: both event loops take their next message, an armed timer fires,
and a context that runs asks for quanta; users owe nothing, and the worklet may
die. `TimerReadings` = {2} says that the clock has reached the deadline when the
timer fires. That is an assumption: the timer is one-shot and its handler compares
`Date.now()` with the deadline again, so if the wall clock was set back the page
stays "submitting" until a reply comes (see "Disagreements met").
`TakePipeline`: the browser renders quanta and the storage worker takes messages
and gets its file handles. `Schedule`: `compile` is one synchronous loop.
`Performance`: the port delivers what was posted and quanta are rendered; the player
owes nothing, not even a release.
The other modules claim no liveness: `PlaybackFeed` is bounded by guards on time
itself, under which a liveness property would say nothing of the code, and a build, a
signal chain or a recorder does what it is told.

## Findings

- **TakeIsWhole** (code bug, `src/web/src/take-store.ts:117`; run MCTakePipelineDropped, `TakeIsWhole`). The worklet posts recordStarted and the first recorded chunk back to back (web/worklet/processor-impl.js:292-297) and the client relies on order: "Fire-and-forget (ordered with prior sends)" (web/src/storage-client.ts:55). In the worker beginRecord awaits the opening of the file's sync access handle when none is cached, the append is handled meanwhile, finds no #recorded entry and returns ("not in a take — a stray drain after stop; drop it", web/src/take-store.ts:117). The run shows the first blocks of a track's first take missing from its file, whose final header then says more than the file holds. With a cached handle, or in memory, the order holds (run MCTakePipeline).

### Disagreements met

What a document or comment says and the code does not do, seen while modelling. The
models contain the behaviour, and the properties of the runs are stated so that they
hold beside it. Those that name a property state the document's claim, and TLC ends
with a counterexample to it.

- **A knob moved during a structural edit is lost** (`KnobsSurviveSwaps`,
  `MCTopologySessionKnob.cfg`). `session.svelte.ts:321-322` says of the three places
  that hold a knob that they "mustn't drift apart". A knob moved after
  `proposeTopology` took its snapshot reaches the outgoing engine scene, whose queue
  the swap clears (`lib.rs:457`); the new scene starts from the snapshot, and
  `onTopologyInstalled` sends only the tracks again (`session.svelte.ts:539-543`).
  With nothing under way any more, page and scene show the new value and the engine
  plays the old one.
- **A deadline the clock has not reached** (`RequestsEnd`, with `TimerReadings` = {1, 2}
  in `MCTopologySession.cfg`). "a missing reply still becomes `unknown` at the deadline"
  (`docs/epics/epic-10/story-10.2-acknowledged-topology-transactions.md:124`), but the
  handler of the one-shot timer compares `Date.now()` with the deadline once more
  (`session.svelte.ts:249`). Where the wall clock was set back meanwhile, the timer is
  spent, and the page stays "submitting" and refuses every later edit.
- **The direction of a USB drag matters** (`DragDirectionDoesNotMatter`,
  `MCPatchEditsDrawn.cfg`). A released duplex socket is resolved to the alias that
  complements the source (`patching.ts:77-84`), its input, whose `duplexPartner` is the
  output; `evaluateConnection` takes that for the input the cable goes to
  (`connections.ts:113`). From the computer to an 8i6 the cable is authored to the 8i6's
  input 0, a combo jack, and `build_patch` refuses it (`NotDuplex`).
  `connections.ts:42-43` says the partner "is the paired **input** id", and
  `connections.ts:111` that "drag direction doesn't change the result".
- **Stop, then play** (`StartsFromTheTop`, `MCPlaybackAgain.cfg`). `stopPlayback` drops
  the page's streams and "The engine's rings drain to silence on their own"
  (`daw.ts:119-120`); the recorder reads a ring only while it rolls, so what was fed
  stays, and the next play is heard from the middle of the take before its top
  ("playback plays every track's take from the top", `take-store.ts:14`). Record pressed
  while a take plays leaves the ring in the same state (`session.svelte.ts:451`,
  `ComputerMixer.svelte:98-101`).
- **Tracks start apart** (`TracksPlayInStep`, in place of `StartsFromTheTop` in
  `MCPlaybackAgain.cfg`). `startPlayback` awaits the loads one after the other
  (`daw.ts:105-106`), and a track is heard from the quantum in which its first chunk is
  there. A quantum, or a report, between the first chunks of two tracks leaves them
  apart for good, on what the design calls "the one playhead"
  (`docs/EPIC_5_NOTES.md:882-883`).
- **A matrix gain jumps** (`ReroutingIsClickFree`, `MCSignalChainRerouted.cfg`).
  "re-routing is click-free and needs no recompile" (`node/matrix.rs:12`), but a
  crosspoint is read at the digital index (`matrix.rs:183`) of a smoother that counts
  analog samples, where `ad.rs:154-160` scales the index: within a block it runs
  through an M-th of its glide, and the rest is skipped at the block's end. With no
  oversampling the indices are the same.
- **Order of plugging.** The step that infers conductors says a genuine
  balanced-unbalanced clash "surfaces here as a mismatch" (`schedule.rs:649`). Where a
  wire may be grounded, a patch that could be wired is accepted or refused by the order
  in which its cables were connected (`schedule.rs:1150`): a per-conductor node that
  feeds a balanced receiver and an unbalanced input takes one conductor if the
  unbalanced cable is swept first, grounding the receiver's cold pin, and two,
  refusing the unbalanced cable, if the balanced one is.
  `EqualEndsAreAccepted` is the part that does not depend on the order.
- **A MIDI key released after the focus moved** sends its note-off to the new target
  (`App.svelte:450`), and the note of the old one stays on until it is struck and
  released again. No line of the repository says otherwise. `NothingHangs` counts such
  a note as the MIDI key's.

Behaviour that no document contradicts:

- The default studio's USB cable is two one-way links (`scene-store.ts:231-234`).
  Unplugging either of them makes the computer a 2x2 card, the other leg no longer
  fits, and the edit is refused; a new USB cable does not replace them either. Only
  removing a device frees the sockets.
- `build_patch` keeps descriptors by device type (`build.rs:500-507`). A computer
  cannot be added while another is cabled to an interface, because the new one's
  2x2 is compared with the interface's 8x6; with three computers, removing the last
  may be refused.
- Only one end of a new cable is enumerated: a computer whose cable was replaced, or
  whose interface was removed, keeps its counts.
- The page allows a balanced output into an unbalanced input, and clearing an
  adapter cable to "Ideal wire"; `compile` and `build_patch` refuse them.
- Saved values that do not fit the queue of a freshly loaded scene are dropped
  without being counted (`lib.rs:355`, `:465`), against the doc of
  `PARAM_QUEUE_CAP` (`lib.rs:236-238`). The counter is only reported, so no run is
  spent on it; `lost` in `SceneEngine` records them.
- The recorder's device that is removed while it is being drained keeps its entry in
  `capturing` (`processor-impl.js:298`), and its id may be given to the next device of
  its type (`scene-ops.ts:369`).
- `compile` takes a tap of any medium; `build_patch` refuses one that is not analog
  (`OutputTapNotAnalog`) before the engine would stop at `lane.rs:113`.

## Proofs

TLAPS checks every theorem of the eight proof modules for all values of the
constants under the named assumptions; TLC evaluates those assumptions on the
instances.

`EngineProofs`, of `SceneEngine`: `IInv` is `TypeOK`, the clocks agree, notes fire in the next
quantum, queued handles are live, knobs follow requests, queues fit, and the
parameter queue is finite. `KnobsFollowRequests` is about what the smoothers will
be aimed at once the queue is drained, so it needs that the queue holds only
handles of the live scene; that in turn needs both queues cleared by a swap; that
no event is ever left over after a block needs the two clocks equal, which a swap
keeps only because it resets both. The lemmas on `PushAll` state what the bounded
latest-wins queue stores, keeps and drops for a whole batch, which is how a group
that is split between stored and dropped members is handled. Assumptions:
`ConstantsAssumption`, `HandlesAssumption`, `GroupsAreDisjoint`,
`SettingsAssumption`, `EventInputAssumption`.

`TopologyProofs`, of `TopologyTransaction`: that applied edits are serial is not inductive by
itself. Two facts are added: ids are drawn in order and never used again
(`IdsAreFresh`), and while a request is open neither revision nor generation moves,
and it is newer than everything applied (`OpenRequestIsCurrent`). The lemmas, one for
each way a request ends, are about the actions of `TopologyHistory`: a reply is inert
unless it correlates (`ObsoleteReply`), and if it correlates it is the open
request's, whose base is the current revision (`AcceptingReply`).

Of `TopologySession`: `SessionImplementsTransaction` is the refinement, and
`SessionEditsAreSerial` what it brings over; both need that the timer never finds an
open request with another deadline than its own, and use the same
lemmas, which name the reducer's steps and not the module that takes them. `ClosedRequestsAgree` (`EngineHasTheScene`) needs `EngineInv`: with no request
open, nothing structural is under way in either direction; with one open, all patches
under way carry the cables its proposal makes of the page's scene, even those of a
first attempt that was given up and sent again, the engine has either these cables or
the page's, and since both ports are FIFO the reply to the open request is the
last. A retry is therefore judged on what every earlier attempt of it did.
`TracksFollowThePage` (`TracksSurviveSwaps`) needs that a report is still to come
whenever a swap or a loaded scene may have left page and engine apart
(`ReportToCome`); otherwise the last track setting under way, or else the engine's, is
the page's (`LastTrackIs`). Assumptions: those of the reducer, and that "no patch" is
not a patch (`NoPatchAssumption`).

`EngineProofs`, of `Schedule`: what a node reads is right (`InputsAreCurrent`) because producers
come first in the order (`ProducersFirst`), because `in_degree` counts the edges
whose producers are still missing (`Counted`), and because an input port has one
edge (`OneWirePerInput`), so that no copy overwrites another. That a stuck sort
means a loop is proved without induction: the nodes not placed wait for one
another, a smallest set of such waiters exists (`SmallestWaiters`, by
well-foundedness of strict inclusion on finite sets), and in a smallest one every
edge lies on a loop (`RejectedLoop`). Reachability is "every set closed under the
edges contains it". `LoopAvoids` carries `AirIsCutFirst`: once no acoustic edge is
on a loop, loops do without acoustic edges. `SpecNoFeedbackWithinABlock` and
`SpecCutsAreLatent` have no run of their own: they say why `InputsAreCurrent` holds.

`PatchProofs`, on the inference of conductors: the invariants add to the types that
what has been inferred is what every choice of equal ends says (`Forced`), that a
mismatch excludes every such choice (`Unequal`), and that while a sweep changes nothing
the edges behind it rest (`RestsBehind`). From it: `SpecEqualEndsAreAccepted`, for any
number of nodes and wires of any widths, and `SpecWiresFit`: an accepted patch has two
equally wide ends on every wire that is not grounded. On the control store: the
controls of a node end before those of a later one begin and all end within the store;
from that, `StoreHandlesAreApart`.

`PatchProofs`, on lanes, for any set of graphs that meets `LanesAssumption`, any rates,
widths and block length, and any number of blocks. The pools come first: laying sequences
end to end keeps each of their elements and none twice (`FlattenLaysOut`, by induction on
how many are laid, as a set of numbers), so that each lane of each port is found where
`Base` looks for it. `LaneInv` is what compile has established by each phase, down to the
lanes a step joins (`StepJoins`); `SpecStepsFit` follows from it, because an input has
one wire and equal rates mean equal lengths. `SpecBalancedLinesAreQuiet` needs
`QuietInv`: in every block all the legs of a port hold the same draws of every wire with
several conductors (`Even`), because these draw from clones of one stream and inline
processors work leg by leg; a difference takes such draws away, and a receiver that
hears a grounded leg hears the draws there as well. `SpecImplementsSchedule` is the
refinement: all lanes of a node are of one block, that of its last run (`ViewInv`), so
that a port's first lane can stand for the port, and each action of the lanes is one of
the ports' or leaves what they see alone. All that `EngineProofs` says of `Schedule` is
thereby said of lanes, for graphs that meet both modules' assumptions.

What `LanesAssumption` says of nodes (`FacesOfItsKind`) is what the nodes of the crate
are: those that are per-conductor have one analog input and output (the DC blocker, and
the accumulator of the lifting tests), and the ones with a balanced input (receiver, preamp,
leveler) have that one and take the difference.

`TakePipelineProofs`: `FilesAreInOrder` is proved of the whole chain at once: the
file, the messages of the inbox one after another, the ring and the next frame of
input hold ever later frames (`Ordered`), which no step breaks, whether it moves
frames along the chain, drops them or empties a link. `TakesAreWholeInMemory` is about
an inbox that is not empty in between, so the invariant says what its messages will
make of the file: handled one by one they lead (`Reaches`) to a state whose file is
exactly what the worklet posted of its newest take, with its header once it is over.
In memory no handler waits for a handle, so nothing overtakes; with OPFS this is
false, which is the finding. Assumption: frames are numbers (`PipelineAssumption`).

`RecorderProofs` goes from bytes to what is heard. A ring of any capacity gives back
the bytes it was given, whatever wraps: a write appends (`WriteAppends`), a read takes
the oldest and leaves the rest (`ReadSplits`). A ring that is only given whole frames
and asked for whole frames holds whole frames (`Holds`), although a frame may lie
across the end of its buffer. `RecorderImplementsDesk` is the refinement: what the desk
knows of a track is the frames its playback ring holds, a feed continues them or is
refused whole, and a block takes the oldest. `TakesAreRecorded` (`TakesAreTheInput`)
follows, for each track, the frames the host was given and those still held: together
they are frames the track was to record, each of a later sample than the one before,
and all of them unless the ring had no room for a block (`KeptOf`). Both are for any
number of tracks and sends, block and ring sizes, bytes of a frame and amounts fed;
assumption: `RecorderAssumption` (sizes are positive, chunk lengths natural numbers).

`SignalChainProofs`: what a ring buffer of a filter holds is the end of what its node
has heard, oldest first from the write position, whatever the block and the kernel
and wherever a block wraps (`Hears`); a shelf's two states are a function of that past
(`ShelfHears`). From it `FiltersHearTheWholePast`: filtering in blocks is filtering in
one piece. A block is a fold over its samples and a recursive function over the past;
both are proved sample by sample, by induction on the set of sample counts for which
the claim holds (`NatSetInduction`), which asks for no library theorem with an operator
parameter. `SwitchesGlide` needs that the last value heard and the smoother's next are
within one glide step (`Smooth`), across blocks and knobs turned between them, and that
the four parameters of the one power switch stay equal (`Together`, `PowersAlike`) as
long as no turn was split. `OutputsKeepTheirMix` needs that a crosspoint nobody turned
is neither queued nor moved from how it was built (`AsBuilt`, `Unasked`); that a route of
one output has no parameter in common with the other is the layout of the flat array.
`RailClipsTheDifference` is about the two legs of the line as they enter the preamp.
All need that what the converters keep and stuff is the same sequence of samples
(`AdHears`, `HostHears`, `DaHears`). Proving it found an error in the model: with no
oversampling (`M = 1`) the zero-stuffing placed its samples by `n % M = 1`, which never
holds.

`PlaybackProofs`: `NothingIsLost`, `PlaysFromTheTop` and `NeverUnderruns` come from one
account of a block's way. The messages of the port, read in order, take each track from
where its ring ends to where the page has fed it (`Carries`), through every chunk of
every track that one report makes (`FlattenSeq`, unfolded by the same kind of
induction); the ring holds the blocks after the one heard last (`Lined`). That a write
is never refused needs that the page has fed no more than a ring beyond what was heard
(`Room`), and a report that is late, or counts quanta in which the ring was empty,
threatens just that: the playhead it carries is at most what was heard and what was
silent (`InTime`), so what the page takes for consumed is, but for the slack
(`SlackAssumption`). That a ring lasts until the next report (`Lasting`) is proved where
a report is due: nothing is on its way, so the ring ends where the page fed it, at
least a high-water mark beyond the report before (`FedAhead`), of which at most a
period was played since. Until `play` arrives nothing has moved (`Still`). None of this
holds of a play that finds the rings filled, so the invariant is
`Weak /\ (fresh => IInv)`: types always, and the account from a standstill until a play
begins elsewhere. A play at a standstill establishes `IInv` from `Weak` alone
(`PlayInv`), whatever the plays before it left in the page's own variables; what may
still be under way then, stops and seeks to the start, carries no blocks. The
assumptions (`PlaybackAssumption`, `SlackAssumption`, `PaceAssumption`) bound what is modelled
of the environment and of the user, not the sizes: takes, chunk, high-water mark, ring
and period are any that satisfy them.

`PerformanceProofs`: `NothingHangs` is about a moment when nothing is under way, so the
invariant says what will sound once everything under way has arrived (`WillSound`): a
note struck by a message of the queue or the port and not released by a later one, or
one that sounds and is not released by any (`Lasts`). While the queue has refused
nothing, every such note belongs to a key of that instrument (`Answered`). A gesture
only appends to the port, and a release it appends comes after the strike it ends
(`PostKeeps`); a target that is left releases every held note, in whatever order
(`ReleasesAre`). A delivery moves a message and a quantum applies messages, and neither
changes what will sound: lanes lose nothing (`LaneHolds`, `CopyIsWhole`), the envelope
never touches the note (`VoiceHears`), the guitar keys what its lane says
(`GuitarHears`). Assumption: `PerformanceAssumption`, whose one demand on sizes is a
lane at least as long as the queue (the queue holds 64 events, the lanes 64 or 128).

An action shared by two modules is stated in a module both extend, because a theorem
cannot be cited through an instance. `Capture` and `AllBytes` are written with an index
rather than as folds, which makes the proofs shorter.

Only model-checked:

- every liveness property (requests, edits, loads, takes, compiles that end): liveness
  under fairness and ENABLED are outside this prover's reach;
- `LegalCablesBuild` and `TakingAwayBuilds` of `PatchEdits`, and
  `EveryControlIsReachedOnce`, `ConnectionsAreWired`, `PoweredByItsPreamp` and
  `BuildsAsThePageExpects` of `PatchBuild`: they are about the catalog's own tables,
  nineteen types of which each has to be looked at, which TLC does and a proof would
  only do again, case by case;
- `HandsOffIsSilence` of `Performance`, a liveness property as well.

## Not modelled

- The electrical factors baked into a step (voltage dividers, loss, capacitance), hum
  amplitudes, meters, speakers and microphones' own curves, compressor, equaliser and
  leveler: closed formulas of one node. The control around them (which step has them,
  which lanes they join, which readout is theirs) is in `LaneSchedule` and `PatchBuild`.
- Floating-point rounding; samples of a SoundFont: whether one is loaded is modelled.
- Bare gate messages and the keys drawn on the screen: the port carries them as it
  carries notes.
- The WAV header, whose bytes unit tests pin; `remove` and `hasTake` of the storage
  worker, which nothing calls.
- A hot swap during playback: the new recorder starts stopped with empty rings; its
  effect on the page's streams is planned.
- The workbench, URL scenes, racks, spaces, placements, geometry, widgets: layout.
- The offline harness: straight-line demonstration patches over the engine.
