----------------------------- MODULE SceneEngine -----------------------------
(***************************************************************************)
(* The real-time surface the AudioWorklet drains                           *)
(* (crates/wasm-bindings/src/lib.rs), with the control half of             *)
(* Schedule::process_io (crates/engine/src/schedule.rs), EventQueue        *)
(* (schedule/events.rs) and ParamQueue (param.rs).                         *)
(*                                                                         *)
(* A patch is built off-block into a scene and waits in `pending` until    *)
(* the next render quantum installs it.  Between quanta the host moves     *)
(* knobs and strikes notes; both are resolved to HANDLES of the live       *)
(* scene, bare indices that mean something else, or nothing, in another    *)
(* scene.  Audio samples are abstracted away: what remains is which value  *)
(* every smoother is aimed at, which notes reach which lane and when, and  *)
(* the two clocks that must agree, the host's note clock (`blocks`) and    *)
(* the schedule's sample clock (`sample_pos`).                             *)
(***************************************************************************)
EXTENDS Integers, Sequences, FiniteSets

CONSTANTS
  Patches,        \* patches the host may ask for
  Buildable,      \* those that build_patch accepts; InitialPatch is one
  InitialPatch,   \* the patch given to the constructor
  NoPatch,        \* "nothing pending"
  Device, ParamId,
  Value, Default, \* knob values; the construction value of every knob
  Unset,          \* "no value asked for"
  Note,
  NoInput,        \* "this device has no open event input"
  ParamHandles,   \* scene -> device -> param id -> its handles, in order
  Handles,        \* scene -> the indices of its smoother store
  EventInput,     \* scene -> device -> event lane or NoInput
  Settings,       \* scene -> the saved ParamSettings of its patch, in order
  PARAM_QUEUE_CAP, EVENT_QUEUE_CAP, BLOCK_LEN,
  MaxBlocks,      \* bound: blocks rendered without a swap
  MaxDrops        \* bound: where the saturating drop counters stop

ASSUME ConstantsAssumption ==
  /\ Buildable \subseteq Patches /\ InitialPatch \in Buildable
  /\ NoPatch \notin Patches
  /\ Default \in Value /\ Unset \notin Value
  /\ PARAM_QUEUE_CAP \in Nat /\ EVENT_QUEUE_CAP \in Nat
  /\ BLOCK_LEN \in Nat \ {0} /\ MaxBlocks \in Nat \ {0} /\ MaxDrops \in Nat

\* A handle is an index of its own scene's store (Schedule::param).
ASSUME HandlesAssumption ==
  /\ ParamHandles \in [Buildable -> [Device -> [ParamId -> Seq(Nat)]]]
  /\ Handles \in [Buildable -> SUBSET Nat]
  /\ \A p \in Buildable, d \in Device, k \in ParamId :
       \A i \in DOMAIN ParamHandles[p][d][k] :
         ParamHandles[p][d][k][i] \in Handles[p]

\* No two knobs, and no two members of a param group, share a smoother.
ASSUME GroupsAreDisjoint ==
  \A p \in Buildable, d1, d2 \in Device, k1, k2 \in ParamId :
    \A i \in DOMAIN ParamHandles[p][d1][k1], j \in DOMAIN ParamHandles[p][d2][k2] :
      ParamHandles[p][d1][k1][i] = ParamHandles[p][d2][k2][j]
        => d1 = d2 /\ k1 = k2 /\ i = j

\* A patch saves a knob at most once.
ASSUME SettingsAssumption ==
  /\ Settings \in [Buildable -> Seq([device : Device, id : ParamId, value : Value])]
  /\ \A p \in Buildable : \A s, t \in DOMAIN Settings[p] :
       /\ Settings[p][s].device = Settings[p][t].device
       /\ Settings[p][s].id = Settings[p][t].id
       => s = t

ASSUME EventInputAssumption ==
  EventInput \in [Buildable -> [Device -> Nat \cup {NoInput}]] /\ NoInput \notin Nat

VARIABLES
  current,      \* the live scene
  pending,      \* the scene waiting for the next block boundary, or NoPatch
  params,       \* ParamQueue: a partial function from handles to targets
  events,       \* EventQueue: [when, target, message], oldest first
  blocks,       \* quanta rendered by the live scene, the note clock
  sample_pos,   \* the live schedule's sample clock
  target,       \* the live schedule's smoothers: handle -> target
  delivered,    \* the events the last block put into lanes, in order
  event_drops, param_drops,
  want,         \* history: the value last asked of each knob of the live scene
  lost          \* history: handles whose last value was dropped

vars == <<current, pending, params, events, blocks, sample_pos, target,
          delivered, event_drops, param_drops, want, lost>>

-----------------------------------------------------------------------------
(* The bounded, latest-wins ParamQueue.  A batch is a set of entries in    *)
(* push order: by setting, then by member of the setting's param group.    *)
(* An entry for a queued handle overwrites it; a new handle is stored      *)
(* while there is room and dropped otherwise.                              *)

Entry == [setting : Nat, member : Nat, handle : Nat, value : Value]

Before(e, f) == \/ e.setting < f.setting
                \/ e.setting = f.setting /\ e.member < f.member

Fresh(queue, batch) == {e \in batch : e.handle \notin DOMAIN queue}

DroppedFrom(queue, batch) ==
  {e \in Fresh(queue, batch) :
     Cardinality({f \in Fresh(queue, batch) : Before(f, e)})
       >= PARAM_QUEUE_CAP - Cardinality(DOMAIN queue)}

HandlesOf(batch) == {e.handle : e \in batch}

PushAll(queue, batch) ==
  LET stored == batch \ DroppedFrom(queue, batch)
  IN  [h \in DOMAIN queue \cup HandlesOf(stored) |->
         IF h \in HandlesOf(stored)
         THEN (CHOOSE e \in stored : e.handle = h).value
         ELSE queue[h]]

EmptyQueue == [h \in {} |-> Default]

\* One value fanned out to every handle a knob resolves to.
Fan(p, d, k, s, v) ==
  {[setting |-> s, member |-> i, handle |-> ParamHandles[p][d][k][i], value |-> v]
     : i \in DOMAIN ParamHandles[p][d][k]}

initial_params(p) ==
  UNION {Fan(p, Settings[p][s].device, Settings[p][s].id, s, Settings[p][s].value)
           : s \in DOMAIN Settings[p]}

\* What a patch's saved settings ask of each knob.
Saved(p) ==
  [d \in Device |-> [k \in ParamId |->
     LET mine == {s \in DOMAIN Settings[p] : Settings[p][s].device = d
                                           /\ Settings[p][s].id = k}
     IN  IF mine = {} THEN Unset
         ELSE Settings[p][CHOOSE s \in mine : TRUE].value]]

Increment(drops, n) == IF drops + n < MaxDrops THEN drops + n ELSE MaxDrops

-----------------------------------------------------------------------------
Message == [on : BOOLEAN, note : Note]

EventLanes(p) == {EventInput[p][d] : d \in Device} \ {NoInput}

\* `blocks * BLOCK_LEN`: the absolute time of the next block's first sample.
NoteStamp == blocks * BLOCK_LEN

\* drain_due: the length of the front prefix that is due before `end`.
DueCount(queue, end) ==
  CHOOSE n \in 0..Len(queue) :
    /\ \A i \in 1..n : queue[i].when < end
    /\ n < Len(queue) => queue[n + 1].when >= end

\* The block-relative offset of an event: late ones clamp to 0.
Offset(when, pos) ==
  LET ahead == IF when > pos THEN when - pos ELSE 0
  IN  IF ahead < BLOCK_LEN THEN ahead ELSE BLOCK_LEN - 1

-----------------------------------------------------------------------------
Init ==
  /\ current = InitialPatch
  /\ pending = NoPatch
  /\ params = PushAll(EmptyQueue, initial_params(InitialPatch))
  /\ events = <<>>
  /\ blocks = 0
  /\ sample_pos = 0
  /\ target = [h \in Handles[InitialPatch] |-> Default]
  /\ delivered = <<>>
  /\ event_drops = 0
  /\ param_drops = 0
  /\ want = Saved(InitialPatch)
  /\ lost = HandlesOf(DroppedFrom(EmptyQueue, initial_params(InitialPatch)))

\* load_patch / queue_patch: a patch that does not build leaves everything
\* alone; one that does replaces whatever was waiting.
load_patch(p) ==
  /\ pending' = IF p \in Buildable THEN p ELSE pending
  /\ UNCHANGED <<current, params, events, blocks, sample_pos, target,
                 delivered, event_drops, param_drops, want, lost>>

\* set_param, through push_param: the knob is resolved in the live scene.
set_param(d, k, v) ==
  LET batch   == Fan(current, d, k, 1, v)
      dropped == DroppedFrom(params, batch)
  IN  /\ params' = PushAll(params, batch)
      /\ param_drops' = Increment(param_drops, Cardinality(dropped))
      /\ want' = IF batch = {} THEN want ELSE [want EXCEPT ![d][k] = v]
      /\ lost' = (lost \ HandlesOf(batch)) \cup HandlesOf(dropped)
      /\ UNCHANGED <<current, pending, events, blocks, sample_pos, target,
                     delivered, event_drops>>

\* note_on / note_off: a no-op on a device with no open event input.
push_event(d, message) ==
  /\ EventInput[current][d] # NoInput
  /\ IF Len(events) < EVENT_QUEUE_CAP
     THEN /\ events' = Append(events, [when |-> NoteStamp,
                                       target |-> EventInput[current][d],
                                       message |-> message])
          /\ UNCHANGED event_drops
     ELSE /\ event_drops' = Increment(event_drops, 1)
          /\ UNCHANGED events
  /\ UNCHANGED <<current, pending, params, blocks, sample_pos, target,
                 delivered, param_drops, want, lost>>

(* render_quantum.  What the block starts from, after the swap that a      *)
(* pending scene triggers: the fresh scene, its own clocks and smoothers,  *)
(* queues emptied of the old scene's handles, its saved values queued.     *)
Swapping == pending # NoPatch

\* Three swaps gone wrong: each keeps something of the old scene.
ParamsNotCleared == IF Swapping THEN PushAll(params, initial_params(pending))
                    ELSE params
EventsNotCleared == events
BlocksNotReset   == blocks

SceneAtStart  == IF Swapping THEN pending ELSE current
ParamsAtStart == IF Swapping THEN PushAll(EmptyQueue, initial_params(pending))
                 ELSE params
EventsAtStart == IF Swapping THEN <<>> ELSE events
BlocksAtStart == IF Swapping THEN 0 ELSE blocks
PosAtStart    == IF Swapping THEN 0 ELSE sample_pos
TargetAtStart == IF Swapping THEN [h \in Handles[pending] |-> Default] ELSE target

\* process_io, first part: drain the queued targets; foreign handles are skipped.
DrainParams(queue, smoothers) ==
  [h \in DOMAIN smoothers |-> IF h \in DOMAIN queue THEN queue[h] ELSE smoothers[h]]

\* process_io, second part: each due event lands in its lane at its offset; a
\* foreign one is skipped (its lane is NoInput).
Deliver(queue, p, pos) ==
  [i \in 1..DueCount(queue, pos + BLOCK_LEN) |->
     [lane    |-> IF queue[i].target \in EventLanes(p) THEN queue[i].target
                  ELSE NoInput,
      message |-> queue[i].message,
      offset  |-> Offset(queue[i].when, pos)]]

render_quantum ==
  /\ Swapping \/ blocks < MaxBlocks
  /\ current' = SceneAtStart
  /\ pending' = NoPatch
  /\ target' = DrainParams(ParamsAtStart, TargetAtStart)
  /\ params' = EmptyQueue
  /\ delivered' = Deliver(EventsAtStart, SceneAtStart, PosAtStart)
  /\ events' = SubSeq(EventsAtStart,
                      DueCount(EventsAtStart, PosAtStart + BLOCK_LEN) + 1,
                      Len(EventsAtStart))
  /\ sample_pos' = PosAtStart + BLOCK_LEN
  /\ blocks' = BlocksAtStart + 1
  /\ want' = IF Swapping THEN Saved(pending) ELSE want
  /\ lost' = IF Swapping
             THEN HandlesOf(DroppedFrom(EmptyQueue, initial_params(pending)))
             ELSE lost
  /\ UNCHANGED <<event_drops, param_drops>>

Next ==
  \/ \E p \in Patches : load_patch(p)
  \/ \E d \in Device, k \in ParamId, v \in Value : set_param(d, k, v)
  \/ \E d \in Device, m \in Message : push_event(d, m)
  \/ render_quantum

Spec == Init /\ [][Next]_vars

-----------------------------------------------------------------------------
\* Types of the engine's fields.
TypeOK ==
  /\ current \in Buildable
  /\ pending \in Buildable \cup {NoPatch}
  /\ params \in [DOMAIN params -> Value] /\ DOMAIN params \subseteq Nat
  /\ events \in Seq([when : Nat, target : Nat, message : Message])
  /\ blocks \in Nat
  /\ sample_pos \in Nat
  /\ target \in [Handles[current] -> Value]
  /\ delivered \in Seq([lane : Nat \cup {NoInput}, message : Message,
                        offset : 0..(BLOCK_LEN - 1)])
  /\ event_drops \in Nat /\ param_drops \in Nat
  /\ want \in [Device -> [ParamId -> Value \cup {Unset}]]
  /\ lost \subseteq Nat

\* The note clock tracks the live schedule's clock through every swap, the
\* reason render_quantum resets `blocks` ("which has to track the schedule's
\* elapsed samples").
ClocksAgree == NoteStamp = sample_pos

\* Every waiting note is stamped with the first sample of the block about to
\* render, so the next quantum takes all of them, and those it took fired on
\* its first sample in a lane of the scene.
NotesFireNextQuantum ==
  /\ \A i \in DOMAIN events : events[i].when = sample_pos
  /\ \A i \in DOMAIN delivered :
       delivered[i].offset = 0 /\ delivered[i].lane # NoInput

\* A queued handle always belongs to the live scene: none survives a swap to
\* be applied to a knob, or a lane, that happens to have the same index.
QueuedHandlesAreLive ==
  /\ DOMAIN params \subseteq Handles[current]
  /\ \A i \in DOMAIN events : events[i].target \in EventLanes(current)

\* What a smoother is, or at the next block will be, aimed at.
Effective(h) == IF h \in DOMAIN params THEN params[h] ELSE target[h]

Asked(d, k) == IF want[d][k] = Unset THEN Default ELSE want[d][k]

\* Every smoother of the live scene is aimed at the value last asked of its
\* knob, by the scene's saved settings or by the user since: across swaps,
\* coalesced moves and fan-out to a whole param group.  Only a value the full
\* queue dropped may be missing.
KnobsFollowRequests ==
  \A d \in Device, k \in ParamId :
    \A i \in DOMAIN ParamHandles[current][d][k] :
      LET h == ParamHandles[current][d][k][i]
      IN  h \notin lost => Effective(h) = Asked(d, k)

\* The queues never outgrow the capacity they were allocated with.
QueuesBounded ==
  Cardinality(DOMAIN params) <= PARAM_QUEUE_CAP /\ Len(events) <= EVENT_QUEUE_CAP

\* All of these together are inductive.
IInv ==
  /\ TypeOK
  /\ IsFiniteSet(DOMAIN params)
  /\ ClocksAgree
  /\ NotesFireNextQuantum
  /\ QueuedHandlesAreLive
  /\ KnobsFollowRequests
  /\ QueuesBounded

=============================================================================
