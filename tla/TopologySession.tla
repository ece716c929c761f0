--------------------------- MODULE TopologySession ---------------------------
(***************************************************************************)
(* The page (web/src/session.svelte.ts), the two FIFO directions of the    *)
(* MessagePort, and the AudioWorklet processor                             *)
(* (web/worklet/processor-impl.js) with the engine inside it.              *)
(*                                                                         *)
(* The page owns the authoritative scene.  A structural edit is applied to *)
(* a detached candidate, sent to be compiled, and replayed on the scene    *)
(* only when its acceptance comes back; meanwhile knobs and tracks keep    *)
(* moving on both sides.  A scene is its cables, one knob and one track    *)
(* setting.  The engine is SceneEngine seen from outside: the live scene,  *)
(* the one waiting for the next quantum, the value its knob is aimed at.   *)
(*                                                                         *)
(* Two branches of the worklet's loadPatch are never taken by this page    *)
(* and are left out.  A request of another protocol version: page and      *)
(* worklet are built with version 1, and a worklet started with another    *)
(* one leaves its constructor before it listens to the port.  And port     *)
(* descriptors that fail after load_patch has succeeded: they fail only on *)
(* a device type or a configuration that load_patch refuses first.         *)
(***************************************************************************)
EXTENDS TopologyHistory

CONSTANTS
  Cable,          \* the cables a user may plug
  Compilable,     \* the sets of cables the Rust compiler accepts
  Level,          \* values of the knob and of the track setting
  DefaultLevel,   \* what the recorder of a fresh scene boots with
  SavedScenes,    \* scenes that "load" may bring back
  NoPatch,
  TimerReadings,  \* Date.now() when the timer fires, since the submission
  MaxQueue        \* bound: messages in a direction

Scene == [cables : SUBSET Cable, knob : Level, track : Level]

ASSUME SceneAssumption ==
  /\ Compilable \subseteq SUBSET Cable /\ {} \in Compilable
  /\ DefaultLevel \in Level
  /\ SavedScenes \subseteq Scene
  /\ TimerReadings \subseteq Nat

Patch == [cables : SUBSET Cable, knob : Level]

ASSUME NoPatchAssumption == NoPatch \notin Patch

VARIABLES
  scene,          \* the page's scene
  paramValues,    \* the page's live knob value
  timerArmed,     \* #topologyDeadline
  toWorklet, toMain,
  live,           \* the cables of the scene being rendered
  pending,        \* the compiled patch waiting for a quantum, or NoPatch
  engineKnob, engineTrack,
  lossesDirty,    \* an install has not been reported yet
  pendingInstall, \* the request that report will name, or NoRequest
  running,        \* the AudioContext calls process()
  workletUp       \* the worklet's thread takes messages and renders

page   == <<scene, paramValues, topology, timerArmed>>
engine == <<live, pending, engineKnob, engineTrack>>
thread == <<running, workletUp>>
report == <<lossesDirty, pendingInstall>>
history == <<requests, applied, abandoned>>
vars == <<page, toWorklet, toMain, engine, report, thread, history>>

-----------------------------------------------------------------------------
(* Structural edits: what the session's callers pass as closures.          *)
PageEdits ==
       [kind : {"connect", "disconnect"}, cable : Cable]
  \cup [kind : {"load"}, scene : SavedScenes]

ASSUME EditsAssumption == Edits = PageEdits

ApplyEdit(edit, s) ==
  CASE edit.kind = "connect"    -> [s EXCEPT !.cables = @ \cup {edit.cable}]
    [] edit.kind = "disconnect" -> [s EXCEPT !.cables = @ \ {edit.cable}]
    [] edit.kind = "load"       -> edit.scene

LoadPatch(request, s) ==
  [type |-> "loadPatch", request |-> request,
   patch |-> [cables |-> s.cables, knob |-> s.knob]]

Init ==
  /\ scene = [cables |-> {}, knob |-> DefaultLevel, track |-> DefaultLevel]
  /\ paramValues = DefaultLevel
  /\ topology = initialTopologyState
  /\ timerArmed = FALSE
  \* onReady has pushed the knob and the track setting
  /\ toWorklet = <<[type |-> "param", value |-> DefaultLevel],
                   [type |-> "track", value |-> DefaultLevel]>>
  /\ toMain = <<>>
  /\ live = {} /\ pending = NoPatch
  /\ engineKnob = DefaultLevel /\ engineTrack = DefaultLevel
  /\ lossesDirty = FALSE /\ pendingInstall = NoRequest
  /\ running = FALSE /\ workletUp = TRUE
  /\ requests = {} /\ applied = <<>> /\ abandoned = {}

-----------------------------------------------------------------------------
(* The page.                                                               *)

CanSend == Len(toWorklet) < MaxQueue

\* proposeTopology, reached by every structural gesture and by retryTopology.
\* A proposal that the reducer refuses changes only the status line.
proposeTopology(edit) ==
  /\ CanSend /\ topology.nextId <= MaxId
  /\ MaySubmit(topology)
  /\ topology' = submit(topology, edit, 0)
  /\ toWorklet' = Append(toWorklet,
                    LoadPatch(NextRequest(topology, edit), ApplyEdit(edit, scene)))
  /\ timerArmed' = TRUE
  /\ requests' = requests \cup {NextRequest(topology, edit)}
  /\ UNCHANGED <<scene, paramValues, toMain, engine, report, thread,
                 applied, abandoned>>

\* recoverTopology: the retained edit, replayed on the scene as it is now.
recoverTopology ==
  LET edit    == topology.outcome.request.proposal
      request == NextRequest(invalidateGeneration(topology), edit)
  IN  /\ topology.outcome.kind = "unknown"
      /\ CanSend /\ topology.nextId <= MaxId
      /\ topology' = recover(topology, 0)
      /\ toWorklet' = Append(toWorklet, LoadPatch(request, ApplyEdit(edit, scene)))
      /\ timerArmed' = TRUE
      /\ requests' = requests \cup {request}
      /\ UNCHANGED <<scene, paramValues, toMain, engine, report, thread,
                     applied, abandoned>>

\* #armTopologyDeadline: a one-shot timeout that re-reads the wall clock.
deadlineTimer(now) ==
  /\ timerArmed
  /\ timerArmed' = FALSE
  /\ topology' = deadlineElapsed(topology, now)
  /\ abandoned' = abandoned \cup GivenUp(topology')
  /\ UNCHANGED <<scene, paramValues, toWorklet, toMain, engine, report, thread,
                 requests, applied>>

\* onParamInput: the live map, the scene and the engine, all three at once.
onParamInput(v) ==
  /\ CanSend /\ v # scene.knob
  /\ paramValues' = v
  /\ scene' = [scene EXCEPT !.knob = v]
  /\ toWorklet' = Append(toWorklet, [type |-> "param", value |-> v])
  /\ UNCHANGED <<topology, timerArmed, toMain, engine, report, thread, history>>

\* setTrackInput, setTrackArmed, setTrackMonitoring, setTrackLevel.
setTrack(v) ==
  /\ CanSend /\ v # scene.track
  /\ scene' = [scene EXCEPT !.track = v]
  /\ toWorklet' = Append(toWorklet, [type |-> "track", value |-> v])
  /\ UNCHANGED <<paramValues, topology, timerArmed, toMain, engine, report,
                 thread, history>>

Resume ==
  /\ ~running /\ running' = TRUE
  /\ UNCHANGED <<page, toWorklet, toMain, engine, report, workletUp, history>>

\* seedParamValues: the live map follows the scene.
seedParamValues(s) == s.knob

\* The reducer's state once an accepted edit is applied; and one that forgets
\* to consume it.
NotConsumed(after) == after
Consumed(after) == IF after.accepted # NoRequest THEN clearAccepted(after) ELSE after

\* #receiveTopology.  On acceptance the edit is replayed on the scene as it
\* is now and the live knob map is seeded again from it.
receiveTopology ==
  /\ toMain # <<>>
  /\ Head(toMain).type \in {"accepted", "rejected"}
  /\ LET reply == Head(toMain)
         after == receive(topology, [kind |-> reply.type,
                                     generation |-> reply.request.generation,
                                     id |-> reply.request.id])
         taken == after.accepted # NoRequest
         next  == ApplyEdit(after.accepted.proposal, scene)
     IN  /\ topology' = Consumed(after)
         /\ scene' = IF taken THEN next ELSE scene
         /\ paramValues' = IF taken THEN seedParamValues(next) ELSE paramValues
         /\ applied' = IF taken THEN Append(applied, after.accepted) ELSE applied
         /\ timerArmed' = (timerArmed /\ after.outcome.kind = "submitting")
         /\ abandoned' = abandoned \cup GivenUp(after)
  /\ toMain' = Tail(toMain)
  /\ UNCHANGED <<toWorklet, engine, report, thread, requests>>

\* applyTrackState: resend the page's track setting; and one that does not.
TracksNotResent == toWorklet
applyTrackState == Append(toWorklet, [type |-> "track", value |-> scene.track])

\* onLosses, onTopologyInstalled.
receiveInstalled ==
  /\ toMain # <<>>
  /\ Head(toMain).type \in {"losses", "topologyInstalled"}
  /\ CanSend
  /\ toWorklet' = applyTrackState
  /\ toMain' = Tail(toMain)
  /\ UNCHANGED <<page, engine, report, thread, history>>

-----------------------------------------------------------------------------
(* The worklet.                                                            *)

\* load_patch throws on a patch that does not compile.
Compiles(patch) == patch.cables \in Compilable

onmessage_loadPatch ==
  /\ workletUp
  /\ toWorklet # <<>> /\ Head(toWorklet).type = "loadPatch"
  /\ Len(toMain) < MaxQueue
  /\ LET m == Head(toWorklet)
     IN  IF Compiles(m.patch)
         THEN /\ pending' = m.patch
              /\ lossesDirty' = TRUE
              /\ pendingInstall' = m.request
              /\ toMain' = Append(toMain, [type |-> "accepted", request |-> m.request])
         ELSE /\ toMain' = Append(toMain, [type |-> "rejected", request |-> m.request])
              /\ UNCHANGED <<pending, report>>
  /\ toWorklet' = Tail(toWorklet)
  /\ UNCHANGED <<page, live, engineKnob, engineTrack, thread, history>>

\* set_param and the recorder's setters act on the live scene.
onmessage_control ==
  /\ workletUp
  /\ toWorklet # <<>> /\ Head(toWorklet).type \in {"param", "track"}
  /\ LET m == Head(toWorklet)
     IN  /\ engineKnob'  = IF m.type = "param" THEN m.value ELSE engineKnob
         /\ engineTrack' = IF m.type = "track" THEN m.value ELSE engineTrack
  /\ toWorklet' = Tail(toWorklet)
  /\ UNCHANGED <<page, toMain, live, pending, report, thread, history>>

\* The cables of the next quantum; and a quantum that drops the pending patch.
NeverInstalled == live
Installed == IF pending = NoPatch THEN live ELSE pending.cables

\* process: render_quantum installs what is pending (and forgets the knob
\* moves of the outgoing scene), then the install is reported once.
process ==
  /\ running /\ workletUp /\ Len(toMain) < MaxQueue - 1
  /\ IF pending = NoPatch
     THEN UNCHANGED <<engineKnob, engineTrack>>
     ELSE /\ engineKnob' = pending.knob
          /\ engineTrack' = DefaultLevel
  /\ live' = Installed
  /\ pending' = NoPatch
  /\ toMain' = IF ~lossesDirty THEN toMain
               ELSE toMain \o <<[type |-> "losses"],
                                [type |-> "topologyInstalled", request |-> pendingInstall]>>
  /\ lossesDirty' = FALSE
  /\ pendingInstall' = IF lossesDirty THEN NoRequest ELSE pendingInstall
  /\ UNCHANGED <<page, toWorklet, thread, history>>

\* The audio thread stops answering: a crash, or a compile that never ends.
Hang ==
  /\ workletUp /\ workletUp' = FALSE
  /\ UNCHANGED <<page, toWorklet, toMain, engine, report, running, history>>

Next ==
  \/ \E e \in Edits : proposeTopology(e)
  \/ recoverTopology
  \/ \E now \in TimerReadings : deadlineTimer(now)
  \/ \E v \in Level : onParamInput(v)
  \/ \E v \in Level : setTrack(v)
  \/ Resume
  \/ receiveTopology
  \/ receiveInstalled
  \/ onmessage_loadPatch
  \/ onmessage_control
  \/ process
  \/ Hang

Spec == Init /\ [][Next]_vars

\* Both event loops take the next message, the browser fires an armed timer
\* and, once the context runs, asks for quanta.  Users owe nothing.
Fairness ==
  /\ WF_vars(receiveTopology) /\ WF_vars(receiveInstalled)
  /\ WF_vars(onmessage_loadPatch) /\ WF_vars(onmessage_control)
  /\ WF_vars(process)
  /\ WF_vars(\E now \in TimerReadings : deadlineTimer(now))

FairSpec == Spec /\ Fairness

-----------------------------------------------------------------------------
EngineCables == IF pending = NoPatch THEN live ELSE pending.cables

\* Whenever no request is open, the engine renders, or will from the next
\* quantum, exactly the cables the page shows: after acceptances, rejections,
\* time-outs with a late acceptance, and recoveries.  In particular a
\* "rejected" outcome really means that the old patch is the one running.
EngineHasTheScene ==
  topology.outcome.kind \in {"idle", "rejected"} => EngineCables = scene.cables

NothingInFlight ==
  /\ toWorklet = <<>> /\ toMain = <<>>
  /\ pending = NoPatch /\ ~lossesDirty

\* Once everything sent has arrived, the recorder has the page's track
\* setting, whatever swaps reset it in between.
TracksSurviveSwaps == NothingInFlight => engineTrack = scene.track

\* The page's scene and the engine's knob "mustn't drift apart"
\* (session.svelte.ts:321-322).  They do: a knob moved while a structural edit
\* is open goes to the outgoing scene of the engine, the new one starts from the
\* snapshot the edit was sent with, and only the tracks are sent again.
KnobsSurviveSwaps ==
  NothingInFlight /\ topology.outcome.kind = "idle" => engineKnob = scene.knob

\* Every request is answered or given up at its deadline: the page does not
\* stay "submitting", where it refuses every later edit.  It holds if the wall
\* clock has reached the deadline when the timer fires.  Where it reads less,
\* the one-shot timer is spent and not armed again, and a missing reply is not
\* given up, against story-10.2-acknowledged-topology-transactions.md:124.
RequestsEnd ==
  topology.outcome.kind = "submitting" ~> topology.outcome.kind # "submitting"

\* Once the context runs, an accepted edit is heard, unless the worklet dies.
AcceptedEditsAreHeard ==
  running /\ topology.outcome.kind = "idle"
    ~> (live = scene.cables \/ topology.outcome.kind # "idle" \/ ~workletUp)

\* The page is one of the environments the transaction protocol allows: its
\* steps are submissions, deliveries of replies, time-outs and recoveries.
Transaction ==
  INSTANCE TopologyTransaction WITH
    Edits <- PageEdits,
    topology <- topology,
    requests <- requests,
    applied <- applied,
    abandoned <- abandoned

TransactionProtocol == Transaction!Spec
-----------------------------------------------------------------------------
(* What makes them inductive.  All the patches in flight while a request   *)
(* is open come from one edit, replayed after each time-out on a scene     *)
(* whose cables nothing else may change: they agree on their cables.  The  *)
(* port is first in, first out, so the reply to the open request is the    *)
(* last one: whatever it says holds of the engine when the page reads it.  *)

ControlMessage == [type : {"param", "track"}, value : Level]
LoadMessage == [type : {"loadPatch"}, request : Request, patch : Patch]
Reply == [type : {"accepted", "rejected"}, request : Request]
Report ==      [type : {"losses"}]
          \cup [type : {"topologyInstalled"}, request : Request \cup {NoRequest}]

ToWorklet == ControlMessage \cup LoadMessage
ToMain    == Reply \cup Report

IsLoad(m)   == m.type = "loadPatch"
IsTrack(m)  == m.type = "track"
IsReply(m)  == m.type \in {"accepted", "rejected"}
IsReport(m) == m.type \in {"losses", "topologyInstalled"}

PortTypeOK ==
  /\ scene \in Scene
  /\ toWorklet \in Seq(ToWorklet)
  /\ toMain \in Seq(ToMain)
  /\ live \subseteq Cable
  /\ pending \in Patch \cup {NoPatch}
  /\ engineKnob \in Level /\ engineTrack \in Level
  /\ lossesDirty \in BOOLEAN
  /\ pendingInstall \in Request \cup {NoRequest}
  /\ \A i \in 1..Len(toWorklet) : IsLoad(toWorklet[i]) => toWorklet[i].request \in requests
  /\ \A i \in 1..Len(toMain) : IsReply(toMain[i]) => toMain[i].request \in requests

\* The timer never finds an open request with another deadline than its own.
DeadlineIsTheTimers ==
  topology.outcome.kind = "submitting"
    => topology.outcome.deadlineMs = TRANSACTION_DEADLINE_MS

RequestOpen == topology.outcome.kind \in {"submitting", "unknown"}
OpenRequest == topology.outcome.request
TargetCables == ApplyEdit(OpenRequest.proposal, scene).cables

ClosedIsQuiet ==
  ~RequestOpen =>
    /\ \A i \in 1..Len(toWorklet) : ~IsLoad(toWorklet[i])
    /\ \A i \in 1..Len(toMain) : ~IsReply(toMain[i])
    /\ EngineCables = scene.cables

OpenHeadsForItsTarget ==
  RequestOpen =>
    /\ \A i \in 1..Len(toWorklet) :
         IsLoad(toWorklet[i]) => toWorklet[i].patch.cables = TargetCables
    /\ \A i \in 1..Len(toMain) :
         /\ toMain[i].type = "accepted" => EngineCables = TargetCables
         /\ toMain[i].type = "rejected" => TargetCables \notin Compilable
    /\ \/ EngineCables = scene.cables
       \/ EngineCables = TargetCables /\ TargetCables \in Compilable

OpenIsTheLastSent ==
  RequestOpen =>
    /\ \A i \in 1..Len(toWorklet) :
         IsLoad(toWorklet[i]) /\ toWorklet[i].request = OpenRequest =>
           \A j \in i+1..Len(toWorklet) : ~IsLoad(toWorklet[j])
    /\ \A i \in 1..Len(toMain) :
         IsReply(toMain[i]) /\ toMain[i].request = OpenRequest =>
           /\ \A j \in i+1..Len(toMain) : ~IsReply(toMain[j])
           /\ \A j \in 1..Len(toWorklet) : ~IsLoad(toWorklet[j])

EngineInv ==
  /\ PortTypeOK
  /\ DeadlineIsTheTimers
  /\ ClosedIsQuiet
  /\ OpenHeadsForItsTarget
  /\ OpenIsTheLastSent

\* A swap resets the engine's track, and a loaded scene moves the page's: in
\* both cases a report that makes the page send it again is still to come.
ReportToCome(i) == lossesDirty \/ \E j \in i..Len(toMain) : IsReport(toMain[j])

LastTrackIs(v) ==
  \/ engineTrack = v /\ \A i \in 1..Len(toWorklet) : ~IsTrack(toWorklet[i])
  \/ \E i \in 1..Len(toWorklet) :
       /\ IsTrack(toWorklet[i]) /\ toWorklet[i].value = v
       /\ \A j \in i+1..Len(toWorklet) : ~IsTrack(toWorklet[j])

TracksInv ==
  /\ pending # NoPatch => lossesDirty
  /\ \A i \in 1..Len(toMain) : toMain[i].type = "accepted" => ReportToCome(i + 1)
  /\ ReportToCome(1) \/ LastTrackIs(scene.track)
=============================================================================
