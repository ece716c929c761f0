---------------------------- MODULE PlaybackFeed ----------------------------
(***************************************************************************)
(* Playing takes: DawController on the page (web/src/daw.ts) keeps the     *)
(* playback rings of a MultitrackRecorder (crates/engine/src/node/         *)
(* multitrack.rs) topped up, from playhead reports that reach it late,     *)
(* with messages that reach the worklet late, once the storage worker has  *)
(* loaded the takes.                                                       *)
(*                                                                         *)
(* The unit is the block a quantum plays, 512 bytes of each track.  In it  *)
(* FEED_CHUNK_BYTES is 8, FEED_HIGHWATER_BYTES 32, STREAM_RING_BYTES 64    *)
(* and READOUT_REPORT_EVERY 8 quanta.  A take is a whole number of blocks, *)
(* as it was recorded in blocks.                                           *)
(***************************************************************************)
EXTENDS Integers, Sequences, SequencesExt

CONSTANTS
  Take,          \* Take[t]: the length of the take of track t, 0 if it has none
  Chunk, Highwater, RingBlocks, ReportEvery,
  Seeks,         \* where the user seeks to
  MaxPlays,      \* bound: play gestures
  MaxStops,      \* bound: stop and seek gestures
  MaxReports, MaxPosted, \* how many messages each side is behind when the
                 \* next report is due
  MaxPlayhead,   \* bound: blocks played
  MaxSilence     \* how long a track that plays may be starved, in all

ASSUME PlaybackAssumption ==
  /\ Take \in Seq(Nat) \ {<<>>} /\ Seeks \subseteq Nat
  /\ {Chunk, Highwater, RingBlocks, ReportEvery} \subseteq Nat \ {0}
  /\ {MaxPlays, MaxStops, MaxReports, MaxPosted, MaxPlayhead, MaxSilence} \subseteq Nat

\* The loads, the page and the port are no later in all than the ring has room
\* for, beyond the high-water mark and what a last chunk is fed above it.
ASSUME SlackAssumption == MaxSilence + Highwater + Chunk - 1 <= RingBlocks

\* A chunk lasts from one report to the next, and the high-water mark twice that.
ASSUME PaceAssumption == ReportEvery <= Chunk /\ 2 * ReportEvery <= Highwater

Tracks == DOMAIN Take

VARIABLES
  rolling, playhead, ring,      \* the recorder; ring[t]: blocks of the take
  quanta,                       \* quanta rendered, up to the report period
  toWorklet, toPage,            \* the two directions of the worklet's port
  reported,                     \* the page's transports: the last report
  plays, stops,                 \* gestures made
  loading,                      \* the runs of startPlayback that await a load
  playing, fed, playStart,      \* DawController.#playing (cursor = fed)
  last,                         \* (history) the last block heard since play
  silence,                      \* (history) quanta a track was starved since
  prompt,                       \* (history) each report was answered, and the
                                \* answer received, before the next one was due
  fresh                         \* (history) the last play began at a standstill,
                                \* and nothing was sought but the start since

recorder == <<rolling, playhead, ring>>
port == <<toWorklet, toPage>>
streams == <<playing, fed, playStart>>
page == <<reported, plays, stops, loading, streams>>
heard == <<last, silence, prompt>>
history == <<heard, fresh>>
vars == <<recorder, quanta, port, page, history>>

Zero == [t \in Tracks |-> 0]

Init ==
  /\ rolling = FALSE /\ playhead = 0 /\ ring = [t \in Tracks |-> <<>>]
  /\ quanta = 0 /\ toWorklet = <<>> /\ toPage = <<>>
  /\ reported = 0 /\ plays = 0 /\ stops = 0 /\ loading = <<>>
  /\ playing = {} /\ fed = Zero /\ playStart = Zero
  /\ last = Zero /\ silence = Zero /\ prompt = TRUE /\ fresh = TRUE

-----------------------------------------------------------------------------
(* Gestures. *)

PlayMessage == [type |-> "play"]
StopMessage == [type |-> "stop"]
SeekTo(pos) == [type |-> "seek", pos |-> pos]
Feed(t, from, to) == [type |-> "feedPlayback", track |-> t, from |-> from, to |-> to]

Gesture == UNCHANGED <<recorder, quanta, toPage, reported>>

\* Nothing moves, nothing is under way and every ring is empty, at the start:
\* where a play begins that nothing of an earlier one can reach.
Standstill ==
  /\ ~ rolling /\ playhead = 0 /\ reported = 0 /\ ring = [t \in Tracks |-> <<>>]
  /\ loading = <<>> /\ playing = {}
  /\ toWorklet \in Seq({StopMessage, SeekTo(0)}) /\ toPage \in Seq({0})

\* What is remembered of an earlier play is forgotten.
Anew == fed' = Zero /\ last' = Zero /\ silence' = Zero /\ prompt' = TRUE

\* play: the worklet is told to roll at once; the takes are loaded from there.
Play ==
  /\ plays < MaxPlays
  /\ plays' = plays + 1
  /\ toWorklet' = Append(toWorklet, PlayMessage)
  /\ loading' = Append(loading, [track |-> 1, playhead |-> reported])
  /\ fresh' = Standstill
  /\ IF Standstill THEN Anew ELSE UNCHANGED <<fed, heard>>
  /\ Gesture /\ UNCHANGED <<stops, playing, playStart>>

stopPlayback ==
  /\ stops < MaxStops /\ stops' = stops + 1
  /\ playing' = {}
  /\ UNCHANGED <<fed, playStart, plays, loading>>

Stop ==
  /\ toWorklet' = toWorklet \o <<StopMessage, SeekTo(0)>>
  /\ stopPlayback
  /\ Gesture /\ UNCHANGED history

Seek(pos) ==
  /\ toWorklet' = Append(toWorklet, SeekTo(pos))
  /\ stopPlayback
  /\ fresh' = (fresh /\ pos = 0)
  /\ Gesture /\ UNCHANGED heard

-----------------------------------------------------------------------------
(* startPlayback: one load after the other. *)

\* The run goes on with its next track, or ends.
NextTrack(run) ==
  LET next == loading[run].track + 1
  IN  IF next \in Tracks THEN [loading EXCEPT ![run].track = next] ELSE RemoveAt(loading, run)

\* A stream starts with nothing fed, at the playhead of the gesture.

Loaded(run) ==
  LET t == loading[run].track
  IN  /\ IF Take[t] = 0
         THEN UNCHANGED streams
         ELSE /\ playing' = playing \cup {t}
              /\ fed' = [fed EXCEPT ![t] = 0]
              /\ playStart' = [playStart EXCEPT ![t] = loading[run].playhead]
      /\ loading' = NextTrack(run)
      /\ UNCHANGED <<recorder, quanta, port, reported, plays, stops, history>>

\* A rejected load ends its run.
LoadFails(run) ==
  /\ loading' = RemoveAt(loading, run)
  /\ UNCHANGED <<recorder, quanta, port, reported, plays, stops, streams, history>>

-----------------------------------------------------------------------------
(* pump, on a report of the playhead. *)

Least(a, b) == IF a < b THEN a ELSE b
AtLeastZero(n) == IF n < 0 THEN 0 ELSE n

\* What is fed and not consumed; and what is fed.
consumed(t, p) == AtLeastZero(p - playStart[t])
FedAtAll(t, p) == fed[t]
Ahead(t, p) == fed[t] - consumed(t, p)

\* planPlaybackFeed: chunk after chunk while less than Highwater is ahead.
ChunksWanted(ahead) == (AtLeastZero(Highwater - ahead) + Chunk - 1) \div Chunk
planPlaybackFeed(t, p) == Least(Take[t], fed[t] + Chunk * ChunksWanted(Ahead(t, p)))

\* The last chunk of a take may be short; and is left out.
WholeChunks(t, from, to) ==
  [i \in 1..((to - from) \div Chunk) |-> Feed(t, from + (i - 1) * Chunk, from + i * Chunk)]
Chunks(t, from, to) ==
  [i \in 1..((to - from + Chunk - 1) \div Chunk) |->
     Feed(t, from + (i - 1) * Chunk, Least(from + i * Chunk, to))]

pump(p) ==
  /\ fed' = [t \in Tracks |-> IF t \in playing THEN planPlaybackFeed(t, p) ELSE fed[t]]
  /\ toWorklet' = toWorklet \o FlattenSeq([t \in Tracks |-> Chunks(t, fed[t], fed'[t])])
  /\ playing' = {t \in playing : fed'[t] < Take[t]}
  /\ UNCHANGED playStart

ReportArrives ==
  /\ toPage # <<>>
  /\ pump(Head(toPage))
  /\ reported' = Head(toPage)
  /\ toPage' = Tail(toPage)
  /\ UNCHANGED <<recorder, quanta, plays, stops, loading, history>>

-----------------------------------------------------------------------------
(* The worklet: messages, between quanta. *)

Blocks(m) == [i \in 1..(m.to - m.from) |-> m.from + i]

\* ByteRing::write: whole, or not at all; and one that clears the ring first.
Refill(r, blocks) == blocks
Write(r, blocks) == IF Len(r) + Len(blocks) <= RingBlocks THEN r \o blocks ELSE r

Roll(m) ==
  /\ m.type \in {"play", "stop"}
  /\ rolling' = (m.type = "play")
  /\ IF m.type = "play" /\ ~rolling
     THEN last' = Zero /\ silence' = Zero
     ELSE UNCHANGED <<last, silence>>
  /\ UNCHANGED <<playhead, ring, prompt, fresh>>

Jump(m) ==
  /\ m.type = "seek"
  /\ playhead' = m.pos
  /\ UNCHANGED <<rolling, ring, history>>

feed_playback(m) ==
  /\ m.type = "feedPlayback"
  /\ ring' = [ring EXCEPT ![m.track] = Write(@, Blocks(m))]
  /\ UNCHANGED <<rolling, playhead, history>>

MessageArrives ==
  /\ toWorklet # <<>>
  /\ Roll(Head(toWorklet)) \/ Jump(Head(toWorklet)) \/ feed_playback(Head(toWorklet))
  /\ toWorklet' = Tail(toWorklet)
  /\ UNCHANGED <<quanta, toPage, page>>

-----------------------------------------------------------------------------
(* The worklet: a quantum. *)

\* The page still owes blocks to the track: a load, chunks, or messages.
Owed(t) ==
  \/ t \in playing
  \/ \E run \in DOMAIN loading : loading[run].track <= t /\ Take[t] > 0
  \/ \E i \in DOMAIN toWorklet : toWorklet[i].type = "feedPlayback" /\ toWorklet[i].track = t

Starved(t) == rolling /\ ring[t] = <<>> /\ Owed(t)

\* process: an empty ring plays silence, and the playhead goes on.
Process ==
  /\ ring' = [t \in Tracks |-> IF rolling /\ ring[t] # <<>> THEN Tail(ring[t]) ELSE ring[t]]
  /\ last' = [t \in Tracks |-> IF rolling /\ ring[t] # <<>> THEN Head(ring[t]) ELSE last[t]]
  /\ silence' = [t \in Tracks |-> silence[t] + IF Starved(t) THEN 1 ELSE 0]
  /\ playhead' = playhead + IF rolling THEN 1 ELSE 0
  /\ UNCHANGED rolling

\* The environment.  What the loads, the page and the port are late in all, as
\* a track hears it, and what they are late at a time.
OnTime == \A t \in Tracks : Starved(t) => silence[t] < MaxSilence
Behind == Len(toPage) >= MaxReports \/ Len(toWorklet) > MaxPosted

Quantum ==
  /\ OnTime /\ (rolling => playhead < MaxPlayhead)
  /\ Process
  /\ quanta' = (quanta + 1) % ReportEvery
  /\ IF quanta' = 0
     THEN /\ ~Behind
          /\ toPage' = Append(toPage, playhead')
          /\ prompt' = (prompt /\ toPage = <<>> /\ toWorklet = <<>>)
     ELSE UNCHANGED <<toPage, prompt>>
  /\ UNCHANGED <<toWorklet, page, fresh>>

Next ==
  \/ Play \/ Stop \/ (\E pos \in Seeks : Seek(pos))
  \/ \E run \in DOMAIN loading : Loaded(run) \/ LoadFails(run)
  \/ ReportArrives \/ MessageArrives \/ Quantum

Spec == Init /\ [][Next]_vars

-----------------------------------------------------------------------------
\* Of a play that began at a standstill each track is heard from the top of its
\* take, block by block, with nothing skipped and nothing twice.
PlaysFromTheTop ==
  [][fresh' /\ plays' = plays => \A t \in Tracks : last'[t] \in {last[t], last[t] + 1}]_vars

\* What the page has fed since is what was heard, what is in the ring and what is
\* on its way.
OnItsWay(t) ==
  {k \in 1..Take[t] :
     \E i \in DOMAIN toWorklet :
        /\ toWorklet[i].type = "feedPlayback" /\ toWorklet[i].track = t
        /\ toWorklet[i].from < k /\ k <= toWorklet[i].to}
NothingIsLost ==
  fresh => \A t \in Tracks : 1..fed[t] = 1..last[t] \cup Range(ring[t]) \cup OnItsWay(t)

\* And as long as the page answers every report before the next one is due, a
\* track that is heard is heard without a gap to the end of its take.
NeverUnderruns ==
  [][fresh' /\ plays' = plays /\ prompt =>
       \A t \in Tracks : 0 < last[t] /\ last[t] < Take[t] => silence'[t] = silence[t]]_vars

\* The tracks play "on the one playhead" (docs/EPIC_5_NOTES.md:882-883): those
\* that are in the middle of their takes are at the same block.  It is violated: a
\* track starts when its first chunk is there, and one whose load or message is a
\* quantum later stays behind.
TracksPlayInStep ==
  \A t, u \in Tracks :
    0 < last[t] /\ last[t] < Take[t] /\ 0 < last[u] /\ last[u] < Take[u] => last[t] = last[u]

\* "Playback plays every track's take from the top" (take-store.ts:14): what a
\* track is first heard to play is the first block of its take.  It is violated:
\* stopping drops the streams (daw.ts:119-123), but a ring is only read while the
\* transport rolls, so the next play begins with what the last one left in it.
StartsFromTheTop ==
  \A t \in Tracks : rolling /\ last[t] = 0 /\ ring[t] # <<>> => Head(ring[t]) = 1
=============================================================================
