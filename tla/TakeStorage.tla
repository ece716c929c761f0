---------------------------- MODULE TakeStorage ----------------------------
(***************************************************************************)
(* The storage worker (web/src/storage-worker.ts) with its TakeStore       *)
(* (take-store.ts) and backend (opfs-backend.ts, or MemoryBackend), for    *)
(* the take file of one track, and the pending requests of its client      *)
(* (storage-client.ts).                                                    *)
(*                                                                         *)
(* The worker's message handler is asynchronous, but only one await lets   *)
(* the next message in: opening the file's sync access handle.  Once the   *)
(* handle is cached, or in memory, a handler runs to its end before the    *)
(* next message.  A sync access handle locks its file: opening a second    *)
(* one throws.                                                             *)
(***************************************************************************)
EXTENDS Integers, Sequences, FiniteSets

CONSTANTS
  Backends,      \* what the browser may offer: "opfs", or MemoryBackend
  Frames,        \* what is recorded, in frames
  MaxLoads       \* bound: the id of a load

ASSUME StorageAssumption == Backends \subseteq {"opfs", "memory"} /\ MaxLoads \in Nat

VARIABLES
  backend,    \* the one the worker has started with
  inbox,      \* the worker's message queue
  waiting,    \* the handlers that wait for the access handle
  cached,     \* OpfsBackend.#handles has it
  file,       \* the take file: what its header says, and its frames
  recorded,   \* TakeStore.#recorded: frames appended in the open take
  nextId, pending, failed   \* the client's requests: made, open, rejected

store == <<backend, waiting, cached, file, recorded>>
client == <<nextId, pending, failed>>
storage == <<inbox, store, client>>

NotRecording == -1
NoHeader == -1

\* Every command but `append` is a request with an id.
Message ==
  [cmd : {"begin", "load"}, id : Nat]
    \cup [cmd : {"append"}, pcm : Seq(Frames)]
    \cup [cmd : {"finish"}, id : Nat, header : Nat]

StorageInit ==
  /\ inbox = <<>> /\ waiting = {}
  /\ backend \in Backends /\ cached = (backend = "memory")
  /\ file = [header |-> NoHeader, pcm |-> <<>>]
  /\ recorded = NotRecording
  /\ nextId = 1 /\ pending = {} /\ failed = {}

-----------------------------------------------------------------------------
(* The client: #request, append. *)

Requests(n) ==
  /\ nextId' = nextId + n
  /\ pending' = pending \cup nextId..(nextId + n - 1)
  /\ failed' = failed

begin(id) == [cmd |-> "begin", id |-> id]
load(id) == [cmd |-> "load", id |-> id]
append(pcm) == [cmd |-> "append", pcm |-> pcm]
finish(id, header) == [cmd |-> "finish", id |-> id, header |-> header]

\* startPlayback, #refreshWaveform.
Load ==
  /\ nextId <= MaxLoads
  /\ inbox' = Append(inbox, load(nextId))
  /\ Requests(1)
  /\ UNCHANGED store

\* The worker's reply settles a request; and a handler that sends none.
NoReply(id) == UNCHANGED client
Resolve(id) ==
  /\ pending' = pending \ {id}
  /\ UNCHANGED <<nextId, failed>>

Reject(id) ==
  /\ pending' = pending \ {id}
  /\ failed' = failed \cup {id}
  /\ UNCHANGED nextId

-----------------------------------------------------------------------------
(* The worker: what a handler does with the file. *)

\* create: truncates a file that is there; and one that only opens it.
OnlyOpened == file.pcm
Truncated == <<>>

beginRecord(m) ==
  /\ m.cmd = "begin"
  /\ file' = [header |-> 0, pcm |-> Truncated]
  /\ recorded' = 0
  /\ Resolve(m.id)

\* `offset` frames were appended before; the same place twice is overwritten.
WriteAt(pcm, offset, bytes) ==
  [i \in 1..(IF offset + Len(bytes) > Len(pcm) THEN offset + Len(bytes) ELSE Len(pcm)) |->
     IF i \in (offset + 1)..(offset + Len(bytes)) THEN bytes[i - offset] ELSE pcm[i]]

\* The offset of the next append; and one that is not moved on.
SameOffset(m) == recorded
NextOffset(m) == recorded + Len(m.pcm)

appendRecord(m) ==
  /\ m.cmd = "append" /\ recorded # NotRecording
  /\ file' = [file EXCEPT !.pcm = WriteAt(file.pcm, recorded, m.pcm)]
  /\ recorded' = NextOffset(m)
  /\ UNCHANGED client

finishRecord(m) ==
  /\ m.cmd = "finish" /\ recorded # NotRecording
  /\ file' = [file EXCEPT !.header = m.header]
  /\ recorded' = NotRecording
  /\ Resolve(m.id)

loadPcm(m) ==
  /\ m.cmd = "load"
  /\ Resolve(m.id)
  /\ UNCHANGED <<file, recorded>>

Perform(m) == beginRecord(m) \/ appendRecord(m) \/ finishRecord(m) \/ loadPcm(m)

\* "not in a take - a stray drain after stop; drop it".
Stray(m) ==
  /\ recorded = NotRecording /\ m.cmd \in {"append", "finish"}
  /\ IF m.cmd = "finish" THEN Resolve(m.id) ELSE UNCHANGED client
  /\ UNCHANGED <<file, recorded>>

\* A message whose handler does not have to wait: a handle, once cached, stays
\* so, and an open take has its own.
Serve ==
  /\ inbox # <<>>
  /\ Stray(Head(inbox)) \/ (cached /\ Perform(Head(inbox)))
  /\ inbox' = Tail(inbox)
  /\ UNCHANGED <<backend, waiting, cached>>

\* #handle: nothing cached, so open it; the worker goes on with its queue.
Suspend ==
  /\ inbox # <<>> /\ ~cached
  /\ Head(inbox).cmd \in {"begin", "load"}
  /\ waiting' = waiting \cup {Head(inbox)}
  /\ inbox' = Tail(inbox)
  /\ UNCHANGED <<backend, cached, file, recorded, client>>

Opened(m) ==
  /\ m \in waiting /\ ~cached
  /\ waiting' = waiting \ {m}
  /\ cached' = TRUE
  /\ Perform(m)
  /\ UNCHANGED <<inbox, backend>>

\* createSyncAccessHandle while another handler has, or is given, the lock.
OpenFails(m) ==
  /\ m \in waiting /\ (cached \/ waiting # {m})
  /\ waiting' = waiting \ {m}
  /\ Reject(m.id)
  /\ UNCHANGED <<inbox, backend, cached, file, recorded>>

Worker == Serve \/ Suspend \/ (\E m \in waiting : Opened(m) \/ OpenFails(m))

=============================================================================
