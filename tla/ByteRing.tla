------------------------------ MODULE ByteRing ------------------------------
(***************************************************************************)
(* The bounded byte FIFO between a recorder and its host                   *)
(* (crates/engine/src/byte_ring.rs): a buffer with the index of the oldest *)
(* byte and the number stored, whose transfers are whole or nothing.       *)
(* `Refused` and `Underrun` are where write and read return false.         *)
(***************************************************************************)
EXTENDS Integers, Sequences

EmptyCell == "0u8"

WithCapacity(cap) == [buf |-> [i \in 1..cap |-> EmptyCell], head |-> 0, len |-> 0]

Capacity(r) == Len(r.buf)
Free(r) == Capacity(r) - r.len
Room(r, at, n) == IF Capacity(r) - at < n THEN Capacity(r) - at ELSE n

Refused(r, src) == Len(src) > Free(r)

\* copy_from_slice, as far as the end of the buffer, and on from its beginning.
Copied(r, tail, src) ==
  LET first == Room(r, tail, Len(src))
  IN  [i \in DOMAIN r.buf |->
         IF i \in (tail + 1)..(tail + first) THEN src[i - tail]
         ELSE IF i <= Len(src) - first THEN src[first + i]
         ELSE r.buf[i]]

\* Mutant: the write position without its wrap-around.
WriteUnwrapped(r, src) ==
  IF src = <<>> \/ Refused(r, src) THEN r
  ELSE [r EXCEPT !.buf = Copied(r, IF r.head + r.len < Capacity(r) THEN r.head + r.len ELSE 0, src),
                 !.len = @ + Len(src)]

Write(r, src) ==
  IF src = <<>> \/ Refused(r, src) THEN r
  ELSE [r EXCEPT !.buf = Copied(r, (r.head + r.len) % Capacity(r), src),
                 !.len = @ + Len(src)]

Underrun(r, n) == n > r.len

\* The n oldest bytes, and the ring without them.
Oldest(r, n) ==
  LET first == Room(r, r.head, n)
  IN  SubSeq(r.buf, r.head + 1, r.head + first) \o SubSeq(r.buf, 1, n - first)

Read(r, n) ==
  IF n = 0 \/ Underrun(r, n) THEN r
  ELSE [r EXCEPT !.head = (@ + n) % Capacity(r), !.len = @ - n]

\* drain_ring: all that is stored; nothing is left.
Drained(r) == Oldest(r, r.len)
Drain(r) == Read(r, r.len)
=============================================================================
