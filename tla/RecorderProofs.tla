--------------------------- MODULE RecorderProofs ---------------------------
(***************************************************************************)
(* Proofs about the recorder: its byte rings, of any capacity, and what is *)
(* heard and recorded through them, for any number of tracks, sends, blocks *)
(* and gestures and frames of any number of bytes.                         *)
(***************************************************************************)
EXTENDS Recorder, SequenceTheorems, TLAPS

(* Arithmetic. *)

LEMMA ModBelow ==
  ASSUME NEW c \in Nat \ {0}, NEW x \in Nat, x < c
  PROVE  x % c = x
  OBVIOUS

LEMMA ModWraps ==
  ASSUME NEW c \in Nat \ {0}, NEW x \in Nat, c <= x, x < c + c
  PROVE  x % c = x - c
  OBVIOUS

LEMMA DivMod ==
  ASSUME NEW c \in Nat \ {0}, NEW q \in Nat, NEW r \in 0..(c - 1)
  PROVE  (q * c + r) \div c = q /\ (q * c + r) % c = r
  OBVIOUS

LEMMA Monotone ==
  ASSUME NEW a \in Nat, NEW b \in Nat, NEW c \in Nat, a <= b
  PROVE  a * c <= b * c
  OBVIOUS

LEMMA Cancels ==
  ASSUME NEW a \in Nat, NEW b \in Nat, NEW c \in Nat \ {0}, a * c <= b * c
  PROVE  a <= b
  OBVIOUS

LEMMA DivBelow ==
  ASSUME NEW a \in Nat, NEW c \in Nat \ {0}
  PROVE  a \div c \in Nat /\ (a \div c) * c <= a
  OBVIOUS

LEMMA Fits ==
  ASSUME NEW a \in Nat, NEW b \in Nat, NEW c \in Nat \ {0}, a * c <= b
  PROVE  a <= b \div c
  OBVIOUS

-----------------------------------------------------------------------------
(* Stretches of a sequence.                                                *)

\* n items behind the p-th.
Stretch(s, p, n) == SubSeq(s, p + 1, p + n)

LEMMA StretchOf ==
  ASSUME NEW S, NEW s \in Seq(S), NEW p \in Nat, NEW n \in Nat, p + n <= Len(s)
  PROVE  /\ Stretch(s, p, n) \in Seq(S) /\ Len(Stretch(s, p, n)) = n
         /\ \A j \in 1..n : Stretch(s, p, n)[j] = s[p + j]
<1>1. \A i \in (p + 1)..(p + n) : s[i] \in S
  BY ElementOfSeq
<1>2. /\ SubSeq(s, p + 1, p + n) \in Seq(S)
      /\ Len(SubSeq(s, p + 1, p + n)) = IF p + 1 <= p + n THEN (p + n) - (p + 1) + 1 ELSE 0
      /\ \A i \in 1..((p + n) - (p + 1) + 1) :
           SubSeq(s, p + 1, p + n)[i] = s[(p + 1) + i - 1]
  BY <1>1, SubSeqProperties
<1> QED
  BY <1>2 DEF Stretch

LEMMA BeginningOf ==
  ASSUME NEW S, NEW s \in Seq(S), NEW n \in Nat, n <= Len(s)
  PROVE  /\ Stretch(s, 0, n) \in Seq(S) /\ Len(Stretch(s, 0, n)) = n
         /\ \A j \in 1..n : Stretch(s, 0, n)[j] = s[j]
<1>1. /\ Stretch(s, 0, n) \in Seq(S) /\ Len(Stretch(s, 0, n)) = n
      /\ \A j \in 1..n : Stretch(s, 0, n)[j] = s[0 + j]
  BY StretchOf
<1>2. \A j \in 1..n : 0 + j = j
  OBVIOUS
<1> QED
  BY <1>1, <1>2

\* The j-th place behind `head` in a circle of c.
Around(head, j, c) == IF head + j <= c THEN head + j ELSE head + j - c

\* An item of a concatenation.
LEMMA ConcatOf ==
  ASSUME NEW S, NEW a \in Seq(S), NEW b \in Seq(S)
  PROVE  /\ a \o b \in Seq(S) /\ Len(a \o b) = Len(a) + Len(b)
         /\ \A j \in 1..Len(a) : (a \o b)[j] = a[j]
         /\ \A j \in 1..Len(b) : (a \o b)[Len(a) + j] = b[j]
  BY ConcatProperties

\* A sequence that continues another.
LEMMA ConcatIs ==
  ASSUME NEW S, NEW a \in Seq(S), NEW b \in Seq(S), NEW w \in Seq(S),
         Len(w) = Len(a) + Len(b), \A j \in 1..Len(a) : w[j] = a[j],
         \A j \in 1..Len(b) : w[Len(a) + j] = b[j]
  PROVE  w = a \o b
<1>1. PICK v \in Seq(S) : v = a \o b
  BY ConcatOf
<1>2. /\ Len(v) = Len(a) + Len(b) /\ \A j \in 1..Len(a) : v[j] = a[j]
      /\ \A j \in 1..Len(b) : v[Len(a) + j] = b[j]
  BY <1>1, ConcatOf
<1>3. ASSUME NEW j \in 1..Len(w) PROVE w[j] = v[j]
  <2>1. CASE j <= Len(a)
    BY <2>1, <1>2
  <2>2. CASE Len(a) < j
    <3>1. j - Len(a) \in 1..Len(b) /\ Len(a) + (j - Len(a)) = j
      BY <2>2
    <3>2. w[Len(a) + (j - Len(a))] = v[Len(a) + (j - Len(a))]
      BY <3>1, <1>2
    <3> QED
      BY <3>1, <3>2
  <2> QED
    BY <2>1, <2>2
<1> QED
  BY <1>1, <1>2, <1>3, SeqEqual

\* n items of a sequence from behind `head`, and on from the beginning.
Round(s, head, first, n) == Stretch(s, head, first) \o Stretch(s, 0, n - first)

LEMMA Wrapped ==
  ASSUME NEW S, NEW s \in Seq(S), NEW head \in Nat, NEW n \in Nat, NEW first \in Nat,
         n <= Len(s), head < Len(s), first <= n, head + first <= Len(s),
         first = n \/ head + first = Len(s)
  PROVE  /\ Round(s, head, first, n) \in Seq(S) /\ Len(Round(s, head, first, n)) = n
         /\ \A j \in 1..n : Round(s, head, first, n)[j] = s[Around(head, j, Len(s))]
<1> DEFINE a == Stretch(s, head, first)
           b == Stretch(s, 0, n - first)
<1>0. Round(s, head, first, n) = a \o b
  BY DEF Round
<1>1. Len(s) \in Nat /\ n - first \in Nat /\ n - first <= Len(s)
  OBVIOUS
<1>2. a \in Seq(S) /\ Len(a) = first /\ \A j \in 1..first : a[j] = s[head + j]
  BY ONLY s \in Seq(S), head \in Nat, first \in Nat, head + first <= Len(s), StretchOf, ZenonT(60)
<1>3. b \in Seq(S) /\ Len(b) = n - first /\ \A j \in 1..(n - first) : b[j] = s[j]
  BY <1>1, BeginningOf
<1> HIDE DEF a, b
<1>4. /\ a \o b \in Seq(S) /\ Len(a \o b) = n
      /\ \A j \in 1..first : (a \o b)[j] = a[j]
      /\ \A j \in 1..(n - first) : (a \o b)[first + j] = b[j]
  <2>1. /\ a \o b \in Seq(S) /\ Len(a \o b) = Len(a) + Len(b)
        /\ \A j \in 1..Len(a) : (a \o b)[j] = a[j]
        /\ \A j \in 1..Len(b) : (a \o b)[Len(a) + j] = b[j]
    <3>1. a \in Seq(S) /\ b \in Seq(S)
      BY <1>2, <1>3
    <3> QED
      BY <3>1, ConcatOf
  <2>2. Len(a) + Len(b) = n
    BY ONLY <1>1, <1>2, <1>3, n \in Nat, first \in Nat
  <2> QED
    BY ONLY <2>1, <2>2, <1>2, <1>3
<1>5. ASSUME NEW j \in 1..n, j <= first PROVE (a \o b)[j] = s[Around(head, j, Len(s))]
  <2>0. j \in 1..first
    BY ONLY <1>5, n \in Nat, first \in Nat
  <2>1. (a \o b)[j] = s[head + j]
    BY ONLY <2>0, <1>2, <1>4
  <2> QED
    BY <2>1, <1>0, <1>1, <1>5 DEF Around
<1>6. ASSUME NEW j \in 1..n, first < j PROVE (a \o b)[j] = s[Around(head, j, Len(s))]
  <2>1. j - first \in 1..(n - first) /\ first + (j - first) = j
    BY <1>6
  <2>2. (a \o b)[j] = s[j - first]
    BY <2>1, <1>3, <1>4
  <2>3. head + first = Len(s)
    BY <1>0, <1>6
  <2> QED
    BY <2>2, <2>3, <1>1, <1>6 DEF Around
<1>7. \A j \in 1..n : j <= first \/ first < j
  OBVIOUS
<1> QED
  BY <1>0, <1>4, <1>5, <1>6, <1>7

-----------------------------------------------------------------------------
(* A ring.                                                                 *)

RingOf(S, r) ==
  /\ r \in [buf : Seq(S), head : Nat, len : Nat]
  /\ Len(r.buf) # 0
  /\ r.head < Len(r.buf) /\ r.len <= Len(r.buf)

\* The j-th oldest byte.
Stored(r, j) == r.buf[Around(r.head, j, Len(r.buf))]

\* The oldest bytes are read in their order, through the end of the buffer.
LEMMA OldestBytes ==
  ASSUME NEW S, NEW r, RingOf(S, r), NEW n \in Nat, n <= Len(r.buf)
  PROVE  /\ Oldest(r, n) \in Seq(S) /\ Len(Oldest(r, n)) = n
         /\ \A j \in 1..n : Oldest(r, n)[j] = Stored(r, j)
<1>1. PICK buf \in Seq(S), head \in Nat : buf = r.buf /\ head = r.head
  BY DEF RingOf
<1>2. PICK first \in Nat : first = Room(r, r.head, n)
  BY <1>1 DEF Room, Capacity, RingOf
<1>3. /\ n <= Len(buf) /\ head < Len(buf) /\ first <= n /\ head + first <= Len(buf)
      /\ first = n \/ head + first = Len(buf)
  BY <1>1, <1>2 DEF Room, Capacity, RingOf
<1>4. /\ Round(buf, head, first, n) \in Seq(S) /\ Len(Round(buf, head, first, n)) = n
      /\ \A j \in 1..n : Round(buf, head, first, n)[j] = buf[Around(head, j, Len(buf))]
  BY <1>3, Wrapped
<1>5. Oldest(r, n) = Round(buf, head, first, n)
  <2>1. 0 + 1 = 1 /\ 0 + (n - first) = n - first
    OBVIOUS
  <2>2. Stretch(buf, 0, n - first) = SubSeq(buf, 1, n - first)
    BY <2>1, Zenon DEF Stretch
  <2> QED
    BY <1>1, <1>2, <2>2 DEF Oldest, Round, Stretch
<1> QED
  BY <1>1, <1>4, <1>5 DEF Stored

\* Where a ring continues, for a head and a number of bytes stored.
Behind(head, len, c) == (head + len) % c

LEMMA BehindIs ==
  ASSUME NEW c \in Nat \ {0}, NEW head \in Nat, NEW len \in Nat, head < c, len <= c
  PROVE  /\ Behind(head, len, c) = IF head + len < c THEN head + len ELSE head + len - c
         /\ Behind(head, len, c) \in Nat /\ Behind(head, len, c) < c
<1>1. PICK x \in Nat : x = head + len /\ x < c + c
  OBVIOUS
<1>2. x < c => x % c = x
  BY ModBelow
<1>3. c <= x => x % c = x - c
  BY <1>1, ModWraps
<1>4. Behind(head, len, c) = x % c
  BY <1>1 DEF Behind
<1> QED
  BY <1>1, <1>2, <1>3, <1>4

LEMMA AroundIsPlace ==
  ASSUME NEW c \in Nat \ {0}, NEW head \in Nat, head < c, NEW j \in 1..c
  PROVE  Around(head, j, c) \in 1..c
  BY DEF Around

LEMMA AroundBehind ==
  ASSUME NEW c \in Nat \ {0}, NEW head \in Nat, NEW len \in Nat, head < c, len <= c,
         NEW j \in 1..(c - len)
  PROVE  Around(head, len + j, c) = Around(Behind(head, len, c), j, c)
<1>1. PICK t \in Nat : t = Behind(head, len, c)
                       /\ t = IF head + len < c THEN head + len ELSE head + len - c
  BY BehindIs
<1>2. Around(head, len + j, c) = Around(t, j, c)
  BY <1>1 DEF Around
<1> QED
  BY <1>1, <1>2

LEMMA AroundOnce ==
  ASSUME NEW c \in Nat \ {0}, NEW head \in Nat, head < c,
         NEW j \in 1..c, NEW k \in 1..c, j # k
  PROVE  Around(head, j, c) # Around(head, k, c)
  BY DEF Around

\* Copying puts the j-th byte at the j-th place behind the tail, and no other.
LEMMA CopiedBytes ==
  ASSUME NEW S, NEW r, RingOf(S, r), NEW src \in Seq(S), NEW tail \in Nat,
         tail < Len(r.buf), Len(src) <= Len(r.buf)
  PROVE  LET to == Copied(r, tail, src)
             place(j) == Around(tail, j, Len(r.buf))
         IN  /\ to \in Seq(S) /\ Len(to) = Len(r.buf)
             /\ \A j \in 1..Len(src) : to[place(j)] = src[j]
             /\ \A i \in 1..Len(r.buf) :
                  (\A j \in 1..Len(src) : i # place(j)) => to[i] = r.buf[i]
<1>1. PICK buf \in Seq(S) : buf = r.buf
  BY DEF RingOf
<1>2. PICK c \in Nat : c = Len(buf) /\ tail < c
  BY <1>1
<1>3. PICK n \in Nat : n = Len(src) /\ n <= c
  BY <1>1, <1>2
<1>4. Room(r, tail, n) = IF c - tail < n THEN c - tail ELSE n
  BY <1>1, <1>2 DEF Room, Capacity
<1>5. PICK first \in Nat : /\ first = Room(r, tail, n) /\ first <= n
                           /\ tail + first <= c /\ (first = n \/ tail + first = c)
  BY <1>2, <1>3, <1>4
<1>6. DOMAIN buf = 1..c
  BY <1>2
<1> DEFINE to == Copied(r, tail, src)
<1>7. to = [i \in 1..c |-> IF i \in (tail + 1)..(tail + first) THEN src[i - tail]
                          ELSE IF i <= n - first THEN src[first + i] ELSE buf[i]]
  BY <1>1, <1>3, <1>5, <1>6 DEF Copied
<1> HIDE DEF to
<1>8. ASSUME NEW i \in 1..c PROVE to[i] \in S
  <2>1. buf[i] \in S
    BY <1>2
  <2>2. CASE i \in (tail + 1)..(tail + first)
    <3>1. i - tail \in 1..n
      BY <2>2, <1>5
    <3>2. src[i - tail] \in S
      BY <3>1, <1>3
    <3> QED
      BY <2>2, <3>2, <1>7
  <2>3. CASE i \notin (tail + 1)..(tail + first) /\ i <= n - first
    <3>1. first + i \in 1..n
      BY <2>3, <1>5
    <3>2. src[first + i] \in S
      BY <3>1, <1>3
    <3> QED
      BY <2>3, <3>2, <1>7
  <2>4. CASE i \notin (tail + 1)..(tail + first) /\ ~ i <= n - first
    BY <2>4, <2>1, <1>7
  <2> QED
    BY <2>2, <2>3, <2>4
<1>9. to \in [1..c -> S]
  BY <1>7, <1>8
<1>10. to \in Seq(S) /\ Len(to) = c
  BY <1>9
<1>11. ASSUME NEW j \in 1..n PROVE to[Around(tail, j, c)] = src[j]
  <2>1. CASE j <= first
    <3>1. /\ Around(tail, j, c) = tail + j /\ tail + j \in 1..c
          /\ tail + j \in (tail + 1)..(tail + first) /\ tail + j - tail = j
      BY <2>1, <1>5 DEF Around
    <3> QED
      BY <3>1, <1>7
  <2>2. CASE first < j
    <3>0. j \in Nat /\ j <= n /\ n <= c
      BY <1>3, <1>11
    <3>1. tail + first = c
      BY <3>0, <2>2, <1>5
    <3>2. ~ (tail + j <= c) /\ tail + j - c = j - first
      BY ONLY <3>0, <3>1, <2>2, c \in Nat, tail \in Nat, first \in Nat
    <3>3. /\ j - first \in 1..c /\ first + (j - first) = j
          /\ j - first \notin (tail + 1)..(tail + first) /\ j - first <= n - first
      BY ONLY <3>0, <3>1, <2>2, c \in Nat, tail \in Nat, first \in Nat, n \in Nat
    <3>4. Around(tail, j, c) = j - first
      BY <3>2 DEF Around
    <3> QED
      BY <3>3, <3>4, <1>7
  <2> QED
    BY <2>1, <2>2
<1>12. ASSUME NEW i \in 1..c, \A j \in 1..n : i # Around(tail, j, c) PROVE to[i] = buf[i]
  <2>1. i \notin (tail + 1)..(tail + first)
    <3>1. SUFFICES ASSUME i \in (tail + 1)..(tail + first) PROVE FALSE
      OBVIOUS
    <3>2. i - tail \in 1..n /\ Around(tail, i - tail, c) = i
      BY <3>1, <1>5 DEF Around
    <3> QED
      BY <3>2, <1>12
  <2>2. ~ i <= n - first
    <3>1. SUFFICES ASSUME i <= n - first PROVE FALSE
      OBVIOUS
    <3>2. tail + first = c /\ first + i \in 1..n
      BY <3>1, <1>5
    <3>3. ~ tail + (first + i) <= c /\ tail + (first + i) - c = i
      BY <3>2
    <3>4. Around(tail, first + i, c) = i
      BY <3>3 DEF Around
    <3> QED
      BY <3>2, <3>4, <1>12
  <2> QED
    BY <2>1, <2>2, <1>7
<1> QED
  BY <1>1, <1>2, <1>3, <1>10, <1>11, <1>12 DEF to

\* Writing stores the bytes behind those stored.
LEMMA WriteKeeps ==
  ASSUME NEW S, NEW r, RingOf(S, r), NEW src \in Seq(S), ~ Refused(r, src)
  PROVE  LET w == Write(r, src) IN
         /\ RingOf(S, w) /\ Len(w.buf) = Len(r.buf) /\ w.len = r.len + Len(src)
         /\ \A j \in 1..r.len : Stored(w, j) = Stored(r, j)
         /\ \A j \in 1..Len(src) : Stored(w, r.len + j) = src[j]
<1>1. PICK buf \in Seq(S), head \in Nat, len \in Nat :
        /\ r = [buf |-> buf, head |-> head, len |-> len]
        /\ buf = r.buf /\ head = r.head /\ len = r.len
  BY DEF RingOf
<1>2. PICK c \in Nat \ {0} : c = Len(buf) /\ head < c /\ len <= c
  BY <1>1 DEF RingOf
<1>3. PICK n \in Nat : n = Len(src) /\ n <= c - len
  BY <1>1, <1>2 DEF Refused, Free, Capacity
<1>4. CASE src = <<>>
  <2>1. Write(r, src) = r /\ Len(src) = 0
    BY <1>4 DEF Write
  <2> QED
    BY <2>1, <1>1
<1>5. CASE src # <<>>
  <2>1. PICK tail \in Nat : tail = Behind(head, len, c) /\ tail < c
    BY <1>2, BehindIs
  <2>2. PICK to : to = Copied(r, tail, src)
    OBVIOUS
  <2>3. /\ to \in Seq(S) /\ Len(to) = c
        /\ \A j \in 1..n : to[Around(tail, j, c)] = src[j]
        /\ \A i \in 1..c : (\A j \in 1..n : i # Around(tail, j, c)) => to[i] = buf[i]
    BY <1>1, <1>2, <1>3, <2>1, <2>2, CopiedBytes
  <2>4. PICK w : w = Write(r, src)
    OBVIOUS
  <2>5. w = [buf |-> to, head |-> head, len |-> len + n]
    BY <1>1, <1>2, <1>3, <1>5, <2>1, <2>2, <2>4 DEF Write, Behind, Capacity
  <2>6. /\ w.buf = to /\ w.head = head /\ w.len = len + n
        /\ w \in [buf : Seq(S), head : Nat, len : Nat]
    BY <2>3, <2>5
  <2>7. RingOf(S, w)
    BY <1>2, <1>3, <2>3, <2>6 DEF RingOf
  <2>8. \A j \in 1..n : Around(head, len + j, c) = Around(tail, j, c)
    BY <1>2, <1>3, <2>1, AroundBehind
  <2>9. ASSUME NEW k \in 1..len PROVE to[Around(head, k, c)] = buf[Around(head, k, c)]
    <3>1. k \in 1..c
      BY <1>2
    <3>2. Around(head, k, c) \in 1..c
      BY <3>1, <1>2, AroundIsPlace
    <3>3. ASSUME NEW j \in 1..n PROVE Around(head, k, c) # Around(tail, j, c)
      <4>1. len + j \in 1..c /\ k # len + j
        BY <1>2, <1>3
      <4>2. Around(head, k, c) # Around(head, len + j, c)
        BY <3>1, <4>1, <1>2, AroundOnce
      <4> QED
        BY <4>2, <2>8
    <3> QED
      BY <3>2, <3>3, <2>3
  <2>10. \A k \in 1..len : Stored(w, k) = Stored(r, k)
    BY <1>1, <1>2, <2>3, <2>6, <2>9 DEF Stored
  <2>11. \A j \in 1..n : Stored(w, len + j) = src[j]
    BY <2>3, <2>6, <2>8 DEF Stored
  <2> QED
    BY <1>1, <1>2, <1>3, <2>3, <2>4, <2>6, <2>7, <2>10, <2>11
<1> QED
  BY <1>4, <1>5

\* Reading takes the oldest bytes and leaves the others in their order.
LEMMA ReadKeeps ==
  ASSUME NEW S, NEW r, RingOf(S, r), NEW n \in Nat, n <= r.len
  PROVE  LET w == Read(r, n) IN
         /\ RingOf(S, w) /\ Len(w.buf) = Len(r.buf) /\ w.len = r.len - n
         /\ \A j \in 1..(r.len - n) : Stored(w, j) = Stored(r, n + j)
<1>1. PICK buf \in Seq(S), head \in Nat, len \in Nat :
        /\ r = [buf |-> buf, head |-> head, len |-> len]
        /\ buf = r.buf /\ head = r.head /\ len = r.len
  BY DEF RingOf
<1>2. PICK c \in Nat \ {0} : c = Len(buf) /\ head < c /\ len <= c
  BY <1>1 DEF RingOf
<1>3. CASE n = 0
  <2>1. Read(r, n) = r
    BY <1>3 DEF Read
  <2>2. len - n = len /\ \A j \in 1..len : n + j = j
    BY <1>3
  <2> QED
    BY <2>1, <2>2, <1>1
<1>4. CASE n # 0
  <2>0. n <= len /\ n <= c
    BY <1>1, <1>2
  <2>1. PICK to \in Nat : to = Behind(head, n, c) /\ to < c
    BY <2>0, <1>2, BehindIs
  <2>2. PICK w : w = Read(r, n)
    OBVIOUS
  <2>3. w = [buf |-> buf, head |-> to, len |-> len - n] /\ len - n \in Nat
    <3>1. ~ Underrun(r, n)
      BY <2>0, <1>1 DEF Underrun
    <3>2. w = [r EXCEPT !.head = (@ + n) % c, !.len = @ - n]
      BY <3>1, <1>1, <1>2, <1>4, <2>2 DEF Read, Capacity
    <3>3. w = [buf |-> buf, head |-> (head + n) % c, len |-> len - n]
      BY <3>2, <1>1
    <3>4. to = (head + n) % c
      BY <2>1 DEF Behind
    <3> QED
      BY <3>3, <3>4, <2>0
  <2>4. /\ w.buf = buf /\ w.head = to /\ w.len = len - n
        /\ w \in [buf : Seq(S), head : Nat, len : Nat]
    BY <2>3
  <2>5. RingOf(S, w)
    BY <1>1, <1>2, <2>1, <2>4 DEF RingOf
  <2>6. \A j \in 1..(c - n) : Around(head, n + j, c) = Around(to, j, c)
    BY <2>0, <1>2, <2>1, AroundBehind
  <2>7. ASSUME NEW j \in 1..(len - n) PROVE Stored(w, j) = Stored(r, n + j)
    <3>1. Around(head, n + j, c) = Around(to, j, c)
      BY <2>0, <2>6, <1>2
    <3> QED
      BY <3>1, <1>1, <1>2, <2>4 DEF Stored
  <2> QED
    BY <1>1, <2>2, <2>4, <2>5, <2>7
<1> QED
  BY <1>3, <1>4

\* What is stored, in its order.
LEMMA DrainedBytes ==
  ASSUME NEW S, NEW r, RingOf(S, r)
  PROVE  /\ Drained(r) \in Seq(S) /\ Len(Drained(r)) = r.len
         /\ \A j \in 1..r.len : Drained(r)[j] = Stored(r, j)
<1>1. r.len \in Nat /\ r.len <= Len(r.buf)
  BY DEF RingOf
<1> QED
  BY <1>1, OldestBytes DEF Drained

\* A ring gives back what it was given: a write that is not refused appends.
LEMMA WriteAppends ==
  ASSUME NEW S, NEW r, RingOf(S, r), NEW src \in Seq(S), ~ Refused(r, src)
  PROVE  /\ RingOf(S, Write(r, src)) /\ Len(Write(r, src).buf) = Len(r.buf)
         /\ Drained(Write(r, src)) = Drained(r) \o src
<1>1. PICK w : w = Write(r, src)
  OBVIOUS
<1>2. /\ RingOf(S, w) /\ Len(w.buf) = Len(r.buf) /\ w.len = r.len + Len(src)
      /\ \A j \in 1..r.len : Stored(w, j) = Stored(r, j)
      /\ \A j \in 1..Len(src) : Stored(w, r.len + j) = src[j]
  BY <1>1, WriteKeeps
<1>3. PICK a \in Seq(S), b \in Seq(S) : a = Drained(r) /\ b = Drained(w)
  BY <1>2, DrainedBytes
<1>4. /\ Len(a) = r.len /\ \A j \in 1..Len(a) : a[j] = Stored(r, j)
      /\ Len(b) = w.len /\ \A j \in 1..Len(b) : b[j] = Stored(w, j)
  BY <1>2, <1>3, DrainedBytes
<1>5. /\ Len(b) = Len(a) + Len(src)
      /\ \A j \in 1..Len(a) : b[j] = a[j]
      /\ \A j \in 1..Len(src) : b[Len(a) + j] = src[j]
  BY <1>2, <1>4, SMTT(30)
<1>6. b = a \o src
  BY <1>5, ConcatIs
<1> QED
  BY <1>1, <1>2, <1>3, <1>6

\* What is read and what is left are what was stored.
LEMMA ReadSplits ==
  ASSUME NEW S, NEW r, RingOf(S, r), NEW n \in Nat, n <= r.len
  PROVE  /\ RingOf(S, Read(r, n)) /\ Len(Read(r, n).buf) = Len(r.buf)
         /\ Oldest(r, n) = Stretch(Drained(r), 0, n)
         /\ Drained(Read(r, n)) = Stretch(Drained(r), n, r.len - n)
<1>1. PICK w : w = Read(r, n)
  OBVIOUS
<1>2. /\ RingOf(S, w) /\ Len(w.buf) = Len(r.buf) /\ w.len = r.len - n
      /\ \A j \in 1..(r.len - n) : Stored(w, j) = Stored(r, n + j)
  BY <1>1, ReadKeeps
<1>3. PICK a \in Seq(S) : a = Drained(r)
  BY DrainedBytes
<1>4. PICK len \in Nat : len = r.len /\ n <= len /\ Len(a) = len
  BY <1>3, DrainedBytes DEF RingOf
<1>5. \A j \in 1..len : a[j] = Stored(r, j)
  BY <1>3, <1>4, DrainedBytes
<1>6. Oldest(r, n) = Stretch(a, 0, n)
  <2>1. n <= Len(r.buf)
    BY <1>4 DEF RingOf
  <2>2. PICK b \in Seq(S) : b = Oldest(r, n)
    BY <2>1, OldestBytes
  <2>3. Len(b) = n /\ \A j \in 1..n : b[j] = Stored(r, j)
    BY <2>1, <2>2, OldestBytes
  <2>4. PICK d \in Seq(S) : d = Stretch(a, 0, n)
    BY <1>4, BeginningOf
  <2>5. Len(d) = n /\ \A j \in 1..n : d[j] = a[j]
    BY <2>4, <1>4, BeginningOf
  <2>6. \A j \in 1..Len(b) : b[j] = d[j]
    BY <2>3, <2>5, <1>4, <1>5
  <2> QED
    BY <2>2, <2>3, <2>4, <2>5, <2>6, SeqEqual
<1>7. Drained(w) = Stretch(a, n, len - n)
  <2>1. PICK m \in Nat : m = len - n /\ n + m = len
    BY <1>4
  <2>2. PICK b \in Seq(S) : b = Drained(w)
    BY <1>2, DrainedBytes
  <2>3. Len(b) = m /\ \A j \in 1..m : b[j] = Stored(w, j)
    BY <2>1, <2>2, <1>2, <1>4, DrainedBytes
  <2>4. PICK d \in Seq(S) : /\ d = Stretch(a, n, m) /\ Len(d) = m
                            /\ \A j \in 1..m : d[j] = a[n + j]
    <3>1. n + m <= Len(a)
      BY <2>1, <1>4
    <3> QED
      BY <3>1, StretchOf
  <2>5. \A j \in 1..m : n + j \in 1..len
    BY <2>1
  <2>6. \A j \in 1..m : b[j] = d[j]
    BY <2>1, <2>3, <2>4, <2>5, <1>2, <1>4, <1>5
  <2> QED
    BY <2>1, <2>2, <2>3, <2>4, <2>6, SeqEqual
<1> QED
  BY <1>1, <1>2, <1>3, <1>4, <1>6, <1>7

-----------------------------------------------------------------------------
(* Frames and their bytes.                                                 *)

Frame == Int \X Int
Byte == [frame : Frame, byte : Int]
Cell == Byte \cup {EmptyCell}

\* Where the b-th byte of the i-th frame is.
At(i, b) == (i - 1) * FrameBytes + b

AreBytesOf(bytes, frames) ==
  /\ Len(bytes) = Len(frames) * FrameBytes
  /\ \A i \in 1..Len(frames), b \in 1..FrameBytes :
       bytes[At(i, b)] = [frame |-> frames[i], byte |-> b]

LEMMA FrameHasBytes == FrameBytes \in Nat \ {0}
  BY RecorderAssumption

LEMMA AtIsPlace ==
  ASSUME NEW n \in Nat, NEW i \in 1..n, NEW b \in 1..FrameBytes
  PROVE  n * FrameBytes \in Nat /\ At(i, b) \in 1..(n * FrameBytes)
<1>1. PICK c \in Nat \ {0} : c = FrameBytes
  BY FrameHasBytes
<1>2. PICK k \in Nat : k = i - 1 /\ k + 1 <= n
  OBVIOUS
<1>3. (k + 1) * c <= n * c /\ n * c \in Nat
  BY <1>2, Monotone
<1>4. (k + 1) * c = k * c + c /\ k * c \in Nat
  OBVIOUS
<1> QED
  BY <1>1, <1>2, <1>3, <1>4 DEF At

LEMMA AtBehind ==
  ASSUME NEW p \in Nat, NEW i \in Nat, NEW b \in Nat
  PROVE  At(p + i, b) = p * FrameBytes + At(i, b)
<1>1. PICK c \in Nat \ {0} : c = FrameBytes
  BY FrameHasBytes
<1>2. ((p + i) - 1) * c + b = p * c + ((i - 1) * c + b)
  OBVIOUS
<1> QED
  BY <1>1, <1>2 DEF At

LEMMA AtDivMod ==
  ASSUME NEW i \in Nat \ {0}, NEW b \in 1..FrameBytes
  PROVE  ((At(i, b) - 1) \div FrameBytes) + 1 = i /\ ((At(i, b) - 1) % FrameBytes) + 1 = b
<1>1. PICK c \in Nat \ {0} : c = FrameBytes
  BY FrameHasBytes
<1>2. PICK k \in Nat : k = i - 1
  OBVIOUS
<1>3. PICK r \in 0..(c - 1) : r = b - 1
  BY <1>1
<1>4. (k * c + r) \div c = k /\ (k * c + r) % c = r
  BY DivMod
<1>5. At(i, b) - 1 = k * c + r
  BY <1>1, <1>2, <1>3 DEF At
<1> QED
  BY <1>1, <1>2, <1>3, <1>4, <1>5

\* Every place is that of a byte of a frame.
LEMMA PlaceIsAt ==
  ASSUME NEW n \in Nat, NEW k \in 1..(n * FrameBytes)
  PROVE  /\ ((k - 1) \div FrameBytes) + 1 \in 1..n
         /\ ((k - 1) % FrameBytes) + 1 \in 1..FrameBytes
<1>1. PICK c \in Nat \ {0} : c = FrameBytes
  BY FrameHasBytes
<1>2. PICK x \in Nat : x = k - 1 /\ x < n * c
  BY <1>1
<1>3. x \div c \in Nat /\ (x \div c) * c <= x
  BY DivBelow
<1>4. x \div c < n
  <2>1. SUFFICES ASSUME n <= x \div c PROVE FALSE
    BY <1>3
  <2>2. n * c <= (x \div c) * c
    BY <2>1, <1>3, Monotone
  <2>3. n * c \in Nat /\ (x \div c) * c \in Nat
    BY <1>3
  <2> QED
    BY <2>2, <2>3, <1>2, <1>3
<1>5. x % c \in 0..(c - 1)
  OBVIOUS
<1> QED
  BY <1>1, <1>2, <1>3, <1>4, <1>5

LEMMA ByteIsCell ==
  ASSUME NEW f \in Frame, NEW b \in Int PROVE [frame |-> f, byte |-> b] \in Cell
  BY DEF Cell, Byte

\* The bytes of frames are theirs, one frame after another.
LEMMA AllBytesOf ==
  ASSUME NEW frames \in Seq(Frame)
  PROVE  AllBytes(frames) \in Seq(Cell) /\ AreBytesOf(AllBytes(frames), frames)
<1>1. PICK n \in Nat : n = Len(frames)
  OBVIOUS
<1>2. PICK c \in Nat \ {0} : c = FrameBytes
  BY FrameHasBytes
<1>3. n * c \in Nat
  OBVIOUS
<1> DEFINE all == AllBytes(frames)
<1>4. all = [k \in 1..(n * c) |-> ToBytes(frames[((k - 1) \div c) + 1])[((k - 1) % c) + 1]]
  BY <1>1, <1>2 DEF AllBytes
<1> HIDE DEF all
<1>5. ASSUME NEW f, NEW b \in 1..c PROVE ToBytes(f)[b] = [frame |-> f, byte |-> b]
  BY <1>2 DEF ToBytes
<1>6. ASSUME NEW k \in 1..(n * c) PROVE all[k] \in Cell
  <2>1. PICK i \in 1..n : i = ((k - 1) \div c) + 1
    BY <1>2, PlaceIsAt
  <2>2. PICK b \in 1..c : b = ((k - 1) % c) + 1
    BY <1>2, PlaceIsAt
  <2>3. all[k] = [frame |-> frames[i], byte |-> b]
    BY <2>1, <2>2, <1>4, <1>5
  <2>4. frames[i] \in Frame
    BY <2>1, <1>1
  <2> QED
    BY <2>3, <2>4, ByteIsCell
<1>7. all \in [1..(n * c) -> Cell]
  BY <1>4, <1>6
<1>8. all \in Seq(Cell) /\ Len(all) = n * c
  BY <1>3, <1>7
<1>9. ASSUME NEW i \in 1..n, NEW b \in 1..c
      PROVE  all[At(i, b)] = [frame |-> frames[i], byte |-> b]
  <2>1. At(i, b) \in 1..(n * c)
    BY <1>2, AtIsPlace
  <2>2. ((At(i, b) - 1) \div c) + 1 = i /\ ((At(i, b) - 1) % c) + 1 = b
    BY <1>2, AtDivMod
  <2> QED
    BY <2>1, <2>2, <1>4, <1>5
<1> QED
  BY <1>1, <1>2, <1>8, <1>9 DEF AreBytesOf, all

\* A frame is read from its own bytes.
LEMMA FromBytesOf ==
  ASSUME NEW f \in Frame PROVE FromBytes(ToBytes(f)) = f
<1>1. ToBytes(f)[1] = [frame |-> f, byte |-> 1]
  BY FrameHasBytes DEF ToBytes
<1>2. ToBytes(f)[1].frame = f
  BY <1>1
<1> QED
  BY <1>2 DEF FromBytes

\* The bytes of frames, in their order, are read as those frames, untorn.
LEMMA FramesOf ==
  ASSUME NEW bytes \in Seq(Cell), NEW frames \in Seq(Frame), AreBytesOf(bytes, frames)
  PROVE  Frames(bytes) = frames
<1>1. PICK n \in Nat : n = Len(frames)
  OBVIOUS
<1>2. PICK c \in Nat \ {0} : c = FrameBytes
  BY FrameHasBytes
<1>3. /\ Len(bytes) = n * c
      /\ \A i \in 1..n, b \in 1..c : bytes[At(i, b)] = [frame |-> frames[i], byte |-> b]
  BY <1>1, <1>2 DEF AreBytesOf
<1>4. Len(bytes) \div c = n
  <2>1. (n * c + 0) \div c = n
    BY DivMod
  <2>2. n * c + 0 = n * c
    OBVIOUS
  <2> QED
    BY <2>1, <2>2, <1>3
<1>5. ASSUME NEW i \in 1..n
      PROVE  SubSeq(bytes, (i - 1) * c + 1, i * c) = ToBytes(frames[i])
  <2>1. PICK p \in Nat : p = (i - 1) * c
    <3>1. i - 1 \in Nat
      OBVIOUS
    <3> QED
      BY <3>1
  <2>2. i * c = p + c
    BY <2>1
  <2>3. p + c <= n * c
    <3>1. i * c <= n * c
      BY Monotone
    <3> QED
      BY <3>1, <2>2
  <2>4. PICK d \in Seq(Cell) : /\ d = Stretch(bytes, p, c) /\ Len(d) = c
                               /\ \A b \in 1..c : d[b] = bytes[p + b]
    BY <2>3, <1>3, StretchOf
  <2>5. \A b \in 1..c : p + b = At(i, b)
    BY <2>1, <1>2 DEF At
  <2>6. \A b \in 1..c : d[b] = [frame |-> frames[i], byte |-> b]
    <3>1. \A b \in 1..c : bytes[At(i, b)] = [frame |-> frames[i], byte |-> b]
      BY <1>3, <1>5
    <3> QED
      BY ONLY <3>1, <2>4, <2>5
  <2>7. d = [b \in 1..c |-> [frame |-> frames[i], byte |-> b]]
    <3>1. d \in [1..c -> Cell]
      BY <2>4
    <3> QED
      BY <3>1, <2>6
  <2>8. d = ToBytes(frames[i])
    BY <2>7, <1>2 DEF ToBytes
  <2> QED
    BY <2>1, <2>2, <2>4, <2>8 DEF Stretch
<1>6. \A i \in 1..n : FromBytes(SubSeq(bytes, (i - 1) * c + 1, i * c)) = frames[i]
  <2>1. \A i \in 1..n : frames[i] \in Frame
    BY <1>1
  <2> QED
    BY <2>1, <1>5, FromBytesOf
<1>7. Frames(bytes) = [i \in 1..n |-> FromBytes(SubSeq(bytes, (i - 1) * c + 1, i * c))]
  BY <1>2, <1>4 DEF Frames
<1>8. Frames(bytes) = [i \in 1..n |-> frames[i]]
  BY <1>6, <1>7
<1> QED
  BY <1>1, <1>8

\* Bytes of frames, followed by those of others.
LEMMA BytesOfConcat ==
  ASSUME NEW a \in Seq(Cell), NEW f \in Seq(Frame), AreBytesOf(a, f),
         NEW b \in Seq(Cell), NEW g \in Seq(Frame), AreBytesOf(b, g)
  PROVE  AreBytesOf(a \o b, f \o g)
<1>1. PICK n \in Nat, m \in Nat : n = Len(f) /\ m = Len(g)
  OBVIOUS
<1>2. PICK c \in Nat \ {0} : c = FrameBytes
  BY FrameHasBytes
<1>3. PICK w \in Seq(Cell) : /\ w = a \o b /\ Len(w) = Len(a) + Len(b)
                             /\ \A j \in 1..Len(a) : w[j] = a[j]
                             /\ \A j \in 1..Len(b) : w[Len(a) + j] = b[j]
  <2>1. /\ a \o b \in Seq(Cell) /\ Len(a \o b) = Len(a) + Len(b)
        /\ \A j \in 1..Len(a) : (a \o b)[j] = a[j]
        /\ \A j \in 1..Len(b) : (a \o b)[Len(a) + j] = b[j]
    BY ConcatOf
  <2> QED
    BY <2>1
<1>4. PICK h \in Seq(Frame) : /\ h = f \o g /\ Len(h) = Len(f) + Len(g)
                              /\ \A j \in 1..Len(f) : h[j] = f[j]
                              /\ \A j \in 1..Len(g) : h[Len(f) + j] = g[j]
  <2>1. /\ f \o g \in Seq(Frame) /\ Len(f \o g) = Len(f) + Len(g)
        /\ \A j \in 1..Len(f) : (f \o g)[j] = f[j]
        /\ \A j \in 1..Len(g) : (f \o g)[Len(f) + j] = g[j]
    BY ConcatOf
  <2> QED
    BY <2>1
<1>5. /\ Len(a) = n * c
      /\ \A i \in 1..n, k \in 1..c : a[At(i, k)] = [frame |-> f[i], byte |-> k]
  BY <1>1, <1>2 DEF AreBytesOf
<1>6. /\ Len(b) = m * c
      /\ \A i \in 1..m, k \in 1..c : b[At(i, k)] = [frame |-> g[i], byte |-> k]
  BY <1>1, <1>2 DEF AreBytesOf
<1>7. Len(w) = (n + m) * c
  BY <1>3, <1>5, <1>6
<1>8. ASSUME NEW i \in 1..n, NEW k \in 1..c
      PROVE  w[At(i, k)] = [frame |-> h[i], byte |-> k]
  <2>1. At(i, k) \in 1..(n * c)
    BY <1>2, AtIsPlace
  <2>2. w[At(i, k)] = a[At(i, k)]
    BY <2>1, <1>3, <1>5
  <2>3. h[i] = f[i]
    BY <1>1, <1>4
  <2> QED
    BY <2>2, <2>3, <1>5
<1>9. ASSUME NEW i \in 1..m, NEW k \in 1..c
      PROVE  w[At(n + i, k)] = [frame |-> h[n + i], byte |-> k]
  <2>1. At(i, k) \in 1..(m * c)
    BY <1>2, AtIsPlace
  <2>2. At(n + i, k) = n * c + At(i, k)
    BY <1>2, AtBehind
  <2>3. w[n * c + At(i, k)] = b[At(i, k)]
    BY <2>1, <1>3, <1>5, <1>6
  <2>4. h[n + i] = g[i]
    BY <1>1, <1>4
  <2> QED
    BY <2>2, <2>3, <2>4, <1>6
<1>10. ASSUME NEW i \in 1..(n + m), NEW k \in 1..c
       PROVE  w[At(i, k)] = [frame |-> h[i], byte |-> k]
  <2>1. CASE i <= n
    BY <2>1, <1>8
  <2>2. CASE n < i
    <3>1. i - n \in 1..m /\ n + (i - n) = i
      BY <2>2
    <3>2. w[At(n + (i - n), k)] = [frame |-> h[n + (i - n)], byte |-> k]
      BY <3>1, <1>9
    <3> QED
      BY <3>1, <3>2
  <2> QED
    BY <2>1, <2>2
<1>11. Len(h) = n + m
  BY <1>1, <1>4
<1> QED
  BY <1>2, <1>3, <1>4, <1>7, <1>10, <1>11 DEF AreBytesOf

\* Some of the frames in a row, and their bytes.
LEMMA BytesOfStretch ==
  ASSUME NEW a \in Seq(Cell), NEW f \in Seq(Frame), AreBytesOf(a, f),
         NEW p \in Nat, NEW m \in Nat, p + m <= Len(f)
  PROVE  /\ Stretch(a, p * FrameBytes, m * FrameBytes) \in Seq(Cell)
         /\ Stretch(f, p, m) \in Seq(Frame)
         /\ AreBytesOf(Stretch(a, p * FrameBytes, m * FrameBytes), Stretch(f, p, m))
<1>1. PICK n \in Nat : n = Len(f) /\ p + m <= n
  OBVIOUS
<1>2. PICK c \in Nat \ {0} : c = FrameBytes
  BY FrameHasBytes
<1>3. /\ Len(a) = n * c
      /\ \A i \in 1..n, k \in 1..c : a[At(i, k)] = [frame |-> f[i], byte |-> k]
  BY <1>1, <1>2 DEF AreBytesOf
<1>4. PICK q \in Nat, l \in Nat : q = p * c /\ l = m * c
  OBVIOUS
<1>5. q + l <= Len(a)
  <2>1. (p + m) * c <= n * c
    BY <1>1, Monotone
  <2>2. (p + m) * c = p * c + m * c
    OBVIOUS
  <2> QED
    BY <2>1, <2>2, <1>3, <1>4
<1>6. PICK d \in Seq(Cell) : /\ d = Stretch(a, q, l) /\ Len(d) = l
                             /\ \A j \in 1..l : d[j] = a[q + j]
  BY <1>5, StretchOf
<1>7. PICK h \in Seq(Frame) : /\ h = Stretch(f, p, m) /\ Len(h) = m
                              /\ \A j \in 1..m : h[j] = f[p + j]
  BY StretchOf
<1>8. ASSUME NEW i \in 1..m, NEW k \in 1..c
      PROVE  d[At(i, k)] = [frame |-> h[i], byte |-> k]
  <2>1. At(i, k) \in 1..l
    BY <1>2, <1>4, AtIsPlace
  <2>2. At(p + i, k) = q + At(i, k)
    BY <1>2, <1>4, AtBehind
  <2>3. d[At(i, k)] = a[At(p + i, k)]
    BY <2>1, <2>2, <1>6
  <2>4. p + i \in 1..n
    BY <1>1
  <2> QED
    BY <2>3, <2>4, <1>3, <1>7
<1> QED
  BY <1>2, <1>4, <1>6, <1>7, <1>8 DEF AreBytesOf

-----------------------------------------------------------------------------
(* A ring of a track holds whole frames.                                   *)

TrackRing(r) == RingOf(Cell, r) /\ Len(r.buf) = RingFrames * FrameBytes

Holds(r, f) == TrackRing(r) /\ f \in Seq(Frame) /\ AreBytesOf(Drained(r), f)

LEMMA HoldsNothing == Holds(WithCapacity(RingFrames * FrameBytes), <<>>)
<1>1. PICK c \in Nat \ {0}, n \in Nat \ {0} : c = FrameBytes /\ n = RingFrames
  BY RecorderAssumption
<1>2. PICK k \in Nat \ {0} : k = n * c
  <2>1. 1 * c <= n * c
    BY Monotone
  <2> QED
    BY <2>1
<1>3. PICK r : r = WithCapacity(k)
  OBVIOUS
<1>4. r.buf = [i \in 1..k |-> EmptyCell] /\ r.head = 0 /\ r.len = 0
      /\ r = [buf |-> r.buf, head |-> r.head, len |-> r.len]
  BY <1>3 DEF WithCapacity
<1>5. r.buf \in [1..k -> Cell]
  BY <1>4 DEF Cell
<1>6. r.buf \in Seq(Cell) /\ Len(r.buf) = k
  BY <1>5
<1>7. RingOf(Cell, r)
  BY <1>4, <1>6 DEF RingOf
<1>8. Drained(r) \in Seq(Cell) /\ Len(Drained(r)) = 0
  BY <1>4, <1>7, DrainedBytes
<1>9. <<>> \in Seq(Frame) /\ Len(<<>>) = 0 /\ 0 * FrameBytes = 0
  BY <1>1
<1>10. AreBytesOf(Drained(r), <<>>)
  BY <1>8, <1>9 DEF AreBytesOf
<1> QED
  BY <1>1, <1>2, <1>3, <1>6, <1>7, <1>9, <1>10 DEF Holds, TrackRing

\* What it holds is what can be read of it, and no more than its size.
LEMMA HoldsFrames ==
  ASSUME NEW r, NEW f, Holds(r, f)
  PROVE  /\ Frames(Drained(r)) = f /\ Drained(r) \in Seq(Cell)
         /\ r.len \in Nat /\ r.len = Len(f) * FrameBytes /\ r.len \div FrameBytes = Len(f)
         /\ Len(f) <= RingFrames
<1>1. PICK c \in Nat \ {0}, k \in Nat \ {0} : c = FrameBytes /\ k = RingFrames
  BY RecorderAssumption
<1>2. f \in Seq(Frame) /\ AreBytesOf(Drained(r), f) /\ RingOf(Cell, r) /\ Len(r.buf) = k * c
  BY <1>1 DEF Holds, TrackRing
<1>3. PICK n \in Nat : n = Len(f)
  BY <1>2
<1>4. Drained(r) \in Seq(Cell) /\ Len(Drained(r)) = r.len
  BY <1>2, DrainedBytes
<1>5. r.len \in Nat /\ r.len <= k * c
  BY <1>2 DEF RingOf
<1>6. r.len = n * c
  BY <1>1, <1>2, <1>3, <1>4 DEF AreBytesOf
<1>7. n <= k
  BY <1>5, <1>6, Cancels
<1>8. (n * c) \div c = n
  <2>1. (n * c + 0) \div c = n
    BY DivMod
  <2>2. n * c + 0 = n * c
    OBVIOUS
  <2> QED
    BY <2>1, <2>2
<1>9. Frames(Drained(r)) = f
  BY <1>2, <1>4, FramesOf
<1> QED
  BY <1>1, <1>3, <1>4, <1>5, <1>6, <1>7, <1>8, <1>9

LEMMA HoldsWrite ==
  ASSUME NEW r, NEW f, Holds(r, f), NEW g \in Seq(Frame), ~ Refused(r, AllBytes(g))
  PROVE  Holds(Write(r, AllBytes(g)), f \o g)
<1>1. /\ RingOf(Cell, r) /\ Len(r.buf) = RingFrames * FrameBytes
      /\ f \in Seq(Frame) /\ AreBytesOf(Drained(r), f)
  BY DEF Holds, TrackRing
<1>2. PICK src \in Seq(Cell) : src = AllBytes(g) /\ AreBytesOf(src, g)
  BY AllBytesOf
<1>3. PICK w : w = Write(r, src)
  OBVIOUS
<1>4. RingOf(Cell, w) /\ Len(w.buf) = Len(r.buf) /\ Drained(w) = Drained(r) \o src
  BY <1>1, <1>2, <1>3, WriteAppends
<1>5. Drained(r) \in Seq(Cell)
  BY <1>1, DrainedBytes
<1>6. AreBytesOf(Drained(r) \o src, f \o g)
  BY <1>1, <1>2, <1>5, BytesOfConcat
<1>7. f \o g \in Seq(Frame)
  BY <1>1, ConcatOf
<1> QED
  BY <1>1, <1>2, <1>3, <1>4, <1>6, <1>7 DEF Holds, TrackRing

LEMMA HoldsRead ==
  ASSUME NEW r, NEW f, Holds(r, f), NEW m \in Nat, m <= Len(f)
  PROVE  /\ Holds(Read(r, m * FrameBytes), Stretch(f, m, Len(f) - m))
         /\ Frames(Oldest(r, m * FrameBytes)) = Stretch(f, 0, m)
<1>1. /\ RingOf(Cell, r) /\ Len(r.buf) = RingFrames * FrameBytes
      /\ f \in Seq(Frame) /\ AreBytesOf(Drained(r), f)
  BY DEF Holds, TrackRing
<1>2. PICK c \in Nat \ {0} : c = FrameBytes
  BY FrameHasBytes
<1>3. PICK n \in Nat, k \in Nat : n = Len(f) /\ k = n - m
  BY <1>1
<1>4. r.len = n * c /\ Drained(r) \in Seq(Cell)
  BY <1>2, <1>3, HoldsFrames
<1>5. m * c \in Nat /\ m * c <= n * c
  BY <1>3, Monotone
<1>6. n * c - m * c = k * c
  BY <1>3
<1>7. PICK w : w = Read(r, m * c)
  OBVIOUS
<1>8. /\ RingOf(Cell, w) /\ Len(w.buf) = Len(r.buf)
      /\ Oldest(r, m * c) = Stretch(Drained(r), 0, m * c)
      /\ Drained(w) = Stretch(Drained(r), m * c, k * c)
  <2>1. PICK x \in Nat, y \in Nat : x = m * c /\ y = n * c /\ x <= y
    BY <1>4, <1>5
  <2>2. w = Read(r, x) /\ r.len = y /\ RingOf(Cell, r) /\ y - x = k * c
    BY <2>1, <1>1, <1>4, <1>6, <1>7
  <2>3. /\ RingOf(Cell, w) /\ Len(w.buf) = Len(r.buf)
        /\ Oldest(r, x) = Stretch(Drained(r), 0, x)
        /\ Drained(w) = Stretch(Drained(r), x, r.len - x)
    BY <2>1, <2>2, ReadSplits
  <2> QED
    BY ONLY <2>1, <2>2, <2>3
<1>9. Stretch(f, m, k) \in Seq(Frame) /\ AreBytesOf(Drained(w), Stretch(f, m, k))
  <2>1. m + k <= Len(f)
    BY <1>3
  <2> QED
    BY <2>1, <1>1, <1>2, <1>4, <1>8, BytesOfStretch
<1>10. Frames(Oldest(r, m * c)) = Stretch(f, 0, m)
  <2>1. PICK o, h : o = Stretch(Drained(r), 0 * c, m * c) /\ h = Stretch(f, 0, m)
    OBVIOUS
  <2>2. 0 + m <= Len(f)
    BY <1>3
  <2>3. o \in Seq(Cell) /\ h \in Seq(Frame) /\ AreBytesOf(o, h)
    BY <2>1, <2>2, <1>1, <1>2, <1>4, BytesOfStretch
  <2>4. 0 * c = 0
    OBVIOUS
  <2>5. o = Oldest(r, m * c)
    BY <2>1, <2>4, <1>8
  <2> QED
    BY <2>1, <2>3, <2>5, FramesOf
<1> QED
  BY <1>1, <1>2, <1>3, <1>7, <1>8, <1>9, <1>10 DEF Holds, TrackRing

-----------------------------------------------------------------------------
(* What is heard.                                                          *)

\* The strips, and the rings of the tracks that play whole frames.
DeskInv ==
  /\ rolling \in BOOLEAN /\ input \in [Tracks -> Nat] /\ monitoring \in [Tracks -> BOOLEAN]
  /\ now \in Nat /\ fed \in [Tracks -> Nat]
  /\ DOMAIN inbound = Tracks
  /\ \A t \in Tracks : \E f : Holds(inbound[t], f)

LEMMA TracksAreInt == Tracks \subseteq Int /\ n_sends - 1 \in Nat
  BY RecorderAssumption DEF Tracks

LEMMA InLaneIsNat == ASSUME DeskInv, NEW t \in Tracks PROVE in_lane(t) \in Nat
  BY TracksAreInt DEF DeskInv, in_lane, Lesser

\* Each track starts with an empty ring.
LEMMA InitDeskInv == Init => DeskInv
<1> SUFFICES ASSUME Init PROVE DeskInv
  OBVIOUS
<1>1. \A t \in Tracks : Lesser(t - 1, n_sends - 1) \in Nat
  BY RecorderAssumption DEF Tracks, Lesser
<1>2. input \in [Tracks -> Nat]
  BY <1>1 DEF Init
<1>3. DOMAIN inbound = Tracks /\ \A t \in Tracks : Holds(inbound[t], <<>>)
  BY HoldsNothing DEF Init
<1> QED
  BY <1>2, <1>3 DEF Init, DeskInv

\* What feeding does to a track's ring: it continues with the frames, or is full.
LEMMA FeedHolds ==
  ASSUME NEW r, NEW f, Holds(r, f), NEW g \in Seq(Frame)
  PROVE  \/ Holds(Write(r, AllBytes(g)), f)
         \/ Holds(Write(r, AllBytes(g)), f \o g)
<1>1. CASE Refused(r, AllBytes(g))
  <2>1. Write(r, AllBytes(g)) = r
    BY <1>1 DEF Write
  <2> QED
    BY <2>1
<1>2. CASE ~ Refused(r, AllBytes(g))
  BY <1>2, HoldsWrite
<1> QED
  BY <1>1, <1>2

LEMMA ChunkIsFrames ==
  ASSUME NEW t \in Int, NEW k \in Nat, NEW n \in Nat
  PROVE  [i \in 1..n |-> <<-t, k + i>>] \in Seq(Frame)
<1>1. \A i \in 1..n : <<-t, k + i>> \in Frame
  BY DEF Frame
<1>2. PICK f : f = [i \in 1..n |-> <<-t, k + i>>]
  OBVIOUS
<1>3. f \in [1..n -> Frame]
  BY <1>1, <1>2
<1>4. f \in Seq(Frame)
  BY ONLY <1>3, n \in Nat
<1> QED
  BY <1>2, <1>4

\* A gesture leaves the strips' types, the clock and what was heard, and a ring
\* as it is, or continued.
LEMMA HostFeeds ==
  ASSUME DeskInv, NEW d, Host(d)
  PROVE  /\ rolling' \in BOOLEAN /\ input' \in [Tracks -> Nat]
         /\ monitoring' \in [Tracks -> BOOLEAN] /\ fed' \in [Tracks -> Nat]
         /\ now' = now /\ heard' = heard
         /\ DOMAIN inbound' = Tracks
         /\ \A t \in Tracks : \A f : Holds(inbound[t], f) =>
              Holds(inbound'[t], f) \/ \E g \in Seq(Frame) : Holds(inbound'[t], f \o g)
<1> USE DEF DeskInv, Daw, Strip, block, Controls, rings, history, strips, transport
<1>1. CASE transport_play(d) \/ transport_stop(d) \/ (\E on \in BOOLEAN : transport_record_enable(d, on))
           \/ (\E pos \in AskedPositions : transport_seek(d, pos))
  BY <1>1 DEF transport_play, transport_stop, transport_record_enable, transport_seek
<1>2. ASSUME NEW t \in AskedTracks, NEW lane \in AskedLanes, set_track_input(d, t, lane)
      PROVE  input' \in [Tracks -> Nat] /\ UNCHANGED <<rolling, monitoring, fed, now, heard, inbound>>
  <2>1. lane \in Nat
    BY RecorderAssumption
  <2> QED
    BY <1>2, <2>1 DEF set_track_input
<1>3. ASSUME NEW t \in AskedTracks, NEW on \in BOOLEAN, set_track_armed(d, t, on)
      PROVE  UNCHANGED <<rolling, input, monitoring, fed, now, heard, inbound>>
  BY <1>3 DEF set_track_armed
<1>4. ASSUME NEW t \in AskedTracks, NEW on \in BOOLEAN, set_track_monitoring(d, t, on)
      PROVE  /\ monitoring' \in [Tracks -> BOOLEAN]
             /\ UNCHANGED <<rolling, input, fed, now, heard, inbound>>
  BY <1>4 DEF set_track_monitoring
<1>5. ASSUME NEW t \in AskedTracks, NEW gain \in AskedLevels, set_track_level(d, t, gain)
      PROVE  UNCHANGED <<rolling, input, monitoring, fed, now, heard, inbound>>
  BY <1>5 DEF set_track_level
<1>6. ASSUME NEW t \in AskedTracks, drain_record(d, t)
      PROVE  UNCHANGED <<rolling, input, monitoring, fed, now, heard, inbound>>
  BY <1>6 DEF drain_record
<1>7. ASSUME NEW t \in AskedTracks, NEW n \in ChunkLens, feed_playback(d, t, n)
      PROVE  /\ fed' \in [Tracks -> Nat] /\ DOMAIN inbound' = Tracks
             /\ UNCHANGED <<rolling, input, monitoring, now, heard>>
             /\ \A u \in Tracks : \A f : Holds(inbound[u], f) =>
                  Holds(inbound'[u], f) \/ \E g \in Seq(Frame) : Holds(inbound'[u], f \o g)
  <2>1. n \in Nat /\ t \in Tracks /\ t \in Int /\ fed[t] \in Nat
    <3>1. n \in Nat
      BY RecorderAssumption
    <3>2. t \in Tracks
      BY <1>7 DEF feed_playback
    <3> QED
      BY <3>1, <3>2, TracksAreInt
  <2>2. PICK g \in Seq(Frame) : g = [i \in 1..n |-> <<-t, fed[t] + i>>]
    BY <2>1, ChunkIsFrames
  <2>3. inbound' = [inbound EXCEPT ![t] = Write(@, AllBytes(g))]
    BY <1>7, <2>2 DEF feed_playback
  <2>4. fed' = [fed EXCEPT ![t] = @ + n] /\ UNCHANGED <<rolling, input, monitoring, now, heard>>
    BY <1>7 DEF feed_playback
  <2>5. fed' \in [Tracks -> Nat] /\ DOMAIN inbound' = Tracks
    BY <2>1, <2>3, <2>4
  <2>6. ASSUME NEW u \in Tracks, NEW f, Holds(inbound[u], f)
        PROVE  Holds(inbound'[u], f) \/ Holds(inbound'[u], f \o g)
    <3>1. CASE u = t
      <4>1. inbound'[u] = Write(inbound[u], AllBytes(g))
        BY <3>1, <2>1, <2>3
      <4> QED
        BY <4>1, <2>6, FeedHolds
    <3>2. CASE u # t
      <4>1. inbound'[u] = inbound[u]
        BY <3>2, <2>3
      <4> QED
        BY <4>1, <2>6
    <3> QED
      BY <3>1, <3>2
  <2> QED
    BY <2>4, <2>5, <2>6
<1> QED
  BY <1>1, <1>2, <1>3, <1>4, <1>5, <1>6, <1>7 DEF Host

\* Of the frames f of a track's ring, a block plays as many as there are.
Play(f) == Lesser(BlockLen, Len(f))

LEMMA ConsumedIs ==
  ASSUME NEW t \in Tracks, NEW f, Holds(inbound[t], f)
  PROVE  /\ f \in Seq(Frame) /\ Play(f) \in Nat /\ Play(f) <= Len(f)
         /\ Consumed(t) = Play(f) * FrameBytes
<1>1. f \in Seq(Frame) /\ inbound[t].len \div FrameBytes = Len(f)
  BY HoldsFrames DEF Holds
<1>2. BlockLen \in Nat /\ Len(f) \in Nat
  BY <1>1, RecorderAssumption
<1> QED
  BY <1>1, <1>2 DEF Play, Lesser, Consumed

\* The frames left by a block are those the desk leaves.
LEMMA LeftAsOnTheDesk ==
  ASSUME NEW f \in Seq(Frame)
  PROVE  Stretch(f, Play(f), Len(f) - Play(f)) = SubSeq(f, BlockLen + 1, Len(f))
<1>1. PICK n \in Nat, b \in Nat : n = Len(f) /\ b = BlockLen
  BY RecorderAssumption
<1>2. CASE b < n
  <2>1. Play(f) = b /\ b + (n - b) = n
    BY <1>1, <1>2 DEF Play, Lesser
  <2> QED
    BY <2>1, <1>1 DEF Stretch
<1>3. CASE n <= b
  <2>1. Play(f) = n /\ n - n = 0 /\ n + 0 < n + 1 /\ n < b + 1
    BY <1>1, <1>3 DEF Play, Lesser
  <2>2. SubSeq(f, n + 1, n + 0) = <<>> /\ SubSeq(f, b + 1, n) = <<>>
    BY <2>1, SubSeqEmpty
  <2> QED
    BY <2>1, <2>2, <1>1 DEF Stretch
<1> QED
  BY <1>2, <1>3

\* A block plays the oldest frames of a track's ring, whole, and leaves the rest.
LEMMA QuantumHolds ==
  ASSUME NEW t \in Tracks, NEW f, Holds(inbound[t], f), Process
  PROVE  /\ Holds(inbound'[t], IF rolling THEN SubSeq(f, BlockLen + 1, Len(f)) ELSE f)
         /\ rolling => PlayedFrames(t) = Stretch(f, 0, Play(f))
<1>1. /\ f \in Seq(Frame) /\ Play(f) \in Nat /\ Play(f) <= Len(f)
      /\ Consumed(t) = Play(f) * FrameBytes
  BY ConsumedIs
<1>2. inbound'[t] = IF rolling THEN Read(inbound[t], Consumed(t)) ELSE inbound[t]
  BY DEF Process, Plays
<1>3. /\ Holds(Read(inbound[t], Consumed(t)), SubSeq(f, BlockLen + 1, Len(f)))
      /\ Frames(Oldest(inbound[t], Consumed(t))) = Stretch(f, 0, Play(f))
  BY <1>1, HoldsRead, LeftAsOnTheDesk
<1> QED
  BY <1>2, <1>3 DEF PlayedFrames, Plays

\* The i-th sample a track plays is the i-th of its frames while it rolls.
LEMMA PlayedSample ==
  ASSUME NEW t \in Tracks, NEW f, Holds(inbound[t], f), Process, NEW i \in 1..BlockLen
  PROVE  (IF i \in DOMAIN PlayedFrames(t) THEN PlayedFrames(t)[i] ELSE <<0, 0>>)
           = IF rolling /\ i <= Len(f) THEN f[i] ELSE <<0, 0>>
<1>1. CASE rolling
  <2>1. /\ f \in Seq(Frame) /\ Play(f) \in Nat /\ Play(f) <= Len(f)
    BY ConsumedIs
  <2>2. PICK p \in Seq(Frame) : /\ p = PlayedFrames(t) /\ Len(p) = Play(f)
                                /\ \A j \in 1..Play(f) : p[j] = f[j]
    BY <1>1, <2>1, QuantumHolds, BeginningOf
  <2>3. DOMAIN p = 1..Play(f)
    BY <2>2
  <2>4. i \in 1..Play(f) <=> i <= Len(f)
    <3>1. BlockLen \in Nat /\ Len(f) \in Nat
      BY <2>1, RecorderAssumption
    <3> QED
      BY <3>1 DEF Play, Lesser
  <2> QED
    BY <1>1, <2>2, <2>3, <2>4
<1>2. CASE ~ rolling
  <2>1. PlayedFrames(t) = <<>>
    BY <1>2 DEF PlayedFrames, Plays
  <2>2. i \notin DOMAIN <<>>
    OBVIOUS
  <2> QED
    BY <1>2, <2>1, <2>2
<1> QED
  BY <1>1, <1>2

\* Every step keeps it.
LEMMA NextDeskInv == DeskInv /\ [Next]_vars => DeskInv'
<1> SUFFICES ASSUME DeskInv, [Next]_vars PROVE DeskInv'
  OBVIOUS
<1>1. ASSUME NEW d \in Devices, Host(d) PROVE DeskInv'
  <2>1. \A t \in Tracks : \E f : Holds(inbound'[t], f)
    <3> SUFFICES ASSUME NEW t \in Tracks PROVE \E f : Holds(inbound'[t], f)
      OBVIOUS
    <3>1. PICK f : Holds(inbound[t], f)
      BY DEF DeskInv
    <3>2. Holds(inbound'[t], f) \/ \E g \in Seq(Frame) : Holds(inbound'[t], f \o g)
      BY <1>1, <3>1, HostFeeds
    <3> QED
      BY <3>2
  <2>2. /\ rolling' \in BOOLEAN /\ input' \in [Tracks -> Nat]
        /\ monitoring' \in [Tracks -> BOOLEAN] /\ fed' \in [Tracks -> Nat]
        /\ now' = now /\ DOMAIN inbound' = Tracks
    BY <1>1, HostFeeds
  <2> QED
    BY <2>1, <2>2 DEF DeskInv
<1>2. CASE Quantum
  <2>1. \A t \in Tracks : \E f : Holds(inbound'[t], f)
    <3> SUFFICES ASSUME NEW t \in Tracks PROVE \E f : Holds(inbound'[t], f)
      OBVIOUS
    <3>1. PICK f : Holds(inbound[t], f)
      BY DEF DeskInv
    <3>2. Process
      BY <1>2 DEF Quantum
    <3> QED
      BY <3>1, <3>2, QuantumHolds
  <2>2. now' \in Nat
    BY <1>2, RecorderAssumption DEF Quantum, DeskInv
  <2>3. UNCHANGED <<rolling, input, monitoring, fed>> /\ DOMAIN inbound' = Tracks
    BY <1>2 DEF Quantum, Process
  <2> QED
    BY <2>1, <2>2, <2>3 DEF DeskInv
<1>3. CASE UNCHANGED vars
  BY <1>3 DEF vars, transport, strips, rings, block, history, DeskInv
<1> QED
  BY <1>1, <1>2, <1>3 DEF Next

\* A fresh recorder is a desk nothing was fed to.
LEMMA InitIsDesk == Init => Desk!Init
<1> SUFFICES ASSUME Init PROVE Desk!Init
  OBVIOUS
<1>1. ASSUME NEW t \in Tracks PROVE Playback(t) = <<>>
  <2>1. inbound[t] = WithCapacity(RingFrames * FrameBytes)
    BY DEF Init
  <2> QED
    BY <2>1, HoldsNothing, HoldsFrames DEF Playback
<1>2. now = 0
  BY DEF Init
<1> QED
  BY <1>1, <1>2 DEF Desk!Init

\* What was stored first is heard first.
LEMMA ContinuationIsPrefix ==
  ASSUME NEW f \in Seq(Frame), NEW g \in Seq(Frame) PROVE IsPrefix(f, f \o g)
<1>1. PICK h \in Seq(Frame) : /\ h = f \o g /\ Len(h) = Len(f) + Len(g)
                              /\ \A j \in 1..Len(f) : h[j] = f[j]
  <2>1. /\ f \o g \in Seq(Frame) /\ Len(f \o g) = Len(f) + Len(g)
        /\ \A j \in 1..Len(f) : (f \o g)[j] = f[j]
    BY ConcatOf
  <2> QED
    BY <2>1
<1>2. PICK n \in Nat : n = Len(f) /\ n <= Len(f) /\ n <= Len(h)
  <2>1. Len(f) \in Nat /\ Len(g) \in Nat
    OBVIOUS
  <2> QED
    BY <1>1, <2>1
<1>3. PICK a \in Seq(Frame) : a = Stretch(f, 0, n) /\ Len(a) = n /\ \A j \in 1..n : a[j] = f[j]
  <2>1. /\ Stretch(f, 0, n) \in Seq(Frame) /\ Len(Stretch(f, 0, n)) = n
        /\ \A j \in 1..n : Stretch(f, 0, n)[j] = f[j]
    <3>1. n <= Len(f)
      BY <1>2
    <3> QED
      BY ONLY n \in Nat, f \in Seq(Frame), <3>1, BeginningOf
  <2> QED
    BY <2>1
<1>4. PICK b \in Seq(Frame) : b = Stretch(h, 0, n) /\ Len(b) = n /\ \A j \in 1..n : b[j] = h[j]
  <2>1. /\ Stretch(h, 0, n) \in Seq(Frame) /\ Len(Stretch(h, 0, n)) = n
        /\ \A j \in 1..n : Stretch(h, 0, n)[j] = h[j]
    BY <1>2, BeginningOf
  <2> QED
    BY <2>1
<1>5. \A j \in 1..Len(a) : a[j] = b[j]
  BY <1>1, <1>2, <1>3, <1>4
<1>6. a = b
  BY <1>3, <1>4, <1>5, SeqEqual
<1>7. 0 + 1 = 1 /\ 0 + n = n
  OBVIOUS
<1>8. SubSeq(f, 1, n) = SubSeq(h, 1, n)
  BY <1>3, <1>4, <1>6, <1>7, Zenon DEF Stretch
<1> QED
  BY <1>1, <1>2, <1>8 DEF IsPrefix

LEMMA SelfIsPrefix == ASSUME NEW f \in Seq(Frame) PROVE IsPrefix(f, f)
  BY DEF IsPrefix

\* Every gesture of the host is one of the desk's.
LEMMA HostIsGesture == ASSUME DeskInv, NEW d, Host(d) PROVE Desk!Gesture
<1>1. ASSUME NEW t \in Tracks
      PROVE  IsPrefix(Playback(t), Playback(t)') /\ Len(Playback(t)') <= RingFrames
  <2>1. PICK f : Holds(inbound[t], f)
    BY DEF DeskInv
  <2>2. f \in Seq(Frame) /\ Playback(t) = f
    BY <2>1, HoldsFrames DEF Holds, Playback
  <2>3. CASE Holds(inbound'[t], f)
    <3>1. Playback(t)' = f /\ Len(f) <= RingFrames
      BY <2>3, HoldsFrames DEF Playback
    <3> QED
      BY <2>2, <3>1, SelfIsPrefix
  <2>4. ASSUME NEW g \in Seq(Frame), Holds(inbound'[t], f \o g)
        PROVE  IsPrefix(Playback(t), Playback(t)') /\ Len(Playback(t)') <= RingFrames
    <3>1. Playback(t)' = f \o g /\ Len(f \o g) <= RingFrames
      BY <2>4, HoldsFrames DEF Playback
    <3> QED
      BY <2>2, <3>1, ContinuationIsPrefix
  <2>5. Holds(inbound'[t], f) \/ \E g \in Seq(Frame) : Holds(inbound'[t], f \o g)
    BY <2>1, HostFeeds
  <2> QED
    BY <2>3, <2>4, <2>5
<1>2. ASSUME NEW t \in Tracks PROVE (IF monitoring[t] THEN in_lane(t) ELSE -1)' \in Int
  <2>1. input'[t] \in Nat
    BY HostFeeds
  <2>2. in_lane(t)' \in Nat
    BY <2>1, TracksAreInt DEF in_lane, Lesser
  <2> QED
    BY <2>2
<1>3. rolling' \in BOOLEAN /\ now' = now /\ heard' = heard
  BY HostFeeds
<1> QED
  <2>1. \A t \in Tracks : /\ Desk!IsPrefix(Playback(t), Playback(t)')
                          /\ Len(Playback(t)') <= RingFrames
    BY <1>1 DEF IsPrefix, Desk!IsPrefix
  <2>2. \A t \in Tracks :
          [u \in Tracks |-> IF monitoring[u] THEN in_lane(u) ELSE -1]'[t] \in Int
    BY <1>2
  <2>3. UNCHANGED [t \in Tracks |-> [i \in 1..BlockLen |->
                     [play |-> heard[t][i].play, send |-> heard[t][i].send]]]
    BY <1>3
  <2>4. \A t \in Tracks : /\ [u \in Tracks |-> Playback(u)][t] = Playback(t)
                          /\ [u \in Tracks |-> Playback(u)]'[t] = Playback(t)'
    OBVIOUS
  <2> HIDE DEF Playback
  <2> QED
    BY <1>3, <2>1, <2>2, <2>3, <2>4 DEF Desk!Gesture

\* Every block of the recorder is one of the desk's.
LEMMA QuantumIsBlock == ASSUME DeskInv, Quantum PROVE Desk!Block
<1>1. Process /\ now' = now + BlockLen /\ UNCHANGED <<rolling, input, monitoring>>
  BY DEF Quantum
<1>2. ASSUME NEW t \in Tracks
      PROVE  Playback(t)' = IF rolling THEN SubSeq(Playback(t), BlockLen + 1, Len(Playback(t)))
                            ELSE Playback(t)
  <2>1. PICK f : Holds(inbound[t], f)
    BY DEF DeskInv
  <2>2. Playback(t) = f
    BY <2>1, HoldsFrames DEF Playback
  <2>3. Playback(t)' = IF rolling THEN SubSeq(f, BlockLen + 1, Len(f)) ELSE f
    BY <1>1, <2>1, QuantumHolds, HoldsFrames DEF Playback
  <2> QED
    BY <2>2, <2>3
<1>3. ASSUME NEW t \in Tracks, NEW i \in 1..BlockLen
      PROVE  /\ heard'[t][i].play = Desk!Played(t, i)
             /\ heard'[t][i].send
                  = Desk!SendAt(IF monitoring[t] THEN in_lane(t) ELSE -1, now + i)
  <2>1. PICK f : Holds(inbound[t], f)
    BY DEF DeskInv
  <2>2. Playback(t) = f
    BY <2>1, HoldsFrames DEF Playback
  <2>3. heard'[t][i] = [play |-> IF i \in DOMAIN PlayedFrames(t) THEN PlayedFrames(t)[i] ELSE Silence,
                        send |-> IF monitoring[t] THEN Live(t)[i] ELSE Silence,
                        gain |-> ValueAt(level[t], i - 1)]
    BY <1>1 DEF Process, Strips
  <2>4. heard'[t][i].play = IF rolling /\ i <= Len(f) THEN f[i] ELSE <<0, 0>>
    BY <1>1, <2>1, <2>3, PlayedSample DEF Silence
  <2>5. in_lane(t) \in Nat /\ Live(t)[i] = <<in_lane(t), now + i>>
    BY InLaneIsNat DEF Live
  <2>6. heard'[t][i].send = IF monitoring[t] THEN <<in_lane(t), now + i>> ELSE <<0, 0>>
    BY <2>3, <2>5 DEF Silence
  <2>7. Desk!Played(t, i) = IF rolling /\ i <= Len(f) THEN f[i] ELSE <<0, 0>>
    BY <2>2 DEF Desk!Played, Desk!Silence
  <2>8. Desk!SendAt(IF monitoring[t] THEN in_lane(t) ELSE -1, now + i)
          = IF monitoring[t] THEN <<in_lane(t), now + i>> ELSE <<0, 0>>
    BY <2>5 DEF Desk!SendAt, Desk!NoSend, Desk!Silence
  <2> QED
    BY <2>4, <2>6, <2>7, <2>8
<1> QED
  <2>1. [t \in Tracks |-> Playback(t)]'
          = [t \in Tracks |-> IF rolling THEN SubSeq(Playback(t), BlockLen + 1, Len(Playback(t)))
                              ELSE Playback(t)]
    BY <1>2
  <2>2. [t \in Tracks |-> [i \in 1..BlockLen |->
          [play |-> heard[t][i].play, send |-> heard[t][i].send]]]'
          = [t \in Tracks |-> [i \in 1..BlockLen |->
               [play |-> Desk!Played(t, i),
                send |-> Desk!SendAt(IF monitoring[t] THEN in_lane(t) ELSE -1, now + i)]]]
    BY <1>3
  <2>3. \A t \in Tracks : in_lane(t)' = in_lane(t)
    BY <1>1 DEF in_lane
  <2>4. UNCHANGED [t \in Tracks |-> IF monitoring[t] THEN in_lane(t) ELSE -1]
    BY <1>1, <2>3
  <2>5. \A t \in Tracks :
          /\ [u \in Tracks |-> Playback(u)][t] = Playback(t)
          /\ [u \in Tracks |-> IF monitoring[u] THEN in_lane(u) ELSE -1][t]
               = IF monitoring[t] THEN in_lane(t) ELSE -1
    OBVIOUS
  <2> QED
    BY <1>1, <2>1, <2>2, <2>4, <2>5 DEF Desk!Block

\* Overdubbing is untorn: whatever is armed, enabled, recorded and drained, at
\* whatever sizes the host feeds and drains, MultitrackRecorder::process plays the
\* frames fed to a track in their order, each once and whole, while the transport
\* rolls, and hears the track's own send; what does not fit a ring is lost whole.
THEOREM RecorderImplementsDesk == Spec => PlaysAsOnTheDesk
<1>1. DeskInv /\ [Next]_vars =>
        [Desk!Block \/ Desk!Gesture]_<<rolling,
          [t \in Tracks |-> IF monitoring[t] THEN in_lane(t) ELSE -1],
          [t \in Tracks |-> Playback(t)], now,
          [t \in Tracks |-> [i \in 1..BlockLen |->
             [play |-> heard[t][i].play, send |-> heard[t][i].send]]]>>
  <2>1. CASE UNCHANGED vars
    BY <2>1 DEF vars, transport, strips, rings, block, history, Playback, in_lane
  <2> QED
    BY <2>1, HostIsGesture, QuantumIsBlock DEF Next
<1> QED
  BY <1>1, InitIsDesk, InitDeskInv, NextDeskInv, PTL DEF Spec, PlaysAsOnTheDesk, Desk!Spec

-----------------------------------------------------------------------------
(* What is recorded.                                                       *)

\* What is kept of the frames d a track was to record by the sample `now`: frames
\* of d, each of a later sample than the one before.
KeptOf(kept, d, until) ==
  /\ kept \in Seq(Frame)
  /\ \A i, j \in 1..Len(kept) : i < j => kept[i][2] < kept[j][2]
  /\ \A i \in 1..Len(kept) : kept[i][2] <= until
  /\ \A i \in 1..Len(kept) : \E k \in 1..Len(d) : kept[i] = d[k]

\* The track t gave the frames a to the host, and holds the frames f.
Takes(t, a, f) ==
  /\ drained[t] \in Seq(Cell) /\ a \in Seq(Frame) /\ AreBytesOf(drained[t], a)
  /\ Holds(outbound[t], f)
  /\ KeptOf(a \o f, due[t], now)
  /\ t \notin gaps => a \o f = due[t]

TakesInv ==
  /\ due \in [Tracks -> Seq(Frame)]
  /\ DOMAIN drained = Tracks /\ DOMAIN outbound = Tracks
  /\ \A t \in Tracks : \E a, f : Takes(t, a, f)

LEMMA NothingIsBytes == <<>> \in Seq(Cell) /\ <<>> \in Seq(Frame) /\ AreBytesOf(<<>>, <<>>)
<1>1. Len(<<>>) = 0 /\ 0 * FrameBytes = 0
  BY FrameHasBytes
<1> QED
  BY <1>1 DEF AreBytesOf

\* Nothing was recorded at first.
LEMMA InitTakesInv == Init => TakesInv
<1> SUFFICES ASSUME Init PROVE TakesInv
  OBVIOUS
<1>1. ASSUME NEW t \in Tracks PROVE Takes(t, <<>>, <<>>)
  <2>1. drained[t] = <<>> /\ due[t] = <<>> /\ outbound[t] = WithCapacity(RingFrames * FrameBytes)
    BY DEF Init
  <2>2. <<>> \o <<>> = <<>>
    OBVIOUS
  <2>3. KeptOf(<<>>, <<>>, now)
    BY NothingIsBytes DEF KeptOf
  <2> QED
    BY <2>1, <2>2, <2>3, NothingIsBytes, HoldsNothing DEF Takes
<1> QED
  BY <1>1, NothingIsBytes DEF TakesInv, Init

\* Draining hands the host what is held, and leaves nothing.
LEMMA DrainTakes ==
  ASSUME NEW r, NEW f, Holds(r, f), NEW d \in Seq(Cell), NEW a \in Seq(Frame), AreBytesOf(d, a)
  PROVE  /\ d \o Drained(r) \in Seq(Cell) /\ a \o f \in Seq(Frame)
         /\ AreBytesOf(d \o Drained(r), a \o f)
         /\ Holds(Drain(r), <<>>) /\ (a \o f) \o <<>> = a \o f
<1>1. PICK n \in Nat : n = Len(f) /\ n <= Len(f)
  BY DEF Holds
<1>2. f \in Seq(Frame) /\ AreBytesOf(Drained(r), f) /\ Drained(r) \in Seq(Cell)
      /\ r.len = n * FrameBytes
  BY <1>1, HoldsFrames DEF Holds
<1>3. AreBytesOf(d \o Drained(r), a \o f)
  BY <1>2, BytesOfConcat
<1>4. Holds(Drain(r), Stretch(f, n, n - n))
  BY <1>1, <1>2, HoldsRead DEF Drain
<1>5. Stretch(f, n, n - n) = <<>>
  <2>1. n - n = 0 /\ n + 0 < n + 1
    BY <1>1
  <2> QED
    BY <2>1, <1>1, <1>2, SubSeqEmpty DEF Stretch
<1>6. d \o Drained(r) \in Seq(Cell) /\ a \o f \in Seq(Frame)
  BY <1>2, ConcatOf
<1>7. (a \o f) \o <<>> = a \o f
  BY <1>6, ConcatEmptySeq
<1> QED
  BY <1>3, <1>4, <1>5, <1>6, <1>7

\* A block of frames that begins after the sample n.
IsLive(live, b, n) ==
  /\ live \in Seq(Frame) /\ Len(live) = b
  /\ \A i \in 1..b : live[i][2] = n + i

LEMMA SampleIsInt == ASSUME NEW f \in Frame PROVE f[2] \in Int
  BY DEF Frame

\* A sequence that goes on, with its lengths named.
LEMMA Continued ==
  ASSUME NEW a \in Seq(Frame), NEW b \in Seq(Frame),
         NEW l \in Nat, l = Len(a), NEW m \in Nat, m = Len(b)
  PROVE  /\ a \o b \in Seq(Frame) /\ Len(a \o b) = l + m
         /\ \A j \in 1..l : (a \o b)[j] = a[j]
         /\ \A j \in 1..m : (a \o b)[l + j] = b[j]
  BY ConcatOf

\* Of frames in the order of their samples, the first m continue what is kept of
\* an earlier time.
LEMMA KeepsMore ==
  ASSUME NEW kept, NEW d \in Seq(Frame), NEW n \in Nat, KeptOf(kept, d, n),
         NEW live, NEW b \in Nat, IsLive(live, b, n),
         NEW m \in Nat, m <= b, NEW later, later = n + b
  PROVE  KeptOf(kept \o Stretch(live, 0, m), d \o live, later)
<1>1. PICK l \in Nat : kept \in Seq(Frame) /\ l = Len(kept)
  BY DEF KeptOf
<1>2. PICK g \in Seq(Frame) : /\ g = Stretch(live, 0, m) /\ Len(g) = m
                              /\ \A j \in 1..m : g[j] = live[j]
  <2>1. live \in Seq(Frame) /\ m <= Len(live)
    BY DEF IsLive
  <2>2. /\ Stretch(live, 0, m) \in Seq(Frame) /\ Len(Stretch(live, 0, m)) = m
        /\ \A j \in 1..m : Stretch(live, 0, m)[j] = live[j]
    BY <2>1, BeginningOf
  <2> QED
    BY <2>2
<1>3. PICK w \in Seq(Frame) : /\ w = kept \o g /\ Len(w) = l + m
                              /\ \A j \in 1..l : w[j] = kept[j]
                              /\ \A j \in 1..m : w[l + j] = g[j]
  <2>1. /\ kept \o g \in Seq(Frame) /\ Len(kept \o g) = l + m
        /\ \A j \in 1..l : (kept \o g)[j] = kept[j]
        /\ \A j \in 1..m : (kept \o g)[l + j] = g[j]
    <3>1. /\ kept \in Seq(Frame) /\ l \in Nat /\ l = Len(kept)
          /\ g \in Seq(Frame) /\ m \in Nat /\ m = Len(g)
      BY <1>1, <1>2
    <3> QED
      BY ONLY <3>1, Continued
  <2> QED
    BY <2>1
<1>4. PICK e \in Seq(Frame), k \in Nat :
        /\ e = d \o live /\ k = Len(d) /\ Len(e) = k + b
        /\ \A j \in 1..k : e[j] = d[j]
        /\ \A j \in 1..b : e[k + j] = live[j]
  <2>1. PICK k \in Nat : k = Len(d)
    OBVIOUS
  <2>2. /\ d \o live \in Seq(Frame) /\ Len(d \o live) = k + b
        /\ \A j \in 1..k : (d \o live)[j] = d[j]
        /\ \A j \in 1..b : (d \o live)[k + j] = live[j]
    <3>1. live \in Seq(Frame) /\ b = Len(live)
      BY DEF IsLive
    <3> QED
      BY <2>1, <3>1, Continued
  <2> QED
    BY <2>1, <2>2
<1>5. \A i \in 1..l : \A j \in 1..l : i < j => kept[i][2] < kept[j][2]
  BY <1>1 DEF KeptOf
<1>6. \A i \in 1..l : kept[i][2] <= n /\ kept[i][2] \in Int
  BY <1>1 DEF KeptOf, Frame
<1>7. ASSUME NEW i \in 1..(l + m)
      PROVE  i \in 1..l \/ \E j \in 1..m : i = l + j
  <2>1. CASE i <= l
    BY <2>1
  <2>2. CASE i > l
    <3>1. i - l \in 1..m /\ i = l + (i - l)
      BY <2>2
    <3> QED
      BY <3>1
  <2> QED
    BY <2>1, <2>2
<1>8. ASSUME NEW j \in 1..m PROVE w[l + j][2] = n + j /\ w[l + j] = live[j] /\ j \in 1..b
  <2>1. j \in 1..b
    OBVIOUS
  <2>2. w[l + j] = live[j]
    BY <1>2, <1>3
  <2>3. live[j][2] = n + j
    BY <2>1 DEF IsLive
  <2> QED
    BY <2>1, <2>2, <2>3
<1>9. ASSUME NEW i \in 1..(l + m), NEW j \in 1..(l + m), i < j PROVE w[i][2] < w[j][2]
  <2>1. CASE i \in 1..l /\ j \in 1..l
    BY <2>1, <1>3, <1>5, <1>9
  <2>2. ASSUME i \in 1..l, NEW q \in 1..m, j = l + q PROVE w[i][2] < w[j][2]
    <3>1. w[i] = kept[i] /\ kept[i][2] <= n /\ kept[i][2] \in Int
      BY ONLY <2>2, <1>3, <1>6
    <3>2. w[j][2] = n + q
      BY <2>2, <1>8
    <3>3. n < n + q /\ n + q \in Int
      BY ONLY n \in Nat, m \in Nat, q \in 1..m
    <3> QED
      BY ONLY <3>1, <3>2, <3>3, n \in Nat
  <2>3. ASSUME NEW p \in 1..m, i = l + p, NEW q \in 1..m, j = l + q PROVE w[i][2] < w[j][2]
    <3>1. p < q
      BY <2>3, <1>9
    <3>2. w[i][2] = n + p
      BY <2>3, <1>8
    <3>3. w[j][2] = n + q
      BY <2>3, <1>8
    <3>4. n + p < n + q
      BY <3>1
    <3> QED
      BY <3>2, <3>3, <3>4
  <2>4. ~ (j \in 1..l /\ i \notin 1..l)
    BY <1>9
  <2> QED
    BY <1>7, <2>1, <2>2, <2>3, <2>4
<1>10. ASSUME NEW i \in 1..(l + m)
       PROVE  w[i][2] <= n + b /\ \E q \in 1..(k + b) : w[i] = e[q]
  <2>1. CASE i \in 1..l
    <3>1. w[i] = kept[i]
      BY <2>1, <1>3
    <3>2. w[i][2] <= n + b
      BY <2>1, <3>1, <1>6
    <3>3. PICK q \in 1..k : kept[i] = d[q]
      BY <2>1, <1>1, <1>4 DEF KeptOf
    <3>4. q \in 1..(k + b) /\ e[q] = d[q]
      BY <1>4
    <3> QED
      BY <3>1, <3>2, <3>3, <3>4
  <2>2. ASSUME NEW j \in 1..m, i = l + j
        PROVE  w[i][2] <= n + b /\ \E q \in 1..(k + b) : w[i] = e[q]
    <3>1. w[i][2] = n + j /\ w[i] = live[j] /\ j \in 1..b
      BY <2>2, <1>8
    <3>2. k + j \in 1..(k + b) /\ e[k + j] = live[j]
      BY <3>1, <1>4
    <3> QED
      BY <3>1, <3>2
  <2> QED
    BY <1>7, <2>1, <2>2
<1>11. KeptOf(w, e, n + b)
  <2>1. \A i, j \in 1..Len(w) : i < j => w[i][2] < w[j][2]
    BY <1>3, <1>9
  <2>2. \A i \in 1..Len(w) : w[i][2] <= n + b
    BY <1>3, <1>10
  <2>3. \A i \in 1..Len(w) : \E q \in 1..Len(e) : w[i] = e[q]
    <3>1. 1..Len(w) = 1..(l + m) /\ 1..Len(e) = 1..(k + b)
      BY <1>3, <1>4
    <3> QED
      BY <3>1, <1>10
  <2> QED
    BY <2>1, <2>2, <2>3, <1>3 DEF KeptOf
<1> QED
  BY <1>2, <1>3, <1>4, <1>11

\* All of them are the whole block.
LEMMA WholeBlock ==
  ASSUME NEW live, NEW b \in Nat, NEW n, IsLive(live, b, n)
  PROVE  Stretch(live, 0, b) = live
<1>1. live \in Seq(Frame) /\ Len(live) = b
  BY DEF IsLive
<1>2. PICK g \in Seq(Frame) : /\ g = Stretch(live, 0, b) /\ Len(g) = b
                              /\ \A j \in 1..b : g[j] = live[j]
  <2>1. b <= Len(live)
    BY <1>1
  <2>2. /\ Stretch(live, 0, b) \in Seq(Frame) /\ Len(Stretch(live, 0, b)) = b
        /\ \A j \in 1..b : Stretch(live, 0, b)[j] = live[j]
    BY <2>1, <1>1, BeginningOf
  <2> QED
    BY <2>2
<1> QED
  BY <1>1, <1>2, SeqEqual

LEMMA LiveSamples ==
  ASSUME DeskInv, NEW t \in Tracks
  PROVE  IsLive(Live(t), BlockLen, now)
<1>1. PICK lane \in Nat, n \in Nat, b \in Nat : lane = in_lane(t) /\ n = now /\ b = BlockLen
  BY InLaneIsNat, RecorderAssumption DEF DeskInv
<1>2. PICK live : live = [i \in 1..b |-> <<lane, n + i>>]
  OBVIOUS
<1>3. \A i \in 1..b : <<lane, n + i>> \in Frame
  BY DEF Frame
<1>4. live \in [1..b -> Frame]
  BY <1>2, <1>3
<1>5. live \in Seq(Frame) /\ Len(live) = b /\ \A i \in 1..b : live[i][2] = n + i
  <2>1. live \in Seq(Frame) /\ Len(live) = b
    BY <1>4
  <2>2. ASSUME NEW i \in 1..b PROVE live[i][2] = n + i
    <3>1. live[i] = <<lane, n + i>>
      BY <1>2
    <3> QED
      BY <3>1
  <2> QED
    BY <2>1, <2>2
<1>6. live = Live(t)
  BY <1>1, <1>2 DEF Live
<1> QED
  BY <1>1, <1>5, <1>6 DEF IsLive

\* A ring takes the beginning of a block that fits it, and all of the block if
\* there is room for it.
LEMMA CaptureHolds ==
  ASSUME NEW r, NEW f, Holds(r, f), NEW live \in Seq(Frame), Len(live) = BlockLen
  PROVE  \E m \in Nat :
           /\ m <= BlockLen
           /\ Holds(Capture(r, live), f \o Stretch(live, 0, m))
           /\ ~ (Free(r) < BlockLen * FrameBytes) => m = BlockLen
<1>1. PICK b \in Nat, c \in Nat \ {0} : b = BlockLen /\ c = FrameBytes
  BY RecorderAssumption
<1>2. PICK free \in Nat : free = Free(r)
  BY DEF Holds, TrackRing, RingOf, Free, Capacity
<1>3. PICK q \in Nat : q = free \div c /\ q * c <= free
  BY DivBelow
<1>4. PICK m \in Nat : m = Fitting(r) /\ m <= b /\ m <= q /\ (b <= q => m = b)
  BY <1>1, <1>2, <1>3, SMTT(30) DEF Fitting, Lesser
<1>5. m * c <= free
  <2>1. m * c <= q * c /\ m * c \in Nat /\ q * c \in Nat
    BY <1>4, Monotone
  <2> QED
    BY <2>1, <1>3
<1>6. PICK g \in Seq(Frame) : g = Stretch(live, 0, m) /\ Len(g) = m
  BY <1>1, <1>4, BeginningOf
<1>7. Capture(r, live) = Write(r, AllBytes(g))
  <2>1. 0 + 1 = 1 /\ 0 + m = m
    OBVIOUS
  <2> QED
    BY <2>1, <1>4, <1>6 DEF Capture, Stretch
<1>8. ~ Refused(r, AllBytes(g))
  <2>1. Len(AllBytes(g)) = m * c
    BY <1>1, <1>6, AllBytesOf DEF AreBytesOf
  <2>2. m * c \in Nat
    OBVIOUS
  <2> QED
    BY <2>1, <2>2, <1>2, <1>5 DEF Refused
<1>9. Holds(Capture(r, live), f \o g)
  BY <1>7, <1>8, HoldsWrite
<1>10. ASSUME ~ (free < b * c) PROVE m = b
  <2>1. b * c <= free
    <3>1. b * c \in Nat
      OBVIOUS
    <3> QED
      BY <3>1, <1>10
  <2>2. b <= q
    BY <2>1, <1>3, Fits
  <2> QED
    BY <2>2, <1>4
<1> QED
  BY <1>1, <1>2, <1>4, <1>6, <1>9, <1>10

\* A gesture leaves what is kept of the tracks as it is, or hands it out.
LEMMA HostTakes == ASSUME DeskInv, TakesInv, NEW d, Host(d) PROVE TakesInv'
<1> USE DEF Daw, Strip, block, Controls, rings, history, strips, transport
<1>1. CASE UNCHANGED <<drained, outbound, due, gaps, now>>
  BY <1>1 DEF TakesInv, Takes
<1>2. ASSUME NEW t \in AskedTracks, drain_record(d, t) PROVE TakesInv'
  <2>1. /\ t \in Tracks
        /\ drained' = [drained EXCEPT ![t] = @ \o Drained(outbound[t])]
        /\ outbound' = [outbound EXCEPT ![t] = Drain(@)]
        /\ UNCHANGED <<due, gaps, now>>
    BY <1>2 DEF drain_record
  <2>2. due' \in [Tracks -> Seq(Frame)] /\ DOMAIN drained' = Tracks /\ DOMAIN outbound' = Tracks
    BY <2>1 DEF TakesInv
  <2>3. ASSUME NEW u \in Tracks PROVE \E a, f : Takes(u, a, f)'
    <3>1. PICK a, f : Takes(u, a, f)
      BY DEF TakesInv
    <3>2. CASE u = t
      <4>1. drained'[u] = drained[u] \o Drained(outbound[u]) /\ outbound'[u] = Drain(outbound[u])
        BY <3>2, <2>1 DEF TakesInv
      <4>2. /\ drained'[u] \in Seq(Cell) /\ a \o f \in Seq(Frame)
            /\ AreBytesOf(drained'[u], a \o f)
            /\ Holds(outbound'[u], <<>>) /\ (a \o f) \o <<>> = a \o f
        BY <3>1, <4>1, DrainTakes DEF Takes
      <4>3. /\ KeptOf((a \o f) \o <<>>, due'[u], now')
            /\ u \notin gaps' => (a \o f) \o <<>> = due'[u]
        BY <3>1, <4>2, <2>1 DEF Takes
      <4>4. Takes(u, a \o f, <<>>)'
        BY <4>2, <4>3 DEF Takes
      <4> QED
        BY <4>4
    <3>3. CASE u # t
      <4>1. drained'[u] = drained[u] /\ outbound'[u] = outbound[u]
        BY <3>3, <2>1 DEF TakesInv
      <4>2. Takes(u, a, f)'
        BY <3>1, <4>1, <2>1 DEF Takes
      <4> QED
        BY <4>2
    <3> QED
      BY <3>2, <3>3
  <2> QED
    BY <2>2, <2>3 DEF TakesInv
<1>3. ASSUME \/ transport_play(d) \/ transport_stop(d)
             \/ \E on \in BOOLEAN : transport_record_enable(d, on)
             \/ \E pos \in AskedPositions : transport_seek(d, pos)
      PROVE  UNCHANGED <<drained, outbound, due, gaps, now>>
  BY <1>3 DEF transport_play, transport_stop, transport_record_enable, transport_seek
<1>4. ASSUME NEW t \in AskedTracks,
             \/ \E lane \in AskedLanes : set_track_input(d, t, lane)
             \/ \E on \in BOOLEAN : set_track_armed(d, t, on) \/ set_track_monitoring(d, t, on)
             \/ \E gain \in AskedLevels : set_track_level(d, t, gain)
             \/ \E n \in ChunkLens : feed_playback(d, t, n)
      PROVE  UNCHANGED <<drained, outbound, due, gaps, now>>
  BY <1>4 DEF set_track_input, set_track_armed, set_track_monitoring, set_track_level,
              feed_playback
<1> QED
  BY <1>1, <1>2, <1>3, <1>4 DEF Host

\* A block keeps, of an armed track that records, what fits of its live block.
LEMMA QuantumTakes == ASSUME DeskInv, TakesInv, Quantum PROVE TakesInv'
<1>1. /\ outbound' = [t \in Tracks |->
                        IF Captures(t) THEN Capture(outbound[t], Live(t)) ELSE outbound[t]]
      /\ now' = now + BlockLen /\ drained' = drained
      /\ due' = [t \in Tracks |-> due[t] \o IF Captures(t) THEN Live(t) ELSE <<>>]
      /\ gaps' = gaps \cup {t \in Tracks :
                              Captures(t) /\ Free(outbound[t]) < BlockLen * FrameBytes}
  BY DEF Quantum, Process, AsItArrives
<1>2. ASSUME NEW t \in Tracks PROVE due'[t] \in Seq(Frame) /\ \E a, f : Takes(t, a, f)'
  <2>1. PICK a, f : Takes(t, a, f)
    BY DEF TakesInv
  <2>2. /\ drained'[t] \in Seq(Cell) /\ a \in Seq(Frame) /\ AreBytesOf(drained'[t], a)
        /\ Holds(outbound[t], f) /\ f \in Seq(Frame) /\ due[t] \in Seq(Frame)
        /\ KeptOf(a \o f, due[t], now) /\ (t \notin gaps => a \o f = due[t])
    BY <2>1, <1>1 DEF Takes, Holds, TakesInv
  <2>3. PICK live \in Seq(Frame) : /\ live = Live(t) /\ Len(live) = BlockLen
                                   /\ IsLive(live, BlockLen, now)
    BY LiveSamples DEF IsLive
  <2>4. BlockLen \in Nat /\ now \in Nat
    BY RecorderAssumption DEF DeskInv
  <2>5. CASE Captures(t)
    <3>1. outbound'[t] = Capture(outbound[t], live) /\ due'[t] = due[t] \o live
      BY <1>1, <2>3, <2>5
    <3>2. PICK m \in Nat : /\ m <= BlockLen
                           /\ Holds(outbound'[t], f \o Stretch(live, 0, m))
                           /\ ~ (Free(outbound[t]) < BlockLen * FrameBytes) => m = BlockLen
      BY <2>2, <2>3, <3>1, CaptureHolds
    <3>3. (t \in gaps \/ m < BlockLen) => t \in gaps'
      BY <1>1, <2>4, <2>5, <3>2
    <3>4. /\ KeptOf((a \o f) \o Stretch(live, 0, m), due[t] \o live, now + BlockLen)
          /\ a \o f = due[t] /\ m = BlockLen =>
               (a \o f) \o Stretch(live, 0, m) = due[t] \o live
      <4>1. PICK kept, d : kept = a \o f /\ d = due[t] /\ d \in Seq(Frame) /\ KeptOf(kept, d, now)
        BY <2>2
      <4>2. PICK b \in Nat, n \in Nat : b = BlockLen /\ n = now
        BY <2>4
      <4>3. PICK later : later = n + b
        OBVIOUS
      <4>4. /\ KeptOf(kept, d, n) /\ IsLive(live, b, n) /\ m <= b
            /\ d \in Seq(Frame) /\ n \in Nat /\ b \in Nat /\ m \in Nat
        BY <2>3, <3>2, <4>1, <4>2
      <4>5. KeptOf(kept \o Stretch(live, 0, m), d \o live, later)
        BY ONLY <4>3, <4>4, KeepsMore
      <4> QED
        BY <4>1, <4>2, <4>3, <4>5, <2>3, WholeBlock
    <3>5. Stretch(live, 0, m) \in Seq(Frame)
      BY <2>3, <3>2, BeginningOf
    <3>6. (a \o f) \o Stretch(live, 0, m) = a \o (f \o Stretch(live, 0, m))
      <4>1. a \in Seq(Frame) /\ f \in Seq(Frame)
        BY <2>2
      <4> QED
        BY <4>1, <3>5, ConcatAssociative, SMTT(30)
    <3>7. t \notin gaps' => t \notin gaps /\ m = BlockLen
      BY <2>4, <3>2, <3>3
    <3>8. Takes(t, a, f \o Stretch(live, 0, m))'
      BY <1>1, <2>2, <3>1, <3>2, <3>3, <3>4, <3>6, <3>7 DEF Takes
    <3>9. due[t] \o live \in Seq(Frame)
      BY <2>2, ConcatOf
    <3> QED
      BY <3>1, <3>8, <3>9
  <2>6. CASE ~ Captures(t)
    <3>1. outbound'[t] = outbound[t] /\ due'[t] = due[t] \o <<>> /\ (t \in gaps <=> t \in gaps')
      BY <1>1, <2>6
    <3>2. due'[t] = due[t]
      BY <2>2, <3>1, ConcatEmptySeq
    <3>3. KeptOf(a \o f, due[t], now + BlockLen)
      <4>1. PICK w \in Seq(Frame) : w = a \o f
        BY <2>2 DEF KeptOf
      <4>2. \A i \in 1..Len(w) : w[i][2] \in Int /\ w[i][2] <= now
        <5>1. \A i \in 1..Len(w) : w[i][2] <= now
          BY <4>1, <2>2 DEF KeptOf
        <5>2. \A i \in 1..Len(w) : w[i] \in Frame
          BY <4>1
        <5> QED
          BY <5>1, <5>2, SampleIsInt
      <4>3. \A i \in 1..Len(w) : w[i][2] <= now + BlockLen
        BY <4>2, <2>4
      <4> QED
        BY <4>1, <4>3, <2>2, <3>1 DEF KeptOf
    <3>4. Takes(t, a, f)'
      BY <1>1, <2>2, <3>1, <3>2, <3>3 DEF Takes
    <3> QED
      BY <2>2, <3>2, <3>4
  <2> QED
    BY <2>5, <2>6
<1>3. due' \in [Tracks -> Seq(Frame)]
  BY <1>1, <1>2
<1>4. DOMAIN drained' = Tracks /\ DOMAIN outbound' = Tracks
  BY <1>1 DEF TakesInv
<1> QED
  BY <1>2, <1>3, <1>4 DEF TakesInv

LEMMA NextTakesInv == DeskInv /\ TakesInv /\ [Next]_vars => TakesInv'
<1> SUFFICES ASSUME DeskInv, TakesInv, [Next]_vars PROVE TakesInv'
  OBVIOUS
<1>1. CASE UNCHANGED vars
  BY <1>1 DEF vars, transport, strips, rings, block, history, TakesInv, Takes
<1> QED
  BY <1>1, HostTakes, QuantumTakes DEF Next

\* What is kept is read as the frames it is of.
LEMMA TakesAreInput == TakesInv => TakesAreTheInput
<1> SUFFICES ASSUME TakesInv, NEW t \in Tracks,
                    NEW take, take = Frames(drained[t] \o Drained(outbound[t]))
             PROVE  /\ \A i, j \in DOMAIN take : i < j => take[i][2] < take[j][2]
                    /\ ToSet(take) \subseteq ToSet(due[t])
                    /\ t \notin gaps => take = due[t]
  BY DEF TakesAreTheInput
<1>1. PICK a, f : Takes(t, a, f)
  BY DEF TakesInv
<1>2. /\ drained[t] \o Drained(outbound[t]) \in Seq(Cell) /\ a \o f \in Seq(Frame)
      /\ AreBytesOf(drained[t] \o Drained(outbound[t]), a \o f)
  BY <1>1, DrainTakes DEF Takes
<1>3. take = a \o f
  BY <1>2, FramesOf
<1>4. KeptOf(take, due[t], now) /\ (t \notin gaps => take = due[t])
  BY <1>1, <1>3 DEF Takes
<1>5. DOMAIN take = 1..Len(take) /\ DOMAIN due[t] = 1..Len(due[t])
  BY <1>2, <1>3 DEF TakesInv
<1>6. ToSet(take) \subseteq ToSet(due[t])
  <2>1. ASSUME NEW i \in DOMAIN take PROVE \E k \in DOMAIN due[t] : take[i] = due[t][k]
    BY <1>4, <1>5 DEF KeptOf
  <2>2. ToSet(take) = {take[i] : i \in DOMAIN take}
        /\ ToSet(due[t]) = {due[t][k] : k \in DOMAIN due[t]}
    BY DEF ToSet
  <2> QED
    BY <2>1, <2>2
<1> QED
  BY <1>4, <1>5, <1>6 DEF KeptOf

\* What drain_record returns of a track, and what is left of it to drain, is the
\* track's send as it arrived before its fader, in the order of its samples and
\* untorn; a sample is missing only after the host left the ring full, and
\* capture_track then drops whole frames.
THEOREM TakesAreRecorded == Spec => []TakesAreTheInput
<1> QED
  BY InitDeskInv, NextDeskInv, InitTakesInv, NextTakesInv, TakesAreInput, PTL DEF Spec
=============================================================================
