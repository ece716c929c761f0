--------------------------- MODULE PlaybackProofs ---------------------------
(***************************************************************************)
(* Proofs about PlaybackFeed, for every number of tracks, every length of  *)
(* their takes, every chunk, high-water mark, ring and report period, and  *)
(* every delay of loads, reports and messages that leaves a track starved  *)
(* for no more than the ring's slack.                                      *)
(*                                                                         *)
(* What is invariant is the whole way of a block: the messages in the port *)
(* carry each track's take on from where its ring ends to where the page   *)
(* has fed it, and the page has never fed more than the ring can hold of   *)
(* what has not been heard, because the playhead it goes by is no further  *)
(* than what was heard and what was silent.                                *)
(***************************************************************************)
EXTENDS PlaybackFeed, TLAPS, SequenceTheorems, NaturalsInduction, WellFoundedInduction

\* Induction over the naturals, on the set of those that have a property.
LEMMA NatSetInduction ==
  ASSUME NEW T \in SUBSET Nat, 0 \in T, \A n \in T : n + 1 \in T
  PROVE  T = Nat
<1> DEFINE U == Nat \ T
<1> SUFFICES ASSUME U # {} PROVE FALSE
  OBVIOUS
<1>1. PICK x \in U : \A y \in U : ~ (<<y, x>> \in OpToRel(<,Nat))
  BY NatLessThanWellFounded, WFMin
<1>2. \A y \in U : ~ (y < x)
  BY <1>1 DEF OpToRel
<1>3. x \in Nat /\ x # 0
  OBVIOUS
<1>4. x - 1 \in T
  BY <1>2, <1>3
<1> QED
  BY <1>3, <1>4

-----------------------------------------------------------------------------
(* A sequence of sequences, end to end.                                    *)

\* What FlattenSeq computes of the first i sequences of f, from its value g before.
Joined(f, g, i) == IF i = 1 THEN f[i] ELSE g[i-1] \o f[i]
Joining(f, n) == CHOOSE g : g = [i \in 1..n |-> Joined(f, g, i)]

LEMMA FlattenIsJoining ==
  ASSUME NEW f, Len(f) # 0
  PROVE  FlattenSeq(f) = Joining(f, Len(f))[Len(f)]
  BY DEF FlattenSeq, Joining, Joined

\* The recursion of FlattenSeq has a solution.
LEMMA JoiningExists ==
  ASSUME NEW f, NEW n \in Nat
  PROVE  \E g : g = [i \in 1..n |-> Joined(f, g, i)]
<1> DEFINE T == {k \in Nat : \E g : g = [i \in 1..k |-> Joined(f, g, i)]}
<1>1. 0 \in T
  <2> DEFINE g == [i \in 1..0 |-> f]
  <2>1. g = [i \in 1..0 |-> Joined(f, g, i)]
    OBVIOUS
  <2> QED
    BY <2>1
<1>2. ASSUME NEW k \in T PROVE k + 1 \in T
  <2>1. PICK g : g = [i \in 1..k |-> Joined(f, g, i)]
    OBVIOUS
  <2> DEFINE h == [i \in 1..(k + 1) |-> Joined(f, g, i)]
  <2>2. \A i \in 1..k : h[i] = g[i]
    <3> TAKE i \in 1..k
    <3>1. i \in 1..(k + 1)
      OBVIOUS
    <3>2. h[i] = Joined(f, g, i)
      BY <3>1
    <3>3. g[i] = Joined(f, g, i)
      BY ONLY <2>1, i \in 1..k, Zenon
    <3> QED
      BY <3>2, <3>3
  <2>3. ASSUME NEW i \in 1..(k + 1) PROVE Joined(f, g, i) = Joined(f, h, i)
    <3>1. CASE i = 1
      BY <3>1 DEF Joined
    <3>2. CASE i # 1
      <4>1. i - 1 \in 1..k
        BY <3>2
      <4> HIDE DEF h
      <4> QED
        BY ONLY <2>2, <4>1, <3>2 DEF Joined
    <3> QED
      BY <3>1, <3>2
  <2>4. h = [i \in 1..(k + 1) |-> Joined(f, h, i)]
    BY <2>3
  <2>5. \E u : u = [i \in 1..(k + 1) |-> Joined(f, u, i)]
    <3> HIDE DEF h
    <3> QED
      BY ONLY <2>4
  <2> QED
    BY <2>5
<1>3. T = Nat
  BY <1>1, <1>2, NatSetInduction
<1> QED
  BY <1>3

\* Whatever holds of the first sequence, and with each that is appended, holds
\* of all of them end to end.
LEMMA Flattened ==
  ASSUME NEW f, NEW n \in Nat \ {0}, Len(f) = n, NEW T,
         <<1, f[1]>> \in T,
         \A i \in 1..(n - 1) : \A q : <<i, q>> \in T => <<i + 1, q \o f[i + 1]>> \in T
  PROVE  <<n, FlattenSeq(f)>> \in T
<1> DEFINE g == Joining(f, n)
<1>1. \E h : h = [i \in 1..n |-> Joined(f, h, i)]
  BY JoiningExists
<1>2. g = [i \in 1..n |-> Joined(f, g, i)]
  BY <1>1 DEF Joining
<1> HIDE DEF g
<1>3. \A i \in 1..n : g[i] = Joined(f, g, i)
  BY <1>2, Zenon
<1> DEFINE U == {k \in Nat : k + 1 \in 1..n => <<k + 1, g[k + 1]>> \in T}
<1>4. 0 \in U
  BY <1>3, SMTT(30) DEF Joined
<1>5. ASSUME NEW k \in U PROVE k + 1 \in U
  <2> SUFFICES ASSUME (k + 1) + 1 \in 1..n PROVE <<(k + 1) + 1, g[(k + 1) + 1]>> \in T
    OBVIOUS
  <2>1. k + 1 \in 1..(n - 1) /\ k + 1 \in 1..n
    OBVIOUS
  <2>2. g[(k + 1) + 1] = g[k + 1] \o f[(k + 1) + 1]
    <3>1. (k + 1) + 1 # 1 /\ ((k + 1) + 1) - 1 = k + 1
      OBVIOUS
    <3> QED
      BY ONLY <1>3, <3>1, (k + 1) + 1 \in 1..n DEF Joined
  <2>3. <<k + 1, g[k + 1]>> \in T
    BY <2>1
  <2> QED
    BY ONLY <2>1, <2>2, <2>3, \A i \in 1..(n - 1) : \A q : <<i, q>> \in T => <<i + 1, q \o f[i + 1]>> \in T
<1>6. U = Nat
  BY <1>4, <1>5, NatSetInduction
<1>7. n - 1 \in Nat /\ (n - 1) + 1 = n /\ n \in 1..n
  OBVIOUS
<1>8. FlattenSeq(f) = g[n]
  BY FlattenIsJoining DEF g
<1> QED
  BY <1>6, <1>7, <1>8

-----------------------------------------------------------------------------
(* What the messages of the port carry.                                    *)

Message ==
  {PlayMessage, StopMessage, SeekTo(0)} \cup
  [type : {"feedPlayback"}, track : Tracks, from : Nat, to : Nat]

Feeds(m, t) == m.type = "feedPlayback" /\ m.track = t

\* A message takes track t from a to b; or leaves it alone.
Moves(t, m, a, b) ==
  IF Feeds(m, t) THEN m.from = a /\ m.to = b /\ a <= b ELSE b = a

\* The messages of q together take track t from a to b, through c.
Through(t, q, a, b, c) ==
  /\ c \in [0..Len(q) -> Nat]
  /\ c[0] = a /\ c[Len(q)] = b
  /\ \A i \in 1..Len(q) : Moves(t, q[i], c[i - 1], c[i])
Carries(t, q, a, b) == \E c : Through(t, q, a, b, c)

LEMMA CarriesNothing == ASSUME NEW t, NEW a \in Nat PROVE Carries(t, <<>>, a, a)
<1> DEFINE c == [i \in 0..0 |-> a]
<1>1. Through(t, <<>>, a, a, c)
  BY DEF Through
<1> QED
  BY <1>1 DEF Carries

LEMMA CarriesOne ==
  ASSUME NEW t, NEW m \in Message, NEW a \in Nat, NEW b \in Nat, Moves(t, m, a, b)
  PROVE  Carries(t, <<m>>, a, b)
<1> DEFINE c == [i \in 0..1 |-> IF i = 0 THEN a ELSE b]
<1>1. Len(<<m>>) = 1 /\ <<m>>[1] = m
  OBVIOUS
<1>2. c \in [0..1 -> Nat] /\ c[0] = a /\ c[1] = b
  OBVIOUS
<1> HIDE DEF c
<1>3. Through(t, <<m>>, a, b, c)
  BY <1>1, <1>2 DEF Through
<1> QED
  BY <1>3 DEF Carries

\* One queue after another.
LEMMA CarriesOn ==
  ASSUME NEW t, NEW q \in Seq(Message), NEW r \in Seq(Message), NEW a, NEW b, NEW d,
         Carries(t, q, a, b), Carries(t, r, b, d)
  PROVE  Carries(t, q \o r, a, d)
<1>1. PICK c : Through(t, q, a, b, c)
  BY DEF Carries
<1>2. PICK e : Through(t, r, b, d, e)
  BY DEF Carries
<1>3. PICK n \in Nat : n = Len(q)
  OBVIOUS
<1>4. PICK k \in Nat : k = Len(r)
  OBVIOUS
<1>5. PICK s : s = q \o r
  OBVIOUS
<1>6. Len(s) = n + k /\ (\A i \in 1..n : s[i] = q[i]) /\ (\A i \in 1..k : s[n + i] = r[i])
  BY <1>3, <1>4, <1>5
<1>7. /\ c \in [0..n -> Nat] /\ c[0] = a /\ c[n] = b
      /\ \A i \in 1..n : Moves(t, q[i], c[i - 1], c[i])
  BY <1>1, <1>3 DEF Through
<1>8. /\ e \in [0..k -> Nat] /\ e[0] = b /\ e[k] = d
      /\ \A i \in 1..k : Moves(t, r[i], e[i - 1], e[i])
  BY <1>2, <1>4 DEF Through
<1> DEFINE h == [i \in 0..(n + k) |-> IF i <= n THEN c[i] ELSE e[i - n]]
<1>9. h \in [0..(n + k) -> Nat]
  BY ONLY <1>7, <1>8, n \in Nat, k \in Nat
<1>10. \A i \in 0..n : h[i] = c[i]
  BY ONLY n \in Nat, k \in Nat
<1>11. \A i \in 0..k : h[n + i] = e[i]
  <2> TAKE i \in 0..k
  <2>1. CASE i = 0
    BY ONLY <2>1, <1>7, <1>8, <1>10, n \in Nat, k \in Nat
  <2>2. CASE i # 0
    <3>1. n + i \in 0..(n + k) /\ ~ (n + i <= n) /\ (n + i) - n = i
      BY <2>2
    <3> QED
      BY ONLY <3>1
  <2> QED
    BY <2>1, <2>2
<1> HIDE DEF h
<1>12. ASSUME NEW i \in 1..(n + k) PROVE Moves(t, s[i], h[i - 1], h[i])
  <2>1. CASE i <= n
    <3>1. i \in 1..n /\ i \in 0..n /\ i - 1 \in 0..n
      BY <2>1
    <3> QED
      BY ONLY <1>6, <1>7, <1>10, <3>1
  <2>2. CASE ~ (i <= n)
    <3>1. PICK j \in 1..k : i = n + j
      <4>1. i - n \in 1..k /\ i = n + (i - n)
        BY ONLY <2>2, n \in Nat, k \in Nat, i \in 1..(n + k)
      <4> QED
        BY <4>1
    <3>2. j \in 0..k /\ j - 1 \in 0..k /\ i - 1 = n + (j - 1)
      BY <3>1
    <3> QED
      BY ONLY <1>6, <1>8, <1>11, <3>1, <3>2
  <2> QED
    BY <2>1, <2>2
<1>13. h[0] = a /\ h[n + k] = d
  <2>1. 0 \in 0..n /\ k \in 0..k
    OBVIOUS
  <2> QED
    BY ONLY <2>1, <1>7, <1>8, <1>10, <1>11
<1>14. Through(t, s, a, d, h)
  BY ONLY <1>6, <1>9, <1>12, <1>13 DEF Through
<1> QED
  BY <1>5, <1>14 DEF Carries

\* The first message, and the rest.
LEMMA CarriesFirst ==
  ASSUME NEW t, NEW q \in Seq(Message), q # <<>>, NEW a, NEW b, Carries(t, q, a, b)
  PROVE  \E e \in Nat : Moves(t, Head(q), a, e) /\ Carries(t, Tail(q), e, b)
<1>1. PICK c : Through(t, q, a, b, c)
  BY SMTT(30) DEF Carries
<1>2. PICK n \in Nat : n + 1 = Len(q)
  <2>1. Len(q) \in Nat /\ Len(q) # 0
    OBVIOUS
  <2>2. Len(q) - 1 \in Nat /\ (Len(q) - 1) + 1 = Len(q)
    BY <2>1
  <2> QED
    BY <2>2
<1>3. PICK r : r = Tail(q)
  OBVIOUS
<1>4. Len(r) = n /\ (\A i \in 1..n : r[i] = q[i + 1]) /\ Head(q) = q[1]
  BY <1>2, <1>3
<1>5. /\ c \in [0..(n + 1) -> Nat] /\ c[0] = a /\ c[n + 1] = b
      /\ \A i \in 1..(n + 1) : Moves(t, q[i], c[i - 1], c[i])
  BY <1>1, <1>2 DEF Through
<1> DEFINE h == [i \in 0..n |-> c[i + 1]]
<1>6. h \in [0..n -> Nat] /\ \A i \in 0..n : h[i] = c[i + 1]
  BY ONLY <1>5, n \in Nat
<1> HIDE DEF h
<1>7. ASSUME NEW i \in 1..n PROVE Moves(t, r[i], h[i - 1], h[i])
  <2>1. i + 1 \in 1..(n + 1) /\ (i + 1) - 1 = (i - 1) + 1 /\ i - 1 \in 0..n /\ i \in 0..n
    OBVIOUS
  <2>2. Moves(t, q[i + 1], c[(i + 1) - 1], c[i + 1])
    BY ONLY <2>1, <1>5
  <2> QED
    BY ONLY <2>1, <2>2, <1>4, <1>6, i \in 1..n
<1>8. h[0] = c[1] /\ h[n] = b /\ c[1] \in Nat
  BY ONLY <1>5, <1>6, n \in Nat
<1>9. Moves(t, Head(q), a, c[1])
  BY <1>4, <1>5
<1>10. Through(t, r, c[1], b, h)
  BY ONLY <1>4, <1>6, <1>7, <1>8 DEF Through
<1> QED
  BY <1>3, <1>8, <1>9, <1>10 DEF Carries

\* The blocks of track t that a message of q carries.
CarriedIn(t, q, n) == {k \in Nat : \E i \in 1..n : Feeds(q[i], t) /\ q[i].from < k /\ k <= q[i].to}

LEMMA SpansMeet ==
  ASSUME NEW a \in Nat, NEW b \in Nat, NEW d \in Nat, a <= b, b <= d
  PROVE  (a + 1)..b \cup {k \in Nat : b < k /\ k <= d} = (a + 1)..d
  OBVIOUS

\* A queue that takes a track from a to b carries the blocks between, and no others.
LEMMA CarriesBetween ==
  ASSUME NEW t, NEW q \in Seq(Message), NEW a, NEW b, Carries(t, q, a, b)
  PROVE  /\ a \in Nat /\ b \in Nat /\ a <= b
         /\ CarriedIn(t, q, Len(q)) = (a + 1)..b
<1>1. PICK c : Through(t, q, a, b, c)
  BY DEF Carries
<1>2. PICK n \in Nat : n = Len(q)
  OBVIOUS
<1>3. /\ c \in [0..n -> Nat] /\ c[0] = a /\ c[n] = b
      /\ \A i \in 1..n : Moves(t, q[i], c[i - 1], c[i])
  BY <1>1, <1>2 DEF Through
<1> DEFINE T == {j \in Nat : j <= n => c[j] \in Nat /\ a <= c[j] /\ CarriedIn(t, q, j) = (a + 1)..c[j]}
<1>0. a \in Nat
  BY <1>3
<1>4. 0 \in T
  BY <1>0, <1>3 DEF CarriedIn
<1>5. ASSUME NEW j \in T PROVE j + 1 \in T
  <2> SUFFICES ASSUME j + 1 <= n
               PROVE  c[j + 1] \in Nat /\ a <= c[j + 1] /\ CarriedIn(t, q, j + 1) = (a + 1)..c[j + 1]
    OBVIOUS
  <2>1. c[j] \in Nat /\ a <= c[j] /\ CarriedIn(t, q, j) = (a + 1)..c[j]
    OBVIOUS
  <2>2. c[j + 1] \in Nat
    BY <1>3
  <2>3. Moves(t, q[j + 1], c[j], c[j + 1])
    <3>1. j + 1 \in 1..n /\ (j + 1) - 1 = j
      OBVIOUS
    <3> QED
      BY ONLY <3>1, <1>3
  <2>4. CarriedIn(t, q, j + 1) =
          CarriedIn(t, q, j) \cup
            {k \in Nat : Feeds(q[j + 1], t) /\ q[j + 1].from < k /\ k <= q[j + 1].to}
    <3>1. 1..(j + 1) = 1..j \cup {j + 1}
      OBVIOUS
    <3> QED
      BY ONLY <3>1, Zenon DEF CarriedIn
  <2>5. CASE Feeds(q[j + 1], t)
    <3>1. q[j + 1].from = c[j] /\ q[j + 1].to = c[j + 1] /\ c[j] <= c[j + 1]
      BY ONLY <2>3, <2>5 DEF Moves
    <3>2. CarriedIn(t, q, j + 1) =
            (a + 1)..c[j] \cup {k \in Nat : c[j] < k /\ k <= c[j + 1]}
      BY ONLY <2>1, <2>4, <2>5, <3>1
    <3> QED
      <4>1. PICK x : x = c[j]
        OBVIOUS
      <4>2. PICK y : y = c[j + 1]
        OBVIOUS
      <4>3. x \in Nat /\ y \in Nat /\ a <= x /\ x <= y
        BY ONLY <2>1, <2>2, <3>1, <4>1, <4>2
      <4>4. CarriedIn(t, q, j + 1) = (a + 1)..y
        <5>1. (a + 1)..x \cup {k \in Nat : x < k /\ k <= y} = (a + 1)..y
          BY ONLY <1>0, <4>3, SpansMeet
        <5>2. CarriedIn(t, q, j + 1) = (a + 1)..x \cup {k \in Nat : x < k /\ k <= y}
          BY ONLY <3>2, <4>1, <4>2, Zenon
        <5> QED
          BY ONLY <5>1, <5>2
      <4> QED
        BY ONLY <1>0, <4>2, <4>3, <4>4
  <2>6. CASE ~ Feeds(q[j + 1], t)
    <3>1. c[j + 1] = c[j]
      BY ONLY <2>3, <2>6 DEF Moves
    <3>2. CarriedIn(t, q, j + 1) = CarriedIn(t, q, j)
      BY ONLY <2>4, <2>6
    <3> QED
      BY ONLY <2>1, <3>1, <3>2
  <2> QED
    BY <2>5, <2>6
<1>6. T = Nat
  BY <1>4, <1>5, NatSetInduction
<1>7. n \in T
  BY <1>6
<1> QED
  BY <1>0, <1>2, <1>3, <1>7

-----------------------------------------------------------------------------
(* What pump sends.                                                        *)

\* A message is a whole chunk, or ends the take.
WholeChunk(m) == m.from < m.to /\ (m.to = m.from + Chunk \/ m.to = Take[m.track])
Chunked(m, t) == Feeds(m, t) /\ WholeChunk(m)

LEMMA DivideUp ==
  ASSUME NEW n \in Nat, NEW c \in Nat \ {0}, NEW q, q = (n + c - 1) \div c
  PROVE  q \in Nat /\ n <= c * q /\ c * q < n + c
  OBVIOUS

LEMMA NoneToDivide ==
  ASSUME NEW c \in Nat \ {0}, NEW q \in Nat, c * q < c
  PROVE  q = 0
<1> SUFFICES ASSUME q >= 1 PROVE FALSE
  OBVIOUS
<1>1. c * q = c * (q - 1) + c /\ c * (q - 1) \in Nat
  OBVIOUS
<1> QED
  BY <1>1

LEMMA Sizes == {Chunk, Highwater, RingBlocks} \subseteq Nat \ {0} /\ MaxSilence \in Nat
  BY PlaybackAssumption

\* Where the chunks after `from` end, up to `to`: n chunks leave nothing over.
Ends(from, to, n) ==
  /\ n \in Nat
  /\ \A i \in 0..n : Least(from + i * Chunk, to) \in from..to
  /\ \A i \in 1..n : /\ Least(from + (i - 1) * Chunk, to) = from + (i - 1) * Chunk
                     /\ from + (i - 1) * Chunk < Least(from + i * Chunk, to)
                     /\ \/ Least(from + i * Chunk, to) = from + (i - 1) * Chunk + Chunk
                        \/ Least(from + i * Chunk, to) = to
                     /\ from + (i - 1) * Chunk \in Nat
  /\ Least(from + 0 * Chunk, to) = from
  /\ Least(from + n * Chunk, to) = to
  /\ n > 0 => from < to

LEMMA ChunkEnds ==
  ASSUME NEW from \in Nat, NEW to \in Nat, from <= to, NEW n,
         n = (to - from + Chunk - 1) \div Chunk
  PROVE  Ends(from, to, n)
<1>1. PICK c \in Nat \ {0} : c = Chunk
  BY Sizes
<1>2. PICK d \in Nat : d = to - from
  OBVIOUS
<1>3. n \in Nat /\ d <= c * n /\ c * n < d + c
  BY <1>1, <1>2, DivideUp
<1>4. ASSUME NEW i \in 0..n PROVE i * c \in Nat /\ Least(from + i * c, to) \in from..to
  <2>1. i \in Nat /\ i * c \in Nat
    BY <1>3
  <2> QED
    BY ONLY <2>1, from \in Nat, to \in Nat, from <= to DEF Least
<1>5. ASSUME NEW i \in 1..n
      PROVE  /\ Least(from + (i - 1) * c, to) = from + (i - 1) * c
             /\ from + (i - 1) * c < Least(from + i * c, to)
             /\ \/ Least(from + i * c, to) = from + (i - 1) * c + c
                \/ Least(from + i * c, to) = to
             /\ from + (i - 1) * c \in Nat
  <2>1. i - 1 \in Nat /\ n - i \in Nat /\ (i - 1) * c \in Nat /\ (n - i) * c \in Nat
    BY <1>3
  <2>2. i * c = (i - 1) * c + c
    BY <1>3
  <2>3. c * n = (i - 1) * c + (n - i) * c + c
    BY <1>3
  <2>4. PICK x \in Nat : x = (i - 1) * c
    BY <2>1
  <2>5. PICK y \in Nat : y = (n - i) * c
    BY <2>1
  <2>6. x + y + c < d + c
    BY <1>3, <2>3, <2>4, <2>5
  <2>7. from + x < to
    BY ONLY <2>6, <1>2, x \in Nat, y \in Nat, c \in Nat, d \in Nat, from \in Nat, to \in Nat
  <2> QED
    BY ONLY <2>2, <2>4, <2>7, x \in Nat, c \in Nat, from \in Nat, to \in Nat DEF Least
<1>6. Least(from + 0 * c, to) = from
  BY DEF Least
<1>7. Least(from + n * c, to) = to
  <2>1. PICK x \in Nat : x = n * c
    BY <1>3
  <2>2. c * n = x
    BY <1>3, <2>1
  <2> QED
    BY ONLY <1>2, <1>3, <2>1, <2>2, from \in Nat, to \in Nat, d \in Nat DEF Least
<1>8. n > 0 => from < to
  <2> SUFFICES ASSUME n > 0, d = 0 PROVE FALSE
    BY <1>2
  <2>1. n = 0
    BY <1>3, NoneToDivide
  <2> QED
    BY <2>1
<1> QED
  BY <1>1, <1>3, <1>4, <1>5, <1>6, <1>7, <1>8 DEF Ends

LEMMA FeedMoves ==
  ASSUME NEW s, NEW a, NEW b
  PROVE  /\ Feeds(Feed(s, a, b), s)
         /\ a <= b => Moves(s, Feed(s, a, b), a, b)
         /\ \A t : t # s => \A d : Moves(t, Feed(s, a, b), d, d)
  BY DEF Feeds, Feed, Moves

\* Where a number of whole chunks ends, no chunk is short.
LEMMA NoChunkIsShort ==
  ASSUME NEW from \in Nat, NEW k \in Nat, NEW i \in Nat \ {0},
         from + (i - 1) * Chunk < from + Chunk * k
  PROVE  Least(from + i * Chunk, from + Chunk * k) = from + (i - 1) * Chunk + Chunk
<1>1. PICK c \in Nat \ {0} : c = Chunk
  BY Sizes
<1>2. (i - 1) * c + c = i * c /\ i * c \in Nat /\ c * k \in Nat /\ (i - 1) * c \in Nat
  OBVIOUS
<1>3. i <= k
  <2> SUFFICES ASSUME i > k PROVE FALSE
    OBVIOUS
  <2>1. PICK d \in Nat : i - 1 = k + d
    <3>1. i - 1 - k \in Nat /\ i - 1 = k + (i - 1 - k)
      OBVIOUS
    <3> QED
      BY <3>1
  <2>2. (i - 1) * c = c * k + d * c /\ d * c \in Nat
    BY <2>1
  <2> QED
    BY <1>1, <1>2, <2>2
<1>4. PICK d \in Nat : k = i + d
  <2>1. k - i \in Nat /\ k = i + (k - i)
    BY <1>3
  <2> QED
    BY <2>1
<1>5. c * k = i * c + d * c /\ d * c \in Nat
  BY <1>4
<1> QED
  BY <1>1, <1>2, <1>5 DEF Least

\* The messages of one track.
LEMMA ChunksAreSent ==
  ASSUME NEW s \in Tracks, NEW from \in Nat, NEW to \in Nat, from <= to,
         to = Take[s] \/ \E k \in Nat : to = from + Chunk * k,
         NEW q, q = Chunks(s, from, to)
  PROVE  /\ q \in Seq(Message)
         /\ Carries(s, q, from, to)
         /\ \A t \in Tracks : t # s => \A a \in Nat : Carries(t, q, a, a)
         /\ \A i \in DOMAIN q : Chunked(q[i], s) /\ from < to
<1>1. PICK n : n = (to - from + Chunk - 1) \div Chunk
  OBVIOUS
<1> DEFINE c(i) == Least(from + i * Chunk, to)
           g == [i \in 0..n |-> c(i)]
<1>2. /\ n \in Nat
      /\ \A i \in 0..n : c(i) \in from..to
      /\ \A i \in 1..n : /\ c(i - 1) = from + (i - 1) * Chunk
                         /\ from + (i - 1) * Chunk < c(i)
                         /\ c(i) = from + (i - 1) * Chunk + Chunk \/ c(i) = to
                         /\ from + (i - 1) * Chunk \in Nat
      /\ c(0) = from /\ c(n) = to
      /\ n > 0 => from < to
  <2>1. Ends(from, to, n)
    BY ONLY <1>1, ChunkEnds, from \in Nat, to \in Nat, from <= to
  <2> QED
    BY ONLY <2>1 DEF Ends
<1>3. q = [i \in 1..n |-> Feed(s, from + (i - 1) * Chunk, c(i))]
  BY <1>1 DEF Chunks
<1>0. ASSUME NEW i \in 1..n PROVE c(i) = c(i - 1) + Chunk \/ c(i) = Take[s]
  <2>1. CASE to = Take[s]
    BY <2>1, <1>2
  <2>2. CASE \E k \in Nat : to = from + Chunk * k
    <3>1. PICK k \in Nat : to = from + Chunk * k
      BY <2>2
    <3>2. i \in Nat \ {0} /\ c(i) <= to
      <4>1. i \in 0..n
        BY <1>2
      <4>2. c(i) \in from..to
        BY <4>1, <1>2
      <4> QED
        BY <4>1, <4>2
    <3> HIDE DEF c
    <3>3. /\ c(i - 1) = from + (i - 1) * Chunk /\ from + (i - 1) * Chunk < c(i)
          /\ from + (i - 1) * Chunk \in Nat
      BY ONLY <1>2, i \in 1..n
    <3>4. c(i) \in Nat
      <4>1. i \in 0..n
        BY <1>2
      <4>2. c(i) \in from..to
        BY <4>1, <1>2
      <4> QED
        BY <4>2
    <3>5. from + (i - 1) * Chunk < from + Chunk * k
      <4>1. PICK x : x = from + (i - 1) * Chunk
        OBVIOUS
      <4>2. x \in Nat /\ x < c(i)
        BY ONLY <3>3, <4>1
      <4>3. x < to
        BY ONLY <4>2, <3>2, <3>4, to \in Nat
      <4> QED
        BY ONLY <4>1, <4>3, <3>1
    <3>6. Least(from + i * Chunk, from + Chunk * k) = from + (i - 1) * Chunk + Chunk
      BY ONLY <3>2, <3>5, NoChunkIsShort, from \in Nat, k \in Nat
    <3> QED
      BY ONLY <3>1, <3>3, <3>6 DEF c
  <2> QED
    BY <2>1, <2>2
<1> HIDE DEF c
<1>4. q = [i \in 1..n |-> Feed(s, c(i - 1), c(i))]
  BY <1>2, <1>3
<1>5. ASSUME NEW i \in 1..n
      PROVE  Feed(s, c(i - 1), c(i)) \in Message /\ c(i - 1) < c(i) /\ c(i - 1) <= c(i)
  <2>1. i \in 0..n /\ i - 1 \in 0..n
    BY <1>2
  <2>2. c(i) \in Nat /\ c(i - 1) \in Nat
    BY ONLY <2>1, <1>2, from \in Nat, to \in Nat
  <2>3. c(i - 1) < c(i)
    BY ONLY <1>2, i \in 1..n
  <2>4. c(i - 1) <= c(i)
    BY ONLY <2>2, <2>3
  <2> QED
    BY <2>2, <2>3, <2>4 DEF Feed, Message
<1>6. q \in Seq(Message) /\ Len(q) = n
  <2>1. \A i \in 1..n : Feed(s, c(i - 1), c(i)) \in Message
    BY <1>5
  <2> QED
    BY ONLY <2>1, <1>2, <1>4
<1>7. \A i \in 1..n : q[i] = Feed(s, c(i - 1), c(i))
  BY <1>4
<1>8. \A i \in 0..n : g[i] = c(i)
  OBVIOUS
<1>9. g \in [0..n -> Nat]
  BY <1>2
<1> HIDE DEF g
<1>10. Carries(s, q, from, to)
  <2>1. ASSUME NEW i \in 1..n PROVE Moves(s, q[i], g[i - 1], g[i])
    <3>1. i \in 0..n /\ i - 1 \in 0..n
      BY <1>2
    <3> QED
      BY ONLY <3>1, <1>5, <1>7, <1>8, FeedMoves, i \in 1..n
  <2>2. g[0] = from /\ g[n] = to
    BY <1>2, <1>8
  <2>3. Through(s, q, from, to, g)
    BY <1>6, <1>9, <2>1, <2>2 DEF Through
  <2> QED
    BY <2>3 DEF Carries
<1>11. ASSUME NEW t \in Tracks, t # s, NEW a \in Nat PROVE Carries(t, q, a, a)
  <2> DEFINE h == [i \in 0..n |-> a]
  <2>1. \A i \in 1..n : Moves(t, q[i], h[i - 1], h[i])
    <3> TAKE i \in 1..n
    <3>1. i \in 0..n /\ i - 1 \in 0..n
      BY <1>2
    <3>2. h[i - 1] = a /\ h[i] = a
      BY <3>1
    <3> QED
      BY ONLY <3>2, <1>7, <1>11, FeedMoves, i \in 1..n
  <2>2. h \in [0..n -> Nat] /\ h[0] = a /\ h[n] = a
    BY <1>2
  <2> HIDE DEF h
  <2>3. Through(t, q, a, a, h)
    BY <1>6, <2>1, <2>2 DEF Through
  <2> QED
    BY <2>3 DEF Carries
<1>12. ASSUME NEW i \in DOMAIN q PROVE Chunked(q[i], s) /\ from < to
  <2>1. i \in 1..n
    BY <1>4
  <2> QED
    <3>1. from < to
      BY ONLY <1>2, <2>1
    <3>2. q[i] = Feed(s, c(i - 1), c(i))
      BY <2>1, <1>7
    <3>3. WholeChunk(Feed(s, c(i - 1), c(i)))
      BY <2>1, <1>0, <1>5 DEF WholeChunk, Feed
    <3> QED
      BY ONLY <3>1, <3>2, <3>3, FeedMoves DEF Chunked
<1> QED
  BY <1>6, <1>10, <1>11, <1>12

\* What a pump that takes the streams from `old` to `new` puts in the port.
Sent(old, new) == FlattenSeq([t \in Tracks |-> Chunks(t, old[t], new[t])])

LEMMA PumpSends ==
  ASSUME NEW old \in [Tracks -> Nat], NEW new \in [Tracks -> Nat],
         \A t \in Tracks : /\ old[t] <= new[t]
                           /\ new[t] = Take[t] \/ \E k \in Nat : new[t] = old[t] + Chunk * k
  PROVE  /\ Sent(old, new) \in Seq(Message)
         /\ \A t \in Tracks : Carries(t, Sent(old, new), old[t], new[t])
         /\ \A i \in DOMAIN Sent(old, new) :
              \E s \in Tracks : Chunked(Sent(old, new)[i], s) /\ old[s] < new[s]
<1>1. PICK n \in Nat \ {0} : n = Len(Take) /\ Tracks = 1..n
  BY PlaybackAssumption DEF Tracks
<1> DEFINE f == [t \in Tracks |-> Chunks(t, old[t], new[t])]
           Upto(i, t) == IF t <= i THEN new[t] ELSE old[t]
           T == {p \in Nat \X Seq(Message) :
                   /\ \A t \in Tracks : Carries(t, p[2], old[t], Upto(p[1], t))
                   /\ \A i \in DOMAIN p[2] : \E s \in Tracks : Chunked(p[2][i], s) /\ old[s] < new[s]}
<1>2. ASSUME NEW s \in Tracks
      PROVE  /\ f[s] \in Seq(Message)
             /\ Carries(s, f[s], old[s], new[s])
             /\ \A t \in Tracks : t # s => \A a \in Nat : Carries(t, f[s], a, a)
             /\ \A i \in DOMAIN f[s] : Chunked(f[s][i], s) /\ old[s] < new[s]
  <2>1. f[s] = Chunks(s, old[s], new[s])
    OBVIOUS
  <2>2. /\ old[s] \in Nat /\ new[s] \in Nat /\ old[s] <= new[s]
        /\ new[s] = Take[s] \/ \E k \in Nat : new[s] = old[s] + Chunk * k
    OBVIOUS
  <2> HIDE DEF f
  <2> QED
    BY ONLY <2>1, <2>2, ChunksAreSent, s \in Tracks
<1>3. Len(f) = n
  BY <1>1
<1> HIDE DEF f
<1>4. <<1, f[1]>> \in T
  <2>1. 1 \in Tracks /\ f[1] \in Seq(Message)
    BY <1>1, <1>2
  <2>2. \A i \in DOMAIN f[1] : \E s \in Tracks : Chunked(f[1][i], s) /\ old[s] < new[s]
    BY <2>1, <1>2
  <2>3. ASSUME NEW t \in Tracks PROVE Carries(t, f[1], old[t], Upto(1, t))
    <3>1. CASE t = 1
      BY <3>1, <2>1, <1>2
    <3>2. CASE t # 1
      <4>1. Upto(1, t) = old[t] /\ old[t] \in Nat
        BY <3>2, <1>1
      <4> QED
        BY <4>1, <3>2, <2>1, <1>2
    <3> QED
      BY <3>1, <3>2
  <2> QED
    BY <2>1, <2>2, <2>3
<1>5. ASSUME NEW i \in 1..(n - 1), NEW q, <<i, q>> \in T
      PROVE  <<i + 1, q \o f[i + 1]>> \in T
  <2>1. /\ q \in Seq(Message)
        /\ \A t \in Tracks : Carries(t, q, old[t], Upto(i, t))
        /\ \A j \in DOMAIN q : \E s \in Tracks : Chunked(q[j], s) /\ old[s] < new[s]
    BY <1>5
  <2>2. i + 1 \in Tracks /\ i \in Nat
    BY <1>1
  <2>3. PICK r : r = f[i + 1]
    OBVIOUS
  <2>4. /\ r \in Seq(Message)
        /\ Carries(i + 1, r, old[i + 1], new[i + 1])
        /\ \A t \in Tracks : t # i + 1 => \A a \in Nat : Carries(t, r, a, a)
        /\ \A j \in DOMAIN r : Chunked(r[j], i + 1) /\ old[i + 1] < new[i + 1]
    BY <2>2, <2>3, <1>2
  <2>5. ASSUME NEW t \in Tracks PROVE Carries(t, q \o r, old[t], Upto(i + 1, t))
    <3>1. Carries(t, r, Upto(i, t), Upto(i + 1, t))
      <4>1. CASE t = i + 1
        <5>1. Upto(i, t) = old[t] /\ Upto(i + 1, t) = new[t]
          BY <4>1, <2>2
        <5> QED
          BY <5>1, <4>1, <2>4
      <4>2. CASE t # i + 1
        <5>1. Upto(i, t) = Upto(i + 1, t) /\ Upto(i, t) \in Nat
          BY <4>2, <2>2, <1>1
        <5> QED
          BY <5>1, <4>2, <2>4
      <4> QED
        BY <4>1, <4>2
    <3>2. Carries(t, q, old[t], Upto(i, t))
      BY <2>1
    <3> HIDE DEF Upto
    <3> QED
      BY ONLY <3>1, <3>2, <2>1, <2>4, CarriesOn
  <2>6. q \o r \in Seq(Message)
    BY <2>1, <2>4
  <2>7. \A j \in DOMAIN (q \o r) : \E s \in Tracks : Chunked((q \o r)[j], s) /\ old[s] < new[s]
    <3> TAKE j \in DOMAIN (q \o r)
    <3>1. \/ j \in DOMAIN q /\ (q \o r)[j] = q[j]
          \/ j - Len(q) \in DOMAIN r /\ (q \o r)[j] = r[j - Len(q)]
      BY ONLY <2>1, <2>4, j \in DOMAIN (q \o r)
    <3>2. CASE j \in DOMAIN q /\ (q \o r)[j] = q[j]
      BY ONLY <3>2, <2>1
    <3>3. CASE j - Len(q) \in DOMAIN r /\ (q \o r)[j] = r[j - Len(q)]
      <4>1. Chunked(r[j - Len(q)], i + 1) /\ old[i + 1] < new[i + 1]
        BY ONLY <2>4, <3>3
      <4> QED
        BY ONLY <2>2, <3>3, <4>1
    <3> QED
      BY ONLY <3>1, <3>2, <3>3
  <2>8. PICK s : s = q \o r
    OBVIOUS
  <2> HIDE DEF Upto
  <2>9. <<i + 1, s>> \in T
    <3>1. PICK p : p = <<i + 1, s>>
      OBVIOUS
    <3>2. p \in Nat \X Seq(Message) /\ p[1] = i + 1 /\ p[2] = s
      <4>1. s \in Seq(Message) /\ i + 1 \in Nat
        BY ONLY <2>2, <2>6, <2>8
      <4> QED
        BY ONLY <3>1, <4>1
    <3>3. \A t \in Tracks : Carries(t, p[2], old[t], Upto(p[1], t))
      BY ONLY <2>5, <2>8, <3>2
    <3>4. \A j \in DOMAIN p[2] : \E u \in Tracks : Chunked(p[2][j], u) /\ old[u] < new[u]
      BY ONLY <2>7, <2>8, <3>2
    <3>5. p \in T
      BY ONLY <3>2, <3>3, <3>4
    <3> QED
      BY ONLY <3>1, <3>5
  <2> QED
    BY ONLY <2>3, <2>8, <2>9
<1>6. <<n, FlattenSeq(f)>> \in T
  <2> HIDE DEF T
  <2> QED
    BY <1>3, <1>4, <1>5, Flattened
<1>7. FlattenSeq(f) = Sent(old, new)
  BY DEF f, Sent
<1>8. \A t \in Tracks : Upto(n, t) = new[t]
  BY <1>1
<1> QED
  BY <1>6, <1>7, <1>8

-----------------------------------------------------------------------------
(* The inductive invariant, of a play that began at a standstill.          *)

\* The types.
Typed ==
  /\ rolling \in BOOLEAN /\ playhead \in Nat /\ ring \in [Tracks -> Seq(Nat)]
  /\ toWorklet \in Seq(Message) /\ toPage \in Seq(Nat) /\ reported \in Nat
  /\ plays \in Nat /\ loading \in Seq([track : Tracks, playhead : {0}])
  /\ playing \in SUBSET Tracks /\ fed \in [Tracks -> Nat]
  /\ playStart = [t \in Tracks |-> playStart[t]] /\ \A t \in playing : playStart[t] = 0
  /\ last \in [Tracks -> Nat] /\ silence \in [Tracks -> Nat]

\* A ring holds the blocks after the one heard last.
Lined == \A t \in Tracks : ring[t] = [i \in 1..Len(ring[t]) |-> last[t] + i]

\* What is in the port takes a track from where its ring ends to where it was fed.
Way(t) == Carries(t, toWorklet, last[t] + Len(ring[t]), fed[t])
OnTheWay == \A t \in Tracks : Way(t)

\* The page never fed more than there is, nor more than a ring holds of what was
\* not heard.
Room == \A t \in Tracks : fed[t] <= Take[t] /\ fed[t] <= last[t] + RingBlocks

\* The one run of startPlayback has fed nothing to the tracks it has to load.
OneRun ==
  /\ Len(loading) <= 1
  /\ plays = 0 => loading = <<>> /\ playing = {} /\ fed = Zero
  /\ \A run \in DOMAIN loading, t \in Tracks :
       loading[run].track <= t => fed[t] = 0 /\ t \notin playing

\* Nothing is fed before play; and play is told once.
PlayComesFirst ==
  /\ plays = 0 => \A i \in DOMAIN toWorklet : toWorklet[i].type \notin {"play", "feedPlayback"}
  /\ \A i \in DOMAIN toWorklet, j \in DOMAIN toWorklet :
       toWorklet[i].type = "play" /\ toWorklet[j].type \in {"play", "feedPlayback"} => i <= j

\* Until play arrives nothing has happened.
ToCome == plays = 0 \/ \E i \in DOMAIN toWorklet : toWorklet[i].type = "play"
Still ==
  ToCome =>
    /\ ~ rolling /\ playhead = 0 /\ reported = 0
    /\ \A i \in DOMAIN toPage : toPage[i] = 0
    /\ \A t \in Tracks : last[t] = 0 /\ silence[t] = 0 /\ ring[t] = <<>>

\* The playhead, and what is reported of it, is no further than what was heard
\* and what was silent.
InTime ==
  \A t \in Tracks : Owed(t) =>
    /\ playhead <= last[t] + silence[t] /\ silence[t] <= MaxSilence
    /\ \A i \in DOMAIN toPage : toPage[i] <= last[t] + silence[t]

\* So is every message in the port.
ChunksInPort ==
  \A i \in DOMAIN toWorklet : toWorklet[i].type = "feedPlayback" => WholeChunk(toWorklet[i])

\* What is fed to a stream comes after the last seek.
SeeksComeFirst ==
  \A t \in playing :
    /\ last[t] <= playhead
    /\ \A i \in DOMAIN toWorklet : toWorklet[i].type = "seek" =>
         /\ ring[t] = <<>> /\ last[t] = 0
         /\ \A j \in DOMAIN toWorklet : Feeds(toWorklet[j], t) => i < j

\* A stream that was fed was fed to the high-water mark, at the last report.
FedAhead == \A t \in playing : fed[t] > 0 => fed[t] >= reported + Highwater

LatestReport == IF toPage = <<>> THEN reported ELSE toPage[Len(toPage)]
Reporting == quanta \in 0..(ReportEvery - 1) /\ playhead <= LatestReport + quanta

\* A ring lasts until the next report, unless it holds the end of the take.
Lasting ==
  prompt => \A t \in Tracks : Owed(t) /\ last[t] + Len(ring[t]) > 0 =>
    last[t] + Len(ring[t]) = Take[t] \/ Len(ring[t]) + quanta >= ReportEvery

IInv ==
  /\ Typed /\ Lined /\ OnTheWay /\ Room /\ OneRun /\ PlayComesFirst /\ Still /\ InTime
  /\ ChunksInPort /\ SeeksComeFirst /\ FedAhead /\ Reporting /\ Lasting

\* And what holds of every play: enough to say that a play which begins at a
\* standstill begins with the rest of the invariant.
Weak ==
  /\ plays \in Nat /\ quanta \in 0..(ReportEvery - 1)
  /\ playStart = [t \in Tracks |-> playStart[t]]

Inv == Weak /\ (fresh => IInv)

LEMMA Constants ==
  /\ Take \in Seq(Nat) /\ Tracks = 1..Len(Take) /\ 1 \in Tracks
  /\ Chunk \in Nat \ {0} /\ Highwater \in Nat \ {0} /\ RingBlocks \in Nat \ {0}
  /\ ReportEvery \in Nat \ {0} /\ MaxSilence \in Nat
  /\ \A t \in Tracks : Take[t] \in Nat
<1>1. Take \in Seq(Nat) /\ Take # <<>>
  BY PlaybackAssumption
<1>2. Len(Take) \in Nat \ {0} /\ DOMAIN Take = 1..Len(Take)
  BY <1>1
<1> QED
  BY <1>1, <1>2, PlaybackAssumption DEF Tracks

\* Messages that feed nothing carry nothing.
Others == {PlayMessage, StopMessage, SeekTo(0)}

LEMMA OthersMoveNothing ==
  ASSUME NEW t, NEW m \in Others, NEW a
  PROVE  Moves(t, m, a, a) /\ ~ Feeds(m, t) /\ m.type # "feedPlayback" /\ m \in Message
  BY DEF Others, Moves, Feeds, PlayMessage, StopMessage, SeekTo, Message

LEMMA OthersCarryNothing ==
  ASSUME NEW t, NEW q \in Seq(Others), NEW a \in Nat
  PROVE  Carries(t, q, a, a) /\ q \in Seq(Message)
<1>1. PICK n \in Nat : n = Len(q) /\ DOMAIN q = 1..n
  OBVIOUS
<1> DEFINE c == [i \in 0..n |-> a]
<1>2. \A i \in 0..n : c[i] = a
  OBVIOUS
<1>3. c \in [0..n -> Nat]
  OBVIOUS
<1> HIDE DEF c
<1>4. \A i \in 1..n : q[i] \in Others
  BY <1>1
<1>5. ASSUME NEW i \in 1..n PROVE Moves(t, q[i], c[i - 1], c[i])
  <2>1. i \in 0..n /\ i - 1 \in 0..n
    BY <1>1
  <2> QED
    BY ONLY <2>1, <1>2, <1>4, OthersMoveNothing, i \in 1..n
<1>6. Through(t, q, a, a, c)
  BY <1>1, <1>2, <1>3, <1>5 DEF Through
<1>7. \A i \in 1..n : q[i] \in Message
  BY <1>4, OthersMoveNothing
<1> QED
  BY <1>1, <1>6, <1>7 DEF Carries

\* At the start nothing is under way.
LEMMA InitInv == Init => IInv
<1> SUFFICES ASSUME Init PROVE IInv
  OBVIOUS
<1> USE Constants DEF Init
<1>1. \A t \in Tracks : fed[t] = 0 /\ last[t] = 0 /\ silence[t] = 0 /\ ring[t] = <<>>
  BY DEF Zero
<1>2. Typed
  <2>1. ring \in [Tracks -> Seq(Nat)]
    BY DEF Zero
  <2>2. toWorklet \in Seq(Message) /\ toPage \in Seq(Nat) /\ loading \in Seq([track : Tracks, playhead : {0}])
    OBVIOUS
  <2>3. fed \in [Tracks -> Nat] /\ last \in [Tracks -> Nat] /\ silence \in [Tracks -> Nat]
    BY DEF Zero
  <2> QED
    BY <2>1, <2>2, <2>3 DEF Typed, Zero
<1>3. OnTheWay
  <2> SUFFICES ASSUME NEW t \in Tracks PROVE Way(t)
    BY DEF OnTheWay
  <2>1. last[t] + Len(ring[t]) = 0 /\ fed[t] = 0 /\ toWorklet = <<>>
    BY <1>1
  <2> QED
    BY ONLY <2>1, CarriesNothing DEF Way
<1>4. Lined /\ Room /\ InTime /\ Still
  BY <1>1 DEF Lined, Room, InTime, Still, Owed
<1>5. OneRun /\ PlayComesFirst /\ ChunksInPort /\ SeeksComeFirst /\ FedAhead
  BY <1>1 DEF OneRun, PlayComesFirst, ChunksInPort, SeeksComeFirst, FedAhead
<1>6. Reporting
  BY DEF Reporting, LatestReport
<1>7. Lasting
  BY <1>1 DEF Lasting
<1> QED
  BY <1>2, <1>3, <1>4, <1>5, <1>6, <1>7 DEF IInv

\* Messages that feed nothing may be posted.
LEMMA PostInv ==
  ASSUME Typed, OnTheWay, UNCHANGED <<last, ring, fed>>, NEW q \in Seq(Others),
         toWorklet' = toWorklet \o q
  PROVE  OnTheWay'
<1> SUFFICES ASSUME NEW t \in Tracks PROVE Way(t)'
  BY DEF OnTheWay
<1>1. Carries(t, toWorklet, last[t] + Len(ring[t]), fed[t]) /\ fed[t] \in Nat
  BY DEF OnTheWay, Way, Typed
<1>2. Carries(t, q, fed[t], fed[t]) /\ q \in Seq(Message)
  BY <1>1, OthersCarryNothing
<1>3. toWorklet \in Seq(Message)
  BY DEF Typed
<1>4. Carries(t, toWorklet \o q, last[t] + Len(ring[t]), fed[t])
  BY ONLY <1>1, <1>2, <1>3, CarriesOn
<1> QED
  BY <1>4 DEF Way

-----------------------------------------------------------------------------
(* Gestures.                                                               *)

\* A play that begins at a standstill begins the invariant anew.
LEMMA PlayInv == ASSUME Weak, Play, Standstill PROVE IInv'
<1> USE Constants
<1>1. /\ plays' = plays + 1 /\ plays' \in Nat /\ plays' # 0 /\ playing' = {}
      /\ loading' = <<[track |-> 1, playhead |-> 0]>>
      /\ toWorklet' = Append(toWorklet, PlayMessage)
      /\ rolling' = FALSE /\ playhead' = 0 /\ reported' = 0
      /\ ring' = [t \in Tracks |-> <<>>] /\ toPage' = toPage /\ quanta' = quanta
      /\ fed' = Zero /\ last' = Zero /\ silence' = Zero /\ playStart' = playStart
  <2>1. loading' = Append(<<>>, [track |-> 1, playhead |-> 0])
    BY DEF Play, Standstill
  <2> QED
    BY <2>1 DEF Play, Gesture, Standstill, Anew, Weak, recorder
<1>2. toWorklet \in Seq({StopMessage, SeekTo(0)}) /\ toPage \in Seq({0})
  BY DEF Standstill
<1>3. PICK n \in Nat : n = Len(toWorklet)
  BY <1>2
<1>4. /\ DOMAIN toWorklet' = 1..(n + 1)
      /\ \A i \in 1..n : toWorklet'[i] \in {StopMessage, SeekTo(0)}
      /\ toWorklet'[n + 1] = PlayMessage
  BY <1>1, <1>2, <1>3
<1>5. \A j \in 1..(n + 1) : /\ toWorklet'[j].type # "feedPlayback"
                            /\ toWorklet'[j].type = "play" => j = n + 1
  <2>1. \A m \in {StopMessage, SeekTo(0)} : m.type \notin {"play", "feedPlayback"}
    BY DEF StopMessage, SeekTo
  <2>2. PlayMessage.type # "feedPlayback"
    BY DEF PlayMessage
  <2> TAKE j \in 1..(n + 1)
  <2>3. CASE j \in 1..n
    BY ONLY <1>4, <2>1, <2>3
  <2>4. CASE j = n + 1
    BY ONLY <1>4, <2>2, <2>4
  <2> QED
    BY <2>3, <2>4
<1>6. \A t \in Tracks : last'[t] = 0 /\ silence'[t] = 0 /\ ring'[t] = <<>> /\ fed'[t] = 0
  BY <1>1 DEF Zero
<1>7. \A i \in DOMAIN toPage' : toPage'[i] = 0
  BY <1>1, <1>2
<1>8. toWorklet' \in Seq(Others)
  <2>1. StopMessage \in Others /\ SeekTo(0) \in Others /\ PlayMessage \in Others
    BY DEF Others
  <2>2. toWorklet \in Seq(Others)
    BY <1>2, <2>1, SeqMonotonic
  <2> QED
    BY <1>1, <2>1, <2>2
<1>9. Typed'
  <2>1. ring' \in [Tracks -> Seq(Nat)] /\ fed' \in [Tracks -> Nat] /\ last' \in [Tracks -> Nat]
        /\ silence' \in [Tracks -> Nat]
    BY <1>1 DEF Zero
  <2>2. toWorklet' \in Seq(Message)
    BY <1>8, OthersCarryNothing
  <2>3. toPage' \in Seq(Nat)
    BY <1>1, <1>2
  <2>4. loading' \in Seq([track : Tracks, playhead : {0}])
    <3>1. [track |-> 1, playhead |-> 0] \in [track : Tracks, playhead : {0}]
      OBVIOUS
    <3> QED
      BY <1>1, <3>1
  <2> QED
    BY <1>1, <2>1, <2>2, <2>3, <2>4 DEF Typed, Weak
<1>10. OnTheWay'
  <2> SUFFICES ASSUME NEW t \in Tracks PROVE Way(t)'
    BY DEF OnTheWay
  <2>1. last'[t] + Len(ring'[t]) = 0 /\ fed'[t] = 0
    BY <1>6
  <2>2. Carries(t, toWorklet', 0, 0)
    BY <1>8, OthersCarryNothing
  <2> QED
    BY ONLY <2>1, <2>2 DEF Way
<1>11. (Lined /\ Room)'
  <2>1. ASSUME NEW t \in Tracks PROVE ring'[t] = [i \in 1..Len(ring'[t]) |-> last'[t] + i]
    <3>1. ring'[t] = <<>> /\ Len(ring'[t]) = 0
      BY <1>6
    <3> QED
      BY ONLY <3>1
  <2>2. \A t \in Tracks : fed'[t] <= Take[t] /\ fed'[t] <= last'[t] + RingBlocks
    BY <1>6
  <2> QED
    BY ONLY <2>1, <2>2 DEF Lined, Room
<1>12. OneRun'
  <2>1. Len(loading') <= 1
    BY <1>1
  <2> QED
    BY <1>1, <1>6, <2>1 DEF OneRun
<1>13. PlayComesFirst'
  BY <1>1, <1>4, <1>5 DEF PlayComesFirst
<1>14. Still' /\ InTime'
  BY <1>1, <1>6, <1>7 DEF Still, InTime
<1>15. ChunksInPort'
  BY <1>4, <1>5 DEF ChunksInPort
<1>16. SeeksComeFirst' /\ FedAhead'
  BY <1>1 DEF SeeksComeFirst, FedAhead
<1>17. Reporting'
  <2>1. LatestReport' = 0
    BY <1>1, <1>2 DEF LatestReport
  <2> QED
    BY <1>1, <2>1 DEF Weak, Reporting
<1>18. Lasting'
  BY <1>6 DEF Lasting
<1> QED
  BY <1>9, <1>10, <1>11, <1>12, <1>13, <1>14, <1>15, <1>16, <1>17, <1>18 DEF IInv

\* A stop or a seek is posted, and the streams are dropped.
LEMMA DropInv ==
  ASSUME IInv, NEW q \in Seq({StopMessage, SeekTo(0)}), toWorklet' = toWorklet \o q, playing' = {},
         UNCHANGED <<recorder, quanta, toPage, reported, heard, fed, playStart, plays, loading>>
  PROVE  IInv'
<1> USE Constants
<1>1. PICK k \in Nat : k = Len(q)
  OBVIOUS
<1>2. PICK n \in Nat : n = Len(toWorklet)
  <2>1. toWorklet \in Seq(Message)
    BY DEF IInv, Typed
  <2> QED
    BY ONLY <2>1
<1>0. /\ q \in Seq(Others)
      /\ \A i \in 1..k : q[i] \in Others /\ q[i].type \notin {"play", "feedPlayback"}
  <2>1. {StopMessage, SeekTo(0)} \subseteq Others
    BY DEF Others
  <2>2. \A m \in {StopMessage, SeekTo(0)} : m.type \notin {"play", "feedPlayback"}
    BY DEF StopMessage, SeekTo
  <2>3. \A i \in 1..k : q[i] \in {StopMessage, SeekTo(0)}
    BY <1>1
  <2>4. q \in Seq(Others)
    BY <2>1, SeqMonotonic
  <2> QED
    BY ONLY <2>1, <2>2, <2>3, <2>4
<1>3. /\ DOMAIN toWorklet = 1..n /\ DOMAIN toWorklet' = 1..(n + k)
      /\ \A i \in 1..n : toWorklet'[i] = toWorklet[i]
      /\ \A i \in (n + 1)..(n + k) : i - n \in 1..k /\ toWorklet'[i] = q[i - n]
  <2>1. toWorklet \in Seq(Message) /\ q \in Seq(Others)
    BY <1>0 DEF IInv, Typed
  <2> QED
    BY ONLY <1>1, <1>2, <2>1, toWorklet' = toWorklet \o q
<1>4. \A i \in DOMAIN toWorklet' :
        toWorklet'[i].type \in {"play", "feedPlayback"} =>
          i \in DOMAIN toWorklet /\ toWorklet'[i] = toWorklet[i]
  <2> SUFFICES ASSUME NEW i \in DOMAIN toWorklet', toWorklet'[i].type \in {"play", "feedPlayback"}
               PROVE  i \in DOMAIN toWorklet /\ toWorklet'[i] = toWorklet[i]
    OBVIOUS
  <2>1. CASE i \in 1..n
    BY ONLY <2>1, <1>3
  <2>2. CASE ~ (i \in 1..n)
    <3>1. i \in (n + 1)..(n + k)
      BY <2>2, <1>3
    <3>2. toWorklet'[i].type \notin {"play", "feedPlayback"}
      BY ONLY <3>1, <1>0, <1>3
    <3> QED
      BY <3>2
  <2> QED
    BY <2>1, <2>2
<1>5. Typed'
  <2>1. toWorklet' \in Seq(Message)
    <3>1. q \in Seq(Message)
      BY <1>0, OthersCarryNothing
    <3> QED
      BY <3>1 DEF IInv, Typed
  <2> QED
    BY <2>1 DEF IInv, Typed, recorder, history, heard
<1>6. OnTheWay'
  BY <1>0, PostInv DEF IInv, recorder, history, heard
<1>7. (Lined /\ Room)'
  BY DEF IInv, Lined, Room, recorder, history, heard
<1>8. OneRun'
  BY DEF IInv, OneRun
<1>9. PlayComesFirst'
  BY <1>4 DEF IInv, PlayComesFirst
<1>10. Still'
  <2>1. ToCome' => ToCome
    BY <1>4 DEF ToCome
  <2> QED
    BY <2>1 DEF IInv, Still, recorder, history, heard
<1>11. \A t \in Tracks : Owed(t)' => Owed(t)
  <2> SUFFICES ASSUME NEW t \in Tracks, Owed(t)' PROVE Owed(t)
    OBVIOUS
  <2>1. CASE \E run \in DOMAIN loading : loading[run].track <= t /\ Take[t] > 0
    BY <2>1 DEF Owed
  <2>2. CASE \E i \in DOMAIN toWorklet' : toWorklet'[i].type = "feedPlayback" /\ toWorklet'[i].track = t
    BY <2>2, <1>4 DEF Owed
  <2> QED
    BY <2>1, <2>2 DEF Owed
<1>12. InTime'
  BY <1>11 DEF IInv, InTime, recorder, history, heard
<1>13. ChunksInPort'
  BY <1>4 DEF IInv, ChunksInPort
<1>14. SeeksComeFirst' /\ FedAhead'
  BY DEF SeeksComeFirst, FedAhead
<1>15. Reporting'
  BY DEF IInv, Reporting, LatestReport, recorder
<1>16. Lasting'
  BY <1>11 DEF IInv, Lasting, recorder, history, heard
<1> QED
  BY <1>5, <1>6, <1>7, <1>8, <1>9, <1>10, <1>12, <1>13, <1>14, <1>15, <1>16 DEF IInv

LEMMA StopInv == ASSUME IInv, Stop PROVE IInv'
<1>1. <<StopMessage, SeekTo(0)>> \in Seq({StopMessage, SeekTo(0)})
  OBVIOUS
<1>2. /\ toWorklet' = toWorklet \o <<StopMessage, SeekTo(0)>> /\ playing' = {}
      /\ UNCHANGED <<recorder, quanta, toPage, reported, heard, fed, playStart, plays, loading>>
  BY DEF Stop, stopPlayback, Gesture, history
<1> QED
  BY <1>1, <1>2, DropInv

LEMMA SeekInv == ASSUME IInv, NEW pos \in Seeks, Seek(pos), fresh' PROVE IInv'
<1>1. pos = 0
  BY DEF Seek
<1>2. /\ toWorklet' = Append(toWorklet, SeekTo(0)) /\ playing' = {}
      /\ UNCHANGED <<recorder, quanta, toPage, reported, heard, fed, playStart, plays, loading>>
  BY <1>1 DEF Seek, stopPlayback, Gesture
<1>3. <<SeekTo(0)>> \in Seq({StopMessage, SeekTo(0)})
  OBVIOUS
<1>4. toWorklet' = toWorklet \o <<SeekTo(0)>>
  BY <1>2 DEF IInv, Typed
<1> QED
  BY <1>2, <1>3, <1>4, DropInv

-----------------------------------------------------------------------------
(* Loads.                                                                  *)

\* A track of which nothing was fed has nothing in the port or the ring, and was
\* not heard.
LEMMA NothingFed ==
  ASSUME IInv, NEW t \in Tracks, fed[t] = 0
  PROVE  /\ last[t] = 0 /\ Len(ring[t]) = 0 /\ ring[t] = <<>>
         /\ \A i \in DOMAIN toWorklet : ~ Feeds(toWorklet[i], t)
<1>1. Carries(t, toWorklet, last[t] + Len(ring[t]), 0) /\ toWorklet \in Seq(Message)
  BY DEF IInv, OnTheWay, Way, Typed
<1>2. last[t] + Len(ring[t]) <= 0 /\ CarriedIn(t, toWorklet, Len(toWorklet)) = (last[t] + Len(ring[t]) + 1)..0
  BY <1>1, CarriesBetween
<1>3. last[t] \in Nat /\ Len(ring[t]) \in Nat /\ ring[t] \in Seq(Nat)
  BY DEF IInv, Typed
<1>4. last[t] = 0 /\ Len(ring[t]) = 0
  BY <1>2, <1>3
<1>5. ASSUME NEW i \in DOMAIN toWorklet, Feeds(toWorklet[i], t) PROVE FALSE
  <2>1. i \in 1..Len(toWorklet) /\ toWorklet[i] \in Message
    BY <1>1
  <2>2. toWorklet[i].type = "feedPlayback" /\ toWorklet[i].to \in Nat /\ toWorklet[i].from < toWorklet[i].to
    <3>1. toWorklet[i].type = "feedPlayback"
      BY <1>5 DEF Feeds
    <3>2. WholeChunk(toWorklet[i])
      BY <3>1 DEF IInv, ChunksInPort
    <3> QED
      BY <2>1, <3>1, <3>2 DEF Message, WholeChunk, PlayMessage, StopMessage, SeekTo
  <2>3. toWorklet[i].to \in CarriedIn(t, toWorklet, Len(toWorklet))
    <3>1. toWorklet[i].to <= toWorklet[i].to
      BY <2>2
    <3> QED
      BY ONLY <1>5, <2>1, <2>2, <3>1 DEF CarriedIn
  <2> QED
    BY <1>2, <1>4, <2>3
<1> QED
  BY <1>3, <1>4, <1>5

Runs == [track : Tracks, playhead : {0}]

LEMMA OnlyRun ==
  ASSUME NEW runs \in Seq(Runs), Len(runs) <= 1, NEW run \in DOMAIN runs
  PROVE  /\ run = 1 /\ Len(runs) = 1 /\ runs[1] \in Runs
         /\ runs = <<[track |-> runs[1].track, playhead |-> 0]>> /\ runs[1].track \in Tracks
         /\ RemoveAt(runs, 1) = <<>>
<1>1. Len(runs) = 1 /\ run = 1 /\ DOMAIN runs = 1..1
  <2>1. PICK n \in Nat : n = Len(runs) /\ DOMAIN runs = 1..n
    OBVIOUS
  <2>2. n = 1 /\ run = 1
    BY <2>1
  <2> QED
    BY <2>1, <2>2
<1>2. runs[1] \in Runs
  BY <1>1, ElementOfSeq
<1>3. PICK r \in Runs : r = runs[1]
  BY <1>2
<1>4. r = [track |-> r.track, playhead |-> 0] /\ r.track \in Tracks
  BY DEF Runs
<1>5. runs = <<r>>
  BY <1>1, <1>3
<1>6. SubSeq(runs, 1, 0) = <<>> /\ SubSeq(runs, 2, 1) = <<>>
  BY <1>5
<1>7. RemoveAt(runs, 1) = <<>>
  BY <1>1, <1>6 DEF RemoveAt
<1> QED
  BY <1>1, <1>2, <1>3, <1>4, <1>5, <1>7

\* A load that returns, or is rejected, changes the streams and the run.
LEMMA LoadInv ==
  ASSUME IInv, NEW run \in DOMAIN loading, Loaded(run) \/ LoadFails(run)
  PROVE  IInv'
<1> USE Constants
<1>0. loading \in Seq(Runs) /\ Len(loading) <= 1
  BY DEF IInv, Typed, OneRun, Runs
<1>1. PICK t0 \in Tracks : t0 = loading[run].track /\ loading[run].playhead = 0
  BY <1>0, OnlyRun DEF Runs
<1>2. /\ UNCHANGED <<recorder, quanta, port, reported, plays, history>>
      /\ fed' = fed /\ playStart' = [t \in Tracks |-> playStart'[t]]
      /\ \/ playing' = playing /\ playStart' = playStart
         \/ /\ playing' = playing \cup {t0} /\ Take[t0] > 0
            /\ playStart' = [playStart EXCEPT ![t0] = 0]
      /\ \/ loading' = <<>>
         \/ t0 + 1 \in Tracks /\ loading' = <<[track |-> t0 + 1, playhead |-> 0]>>
  <2>1. run = 1 /\ loading = <<[track |-> t0, playhead |-> 0]>>
    BY <1>0, <1>1, OnlyRun
  <2>2. RemoveAt(loading, run) = <<>>
    BY <1>0, OnlyRun
  <2>3. /\ fed[t0] = 0 /\ fed \in [Tracks -> Nat]
        /\ playStart = [t \in Tracks |-> playStart[t]]
    <3>1. fed[t0] = 0
      BY <1>1 DEF IInv, OneRun
    <3> QED
      BY <3>1 DEF IInv, Typed
  <2>4. CASE LoadFails(run)
    BY <2>2, <2>3, <2>4 DEF LoadFails, streams
  <2>5. CASE Loaded(run)
    <3>1. \/ loading' = <<>>
          \/ t0 + 1 \in Tracks /\ loading' = <<[track |-> t0 + 1, playhead |-> 0]>>
      <4>1. loading' = NextTrack(run) /\ loading[run].track = t0
        BY <1>1, <2>5 DEF Loaded
      <4>2. CASE t0 + 1 \in Tracks
        <5>1. loading' = [loading EXCEPT ![run].track = t0 + 1]
          BY <4>1, <4>2 DEF NextTrack
        <5>2. PICK r : r = [track |-> t0, playhead |-> 0]
          OBVIOUS
        <5>3. loading' = [<<r>> EXCEPT ![1].track = t0 + 1]
          BY <5>1, <5>2, <2>1
        <5>4. loading' = <<[r EXCEPT !.track = t0 + 1]>>
          BY ONLY <5>3
        <5> QED
          BY <5>2, <5>4, <4>2
      <4>3. CASE t0 + 1 \notin Tracks
        BY <4>1, <4>3, <2>2 DEF NextTrack
      <4> QED
        BY <4>2, <4>3
    <3>2. Take[t0] \in Nat /\ (Take[t0] = 0 => UNCHANGED streams)
      BY <1>1, <2>5 DEF Loaded
    <3>3. Take[t0] # 0 => /\ playing' = playing \cup {t0} /\ fed' = [fed EXCEPT ![t0] = 0]
                          /\ playStart' = [playStart EXCEPT ![t0] = 0]
      BY <1>1, <2>5 DEF Loaded
    <3>4. /\ [fed EXCEPT ![t0] = 0] = fed
          /\ [playStart EXCEPT ![t0] = 0] = [t \in Tracks |-> [playStart EXCEPT ![t0] = 0][t]]
      <4>1. DOMAIN playStart = Tracks
        BY <2>3
      <4>2. PICK g : g = [playStart EXCEPT ![t0] = 0]
        OBVIOUS
      <4>3. g = [t \in Tracks |-> g[t]]
        BY <4>1, <4>2
      <4>4. [fed EXCEPT ![t0] = 0] = fed
        BY <2>3
      <4> QED
        BY ONLY <4>2, <4>3, <4>4
    <3>5. UNCHANGED <<recorder, quanta, port, reported, plays, history>>
      BY <2>5 DEF Loaded
    <3> QED
      <4>1. CASE Take[t0] = 0
        BY ONLY <2>3, <3>1, <3>2, <3>5, <4>1 DEF streams
      <4>2. CASE Take[t0] # 0
        <5>1. /\ playing' = playing \cup {t0} /\ fed' = fed
              /\ playStart' = [playStart EXCEPT ![t0] = 0]
              /\ playStart' = [t \in Tracks |-> playStart'[t]]
          BY ONLY <3>3, <3>4, <4>2
        <5>2. Take[t0] > 0
          BY ONLY <3>2, <4>2
        <5> QED
          BY ONLY <3>1, <3>5, <5>1, <5>2
      <4> QED
        BY <4>1, <4>2
  <2> QED
    BY <2>4, <2>5
<1>3. /\ plays # 0 /\ fed[t0] = 0 /\ t0 \notin playing
      /\ \A t \in Tracks : t0 <= t => fed[t] = 0 /\ t \notin playing
  BY <1>1 DEF IInv, OneRun
<1>4. \A t \in Tracks : Owed(t)' => Owed(t)
  <2> SUFFICES ASSUME NEW t \in Tracks, Owed(t)' PROVE Owed(t)
    OBVIOUS
  <2>1. CASE t \in playing'
    BY <1>1, <1>2, <2>1 DEF Owed
  <2>2. CASE \E r \in DOMAIN loading' : loading'[r].track <= t /\ Take[t] > 0
    BY <1>1, <1>2, <2>2 DEF Owed
  <2>3. CASE \E i \in DOMAIN toWorklet' : toWorklet'[i].type = "feedPlayback" /\ toWorklet'[i].track = t
    BY <1>2, <2>3 DEF Owed, port
  <2> QED
    BY <2>1, <2>2, <2>3 DEF Owed
<1>5. Typed'
  <2>1. loading' \in Seq([track : Tracks, playhead : {0}])
    <3>1. CASE loading' = <<>>
      BY <3>1
    <3>2. CASE t0 + 1 \in Tracks /\ loading' = <<[track |-> t0 + 1, playhead |-> 0]>>
      <4>1. [track |-> t0 + 1, playhead |-> 0] \in [track : Tracks, playhead : {0}]
        BY <3>2
      <4> QED
        BY <3>2, <4>1
    <3> QED
      BY <1>2, <3>1, <3>2
  <2>2. playing' \in SUBSET Tracks
    BY <1>2 DEF IInv, Typed
  <2>3. \A t \in playing' : playStart'[t] = 0
    <3>1. DOMAIN playStart = Tracks /\ \A t \in playing : t \in Tracks /\ playStart[t] = 0
      BY DEF IInv, Typed
    <3> QED
      BY ONLY <1>2, <3>1
  <2> QED
    BY <1>2, <2>1, <2>2, <2>3 DEF IInv, Typed, recorder, port, history, heard
<1>6. (OnTheWay /\ Lined /\ Room)'
  BY <1>2 DEF IInv, OnTheWay, Way, Lined, Room, recorder, port, history, heard
<1>7. OneRun'
  <2>1. Len(loading') <= 1
    <3>1. loading' = <<>> \/ \E x : loading' = <<x>>
      BY <1>2
    <3> QED
      BY ONLY <3>1
  <2>2. ASSUME NEW r \in DOMAIN loading', NEW t \in Tracks, loading'[r].track <= t
        PROVE  fed'[t] = 0 /\ t \notin playing'
    <3>1. t0 + 1 <= t
      BY <1>2, <2>2
    <3> QED
      BY <1>2, <1>3, <3>1
  <2> QED
    BY <1>2, <1>3, <2>1, <2>2 DEF OneRun
<1>8. (PlayComesFirst /\ ChunksInPort)'
  BY <1>2 DEF IInv, PlayComesFirst, ChunksInPort, port
<1>9. Still'
  BY <1>2 DEF IInv, Still, ToCome, recorder, port, history, heard
<1>10. (InTime /\ Lasting)'
  BY <1>2, <1>4 DEF IInv, InTime, Lasting, recorder, port, history, heard
<1>11. SeeksComeFirst'
  <2>1. /\ last[t0] = 0 /\ ring[t0] = <<>> /\ playhead \in Nat
        /\ \A i \in DOMAIN toWorklet : ~ Feeds(toWorklet[i], t0)
    BY <1>3, NothingFed DEF IInv, Typed
  <2>2. \A t \in playing' : t \in playing \/ t = t0
    BY <1>2
  <2> QED
    BY <1>2, <2>1, <2>2 DEF IInv, SeeksComeFirst, recorder, port, history, heard
<1>12. FedAhead'
  <2>1. \A t \in playing' : t \in playing \/ fed[t] = 0
    BY <1>2, <1>3
  <2> QED
    BY <1>2, <2>1 DEF IInv, FedAhead
<1>13. Reporting'
  BY <1>2 DEF IInv, Reporting, LatestReport, recorder, port
<1> QED
  BY <1>5, <1>6, <1>7, <1>8, <1>9, <1>10, <1>11, <1>12, <1>13 DEF IInv

-----------------------------------------------------------------------------
(* Reports.                                                                *)

\* What a pump plans for a stream: more than it was fed, to the high-water mark of
\* the report or the end of the take, and no more than the ring has room for.
Planned(t, x, p) ==
  /\ x \in Nat /\ fed[t] <= x /\ x <= Take[t] /\ x <= last[t] + RingBlocks
  /\ x = Take[t] \/ \E k \in Nat : x = fed[t] + Chunk * k
  /\ x = Take[t] \/ x >= p + Highwater

LEMMA OldestReport ==
  ASSUME IInv, toPage # <<>>
  PROVE  \E p \in Nat : p = Head(toPage) /\ p = toPage[1] /\ 1 \in DOMAIN toPage
<1>1. toPage \in Seq(Nat)
  BY DEF IInv, Typed
<1>2. 1 \in DOMAIN toPage /\ Head(toPage) = toPage[1]
  BY <1>1
<1>3. toPage[1] \in Nat
  BY <1>1, <1>2, ElementOfSeq
<1> QED
  BY <1>2, <1>3

\* What is left of a sequence ends as it did.
LEMMA LastOfTail ==
  ASSUME NEW S, NEW q \in Seq(S), q # <<>>
  PROVE  IF Len(q) = 1 THEN Tail(q) = <<>>
                       ELSE Tail(q) # <<>> /\ Tail(q)[Len(Tail(q))] = q[Len(q)]
<1>1. PICK n \in Nat : n + 1 = Len(q)
  <2>1. Len(q) - 1 \in Nat /\ (Len(q) - 1) + 1 = Len(q)
    OBVIOUS
  <2> QED
    BY <2>1
<1>2. PICK r \in Seq(S) : r = Tail(q)
  <2>1. Tail(q) \in Seq(S)
    OBVIOUS
  <2> QED
    BY <2>1
<1>3. Len(r) = n /\ \A i \in 1..n : r[i] = q[i + 1]
  BY <1>1, <1>2
<1>4. CASE n = 0
  BY <1>1, <1>2, <1>3, <1>4
<1>5. CASE n # 0
  <2>1. n \in 1..n
    BY <1>5
  <2>2. r # <<>> /\ r[n] = q[n + 1]
    BY <1>3, <1>5, <2>1
  <2> QED
    BY ONLY <1>1, <1>2, <1>3, <1>5, <2>2
<1> QED
  BY <1>4, <1>5

LEMMA PlanFeeds ==
  ASSUME IInv, toPage # <<>>, NEW t \in playing
  PROVE  Planned(t, planPlaybackFeed(t, Head(toPage)), Head(toPage))
<1>1. PICK p \in Nat : p = Head(toPage) /\ p = toPage[1] /\ 1 \in DOMAIN toPage
  BY OldestReport
<1>2. t \in Tracks /\ Owed(t) /\ playStart[t] = 0
  BY DEF IInv, Typed, Owed
<1>3. PICK f \in Nat : f = fed[t]
  BY <1>2 DEF IInv, Typed
<1>4. PICK T \in Nat : T = Take[t]
  BY <1>2, Constants
<1>5. PICK l \in Nat : l = last[t]
  BY <1>2 DEF IInv, Typed
<1>6. silence[t] \in Nat /\ silence[t] <= MaxSilence /\ p <= l + silence[t]
  BY <1>1, <1>2, <1>5 DEF IInv, Typed, InTime
<1>7. f <= T /\ f <= l + RingBlocks
  BY <1>2, <1>3, <1>4, <1>5 DEF IInv, Room
<1>8. /\ Chunk \in Nat \ {0} /\ Highwater \in Nat \ {0} /\ RingBlocks \in Nat \ {0}
      /\ MaxSilence \in Nat /\ MaxSilence + Highwater + Chunk - 1 <= RingBlocks
  BY Constants, SlackAssumption
<1>9. consumed(t, p) = p
  BY <1>2 DEF consumed, AtLeastZero
<1>10. PICK w \in Nat : w = AtLeastZero(Highwater - (f - p))
  <2>1. AtLeastZero(Highwater - (f - p)) \in Nat
    BY ONLY <1>8, f \in Nat, p \in Nat DEF AtLeastZero
  <2> QED
    BY <2>1
<1>11. (w = 0 /\ Highwater <= f - p) \/ w = Highwater + p - f
  BY ONLY <1>8, <1>10, f \in Nat, p \in Nat DEF AtLeastZero
<1>12. PICK k : k = (w + Chunk - 1) \div Chunk
  OBVIOUS
<1>13. k \in Nat /\ w <= Chunk * k /\ Chunk * k < w + Chunk
  BY <1>8, <1>12, DivideUp
<1>14. PICK y : y = Chunk * k
  OBVIOUS
<1>15. y \in Nat /\ w <= y /\ y < w + Chunk /\ (w = 0 => y = 0)
  <2>1. w = 0 => k = 0
    BY <1>8, <1>13, NoneToDivide
  <2> QED
    BY <1>8, <1>13, <1>14, <2>1
<1>16. planPlaybackFeed(t, p) = Least(T, f + y)
  BY <1>3, <1>4, <1>9, <1>10, <1>12, <1>14 DEF planPlaybackFeed, ChunksWanted, Ahead
<1>17. /\ f + y <= l + RingBlocks
       /\ f + y >= p + Highwater
  BY ONLY <1>6, <1>7, <1>8, <1>11, <1>15, p \in Nat, f \in Nat, l \in Nat, w \in Nat
<1>18. PICK x : x = planPlaybackFeed(t, p)
  OBVIOUS
<1>19. x = T \/ x = f + y
  BY <1>16, <1>18 DEF Least
<1>20. x \in Nat /\ f <= x /\ x <= T /\ x <= l + RingBlocks
  BY ONLY <1>7, <1>8, <1>15, <1>16, <1>17, <1>18, f \in Nat, T \in Nat, l \in Nat DEF Least
<1> QED
  BY <1>1, <1>3, <1>4, <1>5, <1>13, <1>14, <1>17, <1>18, <1>19, <1>20 DEF Planned

LEMMA ReportInv == ASSUME IInv, ReportArrives PROVE IInv'
<1> USE Constants
<1>1. PICK p \in Nat : p = Head(toPage) /\ p = toPage[1] /\ 1 \in DOMAIN toPage
  BY OldestReport DEF ReportArrives
<1>2. /\ toPage # <<>> /\ reported' = p /\ toPage' = Tail(toPage)
      /\ toWorklet' = toWorklet \o Sent(fed, fed')
      /\ playing' = {t \in playing : fed'[t] < Take[t]}
      /\ fed' = [t \in Tracks |-> IF t \in playing THEN planPlaybackFeed(t, p) ELSE fed[t]]
      /\ UNCHANGED <<recorder, quanta, plays, loading, history, playStart>>
  BY <1>1 DEF ReportArrives, pump, Sent
<1>3. \A t \in playing : t \in Tracks /\ fed'[t] = planPlaybackFeed(t, p) /\ Planned(t, fed'[t], p)
  BY <1>1, <1>2, PlanFeeds DEF IInv, Typed
<1>4. \A t \in Tracks : t \notin playing => fed'[t] = fed[t]
  BY <1>2
<1>5. \A t \in Tracks : fed[t] \in Nat /\ fed'[t] \in Nat /\ fed[t] <= fed'[t]
  <2> SUFFICES ASSUME NEW t \in Tracks
               PROVE  fed[t] \in Nat /\ fed'[t] \in Nat /\ fed[t] <= fed'[t]
    OBVIOUS
  <2>1. fed[t] \in Nat
    BY DEF IInv, Typed
  <2>2. CASE t \in playing
    BY ONLY <2>1, <2>2, <1>3 DEF Planned
  <2>3. CASE t \notin playing
    BY ONLY <2>1, <2>3, <1>4, t \in Tracks
  <2> QED
    BY <2>2, <2>3
<1>6. fed' \in [Tracks -> Nat]
  BY <1>2, <1>5
<1>7. /\ Sent(fed, fed') \in Seq(Message)
      /\ \A t \in Tracks : Carries(t, Sent(fed, fed'), fed[t], fed'[t])
      /\ \A i \in DOMAIN Sent(fed, fed') :
           \E s \in Tracks : Chunked(Sent(fed, fed')[i], s) /\ fed[s] < fed'[s]
  <2>1. \A t \in Tracks : fed'[t] = Take[t] \/ \E k \in Nat : fed'[t] = fed[t] + Chunk * k
    <3> SUFFICES ASSUME NEW t \in Tracks
                 PROVE  fed'[t] = Take[t] \/ \E k \in Nat : fed'[t] = fed[t] + Chunk * k
      OBVIOUS
    <3>1. CASE t \in playing
      BY <3>1, <1>3 DEF Planned
    <3>2. CASE t \notin playing
      <4>1. 0 \in Nat /\ fed'[t] = fed[t] + Chunk * 0
        BY <3>2, <1>4, <1>5
      <4> QED
        BY <4>1
    <3> QED
      BY <3>1, <3>2
  <2>2. fed \in [Tracks -> Nat]
    BY DEF IInv, Typed
  <2> QED
    BY ONLY <2>1, <2>2, <1>5, <1>6, PumpSends
<1>8. PICK q : q = Sent(fed, fed')
  OBVIOUS
<1>9. PICK n \in Nat : n = Len(toWorklet)
  <2>1. toWorklet \in Seq(Message)
    BY DEF IInv, Typed
  <2> QED
    BY ONLY <2>1
<1>10. /\ \A i \in DOMAIN toWorklet : i \in 1..n /\ i \in DOMAIN toWorklet' /\ toWorklet'[i] = toWorklet[i]
       /\ \A i \in DOMAIN toWorklet' :
            \/ i \in DOMAIN toWorklet
            \/ i > n /\ \E s \in Tracks : Chunked(toWorklet'[i], s) /\ s \in playing
  <2>1. PICK k \in Nat : k = Len(q) /\ DOMAIN q = 1..k
    BY <1>7, <1>8
  <2>2. /\ DOMAIN toWorklet = 1..n /\ DOMAIN toWorklet' = 1..(n + k)
        /\ \A i \in 1..n : toWorklet'[i] = toWorklet[i]
        /\ \A i \in (n + 1)..(n + k) : i - n \in 1..k /\ toWorklet'[i] = q[i - n]
    <3>1. toWorklet \in Seq(Message) /\ q \in Seq(Message) /\ toWorklet' = toWorklet \o q
      BY <1>2, <1>7, <1>8 DEF IInv, Typed
    <3> QED
      BY ONLY <1>9, <2>1, <3>1
  <2>3. ASSUME NEW i \in 1..(n + k), ~ (i \in 1..n)
        PROVE  i > n /\ \E s \in Tracks : Chunked(toWorklet'[i], s) /\ s \in playing
    <3>1. i \in (n + 1)..(n + k) /\ i > n
      BY <2>3
    <3>2. PICK s \in Tracks : Chunked(q[i - n], s) /\ fed[s] < fed'[s]
      BY ONLY <1>7, <1>8, <2>1, <2>2, <3>1
    <3>3. s \in playing
      BY <1>4, <1>5, <3>2
    <3> QED
      BY ONLY <2>2, <3>1, <3>2, <3>3
  <2>4. \A i \in 1..n : i \in 1..(n + k)
    OBVIOUS
  <2> QED
    BY ONLY <2>2, <2>3, <2>4
<1>11. plays = 0 => DOMAIN toWorklet' = DOMAIN toWorklet
  <2>1. plays = 0 => playing = {}
    BY DEF IInv, OneRun
  <2> QED
    BY <1>10, <2>1
<1>12. \A t \in Tracks : Owed(t)' => Owed(t)
  <2> SUFFICES ASSUME NEW t \in Tracks, Owed(t)' PROVE Owed(t)
    OBVIOUS
  <2>1. CASE t \in playing'
    BY <1>2, <2>1 DEF Owed
  <2>2. CASE \E r \in DOMAIN loading' : loading'[r].track <= t /\ Take[t] > 0
    BY <1>2, <2>2 DEF Owed
  <2>3. CASE \E i \in DOMAIN toWorklet' : toWorklet'[i].type = "feedPlayback" /\ toWorklet'[i].track = t
    <3>1. PICK i \in DOMAIN toWorklet' : toWorklet'[i].type = "feedPlayback" /\ toWorklet'[i].track = t
      BY <2>3
    <3>2. CASE i \in DOMAIN toWorklet
      BY <1>10, <3>1, <3>2 DEF Owed
    <3>3. CASE \E s \in Tracks : Chunked(toWorklet'[i], s) /\ s \in playing
      BY <3>1, <3>3 DEF Owed, Chunked, Feeds
    <3> QED
      BY <1>10, <3>2, <3>3
  <2> QED
    BY <2>1, <2>2, <2>3 DEF Owed
<1>13. Typed'
  <2>1. toWorklet' \in Seq(Message)
    BY <1>2, <1>7 DEF IInv, Typed
  <2>2. toPage' \in Seq(Nat)
    BY <1>2 DEF IInv, Typed
  <2>3. playing' \in SUBSET Tracks
    BY <1>2 DEF IInv, Typed
  <2>4. \A t \in playing' : playStart'[t] = 0
    BY <1>2 DEF IInv, Typed
  <2> QED
    BY <1>2, <1>6, <2>1, <2>2, <2>3, <2>4 DEF IInv, Typed, recorder, history, heard
<1>14. \A i \in DOMAIN toPage' : i + 1 \in DOMAIN toPage /\ toPage'[i] = toPage[i + 1]
  BY <1>2 DEF IInv, Typed
<1>15. OnTheWay'
  <2> SUFFICES ASSUME NEW t \in Tracks PROVE Way(t)'
    BY DEF OnTheWay
  <2>1. Carries(t, toWorklet, last[t] + Len(ring[t]), fed[t]) /\ toWorklet \in Seq(Message)
    BY DEF IInv, OnTheWay, Way, Typed
  <2>2. Carries(t, q, fed[t], fed'[t]) /\ q \in Seq(Message)
    BY <1>7, <1>8
  <2>3. Carries(t, toWorklet \o q, last[t] + Len(ring[t]), fed'[t])
    BY ONLY <2>1, <2>2, CarriesOn
  <2> QED
    BY <1>2, <1>8, <2>3 DEF Way, recorder, history, heard
<1>16. (Lined /\ Room)'
  <2>1. \A t \in Tracks : fed'[t] <= Take[t] /\ fed'[t] <= last[t] + RingBlocks
    BY <1>3, <1>4 DEF IInv, Room, Planned
  <2>2. last' = last /\ ring' = ring
    BY <1>2 DEF recorder, history, heard
  <2>3. Lined'
    BY <2>2 DEF IInv, Lined
  <2> QED
    BY <2>1, <2>2, <2>3 DEF Room
<1>17. OneRun'
  <2>1. plays = 0 => fed' = fed
    <3> SUFFICES ASSUME plays = 0 PROVE fed' = fed
      OBVIOUS
    <3>1. playing = {}
      BY DEF IInv, OneRun
    <3> QED
      BY <1>2, <3>1 DEF IInv, Typed
  <2> QED
    BY <1>2, <1>4, <2>1 DEF IInv, OneRun
<1>18. PlayComesFirst'
  <2>1. ASSUME plays = 0, NEW i \in DOMAIN toWorklet'
        PROVE  toWorklet'[i].type \notin {"play", "feedPlayback"}
    BY <1>10, <1>11, <2>1 DEF IInv, PlayComesFirst
  <2>2. ASSUME NEW i \in DOMAIN toWorklet', NEW j \in DOMAIN toWorklet', toWorklet'[i].type = "play",
               toWorklet'[j].type \in {"play", "feedPlayback"}
        PROVE  i <= j
    <3>1. i \in DOMAIN toWorklet
      BY <1>10, <2>2 DEF Chunked, Feeds
    <3>2. CASE j \in DOMAIN toWorklet
      BY <1>10, <2>2, <3>1, <3>2 DEF IInv, PlayComesFirst
    <3>3. CASE j > n
      <4>1. i \in 1..n /\ j \in Nat
        <5>1. toWorklet' \in Seq(Message)
          BY <1>13 DEF Typed
        <5> QED
          BY <1>10, <3>1, <5>1
      <4> QED
        BY <3>3, <4>1
    <3> QED
      BY <1>10, <3>2, <3>3
  <2>3. plays' = plays
    BY <1>2
  <2> QED
    BY ONLY <2>1, <2>2, <2>3 DEF PlayComesFirst
<1>19. Still'
  <2> SUFFICES ASSUME ToCome'
               PROVE  /\ ~ rolling' /\ playhead' = 0 /\ reported' = 0
                      /\ \A i \in DOMAIN toPage' : toPage'[i] = 0
                      /\ \A t \in Tracks : last'[t] = 0 /\ silence'[t] = 0 /\ ring'[t] = <<>>
    BY DEF Still
  <2>1. ToCome
    <3>1. ASSUME NEW i \in DOMAIN toWorklet', toWorklet'[i].type = "play"
          PROVE  i \in DOMAIN toWorklet /\ toWorklet[i].type = "play"
      BY <1>10, <3>1 DEF Chunked, Feeds
    <3> QED
      BY <1>2, <3>1 DEF ToCome
  <2> QED
    BY <1>1, <1>2, <1>14, <2>1 DEF IInv, Still, recorder, history, heard
<1>20. InTime'
  BY <1>2, <1>12, <1>14 DEF IInv, InTime, recorder, history, heard
<1>21. ChunksInPort'
  <2> SUFFICES ASSUME NEW i \in DOMAIN toWorklet', toWorklet'[i].type = "feedPlayback"
               PROVE  WholeChunk(toWorklet'[i])
    BY DEF ChunksInPort, WholeChunk
  <2> QED
    BY <1>10 DEF IInv, ChunksInPort, Chunked
<1>22. SeeksComeFirst'
  <2> SUFFICES ASSUME NEW t \in playing'
               PROVE  /\ last'[t] <= playhead'
                      /\ \A i \in DOMAIN toWorklet' : toWorklet'[i].type = "seek" =>
                           /\ ring'[t] = <<>> /\ last'[t] = 0
                           /\ \A j \in DOMAIN toWorklet' : Feeds(toWorklet'[j], t) => i < j
    BY DEF SeeksComeFirst, Feeds
  <2>1. t \in playing /\ last' = last /\ playhead' = playhead /\ ring' = ring
    BY <1>2 DEF recorder, history, heard
  <2>2. ASSUME NEW i \in DOMAIN toWorklet', toWorklet'[i].type = "seek"
        PROVE  /\ ring[t] = <<>> /\ last[t] = 0
               /\ \A j \in DOMAIN toWorklet' : Feeds(toWorklet'[j], t) => i < j
    <3>1. i \in DOMAIN toWorklet /\ toWorklet[i].type = "seek" /\ i \in 1..n
      BY <1>10, <2>2 DEF Chunked, Feeds
    <3>2. /\ ring[t] = <<>> /\ last[t] = 0
          /\ \A j \in DOMAIN toWorklet : Feeds(toWorklet[j], t) => i < j
      BY <2>1, <3>1 DEF IInv, SeeksComeFirst
    <3>3. ASSUME NEW j \in DOMAIN toWorklet', Feeds(toWorklet'[j], t) PROVE i < j
      <4>1. CASE j \in DOMAIN toWorklet
        BY <1>10, <3>2, <3>3, <4>1
      <4>2. CASE j > n
        <5>1. toWorklet' \in Seq(Message)
          BY <1>13 DEF Typed
        <5>2. j \in Nat
          BY <5>1
        <5> QED
          BY <3>1, <4>2, <5>2
      <4> QED
        BY <1>10, <4>1, <4>2
    <3> QED
      BY <3>2, <3>3
  <2>3. last[t] <= playhead
    BY <2>1 DEF IInv, SeeksComeFirst
  <2> QED
    BY <2>1, <2>2, <2>3
<1>23. FedAhead'
  <2> SUFFICES ASSUME NEW t \in playing' PROVE fed'[t] >= reported' + Highwater
    BY DEF FedAhead
  <2>1. t \in playing /\ fed'[t] < Take[t] /\ Planned(t, fed'[t], p)
    BY <1>2, <1>3
  <2>2. fed'[t] \in Nat /\ Take[t] \in Nat
    BY <1>3, <2>1 DEF Planned
  <2> QED
    BY <1>2, <2>1, <2>2 DEF Planned
<1>24. Reporting'
  <2>1. LatestReport' = LatestReport
    <3>1. toPage \in Seq(Nat) /\ toPage # <<>>
      BY <1>2 DEF IInv, Typed
    <3>2. IF Len(toPage) = 1
          THEN Tail(toPage) = <<>>
          ELSE Tail(toPage) # <<>> /\ Tail(toPage)[Len(Tail(toPage))] = toPage[Len(toPage)]
      BY ONLY <3>1, LastOfTail
    <3> QED
      BY ONLY <1>1, <1>2, <3>1, <3>2 DEF LatestReport
  <2> QED
    BY <1>2, <2>1 DEF IInv, Reporting, recorder
<1>25. Lasting'
  BY <1>2, <1>12 DEF IInv, Lasting, recorder, history, heard
<1> QED
  BY <1>13, <1>15, <1>16, <1>17, <1>18, <1>19, <1>20, <1>21, <1>22, <1>23, <1>24, <1>25 DEF IInv

-----------------------------------------------------------------------------
(* Messages.                                                               *)

\* The message at the head of the port is taken from it, and takes each track on.
Taken(m) ==
  /\ 1 \in DOMAIN toWorklet /\ m = toWorklet[1] /\ m \in Message
  /\ toWorklet' \in Seq(Message) /\ UNCHANGED <<quanta, toPage, page>>
  /\ \A i \in DOMAIN toWorklet' :
       i \in Nat \ {0} /\ i + 1 \in DOMAIN toWorklet /\ toWorklet'[i] = toWorklet[i + 1]
  /\ \A t \in Tracks : \E e \in Nat :
       Moves(t, m, last[t] + Len(ring[t]), e) /\ Carries(t, toWorklet', e, fed[t])

LEMMA MessageTaken ==
  ASSUME IInv, MessageArrives
  PROVE  Taken(Head(toWorklet))
<1>1. toWorklet \in Seq(Message) /\ toWorklet # <<>> /\ toWorklet' = Tail(toWorklet)
  BY DEF IInv, Typed, MessageArrives
<1>2. PICK n \in Nat : n + 1 = Len(toWorklet)
  <2>1. Len(toWorklet) - 1 \in Nat /\ (Len(toWorklet) - 1) + 1 = Len(toWorklet)
    BY <1>1
  <2> QED
    BY <2>1
<1>3. DOMAIN toWorklet = 1..(n + 1) /\ 1 \in DOMAIN toWorklet /\ Head(toWorklet) = toWorklet[1]
  BY ONLY <1>1, <1>2
<1>4. toWorklet[1] \in Message
  BY ONLY <1>1, <1>3, ElementOfSeq
<1>5. /\ toWorklet' \in Seq(Message) /\ DOMAIN toWorklet' = 1..n
      /\ \A i \in 1..n : toWorklet'[i] = toWorklet[i + 1]
  BY ONLY <1>1, <1>2
<1>6. \A i \in 1..n : i \in Nat \ {0} /\ i + 1 \in 1..(n + 1)
  OBVIOUS
<1>7. \A t \in Tracks : \E e \in Nat :
        Moves(t, Head(toWorklet), last[t] + Len(ring[t]), e) /\ Carries(t, toWorklet', e, fed[t])
  <2> TAKE t \in Tracks
  <2>1. Carries(t, toWorklet, last[t] + Len(ring[t]), fed[t])
    BY DEF IInv, OnTheWay, Way
  <2> QED
    BY ONLY <1>1, <2>1, CarriesFirst
<1>8. UNCHANGED <<quanta, toPage, page>>
  BY DEF MessageArrives
<1> QED
  BY ONLY <1>3, <1>4, <1>5, <1>6, <1>7, <1>8 DEF Taken

\* What a message leaves as it was, whichever it is.
LEMMA MessageKeeps ==
  ASSUME IInv, NEW m, Taken(m), UNCHANGED <<last, silence, prompt>>
  PROVE  /\ Room' /\ OneRun' /\ PlayComesFirst' /\ ChunksInPort' /\ FedAhead'
         /\ ToCome' => ToCome
         /\ \A t \in Tracks : Owed(t)' => Owed(t)
<1>1. /\ \A i \in DOMAIN toWorklet' :
           i \in Nat \ {0} /\ i + 1 \in DOMAIN toWorklet /\ toWorklet'[i] = toWorklet[i + 1]
      /\ UNCHANGED <<quanta, toPage, reported, plays, stops, loading, playing, fed, playStart>>
  BY DEF Taken, page, streams
<1>2. Room' /\ OneRun' /\ FedAhead'
  BY <1>1 DEF IInv, Room, OneRun, FedAhead
<1>3. ChunksInPort'
  BY <1>1 DEF IInv, ChunksInPort, WholeChunk
<1>4. ToCome' => ToCome
  BY <1>1 DEF ToCome
<1>5. PlayComesFirst'
  <2>1. ASSUME NEW i \in DOMAIN toWorklet', NEW j \in DOMAIN toWorklet', toWorklet'[i].type = "play",
               toWorklet'[j].type \in {"play", "feedPlayback"}
        PROVE  i <= j
    <3>1. i + 1 <= j + 1
      BY <1>1, <2>1 DEF IInv, PlayComesFirst
    <3>2. i \in Nat /\ j \in Nat
      BY <1>1
    <3> QED
      BY ONLY <3>1, <3>2
  <2>2. plays' = 0 => \A i \in DOMAIN toWorklet' : toWorklet'[i].type \notin {"play", "feedPlayback"}
    BY <1>1 DEF IInv, PlayComesFirst
  <2> QED
    BY <2>1, <2>2 DEF PlayComesFirst
<1>6. ASSUME NEW t \in Tracks, Owed(t)' PROVE Owed(t)
  <2>1. CASE \E i \in DOMAIN toWorklet' : toWorklet'[i].type = "feedPlayback" /\ toWorklet'[i].track = t
    BY <1>1, <2>1 DEF Owed
  <2>2. CASE t \in playing \/ \E run \in DOMAIN loading : loading[run].track <= t /\ Take[t] > 0
    BY <2>2 DEF Owed
  <2> QED
    BY <1>1, <1>6, <2>1, <2>2 DEF Owed
<1> QED
  BY <1>2, <1>3, <1>4, <1>5, <1>6

LEMMA LatestIsNat == ASSUME toPage \in Seq(Nat), reported \in Nat PROVE LatestReport \in Nat
<1>1. CASE toPage = <<>>
  BY <1>1 DEF LatestReport
<1>2. CASE toPage # <<>>
  <2>1. Len(toPage) \in DOMAIN toPage
    BY <1>2
  <2>2. toPage[Len(toPage)] \in Nat
    BY <2>1, ElementOfSeq
  <2> QED
    BY <1>2, <2>2 DEF LatestReport
<1> QED
  BY <1>1, <1>2

\* Play, stop and seek change the transport alone.
LEMMA OtherInv ==
  ASSUME IInv, NEW m \in Others, Taken(m), UNCHANGED <<ring, last, silence, prompt>>,
         rolling' \in BOOLEAN, playhead' = playhead \/ (playhead' = 0 /\ m.type = "seek"),
         ToCome' => ~ rolling'
  PROVE  IInv'
<1> USE Constants
<1>1. /\ \A i \in DOMAIN toWorklet' :
           i \in Nat \ {0} /\ i + 1 \in DOMAIN toWorklet /\ toWorklet'[i] = toWorklet[i + 1]
      /\ UNCHANGED <<quanta, toPage, reported, plays, stops, loading, playing, fed, playStart>>
      /\ toWorklet' \in Seq(Message) /\ 1 \in DOMAIN toWorklet /\ m = toWorklet[1]
  BY DEF Taken, page, streams
<1>2. /\ Room' /\ OneRun' /\ PlayComesFirst' /\ ChunksInPort' /\ FedAhead'
      /\ ToCome' => ToCome
      /\ \A t \in Tracks : Owed(t)' => Owed(t)
  BY MessageKeeps
<1>3. playhead' \in Nat /\ playhead' <= playhead /\ playhead \in Nat
  BY DEF IInv, Typed
<1>4. Typed'
  BY <1>1, <1>3 DEF IInv, Typed
<1>5. Lined'
  BY DEF IInv, Lined
<1>6. OnTheWay'
  <2> SUFFICES ASSUME NEW t \in Tracks PROVE Way(t)'
    BY DEF OnTheWay
  <2>1. PICK e \in Nat : Moves(t, m, last[t] + Len(ring[t]), e) /\ Carries(t, toWorklet', e, fed[t])
    BY DEF Taken
  <2>2. e = last[t] + Len(ring[t])
    BY <2>1, OthersMoveNothing DEF Moves
  <2> QED
    BY <1>1, <2>1, <2>2 DEF Way
<1>7. Still'
  <2> SUFFICES ASSUME ToCome'
               PROVE  /\ ~ rolling' /\ playhead' = 0 /\ reported' = 0
                      /\ \A i \in DOMAIN toPage' : toPage'[i] = 0
                      /\ \A t \in Tracks : last'[t] = 0 /\ silence'[t] = 0 /\ ring'[t] = <<>>
    BY DEF Still
  <2>1. ToCome
    BY <1>2
  <2>2. playhead' = 0
    BY <2>1 DEF IInv, Still
  <2> QED
    BY <1>1, <2>1, <2>2 DEF IInv, Still
<1>8. InTime'
  <2> SUFFICES ASSUME NEW t \in Tracks, Owed(t)
               PROVE  /\ playhead' <= last'[t] + silence'[t] /\ silence'[t] <= MaxSilence
                      /\ \A i \in DOMAIN toPage' : toPage'[i] <= last'[t] + silence'[t]
    BY <1>2 DEF InTime
  <2>1. /\ playhead <= last[t] + silence[t] /\ silence[t] <= MaxSilence
        /\ \A i \in DOMAIN toPage : toPage[i] <= last[t] + silence[t]
    BY DEF IInv, InTime
  <2>2. last[t] \in Nat /\ silence[t] \in Nat
    BY DEF IInv, Typed
  <2>3. playhead' <= last[t] + silence[t]
    BY ONLY <1>3, <2>1, <2>2
  <2> QED
    BY <1>1, <2>1, <2>3
<1>9. SeeksComeFirst'
  <2> SUFFICES ASSUME NEW t \in playing
               PROVE  /\ last[t] <= playhead'
                      /\ \A i \in DOMAIN toWorklet' : toWorklet'[i].type = "seek" =>
                           /\ ring[t] = <<>> /\ last[t] = 0
                           /\ \A j \in DOMAIN toWorklet' : Feeds(toWorklet'[j], t) => i < j
    BY <1>1 DEF SeeksComeFirst, Feeds
  <2>1. /\ last[t] <= playhead
        /\ \A i \in DOMAIN toWorklet : toWorklet[i].type = "seek" =>
             /\ ring[t] = <<>> /\ last[t] = 0
             /\ \A j \in DOMAIN toWorklet : Feeds(toWorklet[j], t) => i < j
    BY DEF IInv, SeeksComeFirst
  <2>2. last[t] <= playhead'
    BY <1>1, <1>3, <2>1
  <2>3. ASSUME NEW i \in DOMAIN toWorklet', toWorklet'[i].type = "seek",
               NEW j \in DOMAIN toWorklet', Feeds(toWorklet'[j], t)
        PROVE  i < j
    <3>1. i + 1 < j + 1
      BY <1>1, <2>1, <2>3
    <3>2. i \in Nat /\ j \in Nat
      BY <1>1
    <3> QED
      BY ONLY <3>1, <3>2
  <2> QED
    BY <1>1, <2>1, <2>2, <2>3
<1>10. Reporting'
  <2>1. LatestReport' = LatestReport
    BY <1>1 DEF LatestReport
  <2>2. quanta \in 0..(ReportEvery - 1) /\ playhead <= LatestReport + quanta
    BY DEF IInv, Reporting
  <2>3. LatestReport \in Nat
    BY LatestIsNat DEF IInv, Typed
  <2>4. playhead' <= LatestReport + quanta
    BY ONLY <1>3, <2>2, <2>3, Constants
  <2> QED
    BY <1>1, <2>1, <2>2, <2>4 DEF Reporting
<1>11. Lasting'
  BY <1>1, <1>2 DEF IInv, Lasting
<1> QED
  BY <1>2, <1>4, <1>5, <1>6, <1>7, <1>8, <1>9, <1>10, <1>11 DEF IInv

LEMMA RollInv == ASSUME IInv, Taken(Head(toWorklet)), Roll(Head(toWorklet)) PROVE IInv'
<1>1. PICK m : m = Head(toWorklet)
  OBVIOUS
<1>2. /\ m.type \in {"play", "stop"} /\ rolling' = (m.type = "play")
      /\ IF m.type = "play" /\ ~rolling
         THEN last' = Zero /\ silence' = Zero
         ELSE UNCHANGED <<last, silence>>
      /\ UNCHANGED <<playhead, ring, prompt>>
  BY <1>1 DEF Roll
<1>3. /\ Taken(m) /\ m \in Message /\ 1 \in DOMAIN toWorklet /\ m = toWorklet[1]
      /\ plays' = plays
      /\ \A i \in DOMAIN toWorklet' :
           i \in Nat \ {0} /\ i + 1 \in DOMAIN toWorklet /\ toWorklet'[i] = toWorklet[i + 1]
  BY <1>1 DEF Taken, page
<1>4. m \in Others
  BY <1>2, <1>3 DEF Message, Others
<1>5. CASE m.type = "play"
  <2>1. ToCome /\ plays # 0
    BY <1>3, <1>5 DEF ToCome, IInv, PlayComesFirst
  <2>2. ~ rolling /\ last' = Zero /\ silence' = Zero /\ \A t \in Tracks : last[t] = 0 /\ silence[t] = 0
    BY <1>2, <1>5, <2>1 DEF IInv, Still
  <2>3. last = Zero /\ silence = Zero
    BY <2>2 DEF IInv, Typed, Zero
  <2>4. ASSUME ToCome' PROVE FALSE
    <3>1. PICK i \in DOMAIN toWorklet' : toWorklet'[i].type = "play"
      BY <1>3, <2>1, <2>4 DEF ToCome
    <3>2. i + 1 <= 1 /\ i \in Nat \ {0}
      BY <1>3, <1>5, <3>1 DEF IInv, PlayComesFirst
    <3> QED
      BY ONLY <3>2
  <2>5. rolling' \in BOOLEAN
    BY <1>2
  <2> QED
    BY <1>2, <1>3, <1>4, <2>2, <2>3, <2>4, <2>5, OtherInv
<1>6. CASE m.type = "stop"
  BY <1>2, <1>3, <1>4, <1>6, OtherInv
<1> QED
  BY <1>2, <1>5, <1>6

LEMMA JumpInv == ASSUME IInv, Taken(Head(toWorklet)), Jump(Head(toWorklet)) PROVE IInv'
<1>1. PICK m : m = Head(toWorklet)
  OBVIOUS
<1>2. m.type = "seek" /\ playhead' = m.pos /\ UNCHANGED <<rolling, ring, last, silence, prompt>>
  BY <1>1 DEF Jump, history, heard
<1>3. Taken(m) /\ m \in Message
  BY <1>1 DEF Taken
<1>4. m \in Others /\ m.pos = 0
  BY <1>2, <1>3 DEF Message, Others, PlayMessage, StopMessage, SeekTo
<1>5. ToCome' => ~ rolling'
  <2>1. ToCome' => ToCome
    BY <1>2, <1>3, MessageKeeps
  <2> QED
    BY <1>2, <2>1 DEF IInv, Still
<1>6. rolling' \in BOOLEAN
  BY <1>2 DEF IInv, Typed
<1> QED
  BY <1>2, <1>3, <1>4, <1>5, <1>6, OtherInv

\* The blocks of a message are written to the ring of its track, which has room.
LEMMA FeedWritten ==
  ASSUME IInv, NEW m, Taken(m), feed_playback(m)
  PROVE  /\ m.track \in Tracks /\ WholeChunk(m) /\ Feeds(m, m.track)
         /\ m.to \in Nat /\ m.from = last[m.track] + Len(ring[m.track])
         /\ m.to <= last[m.track] + RingBlocks /\ Carries(m.track, toWorklet', m.to, fed[m.track])
         /\ ring' = [ring EXCEPT ![m.track] = ring[m.track] \o Blocks(m)]
         /\ Len(Blocks(m)) = m.to - m.from
<1> USE Constants
<1>1. m.type = "feedPlayback" /\ m \in Message /\ 1 \in DOMAIN toWorklet /\ m = toWorklet[1]
  BY DEF Taken, feed_playback
<1>2. m \in [type : {"feedPlayback"}, track : Tracks, from : Nat, to : Nat]
  BY <1>1 DEF Message, PlayMessage, StopMessage, SeekTo
<1>3. PICK s \in Tracks : s = m.track
  BY <1>2
<1>4. WholeChunk(m) /\ Feeds(m, s)
  BY <1>1, <1>3 DEF IInv, ChunksInPort, Feeds
<1>5. PICK e \in Nat : Moves(s, m, last[s] + Len(ring[s]), e) /\ Carries(s, toWorklet', e, fed[s])
  BY DEF Taken
<1>6. m.from = last[s] + Len(ring[s]) /\ m.to = e /\ m.from < m.to /\ m.from \in Nat
  BY <1>2, <1>4, <1>5 DEF Moves, WholeChunk
<1>7. e <= fed[s] /\ fed[s] \in Nat /\ fed[s] <= last[s] + RingBlocks
  <2>1. toWorklet' \in Seq(Message)
    BY DEF Taken
  <2> QED
    BY ONLY <1>3, <1>5, <2>1, CarriesBetween, IInv DEF IInv, Room
<1>8. last[s] \in Nat /\ Len(ring[s]) \in Nat
  <2>1. ring \in [Tracks -> Seq(Nat)] /\ last \in [Tracks -> Nat]
    BY DEF IInv, Typed
  <2>2. ring[s] \in Seq(Nat) /\ last[s] \in Nat
    BY ONLY <2>1, s \in Tracks
  <2> QED
    BY ONLY <2>2
<1>9. e <= last[s] + RingBlocks
  BY ONLY <1>7, <1>8, e \in Nat, Constants
<1>10. Len(Blocks(m)) = m.to - m.from
  BY <1>6 DEF Blocks
<1>11. Len(ring[s]) + Len(Blocks(m)) <= RingBlocks
  <2>1. PICK k \in Nat : k = Len(ring[s])
    BY <1>8
  <2>2. PICK l \in Nat : l = last[s]
    BY <1>8
  <2>3. k + (e - (l + k)) <= RingBlocks
    BY ONLY <1>9, <2>2, e \in Nat, k \in Nat, l \in Nat, Constants
  <2> QED
    BY ONLY <1>6, <1>10, <2>1, <2>2, <2>3
<1>12. Write(ring[s], Blocks(m)) = ring[s] \o Blocks(m)
  BY <1>11 DEF Write
<1> QED
  BY <1>3, <1>4, <1>5, <1>6, <1>9, <1>10, <1>12 DEF feed_playback

LEMMA FeedInv == ASSUME IInv, Taken(Head(toWorklet)), feed_playback(Head(toWorklet)) PROVE IInv'
<1> USE Constants
<1>1. PICK m : m = Head(toWorklet)
  OBVIOUS
<1>2. /\ Taken(m) /\ m \in Message /\ 1 \in DOMAIN toWorklet /\ m = toWorklet[1] /\ m.type = "feedPlayback"
      /\ toWorklet' \in Seq(Message)
      /\ \A i \in DOMAIN toWorklet' :
           i \in Nat \ {0} /\ i + 1 \in DOMAIN toWorklet /\ toWorklet'[i] = toWorklet[i + 1]
      /\ UNCHANGED <<rolling, playhead, last, silence, prompt>>
      /\ UNCHANGED <<quanta, toPage, reported, plays, stops, loading, playing, fed, playStart>>
  BY <1>1 DEF Taken, page, streams, feed_playback, history, heard
<1>3. PICK s \in Tracks :
        /\ s = m.track /\ WholeChunk(m) /\ Feeds(m, s)
        /\ m.to \in Nat /\ m.from = last[s] + Len(ring[s])
        /\ m.to <= last[s] + RingBlocks /\ Carries(s, toWorklet', m.to, fed[s])
        /\ ring' = [ring EXCEPT ![s] = ring[s] \o Blocks(m)]
        /\ Len(Blocks(m)) = m.to - m.from
  BY <1>1, <1>2, FeedWritten
<1>4. last[s] \in Nat /\ ring[s] \in Seq(Nat) /\ Len(ring[s]) \in Nat /\ ring \in [Tracks -> Seq(Nat)]
  <2>1. ring \in [Tracks -> Seq(Nat)] /\ last \in [Tracks -> Nat]
    BY DEF IInv, Typed
  <2>2. ring[s] \in Seq(Nat) /\ last[s] \in Nat
    BY ONLY <2>1, s \in Tracks
  <2> QED
    BY ONLY <2>1, <2>2
<1>5. PICK l \in Nat : l = last[s]
  BY <1>4
<1>6. PICK k \in Nat : k = Len(ring[s])
  BY <1>4
<1>7. PICK d \in Nat : d = m.to - m.from /\ m.to = l + k + d /\ d > 0
  <2>1. m.from = l + k /\ m.from < m.to /\ m.to \in Nat
    BY ONLY <1>3, <1>5, <1>6 DEF WholeChunk
  <2>2. PICK x \in Nat : x = m.to
    BY ONLY <2>1
  <2>3. x - (l + k) \in Nat /\ x = l + k + (x - (l + k)) /\ x - (l + k) > 0
    BY ONLY <2>1, <2>2, l \in Nat, k \in Nat
  <2> QED
    BY ONLY <2>1, <2>2, <2>3
<1>8. /\ Blocks(m) = [i \in 1..d |-> l + k + i] /\ Blocks(m) \in Seq(Nat)
      /\ Len(Blocks(m)) = d
  <2>1. Blocks(m) = [i \in 1..d |-> l + k + i]
    BY <1>3, <1>5, <1>6, <1>7 DEF Blocks
  <2>2. \A i \in 1..d : l + k + i \in Nat
    OBVIOUS
  <2> QED
    BY ONLY <2>1, <2>2, d \in Nat
<1>9. ring'[s] = ring[s] \o Blocks(m) /\ \A t \in Tracks : t # s => ring'[t] = ring[t]
  BY <1>3, <1>4
<1>10. ring'[s] \in Seq(Nat) /\ Len(ring'[s]) = k + d
  BY ONLY <1>4, <1>6, <1>8, <1>9
<1>11. /\ Room' /\ OneRun' /\ PlayComesFirst' /\ ChunksInPort' /\ FedAhead'
       /\ ToCome' => ToCome
       /\ \A t \in Tracks : Owed(t)' => Owed(t)
  BY <1>2, MessageKeeps
<1>12. Typed'
  <2>1. ring' \in [Tracks -> Seq(Nat)]
    BY <1>3, <1>4, <1>9, <1>10
  <2> QED
    BY <1>2, <2>1 DEF IInv, Typed
<1>13. Lined'
  <2> SUFFICES ASSUME NEW t \in Tracks
               PROVE  ring'[t] = [i \in 1..Len(ring'[t]) |-> last[t] + i]
    BY <1>2 DEF Lined
  <2>1. CASE t # s
    BY <1>9, <2>1 DEF IInv, Lined
  <2>2. CASE t = s
    <3>1. ring[s] = [i \in 1..k |-> l + i]
      BY <1>5, <1>6 DEF IInv, Lined
    <3>2. ring'[s] = [i \in 1..(k + d) |-> l + i]
      <4>1. PICK r : r = ring[s] \o Blocks(m)
        OBVIOUS
      <4>2. PICK u : u = ring[s]
        OBVIOUS
      <4>3. PICK v : v = Blocks(m)
        OBVIOUS
      <4>4. /\ u \in Seq(Nat) /\ v \in Seq(Nat) /\ r = u \o v /\ Len(u) = k /\ Len(v) = d
            /\ u = [i \in 1..k |-> l + i] /\ v = [i \in 1..d |-> l + k + i]
        BY ONLY <1>4, <1>6, <1>8, <3>1, <4>1, <4>2, <4>3
      <4>5. ASSUME NEW i \in 1..(k + d) PROVE r[i] = l + i
        <5>1. CASE i <= k
          <6>1. i \in 1..k
            BY <5>1
          <6>2. r[i] = u[i]
            BY ONLY <4>4, <6>1, k \in Nat, d \in Nat
          <6> QED
            BY ONLY <4>4, <6>1, <6>2
        <5>2. CASE ~ (i <= k)
          <6>1. i - k \in 1..d /\ l + k + (i - k) = l + i
            BY <5>2
          <6>2. r[i] = v[i - k]
            BY ONLY <4>4, <5>2, <6>1, i \in 1..(k + d), k \in Nat, d \in Nat
          <6> QED
            BY ONLY <4>4, <6>1, <6>2
        <5> QED
          BY <5>1, <5>2
      <4>6. r \in Seq(Nat) /\ Len(r) = k + d
        BY ONLY <4>4
      <4>7. r = [i \in 1..(k + d) |-> r[i]]
        BY ONLY <4>6
      <4>8. r = [i \in 1..(k + d) |-> l + i]
        BY ONLY <4>5, <4>7
      <4> QED
        BY <1>9, <4>1, <4>8
    <3> QED
      BY <1>5, <1>10, <2>2, <3>2
  <2> QED
    BY <2>1, <2>2
<1>14. OnTheWay'
  <2> SUFFICES ASSUME NEW t \in Tracks PROVE Carries(t, toWorklet', last[t] + Len(ring'[t]), fed[t])
    BY <1>2 DEF OnTheWay, Way
  <2>1. CASE t # s
    <3>1. PICK e \in Nat : Moves(t, m, last[t] + Len(ring[t]), e) /\ Carries(t, toWorklet', e, fed[t])
      BY <1>2 DEF Taken
    <3>2. ~ Feeds(m, t)
      BY <1>3, <2>1 DEF Feeds
    <3> QED
      BY <1>9, <2>1, <3>1, <3>2 DEF Moves
  <2>2. CASE t = s
    <3>1. l + (k + d) = m.to
      BY <1>7
    <3> QED
      BY <1>3, <1>5, <1>10, <2>2, <3>1
  <2> QED
    BY <2>1, <2>2
<1>15. ~ ToCome'
  <2>1. SUFFICES ASSUME ToCome PROVE FALSE
    BY <1>11
  <2>2. plays # 0
    BY <1>2 DEF IInv, PlayComesFirst
  <2>3. PICK i \in DOMAIN toWorklet : toWorklet[i].type = "play"
    BY <2>1, <2>2 DEF ToCome
  <2>4. i <= 1 /\ i \in Nat \ {0}
    <3>1. toWorklet \in Seq(Message)
      BY DEF IInv, Typed
    <3>2. i \in Nat \ {0}
      BY ONLY <3>1, i \in DOMAIN toWorklet
    <3> QED
      BY <1>2, <2>3, <3>2 DEF IInv, PlayComesFirst
  <2> QED
    BY <1>2, <2>3, <2>4
<1>16. Still'
  BY <1>15 DEF Still
<1>17. InTime'
  BY <1>2, <1>11 DEF IInv, InTime
<1>18. SeeksComeFirst'
  <2> SUFFICES ASSUME NEW t \in playing
               PROVE  /\ last[t] <= playhead
                      /\ \A i \in DOMAIN toWorklet' : toWorklet'[i].type = "seek" =>
                           /\ ring'[t] = <<>> /\ last[t] = 0
                           /\ \A j \in DOMAIN toWorklet' : Feeds(toWorklet'[j], t) => i < j
    BY <1>2 DEF SeeksComeFirst, Feeds
  <2>1. /\ last[t] <= playhead
        /\ \A i \in DOMAIN toWorklet : toWorklet[i].type = "seek" =>
             /\ ring[t] = <<>> /\ last[t] = 0
             /\ \A j \in DOMAIN toWorklet : Feeds(toWorklet[j], t) => i < j
    BY DEF IInv, SeeksComeFirst
  <2>2. ASSUME NEW i \in DOMAIN toWorklet', toWorklet'[i].type = "seek"
        PROVE  /\ ring'[t] = <<>> /\ last[t] = 0
               /\ \A j \in DOMAIN toWorklet' : Feeds(toWorklet'[j], t) => i < j
    <3>1. /\ i \in Nat \ {0} /\ i + 1 \in DOMAIN toWorklet /\ toWorklet[i + 1].type = "seek"
      BY <1>2, <2>2
    <3>2. /\ ring[t] = <<>> /\ last[t] = 0
          /\ \A j \in DOMAIN toWorklet : Feeds(toWorklet[j], t) => i + 1 < j
      BY <2>1, <3>1
    <3>3. t # s
      <4> SUFFICES ASSUME t = s PROVE FALSE
        OBVIOUS
      <4>1. i + 1 < 1
        BY <1>2, <1>3, <3>2
      <4> QED
        BY <3>1, <4>1
    <3>4. t \in Tracks
      BY DEF IInv, Typed
    <3>5. ASSUME NEW j \in DOMAIN toWorklet', Feeds(toWorklet'[j], t) PROVE i < j
      <4>1. j \in Nat /\ i + 1 < j + 1
        BY <1>2, <3>2, <3>5
      <4> QED
        BY ONLY <3>1, <4>1
    <3> QED
      BY <1>9, <3>2, <3>3, <3>4, <3>5
  <2> QED
    BY <2>1, <2>2
<1>19. Reporting'
  BY <1>2 DEF IInv, Reporting, LatestReport
<1>20. Lasting'
  <2> SUFFICES ASSUME prompt, NEW t \in Tracks, Owed(t), last[t] + Len(ring'[t]) > 0
               PROVE  last[t] + Len(ring'[t]) = Take[t] \/ Len(ring'[t]) + quanta >= ReportEvery
    BY <1>2, <1>11 DEF Lasting
  <2>1. CASE t # s
    BY <1>9, <2>1 DEF IInv, Lasting
  <2>2. CASE t = s
    <3>1. m.to = m.from + Chunk \/ m.to = Take[s]
      BY <1>3 DEF WholeChunk
    <3>2. CASE m.to = Take[s]
      <4>1. l + (k + d) = m.to
        BY <1>7
      <4> QED
        BY <1>5, <1>10, <2>2, <3>2, <4>1
    <3>3. CASE m.to = m.from + Chunk
      <4>1. d = Chunk
        <5>1. m.from = l + k /\ m.from \in Nat
          BY ONLY <1>3, <1>5, <1>6, l \in Nat, k \in Nat
        <5> QED
          BY ONLY <1>7, <3>3, <5>1, Constants
      <4>2. quanta \in Nat /\ ReportEvery <= Chunk
        BY PaceAssumption DEF IInv, Reporting
      <4>3. k + d + quanta >= ReportEvery
        BY ONLY <4>1, <4>2, k \in Nat, Constants
      <4> QED
        BY <1>10, <2>2, <4>3
    <3> QED
      BY <3>1, <3>2, <3>3
  <2> QED
    BY <2>1, <2>2
<1> QED
  BY <1>11, <1>12, <1>13, <1>14, <1>16, <1>17, <1>18, <1>19, <1>20 DEF IInv

LEMMA MessageInv == ASSUME IInv, MessageArrives PROVE IInv'
<1>1. Taken(Head(toWorklet))
  BY MessageTaken
<1>2. Roll(Head(toWorklet)) \/ Jump(Head(toWorklet)) \/ feed_playback(Head(toWorklet))
  BY DEF MessageArrives
<1> QED
  BY <1>1, <1>2, RollInv, JumpInv, FeedInv

-----------------------------------------------------------------------------
(* A quantum.                                                              *)

LEMMA NoMessageCarriesNothing ==
  ASSUME NEW t, NEW a, NEW b, Carries(t, <<>>, a, b)
  PROVE  a = b
<1>1. PICK c : Through(t, <<>>, a, b, c)
  BY DEF Carries
<1> QED
  BY <1>1 DEF Through

\* A track is heard one block further, or is not.
Heard(t) ==
  /\ last[t] \in Nat /\ ring[t] \in Seq(Nat) /\ ring'[t] \in Seq(Nat) /\ last'[t] \in Nat
  /\ last'[t] + Len(ring'[t]) = last[t] + Len(ring[t])
  /\ ring'[t] = [i \in 1..Len(ring'[t]) |-> last'[t] + i]
  /\ IF rolling /\ ring[t] # <<>>
     THEN last'[t] = last[t] + 1 /\ Len(ring'[t]) = Len(ring[t]) - 1
     ELSE last'[t] = last[t] /\ ring'[t] = ring[t]

LEMMA ProcessHears == ASSUME IInv, Process, NEW t \in Tracks PROVE Heard(t)
<1>1. last[t] \in Nat /\ ring[t] \in Seq(Nat)
  <2>1. ring \in [Tracks -> Seq(Nat)] /\ last \in [Tracks -> Nat]
    BY DEF IInv, Typed
  <2> QED
    BY ONLY <2>1, t \in Tracks
<1>2. ring[t] = [i \in 1..Len(ring[t]) |-> last[t] + i]
  BY DEF IInv, Lined
<1>3. /\ ring'[t] = IF rolling /\ ring[t] # <<>> THEN Tail(ring[t]) ELSE ring[t]
      /\ last'[t] = IF rolling /\ ring[t] # <<>> THEN Head(ring[t]) ELSE last[t]
  BY DEF Process
<1>4. CASE rolling /\ ring[t] # <<>>
  <2>1. PICK n \in Nat : n + 1 = Len(ring[t])
    <3>1. Len(ring[t]) - 1 \in Nat /\ (Len(ring[t]) - 1) + 1 = Len(ring[t])
      BY ONLY <1>1, <1>4
    <3> QED
      BY <3>1
  <2>2. PICK l \in Nat : l = last[t]
    BY <1>1
  <2>3. PICK r : r = ring[t]
    OBVIOUS
  <2>0. r \in Seq(Nat) /\ Len(r) = n + 1 /\ r # <<>>
    BY <1>1, <1>4, <2>1, <2>3
  <2>4. r = [i \in 1..(n + 1) |-> l + i]
    BY <1>2, <2>1, <2>2, <2>3
  <2>5. Head(r) = l + 1
    <3>1. 1 \in 1..(n + 1) /\ Head(r) = r[1]
      BY ONLY <2>0, n \in Nat
    <3> QED
      BY ONLY <2>4, <3>1
  <2>6. PICK u : u = Tail(r)
    OBVIOUS
  <2>7. u \in Seq(Nat) /\ Len(u) = n /\ \A i \in 1..n : u[i] = r[i + 1]
    BY ONLY <2>0, <2>6, n \in Nat
  <2>8. \A i \in 1..n : u[i] = (l + 1) + i
    <3> TAKE i \in 1..n
    <3>1. i + 1 \in 1..(n + 1) /\ l + (i + 1) = (l + 1) + i
      OBVIOUS
    <3> QED
      BY ONLY <2>4, <2>7, <3>1, i \in 1..n
  <2>9. u = [i \in 1..n |-> u[i]]
    BY ONLY <2>7
  <2>10. u = [i \in 1..n |-> (l + 1) + i]
    BY ONLY <2>8, <2>9
  <2>11. ring'[t] = u /\ last'[t] = l + 1
    BY <1>3, <1>4, <2>3, <2>5, <2>6
  <2>12. (l + 1) + n = l + (n + 1) /\ l + 1 \in Nat /\ n = (n + 1) - 1
    OBVIOUS
  <2> QED
    BY ONLY <1>1, <1>4, <2>1, <2>2, <2>7, <2>10, <2>11, <2>12 DEF Heard
<1>5. CASE ~ (rolling /\ ring[t] # <<>>)
  <2>1. ring'[t] = ring[t] /\ last'[t] = last[t]
    BY ONLY <1>3, <1>5
  <2> QED
    BY ONLY <1>1, <1>2, <1>5, <2>1 DEF Heard
<1> QED
  BY <1>4, <1>5

\* A track that is starved, or not, loses no more time than the one or the other.
LEMMA ProcessWaits ==
  ASSUME IInv, Process, OnTime, NEW t \in Tracks
  PROVE  /\ silence[t] \in Nat /\ silence'[t] \in Nat /\ silence[t] <= silence'[t]
         /\ silence[t] <= MaxSilence => silence'[t] <= MaxSilence
         /\ silence'[t] = IF Starved(t) THEN silence[t] + 1 ELSE silence[t]
<1>1. silence[t] \in Nat
  BY DEF IInv, Typed
<1>2. silence'[t] = silence[t] + (IF Starved(t) THEN 1 ELSE 0)
  BY DEF Process
<1>3. Starved(t) => silence[t] < MaxSilence
  BY DEF OnTime
<1>4. CASE Starved(t)
  BY ONLY <1>1, <1>2, <1>3, <1>4, Constants
<1>5. CASE ~ Starved(t)
  BY ONLY <1>1, <1>2, <1>5
<1> QED
  BY <1>4, <1>5

\* The page is told of a quantum in eight.
LEMMA Ticks ==
  ASSUME NEW n \in Nat \ {0}, NEW q \in 0..(n - 1), NEW r, r = (q + 1) % n
  PROVE  (r = q + 1 /\ r \in 0..(n - 1) /\ r # 0) \/ r = 0
<1>1. CASE q + 1 < n
  BY <1>1
<1>2. CASE q + 1 = n
  <2>1. n % n = 0
    OBVIOUS
  <2> QED
    BY <1>2, <2>1
<1> QED
  BY <1>1, <1>2

LEMMA LastOfAppend ==
  ASSUME NEW S, NEW q \in Seq(S), NEW x \in S
  PROVE  /\ Append(q, x) # <<>> /\ Append(q, x) \in Seq(S)
         /\ Append(q, x)[Len(Append(q, x))] = x
         /\ \A i \in DOMAIN Append(q, x) : (i \in DOMAIN q /\ Append(q, x)[i] = q[i]) \/ Append(q, x)[i] = x
<1>1. PICK n \in Nat : n = Len(q) /\ DOMAIN q = 1..n
  OBVIOUS
<1>2. PICK r : r = Append(q, x)
  OBVIOUS
<1>3. /\ r \in Seq(S) /\ Len(r) = n + 1 /\ DOMAIN r = 1..(n + 1) /\ r[n + 1] = x
      /\ \A i \in 1..n : r[i] = q[i]
  BY <1>1, <1>2
<1>4. r # <<>>
  BY ONLY <1>3, n \in Nat
<1>5. \A i \in 1..(n + 1) : i \in 1..n \/ i = n + 1
  OBVIOUS
<1> QED
  BY ONLY <1>1, <1>2, <1>3, <1>4, <1>5

LEMMA QuantumInv == ASSUME IInv, Quantum PROVE IInv'
<1> USE Constants
<1>1. /\ Process /\ OnTime /\ rolling' = rolling
      /\ UNCHANGED <<toWorklet, reported, plays, stops, loading, playing, fed, playStart>>
      /\ quanta' = (quanta + 1) % ReportEvery
      /\ IF quanta' = 0
         THEN toPage' = Append(toPage, playhead') /\ prompt' = (prompt /\ toPage = <<>> /\ toWorklet = <<>>)
         ELSE UNCHANGED <<toPage, prompt>>
  BY DEF Quantum, page, streams, Process
<1>2. \A t \in Tracks : Heard(t)
  BY <1>1, ProcessHears
<1>3. \A t \in Tracks :
        /\ silence[t] \in Nat /\ silence'[t] \in Nat /\ silence[t] <= silence'[t]
        /\ silence[t] <= MaxSilence => silence'[t] <= MaxSilence
        /\ silence'[t] = IF Starved(t) THEN silence[t] + 1 ELSE silence[t]
  BY <1>1, ProcessWaits
<1>4. playhead \in Nat /\ playhead' \in Nat /\ playhead' = IF rolling THEN playhead + 1 ELSE playhead
  <2>1. playhead \in Nat
    BY DEF IInv, Typed
  <2>2. playhead' = playhead + (IF rolling THEN 1 ELSE 0)
    BY <1>1 DEF Process
  <2> QED
    BY ONLY <2>1, <2>2
<1>5. quanta \in 0..(ReportEvery - 1) /\ playhead <= LatestReport + quanta /\ LatestReport \in Nat
  BY LatestIsNat DEF IInv, Reporting, Typed
<1>6. (quanta' = quanta + 1 /\ quanta' \in 0..(ReportEvery - 1) /\ quanta' # 0) \/ quanta' = 0
  BY ONLY <1>1, <1>5, Constants, Ticks
<1>7. /\ toPage \in Seq(Nat) /\ toPage' \in Seq(Nat)
      /\ \A i \in DOMAIN toPage' : (i \in DOMAIN toPage /\ toPage'[i] = toPage[i]) \/ toPage'[i] = playhead'
  <2>1. toPage \in Seq(Nat)
    BY DEF IInv, Typed
  <2>2. CASE quanta' = 0
    <3>1. toPage' = Append(toPage, playhead')
      BY ONLY <1>1, <2>2
    <3>2. playhead' \in Nat
      BY <1>4
    <3> QED
      BY ONLY <2>1, <3>1, <3>2, LastOfAppend
  <2>3. CASE quanta' # 0
    <3>1. toPage' = toPage
      BY ONLY <1>1, <2>3
    <3> QED
      BY ONLY <2>1, <3>1
  <2> QED
    BY <2>2, <2>3
<1>8. \A t \in Tracks : Owed(t)' <=> Owed(t)
  BY <1>1 DEF Owed
<1>9. Typed'
  <2>1. ring' = [t \in Tracks |-> IF rolling /\ ring[t] # <<>> THEN Tail(ring[t]) ELSE ring[t]]
    BY <1>1 DEF Process
  <2>2. last' = [t \in Tracks |-> IF rolling /\ ring[t] # <<>> THEN Head(ring[t]) ELSE last[t]]
    BY <1>1 DEF Process
  <2>3. silence' = [t \in Tracks |-> silence[t] + IF Starved(t) THEN 1 ELSE 0]
    BY <1>1 DEF Process
  <2>4. ring' \in [Tracks -> Seq(Nat)]
    <3>1. \A t \in Tracks : ring'[t] \in Seq(Nat)
      BY <1>2 DEF Heard
    <3> QED
      BY ONLY <2>1, <3>1
  <2>5. last' \in [Tracks -> Nat]
    <3>1. \A t \in Tracks : last'[t] \in Nat
      BY <1>2 DEF Heard
    <3> QED
      BY ONLY <2>2, <3>1
  <2>6. silence' \in [Tracks -> Nat]
    BY ONLY <2>3, <1>3
  <2> QED
    BY <1>1, <1>4, <1>7, <2>4, <2>5, <2>6 DEF IInv, Typed
<1>10. Lined'
  BY <1>2 DEF Lined, Heard
<1>11. OnTheWay'
  <2> SUFFICES ASSUME NEW t \in Tracks PROVE Way(t)'
    BY DEF OnTheWay
  <2>1. last'[t] + Len(ring'[t]) = last[t] + Len(ring[t])
    BY <1>2 DEF Heard
  <2> QED
    BY <1>1, <2>1 DEF IInv, OnTheWay, Way
<1>12. Room'
  <2> SUFFICES ASSUME NEW t \in Tracks PROVE fed[t] <= Take[t] /\ fed[t] <= last'[t] + RingBlocks
    BY <1>1 DEF Room
  <2>1. fed[t] <= Take[t] /\ fed[t] <= last[t] + RingBlocks /\ fed[t] \in Nat
    BY DEF IInv, Room, Typed
  <2>2. /\ last[t] \in Nat /\ last'[t] \in Nat
        /\ last'[t] = last[t] + 1 \/ last'[t] = last[t]
    BY <1>2 DEF Heard
  <2> QED
    BY ONLY <2>1, <2>2, Constants
<1>13. (OneRun /\ PlayComesFirst /\ ChunksInPort /\ FedAhead)'
  BY <1>1 DEF IInv, OneRun, PlayComesFirst, ChunksInPort, FedAhead
<1>14. Still'
  <2> SUFFICES ASSUME ToCome'
               PROVE  /\ ~ rolling' /\ playhead' = 0 /\ reported' = 0
                      /\ \A i \in DOMAIN toPage' : toPage'[i] = 0
                      /\ \A t \in Tracks : last'[t] = 0 /\ silence'[t] = 0 /\ ring'[t] = <<>>
    BY DEF Still
  <2>1. ToCome
    BY <1>1 DEF ToCome
  <2>2. /\ ~ rolling /\ playhead = 0 /\ reported = 0
        /\ \A i \in DOMAIN toPage : toPage[i] = 0
        /\ \A t \in Tracks : last[t] = 0 /\ silence[t] = 0 /\ ring[t] = <<>>
    BY <2>1 DEF IInv, Still
  <2>3. playhead' = 0
    BY <1>4, <2>2
  <2>4. \A t \in Tracks : silence'[t] = 0
    BY <1>3, <2>2 DEF Starved
  <2>5. \A t \in Tracks : last'[t] = 0 /\ ring'[t] = <<>>
    BY <1>2, <2>2 DEF Heard
  <2> QED
    BY <1>1, <1>7, <2>2, <2>3, <2>4, <2>5
<1>15. InTime'
  <2> SUFFICES ASSUME NEW t \in Tracks, Owed(t)
               PROVE  /\ playhead' <= last'[t] + silence'[t] /\ silence'[t] <= MaxSilence
                      /\ \A i \in DOMAIN toPage' : toPage'[i] <= last'[t] + silence'[t]
    BY <1>8 DEF InTime
  <2>1. /\ playhead <= last[t] + silence[t] /\ silence[t] <= MaxSilence
        /\ \A i \in DOMAIN toPage : toPage[i] <= last[t] + silence[t]
    BY DEF IInv, InTime
  <2>2. /\ last[t] \in Nat /\ last'[t] \in Nat
        /\ IF rolling /\ ring[t] # <<>> THEN last'[t] = last[t] + 1 ELSE last'[t] = last[t]
    BY <1>2 DEF Heard
  <2>3. /\ silence[t] \in Nat /\ silence'[t] \in Nat /\ silence'[t] <= MaxSilence
        /\ silence'[t] = IF Starved(t) THEN silence[t] + 1 ELSE silence[t]
    BY <1>3, <2>1
  <2>4. last[t] + silence[t] <= last'[t] + silence'[t]
    BY ONLY <2>2, <2>3
  <2>5. playhead' <= last'[t] + silence'[t]
    <3>1. CASE rolling
      <4>1. Starved(t) <=> ring[t] = <<>>
        BY <3>1 DEF Starved
      <4> QED
        BY ONLY <1>4, <2>1, <2>2, <2>3, <3>1, <4>1
    <3>2. CASE ~ rolling
      BY ONLY <1>4, <2>1, <2>2, <2>3, <2>4, <3>2
    <3> QED
      BY <3>1, <3>2
  <2>6. ASSUME NEW i \in DOMAIN toPage' PROVE toPage'[i] <= last'[t] + silence'[t]
    <3>1. CASE toPage'[i] = playhead'
      BY <3>1, <2>5
    <3>2. CASE i \in DOMAIN toPage /\ toPage'[i] = toPage[i]
      <4>1. toPage[i] \in Nat /\ toPage[i] <= last[t] + silence[t]
        BY <1>7, <2>1, <3>2, ElementOfSeq
      <4> QED
        BY ONLY <2>2, <2>3, <2>4, <3>2, <4>1
    <3> QED
      BY <1>7, <3>1, <3>2
  <2> QED
    BY <2>3, <2>5, <2>6
<1>16. SeeksComeFirst'
  <2> SUFFICES ASSUME NEW t \in playing
               PROVE  /\ last'[t] <= playhead'
                      /\ \A i \in DOMAIN toWorklet : toWorklet[i].type = "seek" =>
                           /\ ring'[t] = <<>> /\ last'[t] = 0
                           /\ \A j \in DOMAIN toWorklet : Feeds(toWorklet[j], t) => i < j
    BY <1>1 DEF SeeksComeFirst, Feeds
  <2>1. /\ last[t] <= playhead /\ t \in Tracks
        /\ \A i \in DOMAIN toWorklet : toWorklet[i].type = "seek" =>
             /\ ring[t] = <<>> /\ last[t] = 0
             /\ \A j \in DOMAIN toWorklet : Feeds(toWorklet[j], t) => i < j
    BY DEF IInv, SeeksComeFirst, Typed
  <2>2. Heard(t)
    BY <1>2, <2>1
  <2>3. last'[t] <= playhead'
    BY ONLY <1>4, <2>1, <2>2 DEF Heard
  <2>4. ring[t] = <<>> => ring'[t] = <<>> /\ last'[t] = last[t]
    BY ONLY <2>2 DEF Heard
  <2> QED
    BY <2>1, <2>3, <2>4
<1>17. Reporting'
  <2>1. CASE quanta' = 0
    <3>1. LatestReport' = playhead'
      <4>1. toPage' = Append(toPage, playhead')
        BY ONLY <1>1, <2>1
      <4>2. toPage' # <<>> /\ toPage'[Len(toPage')] = playhead'
        BY ONLY <1>4, <1>7, <4>1, LastOfAppend
      <4> QED
        BY <4>2 DEF LatestReport
    <3>2. quanta' \in 0..(ReportEvery - 1) /\ playhead' <= playhead' + quanta'
      BY ONLY <1>4, <2>1, Constants
    <3> QED
      BY <3>1, <3>2 DEF Reporting
  <2>2. CASE quanta' # 0
    <3>1. LatestReport' = LatestReport
      BY <1>1, <2>2 DEF LatestReport
    <3>2. quanta' \in 0..(ReportEvery - 1) /\ quanta' = quanta + 1
      BY <1>6, <2>2
    <3>3. playhead' <= LatestReport + quanta'
      BY ONLY <1>4, <1>5, <3>2
    <3> QED
      BY <3>1, <3>2, <3>3 DEF Reporting
  <2> QED
    BY <2>1, <2>2
<1>18. Lasting'
  <2> SUFFICES ASSUME prompt', NEW t \in Tracks, Owed(t), last'[t] + Len(ring'[t]) > 0
               PROVE  last'[t] + Len(ring'[t]) = Take[t] \/ Len(ring'[t]) + quanta' >= ReportEvery
    BY <1>8 DEF Lasting
  <2>1. /\ last[t] \in Nat /\ ring[t] \in Seq(Nat) /\ ring'[t] \in Seq(Nat)
        /\ last'[t] + Len(ring'[t]) = last[t] + Len(ring[t])
        /\ Len(ring'[t]) = Len(ring[t]) - 1 \/ ring'[t] = ring[t]
    BY <1>2 DEF Heard
  <2>2. PICK l \in Nat : l = last[t]
    BY <2>1
  <2>3. PICK k \in Nat : k = Len(ring[t])
    BY <2>1
  <2>4. PICK j \in Nat : j = Len(ring'[t])
    BY <2>1
  <2>5. (j = k - 1 \/ j = k) /\ last'[t] + j = l + k /\ l + k > 0
    BY <2>1, <2>2, <2>3, <2>4
  <2>6. prompt
    BY <1>1
  <2>7. l + k = Take[t] \/ k + quanta >= ReportEvery
    BY <2>2, <2>3, <2>5, <2>6 DEF IInv, Lasting
  <2>8. CASE quanta' # 0
    <3>1. quanta' = quanta + 1 /\ quanta \in Nat
      BY ONLY <1>5, <1>6, <2>8, Constants
    <3>2. l + k = Take[t] \/ j + quanta' >= ReportEvery
      BY ONLY <2>5, <2>7, <3>1, l \in Nat, j \in Nat, k \in Nat, Constants
    <3> QED
      BY ONLY <2>4, <2>5, <3>2
  <2>9. CASE quanta' = 0
    <3>1. toPage = <<>> /\ toWorklet = <<>>
      BY <1>1, <2>9
    <3>2. fed[t] = l + k
      <4>1. Carries(t, <<>>, l + k, fed[t])
        BY <2>2, <2>3, <3>1 DEF IInv, OnTheWay, Way
      <4> QED
        BY <4>1, NoMessageCarriesNothing
    <3>3. t \in playing
      <4>1. \A run \in DOMAIN loading : loading[run].track <= t => fed[t] = 0
        BY DEF IInv, OneRun
      <4>2. fed[t] > 0
        BY <2>5, <3>2
      <4>3. ~ \E run \in DOMAIN loading : loading[run].track <= t
        BY ONLY <4>1, <4>2
      <4> QED
        BY <3>1, <4>3 DEF Owed
    <3>4. PICK r \in Nat : r = reported
      BY DEF IInv, Typed
    <3>5. l + k >= r + Highwater
      BY <2>5, <3>2, <3>3, <3>4 DEF IInv, FedAhead
    <3>6. l <= playhead /\ playhead <= r + quanta
      BY <1>5, <2>2, <3>1, <3>3, <3>4 DEF IInv, SeeksComeFirst, LatestReport
    <3>7. 2 * ReportEvery <= Highwater
      BY PaceAssumption
    <3>8. j + quanta' >= ReportEvery
      BY ONLY <1>4, <1>5, <2>5, <2>9, <3>5, <3>6, <3>7, l \in Nat, j \in Nat, k \in Nat, r \in Nat, Constants
    <3> QED
      BY <2>4, <3>8
  <2> QED
    BY <2>8, <2>9
<1> QED
  BY <1>9, <1>10, <1>11, <1>12, <1>13, <1>14, <1>15, <1>16, <1>17, <1>18 DEF IInv

-----------------------------------------------------------------------------
(* What is proved of every behaviour.                                      *)

LEMMA StutterInv == ASSUME IInv, UNCHANGED vars PROVE IInv'
<1>1. /\ UNCHANGED <<rolling, playhead, ring, quanta, toWorklet, toPage, reported, plays, stops>>
      /\ UNCHANGED <<loading, playing, fed, playStart, last, silence, prompt>>
  BY DEF vars, recorder, port, page, streams, history, heard
<1>2. Typed' /\ Lined' /\ Room' /\ OneRun' /\ PlayComesFirst'
  BY <1>1 DEF IInv, Typed, Lined, Room, OneRun, PlayComesFirst
<1>3. OnTheWay'
  BY <1>1 DEF IInv, OnTheWay, Way
<1>4. Still' /\ ChunksInPort' /\ SeeksComeFirst' /\ FedAhead' /\ Reporting'
  BY <1>1 DEF IInv, Still, ToCome, ChunksInPort, SeeksComeFirst, FedAhead, Reporting, LatestReport
<1>5. \A t \in Tracks : Owed(t)' <=> Owed(t)
  BY <1>1 DEF Owed
<1>6. InTime' /\ Lasting'
  BY <1>1, <1>5 DEF IInv, InTime, Lasting
<1> QED
  BY <1>2, <1>3, <1>4, <1>6 DEF IInv

\* What holds of every play takes no more than the shape of the state.
LEMMA WeakInv == ASSUME Weak, [Next]_vars PROVE Weak'
<1> USE Constants
<1>1. quanta' \in 0..(ReportEvery - 1)
  <2>1. CASE Quantum
    BY <2>1, Ticks DEF Weak, Quantum
  <2>2. CASE quanta' = quanta
    BY <2>2 DEF Weak
  <2> QED
    BY <2>1, <2>2
       DEF Next, Play, Stop, Seek, Gesture, Loaded, LoadFails, ReportArrives, MessageArrives, vars
<1>2. plays' \in Nat
  <2>1. plays' = plays + 1 \/ plays' = plays
    BY DEF Next, Play, Stop, Seek, Gesture, stopPlayback, Loaded, LoadFails, ReportArrives,
           MessageArrives, Quantum, page, vars
  <2> QED
    BY <2>1 DEF Weak
<1>3. playStart' = [t \in Tracks |-> playStart'[t]]
  <2>1. CASE \E run \in DOMAIN loading : Loaded(run)
    <3>1. PICK run \in DOMAIN loading : Loaded(run)
      BY <2>1
    <3>2. PICK t0 : t0 = loading[run].track
      OBVIOUS
    <3>3. PICK p : p = loading[run].playhead
      OBVIOUS
    <3>4. playStart' = playStart \/ playStart' = [playStart EXCEPT ![t0] = p]
      BY <3>1, <3>2, <3>3 DEF Loaded, streams
    <3>5. playStart = [t \in Tracks |-> playStart[t]]
      BY DEF Weak
    <3>6. CASE playStart' = playStart
      BY ONLY <3>5, <3>6
    <3>7. CASE playStart' = [playStart EXCEPT ![t0] = p]
      <4>1. DOMAIN playStart = Tracks
        BY ONLY <3>5
      <4>2. PICK g : g = [playStart EXCEPT ![t0] = p]
        OBVIOUS
      <4>3. g = [t \in Tracks |-> g[t]]
        BY ONLY <4>1, <4>2
      <4> QED
        BY ONLY <3>7, <4>2, <4>3
    <3> QED
      BY <3>4, <3>6, <3>7
  <2>2. CASE playStart' = playStart
    BY <2>2 DEF Weak
  <2> QED
    BY <2>1, <2>2 DEF Next, Play, Stop, Seek, Gesture, stopPlayback, LoadFails, ReportArrives, pump,
                      MessageArrives, Quantum, page, streams, vars
<1> QED
  BY <1>1, <1>2, <1>3 DEF Weak

\* A play either begins anew or is no longer what is spoken of; nothing else brings
\* the past back.
LEMMA Freshened == ASSUME [Next]_vars, ~ Play, fresh' PROVE fresh
  BY DEF Next, Stop, Seek, Loaded, LoadFails, ReportArrives, MessageArrives, Roll, Jump,
         feed_playback, Quantum, history, vars

LEMMA NextInv == Inv /\ [Next]_vars => Inv'
<1> SUFFICES ASSUME Inv, [Next]_vars, fresh' PROVE IInv'
  BY WeakInv DEF Inv
<1>1. CASE Play
  BY <1>1, PlayInv DEF Inv, Play
<1>2. CASE ~ Play
  <2>1. IInv
    BY <1>2, Freshened DEF Inv
  <2>2. CASE Stop
    BY <2>1, <2>2, StopInv
  <2>3. CASE \E pos \in Seeks : Seek(pos)
    BY <2>1, <2>3, SeekInv
  <2>4. CASE \E run \in DOMAIN loading : Loaded(run) \/ LoadFails(run)
    BY <2>1, <2>4, LoadInv
  <2>5. CASE ReportArrives
    BY <2>1, <2>5, ReportInv
  <2>6. CASE MessageArrives
    BY <2>1, <2>6, MessageInv
  <2>7. CASE Quantum
    BY <2>1, <2>7, QuantumInv
  <2>8. CASE UNCHANGED vars
    BY <2>1, <2>8, StutterInv
  <2> QED
    BY <1>2, <2>2, <2>3, <2>4, <2>5, <2>6, <2>7, <2>8 DEF Next
<1> QED
  BY <1>1, <1>2

LEMMA SpecInv == Spec => []Inv
<1>1. Init => Inv
  <2> SUFFICES ASSUME Init PROVE Weak
    BY InitInv DEF Inv
  <2> QED
    BY Constants DEF Init, Weak, Zero
<1> QED
  BY <1>1, NextInv, PTL DEF Spec

\* The blocks after a, of a take, that are in k and then in the rest.
LEMMA SpansCover ==
  ASSUME NEW l \in Nat, NEW k \in Nat, NEW f \in Nat, NEW T \in Nat, l + k <= f, f <= T
  PROVE  1..f = 1..l \cup (l + 1)..(l + k) \cup {n \in 1..T : n \in (l + k + 1)..f}
  OBVIOUS

\* Of a play that began at a standstill, what the page has fed of a take is what was
\* heard of it, what is in its ring and what is in the port: no message is lost, cut
\* short, refused by a full ring or fed twice.
THEOREM NothingIsLostTheorem == Spec => []NothingIsLost
<1>1. ASSUME IInv, NEW t \in Tracks
      PROVE  1..fed[t] = 1..last[t] \cup Range(ring[t]) \cup OnItsWay(t)
  <2>1. ring[t] \in Seq(Nat) /\ last[t] \in Nat /\ fed[t] \in Nat /\ toWorklet \in Seq(Message)
    <3>1. ring \in [Tracks -> Seq(Nat)] /\ last \in [Tracks -> Nat] /\ fed \in [Tracks -> Nat]
      BY <1>1 DEF IInv, Typed
    <3>2. toWorklet \in Seq(Message)
      BY <1>1 DEF IInv, Typed
    <3> QED
      BY ONLY <3>1, <3>2, t \in Tracks
  <2>2. PICK k \in Nat : k = Len(ring[t])
    BY <2>1
  <2>3. PICK l \in Nat : l = last[t]
    BY <2>1
  <2>4. PICK f \in Nat : f = fed[t]
    BY <2>1
  <2>5. PICK T \in Nat : T = Take[t]
    BY Constants
  <2>6. f <= T
    BY <1>1, <2>4, <2>5 DEF IInv, Room
  <2>7. l + k <= f /\ CarriedIn(t, toWorklet, Len(toWorklet)) = (l + k + 1)..f
    <3>1. Carries(t, toWorklet, l + k, f)
      BY <1>1, <2>2, <2>3, <2>4 DEF IInv, OnTheWay, Way
    <3> QED
      BY ONLY <2>1, <3>1, CarriesBetween
  <2>8. Range(ring[t]) = (l + 1)..(l + k)
    <3>1. ring[t] = [i \in 1..k |-> l + i]
      BY <1>1, <2>2, <2>3 DEF IInv, Lined
    <3>2. Range(ring[t]) = {l + i : i \in 1..k}
      BY ONLY <3>1 DEF Range
    <3>3. \A n \in (l + 1)..(l + k) : n - l \in 1..k /\ n = l + (n - l)
      OBVIOUS
    <3> QED
      BY ONLY <3>2, <3>3, l \in Nat, k \in Nat
  <2>9. OnItsWay(t) = {n \in 1..T : n \in CarriedIn(t, toWorklet, Len(toWorklet))}
    <3>1. DOMAIN toWorklet = 1..Len(toWorklet)
      BY <2>1
    <3>2. ASSUME NEW n \in 1..T
          PROVE  n \in OnItsWay(t) <=> n \in CarriedIn(t, toWorklet, Len(toWorklet))
      <4>1. n \in OnItsWay(t) <=>
              \E i \in 1..Len(toWorklet) :
                Feeds(toWorklet[i], t) /\ toWorklet[i].from < n /\ n <= toWorklet[i].to
        BY ONLY <2>5, <3>1, n \in 1..T, Zenon DEF OnItsWay, Feeds
      <4>2. n \in Nat
        OBVIOUS
      <4> QED
        BY ONLY <4>1, <4>2, Zenon DEF CarriedIn
    <3>3. OnItsWay(t) \subseteq 1..T
      BY ONLY <2>5 DEF OnItsWay
    <3> QED
      BY ONLY <3>2, <3>3
  <2>10. OnItsWay(t) = {n \in 1..T : n \in (l + k + 1)..f}
    BY ONLY <2>7, <2>9
  <2>11. 1..f = 1..l \cup (l + 1)..(l + k) \cup {n \in 1..T : n \in (l + k + 1)..f}
    BY ONLY <2>6, <2>7, T \in Nat, k \in Nat, l \in Nat, f \in Nat, SpansCover
  <2> QED
    BY ONLY <2>3, <2>4, <2>8, <2>10, <2>11, Zenon
<1>2. Inv => NothingIsLost
  BY <1>1 DEF Inv, NothingIsLost
<1> QED
  BY <1>2, SpecInv, PTL

\* Of a play that began at a standstill the messages change nothing that was heard:
\* `play` finds it as it was when the play was made.
LEMMA MessageIsUnheard ==
  ASSUME IInv, MessageArrives PROVE last' = last /\ silence' = silence
<1>1. PICK m : m = Head(toWorklet)
  OBVIOUS
<1>2. toWorklet \in Seq(Message) /\ toWorklet # <<>>
  BY DEF IInv, Typed, MessageArrives
<1>3. 1 \in DOMAIN toWorklet /\ m = toWorklet[1]
  BY <1>1, <1>2
<1>4. CASE m.type = "play" /\ ~ rolling /\ Roll(m)
  <2>1. ToCome
    BY <1>3, <1>4 DEF ToCome
  <2>2. \A t \in Tracks : last[t] = 0 /\ silence[t] = 0
    BY <2>1 DEF IInv, Still
  <2>3. last = Zero /\ silence = Zero
    BY <2>2 DEF IInv, Typed, Zero
  <2>4. last' = Zero /\ silence' = Zero
    BY <1>4 DEF Roll
  <2> QED
    BY <2>3, <2>4
<1>5. CASE ~ (m.type = "play" /\ ~ rolling) /\ Roll(m)
  BY <1>5 DEF Roll
<1>6. CASE Jump(m) \/ feed_playback(m)
  BY <1>6 DEF Jump, feed_playback, history, heard
<1> QED
  BY <1>1, <1>4, <1>5, <1>6 DEF MessageArrives

\* Of a play that began at a standstill the blocks of a take are heard one after the
\* other from the first: no quantum skips one or plays one again.
THEOREM PlaysFromTheTopTheorem == Spec => PlaysFromTheTop
<1>1. ASSUME Inv, Next, fresh', plays' = plays, NEW t \in Tracks
      PROVE  last'[t] \in {last[t], last[t] + 1}
  <2>0. ~ Play /\ IInv
    <3>1. plays \in Nat
      BY <1>1 DEF Inv, Weak
    <3>2. Play => plays' = plays + 1
      BY DEF Play
    <3>3. ~ Play
      BY ONLY <1>1, <3>1, <3>2
    <3> QED
      BY <1>1, <3>3, Freshened DEF Inv
  <2>1. CASE Quantum
    <3>1. Heard(t)
      BY <2>0, <2>1, ProcessHears DEF Quantum
    <3> QED
      BY <3>1 DEF Heard
  <2>2. CASE MessageArrives
    BY <2>0, <2>2, MessageIsUnheard
  <2>3. CASE last' = last
    BY <2>3
  <2> QED
    BY <1>1, <2>0, <2>1, <2>2, <2>3
       DEF Next, Stop, Seek, Gesture, Loaded, LoadFails, ReportArrives, history, heard
<1>2. Inv /\ [Next]_vars =>
        [fresh' /\ plays' = plays => \A t \in Tracks : last'[t] \in {last[t], last[t] + 1}]_vars
  BY <1>1
<1> QED
  BY <1>2, SpecInv, PTL DEF Spec, PlaysFromTheTop

\* Of a play that began at a standstill, a track that is heard has, from one report to
\* the next, what the next is answered with: it is not starved before the end of its
\* take while the answers are in time.
THEOREM NeverUnderrunsTheorem == Spec => NeverUnderruns
<1>1. ASSUME Inv, Next, fresh', plays' = plays, prompt,
             NEW t \in Tracks, 0 < last[t], last[t] < Take[t]
      PROVE  silence'[t] = silence[t]
  <2>0. ~ Play /\ IInv
    <3>1. plays \in Nat
      BY <1>1 DEF Inv, Weak
    <3>2. Play => plays' = plays + 1
      BY DEF Play
    <3>3. ~ Play
      BY ONLY <1>1, <3>1, <3>2
    <3> QED
      BY <1>1, <3>3, Freshened DEF Inv
  <2>1. CASE Quantum
    <3>1. silence'[t] = IF Starved(t) THEN silence[t] + 1 ELSE silence[t]
      BY <2>0, <2>1, ProcessWaits DEF Quantum
    <3>2. ASSUME Starved(t) PROVE FALSE
      <4>1. ring[t] = <<>> /\ Owed(t) /\ Len(ring[t]) = 0
        BY <3>2 DEF Starved
      <4>2. PICK l \in Nat : l = last[t]
        BY <2>0 DEF IInv, Typed
      <4>3. l + 0 = Take[t] \/ 0 + quanta >= ReportEvery
        BY <1>1, <2>0, <4>1, <4>2 DEF IInv, Lasting
      <4>4. quanta \in 0..(ReportEvery - 1)
        BY <2>0 DEF IInv, Reporting
      <4>5. l < Take[t] /\ Take[t] \in Nat
        BY <1>1, <4>2, Constants
      <4> QED
        BY ONLY <4>3, <4>4, <4>5, l \in Nat, Constants
    <3> QED
      BY <3>1, <3>2
  <2>2. CASE MessageArrives
    BY <2>0, <2>2, MessageIsUnheard
  <2>3. CASE silence' = silence
    BY <2>3
  <2> QED
    BY <1>1, <2>0, <2>1, <2>2, <2>3
       DEF Next, Stop, Seek, Gesture, Loaded, LoadFails, ReportArrives, history, heard
<1>2. Inv /\ [Next]_vars =>
        [fresh' /\ plays' = plays /\ prompt =>
           \A t \in Tracks : 0 < last[t] /\ last[t] < Take[t] => silence'[t] = silence[t]]_vars
  BY <1>1
<1> QED
  BY <1>2, SpecInv, PTL DEF Spec, NeverUnderruns
=============================================================================
