-------------------------- MODULE TakePipelineProofs --------------------------
(* Takes arrive whole in memory and in order everywhere; for every number  *)
(* of frames, loads and quanta between two drains, and every size of the   *)
(* ring.                                                                   *)
EXTENDS TakePipeline, SequenceTheorems, TLAPS

-----------------------------------------------------------------------------
(* Sequences of frames. *)

Sorted(s) == \A i, j \in 1..Len(s) : i < j => s[i] < s[j]

Before(s, t) == \A i \in 1..Len(s), j \in 1..Len(t) : s[i] < t[j]

LEMMA NothingToOrder ==
  ASSUME NEW s
  PROVE  Sorted(<<>>) /\ Before(<<>>, s) /\ Before(s, <<>>)
  BY DEF Sorted, Before

LEMMA ConcatItems ==
  ASSUME NEW S, NEW s \in Seq(S), NEW t \in Seq(S)
  PROVE  /\ s \o t \in Seq(S)
         /\ Len(s) \in Nat /\ Len(t) \in Nat /\ Len(s \o t) = Len(s) + Len(t)
         /\ \A i \in 1..Len(s) : (s \o t)[i] = s[i]
         /\ \A i \in Len(s)+1..Len(s)+Len(t) : (s \o t)[i] = t[i - Len(s)]
  OBVIOUS

LEMMA AppendItems ==
  ASSUME NEW S, NEW q \in Seq(S), NEW m \in S
  PROVE  /\ Append(q, m) \in Seq(S)
         /\ Len(q) \in Nat /\ Len(Append(q, m)) = Len(q) + 1
         /\ \A i \in 1..Len(q) : Append(q, m)[i] = q[i]
         /\ Append(q, m)[Len(q) + 1] = m
  OBVIOUS

LEMMA TailItems ==
  ASSUME NEW S, NEW q \in Seq(S), q # <<>>
  PROVE  /\ Tail(q) \in Seq(S)
         /\ Len(q) \in Nat \ {0} /\ Len(Tail(q)) = Len(q) - 1
         /\ Head(q) = q[1] /\ Head(q) \in S
         /\ \A i \in 1..Len(Tail(q)) : Tail(q)[i] = q[i + 1]
  OBVIOUS

LEMMA Joined ==
  ASSUME NEW s \in Seq(Int), NEW t \in Seq(Int)
  PROVE  /\ Sorted(s) /\ Sorted(t) /\ Before(s, t) => Sorted(s \o t)
         /\ \A u : Before(s, u) /\ Before(t, u) => Before(s \o t, u)
         /\ \A u : Before(u, s) /\ Before(u, t) => Before(u, s \o t)
  <1> DEFINE c == s \o t
  <1>1. /\ c \in Seq(Int)
        /\ Len(s) \in Nat /\ Len(t) \in Nat /\ Len(c) = Len(s) + Len(t)
        /\ \A i \in 1..Len(s) : c[i] = s[i]
        /\ \A i \in Len(s)+1..Len(s)+Len(t) : c[i] = t[i - Len(s)]
    BY ConcatItems
  <1> HIDE DEF c
  <1>2. \A i \in 1..Len(c) :
          \/ i \in 1..Len(s) /\ c[i] = s[i]
          \/ i \in Len(s)+1..Len(s)+Len(t) /\ i - Len(s) \in 1..Len(t) /\ c[i] = t[i - Len(s)]
    BY <1>1, SMTT(30)
  <1>3. ASSUME Sorted(s), Sorted(t), Before(s, t) PROVE Sorted(c)
    <2> SUFFICES ASSUME NEW i \in 1..Len(c), NEW j \in 1..Len(c), i < j
                 PROVE  c[i] < c[j]
      BY DEF Sorted
    <2>1. CASE j \in 1..Len(s)
      <3>1. i \in 1..Len(s) /\ c[i] = s[i] /\ c[j] = s[j]
        BY <1>1, <2>1, SMTT(30)
      <3> QED BY <1>3, <2>1, <3>1 DEF Sorted
    <2>2. CASE i \in 1..Len(s) /\ j \notin 1..Len(s)
      <3>1. c[i] = s[i] /\ j - Len(s) \in 1..Len(t) /\ c[j] = t[j - Len(s)]
        BY ONLY <1>1, <1>2, <2>2, j \in 1..Len(c)
      <3> QED BY <1>3, <2>2, <3>1 DEF Before
    <2>3. CASE i \notin 1..Len(s)
      <3>1. /\ i - Len(s) \in 1..Len(t) /\ c[i] = t[i - Len(s)]
            /\ j - Len(s) \in 1..Len(t) /\ c[j] = t[j - Len(s)]
            /\ i - Len(s) < j - Len(s)
        BY ONLY <1>1, <1>2, <2>3, i \in 1..Len(c), j \in 1..Len(c), i < j, SMTT(40)
      <3> QED BY <1>3, <3>1 DEF Sorted
    <2> QED BY <1>1, <2>1, <2>2, <2>3
  <1>4. \A u : Before(s, u) /\ Before(t, u) => Before(c, u)
    BY <1>2 DEF Before
  <1>5. \A u : Before(u, s) /\ Before(u, t) => Before(u, c)
    BY <1>2 DEF Before
  <1> QED BY <1>3, <1>4, <1>5 DEF c

\* Writing behind the end is appending.
LEMMA WriteAtTheEnd ==
  ASSUME NEW S, NEW s \in Seq(S), NEW t \in Seq(S)
  PROVE  WriteAt(s, Len(s), t) = s \o t
  <1>1. Len(s) \in Nat /\ Len(t) \in Nat
    OBVIOUS
  <1>2. PICK w : w = [i \in 1..Len(s) + Len(t) |->
                        IF i \in (Len(s) + 1)..(Len(s) + Len(t)) THEN t[i - Len(s)] ELSE s[i]]
    OBVIOUS
  <1>3. WriteAt(s, Len(s), t) = w
    <2>1. (IF Len(s) + Len(t) > Len(s) THEN Len(s) + Len(t) ELSE Len(s)) = Len(s) + Len(t)
      BY <1>1
    <2> QED BY <1>2, <2>1, Zenon DEF WriteAt
  <1>4. \A i \in 1..Len(s) + Len(t) :
          \/ i \in 1..Len(s) /\ w[i] = s[i] /\ s[i] \in S
          \/ /\ i \in (Len(s) + 1)..(Len(s) + Len(t)) /\ i - Len(s) \in 1..Len(t)
             /\ w[i] = t[i - Len(s)] /\ t[i - Len(s)] \in S
    BY <1>1, <1>2
  <1>5. w \in Seq(S) /\ Len(w) = Len(s) + Len(t)
    BY <1>1, <1>2, <1>4
  <1>6. /\ s \o t \in Seq(S) /\ Len(s \o t) = Len(s) + Len(t)
        /\ \A i \in 1..Len(s) : (s \o t)[i] = s[i]
        /\ \A i \in Len(s)+1..Len(s)+Len(t) : (s \o t)[i] = t[i - Len(s)]
    BY ConcatItems
  <1>7. \A i \in 1..Len(w) : w[i] = (s \o t)[i]
    BY <1>4, <1>5, <1>6
  <1>8. w = s \o t
    BY <1>5, <1>6, <1>7, SeqEqual
  <1> QED BY <1>3, <1>8

-----------------------------------------------------------------------------
(* The order of everything on its way to the file. *)

Pcm(m) == IF m.cmd = "append" THEN m.pcm ELSE <<>>

\* A file, the messages of its inbox one after the other, the ring and the next
\* frame of input hold ever later frames.
Ordered(pcm, box, r, f) ==
  /\ Sorted(pcm) /\ Sorted(r)
  /\ Before(pcm, r) /\ Before(pcm, <<f>>) /\ Before(r, <<f>>)
  /\ \A k \in 1..Len(box) :
       /\ Sorted(Pcm(box[k])) /\ Before(pcm, Pcm(box[k]))
       /\ Before(Pcm(box[k]), r) /\ Before(Pcm(box[k]), <<f>>)
  /\ \A k, l \in 1..Len(box) : k < l => Before(Pcm(box[k]), Pcm(box[l]))

LEMMA PcmIsTyped ==
  ASSUME NEW m \in Message
  PROVE  Pcm(m) \in Seq(Frames) /\ Pcm(m) \in Seq(Int)
  <1>1. Pcm(m) \in Seq(Frames)
    BY DEF Pcm, Message
  <1> QED BY <1>1, PipelineAssumption, SeqMonotonic

\* A message without frames, or with all of the ring's, joins the queue.
LEMMA SendOrdered ==
  ASSUME NEW pcm, NEW box \in Seq(Message), NEW r, NEW f, NEW m \in Message,
         Ordered(pcm, box, r, f)
  PROVE  /\ Pcm(m) = <<>> => Ordered(pcm, Append(box, m), r, f)
         /\ Pcm(m) = r => Ordered(pcm, Append(box, m), <<>>, f)
  <1>1. PICK b : b = Append(box, m)
    OBVIOUS
  <1>2. /\ Len(box) \in Nat /\ Len(b) = Len(box) + 1
        /\ \A k \in 1..Len(box) : b[k] = box[k]
        /\ b[Len(box) + 1] = m
    BY <1>1, AppendItems
  <1>3. \A k \in 1..Len(b) :
          \/ k \in 1..Len(box) /\ Pcm(b[k]) = Pcm(box[k])
          \/ k = Len(box) + 1 /\ Pcm(b[k]) = Pcm(m)
    <2> SUFFICES ASSUME NEW k \in 1..Len(b), k \notin 1..Len(box)
                 PROVE  k = Len(box) + 1
      BY <1>2
    <2> QED BY <1>2
  <1>4. \A k, l \in 1..Len(b) : k < l => k \in 1..Len(box)
    BY <1>2
  <1>5. ASSUME Pcm(m) = <<>> PROVE Ordered(pcm, b, r, f)
    <2>1. \A x : Sorted(Pcm(m)) /\ Before(Pcm(m), x) /\ Before(x, Pcm(m))
      BY <1>5, NothingToOrder
    <2>2. \A k \in 1..Len(b) :
            /\ Sorted(Pcm(b[k])) /\ Before(pcm, Pcm(b[k]))
            /\ Before(Pcm(b[k]), r) /\ Before(Pcm(b[k]), <<f>>)
      BY <1>3, <2>1 DEF Ordered
    <2>3. \A k, l \in 1..Len(b) : k < l => Before(Pcm(b[k]), Pcm(b[l]))
      BY <1>2, <1>3, <1>4, <2>1 DEF Ordered
    <2> QED BY <2>2, <2>3 DEF Ordered
  <1>6. ASSUME Pcm(m) = r PROVE Ordered(pcm, b, <<>>, f)
    <2>1. \A x : Sorted(<<>>) /\ Before(<<>>, x) /\ Before(x, <<>>)
      BY NothingToOrder
    <2>2. \A k \in 1..Len(b) :
            /\ Sorted(Pcm(b[k])) /\ Before(pcm, Pcm(b[k])) /\ Before(Pcm(b[k]), <<f>>)
      BY <1>3, <1>6 DEF Ordered
    <2>3. \A k, l \in 1..Len(b) : k < l => Before(Pcm(b[k]), Pcm(b[l]))
      BY <1>2, <1>3, <1>4, <1>6 DEF Ordered
    <2> QED BY <2>1, <2>2, <2>3 DEF Ordered
  <1> QED BY <1>1, <1>5, <1>6

\* The head of the queue is written behind the file, or it is dropped.
LEMMA ServeOrdered ==
  ASSUME NEW pcm \in Seq(Int), NEW box \in Seq(Message), box # <<>>, NEW r, NEW f,
         Ordered(pcm, box, r, f)
  PROVE  /\ Ordered(pcm \o Pcm(Head(box)), Tail(box), r, f)
         /\ Ordered(pcm, Tail(box), r, f)
  <1>1. PICK b : b = Tail(box)
    OBVIOUS
  <1>2. PICK m \in Message : m = Head(box)
    BY TailItems
  <1>3. /\ Len(box) \in Nat \ {0} /\ Len(b) = Len(box) - 1
        /\ m = box[1] /\ 1 \in 1..Len(box)
        /\ \A k \in 1..Len(b) : b[k] = box[k + 1]
    BY <1>1, <1>2, TailItems
  <1>4. \A k \in 1..Len(b) : k + 1 \in 1..Len(box) /\ 1 < k + 1 /\ b[k] = box[k + 1]
    BY <1>3
  <1>5. \A k, l \in 1..Len(b) : k < l => k + 1 < l + 1
    BY <1>3
  <1>6. Ordered(pcm, b, r, f)
    BY <1>4, <1>5 DEF Ordered
  <1>7. /\ Sorted(Pcm(m)) /\ Before(pcm, Pcm(m)) /\ Before(Pcm(m), r) /\ Before(Pcm(m), <<f>>)
        /\ \A k \in 1..Len(b) : Before(Pcm(m), Pcm(b[k]))
    BY <1>3, <1>4 DEF Ordered
  <1>8. PICK q : q = pcm \o Pcm(m)
    OBVIOUS
  <1>9. /\ Sorted(q) /\ Before(q, r) /\ Before(q, <<f>>)
        /\ \A k \in 1..Len(b) : Before(q, Pcm(b[k]))
    BY <1>6, <1>7, <1>8, PcmIsTyped, Joined DEF Ordered
  <1>10. Ordered(q, b, r, f)
    BY <1>6, <1>9 DEF Ordered
  <1> QED BY <1>1, <1>2, <1>6, <1>8, <1>10

\* The input goes on, into the ring or not; the file or the ring is emptied.
LEMMA InputOrdered ==
  ASSUME NEW pcm \in Seq(Int), NEW box \in Seq(Message), NEW r \in Seq(Int), NEW f \in Int,
         Ordered(pcm, box, r, f)
  PROVE  /\ Ordered(pcm, box, r, f + 1)
         /\ Ordered(pcm, box, Append(r, f), f + 1)
         /\ Ordered(<<>>, box, r, f)
         /\ Ordered(pcm, box, <<>>, f)
  <1>1. \A x \in Seq(Int) : Before(x, <<f>>) => Before(x, <<f + 1>>)
    BY DEF Before
  <1>2. PICK q : q = Append(r, f)
    OBVIOUS
  <1>3. q = r \o <<f>> /\ <<f>> \in Seq(Int)
    BY <1>2
  <1>4. Sorted(<<f>>) /\ Before(<<f>>, <<f + 1>>)
    BY DEF Sorted, Before
  <1>5. /\ Sorted(q) /\ Before(q, <<f + 1>>)
        /\ \A x : Before(x, r) /\ Before(x, <<f>>) => Before(x, q)
    BY <1>1, <1>3, <1>4, Joined DEF Ordered
  <1>6. \A x : Sorted(<<>>) /\ Before(<<>>, x) /\ Before(x, <<>>)
    BY NothingToOrder
  <1>7. Ordered(pcm, box, r, f + 1) /\ Ordered(pcm, box, q, f + 1)
    <2>1. \A k \in 1..Len(box) : Pcm(box[k]) \in Seq(Int)
      BY PcmIsTyped
    <2> QED BY <1>1, <1>5, <2>1 DEF Ordered
  <1>8. Ordered(<<>>, box, r, f) /\ Ordered(pcm, box, <<>>, f)
    BY <1>6 DEF Ordered
  <1> QED BY <1>2, <1>7, <1>8

-----------------------------------------------------------------------------
(* What the worker will make of its inbox, once its handle is cached. *)

TakeStates == [pcm : Seq(Frames), header : Int, rec : Int]

TakeState == [pcm |-> file.pcm, header |-> file.header, rec |-> recorded]

After(s, m) ==
  CASE m.cmd = "begin" -> [pcm |-> <<>>, header |-> 0, rec |-> 0]
    [] m.cmd = "append" /\ s.rec # NotRecording ->
         [pcm |-> WriteAt(s.pcm, s.rec, m.pcm), header |-> s.header,
          rec |-> s.rec + Len(m.pcm)]
    [] m.cmd = "finish" /\ s.rec # NotRecording ->
         [pcm |-> s.pcm, header |-> m.header, rec |-> NotRecording]
    [] OTHER -> s

\* Handling the messages of `box` one by one leads from state s to state e.
Reaches(s, box, e) ==
  \E F \in [1..Len(box) + 1 -> TakeStates] :
    /\ F[1] = s /\ F[Len(box) + 1] = e
    /\ \A i \in 1..Len(box) : F[i + 1] = After(F[i], box[i])

LEMMA ReachesNothing ==
  ASSUME NEW s \in TakeStates, NEW e
  PROVE  Reaches(s, <<>>, e) <=> e = s
  <1>1. CASE Reaches(s, <<>>, e)
    BY <1>1 DEF Reaches
  <1>2. CASE e = s
    <2>1. PICK F : F = [i \in 1..Len(<<>>) + 1 |-> s]
      OBVIOUS
    <2>2. /\ F \in [1..Len(<<>>) + 1 -> TakeStates]
          /\ F[1] = s /\ F[Len(<<>>) + 1] = e /\ 1..Len(<<>>) = {}
      BY <1>2, <2>1
    <2> QED BY <1>2, <2>2 DEF Reaches
  <1> QED BY <1>1, <1>2

LEMMA ReachesFurther ==
  ASSUME NEW box \in Seq(Message), NEW m \in Message, NEW s \in TakeStates,
         NEW e \in TakeStates, After(e, m) \in TakeStates, Reaches(s, box, e)
  PROVE  Reaches(s, Append(box, m), After(e, m))
  <1>1. PICK b : b = Append(box, m)
    OBVIOUS
  <1>2. /\ Len(box) \in Nat /\ Len(b) = Len(box) + 1
        /\ \A i \in 1..Len(box) : b[i] = box[i]
        /\ b[Len(box) + 1] = m
    BY <1>1, AppendItems
  <1>3. PICK F \in [1..Len(box) + 1 -> TakeStates] :
          /\ F[1] = s /\ F[Len(box) + 1] = e
          /\ \A i \in 1..Len(box) : F[i + 1] = After(F[i], box[i])
    BY DEF Reaches
  <1>4. PICK x \in TakeStates : x = After(e, m)
    OBVIOUS
  <1>5. PICK G : G = [i \in 1..Len(b) + 1 |-> IF i = Len(b) + 1 THEN x ELSE F[i]]
    OBVIOUS
  <1>6. /\ \A i \in 1..Len(box) + 1 : i \in 1..Len(b) + 1 /\ G[i] = F[i]
        /\ G[Len(b) + 1] = x
    BY <1>2, <1>5
  <1>7. G \in [1..Len(b) + 1 -> TakeStates]
    BY <1>2, <1>5
  <1>8. ASSUME NEW i \in 1..Len(b)
        PROVE  G[i + 1] = After(G[i], b[i])
    <2>1. CASE i \in 1..Len(box)
      BY <1>2, <1>3, <1>6, <2>1
    <2>2. CASE i = Len(b)
      <3>1. G[i + 1] = x /\ G[i] = e /\ b[i] = m
        BY <1>2, <1>3, <1>6, <2>2
      <3> QED BY <1>4, <3>1
    <2> QED BY <1>2, <2>1, <2>2
  <1>9. G[1] = s
    BY <1>2, <1>3, <1>6
  <1> QED BY <1>1, <1>4, <1>6, <1>7, <1>8, <1>9 DEF Reaches

LEMMA ReachesOnwards ==
  ASSUME NEW box \in Seq(Message), box # <<>>, NEW s, NEW e, Reaches(s, box, e)
  PROVE  Reaches(After(s, Head(box)), Tail(box), e)
  <1>1. PICK b : b = Tail(box)
    OBVIOUS
  <1>2. /\ Len(box) \in Nat \ {0} /\ Len(b) = Len(box) - 1
        /\ Head(box) = box[1] /\ 1 \in 1..Len(box)
        /\ \A i \in 1..Len(b) : b[i] = box[i + 1]
    BY <1>1, TailItems
  <1>3. PICK F \in [1..Len(box) + 1 -> TakeStates] :
          /\ F[1] = s /\ F[Len(box) + 1] = e
          /\ \A i \in 1..Len(box) : F[i + 1] = After(F[i], box[i])
    BY DEF Reaches
  <1>4. PICK G : G = [i \in 1..Len(b) + 1 |-> F[i + 1]]
    OBVIOUS
  <1>5. \A i \in 1..Len(b) + 1 : i + 1 \in 1..Len(box) + 1 /\ G[i] = F[i + 1]
    BY <1>2, <1>4
  <1>6. G \in [1..Len(b) + 1 -> TakeStates]
    BY <1>2, <1>4, <1>5
  <1>7. ASSUME NEW i \in 1..Len(b)
        PROVE  G[i + 1] = After(G[i], b[i])
    <2>1. i \in 1..Len(b) + 1 /\ i + 1 \in 1..Len(b) + 1 /\ i + 1 \in 1..Len(box)
      BY <1>2
    <2> QED BY <1>2, <1>3, <1>5, <2>1
  <1>8. G[1] = After(s, Head(box)) /\ G[Len(b) + 1] = e
    BY <1>2, <1>3, <1>5
  <1> QED BY <1>1, <1>6, <1>7, <1>8 DEF Reaches

-----------------------------------------------------------------------------
(* The invariant. *)

TypeOK ==
  /\ inbox \in Seq(Message)
  /\ waiting \subseteq [cmd : {"begin", "load"}, id : Nat]
  /\ file \in [header : Int, pcm : Seq(Frames)]
  /\ recorded \in {NotRecording, Len(file.pcm)}
  /\ nextId \in Nat
  /\ ring \in Seq(Frames) /\ frame \in Frames
  /\ posted \in Seq(Frames)
  /\ capturing \in {NotCapturing, Len(posted)}
  /\ capturing # NotCapturing => posted # <<>>

InOrder == Ordered(file.pcm, inbox, ring, frame)

\* A take of the worklet's, as the worker will have it.
IsTheTake(e) ==
  /\ e.rec = capturing
  /\ posted # <<>> =>
       /\ e.pcm = posted
       /\ e.header = IF capturing = NotCapturing THEN Len(posted) ELSE 0

MemoryKeepsUp ==
  backend = "memory" =>
    /\ cached /\ waiting = {}
    /\ \E e \in TakeStates : Reaches(TakeState, inbox, e) /\ IsTheTake(e)

PipelineInv == TypeOK /\ InOrder /\ MemoryKeepsUp

LEMMA Typed ==
  ASSUME TypeOK
  PROVE  /\ TakeState \in TakeStates
         /\ file.pcm \in Seq(Frames) /\ file.pcm \in Seq(Int)
         /\ ring \in Seq(Int) /\ frame \in Int
  <1>1. file.pcm \in Seq(Frames) /\ ring \in Seq(Frames) /\ recorded \in Int
    BY DEF TypeOK, NotRecording
  <1>2. TakeState \in TakeStates
    BY <1>1 DEF TypeOK, TakeState, TakeStates
  <1> QED BY <1>1, <1>2, PipelineAssumption, SeqMonotonic DEF TypeOK

\* What a handler makes of the file, of the open take and of the client.
LEMMA PerformFields ==
  ASSUME TypeOK, NEW m \in Message, Perform(m)
  PROVE  /\ file' \in [header : Int, pcm : Seq(Frames)]
         /\ recorded' \in {NotRecording, Len(file'.pcm)}
         /\ nextId' = nextId
         /\ file'.pcm \in {<<>>, file.pcm, file.pcm \o Pcm(m)}
         /\ TakeState' = After(TakeState, m)
  <1>1. file.pcm \in Seq(Frames) /\ file.header \in Int
    BY DEF TypeOK
  <1>2. CASE beginRecord(m)
    <2>1. file' = [header |-> 0, pcm |-> <<>>] /\ recorded' = 0 /\ nextId' = nextId
      BY <1>2 DEF beginRecord, Truncated, Resolve
    <2>2. m.cmd = "begin" /\ <<>> \in Seq(Frames) /\ Len(<<>>) = 0
      BY <1>2 DEF beginRecord
    <2>3. file'.header = 0 /\ file'.pcm = <<>>
      BY <2>1
    <2>4. TakeState' = After(TakeState, m)
      BY <2>1, <2>2, <2>3 DEF After, TakeState
    <2>5. file' \in [header : Int, pcm : Seq(Frames)]
      BY <2>1, <2>2
    <2> QED BY <2>1, <2>2, <2>3, <2>4, <2>5
  <1>3. CASE appendRecord(m)
    <2>1. m.cmd = "append" /\ m.pcm \in Seq(Frames) /\ Pcm(m) = m.pcm
      BY <1>3 DEF appendRecord, Message, Pcm
    <2>2. recorded = Len(file.pcm) /\ recorded # NotRecording
      BY <1>3 DEF appendRecord, TypeOK
    <2>3. PICK q : q = file.pcm \o m.pcm
      OBVIOUS
    <2>4. WriteAt(file.pcm, recorded, m.pcm) = q
      BY <1>1, <2>1, <2>2, <2>3, WriteAtTheEnd
    <2>5. q \in Seq(Frames) /\ Len(q) = Len(file.pcm) + Len(m.pcm)
      BY <1>1, <2>1, <2>3, ConcatItems
    <2>6. /\ file' = [header |-> file.header, pcm |-> q]
          /\ recorded' = recorded + Len(m.pcm) /\ nextId' = nextId
      BY <1>3, <2>4 DEF appendRecord, NextOffset, client, TypeOK
    <2>7. TakeState' = After(TakeState, m)
      BY <2>1, <2>2, <2>4, <2>6 DEF After, TakeState
    <2> QED BY <1>1, <2>1, <2>2, <2>3, <2>5, <2>6, <2>7
  <1>4. CASE finishRecord(m)
    <2>1. m.cmd = "finish" /\ m.header \in Nat /\ recorded # NotRecording
      BY <1>4 DEF finishRecord, Message
    <2>2. /\ file' = [header |-> m.header, pcm |-> file.pcm]
          /\ recorded' = NotRecording /\ nextId' = nextId
      BY <1>4 DEF finishRecord, Resolve, TypeOK
    <2> QED BY <1>1, <2>1, <2>2 DEF After, TakeState
  <1>5. CASE loadPcm(m)
    BY <1>5 DEF loadPcm, Resolve, TypeOK, After, TakeState
  <1> QED BY <1>2, <1>3, <1>4, <1>5 DEF Perform

LEMMA MessagesAreTyped ==
  /\ \A id \in Nat : begin(id) \in Message /\ Pcm(begin(id)) = <<>>
  /\ \A id \in Nat : load(id) \in Message /\ Pcm(load(id)) = <<>>
  /\ \A pcm \in Seq(Frames) : append(pcm) \in Message /\ Pcm(append(pcm)) = pcm
  /\ \A id \in Nat, header \in Nat : finish(id, header) \in Message /\ Pcm(finish(id, header)) = <<>>
  BY DEF begin, load, append, finish, Message, Pcm

\* The worker: a message served, put off, or a handle opened or refused.
LEMMA WorkerStep ==
  ASSUME PipelineInv, Worker, UNCHANGED <<recorder, worklet>>
  PROVE  PipelineInv'
  <1>1. TypeOK /\ InOrder /\ MemoryKeepsUp /\ inbox \in Seq(Message)
    BY DEF PipelineInv, TypeOK
  <1>2. UNCHANGED <<ring, frame, posted, capturing>>
    BY DEF recorder, worklet
  <1>3. /\ file.pcm \in Seq(Int) /\ ring \in Seq(Int) /\ frame \in Int
        /\ TakeState \in TakeStates
    BY <1>1, Typed
  <1>4. ASSUME Serve PROVE PipelineInv'
    <2>1. /\ inbox # <<>> /\ inbox' = Tail(inbox)
          /\ UNCHANGED <<backend, waiting, cached>>
      BY <1>4 DEF Serve
    <2>2. PICK m \in Message : m = Head(inbox)
      BY <1>1, <2>1, TailItems
    <2>3. inbox' \in Seq(Message)
      BY <1>1, <2>1, TailItems
    <2>4. /\ file' \in [header : Int, pcm : Seq(Frames)]
          /\ recorded' \in {NotRecording, Len(file'.pcm)}
          /\ nextId' = nextId
          /\ file'.pcm \in {<<>>, file.pcm, file.pcm \o Pcm(m)}
          /\ TakeState' = After(TakeState, m)
      <3>1. CASE Perform(m)
        BY <1>1, <3>1, PerformFields
      <3>2. CASE Stray(m)
        BY <1>1, <3>2 DEF Stray, Resolve, client, After, TakeState, TypeOK
      <3> QED BY <1>4, <2>2, <3>1, <3>2 DEF Serve
    <2>5. TypeOK'
      BY <1>1, <1>2, <2>1, <2>3, <2>4 DEF TypeOK
    <2>6. InOrder'
      <3>1. /\ Ordered(file.pcm, inbox', ring, frame)
            /\ Ordered(file.pcm \o Pcm(m), inbox', ring, frame)
        BY <1>1, <1>3, <2>1, <2>2, ServeOrdered DEF InOrder
      <3>2. Ordered(<<>>, inbox', ring, frame)
        BY <1>3, <2>3, <3>1, InputOrdered
      <3> QED BY <1>2, <2>4, <3>1, <3>2 DEF InOrder
    <2>7. MemoryKeepsUp'
      <3> SUFFICES ASSUME backend = "memory"
                   PROVE  MemoryKeepsUp'
        BY <2>1 DEF MemoryKeepsUp
      <3>1. PICK e \in TakeStates : Reaches(TakeState, inbox, e) /\ IsTheTake(e)
        BY <1>1 DEF MemoryKeepsUp
      <3>2. Reaches(TakeState', inbox', e)
        BY <1>1, <2>1, <2>2, <2>4, <3>1, ReachesOnwards
      <3>3. IsTheTake(e)'
        BY <1>2, <3>1 DEF IsTheTake
      <3>4. cached' /\ waiting' = {}
        BY <1>1, <2>1 DEF MemoryKeepsUp
      <3>5. Reaches(TakeState, inbox, e)'
        BY <3>2 DEF Reaches
      <3> QED BY <3>3, <3>4, <3>5 DEF MemoryKeepsUp
    <2> QED BY <2>5, <2>6, <2>7 DEF PipelineInv
  <1>5. ASSUME Suspend PROVE PipelineInv'
    <2>1. /\ inbox # <<>> /\ inbox' = Tail(inbox) /\ ~cached
          /\ waiting' = waiting \cup {Head(inbox)}
          /\ Head(inbox).cmd \in {"begin", "load"}
          /\ UNCHANGED <<backend, cached, file, recorded, nextId>>
      BY <1>5 DEF Suspend, client
    <2>2. inbox' \in Seq(Message) /\ Head(inbox) \in Message
      BY <1>1, <2>1, TailItems
    <2>3. Head(inbox) \in [cmd : {"begin", "load"}, id : Nat]
      BY <2>1, <2>2 DEF Message
    <2>4. TypeOK'
      BY <1>1, <1>2, <2>1, <2>2, <2>3 DEF TypeOK
    <2>5. InOrder'
      BY <1>1, <1>2, <1>3, <2>1, ServeOrdered DEF InOrder
    <2>6. MemoryKeepsUp'
      BY <1>1, <2>1 DEF MemoryKeepsUp
    <2> QED BY <2>4, <2>5, <2>6 DEF PipelineInv
  <1>6. ASSUME NEW m \in waiting, Opened(m) \/ OpenFails(m) PROVE PipelineInv'
    <2>1. m \in Message /\ Pcm(m) = <<>>
      BY <1>1 DEF TypeOK, Message, Pcm
    <2>2. /\ file' \in [header : Int, pcm : Seq(Frames)]
          /\ recorded' \in {NotRecording, Len(file'.pcm)}
          /\ nextId' = nextId
          /\ file'.pcm \in {<<>>, file.pcm}
      <3>1. CASE Opened(m)
        <4>1. file.pcm \o <<>> = file.pcm
          BY <1>1, ConcatEmptySeq DEF TypeOK
        <4> QED BY <1>1, <2>1, <3>1, <4>1, PerformFields DEF Opened
      <3>2. CASE OpenFails(m)
        BY <1>1, <3>2 DEF OpenFails, Reject, TypeOK
      <3> QED BY <1>6, <3>1, <3>2
    <2>3. inbox' = inbox /\ waiting' \subseteq waiting /\ backend' = backend
      BY <1>6 DEF Opened, OpenFails
    <2>4. TypeOK'
      BY <1>1, <1>2, <2>2, <2>3 DEF TypeOK
    <2>5. InOrder'
      <3>1. Ordered(<<>>, inbox, ring, frame)
        BY <1>1, <1>3, InputOrdered DEF InOrder
      <3> QED BY <1>1, <1>2, <2>2, <2>3, <3>1 DEF InOrder
    <2>6. MemoryKeepsUp'
      BY <1>1, <1>6, <2>3 DEF MemoryKeepsUp
    <2> QED BY <2>4, <2>5, <2>6 DEF PipelineInv
  <1> QED BY <1>4, <1>5, <1>6 DEF Worker

\* The drain posts a take's begin with its first frames, or more of its frames.
LEMMA PostedInOrder ==
  ASSUME PipelineInv, NEW r \in Seq(Frames), NEW f, Ordered(file.pcm, inbox, r, f),
         r # <<>>, PostFrames(r), ring' = <<>>, frame' = f, f \in Frames, UNCHANGED store
  PROVE  PipelineInv'
  <1>1. /\ TypeOK /\ MemoryKeepsUp /\ inbox \in Seq(Message) /\ nextId \in Nat
        /\ posted \in Seq(Frames) /\ capturing \in {NotCapturing, Len(posted)}
        /\ Len(posted) \in Nat
        /\ capturing # NotCapturing => posted # <<>>
    BY DEF PipelineInv, TypeOK
  <1>2. UNCHANGED <<backend, waiting, cached, file, recorded>>
    BY DEF store
  <1>3. PICK b, a : b = begin(nextId) /\ a = append(r)
    OBVIOUS
  <1>4. /\ b \in Message /\ Pcm(b) = <<>> /\ b.cmd = "begin"
        /\ a \in Message /\ Pcm(a) = r /\ a.cmd = "append" /\ a.pcm = r
    BY <1>1, <1>3, MessagesAreTyped DEF begin, append
  <1>5. Len(r) \in Nat \ {0}
    BY EmptySeq
  <1>6. CASE capturing = NotCapturing
    <2>1. PICK box : box = Append(inbox, b)
      OBVIOUS
    <2>2. /\ inbox' = (inbox \o <<b>>) \o <<a>> /\ nextId' = nextId + 1
          /\ capturing' = Len(r) + 0 /\ posted' = <<>> \o r
      BY <1>3, <1>6 DEF PostFrames, Requests
    <2>3. box \in Seq(Message) /\ inbox' = Append(box, a) /\ inbox' \in Seq(Message)
      <3>1. box = inbox \o <<b>> /\ box \in Seq(Message)
        BY <1>1, <1>4, <2>1, AppendIsConcat, AppendProperties
      <3>2. Append(box, a) = box \o <<a>> /\ Append(box, a) \in Seq(Message)
        BY <1>4, <3>1, AppendIsConcat, AppendProperties
      <3> QED BY <2>2, <3>1, <3>2
    <2>4. posted' = r /\ capturing' = Len(r) /\ capturing' # NotCapturing
      BY <1>5, <2>2, ConcatEmptySeq DEF NotCapturing
    <2>5. TypeOK'
      BY <1>1, <1>2, <2>2, <2>3, <2>4 DEF TypeOK
    <2>6. InOrder'
      <3>1. Ordered(file.pcm, box, r, f)
        BY <1>1, <1>4, <2>1, SendOrdered
      <3>2. Ordered(file.pcm, inbox', <<>>, f)
        BY <1>4, <2>3, <3>1, SendOrdered
      <3> QED BY <1>2, <3>2 DEF InOrder
    <2>7. MemoryKeepsUp'
      <3> SUFFICES ASSUME backend = "memory"
                   PROVE  MemoryKeepsUp'
        BY <1>2 DEF MemoryKeepsUp
      <3>1. PICK e \in TakeStates : Reaches(TakeState, inbox, e)
        BY <1>1 DEF MemoryKeepsUp
      <3>2. PICK e1 : e1 = [pcm |-> <<>>, header |-> 0, rec |-> 0]
        OBVIOUS
      <3>3. e1 \in TakeStates /\ e1 = After(e, b)
        BY <1>4, <3>2 DEF TakeStates, After
      <3>4. Reaches(TakeState, box, e1)
        BY <1>1, <1>4, <2>1, <3>1, <3>3, ReachesFurther, Typed
      <3>5. PICK e2 : e2 = [pcm |-> r, header |-> 0, rec |-> Len(r)]
        OBVIOUS
      <3>6. WriteAt(<<>>, 0, r) = r
        BY WriteAtTheEnd, EmptySeq, ConcatEmptySeq
      <3>7. e1.rec # NotRecording /\ 0 + Len(r) = Len(r)
        BY <1>5, <3>2 DEF NotRecording
      <3>8. After(e1, a) = [pcm |-> WriteAt(e1.pcm, e1.rec, a.pcm), header |-> e1.header,
                            rec |-> e1.rec + Len(a.pcm)]
        BY <1>4, <3>7 DEF After
      <3>9. e2 \in TakeStates /\ e2 = After(e1, a)
        BY <1>4, <1>5, <3>2, <3>5, <3>6, <3>7, <3>8 DEF TakeStates
      <3>10. Reaches(TakeState, inbox', e2)
        BY <1>1, <1>4, <2>3, <3>3, <3>4, <3>9, ReachesFurther, Typed
      <3>11. IsTheTake(e2)'
        BY <2>4, <3>5 DEF IsTheTake
      <3>12. Reaches(TakeState, inbox, e2)'
        BY <1>2, <3>10 DEF Reaches, TakeState
      <3> QED BY <1>1, <1>2, <3>9, <3>11, <3>12 DEF MemoryKeepsUp
    <2> QED BY <2>5, <2>6, <2>7 DEF PipelineInv
  <1>7. CASE capturing # NotCapturing
    <2>1. PICK p : p = posted \o r
      OBVIOUS
    <2>2. /\ inbox' = (inbox \o <<>>) \o <<a>> /\ nextId' = nextId + 0
          /\ capturing' = Len(r) + capturing /\ posted' = p
      BY <1>3, <1>7, <2>1 DEF PostFrames, Requests
    <2>3. inbox' = Append(inbox, a) /\ inbox' \in Seq(Message)
      BY <1>1, <1>4, <2>2, AppendIsConcat, ConcatEmptySeq, AppendProperties
    <2>4. /\ p \in Seq(Frames) /\ Len(p) = Len(posted) + Len(r) /\ p # <<>>
          /\ capturing = Len(posted) /\ capturing' = Len(p) /\ capturing' # NotCapturing
      <3>1. p \in Seq(Frames) /\ Len(p) = Len(posted) + Len(r)
        BY <1>1, <2>1, ConcatProperties
      <3>2. p # <<>>
        BY <1>1, <1>5, <3>1, EmptySeq
      <3>3. capturing = Len(posted) /\ capturing' = Len(r) + Len(posted)
        BY <1>1, <1>7, <2>2
      <3>4. capturing' = Len(p) /\ capturing' # NotCapturing
        BY <1>1, <1>5, <3>1, <3>3 DEF NotCapturing
      <3> QED BY <3>1, <3>2, <3>3, <3>4
    <2>5. TypeOK'
      BY <1>1, <1>2, <2>2, <2>3, <2>4 DEF TypeOK
    <2>6. InOrder'
      <3>1. Ordered(file.pcm, inbox', <<>>, f)
        BY <1>1, <1>4, <2>3, SendOrdered
      <3> QED BY <1>2, <3>1 DEF InOrder
    <2>7. MemoryKeepsUp'
      <3> SUFFICES ASSUME backend = "memory"
                   PROVE  MemoryKeepsUp'
        BY <1>2 DEF MemoryKeepsUp
      <3>1. PICK e \in TakeStates : Reaches(TakeState, inbox, e) /\ IsTheTake(e)
        BY <1>1 DEF MemoryKeepsUp
      <3>2. e.pcm = posted /\ e.header = 0 /\ e.rec = Len(posted) /\ e.rec # NotRecording
        BY <1>1, <1>7, <2>4, <3>1 DEF IsTheTake, NotRecording
      <3>3. PICK e2 : e2 = [pcm |-> p, header |-> 0, rec |-> Len(p)]
        OBVIOUS
      <3>4. WriteAt(posted, Len(posted), r) = p
        BY <1>1, <2>1, WriteAtTheEnd
      <3>5. After(e, a) = [pcm |-> WriteAt(e.pcm, e.rec, a.pcm), header |-> e.header,
                           rec |-> e.rec + Len(a.pcm)]
        BY <1>4, <3>2 DEF After
      <3>6. e2 \in TakeStates /\ e2 = After(e, a)
        BY <1>1, <1>4, <1>5, <2>4, <3>2, <3>3, <3>4, <3>5 DEF TakeStates
      <3>7. Reaches(TakeState, inbox', e2)
        BY <1>1, <1>4, <2>3, <3>1, <3>6, ReachesFurther, Typed
      <3>8. IsTheTake(e2)'
        BY <2>2, <2>4, <3>3 DEF IsTheTake
      <3>9. Reaches(TakeState, inbox, e2)'
        BY <1>2, <3>7 DEF Reaches, TakeState
      <3> QED BY <1>1, <1>2, <3>6, <3>8, <3>9 DEF MemoryKeepsUp
    <2> QED BY <2>5, <2>6, <2>7 DEF PipelineInv
  <1> QED BY <1>6, <1>7

\* The drain of an empty ring ends the take, with its length.
LEMMA StoppedInOrder ==
  ASSUME PipelineInv, NEW f, Ordered(file.pcm, inbox, <<>>, f),
         capturing # NotCapturing, PostStop, ring' = <<>>, frame' = f, f \in Frames,
         UNCHANGED store
  PROVE  PipelineInv'
  <1>1. /\ TypeOK /\ MemoryKeepsUp /\ inbox \in Seq(Message) /\ nextId \in Nat
        /\ posted \in Seq(Frames) /\ capturing = Len(posted) /\ capturing \in Nat
        /\ posted # <<>>
    BY DEF PipelineInv, TypeOK
  <1>2. UNCHANGED <<backend, waiting, cached, file, recorded>>
    BY DEF store
  <1>3. PICK m : m = finish(nextId, capturing)
    OBVIOUS
  <1>4. m \in Message /\ Pcm(m) = <<>> /\ m.cmd = "finish" /\ m.header = capturing
    BY <1>1, <1>3, MessagesAreTyped DEF finish
  <1>5. /\ inbox' = Append(inbox, m) /\ nextId' = nextId + 1
        /\ capturing' = NotCapturing /\ posted' = posted
    BY <1>3 DEF PostStop, TakeLength, Requests
  <1>6. inbox' \in Seq(Message)
    BY <1>1, <1>4, <1>5, AppendProperties
  <1>7. TypeOK'
    BY <1>1, <1>2, <1>5, <1>6 DEF TypeOK
  <1>8. InOrder'
    BY <1>1, <1>2, <1>4, <1>5, SendOrdered DEF InOrder
  <1>9. MemoryKeepsUp'
    <2> SUFFICES ASSUME backend = "memory"
                 PROVE  MemoryKeepsUp'
      BY <1>2 DEF MemoryKeepsUp
    <2>1. PICK e \in TakeStates : Reaches(TakeState, inbox, e) /\ IsTheTake(e)
      BY <1>1 DEF MemoryKeepsUp
    <2>2. e.pcm = posted /\ e.rec = capturing /\ e.rec # NotRecording
      BY <1>1, <2>1 DEF IsTheTake, NotRecording
    <2>3. PICK e2 : e2 = [pcm |-> posted, header |-> capturing, rec |-> NotRecording]
      OBVIOUS
    <2>4. e2 \in TakeStates /\ e2 = After(e, m)
      BY <1>1, <1>4, <2>2, <2>3 DEF TakeStates, After, NotRecording
    <2>5. Reaches(TakeState, inbox', e2)
      BY <1>1, <1>4, <1>5, <2>1, <2>4, ReachesFurther, Typed
    <2>6. IsTheTake(e2)'
      BY <1>1, <1>5, <2>3 DEF IsTheTake, NotRecording, NotCapturing
    <2>7. Reaches(TakeState, inbox, e2)'
      BY <1>2, <2>5 DEF Reaches, TakeState
    <2> QED BY <1>1, <1>2, <2>4, <2>6, <2>7 DEF MemoryKeepsUp
  <1> QED BY <1>7, <1>8, <1>9 DEF PipelineInv

LEMMA QuantumStep ==
  ASSUME PipelineInv, Quantum
  PROVE  PipelineInv'
  <1>1. /\ TypeOK /\ InOrder /\ MemoryKeepsUp /\ inbox \in Seq(Message)
        /\ ring \in Seq(Frames) /\ frame \in Frames
    BY DEF PipelineInv, TypeOK
  <1>2. file.pcm \in Seq(Int) /\ ring \in Seq(Int) /\ frame \in Int
    BY <1>1, Typed
  <1>3. UNCHANGED store
    BY DEF Quantum
  <1>4. frame' \in Frames
    BY <1>1 DEF Quantum
  <1>5. PICK r : r = ProcessRing
    OBVIOUS
  <1>6. r \in Seq(Frames)
    BY <1>1, <1>5, AppendProperties DEF ProcessRing
  <1>7. Ordered(file.pcm, inbox, r, frame')
    <2>1. /\ Ordered(file.pcm, inbox, ring, frame)
          /\ Ordered(file.pcm, inbox, ring, frame + 1)
          /\ Ordered(file.pcm, inbox, Append(ring, frame), frame + 1)
      BY <1>1, <1>2, InputOrdered DEF InOrder
    <2> QED BY <1>5, <2>1 DEF Quantum, ProcessRing
  <1>8. CASE ~DrainDue
    <2>1. ring' = r /\ UNCHANGED <<inbox, nextId, capturing, posted>>
      BY <1>5, <1>8 DEF Quantum, client
    <2>2. UNCHANGED <<backend, waiting, cached, file, recorded>>
      BY <1>3 DEF store
    <2>3. TypeOK'
      BY <1>1, <1>4, <1>6, <2>1, <2>2 DEF TypeOK
    <2>4. InOrder'
      BY <1>7, <2>1, <2>2 DEF InOrder
    <2>5. MemoryKeepsUp'
      BY <1>1, <2>1, <2>2 DEF MemoryKeepsUp, Reaches, TakeState, IsTheTake
    <2> QED BY <2>3, <2>4, <2>5 DEF PipelineInv
  <1>9. CASE DrainDue
    <2>1. Drain(r) /\ ring' = <<>>
      BY <1>5, <1>9 DEF Quantum
    <2>2. CASE r # <<>> /\ PostFrames(r)
      BY <1>3, <1>4, <1>6, <1>7, <2>1, <2>2, PostedInOrder
    <2>3. CASE r = <<>> /\ capturing # NotCapturing /\ PostStop
      BY <1>3, <1>4, <1>7, <2>1, <2>3, StoppedInOrder
    <2>4. CASE r = <<>> /\ UNCHANGED <<inbox, client, capturing, posted>>
      <3>1. UNCHANGED <<backend, waiting, cached, file, recorded, nextId>> /\ ring' = r
        BY <1>3, <2>1, <2>4 DEF store, client
      <3>2. TypeOK'
        BY <1>1, <1>4, <1>6, <2>4, <3>1 DEF TypeOK
      <3>3. InOrder'
        BY <1>7, <2>4, <3>1 DEF InOrder
      <3>4. MemoryKeepsUp'
        BY <1>1, <2>4, <3>1 DEF MemoryKeepsUp, Reaches, TakeState, IsTheTake
      <3> QED BY <3>2, <3>3, <3>4 DEF PipelineInv
    <2> QED BY <2>1, <2>2, <2>3, <2>4 DEF Drain
  <1> QED BY <1>8, <1>9

LEMMA PageStep ==
  ASSUME PipelineInv, Page
  PROVE  PipelineInv'
  <1>1. /\ TypeOK /\ InOrder /\ MemoryKeepsUp /\ inbox \in Seq(Message)
        /\ ring \in Seq(Frames) /\ frame \in Frames
    BY DEF PipelineInv, TypeOK
  <1>2. ASSUME NEW on \in BOOLEAN,
               Transport(on) \/ RecordEnable(on) \/ Arm(on) \/ HotSwap(on)
        PROVE  PipelineInv'
    <2>1. /\ UNCHANGED <<inbox, backend, waiting, cached, file, recorded, nextId, frame,
                         capturing, posted>>
          /\ ring' \in {ring, <<>>}
      BY <1>2 DEF Transport, RecordEnable, Arm, HotSwap, storage, store, client, worklet
    <2>2. TypeOK'
      BY <1>1, <2>1, EmptySeq DEF TypeOK
    <2>3. Ordered(file.pcm, inbox, <<>>, frame)
      BY <1>1, Typed, InputOrdered DEF InOrder
    <2>4. InOrder'
      BY <1>1, <2>1, <2>3 DEF InOrder
    <2>5. MemoryKeepsUp'
      BY <1>1, <2>1 DEF MemoryKeepsUp, Reaches, TakeState, IsTheTake
    <2> QED BY <2>2, <2>4, <2>5 DEF PipelineInv
  <1>3. ASSUME Load, UNCHANGED <<recorder, worklet>> PROVE PipelineInv'
    <2>1. PICK m : m = load(nextId)
      OBVIOUS
    <2>2. m \in Message /\ Pcm(m) = <<>> /\ m.cmd = "load"
      BY <1>1, <2>1, MessagesAreTyped DEF TypeOK, load
    <2>3. /\ inbox' = Append(inbox, m) /\ nextId' = nextId + 1
          /\ UNCHANGED <<backend, waiting, cached, file, recorded, ring, frame,
                         capturing, posted>>
      BY <1>3, <2>1 DEF Load, Requests, store, recorder, worklet
    <2>4. inbox' \in Seq(Message)
      BY <1>1, <2>2, <2>3, AppendProperties
    <2>5. TypeOK'
      BY <1>1, <2>3, <2>4 DEF TypeOK
    <2>6. InOrder'
      BY <1>1, <2>2, <2>3, SendOrdered DEF InOrder
    <2>7. MemoryKeepsUp'
      <3> SUFFICES ASSUME backend = "memory"
                   PROVE  MemoryKeepsUp'
        BY <2>3 DEF MemoryKeepsUp
      <3>1. PICK e \in TakeStates : Reaches(TakeState, inbox, e) /\ IsTheTake(e)
        BY <1>1 DEF MemoryKeepsUp
      <3>2. After(e, m) = e
        BY <2>2 DEF After
      <3>3. Reaches(TakeState, inbox', e)
        BY <1>1, <2>2, <2>3, <3>1, <3>2, ReachesFurther, Typed
      <3>4. Reaches(TakeState, inbox, e)' /\ IsTheTake(e)'
        BY <2>3, <3>1, <3>3 DEF Reaches, TakeState, IsTheTake
      <3> QED BY <1>1, <2>3, <3>4 DEF MemoryKeepsUp
    <2> QED BY <2>5, <2>6, <2>7 DEF PipelineInv
  <1> QED BY <1>2, <1>3 DEF Page

LEMMA InitPipelineInv == Init => PipelineInv
  <1> SUFFICES ASSUME Init PROVE PipelineInv
    OBVIOUS
  <1>1. /\ inbox = <<>> /\ waiting = {} /\ cached = (backend = "memory")
        /\ file = [header |-> NoHeader, pcm |-> <<>>] /\ recorded = NotRecording
        /\ nextId = 1 /\ ring = <<>> /\ frame \in Frames
        /\ capturing = NotCapturing /\ posted = <<>>
    BY DEF Init, StorageInit
  <1>2. /\ file.pcm = <<>> /\ file.header = NoHeader
        /\ file \in [header : Int, pcm : Seq(Frames)]
    BY <1>1 DEF NoHeader
  <1>3. TypeOK
    BY <1>1, <1>2 DEF TypeOK
  <1>4. InOrder
    <2>1. \A x : Sorted(<<>>) /\ Before(<<>>, x) /\ Before(x, <<>>)
      BY NothingToOrder
    <2> QED BY <1>1, <1>2, <2>1 DEF InOrder, Ordered
  <1>5. MemoryKeepsUp
    <2>1. TakeState \in TakeStates
      BY <1>3, Typed
    <2>2. Reaches(TakeState, inbox, TakeState)
      BY <1>1, <2>1, ReachesNothing
    <2>3. IsTheTake(TakeState)
      BY <1>1 DEF IsTheTake, TakeState, NotRecording, NotCapturing
    <2> QED BY <1>1, <2>1, <2>2, <2>3 DEF MemoryKeepsUp
  <1> QED BY <1>3, <1>4, <1>5 DEF PipelineInv

LEMMA NextPipelineInv == PipelineInv /\ [Next]_vars => PipelineInv'
  <1> SUFFICES ASSUME PipelineInv, [Next]_vars PROVE PipelineInv'
    OBVIOUS
  <1>1. CASE UNCHANGED vars
    <2>1. UNCHANGED <<inbox, backend, waiting, cached, file, recorded, nextId, ring, frame,
                      capturing, posted>>
      BY <1>1 DEF vars, storage, store, client, recorder, worklet
    <2> QED BY <2>1 DEF PipelineInv, TypeOK, InOrder, MemoryKeepsUp, Reaches, TakeState,
                        IsTheTake
  <1> QED BY <1>1, PageStep, QuantumStep, WorkerStep DEF Next

LEMMA PipelineInvariant == Spec => []PipelineInv
  BY InitPipelineInv, NextPipelineInv, PTL DEF Spec

-----------------------------------------------------------------------------

\* What a take file holds are frames in the order they came in, none twice:
\* however the handle is opened, whatever is dropped as stray, and although a
\* hot swap empties the ring (storage-worker.ts, take-store.ts).
THEOREM FilesAreInOrder == Spec => []FramesInOrder
  <1>1. PipelineInv => FramesInOrder
    <2> SUFFICES ASSUME PipelineInv, NEW i \in 1..(Len(file.pcm) - 1)
                 PROVE  file.pcm[i] < file.pcm[i + 1]
      BY DEF FramesInOrder, Ascending
    <2>1. Sorted(file.pcm) /\ file.pcm \in Seq(Int)
      BY Typed DEF PipelineInv, InOrder, Ordered
    <2>2. i \in 1..Len(file.pcm) /\ i + 1 \in 1..Len(file.pcm) /\ i < i + 1
      BY <2>1
    <2> QED BY <2>1, <2>2 DEF Sorted
  <1> QED BY <1>1, PipelineInvariant, PTL

\* With the MemoryBackend, once the worker has caught up its file holds every
\* frame the worklet posted of the newest take, and after the take's end its
\* header says so (processor-impl.js: recordStarted, recorded, recordStopped).
THEOREM TakesAreWholeInMemory == Spec => []TakeInMemoryIsWhole
  <1>1. PipelineInv => TakeInMemoryIsWhole
    <2> SUFFICES ASSUME PipelineInv, backend = "memory", inbox = <<>>, posted # <<>>
                 PROVE  /\ file.pcm = posted
                        /\ file.header = IF capturing = NotCapturing THEN Len(posted) ELSE 0
      BY DEF TakeInMemoryIsWhole, TakeIsWhole, Idle
    <2>1. PICK e \in TakeStates : Reaches(TakeState, inbox, e) /\ IsTheTake(e)
      BY DEF PipelineInv, MemoryKeepsUp
    <2>2. TakeState \in TakeStates
      BY Typed DEF PipelineInv
    <2>3. e = TakeState
      BY <2>1, <2>2, ReachesNothing
    <2> QED BY <2>1, <2>3 DEF IsTheTake, TakeState
  <1> QED BY <1>1, PipelineInvariant, PTL
=============================================================================
