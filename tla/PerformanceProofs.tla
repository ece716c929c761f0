-------------------------- MODULE PerformanceProofs --------------------------
(***************************************************************************)
(* What a note that sounds belongs to, for any windows, keys, octaves and  *)
(* MIDI notes, queue and lanes of any capacity, envelopes of any lengths.  *)
(*                                                                         *)
(* The messages under way are those in the queue and, behind them, those   *)
(* in the port.  What will sound once they have arrived (Lasts) belongs to *)
(* a key at every step, not only at rest: a gesture that gives a key up    *)
(* posts its release behind whatever it has posted before, and a render    *)
(* quantum turns the queue into notes that sound without changing what     *)
(* will.                                                                   *)
(***************************************************************************)
EXTENDS Performance, FiniteSetTheorems, SequenceTheorems, WellFoundedInduction, TLAPS

-----------------------------------------------------------------------------
(* Numbers.                                                                *)

LEMMA NatSetInduction ==
  ASSUME NEW T \in SUBSET Nat, 0 \in T, \A n \in T : n + 1 \in T
  PROVE  T = Nat
<1> DEFINE U == Nat \ T
<1> SUFFICES ASSUME U # {} PROVE FALSE
  OBVIOUS
<1>1. PICK x \in U : \A y \in U : ~ (<<y, x>> \in OpToRel(<,Nat))
  BY NatLessThanWellFounded, WFMin
<1>2. \A y \in U : ~ (y < x)
  BY <1>1 DEF OpToRel
<1>3. x \in Nat /\ x # 0
  OBVIOUS
<1>4. x - 1 \in T
  BY <1>2, <1>3
<1> QED
  BY <1>3, <1>4

LEMMA SmallestExists ==
  ASSUME NEW s \in SUBSET Nat, s # {}
  PROVE  Min(s) \in s /\ \A y \in s : Min(s) <= y
<1>1. PICK x \in s : \A y \in s : ~ (<<y, x>> \in OpToRel(<,Nat))
  BY NatLessThanWellFounded, WFMin
<1>2. \A y \in s : ~ (y < x)
  BY <1>1 DEF OpToRel
<1>3. \A y \in s : x =< y
  BY <1>2
<1>4. Min(s) \in s /\ \A y \in s : Min(s) =< y
  BY <1>3 DEF Min
<1> QED
  BY <1>4

LEMMA LargestExists ==
  ASSUME NEW n \in Nat, NEW s \in SUBSET (1..n), s # {}
  PROVE  Max(s) \in s /\ \A y \in s : y <= Max(s)
<1> DEFINE below == {m \in Nat : \E x \in s : m = n - x}
<1>1. below \subseteq Nat /\ below # {}
  <2>1. PICK x \in s : TRUE
    OBVIOUS
  <2>2. n - x \in Nat
    OBVIOUS
  <2> QED
    BY <2>2
<1>2. PICK m \in below : \A k \in below : ~ (<<k, m>> \in OpToRel(<,Nat))
  BY <1>1, NatLessThanWellFounded, WFMin
<1>3. \A k \in below : ~ (k < m)
  BY <1>2 DEF OpToRel
<1>4. PICK x \in s : m = n - x
  OBVIOUS
<1>5. \A y \in s : x >= y
  <2> SUFFICES ASSUME NEW y \in s PROVE x >= y
    OBVIOUS
  <2>1. n - y \in Nat
    OBVIOUS
  <2>2. n - y \in below
    BY <2>1
  <2>3. ~ (n - y < n - x)
    BY <2>2, <1>3, <1>4
  <2> QED
    BY <2>3
<1>6. x \in s /\ \A y \in s : x >= y
  BY <1>5
<1>7. Max(s) \in s /\ \A y \in s : Max(s) >= y
  BY <1>6 DEF Max
<1> QED
  BY <1>7

LEMMA LastOfInterval ==
  ASSUME NEW i \in Nat \ {0} PROVE Max(1..i) = i
<1>1. 1..i # {} /\ i \in 1..i
  OBVIOUS
<1>2. Max(1..i) \in 1..i /\ i <= Max(1..i)
  BY <1>1, LargestExists
<1> QED
  BY <1>2

LEMMA MaxOfTwo ==
  ASSUME NEW a \in Int, NEW b \in Int
  PROVE  Max({a, b}) \in {a, b} /\ Max({a, b}) >= a /\ Max({a, b}) >= b
<1>1. \E x \in {a, b} : \A y \in {a, b} : x >= y
  <2>1. CASE a >= b
    BY <2>1
  <2>2. CASE b >= a
    BY <2>2
  <2> QED
    BY <2>1, <2>2
<1> QED
  BY <1>1 DEF Max

LEMMA MinOfTwo ==
  ASSUME NEW a \in Int, NEW b \in Int
  PROVE  Min({a, b}) \in {a, b} /\ Min({a, b}) <= a /\ Min({a, b}) <= b
<1>1. \E x \in {a, b} : \A y \in {a, b} : x =< y
  <2>1. CASE a =< b
    BY <2>1
  <2>2. CASE b =< a
    BY <2>2
  <2> QED
    BY <2>1, <2>2
<1>2. Min({a, b}) \in {a, b} /\ \A y \in {a, b} : Min({a, b}) =< y
  BY <1>1 DEF Min
<1> QED
  BY <1>2

-----------------------------------------------------------------------------
(* Folds: how far FoldLeft has come.                                       *)

LEMMA SeqDomain ==
  ASSUME NEW S, NEW seq \in Seq(S)
  PROVE  DOMAIN seq = 1..Len(seq) /\ Len(seq) \in Nat /\ IsFiniteSet(DOMAIN seq)
  BY FS_Interval

\* The parts of at most n items of a sequence.
UpTo(seq, n) == {s \in SUBSET DOMAIN seq : IsFiniteSet(s) /\ Cardinality(s) <= n}

LEMMA EmptyUpTo ==
  ASSUME NEW f PROVE \A s \in UpTo(f, 0) : s = {}
  BY FS_CardinalityType, FS_EmptySet DEF UpTo

LEMMA UpToGrows ==
  ASSUME NEW f, NEW n \in Nat PROVE UpTo(f, n) \subseteq UpTo(f, n + 1)
<1> SUFFICES ASSUME NEW s \in UpTo(f, n) PROVE s \in UpTo(f, n + 1)
  OBVIOUS
<1>1. Cardinality(s) \in Nat /\ Cardinality(s) <= n
  BY FS_CardinalityType DEF UpTo
<1>2. Cardinality(s) <= n + 1
  BY <1>1
<1> QED
  BY <1>2 DEF UpTo

LEMMA WholeUpTo ==
  ASSUME NEW f, IsFiniteSet(DOMAIN f), NEW n \in Nat, n = Cardinality(DOMAIN f)
  PROVE  UpTo(f, n) = SUBSET DOMAIN f
  BY FS_Subset DEF UpTo

LEMMA SmallerPrefix ==
  ASSUME NEW E, NEW seq \in Seq(E), NEW n \in Nat, NEW s \in UpTo(seq, n + 1), s # {}
  PROVE  s \ {Max(s)} \in UpTo(seq, n) /\ Max(s) \in DOMAIN seq
<1>1. IsFiniteSet(s) /\ Cardinality(s) <= n + 1 /\ s \subseteq DOMAIN seq
  BY DEF UpTo
<1>2. Max(s) \in s
  BY <1>1, SeqDomain, LargestExists
<1>3. IsFiniteSet(s \ {Max(s)}) /\ Cardinality(s \ {Max(s)}) = Cardinality(s) - 1
  BY <1>1, <1>2, FS_RemoveElement
<1>4. Cardinality(s) \in Nat
  BY <1>1, FS_CardinalityType
<1> QED
  BY <1>1, <1>2, <1>3, <1>4 DEF UpTo

\* One more item, by the step function f.
Turn(f, base, seq, g, s) ==
  IF s = {} THEN base ELSE f[g[s \ {Max(s)}]][seq[Max(s)]]

StepFunctions(W, E) == [W -> [E -> W]]

Solvable(W, f, base, seq) ==
  \E g \in [SUBSET DOMAIN seq -> W] :
    \A s \in SUBSET DOMAIN seq : g[s] = Turn(f, base, seq, g, s)

\* Whatever typed step there is, the recursion behind a fold has a solution.
LEMMA FoldExists ==
  ASSUME NEW W, NEW E, NEW f \in StepFunctions(W, E), NEW base \in W, NEW seq \in Seq(E)
  PROVE  Solvable(W, f, base, seq)
<1> DEFINE Solves(g, n) == \A s \in UpTo(seq, n) : g[s] = Turn(f, base, seq, g, s)
           T == {n \in Nat : \E g \in [UpTo(seq, n) -> W] : Solves(g, n)}
<1>1. 0 \in T
  <2>1. \A g : \A s \in UpTo(seq, 0) : Turn(f, base, seq, g, s) = base
    BY EmptyUpTo DEF Turn
  <2>2. [s \in UpTo(seq, 0) |-> base] \in [UpTo(seq, 0) -> W]
    OBVIOUS
  <2>3. Solves([s \in UpTo(seq, 0) |-> base], 0)
    BY <2>1
  <2> QED
    BY <2>2, <2>3
<1>2. ASSUME NEW n \in T PROVE n + 1 \in T
  <2>1. PICK g \in [UpTo(seq, n) -> W] : Solves(g, n)
    OBVIOUS
  <2>2. PICK h : h = [s \in UpTo(seq, n + 1) |-> Turn(f, base, seq, g, s)]
    OBVIOUS
  <2>3. ASSUME NEW s \in UpTo(seq, n + 1) PROVE Turn(f, base, seq, g, s) \in W
    <3>1. CASE s = {}
      BY <3>1 DEF Turn
    <3>2. CASE s # {}
      <4>1. s \ {Max(s)} \in UpTo(seq, n) /\ seq[Max(s)] \in E
        BY <3>2, SmallerPrefix, ElementOfSeq, SeqDomain
      <4> QED
        BY <3>2, <4>1, <2>1 DEF Turn, StepFunctions
    <3> QED
      BY <3>1, <3>2
  <2>4. h \in [UpTo(seq, n + 1) -> W]
    BY <2>2, <2>3
  <2>5. \A s \in UpTo(seq, n) : h[s] = g[s]
    BY <2>1, <2>2, UpToGrows
  <2>6. ASSUME NEW s \in UpTo(seq, n + 1)
        PROVE  Turn(f, base, seq, g, s) = Turn(f, base, seq, h, s)
    BY <2>5, SmallerPrefix DEF Turn
  <2>7. Solves(h, n + 1)
    BY <2>2, <2>6
  <2> QED
    BY <2>4, <2>7
<1>3. T = Nat
  BY <1>1, <1>2, NatSetInduction
<1>4. PICK n \in Nat : n = Cardinality(DOMAIN seq)
  BY SeqDomain, FS_CardinalityType
<1>5. UpTo(seq, n) = SUBSET DOMAIN seq
  BY <1>4, SeqDomain, WholeUpTo
<1>6. PICK g \in [UpTo(seq, n) -> W] : Solves(g, n)
  BY <1>3
<1> QED
  BY <1>5, <1>6 DEF Solvable

\* What is left of the first i items when the last is taken off.
LEMMA PrefixWithoutLast ==
  ASSUME NEW E, NEW seq \in Seq(E), NEW i \in 1..Len(seq)
  PROVE  /\ 1..i \in SUBSET DOMAIN seq /\ 1..i # {} /\ Max(1..i) = i
         /\ (1..i) \ {i} = 1..(i - 1)
<1>1. DOMAIN seq = 1..Len(seq) /\ Len(seq) \in Nat
  BY SeqDomain
<1>2. i \in Nat \ {0} /\ i <= Len(seq)
  BY <1>1
<1>3. Max(1..i) = i
  BY <1>2, LastOfInterval
<1>4. 1..i \subseteq DOMAIN seq
  BY <1>1, <1>2
<1>5. 1 \in 1..i
  BY <1>2
<1>6. (1..i) \ {i} = 1..(i - 1)
  BY <1>2
<1> QED
  BY ONLY <1>3, <1>4, <1>5, <1>6

-----------------------------------------------------------------------------
(* The voice.                                                              *)

Stages == {"Idle", "Attack", "Decay", "Sustain", "Release"}
Voices == [note : Notes \cup {None}, stage : Stages, env : Int, release_inc : Int]
Events == [device : Instruments, on : BOOLEAN, note : Notes]

LEMMA IncTyped ==
  ASSUME NEW span \in Int, NEW samples \in Int PROVE inc(span, samples) \in Int
<1>1. PICK n \in Int : n = Max({1, samples}) /\ n >= 1
  BY MaxOfTwo
<1>2. \A x \in Int, k \in Int : k >= 1 => (x + k - 1) \div k \in Int
  OBVIOUS
<1> QED
  BY <1>1, <1>2 DEF inc

LEMMA AppliedTyped ==
  ASSUME NEW v \in Voices, NEW e \in Events PROVE apply(v, e) \in Voices
<1>1. inc(v.env, ReleaseLen) \in Int
  BY IncTyped, PerformanceAssumption DEF Voices
<1>2. e.note \in Notes /\ None \in Notes \cup {None}
  BY DEF Events
<1>3. \A w \in Voices, n \in Notes \cup {None} : [w EXCEPT !.note = n] \in Voices
  BY DEF Voices
<1>4. \A w \in Voices : gate_on(w) \in Voices
  BY DEF gate_on, Voices, Stages
<1>5. \A w \in Voices : inc(w.env, ReleaseLen) \in Int
  BY IncTyped, PerformanceAssumption DEF Voices
<1>6. \A w \in Voices : gate_off(w) \in Voices
  BY <1>5 DEF gate_off, Voices, Stages
<1> QED
  BY <1>2, <1>3, <1>4, <1>6 DEF apply

\* A step of the envelope leaves the note alone.
LEMMA EnvStepTyped ==
  ASSUME NEW v \in Voices PROVE env_step(v) \in Voices /\ env_step(v).note = v.note
<1>1. PICK up \in Int : up = v.env + inc(Full, AttackLen)
  BY IncTyped, PerformanceAssumption DEF Voices
<1>2. PICK low \in Int : low = v.env - inc(Full - Sustain, DecayLen)
  <2>1. Full - Sustain \in Int /\ DecayLen \in Int /\ v.env \in Int
    BY PerformanceAssumption DEF Voices
  <2>2. inc(Full - Sustain, DecayLen) \in Int
    BY <2>1, IncTyped
  <2> QED
    BY <2>1, <2>2
<1>3. v.env - v.release_inc \in Int /\ Full \in Int /\ Sustain \in Int
  BY PerformanceAssumption DEF Voices
<1>4. \A x \in Int, st \in Stages :
        /\ [v EXCEPT !.env = x] \in Voices /\ [v EXCEPT !.env = x].note = v.note
        /\ [v EXCEPT !.env = x, !.stage = st] \in Voices
        /\ [v EXCEPT !.env = x, !.stage = st].note = v.note
  BY DEF Voices
<1>5. {"Decay", "Sustain", "Idle"} \subseteq Stages /\ 0 \in Int
  BY DEF Stages
<1>6. CASE v.stage = "Attack"
  BY ONLY <1>1, <1>3, <1>4, <1>5, <1>6 DEF env_step
<1>7. CASE v.stage = "Decay"
  BY ONLY <1>2, <1>3, <1>4, <1>5, <1>7 DEF env_step
<1>8. CASE v.stage = "Sustain"
  BY ONLY <1>3, <1>4, <1>5, <1>8 DEF env_step
<1>9. CASE v.stage = "Release"
  BY ONLY <1>3, <1>4, <1>5, <1>9 DEF env_step
<1>10. CASE v.stage \notin {"Attack", "Decay", "Sustain", "Release"}
  BY ONLY <1>10, v \in Voices DEF env_step
<1> QED
  BY <1>6, <1>7, <1>8, <1>9, <1>10

\* The voice after the events of its lane.
PlayedAfter(v, events) == FoldLeft(apply, v, events)

\* The recursion behind the fold.
Heard(v, events) ==
  CHOOSE g : g = [s \in SUBSET DOMAIN events |->
                    IF s = {} THEN v ELSE apply(g[s \ {Max(s)}], events[Max(s)])]

LEMMA HeardIsFold ==
  ASSUME NEW v, NEW events
  PROVE  PlayedAfter(v, events) = Heard(v, events)[DOMAIN events]
  BY DEF PlayedAfter, FoldLeft, MapThenFoldSet, Heard

LEMMA HeardDef ==
  ASSUME NEW v \in Voices, NEW events \in Seq(Events)
  PROVE  \A s \in SUBSET DOMAIN events :
           Heard(v, events)[s] =
             IF s = {} THEN v ELSE apply(Heard(v, events)[s \ {Max(s)}], events[Max(s)])
<1> DEFINE f == [w \in Voices |-> [e \in Events |-> apply(w, e)]]
<1>1. f \in StepFunctions(Voices, Events)
  BY AppliedTyped DEF StepFunctions
<1> HIDE DEF f
<1>2. PICK g \in [SUBSET DOMAIN events -> Voices] :
        \A s \in SUBSET DOMAIN events : g[s] = Turn(f, v, events, g, s)
  <2>1. Solvable(Voices, f, v, events)
    BY <1>1, FoldExists
  <2> QED
    BY ONLY <2>1 DEF Solvable
<1>3. ASSUME NEW s \in SUBSET DOMAIN events
      PROVE  g[s] = IF s = {} THEN v ELSE apply(g[s \ {Max(s)}], events[Max(s)])
  <2>1. CASE s = {}
    BY <1>2, <2>1 DEF Turn
  <2>2. CASE s # {}
    <3>1. Max(s) \in DOMAIN events
      BY <2>2, SeqDomain, LargestExists
    <3>2. events[Max(s)] \in Events /\ g[s \ {Max(s)}] \in Voices
      BY <3>1, SeqDomain, ElementOfSeq
    <3>3. f[g[s \ {Max(s)}]][events[Max(s)]] = apply(g[s \ {Max(s)}], events[Max(s)])
      BY <3>2 DEF f
    <3> QED
      BY <1>2, <2>2, <3>3 DEF Turn
  <2> QED
    BY <2>1, <2>2
<1>4. g = [s \in SUBSET DOMAIN events |->
             IF s = {} THEN v ELSE apply(g[s \ {Max(s)}], events[Max(s)])]
  BY <1>3
<1>5. Heard(v, events) = [s \in SUBSET DOMAIN events |->
        IF s = {} THEN v ELSE apply(Heard(v, events)[s \ {Max(s)}], events[Max(s)])]
  BY ONLY <1>4 DEF Heard
<1> QED
  BY <1>5, Zenon

\* The voice event by event.
LEMMA EventByEvent ==
  ASSUME NEW v \in Voices, NEW events \in Seq(Events)
  PROVE  \E h \in [0..Len(events) -> Voices] :
           /\ h[0] = v /\ h[Len(events)] = PlayedAfter(v, events)
           /\ \A i \in 1..Len(events) : h[i] = apply(h[i - 1], events[i])
<1> DEFINE P(i) == Heard(v, events)[1..i]
<1>0. Len(events) \in Nat /\ DOMAIN events = 1..Len(events)
  BY SeqDomain
<1>1. P(0) = v
  <2>1. 1..0 = {} /\ {} \in SUBSET DOMAIN events
    OBVIOUS
  <2> QED
    BY <2>1, HeardDef
<1>2. ASSUME NEW i \in 1..Len(events) PROVE P(i) = apply(P(i - 1), events[i])
  <2>1. /\ 1..i \in SUBSET DOMAIN events /\ 1..i # {} /\ Max(1..i) = i
        /\ (1..i) \ {i} = 1..(i - 1)
    BY PrefixWithoutLast
  <2>2. PICK top, u : /\ u = (1..i) \ {Max(1..i)} /\ top = Max(1..i)
                      /\ Heard(v, events)[1..i] = apply(Heard(v, events)[u], events[top])
    BY <2>1, HeardDef
  <2>3. u = 1..(i - 1) /\ top = i
    BY ONLY <2>1, <2>2
  <2> QED
    BY ONLY <2>2, <2>3
<1>3. P(Len(events)) = PlayedAfter(v, events)
  BY <1>0, HeardIsFold
<1> HIDE DEF P
<1>4. \A i \in Nat : i <= Len(events) => P(i) \in Voices
  <2> DEFINE T == {i \in Nat : i <= Len(events) => P(i) \in Voices}
  <2>1. 0 \in T
    BY <1>1
  <2>2. ASSUME NEW i \in T PROVE i + 1 \in T
    <3> SUFFICES ASSUME i + 1 <= Len(events) PROVE P(i + 1) \in Voices
      OBVIOUS
    <3>1. i + 1 \in 1..Len(events) /\ (i + 1) - 1 = i /\ i <= Len(events)
      BY <1>0
    <3>2. P(i) \in Voices /\ events[i + 1] \in Events
      BY <3>1, ElementOfSeq
    <3> QED
      BY <1>2, <3>1, <3>2, AppliedTyped
  <2>3. T = Nat
    BY <2>1, <2>2, NatSetInduction
  <2> QED
    BY ONLY <2>3
<1>5. PICK h : h = [i \in 0..Len(events) |-> P(i)]
  OBVIOUS
<1>6. h \in [0..Len(events) -> Voices] /\ h[0] = v /\ h[Len(events)] = PlayedAfter(v, events)
  BY <1>0, <1>1, <1>3, <1>4, <1>5
<1>7. ASSUME NEW i \in 1..Len(events) PROVE h[i] = apply(h[i - 1], events[i])
  <2>1. i \in 0..Len(events) /\ i - 1 \in 0..Len(events)
    BY <1>0
  <2> QED
    BY <1>2, <1>5, <2>1
<1> QED
  BY <1>6, <1>7

\* The envelope, sample by sample.
EnvelopeAfter(v, samples) == FoldLeft(LAMBDA w, i : env_step(w), v, samples)

Stepped(v, samples) ==
  CHOOSE g : g = [s \in SUBSET DOMAIN samples |->
                    IF s = {} THEN v ELSE env_step(g[s \ {Max(s)}])]

LEMMA SteppedIsFold ==
  ASSUME NEW v, NEW samples
  PROVE  EnvelopeAfter(v, samples) = Stepped(v, samples)[DOMAIN samples]
  BY DEF EnvelopeAfter, FoldLeft, MapThenFoldSet, Stepped

LEMMA SteppedDef ==
  ASSUME NEW v \in Voices, NEW samples \in Seq(Int)
  PROVE  \A s \in SUBSET DOMAIN samples :
           Stepped(v, samples)[s] =
             IF s = {} THEN v ELSE env_step(Stepped(v, samples)[s \ {Max(s)}])
<1> DEFINE f == [w \in Voices |-> [e \in Int |-> env_step(w)]]
<1>1. f \in StepFunctions(Voices, Int)
  BY EnvStepTyped DEF StepFunctions
<1> HIDE DEF f
<1>2. PICK g \in [SUBSET DOMAIN samples -> Voices] :
        \A s \in SUBSET DOMAIN samples : g[s] = Turn(f, v, samples, g, s)
  <2>1. Solvable(Voices, f, v, samples)
    BY <1>1, FoldExists
  <2> QED
    BY ONLY <2>1 DEF Solvable
<1>3. ASSUME NEW s \in SUBSET DOMAIN samples
      PROVE  g[s] = IF s = {} THEN v ELSE env_step(g[s \ {Max(s)}])
  <2>1. CASE s = {}
    BY <1>2, <2>1 DEF Turn
  <2>2. CASE s # {}
    <3>1. Max(s) \in DOMAIN samples
      BY <2>2, SeqDomain, LargestExists
    <3>2. samples[Max(s)] \in Int /\ g[s \ {Max(s)}] \in Voices
      BY <3>1, SeqDomain, ElementOfSeq
    <3>3. f[g[s \ {Max(s)}]][samples[Max(s)]] = env_step(g[s \ {Max(s)}])
      BY <3>2 DEF f
    <3> QED
      BY <1>2, <2>2, <3>3 DEF Turn
  <2> QED
    BY <2>1, <2>2
<1>4. g = [s \in SUBSET DOMAIN samples |->
             IF s = {} THEN v ELSE env_step(g[s \ {Max(s)}])]
  BY <1>3
<1>5. Stepped(v, samples) = [s \in SUBSET DOMAIN samples |->
        IF s = {} THEN v ELSE env_step(Stepped(v, samples)[s \ {Max(s)}])]
  BY ONLY <1>4 DEF Stepped
<1> QED
  BY <1>5, Zenon

LEMMA SampleBySample ==
  ASSUME NEW v \in Voices, NEW samples \in Seq(Int)
  PROVE  \E h \in [0..Len(samples) -> Voices] :
           /\ h[0] = v /\ h[Len(samples)] = EnvelopeAfter(v, samples)
           /\ \A i \in 1..Len(samples) : h[i] = env_step(h[i - 1])
<1> DEFINE P(i) == Stepped(v, samples)[1..i]
<1>0. Len(samples) \in Nat /\ DOMAIN samples = 1..Len(samples)
  BY SeqDomain
<1>1. P(0) = v
  <2>1. 1..0 = {} /\ {} \in SUBSET DOMAIN samples
    OBVIOUS
  <2> QED
    BY <2>1, SteppedDef
<1>2. ASSUME NEW i \in 1..Len(samples) PROVE P(i) = env_step(P(i - 1))
  <2>1. /\ 1..i \in SUBSET DOMAIN samples /\ 1..i # {} /\ Max(1..i) = i
        /\ (1..i) \ {i} = 1..(i - 1)
    BY PrefixWithoutLast
  <2>2. PICK s \in SUBSET DOMAIN samples : s = 1..i
    BY ONLY <2>1
  <2>3. PICK u : u = 1..(i - 1)
    OBVIOUS
  <2>4. s # {} /\ s \ {Max(s)} = u
    BY ONLY <2>1, <2>2, <2>3
  <2>5. Stepped(v, samples)[s] = env_step(Stepped(v, samples)[u])
    BY ONLY <2>4, SteppedDef, v \in Voices, samples \in Seq(Int), s \in SUBSET DOMAIN samples
  <2> QED
    BY ONLY <2>2, <2>3, <2>5
<1>3. P(Len(samples)) = EnvelopeAfter(v, samples)
  BY <1>0, SteppedIsFold
<1> HIDE DEF P
<1>4. \A i \in Nat : i <= Len(samples) => P(i) \in Voices
  <2> DEFINE T == {i \in Nat : i <= Len(samples) => P(i) \in Voices}
  <2>1. 0 \in T
    BY <1>1
  <2>2. ASSUME NEW i \in T PROVE i + 1 \in T
    <3> SUFFICES ASSUME i + 1 <= Len(samples) PROVE P(i + 1) \in Voices
      OBVIOUS
    <3>1. i + 1 \in 1..Len(samples) /\ (i + 1) - 1 = i /\ i <= Len(samples)
      BY <1>0
    <3>2. P(i) \in Voices /\ samples[i + 1] \in Int
      BY <3>1, ElementOfSeq
    <3> QED
      BY <1>2, <3>1, <3>2, EnvStepTyped
  <2>3. T = Nat
    BY <2>1, <2>2, NatSetInduction
  <2> QED
    BY ONLY <2>3
<1>5. PICK h : h = [i \in 0..Len(samples) |-> P(i)]
  OBVIOUS
<1>6. h \in [0..Len(samples) -> Voices] /\ h[0] = v /\ h[Len(samples)] = EnvelopeAfter(v, samples)
  BY <1>0, <1>1, <1>3, <1>4, <1>5
<1>7. ASSUME NEW i \in 1..Len(samples) PROVE h[i] = env_step(h[i - 1])
  <2>1. i \in 0..Len(samples) /\ i - 1 \in 0..Len(samples)
    BY <1>0
  <2> QED
    BY <1>2, <1>5, <2>1
<1> QED
  BY <1>6, <1>7

-----------------------------------------------------------------------------
(* The guitar, event by event.                                             *)

Keyed(ring, e) == IF e.on THEN ring \cup {e.note} ELSE ring \ {e.note}

LEMMA KeyedTyped ==
  ASSUME NEW ring \in SUBSET Notes, NEW e \in Events PROVE Keyed(ring, e) \in SUBSET Notes
  BY DEF Keyed, Events

Rung(ring, events) ==
  CHOOSE g : g = [s \in SUBSET DOMAIN events |->
                    IF s = {} THEN ring ELSE Keyed(g[s \ {Max(s)}], events[Max(s)])]

LEMMA RungIsFold ==
  ASSUME NEW ring, NEW events
  PROVE  RingingAfter(ring, events) = Rung(ring, events)[DOMAIN events]
  BY DEF RingingAfter, FoldLeft, MapThenFoldSet, Rung, Keyed

LEMMA RungDef ==
  ASSUME NEW ring \in (SUBSET Notes), NEW events \in Seq(Events)
  PROVE  \A s \in SUBSET DOMAIN events :
           Rung(ring, events)[s] =
             IF s = {} THEN ring ELSE Keyed(Rung(ring, events)[s \ {Max(s)}], events[Max(s)])
<1> DEFINE f == [w \in (SUBSET Notes) |-> [e \in Events |-> Keyed(w, e)]]
<1>1. f \in StepFunctions((SUBSET Notes), Events)
  BY KeyedTyped DEF StepFunctions
<1> HIDE DEF f
<1>2. PICK g \in [SUBSET DOMAIN events -> (SUBSET Notes)] :
        \A s \in SUBSET DOMAIN events : g[s] = Turn(f, ring, events, g, s)
  <2>1. Solvable((SUBSET Notes), f, ring, events)
    BY <1>1, FoldExists
  <2> QED
    BY ONLY <2>1 DEF Solvable
<1>3. ASSUME NEW s \in SUBSET DOMAIN events
      PROVE  g[s] = IF s = {} THEN ring ELSE Keyed(g[s \ {Max(s)}], events[Max(s)])
  <2>1. CASE s = {}
    BY <1>2, <2>1 DEF Turn
  <2>2. CASE s # {}
    <3>1. Max(s) \in DOMAIN events
      BY <2>2, SeqDomain, LargestExists
    <3>2. events[Max(s)] \in Events /\ g[s \ {Max(s)}] \in (SUBSET Notes)
      BY <3>1, SeqDomain, ElementOfSeq
    <3>3. f[g[s \ {Max(s)}]][events[Max(s)]] = Keyed(g[s \ {Max(s)}], events[Max(s)])
      BY <3>2 DEF f
    <3> QED
      BY <1>2, <2>2, <3>3 DEF Turn
  <2> QED
    BY <2>1, <2>2
<1>4. g = [s \in SUBSET DOMAIN events |->
             IF s = {} THEN ring ELSE Keyed(g[s \ {Max(s)}], events[Max(s)])]
  BY <1>3
<1>5. Rung(ring, events) = [s \in SUBSET DOMAIN events |->
        IF s = {} THEN ring ELSE Keyed(Rung(ring, events)[s \ {Max(s)}], events[Max(s)])]
  BY ONLY <1>4 DEF Rung
<1> QED
  BY <1>5, Zenon

LEMMA KeyByKey ==
  ASSUME NEW ring \in (SUBSET Notes), NEW events \in Seq(Events)
  PROVE  \E h \in [0..Len(events) -> (SUBSET Notes)] :
           /\ h[0] = ring /\ h[Len(events)] = RingingAfter(ring, events)
           /\ \A i \in 1..Len(events) : h[i] = Keyed(h[i - 1], events[i])
<1> DEFINE P(i) == Rung(ring, events)[1..i]
<1>0. Len(events) \in Nat /\ DOMAIN events = 1..Len(events)
  BY SeqDomain
<1>1. P(0) = ring
  <2>1. 1..0 = {} /\ {} \in SUBSET DOMAIN events
    OBVIOUS
  <2> QED
    BY <2>1, RungDef
<1>2. ASSUME NEW i \in 1..Len(events) PROVE P(i) = Keyed(P(i - 1), events[i])
  <2>1. /\ 1..i \in SUBSET DOMAIN events /\ 1..i # {} /\ Max(1..i) = i
        /\ (1..i) \ {i} = 1..(i - 1)
    BY PrefixWithoutLast
  <2>2. PICK top, u : /\ u = (1..i) \ {Max(1..i)} /\ top = Max(1..i)
                      /\ Rung(ring, events)[1..i] = Keyed(Rung(ring, events)[u], events[top])
    BY <2>1, RungDef
  <2>3. u = 1..(i - 1) /\ top = i
    BY ONLY <2>1, <2>2
  <2> QED
    BY ONLY <2>2, <2>3
<1>3. P(Len(events)) = RingingAfter(ring, events)
  BY <1>0, RungIsFold
<1> HIDE DEF P
<1>4. \A i \in Nat : i <= Len(events) => P(i) \in (SUBSET Notes)
  <2> DEFINE T == {i \in Nat : i <= Len(events) => P(i) \in (SUBSET Notes)}
  <2>1. 0 \in T
    BY <1>1
  <2>2. ASSUME NEW i \in T PROVE i + 1 \in T
    <3> SUFFICES ASSUME i + 1 <= Len(events) PROVE P(i + 1) \in (SUBSET Notes)
      OBVIOUS
    <3>1. i + 1 \in 1..Len(events) /\ (i + 1) - 1 = i /\ i <= Len(events)
      BY <1>0
    <3>2. P(i) \in (SUBSET Notes) /\ events[i + 1] \in Events
      BY <3>1, ElementOfSeq
    <3> QED
      BY <1>2, <3>1, <3>2, KeyedTyped
  <2>3. T = Nat
    BY <2>1, <2>2, NatSetInduction
  <2> QED
    BY ONLY <2>3
<1>5. PICK h : h = [i \in 0..Len(events) |-> P(i)]
  OBVIOUS
<1>6. h \in [0..Len(events) -> (SUBSET Notes)] /\ h[0] = ring /\ h[Len(events)] = RingingAfter(ring, events)
  BY <1>0, <1>1, <1>3, <1>4, <1>5
<1>7. ASSUME NEW i \in 1..Len(events) PROVE h[i] = Keyed(h[i - 1], events[i])
  <2>1. i \in 0..Len(events) /\ i - 1 \in 0..Len(events)
    BY <1>0
  <2> QED
    BY <1>2, <1>5, <2>1
<1> QED
  BY <1>6, <1>7

-----------------------------------------------------------------------------
(* What will sound.                                                        *)

IsOn(e, d, n) == e.device = d /\ e.on /\ e.note = n
IsOff(e, d, n) == e.device = d /\ ~ e.on /\ e.note = n

\* When the first k messages have arrived, n sounds on d, on which S sounds now:
\* it is struck and not released later, or sounds now and is not released.
Lasts(msgs, k, S, d, n) ==
  \/ \E i \in 1..k : IsOn(msgs[i], d, n) /\ \A j \in (i + 1)..k : ~ IsOff(msgs[j], d, n)
  \/ n \in S /\ \A j \in 1..k : ~ IsOff(msgs[j], d, n)

LasterSet(msgs, S, d) == {n \in Notes : Lasts(msgs, Len(msgs), S, d, n)}

LEMMA LastsNext ==
  ASSUME NEW msgs, NEW k \in Nat, NEW S, NEW d, NEW n
  PROVE  Lasts(msgs, k + 1, S, d, n) <=>
           \/ IsOn(msgs[k + 1], d, n)
           \/ Lasts(msgs, k, S, d, n) /\ ~ IsOff(msgs[k + 1], d, n)
<1>1. 1..(k + 1) = (1..k) \cup {k + 1} /\ \A i \in 1..k : (i + 1)..(k + 1) = ((i + 1)..k) \cup {k + 1}
  OBVIOUS
<1>2. ((k + 1) + 1)..(k + 1) = {}
  OBVIOUS
<1>3. ASSUME Lasts(msgs, k + 1, S, d, n)
      PROVE  IsOn(msgs[k + 1], d, n) \/ (Lasts(msgs, k, S, d, n) /\ ~ IsOff(msgs[k + 1], d, n))
  <2>1. CASE \E i \in 1..(k + 1) : /\ IsOn(msgs[i], d, n)
                                   /\ \A j \in (i + 1)..(k + 1) : ~ IsOff(msgs[j], d, n)
    <3>1. PICK i \in 1..(k + 1) : /\ IsOn(msgs[i], d, n)
                                  /\ \A j \in (i + 1)..(k + 1) : ~ IsOff(msgs[j], d, n)
      BY <2>1
    <3>2. CASE i = k + 1
      BY <3>1, <3>2
    <3>3. CASE i \in 1..k
      BY ONLY <3>1, <3>3, <1>1 DEF Lasts
    <3> QED
      BY ONLY <3>2, <3>3, <1>1, i \in 1..(k + 1)
  <2>2. CASE n \in S /\ \A j \in 1..(k + 1) : ~ IsOff(msgs[j], d, n)
    BY ONLY <2>2, <1>1 DEF Lasts
  <2> QED
    BY ONLY <1>3, <2>1, <2>2 DEF Lasts
<1>4. ASSUME IsOn(msgs[k + 1], d, n) PROVE Lasts(msgs, k + 1, S, d, n)
  BY ONLY <1>4, <1>1, <1>2 DEF Lasts
<1>5. ASSUME Lasts(msgs, k, S, d, n), ~ IsOff(msgs[k + 1], d, n) PROVE Lasts(msgs, k + 1, S, d, n)
  BY ONLY <1>5, <1>1 DEF Lasts
<1> QED
  BY ONLY <1>3, <1>4, <1>5

LEMMA LastsNone ==
  ASSUME NEW msgs, NEW S, NEW d, NEW n PROVE Lasts(msgs, 0, S, d, n) <=> n \in S
<1>1. 1..0 = {}
  OBVIOUS
<1> QED
  BY ONLY <1>1 DEF Lasts

\* Only the messages themselves matter.
LEMMA LastsAgree ==
  ASSUME NEW a, NEW b, NEW k \in Nat, \A i \in 1..k : a[i] = b[i], NEW S, NEW d, NEW n
  PROVE  Lasts(a, k, S, d, n) <=> Lasts(b, k, S, d, n)
<1>1. \A i \in 1..k : (i + 1)..k \subseteq 1..k
  OBVIOUS
<1> QED
  BY ONLY <1>1, \A i \in 1..k : a[i] = b[i] DEF Lasts

LEMMA LastsMore ==
  ASSUME NEW msgs, NEW k \in Nat, NEW S, NEW T, S \subseteq T, NEW d, NEW n,
         Lasts(msgs, k, S, d, n)
  PROVE  Lasts(msgs, k, T, d, n)
  BY DEF Lasts

\* First the one messages, then the others.
LEMMA LastsConcat ==
  ASSUME NEW a \in Seq(Events), NEW b \in Seq(Events), NEW S, NEW d, NEW n \in Notes
  PROVE  Lasts(a \o b, Len(a \o b), S, d, n) <=> Lasts(b, Len(b), LasterSet(a, S, d), d, n)
<1>0. /\ Len(a) \in Nat /\ Len(b) \in Nat /\ Len(a \o b) = Len(a) + Len(b)
      /\ \A i \in 1..Len(a) : (a \o b)[i] = a[i]
      /\ \A i \in 1..Len(b) : (a \o b)[Len(a) + i] = b[i]
  OBVIOUS
<1> DEFINE Right(k) == Lasts(a \o b, Len(a) + k, S, d, n) <=> Lasts(b, k, LasterSet(a, S, d), d, n)
           T == {k \in Nat : k <= Len(b) => Right(k)}
<1>1. 0 \in T
  <2>1. Lasts(a \o b, Len(a), S, d, n) <=> Lasts(a, Len(a), S, d, n)
    BY ONLY <1>0, LastsAgree
  <2>2. Len(a) + 0 = Len(a)
    BY <1>0
  <2>3. Right(0)
    BY ONLY <2>1, <2>2, LastsNone, n \in Notes DEF LasterSet
  <2> QED
    BY <2>3
<1>2. ASSUME NEW k \in T PROVE k + 1 \in T
  <2> SUFFICES ASSUME k + 1 <= Len(b) PROVE Right(k + 1)
    OBVIOUS
  <2>1. k \in Nat /\ k <= Len(b) /\ k + 1 \in 1..Len(b) /\ Right(k)
    BY <1>0
  <2>2. (a \o b)[(Len(a) + k) + 1] = b[k + 1] /\ Len(a) + k \in Nat
        /\ (Len(a) + k) + 1 = Len(a) + (k + 1)
    <3>1. Len(a) + k \in Nat /\ (Len(a) + k) + 1 = Len(a) + (k + 1)
      BY ONLY <2>1, <1>0
    <3> QED
      BY ONLY <3>1, <2>1, <1>0
  <2>3. Lasts(a \o b, (Len(a) + k) + 1, S, d, n) <=>
          IsOn(b[k + 1], d, n) \/ (Lasts(a \o b, Len(a) + k, S, d, n) /\ ~ IsOff(b[k + 1], d, n))
    BY ONLY <2>2, LastsNext
  <2>4. Lasts(b, k + 1, LasterSet(a, S, d), d, n) <=>
          IsOn(b[k + 1], d, n) \/ (Lasts(b, k, LasterSet(a, S, d), d, n) /\ ~ IsOff(b[k + 1], d, n))
    BY ONLY <2>1, LastsNext
  <2> QED
    BY ONLY <2>1, <2>2, <2>3, <2>4
<1>3. T = Nat
  BY ONLY <1>1, <1>2, NatSetInduction, T \subseteq Nat
<1>4. Right(Len(b))
  BY <1>0, <1>3
<1> QED
  BY ONLY <1>0, <1>4

\* One message more.
LEMMA LastsAppend ==
  ASSUME NEW a \in Seq(Events), NEW e \in Events, NEW S, NEW d, NEW n
  PROVE  Lasts(Append(a, e), Len(Append(a, e)), S, d, n) <=>
           IsOn(e, d, n) \/ (Lasts(a, Len(a), S, d, n) /\ ~ IsOff(e, d, n))
<1>1. /\ Len(a) \in Nat /\ Len(Append(a, e)) = Len(a) + 1 /\ Append(a, e)[Len(a) + 1] = e
      /\ \A i \in 1..Len(a) : Append(a, e)[i] = a[i]
  OBVIOUS
<1>2. Lasts(Append(a, e), Len(a), S, d, n) <=> Lasts(a, Len(a), S, d, n)
  BY ONLY <1>1, LastsAgree
<1> QED
  BY ONLY <1>1, <1>2, LastsNext

-----------------------------------------------------------------------------
(* The lane of an instrument.                                              *)

\* The lane after the i-th event of the queue.
LaneStep(d, g, i) ==
  IF i = 0 THEN <<>>
  ELSE IF queue[i].device = d THEN push(g[i - 1], queue[i]) ELSE g[i - 1]

Lanes(d) == CHOOSE g : g = [i \in 0..Len(queue) |-> LaneStep(d, g, i)]

LEMMA LaneIsLast ==
  ASSUME NEW d PROVE InputLane(d) = Lanes(d)[Len(queue)]
  BY DEF InputLane, Lanes, LaneStep

LEMMA LanesDef ==
  ASSUME queue \in Seq(Events), NEW d
  PROVE  \A i \in 0..Len(queue) : Lanes(d)[i] = LaneStep(d, Lanes(d), i)
<1> DEFINE T == {n \in Nat : \E g : g = [i \in 0..n |-> LaneStep(d, g, i)]}
<1>1. 0 \in T
  <2>1. \A g : \A i \in 0..0 : LaneStep(d, g, i) = <<>>
    BY DEF LaneStep
  <2>2. PICK g : g = [i \in 0..0 |-> <<>>]
    OBVIOUS
  <2>3. g = [i \in 0..0 |-> LaneStep(d, g, i)]
    BY ONLY <2>1, <2>2
  <2> QED
    BY <2>3
<1>2. ASSUME NEW n \in T PROVE n + 1 \in T
  <2>1. PICK g : g = [i \in 0..n |-> LaneStep(d, g, i)]
    OBVIOUS
  <2>2. PICK h : h = [i \in 0..(n + 1) |-> LaneStep(d, g, i)]
    OBVIOUS
  <2>3. n \in Nat /\ 0..n \subseteq 0..(n + 1)
    OBVIOUS
  <2>4. \A i \in 0..n : h[i] = g[i]
    BY ONLY <2>1, <2>2, <2>3, Zenon
  <2>5. ASSUME NEW i \in 0..(n + 1) PROVE LaneStep(d, g, i) = LaneStep(d, h, i)
    <3>1. CASE i = 0
      BY ONLY <3>1 DEF LaneStep
    <3>2. CASE i # 0
      <4>1. i - 1 \in 0..n
        BY ONLY <2>3, <3>2, i \in 0..(n + 1)
      <4>2. h[i - 1] = g[i - 1]
        BY ONLY <2>4, <4>1
      <4> QED
        BY ONLY <4>2 DEF LaneStep
    <3> QED
      BY <3>1, <3>2
  <2>6. h = [i \in 0..(n + 1) |-> LaneStep(d, h, i)]
    BY ONLY <2>2, <2>5, Zenon
  <2> QED
    BY <2>6
<1>3. T = Nat
  BY ONLY <1>1, <1>2, NatSetInduction, T \subseteq Nat
<1>4. Len(queue) \in T
  BY <1>3
<1>5. \E g : g = [i \in 0..Len(queue) |-> LaneStep(d, g, i)]
  BY <1>4
<1>6. Lanes(d) = [i \in 0..Len(queue) |-> LaneStep(d, Lanes(d), i)]
  BY ONLY <1>5 DEF Lanes
<1> QED
  BY ONLY <1>6, Zenon

\* A lane is as long as the queue, so that nothing is dropped: the same will
\* sound whether it is the queue that arrives, or the lane.
LEMMA LaneHolds ==
  ASSUME queue \in Seq(Events), Len(queue) <= EVENT_QUEUE_CAP, NEW d \in Instruments
  PROVE  /\ InputLane(d) \in Seq(Events) /\ Len(InputLane(d)) <= LANE_CAP
         /\ \A k \in 1..Len(InputLane(d)) : InputLane(d)[k].device = d
         /\ \A S, n : Lasts(InputLane(d), Len(InputLane(d)), S, d, n)
                        <=> Lasts(queue, Len(queue), S, d, n)
<1>0. Len(queue) \in Nat /\ EVENT_QUEUE_CAP \in Nat /\ LANE_CAP \in Nat /\ EVENT_QUEUE_CAP <= LANE_CAP
  BY PerformanceAssumption
<1> DEFINE g == Lanes(d)
           Right(i) == /\ g[i] \in Seq(Events) /\ Len(g[i]) <= i
                       /\ \A k \in 1..Len(g[i]) : g[i][k].device = d
                       /\ \A S, n : Lasts(g[i], Len(g[i]), S, d, n) <=> Lasts(queue, i, S, d, n)
           T == {i \in Nat : i <= Len(queue) => Right(i)}
<1>1. \A i \in 0..Len(queue) : g[i] = LaneStep(d, g, i)
  BY LanesDef
<1> HIDE DEF g
<1>2. 0 \in T
  <2>1. g[0] = <<>>
    BY <1>0, <1>1 DEF LaneStep
  <2>2. <<>> \in Seq(Events) /\ Len(<<>>) = 0 /\ 1..0 = {}
    OBVIOUS
  <2>3. \A S, n : Lasts(<<>>, 0, S, d, n) <=> Lasts(queue, 0, S, d, n)
    BY ONLY LastsNone
  <2> QED
    BY ONLY <2>1, <2>2, <2>3, 0 \in Nat, 0 <= 0
<1>3. ASSUME NEW i \in T PROVE i + 1 \in T
  <2> SUFFICES ASSUME i + 1 <= Len(queue) PROVE Right(i + 1)
    OBVIOUS
  <2>1. i \in Nat /\ i <= Len(queue) /\ i + 1 \in 0..Len(queue) /\ i + 1 \in 1..Len(queue) /\ Right(i)
    BY <1>0
  <2>2. PICK a : a = g[i]
    OBVIOUS
  <2>3. PICK e \in Events : e = queue[i + 1]
    BY <2>1, ElementOfSeq
  <2>4. /\ a \in Seq(Events) /\ Len(a) \in Nat /\ Len(a) <= i
        /\ \A k \in 1..Len(a) : a[k].device = d
        /\ \A S, n : Lasts(a, Len(a), S, d, n) <=> Lasts(queue, i, S, d, n)
    BY ONLY <2>1, <2>2, LenProperties
  <2>5. g[i + 1] = IF e.device = d THEN push(a, e) ELSE a
    <3>1. (i + 1) - 1 = i /\ i + 1 # 0
      BY ONLY <2>1
    <3> QED
      BY ONLY <3>1, <2>1, <1>1, <2>2, <2>3 DEF LaneStep
  <2>6. \A S, n : Lasts(queue, i + 1, S, d, n) <=>
          IsOn(e, d, n) \/ (Lasts(queue, i, S, d, n) /\ ~ IsOff(e, d, n))
    BY ONLY <2>1, <2>3, LastsNext
  <2>7. CASE e.device = d
    <3>1. g[i + 1] = Append(a, e)
      BY ONLY <2>1, <2>4, <2>5, <2>7, <1>0, Len(queue) <= EVENT_QUEUE_CAP, i + 1 <= Len(queue) DEF push
    <3>2. Append(a, e) \in Seq(Events) /\ Len(Append(a, e)) = Len(a) + 1
      BY ONLY <2>4, e \in Events, AppendProperties
    <3>3. Len(a) + 1 <= i + 1
      BY ONLY <2>1, <2>4
    <3>4. \A S, n : Lasts(Append(a, e), Len(Append(a, e)), S, d, n) <=>
            IsOn(e, d, n) \/ (Lasts(a, Len(a), S, d, n) /\ ~ IsOff(e, d, n))
      BY ONLY <2>4, e \in Events, LastsAppend
    <3>5. ASSUME NEW k \in 1..(Len(a) + 1) PROVE Append(a, e)[k].device = d
      <4>1. CASE k \in 1..Len(a)
        BY ONLY <4>1, <2>4, e \in Events, AppendProperties
      <4>2. CASE k = Len(a) + 1
        BY ONLY <4>2, <2>4, <2>7, e \in Events, AppendProperties
      <4> QED
        BY ONLY <4>1, <4>2, <2>4, k \in 1..(Len(a) + 1)
    <3> QED
      BY ONLY <3>1, <3>2, <3>3, <3>4, <3>5, <2>4, <2>6
  <2>8. CASE e.device # d
    <3>1. g[i + 1] = a /\ \A n : ~ IsOn(e, d, n) /\ ~ IsOff(e, d, n)
      BY ONLY <2>5, <2>8 DEF IsOn, IsOff
    <3>2. Len(a) <= i + 1
      BY ONLY <2>1, <2>4
    <3> QED
      BY ONLY <3>1, <3>2, <2>4, <2>6
  <2> QED
    BY ONLY <2>7, <2>8
<1>4. T = Nat
  BY ONLY <1>2, <1>3, NatSetInduction, T \subseteq Nat
<1>5. Right(Len(queue))
  BY <1>0, <1>4
<1>6. InputLane(d) = g[Len(queue)]
  BY LaneIsLast DEF g
<1>7. Len(g[Len(queue)]) \in Nat
  BY ONLY <1>5, LenProperties
<1>8. Len(g[Len(queue)]) <= LANE_CAP
  BY ONLY <1>0, <1>5, <1>7, Len(queue) <= EVENT_QUEUE_CAP
<1> QED
  BY ONLY <1>5, <1>6, <1>8

\* What fits is copied whole.
LEMMA CopyIsWhole ==
  ASSUME NEW lane \in Seq(Events), Len(lane) <= LANE_CAP PROVE Copy(lane) = lane
<1>1. Len(lane) \in Nat /\ LANE_CAP \in Nat
  BY PerformanceAssumption
<1>2. PICK n : n = Min({LANE_CAP, Len(lane)})
  OBVIOUS
<1>3. n \in {LANE_CAP, Len(lane)} /\ n <= LANE_CAP /\ n <= Len(lane)
  BY ONLY <1>1, <1>2, LANE_CAP \in Int, Len(lane) \in Int, MinOfTwo
<1>4. n = Len(lane)
  BY ONLY <1>1, <1>3, Len(lane) <= LANE_CAP
<1>5. SubSeq(lane, 1, Len(lane)) = lane
  BY SubSeqFull
<1> QED
  BY ONLY <1>2, <1>4, <1>5 DEF Copy

-----------------------------------------------------------------------------
(* A quantum: what sounds then is what would have.                         *)

Struck(note) == {note} \ {None}

LEMMA VoiceHears ==
  ASSUME NEW v \in Voices, NEW lane \in Seq(Events),
         \A k \in 1..Len(lane) : lane[k].device = Controller
  PROVE  /\ VoiceAfter(v, lane) \in Voices
         /\ \A n \in Struck(VoiceAfter(v, lane).note) :
              Lasts(lane, Len(lane), Struck(v.note), Controller, n)
<1>0. Len(lane) \in Nat
  BY LenProperties
<1>1. PICK h \in [0..Len(lane) -> Voices] :
        /\ h[0] = v /\ h[Len(lane)] = PlayedAfter(v, lane)
        /\ \A i \in 1..Len(lane) : h[i] = apply(h[i - 1], lane[i])
  BY EventByEvent
<1> DEFINE Right(i) == \A n \in Struck(h[i].note) : Lasts(lane, i, Struck(v.note), Controller, n)
           T == {i \in Nat : i <= Len(lane) => Right(i)}
<1>2. 0 \in T
  BY ONLY <1>1, LastsNone, 0 \in Nat
<1>3. ASSUME NEW i \in T PROVE i + 1 \in T
  <2> SUFFICES ASSUME i + 1 <= Len(lane) PROVE Right(i + 1)
    OBVIOUS
  <2>1. i \in Nat /\ i \in 0..Len(lane) /\ i + 1 \in 1..Len(lane) /\ (i + 1) - 1 = i /\ Right(i)
    BY <1>0
  <2>2. PICK e \in Events : e = lane[i + 1]
    BY ONLY <2>1, lane \in Seq(Events), ElementOfSeq
  <2>3. PICK w \in Voices : w = h[i]
    BY ONLY <2>1, <1>1
  <2>4. h[i + 1] = apply(w, e) /\ e.device = Controller /\ e.on \in BOOLEAN
    BY ONLY <2>1, <2>2, <2>3, <1>1, \A k \in 1..Len(lane) : lane[k].device = Controller DEF Events
  <2>5. \A n : Lasts(lane, i + 1, Struck(v.note), Controller, n) <=>
          IsOn(e, Controller, n) \/ (Lasts(lane, i, Struck(v.note), Controller, n) /\ ~ IsOff(e, Controller, n))
    BY ONLY <2>1, <2>2, LastsNext
  <2>6. /\ e.on => apply(w, e).note = e.note
        /\ ~ e.on /\ w.note = e.note => apply(w, e).note = None
        /\ ~ e.on /\ w.note # e.note => apply(w, e).note = w.note
    BY DEF apply, gate_on, gate_off, Voices
  <2>7. ASSUME NEW n \in Struck(h[i + 1].note)
        PROVE  IsOn(e, Controller, n)
               \/ (Lasts(lane, i, Struck(v.note), Controller, n) /\ ~ IsOff(e, Controller, n))
    <3>1. n = apply(w, e).note /\ n # None
      BY ONLY <2>4, n \in Struck(h[i + 1].note) DEF Struck
    <3>2. CASE e.on
      BY ONLY <3>2, <3>1, <2>6, <2>4 DEF IsOn
    <3>3. CASE ~ e.on
      <4>1. w.note # e.note /\ n = w.note
        BY ONLY <3>3, <3>1, <2>6
      <4>2. n \in Struck(h[i].note)
        BY ONLY <4>1, <2>3, <3>1 DEF Struck
      <4> QED
        BY ONLY <4>1, <4>2, <2>1 DEF IsOff
    <3> QED
      BY ONLY <3>2, <3>3
  <2> QED
    BY ONLY <2>5, <2>7
<1>4. T = Nat
  BY ONLY <1>2, <1>3, NatSetInduction, T \subseteq Nat
<1>5. Right(Len(lane))
  BY <1>0, <1>4
<1>6. PICK w \in Voices : w = PlayedAfter(v, lane)
  <2>1. Len(lane) \in 0..Len(lane)
    BY <1>0
  <2> QED
    BY ONLY <2>1, <1>1
<1>7. PICK samples \in Seq(Int) : samples = [i \in 1..BlockLen |-> i]
  <2>1. BlockLen \in Nat
    BY PerformanceAssumption
  <2>2. \A i \in 1..BlockLen : i \in Int
    BY ONLY <2>1
  <2>3. [i \in 1..BlockLen |-> i] \in Seq(Int)
    BY ONLY <2>1, <2>2, IsASeq
  <2> QED
    BY ONLY <2>3
<1>8. Len(samples) \in Nat
  BY ONLY LenProperties, samples \in Seq(Int)
<1>9. PICK t \in [0..Len(samples) -> Voices] :
        /\ t[0] = w /\ t[Len(samples)] = EnvelopeAfter(w, samples)
        /\ \A i \in 1..Len(samples) : t[i] = env_step(t[i - 1])
  BY ONLY w \in Voices, samples \in Seq(Int), SampleBySample
<1>10. t[Len(samples)].note = w.note
  <2> DEFINE U == {i \in Nat : i <= Len(samples) => t[i].note = w.note}
  <2>1. 0 \in U
    BY ONLY <1>9, 0 \in Nat
  <2>2. ASSUME NEW i \in U PROVE i + 1 \in U
    <3> SUFFICES ASSUME i + 1 <= Len(samples) PROVE t[i + 1].note = w.note
      OBVIOUS
    <3>1. i + 1 \in 1..Len(samples) /\ (i + 1) - 1 = i /\ i \in 0..Len(samples) /\ t[i].note = w.note
      BY <1>8
    <3>2. t[i] \in Voices /\ t[i + 1] = env_step(t[i])
      BY ONLY <3>1, <1>9
    <3>3. PICK x \in Voices : x = t[i]
      BY ONLY <3>2
    <3>4. env_step(x).note = x.note
      BY ONLY EnvStepTyped, x \in Voices
    <3>5. env_step(t[i]).note = w.note
      BY ONLY <3>1, <3>3, <3>4
    <3> QED
      BY ONLY <3>2, <3>5
  <2>3. U = Nat
    BY ONLY <2>1, <2>2, NatSetInduction, U \subseteq Nat
  <2> QED
    BY ONLY <2>3, <1>8, SMTT(30)
<1>11. VoiceAfter(v, lane) = t[Len(samples)]
  BY ONLY <1>6, <1>7, <1>9 DEF VoiceAfter, EnvelopeAfter, PlayedAfter
<1>12. t[Len(samples)] \in Voices
  <2>1. Len(samples) \in 0..Len(samples)
    BY ONLY <1>8
  <2> QED
    BY ONLY <2>1, <1>9
<1>13. VoiceAfter(v, lane).note = h[Len(lane)].note
  BY ONLY <1>1, <1>6, <1>10, <1>11
<1> QED
  BY ONLY <1>5, <1>11, <1>12, <1>13

LEMMA GuitarHears ==
  ASSUME NEW ring \in SUBSET Notes, NEW lane \in Seq(Events),
         \A k \in 1..Len(lane) : lane[k].device = Guitar
  PROVE  /\ RingingAfter(ring, lane) \in SUBSET Notes
         /\ \A n \in RingingAfter(ring, lane) : Lasts(lane, Len(lane), ring, Guitar, n)
<1>0. Len(lane) \in Nat
  BY LenProperties
<1>1. PICK h \in [0..Len(lane) -> SUBSET Notes] :
        /\ h[0] = ring /\ h[Len(lane)] = RingingAfter(ring, lane)
        /\ \A i \in 1..Len(lane) : h[i] = Keyed(h[i - 1], lane[i])
  BY KeyByKey
<1> DEFINE Right(i) == \A n \in h[i] : Lasts(lane, i, ring, Guitar, n)
           T == {i \in Nat : i <= Len(lane) => Right(i)}
<1>2. 0 \in T
  BY ONLY <1>1, LastsNone, 0 \in Nat
<1>3. ASSUME NEW i \in T PROVE i + 1 \in T
  <2> SUFFICES ASSUME i + 1 <= Len(lane) PROVE Right(i + 1)
    OBVIOUS
  <2>1. i \in Nat /\ i + 1 \in 1..Len(lane) /\ (i + 1) - 1 = i /\ Right(i)
    BY <1>0
  <2>2. PICK e \in Events : e = lane[i + 1]
    BY ONLY <2>1, lane \in Seq(Events), ElementOfSeq
  <2>3. h[i + 1] = Keyed(h[i], e) /\ e.device = Guitar /\ e.on \in BOOLEAN
    BY ONLY <2>1, <2>2, <1>1, \A k \in 1..Len(lane) : lane[k].device = Guitar DEF Events
  <2>4. \A n : Lasts(lane, i + 1, ring, Guitar, n) <=>
          IsOn(e, Guitar, n) \/ (Lasts(lane, i, ring, Guitar, n) /\ ~ IsOff(e, Guitar, n))
    BY ONLY <2>1, <2>2, LastsNext
  <2> SUFFICES ASSUME NEW n \in h[i + 1]
               PROVE  IsOn(e, Guitar, n) \/ (Lasts(lane, i, ring, Guitar, n) /\ ~ IsOff(e, Guitar, n))
    BY ONLY <2>4
  <2>5. CASE e.on
    <3>1. n = e.note \/ n \in h[i]
      BY ONLY <2>5, <2>3 DEF Keyed
    <3> QED
      BY ONLY <3>1, <2>1, <2>3, <2>5 DEF IsOn, IsOff
  <2>6. CASE ~ e.on
    <3>1. n # e.note /\ n \in h[i]
      BY ONLY <2>6, <2>3 DEF Keyed
    <3> QED
      BY ONLY <3>1, <2>1 DEF IsOff
  <2> QED
    BY ONLY <2>5, <2>6
<1>4. T = Nat
  BY ONLY <1>2, <1>3, NatSetInduction, T \subseteq Nat
<1>5. Right(Len(lane)) /\ Len(lane) \in 0..Len(lane)
  BY <1>0, <1>4
<1> QED
  BY ONLY <1>1, <1>5

-----------------------------------------------------------------------------
(* The invariant.                                                          *)

TypeOK ==
  /\ openWindows \in Seq(Windows)
  /\ octave \in Octaves /\ held \in SUBSET Notes /\ IsFiniteSet(held)
  /\ port \in Seq(Events) /\ queue \in Seq(Events) /\ Len(queue) <= EVENT_QUEUE_CAP
  /\ event_drops \in BOOLEAN
  /\ voice \in Voices /\ ringing \in SUBSET Notes

\* What sounds on d once every message under way has arrived.
WillSound(d) == LasterSet(queue \o port, SoundingOn(d), d)

Answered == ~ event_drops => \A d \in Instruments : WillSound(d) \subseteq KeysOf(d)

PlayInv == TypeOK /\ Answered

LEMMA SoundingIs ==
  SoundingOn(Controller) = Struck(voice.note) /\ SoundingOn(Guitar) = ringing
  BY DEF SoundingOn, Struck, Controller, Guitar

LEMMA TargetIs ==
  ASSUME NEW windows \in Seq(Windows)
  PROVE  Playing(windows) \in Instruments \cup {None}
<1> DEFINE playable == {i \in DOMAIN windows : windows[i] \in Instruments}
<1>1. DOMAIN windows = 1..Len(windows) /\ Len(windows) \in Nat
  BY SeqDomain
<1>2. CASE playable = {}
  BY <1>2 DEF Playing
<1>3. CASE playable # {}
  <2>1. Max(playable) \in playable
    BY <1>1, <1>3, LargestExists
  <2> QED
    BY <1>3, <2>1 DEF Playing
<1> QED
  BY <1>2, <1>3

LEMMA TargetNow ==
  ASSUME TypeOK
  PROVE  keyboardTarget \in Instruments \cup {None} /\ None \notin Instruments
  BY TargetIs, PerformanceAssumption DEF TypeOK, keyboardTarget

LEMMA NotesOfKeys ==
  ASSUME TypeOK, NEW k \in Key PROVE noteForKey(k, octave) \in Notes
  BY DEF TypeOK, Notes

LEMMA AtRestNothingHangs ==
  ASSUME PlayInv PROVE NothingHangs
<1> SUFFICES ASSUME AtRest, NEW d \in Instruments, NEW n \in SoundingOn(d)
             PROVE  n \in KeysOf(d)
  BY DEF NothingHangs
<1>1. queue \o port = <<>> /\ Len(<<>>) = 0 /\ ~ event_drops
  BY DEF AtRest
<1>2. n \in Notes
  <2>1. voice.note \in Notes \cup {None} /\ ringing \subseteq Notes
    BY DEF PlayInv, TypeOK, Voices
  <2>2. d = Controller \/ d = Guitar
    BY DEF Instruments
  <2> QED
    BY ONLY <2>1, <2>2, SoundingIs, n \in SoundingOn(d) DEF Struck
<1>3. n \in WillSound(d)
  BY ONLY <1>1, <1>2, LastsNone, n \in SoundingOn(d) DEF WillSound, LasterSet
<1> QED
  BY <1>1, <1>3 DEF PlayInv, Answered

LEMMA InitPlayInv == Init => PlayInv
<1> SUFFICES ASSUME Init PROVE PlayInv
  OBVIOUS
<1>1. TypeOK
  <2>1. <<>> \in Seq(Windows) /\ <<>> \in Seq(Events) /\ Len(<<>>) = 0
    OBVIOUS
  <2>2. 0 \in Octaves /\ 0 <= EVENT_QUEUE_CAP
    BY PerformanceAssumption DEF Octaves
  <2>3. SilentVoice \in Voices
    BY DEF SilentVoice, Voices, Stages
  <2>4. IsFiniteSet({})
    BY FS_EmptySet
  <2> QED
    BY <2>1, <2>2, <2>3, <2>4 DEF Init, TypeOK
<1>2. Answered
  <2> SUFFICES ASSUME NEW d \in Instruments PROVE WillSound(d) = {}
    BY DEF Answered
  <2>1. queue \o port = <<>> /\ Len(<<>>) = 0
    BY DEF Init
  <2>2. voice.note = None /\ ringing = {}
    BY DEF Init, SilentVoice
  <2>3. SoundingOn(d) = {}
    <3>1. d = Controller \/ d = Guitar
      BY DEF Instruments
    <3> QED
      BY ONLY <2>2, <3>1, SoundingIs DEF Struck
  <2> QED
    BY ONLY <2>1, <2>3, LastsNone DEF WillSound, LasterSet
<1> QED
  BY <1>1, <1>2 DEF PlayInv

-----------------------------------------------------------------------------
(* The engine.                                                             *)

LEMMA DeliverKeeps ==
  ASSUME PlayInv, Deliver PROVE PlayInv'
<1>1. /\ port # <<>> /\ port' = Tail(port)
      /\ openWindows' = openWindows /\ octave' = octave /\ held' = held
      /\ voice' = voice /\ ringing' = ringing /\ struck' = struck
  BY DEF Deliver, page
<1>2. /\ port \in Seq(Events) /\ queue \in Seq(Events) /\ Len(queue) <= EVENT_QUEUE_CAP
  BY DEF PlayInv, TypeOK
<1>3. Tail(port) \in Seq(Events) /\ Head(port) \in Events
  BY <1>1, <1>2
<1>4. CASE Len(queue) < EVENT_QUEUE_CAP
  <2>1. queue' = Append(queue, Head(port)) /\ event_drops' = event_drops
    BY <1>4 DEF Deliver
  <2>2. queue' \in Seq(Events) /\ Len(queue') = Len(queue) + 1 /\ Len(queue) \in Nat
    BY ONLY <2>1, <1>2, <1>3, AppendProperties, LenProperties
  <2>3. Len(queue') <= EVENT_QUEUE_CAP
    BY <2>2, <1>4, PerformanceAssumption
  <2>4. TypeOK'
    BY <1>1, <1>3, <2>1, <2>2, <2>3 DEF PlayInv, TypeOK
  <2>5. queue' \o port' = queue \o port
    <3>1. \A q \in Seq(Events), p \in Seq(Events) :
            p # <<>> => Append(q, Head(p)) \o Tail(p) = q \o p
      OBVIOUS
    <3> QED
      BY ONLY <3>1, <2>1, <1>1, <1>2
  <2>6. \A d \in Instruments : SoundingOn(d)' = SoundingOn(d) /\ KeysOf(d)' = KeysOf(d)
    BY ONLY <1>1 DEF SoundingOn, KeysOf, MidiNotesOf, keyboardTarget
  <2>7. \A d \in Instruments : WillSound(d)' = WillSound(d)
    BY ONLY <2>5, <2>6 DEF WillSound
  <2>8. Answered'
    BY ONLY <2>1, <2>6, <2>7, PlayInv DEF Answered, PlayInv
  <2> QED
    BY ONLY <2>4, <2>8 DEF PlayInv
<1>5. CASE ~ (Len(queue) < EVENT_QUEUE_CAP)
  <2>1. queue' = queue /\ event_drops' = TRUE
    BY <1>5 DEF Deliver
  <2>2. TypeOK'
    BY <1>1, <1>3, <2>1 DEF PlayInv, TypeOK
  <2> QED
    BY ONLY <2>1, <2>2 DEF PlayInv, Answered
<1> QED
  BY <1>4, <1>5

LEMMA QuantumKeeps ==
  ASSUME PlayInv, Quantum PROVE PlayInv'
<1>1. /\ voice' = VoiceAfter(voice, Copy(InputLane(Controller)))
      /\ ringing' = RingingAfter(ringing, InputLane(Guitar))
      /\ queue' = <<>> /\ port' = port /\ event_drops' = event_drops
      /\ openWindows' = openWindows /\ octave' = octave /\ held' = held /\ struck' = struck
  BY DEF Quantum, page
<1>2. /\ port \in Seq(Events) /\ queue \in Seq(Events) /\ Len(queue) <= EVENT_QUEUE_CAP
      /\ voice \in Voices /\ ringing \in SUBSET Notes
  BY DEF PlayInv, TypeOK
<1>3. Controller \in Instruments /\ Guitar \in Instruments
  BY DEF Instruments
<1>4. PICK lane \in Seq(Events) : lane = InputLane(Controller)
  BY ONLY <1>2, <1>3, LaneHolds
<1>5. Copy(lane) = lane
  BY ONLY <1>2, <1>3, <1>4, LaneHolds, CopyIsWhole
<1>6. /\ voice' \in Voices
      /\ \A n \in Struck(voice'.note) : Lasts(lane, Len(lane), Struck(voice.note), Controller, n)
  BY ONLY <1>1, <1>2, <1>3, <1>4, <1>5, LaneHolds, VoiceHears
<1>7. /\ ringing' \in SUBSET Notes
      /\ \A n \in ringing' : Lasts(InputLane(Guitar), Len(InputLane(Guitar)), ringing, Guitar, n)
  BY ONLY <1>1, <1>2, <1>3, LaneHolds, GuitarHears
<1>8. TypeOK'
  <2>1. <<>> \in Seq(Events) /\ Len(<<>>) = 0
    OBVIOUS
  <2>2. 0 <= EVENT_QUEUE_CAP
    BY PerformanceAssumption
  <2> QED
    BY <1>1, <1>6, <1>7, <2>1, <2>2 DEF PlayInv, TypeOK
<1>9. ASSUME NEW d \in Instruments
      PROVE  \A n \in SoundingOn(d)' : Lasts(queue, Len(queue), SoundingOn(d), d, n)
  <2>1. CASE d = Controller
    <3>1. SoundingOn(d)' = Struck(voice'.note) /\ SoundingOn(d) = Struck(voice.note)
      BY ONLY <2>1 DEF SoundingOn, Struck, Controller, Guitar
    <3> QED
      BY ONLY <3>1, <2>1, <1>2, <1>3, <1>4, <1>6, LaneHolds
  <2>2. CASE d = Guitar
    <3>1. SoundingOn(d)' = ringing' /\ SoundingOn(d) = ringing
      BY ONLY <2>2 DEF SoundingOn, Controller, Guitar
    <3> QED
      BY ONLY <3>1, <2>2, <1>2, <1>3, <1>7, LaneHolds
  <2> QED
    BY <2>1, <2>2 DEF Instruments
<1>10. ASSUME NEW d \in Instruments, NEW n \in WillSound(d)' PROVE n \in WillSound(d)
  <2>1. n \in Notes /\ Lasts(port, Len(port), SoundingOn(d)', d, n)
    <3>1. queue' \o port' = port
      BY ONLY <1>1, <1>2, ConcatEmptySeq
    <3> QED
      BY ONLY <3>1, n \in WillSound(d)' DEF WillSound, LasterSet
  <2>2. SoundingOn(d)' \cap Notes \subseteq LasterSet(queue, SoundingOn(d), d)
    BY ONLY <1>9, d \in Instruments DEF LasterSet
  <2>3. SoundingOn(d)' \subseteq Notes
    <3>1. voice'.note \in Notes \cup {None}
      BY ONLY <1>6 DEF Voices
    <3>2. d = Controller \/ d = Guitar
      BY DEF Instruments
    <3>3. ringing' \subseteq Notes
      BY ONLY <1>7
    <3>4. CASE d = Controller
      <4>1. SoundingOn(d)' = Struck(voice'.note)
        BY ONLY <3>4 DEF SoundingOn, Struck, Controller, Guitar
      <4> QED
        BY ONLY <4>1, <3>1 DEF Struck
    <3>5. CASE d = Guitar
      <4>1. SoundingOn(d)' = ringing'
        BY ONLY <3>5 DEF SoundingOn, Controller, Guitar
      <4> QED
        BY ONLY <4>1, <3>3
    <3> QED
      BY ONLY <3>2, <3>4, <3>5
  <2>4. Lasts(port, Len(port), LasterSet(queue, SoundingOn(d), d), d, n)
    <3>1. Len(port) \in Nat
      BY ONLY <1>2, LenProperties
    <3>2. SoundingOn(d)' \subseteq LasterSet(queue, SoundingOn(d), d)
      BY ONLY <2>2, <2>3
    <3> QED
      BY ONLY <3>1, <3>2, <2>1, LastsMore
  <2>5. Lasts(queue \o port, Len(queue \o port), SoundingOn(d), d, n)
    BY ONLY <2>1, <2>4, <1>2, LastsConcat
  <2> QED
    BY ONLY <2>1, <2>5 DEF WillSound, LasterSet
<1>11. \A d \in Instruments : KeysOf(d)' = KeysOf(d)
  BY ONLY <1>1 DEF KeysOf, MidiNotesOf, keyboardTarget
<1>12. Answered'
  BY ONLY <1>1, <1>10, <1>11, PlayInv DEF Answered, PlayInv
<1> QED
  BY ONLY <1>8, <1>12 DEF PlayInv

-----------------------------------------------------------------------------
(* The page.                                                               *)

\* What a gesture posts goes behind everything under way; it keeps the
\* invariant if what it leaves to sound belongs to a key afterwards.
LEMMA PostKeeps ==
  ASSUME PlayInv, NEW sent \in Seq(Events), port' = port \o sent,
         queue' = queue /\ voice' = voice /\ ringing' = ringing /\ event_drops' = event_drops,
         \A d \in Instruments, n \in Notes :
           Lasts(sent, Len(sent), KeysOf(d), d, n) => n \in KeysOf(d)'
  PROVE  Answered'
<1>1. port \in Seq(Events) /\ queue \in Seq(Events)
  BY DEF PlayInv, TypeOK
<1>2. queue' \o port' = (queue \o port) \o sent /\ queue \o port \in Seq(Events)
  <2>1. queue \o port \in Seq(Events)
    BY ONLY <1>1, ConcatProperties
  <2>2. queue \o (port \o sent) = (queue \o port) \o sent
    BY ONLY <1>1, sent \in Seq(Events), ConcatAssociative
  <2> QED
    BY ONLY <2>1, <2>2, port' = port \o sent, queue' = queue
<1> SUFFICES ASSUME ~ event_drops, NEW d \in Instruments, NEW n \in WillSound(d)'
             PROVE  n \in KeysOf(d)'
  BY DEF Answered
<1>3. SoundingOn(d)' = SoundingOn(d)
  BY DEF SoundingOn
<1>4. n \in Notes /\ Lasts((queue \o port) \o sent, Len((queue \o port) \o sent), SoundingOn(d), d, n)
  BY ONLY <1>2, <1>3, n \in WillSound(d)' DEF WillSound, LasterSet
<1>5. Lasts(sent, Len(sent), WillSound(d), d, n)
  BY ONLY <1>2, <1>4, sent \in Seq(Events), LastsConcat DEF WillSound
<1>6. WillSound(d) \subseteq KeysOf(d) /\ Len(sent) \in Nat
  BY LenProperties DEF PlayInv, Answered
<1>7. Lasts(sent, Len(sent), KeysOf(d), d, n)
  BY ONLY <1>5, <1>6, LastsMore
<1> QED
  BY <1>4, <1>7

LEMMA OfNothing ==
  ASSUME NEW S, NEW d, NEW n
  PROVE  <<>> \in Seq(Events) /\ (Lasts(<<>>, Len(<<>>), S, d, n) <=> n \in S)
<1>1. <<>> \in Seq(Events) /\ Len(<<>>) = 0
  OBVIOUS
<1> QED
  BY ONLY <1>1, LastsNone

LEMMA OfOne ==
  ASSUME NEW e \in Events, NEW S, NEW d, NEW n
  PROVE  /\ <<e>> \in Seq(Events)
         /\ Lasts(<<e>>, Len(<<e>>), S, d, n) <=> IsOn(e, d, n) \/ (n \in S /\ ~ IsOff(e, d, n))
<1>1. <<e>> \in Seq(Events) /\ Len(<<e>>) = 0 + 1 /\ <<e>>[0 + 1] = e /\ 0 \in Nat
  OBVIOUS
<1> QED
  BY ONLY <1>1, LastsNext, LastsNone

LEMMA Posted == ASSUME NEW sent, playNote(sent) PROVE port' = port \o sent
  BY DEF playNote

\* Everything a detached listener held is released on the device it played.
LEMMA ReleasesAre ==
  ASSUME NEW device \in Instruments, NEW H \in SUBSET Notes, IsFiniteSet(H),
         NEW sent, sent = SetToSeq({Message(device, FALSE, n) : n \in H})
  PROVE  /\ sent \in Seq(Events)
         /\ \A i \in 1..Len(sent) : ~ sent[i].on
         /\ \A n \in H : \E i \in 1..Len(sent) : IsOff(sent[i], device, n)
<1> DEFINE R == {Message(device, FALSE, n) : n \in H}
<1>1. R \subseteq Events /\ \A e \in R : ~ e.on
  <2>1. \A n \in Notes : Message(device, FALSE, n) \in Events /\ ~ Message(device, FALSE, n).on
    BY DEF Message, Events
  <2> QED
    BY ONLY <2>1, H \in SUBSET Notes
<1>2. IsFiniteSet(R)
  <2>1. PICK f : f = [n \in H |-> Message(device, FALSE, n)]
    OBVIOUS
  <2>2. f \in Surjection(H, R)
    BY <2>1 DEF Surjection
  <2> QED
    BY ONLY <2>2, IsFiniteSet(H), FS_Surjection
<1>3. PICK c \in Nat : c = Cardinality(R)
  BY ONLY <1>2, FS_CardinalityType
<1>4. ExistsBijection(1..c, R)
  BY ONLY <1>2, <1>3, FS_CardinalityType
<1> HIDE DEF R
<1>5. sent \in [1..c -> R] /\ IsInjective(sent)
  <2>1. \E f \in [1..c -> R] : IsInjective(f)
    BY ONLY <1>4 DEF ExistsBijection, Bijection, Injection
  <2>2. sent = CHOOSE f \in [1..c -> R] : IsInjective(f)
    BY ONLY <1>3, sent = SetToSeq({Message(device, FALSE, n) : n \in H}) DEF SetToSeq, R
  <2> QED
    BY ONLY <2>1, <2>2
<1>6. sent \in Surjection(1..c, R)
  <2>1. sent \in Injection(1..c, R)
    BY ONLY <1>5 DEF Injection
  <2>2. IsFiniteSet(1..c) /\ Cardinality(1..c) = c
    BY FS_Interval
  <2> QED
    BY ONLY <2>1, <2>2, <1>2, <1>3, FS_Injection
<1>7. sent \in Seq(Events) /\ Len(sent) = c /\ \A i \in 1..c : sent[i] \in R
  BY ONLY <1>1, <1>5, c \in Nat
<1>8. ASSUME NEW n \in H PROVE \E i \in 1..c : IsOff(sent[i], device, n)
  <2>1. Message(device, FALSE, n) \in R
    BY DEF R
  <2>2. PICK i \in 1..c : sent[i] = Message(device, FALSE, n)
    BY ONLY <2>1, <1>6 DEF Surjection
  <2> QED
    BY ONLY <2>2 DEF IsOff, Message
<1> QED
  BY ONLY <1>1, <1>7, <1>8

LEMMA Removing ==
  ASSUME NEW s \in Seq(Windows), NEW w PROVE RemoveFirst(s, w) \in Seq(Windows)
<1>1. CASE \E i \in 1..Len(s) : s[i] = w
  <2> DEFINE I == {i \in 1..Len(s) : s[i] = w}
  <2>1. I \subseteq Nat /\ I # {} /\ Len(s) \in Nat
    BY <1>1
  <2>2. Min(I) \in I
    BY <2>1, SmallestExists
  <2>3. PICK i \in 1..Len(s) : i = Min(I)
    BY <2>2
  <2>4. RemoveFirst(s, w) = SubSeq(s, 1, i - 1) \o SubSeq(s, i + 1, Len(s))
    BY <1>1, <2>1, <2>3 DEF RemoveFirst, RemoveAt, SelectInSeq
  <2>5. SubSeq(s, 1, i - 1) \in Seq(Windows) /\ SubSeq(s, i + 1, Len(s)) \in Seq(Windows)
    <3>1. /\ \A k \in 1..(i - 1) : k \in 1..Len(s)
          /\ \A k \in (i + 1)..Len(s) : k \in 1..Len(s)
          /\ i - 1 \in Int /\ i + 1 \in Int /\ Len(s) \in Int /\ 1 \in Int
      BY <2>1
    <3>2. \A k \in 1..Len(s) : s[k] \in Windows
      BY ONLY s \in Seq(Windows), ElementOfSeq
    <3> QED
      BY ONLY <3>1, <3>2, s \in Seq(Windows), SubSeqProperties
  <2> QED
    BY ONLY <2>4, <2>5, ConcatProperties
<1>2. CASE ~ \E i \in 1..Len(s) : s[i] = w
  BY <1>2 DEF RemoveFirst
<1> QED
  BY <1>1, <1>2

LEMMA ShowKeeps ==
  ASSUME PlayInv, NEW windows \in Seq(Windows), Show(windows) PROVE PlayInv'
<1>1. /\ openWindows' = windows /\ playNote(Released(windows))
      /\ IF Playing(windows) = keyboardTarget THEN octave' = octave /\ held' = held
         ELSE octave' = 0 /\ held' = {}
      /\ queue' = queue /\ event_drops' = event_drops /\ voice' = voice /\ ringing' = ringing
      /\ struck' = struck
  BY DEF Show, engine
<1>2. keyboardTarget' = Playing(windows)
  BY ONLY <1>1 DEF keyboardTarget
<1>3. keyboardTarget \in Instruments \cup {None} /\ None \notin Instruments
  BY TargetNow DEF PlayInv
<1>4. held \in SUBSET Notes /\ IsFiniteSet(held)
  BY DEF PlayInv, TypeOK
<1>5. PICK sent : sent = Released(windows) /\ port' = port \o sent
  BY ONLY <1>1, Posted
<1>9. octave' \in Octaves /\ held' \in SUBSET Notes /\ IsFiniteSet(held')
  <2>1. octave \in Octaves
    BY DEF PlayInv, TypeOK
  <2>2. 0 \in Octaves /\ IsFiniteSet({})
    BY FS_EmptySet, PerformanceAssumption DEF Octaves
  <2>3. \/ octave' = octave /\ held' = held
        \/ octave' = 0 /\ held' = {}
    BY ONLY <1>1
  <2> QED
    BY ONLY <2>1, <2>2, <2>3, <1>4
<1>6. CASE Playing(windows) = keyboardTarget \/ keyboardTarget = None
  <2>1. sent = <<>>
    BY ONLY <1>5, <1>6 DEF Released
  <2>2. ASSUME NEW d \in Instruments, NEW n \in KeysOf(d) PROVE n \in KeysOf(d)'
    BY ONLY <1>1, <1>2, <1>3, <1>6, d \in Instruments, n \in KeysOf(d) DEF KeysOf, MidiNotesOf
  <2>3. Answered'
    <3>1. /\ sent \in Seq(Events)
          /\ \A d \in Instruments, n \in Notes :
               Lasts(sent, Len(sent), KeysOf(d), d, n) => n \in KeysOf(d)'
      BY ONLY <2>1, <2>2, OfNothing
    <3> QED
      BY ONLY <3>1, <1>1, <1>5, PlayInv, PostKeeps
  <2>4. sent \in Seq(Events)
    BY ONLY <2>1, OfNothing
  <2>5. TypeOK'
    <3>1. port' \in Seq(Events)
      BY <1>5, <2>4, ConcatProperties DEF PlayInv, TypeOK
    <3>2. octave' \in Octaves /\ held' \in SUBSET Notes /\ IsFiniteSet(held')
      BY ONLY <1>9
    <3> QED
      BY <1>1, <3>1, <3>2 DEF PlayInv, TypeOK
  <2> QED
    BY ONLY <2>3, <2>5 DEF PlayInv
<1>7. CASE Playing(windows) # keyboardTarget /\ keyboardTarget # None
  <2>1. sent = SetToSeq({Message(keyboardTarget, FALSE, n) : n \in held})
    BY ONLY <1>5, <1>7 DEF Released
  <2>2. /\ sent \in Seq(Events)
        /\ \A i \in 1..Len(sent) : ~ sent[i].on
        /\ \A n \in held : \E i \in 1..Len(sent) : IsOff(sent[i], keyboardTarget, n)
    BY ONLY <2>1, <1>3, <1>4, <1>7, ReleasesAre
  <2>3. ASSUME NEW d \in Instruments, NEW n \in Notes, Lasts(sent, Len(sent), KeysOf(d), d, n)
        PROVE  n \in KeysOf(d)'
    <3>1. n \in KeysOf(d) /\ \A j \in 1..Len(sent) : ~ IsOff(sent[j], d, n)
      BY ONLY <2>2, <2>3 DEF Lasts, IsOn
    <3>2. n \in MidiNotesOf(d)
      BY ONLY <3>1, <2>2 DEF KeysOf
    <3> QED
      BY ONLY <3>2, <1>1 DEF KeysOf, MidiNotesOf
  <2>4. Answered'
    BY ONLY <2>2, <2>3, <1>1, <1>5, PlayInv, PostKeeps
  <2>5. TypeOK'
    <3>1. port' \in Seq(Events)
      BY <1>5, <2>2, ConcatProperties DEF PlayInv, TypeOK
    <3>2. octave' \in Octaves /\ held' \in SUBSET Notes /\ IsFiniteSet(held')
      BY ONLY <1>9
    <3> QED
      BY <1>1, <3>1, <3>2 DEF PlayInv, TypeOK
  <2> QED
    BY ONLY <2>4, <2>5 DEF PlayInv
<1> QED
  BY ONLY <1>6, <1>7

\* The one message a key or a MIDI key sends to the current target.
LEMMA OnToTarget ==
  ASSUME TypeOK, keyboardTarget # None, NEW n \in Notes
  PROVE  \E e \in Events : /\ ToTarget(TRUE, n) = <<e>> /\ e.device = keyboardTarget
                           /\ \A d, m : IsOn(e, d, m) <=> keyboardTarget = d /\ n = m
<1>1. PICK e : e = [device |-> keyboardTarget, on |-> TRUE, note |-> n]
  OBVIOUS
<1>2. e.device = keyboardTarget /\ e.on = TRUE /\ e.note = n
  BY ONLY <1>1
<1>3. e \in Events
  BY ONLY <1>1, TypeOK, keyboardTarget # None, n \in Notes, TargetNow DEF Events
<1>4. ToTarget(TRUE, n) = <<e>>
  BY ONLY <1>1, keyboardTarget # None DEF ToTarget, Message
<1> QED
  BY ONLY <1>2, <1>3, <1>4 DEF IsOn, IsOff

LEMMA OffToTarget ==
  ASSUME TypeOK, keyboardTarget # None, NEW n \in Notes
  PROVE  \E e \in Events : /\ ToTarget(FALSE, n) = <<e>>
                           /\ \A d, m : ~ IsOn(e, d, m)
                           /\ \A d, m : IsOff(e, d, m) <=> keyboardTarget = d /\ n = m
<1>1. PICK e : e = [device |-> keyboardTarget, on |-> FALSE, note |-> n]
  OBVIOUS
<1>2. e.device = keyboardTarget /\ e.on = FALSE /\ e.note = n
  BY ONLY <1>1
<1>3. e \in Events
  BY ONLY <1>1, TypeOK, keyboardTarget # None, n \in Notes, TargetNow DEF Events
<1>4. ToTarget(FALSE, n) = <<e>>
  BY ONLY <1>1, keyboardTarget # None DEF ToTarget, Message
<1> QED
  BY ONLY <1>2, <1>3, <1>4 DEF IsOn, IsOff

LEMMA PageKeeps ==
  ASSUME PlayInv, NEW sent \in Seq(Events), playNote(sent),
         queue' = queue, voice' = voice, ringing' = ringing, event_drops' = event_drops,
         openWindows' = openWindows, octave' \in Octaves,
         held' \in SUBSET Notes, IsFiniteSet(held'),
         \A d \in Instruments, n \in Notes :
           Lasts(sent, Len(sent), KeysOf(d), d, n) => n \in KeysOf(d)'
  PROVE  PlayInv'
<1>1. port' = port \o sent
  BY Posted
<1>2. Answered'
  BY <1>1, PostKeeps
<1>3. port' \in Seq(Events)
  BY <1>1, ConcatProperties DEF PlayInv, TypeOK
<1> QED
  BY <1>2, <1>3 DEF PlayInv, TypeOK

LEMMA OctaveKeeps ==
  ASSUME PlayInv, NEW by \in {-1, 1}, ShiftOctave(by) PROVE PlayInv'
<1>1. /\ octave' = Max({OctaveMin, Min({OctaveMax, octave + by})})
      /\ openWindows' = openWindows /\ held' = held /\ port' = port /\ struck' = struck
      /\ queue' = queue /\ event_drops' = event_drops /\ voice' = voice /\ ringing' = ringing
  BY DEF ShiftOctave, engine
<1>2. octave' \in Octaves
  <2>1. octave \in Int /\ OctaveMin \in Int /\ OctaveMax \in Int /\ OctaveMin <= OctaveMax
    BY PerformanceAssumption DEF PlayInv, TypeOK, Octaves
  <2>2. PICK to \in Int : to = octave + by
    BY <2>1
  <2>3. PICK low \in Int : low = Min({OctaveMax, to}) /\ low <= OctaveMax
    BY ONLY <2>1, <2>2, MinOfTwo
  <2>4. PICK high \in Int : /\ high = Max({OctaveMin, low}) /\ high \in {OctaveMin, low}
                            /\ high >= OctaveMin
    BY ONLY <2>1, <2>3, MaxOfTwo
  <2>5. octave' = high
    BY ONLY <1>1, <2>2, <2>3, <2>4
  <2> QED
    BY ONLY <2>1, <2>3, <2>4, <2>5 DEF Octaves
<1>3. TypeOK'
  BY <1>1, <1>2 DEF PlayInv, TypeOK
<1>4. \A d \in Instruments : KeysOf(d)' = KeysOf(d) /\ WillSound(d)' = WillSound(d)
  BY <1>1 DEF KeysOf, MidiNotesOf, keyboardTarget, WillSound, SoundingOn
<1>5. Answered'
  BY ONLY PlayInv, <1>1, <1>4 DEF PlayInv, Answered
<1> QED
  BY <1>3, <1>5 DEF PlayInv

LEMMA KeyDownKeeps ==
  ASSUME PlayInv, NEW k \in Key, NEW heard \in BOOLEAN, onKeyDown(k, heard) PROVE PlayInv'
<1> DEFINE starts == heard /\ keyboardTarget # None /\ noteForKey(k, octave) \notin held
<1>1. PICK n \in Notes : n = noteForKey(k, octave)
  BY NotesOfKeys DEF PlayInv
<1>2. /\ held' = IF starts THEN held \cup {n} ELSE held
      /\ playNote(IF starts THEN ToTarget(TRUE, n) ELSE <<>>)
  BY <1>1 DEF onKeyDown
<1>3. /\ openWindows' = openWindows /\ octave' = octave /\ struck' = struck
      /\ queue' = queue /\ event_drops' = event_drops /\ voice' = voice /\ ringing' = ringing
  BY DEF onKeyDown, engine
<1>4. keyboardTarget' = keyboardTarget
  BY <1>3 DEF keyboardTarget
<1>5. octave' \in Octaves /\ held \in SUBSET Notes /\ IsFiniteSet(held)
  BY <1>3 DEF PlayInv, TypeOK
<1>6. CASE starts
  <2>1. PICK e \in Events :
          /\ ToTarget(TRUE, n) = <<e>> /\ e.device = keyboardTarget
          /\ \A d, m : IsOn(e, d, m) <=> keyboardTarget = d /\ n = m
    BY ONLY PlayInv, n \in Notes, <1>6, OnToTarget DEF PlayInv
  <2>2. held' = held \cup {n} /\ playNote(<<e>>)
    BY ONLY <1>2, <1>6, <2>1
  <2>3. held' \in SUBSET Notes /\ IsFiniteSet(held')
    BY ONLY <2>2, <1>5, n \in Notes, FS_AddElement
  <2>4. <<e>> \in Seq(Events)
    BY ONLY OfOne, e \in Events
  <2>5. ASSUME NEW d \in Instruments, NEW m \in Notes,
               Lasts(<<e>>, Len(<<e>>), KeysOf(d), d, m)
        PROVE  m \in KeysOf(d)'
    <3>1. IsOn(e, d, m) \/ m \in KeysOf(d)
      BY ONLY OfOne, <2>5, e \in Events
    <3> QED
      BY ONLY <3>1, <2>1, <2>2, <1>3, <1>4 DEF KeysOf, MidiNotesOf
  <2> QED
    BY ONLY PageKeeps, PlayInv, <2>2, <2>3, <2>4, <2>5, <1>3, <1>5
<1>7. CASE ~ starts
  <2>1. held' = held /\ playNote(<<>>)
    BY ONLY <1>2, <1>7
  <2>2. <<>> \in Seq(Events)
    BY ONLY OfNothing
  <2>3. ASSUME NEW d \in Instruments, NEW m \in Notes,
               Lasts(<<>>, Len(<<>>), KeysOf(d), d, m)
        PROVE  m \in KeysOf(d)'
    <3>1. m \in KeysOf(d)
      BY ONLY OfNothing, <2>3
    <3> QED
      BY ONLY <3>1, <2>1, <1>3, <1>4 DEF KeysOf, MidiNotesOf
  <2> QED
    BY ONLY PageKeeps, PlayInv, <2>1, <2>2, <2>3, <1>3, <1>5
<1> QED
  BY ONLY <1>6, <1>7

LEMMA KeyUpKeeps ==
  ASSUME PlayInv, NEW k \in Key, NEW heard \in BOOLEAN, onKeyUp(k, heard) PROVE PlayInv'
<1> DEFINE ends == heard /\ keyboardTarget # None /\ noteForKey(k, octave) \in held
<1>1. PICK n \in Notes : n = noteForKey(k, octave)
  BY NotesOfKeys DEF PlayInv
<1>2. /\ held' = IF ends THEN held \ {n} ELSE held
      /\ playNote(IF ends THEN ToTarget(FALSE, n) ELSE <<>>)
  BY <1>1 DEF onKeyUp
<1>3. /\ openWindows' = openWindows /\ octave' = octave /\ struck' = struck
      /\ queue' = queue /\ event_drops' = event_drops /\ voice' = voice /\ ringing' = ringing
  BY DEF onKeyUp, engine
<1>4. keyboardTarget' = keyboardTarget
  BY <1>3 DEF keyboardTarget
<1>5. octave' \in Octaves /\ held \in SUBSET Notes /\ IsFiniteSet(held)
  BY <1>3 DEF PlayInv, TypeOK
<1>6. CASE ends
  <2>1. PICK e \in Events :
          /\ ToTarget(FALSE, n) = <<e>>
          /\ \A d, m : ~ IsOn(e, d, m)
          /\ \A d, m : IsOff(e, d, m) <=> keyboardTarget = d /\ n = m
    BY ONLY PlayInv, n \in Notes, <1>6, OffToTarget DEF PlayInv
  <2>2. held' = held \ {n} /\ playNote(<<e>>)
    BY ONLY <1>2, <1>6, <2>1
  <2>3. held' \in SUBSET Notes /\ IsFiniteSet(held')
    BY ONLY <2>2, <1>5, FS_RemoveElement
  <2>4. <<e>> \in Seq(Events)
    BY ONLY OfOne, e \in Events
  <2>5. ASSUME NEW d \in Instruments, NEW m \in Notes,
               Lasts(<<e>>, Len(<<e>>), KeysOf(d), d, m)
        PROVE  m \in KeysOf(d)'
    <3>1. m \in KeysOf(d) /\ ~ (keyboardTarget = d /\ n = m)
      BY ONLY OfOne, <2>1, <2>5, e \in Events
    <3> QED
      BY ONLY <3>1, <2>2, <1>3, <1>4 DEF KeysOf, MidiNotesOf
  <2> QED
    BY ONLY PageKeeps, PlayInv, <2>2, <2>3, <2>4, <2>5, <1>3, <1>5
<1>7. CASE ~ ends
  <2>1. held' = held /\ playNote(<<>>)
    BY ONLY <1>2, <1>7
  <2>2. <<>> \in Seq(Events)
    BY ONLY OfNothing
  <2>3. ASSUME NEW d \in Instruments, NEW m \in Notes,
               Lasts(<<>>, Len(<<>>), KeysOf(d), d, m)
        PROVE  m \in KeysOf(d)'
    <3>1. m \in KeysOf(d)
      BY ONLY OfNothing, <2>3
    <3> QED
      BY ONLY <3>1, <2>1, <1>3, <1>4 DEF KeysOf, MidiNotesOf
  <2> QED
    BY ONLY PageKeeps, PlayInv, <2>1, <2>2, <2>3, <1>3, <1>5
<1> QED
  BY ONLY <1>6, <1>7

LEMMA MidiOnKeeps ==
  ASSUME PlayInv, NEW n \in MidiNote, MidiOn(n) PROVE PlayInv'
<1>1. /\ playNote(ToTarget(TRUE, n))
      /\ struck' = struck \cup {<<e.device, n>> : e \in ToSet(ToTarget(TRUE, n))}
      /\ openWindows' = openWindows /\ octave' = octave /\ held' = held
      /\ queue' = queue /\ event_drops' = event_drops /\ voice' = voice /\ ringing' = ringing
  BY DEF MidiOn, engine
<1>2. n \in Notes
  BY DEF Notes
<1>3. keyboardTarget' = keyboardTarget
  BY <1>1 DEF keyboardTarget
<1>4. octave' \in Octaves /\ held' \in SUBSET Notes /\ IsFiniteSet(held')
  BY <1>1 DEF PlayInv, TypeOK
<1>5. \A d \in Instruments : KeysOf(d) \subseteq KeysOf(d)'
  BY ONLY <1>1, <1>3 DEF KeysOf, MidiNotesOf
<1>6. CASE keyboardTarget # None
  <2>1. PICK e \in Events :
          /\ ToTarget(TRUE, n) = <<e>> /\ e.device = keyboardTarget
          /\ \A d, m : IsOn(e, d, m) <=> keyboardTarget = d /\ n = m
    BY ONLY PlayInv, <1>2, <1>6, OnToTarget DEF PlayInv
  <2>2. <<keyboardTarget, n>> \in struck'
    <3>1. 1 \in DOMAIN <<e>> /\ <<e>>[1] = e
      OBVIOUS
    <3>2. e \in ToSet(ToTarget(TRUE, n))
      BY ONLY <3>1, <2>1 DEF ToSet
    <3> QED
      BY ONLY <1>1, <2>1, <3>2
  <2>3. <<e>> \in Seq(Events) /\ playNote(<<e>>)
    BY ONLY OfOne, <1>1, <2>1, e \in Events
  <2>4. ASSUME NEW d \in Instruments, NEW m \in Notes,
               Lasts(<<e>>, Len(<<e>>), KeysOf(d), d, m)
        PROVE  m \in KeysOf(d)'
    <3>1. IsOn(e, d, m) \/ m \in KeysOf(d)
      BY ONLY OfOne, <2>4, e \in Events
    <3>2. CASE IsOn(e, d, m)
      <4>1. keyboardTarget = d /\ n = m
        BY ONLY <3>2, <2>1
      <4>2. m \in MidiNotesOf(d)'
        BY ONLY <4>1, <2>2, n \in MidiNote DEF MidiNotesOf
      <4> QED
        BY ONLY <4>2 DEF KeysOf
    <3> QED
      BY ONLY <3>1, <3>2, <1>5
  <2> QED
    BY ONLY PageKeeps, PlayInv, <2>3, <2>4, <1>1, <1>4
<1>7. CASE keyboardTarget = None
  <2>1. <<>> \in Seq(Events) /\ playNote(<<>>)
    BY ONLY OfNothing, <1>1, <1>7 DEF ToTarget
  <2>2. ASSUME NEW d \in Instruments, NEW m \in Notes,
               Lasts(<<>>, Len(<<>>), KeysOf(d), d, m)
        PROVE  m \in KeysOf(d)'
    BY ONLY OfNothing, <2>2, <1>5
  <2> QED
    BY ONLY PageKeeps, PlayInv, <2>1, <2>2, <1>1, <1>4
<1> QED
  BY ONLY <1>6, <1>7

LEMMA MidiOffKeeps ==
  ASSUME PlayInv, NEW n \in MidiNote, MidiOff(n) PROVE PlayInv'
<1>1. /\ playNote(ToTarget(FALSE, n))
      /\ struck' = struck \ {<<keyboardTarget, n>>}
      /\ openWindows' = openWindows /\ octave' = octave /\ held' = held
      /\ queue' = queue /\ event_drops' = event_drops /\ voice' = voice /\ ringing' = ringing
  BY DEF MidiOff, engine
<1>2. n \in Notes
  BY DEF Notes
<1>3. keyboardTarget' = keyboardTarget
  BY <1>1 DEF keyboardTarget
<1>4. octave' \in Octaves /\ held' \in SUBSET Notes /\ IsFiniteSet(held')
  BY <1>1 DEF PlayInv, TypeOK
<1>5. \A d \in Instruments : \A m \in KeysOf(d) : d # keyboardTarget \/ m # n => m \in KeysOf(d)'
  BY ONLY <1>1, <1>3 DEF KeysOf, MidiNotesOf
<1>6. CASE keyboardTarget # None
  <2>1. PICK e \in Events :
          /\ ToTarget(FALSE, n) = <<e>>
          /\ \A d, m : ~ IsOn(e, d, m)
          /\ \A d, m : IsOff(e, d, m) <=> keyboardTarget = d /\ n = m
    BY ONLY PlayInv, <1>2, <1>6, OffToTarget DEF PlayInv
  <2>2. <<e>> \in Seq(Events) /\ playNote(<<e>>)
    BY ONLY OfOne, <1>1, <2>1, e \in Events
  <2>3. ASSUME NEW d \in Instruments, NEW m \in Notes,
               Lasts(<<e>>, Len(<<e>>), KeysOf(d), d, m)
        PROVE  m \in KeysOf(d)'
    <3>1. m \in KeysOf(d) /\ ~ (keyboardTarget = d /\ n = m)
      BY ONLY OfOne, <2>1, <2>3, e \in Events
    <3> QED
      BY ONLY <3>1, <1>5
  <2> QED
    BY ONLY PageKeeps, PlayInv, <2>2, <2>3, <1>1, <1>4
<1>7. CASE keyboardTarget = None
  <2>1. <<>> \in Seq(Events) /\ playNote(<<>>)
    BY ONLY OfNothing, <1>1, <1>7 DEF ToTarget
  <2>2. \A d \in Instruments : d # keyboardTarget
    BY ONLY <1>7, TargetNow, PlayInv DEF PlayInv
  <2>3. ASSUME NEW d \in Instruments, NEW m \in Notes,
               Lasts(<<>>, Len(<<>>), KeysOf(d), d, m)
        PROVE  m \in KeysOf(d)'
    BY ONLY OfNothing, <2>2, <2>3, <1>5
  <2> QED
    BY ONLY PageKeeps, PlayInv, <2>1, <2>3, <1>1, <1>4
<1> QED
  BY ONLY <1>6, <1>7

LEMMA WindowKeeps ==
  ASSUME PlayInv, NEW w \in Windows, openWindow(w) \/ closeWindow(w) PROVE PlayInv'
<1>1. Without(w) \in Seq(Windows)
  BY Removing DEF Without, PlayInv, TypeOK
<1>2. CASE openWindow(w)
  <2>1. Append(Without(w), w) \in Seq(Windows)
    BY ONLY <1>1, w \in Windows, AppendProperties
  <2>2. Show(Append(Without(w), w))
    BY ONLY <1>2 DEF openWindow
  <2> QED
    BY ONLY PlayInv, <2>1, <2>2, ShowKeeps
<1>3. CASE closeWindow(w)
  <2>1. Show(Without(w))
    BY ONLY <1>3 DEF closeWindow
  <2> QED
    BY ONLY PlayInv, <1>1, <2>1, ShowKeeps
<1> QED
  BY ONLY <1>2, <1>3, openWindow(w) \/ closeWindow(w)

LEMMA NextKeeps == PlayInv /\ [Next]_vars => PlayInv'
<1> SUFFICES ASSUME PlayInv, [Next]_vars PROVE PlayInv'
  OBVIOUS
<1>1. CASE Play
  <2>1. CASE \E w \in Windows : openWindow(w) \/ closeWindow(w)
    BY ONLY <2>1, PlayInv, WindowKeeps
  <2>2. CASE \E by \in {-1, 1} : ShiftOctave(by)
    BY ONLY <2>2, PlayInv, OctaveKeeps
  <2>3. CASE \E k \in Key, heard \in BOOLEAN : onKeyDown(k, heard) \/ onKeyUp(k, heard)
    BY ONLY <2>3, PlayInv, KeyDownKeeps, KeyUpKeeps
  <2>4. CASE \E n \in MidiNote : MidiOn(n) \/ MidiOff(n)
    BY ONLY <2>4, PlayInv, MidiOnKeeps, MidiOffKeeps
  <2> QED
    BY ONLY <1>1, <2>1, <2>2, <2>3, <2>4 DEF Play
<1>2. CASE Deliver
  BY ONLY <1>2, PlayInv, DeliverKeeps
<1>3. CASE Quantum
  BY ONLY <1>3, PlayInv, QuantumKeeps
<1>4. CASE UNCHANGED vars
  <2>1. /\ openWindows' = openWindows /\ octave' = octave /\ held' = held
        /\ port' = port /\ queue' = queue /\ event_drops' = event_drops
        /\ voice' = voice /\ ringing' = ringing /\ struck' = struck
    BY ONLY <1>4 DEF vars, page, engine
  <2>2. TypeOK'
    BY <2>1 DEF PlayInv, TypeOK
  <2>3. \A d \in Instruments : KeysOf(d)' = KeysOf(d) /\ WillSound(d)' = WillSound(d)
    BY <2>1 DEF KeysOf, MidiNotesOf, keyboardTarget, WillSound, SoundingOn
  <2>4. Answered'
    BY ONLY PlayInv, <2>1, <2>3 DEF PlayInv, Answered
  <2> QED
    BY <2>2, <2>4 DEF PlayInv
<1> QED
  BY ONLY [Next]_vars, <1>1, <1>2, <1>3, <1>4 DEF Next

LEMMA PlayInvariant == Spec => []PlayInv
<1>1. Init => PlayInv
  BY InitPlayInv
<1>2. PlayInv /\ [Next]_vars => PlayInv'
  BY NextKeeps
<1> QED
  BY <1>1, <1>2, PTL DEF Spec

\* Whatever windows are opened and closed, whatever is shifted, struck, released or not
\* heard, and however long it goes on: once every message has arrived, what sounds on
\* an instrument belongs to a key that will still release it there.
\* (wireKeyboard's detach; SceneSession.playNote; SceneEngine's event queue;
\* EventThru; SynthVoice::apply)
THEOREM NothingHangsTheorem == Spec => []NothingHangs
<1>1. PlayInv => NothingHangs
  BY AtRestNothingHangs
<1> QED
  BY <1>1, PlayInvariant, PTL
=============================================================================
