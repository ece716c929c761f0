-------------------------- MODULE SignalChainProofs --------------------------
(* The channel of the audio interface, for every kernel, block length,     *)
(* oversampling factor, glide, shelf, sound, noise and turn of a knob.     *)
(* The filters' loops are folds: what they compute over a block is proved  *)
(* by induction over its samples, on the set of the numbers of samples for *)
(* which it is so.                                                         *)
EXTENDS SignalChain, TLAPS, FiniteSetTheorems, NaturalsInduction, WellFoundedInduction

(* Induction, and sums.                                                    *)

\* Induction over the naturals, on the set of those that have a property.
LEMMA NatSetInduction ==
  ASSUME NEW T \in SUBSET Nat, 0 \in T, \A n \in T : n + 1 \in T
  PROVE  T = Nat
<1> DEFINE U == Nat \ T
<1> SUFFICES ASSUME U # {} PROVE FALSE
  OBVIOUS
<1>1. PICK x \in U : \A y \in U : ~ (<<y, x>> \in OpToRel(<,Nat))
  BY NatLessThanWellFounded, WFMin
<1>2. \A y \in U : ~ (y < x)
  BY <1>1 DEF OpToRel
<1>3. x \in Nat /\ x # 0
  OBVIOUS
<1>4. x - 1 \in T
  BY <1>2, <1>3
<1> QED
  BY <1>3, <1>4

\* What SumFunction adds next, and what it computes for every part of f.
Picked(s) == CHOOSE x \in s : TRUE
Adds(f, g, s) == IF s = {} THEN 0 ELSE f[Picked(s)] + g[s \ {Picked(s)}]
Totals(f) == CHOOSE g : g = [s \in SUBSET DOMAIN f |-> Adds(f, g, s)]

LEMMA SumIsATotal == ASSUME NEW f PROVE SumFunction(f) = Totals(f)[DOMAIN f]
  BY DEF SumFunction, SumFunctionOnSet, FoldFunctionOnSet, MapThenFoldSet, Totals, Adds, Picked

LEMMA PickedIsIn == ASSUME NEW s, s # {} PROVE Picked(s) \in s
  BY DEF Picked

\* The sums of the parts of at most n items.
UpTo(f, n) == {s \in SUBSET DOMAIN f : IsFiniteSet(s) /\ Cardinality(s) <= n}

LEMMA EmptyUpTo ==
  ASSUME NEW f PROVE \A s \in UpTo(f, 0) : s = {}
  BY FS_CardinalityType, FS_EmptySet DEF UpTo

LEMMA UpToGrows ==
  ASSUME NEW f, NEW n \in Nat PROVE UpTo(f, n) \subseteq UpTo(f, n + 1)
<1> SUFFICES ASSUME NEW s \in UpTo(f, n) PROVE s \in UpTo(f, n + 1)
  OBVIOUS
<1>1. Cardinality(s) \in Nat /\ Cardinality(s) <= n
  BY FS_CardinalityType DEF UpTo
<1>2. Cardinality(s) <= n + 1
  BY <1>1
<1> QED
  BY <1>2 DEF UpTo

LEMMA WholeUpTo ==
  ASSUME NEW f, IsFiniteSet(DOMAIN f), NEW n \in Nat, n = Cardinality(DOMAIN f)
  PROVE  UpTo(f, n) = SUBSET DOMAIN f
  BY FS_Subset DEF UpTo

LEMMA SmallerPart ==
  ASSUME NEW f, NEW n \in Nat, NEW s \in UpTo(f, n + 1), s # {}
  PROVE  s \ {Picked(s)} \in UpTo(f, n) /\ Picked(s) \in DOMAIN f
<1>1. Picked(s) \in s /\ IsFiniteSet(s) /\ Cardinality(s) <= n + 1 /\ s \subseteq DOMAIN f
  BY PickedIsIn DEF UpTo
<1>2. IsFiniteSet(s \ {Picked(s)}) /\ Cardinality(s \ {Picked(s)}) = Cardinality(s) - 1
  BY <1>1, FS_RemoveElement
<1>3. Cardinality(s) \in Nat
  BY <1>1, FS_CardinalityType
<1> QED
  BY <1>1, <1>2, <1>3 DEF UpTo

LEMMA PartialTotals ==
  ASSUME NEW f
  PROVE  \A n \in Nat : \E g : g = [s \in UpTo(f, n) |-> Adds(f, g, s)]
<1> DEFINE T == {n \in Nat : \E g : g = [s \in UpTo(f, n) |-> Adds(f, g, s)]}
<1>1. 0 \in T
  <2>1. \A s \in UpTo(f, 0) : s = {}
    BY EmptyUpTo
  <2>2. \A g : \A s \in UpTo(f, 0) : Adds(f, g, s) = 0
    BY <2>1 DEF Adds
  <2>3. PICK g : g = [s \in UpTo(f, 0) |-> 0]
    OBVIOUS
  <2>4. g = [s \in UpTo(f, 0) |-> Adds(f, g, s)]
    BY <2>2, <2>3
  <2> QED
    BY <2>4
<1>2. ASSUME NEW n \in T PROVE n + 1 \in T
  <2>1. PICK g : g = [s \in UpTo(f, n) |-> Adds(f, g, s)]
    OBVIOUS
  <2>2. PICK h : h = [s \in UpTo(f, n + 1) |-> Adds(f, g, s)]
    OBVIOUS
  <2>3. UpTo(f, n) \subseteq UpTo(f, n + 1)
    BY UpToGrows
  <2>4. \A s \in UpTo(f, n) : h[s] = g[s]
    BY <2>1, <2>2, <2>3, Zenon
  <2>5. ASSUME NEW s \in UpTo(f, n + 1) PROVE Adds(f, g, s) = Adds(f, h, s)
    BY <2>4, SmallerPart DEF Adds
  <2>6. h = [s \in UpTo(f, n + 1) |-> Adds(f, h, s)]
    BY <2>2, <2>5
  <2> QED
    BY <2>6
<1>3. T = Nat
  BY <1>1, <1>2, NatSetInduction
<1> QED
  BY <1>3

\* SumFunction satisfies its recursion.
LEMMA TotalsDef ==
  ASSUME NEW f, IsFiniteSet(DOMAIN f)
  PROVE  Totals(f) = [s \in SUBSET DOMAIN f |-> Adds(f, Totals(f), s)]
<1>1. PICK n \in Nat : n = Cardinality(DOMAIN f)
  BY FS_CardinalityType
<1>2. UpTo(f, n) = SUBSET DOMAIN f
  BY <1>1, WholeUpTo
<1>3. \E g : g = [s \in SUBSET DOMAIN f |-> Adds(f, g, s)]
  <2>1. PICK g : g = [s \in UpTo(f, n) |-> Adds(f, g, s)]
    BY PartialTotals
  <2> QED
    BY ONLY <1>2, <2>1
<1> QED
  BY <1>3 DEF Totals

\* A sum of integers is an integer.
LEMMA SumTyped ==
  ASSUME NEW f, IsFiniteSet(DOMAIN f), \A x \in DOMAIN f : f[x] \in Int
  PROVE  SumFunction(f) \in Int
<1> DEFINE g == Totals(f)
           T == {n \in Nat : \A s \in UpTo(f, n) : g[s] \in Int}
<1>0. \A s \in SUBSET DOMAIN f : g[s] = Adds(f, g, s)
  BY TotalsDef, Zenon
<1> HIDE DEF g
<1>1. 0 \in T
  <2>1. \A s \in UpTo(f, 0) : s = {} /\ s \in SUBSET DOMAIN f
    BY FS_CardinalityType, FS_EmptySet DEF UpTo
  <2> QED
    BY <2>1, <1>0 DEF Adds
<1>2. ASSUME NEW n \in T PROVE n + 1 \in T
  <2>1. ASSUME NEW s \in UpTo(f, n + 1) PROVE g[s] \in Int
    <3>1. s \in SUBSET DOMAIN f
      BY DEF UpTo
    <3>2. CASE s = {}
      BY <3>1, <3>2, <1>0, SMTT(30) DEF Adds
    <3>3. CASE s # {}
      <4>1. s \ {Picked(s)} \in UpTo(f, n) /\ Picked(s) \in DOMAIN f
        BY <3>3, SmallerPart
      <4>2. g[s] = f[Picked(s)] + g[s \ {Picked(s)}]
        BY <3>1, <3>3, <1>0 DEF Adds
      <4>3. f[Picked(s)] \in Int /\ g[s \ {Picked(s)}] \in Int
        BY <4>1
      <4> QED
        BY <4>2, <4>3
    <3> QED
      BY <3>2, <3>3
  <2> QED
    BY <2>1
<1>3. T = Nat
  BY <1>1, <1>2, NatSetInduction
<1>4. DOMAIN f \in UpTo(f, Cardinality(DOMAIN f)) /\ Cardinality(DOMAIN f) \in Nat
  BY FS_CardinalityType DEF UpTo
<1> QED
  BY <1>3, <1>4, SumIsATotal DEF g

\* The sum of two integers, in whichever order they are added.
LEMMA SumOfTwo ==
  ASSUME NEW f, NEW a, NEW b, a # b, DOMAIN f = {a, b}, f[a] \in Int, f[b] \in Int
  PROVE  SumFunction(f) = f[a] + f[b]
<1>1. IsFiniteSet({a, b})
  <2>1. IsFiniteSet({a})
    BY FS_Singleton
  <2>2. {a, b} = {a} \cup {b}
    OBVIOUS
  <2> QED
    BY <2>1, <2>2, FS_AddElement
<1>2. \A s \in SUBSET {a, b} : Totals(f)[s] = Adds(f, Totals(f), s)
  BY <1>1, TotalsDef, Zenon
<1>3. Totals(f)[{}] = 0
  BY <1>2 DEF Adds
<1>4. \A x \in {a, b} : Totals(f)[{x}] = f[x]
  <2> TAKE x \in {a, b}
  <2>1. Picked({x}) = x /\ {x} \ {x} = {} /\ {x} # {}
    BY PickedIsIn
  <2> QED
    BY <1>2, <1>3, <2>1 DEF Adds
<1>5. Picked({a, b}) = a \/ Picked({a, b}) = b
  BY PickedIsIn
<1>6. {a, b} \ {a} = {b} /\ {a, b} \ {b} = {a}
  OBVIOUS
<1>7. Totals(f)[{a, b}] = f[a] + f[b]
  BY <1>2, <1>4, <1>5, <1>6 DEF Adds
<1> QED
  BY <1>7, SumIsATotal
-----------------------------------------------------------------------------
(* The loops of the filters.                                               *)

LEMMA LargestExists ==
  ASSUME NEW n \in Nat, NEW s \in SUBSET (1..n), s # {}
  PROVE  Max(s) \in s /\ \A y \in s : y <= Max(s)
<1> DEFINE below == {m \in Nat : \E x \in s : m = n - x}
<1>1. below \subseteq Nat /\ below # {}
  <2>1. PICK x \in s : TRUE
    OBVIOUS
  <2>2. n - x \in Nat
    OBVIOUS
  <2> QED
    BY <2>2
<1>2. PICK m \in below : \A k \in below : ~ (<<k, m>> \in OpToRel(<,Nat))
  BY <1>1, NatLessThanWellFounded, WFMin
<1>3. \A k \in below : ~ (k < m)
  BY <1>2 DEF OpToRel
<1>4. PICK x \in s : m = n - x
  OBVIOUS
<1>5. \A y \in s : y <= x
  <2> SUFFICES ASSUME NEW y \in s PROVE y <= x
    OBVIOUS
  <2>1. n - y \in Nat
    OBVIOUS
  <2>2. n - y \in below
    BY <2>1
  <2>3. ~ (n - y < n - x)
    BY <2>2, <1>3, <1>4
  <2> QED
    BY <2>3
<1>6. \A y \in s : x >= y
  BY <1>5
<1>7. x \in s /\ \A y \in s : x >= y
  BY <1>6
<1>8. Max(s) \in s /\ \A y \in s : Max(s) >= y
  BY <1>7 DEF Max
<1> QED
  BY <1>8

LEMMA SeqDomain ==
  ASSUME NEW S, NEW input \in Seq(S)
  PROVE  DOMAIN input = 1..Len(input) /\ Len(input) \in Nat /\ IsFiniteSet(DOMAIN input)
  BY FS_Interval

LEMMA AppendItems ==
  ASSUME NEW S, NEW a \in Seq(S), NEW v \in S
  PROVE  /\ Append(a, v) \in Seq(S) /\ Len(a) \in Nat /\ Len(Append(a, v)) = Len(a) + 1
         /\ \A k \in 1..Len(a) : Append(a, v)[k] = a[k]
         /\ Append(a, v)[Len(a) + 1] = v
  OBVIOUS

LEMMA LastOfInterval ==
  ASSUME NEW i \in Nat \ {0} PROVE Max(1..i) = i
<1>1. 1..i # {} /\ i \in 1..i
  OBVIOUS
<1>2. Max(1..i) \in 1..i /\ i <= Max(1..i)
  BY <1>1, LargestExists
<1> QED
  BY <1>2

LEMMA SmallerPrefix ==
  ASSUME NEW input \in Seq(Int), NEW n \in Nat, NEW s \in UpTo(input, n + 1), s # {}
  PROVE  s \ {Max(s)} \in UpTo(input, n) /\ Max(s) \in DOMAIN input
<1>1. IsFiniteSet(s) /\ Cardinality(s) <= n + 1 /\ s \subseteq DOMAIN input
  BY DEF UpTo
<1>2. Max(s) \in s
  BY <1>1, SeqDomain, LargestExists
<1>3. IsFiniteSet(s \ {Max(s)}) /\ Cardinality(s \ {Max(s)}) = Cardinality(s) - 1
  BY <1>1, <1>2, FS_RemoveElement
<1>4. Cardinality(s) \in Nat
  BY <1>1, FS_CardinalityType
<1> QED
  BY <1>1, <1>2, <1>3, <1>4 DEF UpTo


\* What the next sample appends to the rings, or to the shelf's states.
RingsAdd(ring, input, g, s) ==
  IF s = {} THEN <<ring>>
  ELSE Append(g[s \ {Max(s)}], Pushed(Last(g[s \ {Max(s)}]), input[Max(s)]))
RingsOf(ring, input) ==
  CHOOSE g : g = [s \in SUBSET DOMAIN input |-> RingsAdd(ring, input, g, s)]

LEMMA PushesAreRings ==
  ASSUME NEW ring, NEW input
  PROVE  Pushes(ring, input) = RingsOf(ring, input)[DOMAIN input]
  BY DEF Pushes, FoldLeft, MapThenFoldSet, RingsOf, RingsAdd

LEMMA PartialRings ==
  ASSUME NEW ring, NEW input \in Seq(Int), NEW n \in Nat
  PROVE  \E g : g = [s \in UpTo(input, n) |-> RingsAdd(ring, input, g, s)]
<1> DEFINE T == {m \in Nat : \E g : g = [s \in UpTo(input, m) |-> RingsAdd(ring, input, g, s)]}
<1>1. 0 \in T
  <2>1. \A s \in UpTo(input, 0) : s = {}
    BY EmptyUpTo
  <2>2. \A g : \A s \in UpTo(input, 0) : RingsAdd(ring, input, g, s) = <<ring>>
    BY <2>1 DEF RingsAdd
  <2>3. PICK g : g = [s \in UpTo(input, 0) |-> <<ring>>]
    OBVIOUS
  <2>4. g = [s \in UpTo(input, 0) |-> RingsAdd(ring, input, g, s)]
    BY <2>2, <2>3
  <2> QED
    BY <2>4
<1>2. ASSUME NEW m \in T PROVE m + 1 \in T
  <2>1. PICK g : g = [s \in UpTo(input, m) |-> RingsAdd(ring, input, g, s)]
    OBVIOUS
  <2>2. PICK h : h = [s \in UpTo(input, m + 1) |-> RingsAdd(ring, input, g, s)]
    OBVIOUS
  <2>3. UpTo(input, m) \subseteq UpTo(input, m + 1)
    BY UpToGrows
  <2>4. \A s \in UpTo(input, m) : h[s] = g[s]
    BY <2>1, <2>2, <2>3, Zenon
  <2>5. ASSUME NEW s \in UpTo(input, m + 1)
        PROVE  RingsAdd(ring, input, g, s) = RingsAdd(ring, input, h, s)
    BY <2>4, SmallerPrefix DEF RingsAdd
  <2>6. h = [s \in UpTo(input, m + 1) |-> RingsAdd(ring, input, h, s)]
    BY <2>2, <2>5
  <2> QED
    BY <2>6
<1>3. T = Nat
  BY <1>1, <1>2, NatSetInduction
<1> QED
  BY <1>3

LEMMA RingsOfDef ==
  ASSUME NEW ring, NEW input \in Seq(Int)
  PROVE  \A s \in SUBSET DOMAIN input : RingsOf(ring, input)[s] = RingsAdd(ring, input, RingsOf(ring, input), s)
<1>1. IsFiniteSet(DOMAIN input)
  BY SeqDomain
<1>2. PICK n \in Nat : n = Cardinality(DOMAIN input)
  BY <1>1, FS_CardinalityType
<1>3. UpTo(input, n) = SUBSET DOMAIN input
  BY <1>1, <1>2, WholeUpTo
<1>4. \E g : g = [s \in SUBSET DOMAIN input |-> RingsAdd(ring, input, g, s)]
  <2>1. PICK g : g = [s \in UpTo(input, n) |-> RingsAdd(ring, input, g, s)]
    BY PartialRings
  <2> QED
    BY ONLY <1>3, <2>1
<1>5. RingsOf(ring, input) = [s \in SUBSET DOMAIN input |-> RingsAdd(ring, input, RingsOf(ring, input), s)]
  BY <1>4 DEF RingsOf
<1> QED
  BY <1>5, Zenon

\* A ring of len samples.
RingType(len) == [history : [1..len -> Int], pos : 1..len]

LEMMA PushedTyped ==
  ASSUME NEW len \in Nat \ {0}, NEW ring \in RingType(len), NEW x \in Int
  PROVE  Pushed(ring, x) \in RingType(len) /\ Len(ring.history) = len
<1>1. ring.history \in [1..len -> Int] /\ ring.pos \in 1..len
  BY DEF RingType
<1>2. Len(ring.history) = len
  BY <1>1
<1>3. [ring.history EXCEPT ![ring.pos] = x] \in [1..len -> Int]
  BY <1>1
<1>4. (IF ring.pos = len THEN 1 ELSE ring.pos + 1) \in 1..len
  BY <1>1
<1> QED
  BY <1>2, <1>3, <1>4 DEF Pushed, RingType

LEMMA PushesStep ==
  ASSUME NEW len \in Nat \ {0}, NEW ring \in RingType(len), NEW input \in Seq(Int)
  PROVE  /\ Pushes(ring, input) \in Seq(RingType(len))
         /\ Len(Pushes(ring, input)) = Len(input) + 1
         /\ Pushes(ring, input)[1] = ring
         /\ \A i \in 1..Len(input) :
              Pushes(ring, input)[i + 1] = Pushed(Pushes(ring, input)[i], input[i])
<1> DEFINE g == RingsOf(ring, input)
           P(i) == g[1..i]
           Right(i) == /\ P(i) \in Seq(RingType(len)) /\ Len(P(i)) = i + 1 /\ P(i)[1] = ring
                       /\ \A k \in 1..i : P(i)[k + 1] = Pushed(P(i)[k], input[k])
           T == {i \in Nat : i <= Len(input) => Right(i)}
<1>0. DOMAIN input = 1..Len(input) /\ Len(input) \in Nat
  BY SeqDomain
<1>1. \A s \in SUBSET DOMAIN input : g[s] = RingsAdd(ring, input, g, s)
  BY RingsOfDef
<1> HIDE DEF g
<1>2. 0 \in T
  <2>1. 1..0 = {} /\ {} \in SUBSET DOMAIN input
    OBVIOUS
  <2>2. g[{}] = <<ring>>
    BY <1>1, <2>1 DEF RingsAdd
  <2>3. P(0) = <<ring>>
    BY <2>1, <2>2
  <2>4. Right(0)
    BY <2>3
  <2> QED
    BY <2>4
<1>3. ASSUME NEW i \in T PROVE i + 1 \in T
  <2> SUFFICES ASSUME i + 1 <= Len(input) PROVE Right(i + 1)
    OBVIOUS
  <2>1. i \in Nat /\ i <= Len(input) /\ i + 1 \in 1..Len(input)
    BY <1>0
  <2>2. Right(i)
    BY <2>1
  <2>3. 1..(i + 1) \in SUBSET DOMAIN input /\ 1..(i + 1) # {}
    BY <1>0, <2>1
  <2>4. Max(1..(i + 1)) = i + 1
    BY <2>1, LastOfInterval
  <2>5. (1..(i + 1)) \ {i + 1} = 1..i
    BY <2>1
  <2>6. P(i + 1) = Append(P(i), Pushed(Last(P(i)), input[i + 1]))
    BY <1>1, <2>3, <2>4, <2>5 DEF RingsAdd
  <2> HIDE DEF P
  <2>7. Last(P(i)) = P(i)[i + 1] /\ P(i)[i + 1] \in RingType(len)
    BY <2>1, <2>2 DEF Last
  <2>8. PICK v \in RingType(len) : v = Pushed(P(i)[i + 1], input[i + 1])
    <3>1. input[i + 1] \in Int
      BY <2>1
    <3> QED
      BY <2>7, <3>1, PushedTyped
  <2>9. P(i + 1) = Append(P(i), v)
    BY <2>6, <2>7, <2>8
  <2>10. /\ P(i + 1) \in Seq(RingType(len)) /\ Len(P(i + 1)) = i + 2
         /\ \A k \in 1..(i + 1) : P(i + 1)[k] = P(i)[k]
         /\ P(i + 1)[i + 2] = v
    <3>1. /\ Append(P(i), v) \in Seq(RingType(len)) /\ Len(Append(P(i), v)) = Len(P(i)) + 1
          /\ \A k \in 1..Len(P(i)) : Append(P(i), v)[k] = P(i)[k]
          /\ Append(P(i), v)[Len(P(i)) + 1] = v
      BY ONLY <2>2, v \in RingType(len), AppendItems
    <3>2. Len(P(i)) = i + 1
      BY ONLY <2>2
    <3>3. (i + 1) + 1 = i + 2
      BY ONLY <2>1
    <3> QED
      BY ONLY <3>1, <3>2, <3>3, <2>9
  <2>11. ASSUME NEW k \in 1..(i + 1)
         PROVE  P(i + 1)[k + 1] = Pushed(P(i + 1)[k], input[k])
    <3>1. CASE k = i + 1
      BY ONLY <3>1, <2>1, <2>8, <2>10
    <3>2. CASE k # i + 1
      <4>1. k \in 1..i /\ k + 1 \in 1..(i + 1)
        BY <3>2, <2>1
      <4> QED
        BY ONLY <4>1, <2>2, <2>10
    <3> QED
      BY <3>1, <3>2
  <2>12. 1 \in 1..(i + 1)
    BY <2>1
  <2> QED
    BY <2>1, <2>2, <2>10, <2>11, <2>12
<1>4. T = Nat
  BY <1>2, <1>3, NatSetInduction
<1>5. Right(Len(input))
  <2>1. \A i \in T : i <= Len(input) => Right(i)
    OBVIOUS
  <2> HIDE DEF Right
  <2> QED
    BY ONLY <1>0, <1>4, <2>1
<1>6. Pushes(ring, input) = P(Len(input))
  <2>1. Pushes(ring, input) = g[DOMAIN input]
    BY PushesAreRings DEF g
  <2> QED
    BY ONLY <2>1, <1>0
<1> HIDE DEF P
<1> QED
  BY ONLY <1>5, <1>6

StatesAdd(q, c, input, g, s) ==
  IF s = {} THEN <<q>>
  ELSE Append(g[s \ {Max(s)}], StepState(Last(g[s \ {Max(s)}]), c, input[Max(s)]))
StatesOf(q, c, input) ==
  CHOOSE g : g = [s \in SUBSET DOMAIN input |-> StatesAdd(q, c, input, g, s)]

LEMMA StepsAreStates ==
  ASSUME NEW q, NEW c, NEW input
  PROVE  Steps(q, c, input) = StatesOf(q, c, input)[DOMAIN input]
  BY DEF Steps, FoldLeft, MapThenFoldSet, StatesOf, StatesAdd

LEMMA PartialStates ==
  ASSUME NEW q, NEW c, NEW input \in Seq(Int), NEW n \in Nat
  PROVE  \E g : g = [s \in UpTo(input, n) |-> StatesAdd(q, c, input, g, s)]
<1> DEFINE T == {m \in Nat : \E g : g = [s \in UpTo(input, m) |-> StatesAdd(q, c, input, g, s)]}
<1>1. 0 \in T
  <2>1. \A s \in UpTo(input, 0) : s = {}
    BY EmptyUpTo
  <2>2. \A g : \A s \in UpTo(input, 0) : StatesAdd(q, c, input, g, s) = <<q>>
    BY <2>1 DEF StatesAdd
  <2>3. PICK g : g = [s \in UpTo(input, 0) |-> <<q>>]
    OBVIOUS
  <2>4. g = [s \in UpTo(input, 0) |-> StatesAdd(q, c, input, g, s)]
    BY <2>2, <2>3
  <2> QED
    BY <2>4
<1>2. ASSUME NEW m \in T PROVE m + 1 \in T
  <2>1. PICK g : g = [s \in UpTo(input, m) |-> StatesAdd(q, c, input, g, s)]
    OBVIOUS
  <2>2. PICK h : h = [s \in UpTo(input, m + 1) |-> StatesAdd(q, c, input, g, s)]
    OBVIOUS
  <2>3. UpTo(input, m) \subseteq UpTo(input, m + 1)
    BY UpToGrows
  <2>4. \A s \in UpTo(input, m) : h[s] = g[s]
    BY <2>1, <2>2, <2>3, Zenon
  <2>5. ASSUME NEW s \in UpTo(input, m + 1)
        PROVE  StatesAdd(q, c, input, g, s) = StatesAdd(q, c, input, h, s)
    BY <2>4, SmallerPrefix DEF StatesAdd
  <2>6. h = [s \in UpTo(input, m + 1) |-> StatesAdd(q, c, input, h, s)]
    BY <2>2, <2>5
  <2> QED
    BY <2>6
<1>3. T = Nat
  BY <1>1, <1>2, NatSetInduction
<1> QED
  BY <1>3

LEMMA StatesOfDef ==
  ASSUME NEW q, NEW c, NEW input \in Seq(Int)
  PROVE  \A s \in SUBSET DOMAIN input : StatesOf(q, c, input)[s] = StatesAdd(q, c, input, StatesOf(q, c, input), s)
<1>1. IsFiniteSet(DOMAIN input)
  BY SeqDomain
<1>2. PICK n \in Nat : n = Cardinality(DOMAIN input)
  BY <1>1, FS_CardinalityType
<1>3. UpTo(input, n) = SUBSET DOMAIN input
  BY <1>1, <1>2, WholeUpTo
<1>4. \E g : g = [s \in SUBSET DOMAIN input |-> StatesAdd(q, c, input, g, s)]
  <2>1. PICK g : g = [s \in UpTo(input, n) |-> StatesAdd(q, c, input, g, s)]
    BY PartialStates, ZenonT(60)
  <2> QED
    BY ONLY <1>3, <2>1
<1>5. StatesOf(q, c, input) = [s \in SUBSET DOMAIN input |-> StatesAdd(q, c, input, StatesOf(q, c, input), s)]
  BY <1>4 DEF StatesOf
<1> QED
  BY <1>5, Zenon

Coefficients == [b0 : Int, b1 : Int, b2 : Int, a1 : Int, a2 : Int]
StateType == [z1 : Int, z2 : Int]

LEMMA StepTyped ==
  ASSUME NEW c \in Coefficients, NEW q \in StateType, NEW x \in Int
  PROVE  StepState(q, c, x) \in StateType /\ Stepped(q, c, x) \in Int
  BY DEF StepState, Stepped, StateType, Coefficients

LEMMA StepsStep ==
  ASSUME NEW c \in Coefficients, NEW q \in StateType, NEW input \in Seq(Int)
  PROVE  /\ Steps(q, c, input) \in Seq(StateType)
         /\ Len(Steps(q, c, input)) = Len(input) + 1
         /\ Steps(q, c, input)[1] = q
         /\ \A i \in 1..Len(input) :
              Steps(q, c, input)[i + 1] = StepState(Steps(q, c, input)[i], c, input[i])
<1> DEFINE g == StatesOf(q, c, input)
           P(i) == g[1..i]
           Right(i) == /\ P(i) \in Seq(StateType) /\ Len(P(i)) = i + 1 /\ P(i)[1] = q
                       /\ \A k \in 1..i : P(i)[k + 1] = StepState(P(i)[k], c, input[k])
           T == {i \in Nat : i <= Len(input) => Right(i)}
<1>0. DOMAIN input = 1..Len(input) /\ Len(input) \in Nat
  BY SeqDomain
<1>1. \A s \in SUBSET DOMAIN input : g[s] = StatesAdd(q, c, input, g, s)
  BY StatesOfDef
<1> HIDE DEF g
<1>2. 0 \in T
  <2>1. 1..0 = {} /\ {} \in SUBSET DOMAIN input
    OBVIOUS
  <2>2. g[{}] = <<q>>
    BY <1>1, <2>1 DEF StatesAdd
  <2>3. P(0) = <<q>>
    BY <2>1, <2>2
  <2>4. Right(0)
    BY <2>3
  <2> QED
    BY <2>4
<1>3. ASSUME NEW i \in T PROVE i + 1 \in T
  <2> SUFFICES ASSUME i + 1 <= Len(input) PROVE Right(i + 1)
    OBVIOUS
  <2>1. i \in Nat /\ i <= Len(input) /\ i + 1 \in 1..Len(input)
    BY <1>0
  <2>2. Right(i)
    BY <2>1
  <2>3. 1..(i + 1) \in SUBSET DOMAIN input /\ 1..(i + 1) # {}
    BY <1>0, <2>1
  <2>4. Max(1..(i + 1)) = i + 1
    BY <2>1, LastOfInterval
  <2>5. (1..(i + 1)) \ {i + 1} = 1..i
    BY <2>1
  <2>6. P(i + 1) = Append(P(i), StepState(Last(P(i)), c, input[i + 1]))
    BY <1>1, <2>3, <2>4, <2>5 DEF StatesAdd
  <2> HIDE DEF P
  <2>7. Last(P(i)) = P(i)[i + 1] /\ P(i)[i + 1] \in StateType
    BY <2>1, <2>2 DEF Last
  <2>8. PICK v \in StateType : v = StepState(P(i)[i + 1], c, input[i + 1])
    <3>1. input[i + 1] \in Int
      BY <2>1
    <3> QED
      BY <2>7, <3>1, StepTyped
  <2>9. P(i + 1) = Append(P(i), v)
    BY <2>6, <2>7, <2>8
  <2>10. /\ P(i + 1) \in Seq(StateType) /\ Len(P(i + 1)) = i + 2
         /\ \A k \in 1..(i + 1) : P(i + 1)[k] = P(i)[k]
         /\ P(i + 1)[i + 2] = v
    <3>1. /\ Append(P(i), v) \in Seq(StateType) /\ Len(Append(P(i), v)) = Len(P(i)) + 1
          /\ \A k \in 1..Len(P(i)) : Append(P(i), v)[k] = P(i)[k]
          /\ Append(P(i), v)[Len(P(i)) + 1] = v
      BY ONLY <2>2, v \in StateType, AppendItems
    <3>2. Len(P(i)) = i + 1
      BY ONLY <2>2
    <3>3. (i + 1) + 1 = i + 2
      BY ONLY <2>1
    <3> QED
      BY ONLY <3>1, <3>2, <3>3, <2>9
  <2>11. ASSUME NEW k \in 1..(i + 1)
         PROVE  P(i + 1)[k + 1] = StepState(P(i + 1)[k], c, input[k])
    <3>1. CASE k = i + 1
      BY ONLY <3>1, <2>1, <2>8, <2>10
    <3>2. CASE k # i + 1
      <4>1. k \in 1..i /\ k + 1 \in 1..(i + 1)
        BY <3>2, <2>1
      <4> QED
        BY ONLY <4>1, <2>2, <2>10
    <3> QED
      BY <3>1, <3>2
  <2>12. 1 \in 1..(i + 1)
    BY <2>1
  <2> QED
    BY <2>1, <2>2, <2>10, <2>11, <2>12
<1>4. T = Nat
  BY <1>2, <1>3, NatSetInduction
<1>5. Right(Len(input))
  <2>1. \A i \in T : i <= Len(input) => Right(i)
    OBVIOUS
  <2> HIDE DEF Right
  <2> QED
    BY ONLY <1>0, <1>4, <2>1
<1>6. Steps(q, c, input) = P(Len(input))
  <2>1. Steps(q, c, input) = g[DOMAIN input]
    BY StepsAreStates DEF g
  <2> QED
    BY ONLY <2>1, <1>0
<1> HIDE DEF P
<1> QED
  BY ONLY <1>5, <1>6

-----------------------------------------------------------------------------
(* Arithmetic.                                                             *)

LEMMA ModBelow ==
  ASSUME NEW m \in Nat \ {0}, NEW x \in Int, 0 <= x, x < m
  PROVE  x % m = x
  OBVIOUS

LEMMA ModRaised ==
  ASSUME NEW m \in Nat \ {0}, NEW x \in Int, 0 - m <= x, x < 0
  PROVE  x % m = x + m
  OBVIOUS

LEMMA ModWraps ==
  ASSUME NEW c \in Nat \ {0}, NEW x \in Int, c <= x, x < c + c
  PROVE  x % c = x - c
  OBVIOUS

LEMMA DivMod ==
  ASSUME NEW m \in Nat \ {0}, NEW q \in Int, NEW r \in 0..(m - 1)
  PROVE  (q * m + r) \div m = q /\ (q * m + r) % m = r
  OBVIOUS

LEMMA Parts ==
  ASSUME NEW a \in Int, NEW m \in Nat \ {0}
  PROVE  a \div m \in Int /\ a % m \in 0..(m - 1)
  OBVIOUS

LEMMA Euclid ==
  ASSUME NEW a \in Int, NEW m \in Nat \ {0}
  PROVE  a = (a \div m) * m + (a % m)
  OBVIOUS
LEMMA Monotone ==
  ASSUME NEW a \in Nat, NEW b \in Nat, NEW c \in Nat, a <= b
  PROVE  a * c <= b * c
  OBVIOUS

LEMMA Cancels ==
  ASSUME NEW a \in Int, NEW b \in Int, NEW c \in Nat \ {0}, a * c <= b * c
  PROVE  a <= b
  OBVIOUS

LEMMA DivBelow ==
  ASSUME NEW a \in Nat, NEW c \in Nat \ {0}
  PROVE  a \div c \in Nat /\ (a \div c) * c <= a
  OBVIOUS

LEMMA Fits ==
  ASSUME NEW a \in Nat, NEW b \in Nat, NEW c \in Nat \ {0}, a * c <= b
  PROVE  a <= b \div c
  OBVIOUS

LEMMA QuotientBelow ==
  ASSUME NEW a \in Nat, NEW b \in Nat, NEW c \in Nat \ {0}, a * c < b * c
  PROVE  a < b
  OBVIOUS

LEMMA FunctionAsSeq ==
  ASSUME NEW S, NEW n \in Nat, NEW f, f = [i \in 1..n |-> f[i]], \A i \in 1..n : f[i] \in S
  PROVE  f \in Seq(S) /\ Len(f) = n /\ DOMAIN f = 1..n
<1>1. f \in [1..n -> S]
  OBVIOUS
<1> QED
  BY ONLY <1>1, n \in Nat

-----------------------------------------------------------------------------
(* A ring buffer holds the newest samples of all that went through it.     *)

\* Where the sample k before the newest is kept.
Place(pos, len, k) == 1 + ((pos - 2 - k) % len)

LEMMA PlaceInRing ==
  ASSUME NEW len \in Nat \ {0}, NEW pos \in Int, NEW k \in Int
  PROVE  Place(pos, len, k) \in 1..len
<1>1. pos - 2 - k \in Int
  OBVIOUS
<1>2. (pos - 2 - k) % len \in 0..(len - 1)
  BY ONLY <1>1, len \in Nat \ {0}, Parts
<1> QED
  BY <1>2 DEF Place

\* A sample goes to the place of the oldest, and moves the others one back.
LEMMA PlacesMove ==
  ASSUME NEW len \in Nat \ {0}, NEW pos \in 1..len, NEW next \in 1..len,
         next = IF pos = len THEN 1 ELSE pos + 1
  PROVE  /\ Place(next, len, 0) = pos
         /\ \A k \in 1..(len - 1) :
              Place(next, len, k) = Place(pos, len, k - 1) /\ Place(next, len, k) # pos
<1>1. CASE pos = len
  <2>1. next = 1
    BY <1>1
  <2>2. (0 - 1) % len = len - 1
    <3>1. 0 - len <= 0 - 1 /\ 0 - 1 < 0 /\ 0 - 1 \in Int
      OBVIOUS
    <3>2. (0 - 1) % len = (0 - 1) + len
      BY ONLY <3>1, len \in Nat \ {0}, ModRaised
    <3> QED
      BY <3>2
  <2>3. next - 2 - 0 = 0 - 1
    BY <2>1
  <2>4. Place(next, len, 0) = pos
    BY <2>2, <2>3, <1>1 DEF Place
  <2>5. ASSUME NEW k \in 1..(len - 1)
        PROVE  Place(next, len, k) = Place(pos, len, k - 1) /\ Place(next, len, k) # pos
    <3>1. next - 2 - k = 0 - 1 - k /\ pos - 2 - (k - 1) = len - 1 - k
      BY <2>1, <1>1
    <3>2. (0 - 1 - k) % len = len - 1 - k
      <4>1. 0 - len <= 0 - 1 - k /\ 0 - 1 - k < 0 /\ 0 - 1 - k \in Int
        OBVIOUS
      <4>2. (0 - 1 - k) % len = (0 - 1 - k) + len
        BY ONLY <4>1, len \in Nat \ {0}, ModRaised
      <4> QED
        BY <4>2
    <3>3. (len - 1 - k) % len = len - 1 - k
      <4>1. 0 <= len - 1 - k /\ len - 1 - k < len /\ len - 1 - k \in Int
        OBVIOUS
      <4> QED
        BY ONLY <4>1, len \in Nat \ {0}, ModBelow
    <3>4. Place(next, len, k) = 1 + (len - 1 - k) /\ Place(pos, len, k - 1) = 1 + (len - 1 - k)
      BY <3>1, <3>2, <3>3 DEF Place
    <3> QED
      BY <3>4, <1>1
  <2> QED
    BY <2>4, <2>5
<1>2. CASE pos # len
  <2>1. next = pos + 1
    BY <1>2
  <2>2. Place(next, len, 0) = pos
    <3>1. next - 2 - 0 = pos - 1 /\ 0 <= pos - 1 /\ pos - 1 < len /\ pos - 1 \in Int
      BY <2>1
    <3>2. (pos - 1) % len = pos - 1
      BY ONLY <3>1, len \in Nat \ {0}, ModBelow
    <3> QED
      BY <3>1, <3>2 DEF Place
  <2>3. ASSUME NEW k \in 1..(len - 1)
        PROVE  Place(next, len, k) = Place(pos, len, k - 1) /\ Place(next, len, k) # pos
    <3>1. next - 2 - k = pos - 1 - k /\ pos - 2 - (k - 1) = pos - 1 - k /\ pos - 1 - k \in Int
      BY <2>1
    <3>2. Place(next, len, k) = 1 + ((pos - 1 - k) % len)
          /\ Place(pos, len, k - 1) = 1 + ((pos - 1 - k) % len)
      BY <3>1 DEF Place
    <3>3. (pos - 1 - k) % len # pos - 1
      <4>1. CASE 0 <= pos - 1 - k
        <5>1. pos - 1 - k < len
          OBVIOUS
        <5>2. (pos - 1 - k) % len = pos - 1 - k
          BY ONLY <3>1, <4>1, <5>1, len \in Nat \ {0}, ModBelow
        <5> QED
          BY <5>2
      <4>2. CASE pos - 1 - k < 0
        <5>1. 0 - len <= pos - 1 - k
          OBVIOUS
        <5>2. (pos - 1 - k) % len = (pos - 1 - k) + len
          BY ONLY <3>1, <4>2, <5>1, len \in Nat \ {0}, ModRaised
        <5> QED
          BY <5>2
      <4> QED
        BY <3>1, <4>1, <4>2
    <3>4. (pos - 1 - k) % len \in Int
      BY ONLY <3>1, len \in Nat \ {0}, Parts
    <3> QED
      BY <3>2, <3>3, <3>4
  <2> QED
    BY <2>2, <2>3
<1> QED
  BY <1>1, <1>2

\* After the first n samples of x.
Hears(ring, len, x, n) == \A k \in 0..(len - 1) : Back(ring, k) = Past(x, n - k)

LEMMA BackIsAtPlace ==
  ASSUME NEW len \in Nat \ {0}, NEW ring \in RingType(len), NEW k
  PROVE  Back(ring, k) = ring.history[Place(ring.pos, len, k)]
<1>1. ring.history \in [1..len -> Int]
  BY DEF RingType
<1>2. Len(ring.history) = len
  BY <1>1
<1> QED
  BY <1>2 DEF Back, Place

LEMMA EmptyRingHearsSilence ==
  ASSUME NEW len \in Nat \ {0}
  PROVE  Ring(len) \in RingType(len) /\ Hears(Ring(len), len, <<>>, 0)
<1>1. Ring(len) \in RingType(len)
  BY DEF Ring, RingType
<1>2. ASSUME NEW k \in 0..(len - 1) PROVE Back(Ring(len), k) = Past(<<>>, 0 - k)
  <2>1. Place(1, len, k) \in 1..len
    BY PlaceInRing
  <2>2. Back(Ring(len), k) = Ring(len).history[Place(Ring(len).pos, len, k)]
    BY <1>1, BackIsAtPlace
  <2>3. Back(Ring(len), k) = 0
    BY <2>1, <2>2 DEF Ring
  <2> QED
    BY <2>3 DEF Past
<1> QED
  BY <1>1, <1>2 DEF Hears

LEMMA PushHears ==
  ASSUME NEW len \in Nat \ {0}, NEW ring \in RingType(len), NEW x, NEW n \in Nat,
         n + 1 \in DOMAIN x, x[n + 1] \in Int, Hears(ring, len, x, n)
  PROVE  Hears(Pushed(ring, x[n + 1]), len, x, n + 1)
<1> DEFINE new == Pushed(ring, x[n + 1])
<1>1. new \in RingType(len) /\ Len(ring.history) = len
  BY PushedTyped
<1>2. ring.history \in [1..len -> Int] /\ ring.pos \in 1..len
  BY DEF RingType
<1>3. /\ new.pos = IF ring.pos = len THEN 1 ELSE ring.pos + 1
      /\ new.pos \in 1..len
      /\ new.history[ring.pos] = x[n + 1]
      /\ \A p \in 1..len : p # ring.pos => new.history[p] = ring.history[p]
  BY <1>1, <1>2 DEF Pushed
<1> HIDE DEF new
<1>4. /\ Place(new.pos, len, 0) = ring.pos
      /\ \A k \in 1..(len - 1) : /\ Place(new.pos, len, k) = Place(ring.pos, len, k - 1)
                                 /\ Place(new.pos, len, k) # ring.pos
  <2>1. PICK pos \in 1..len : pos = ring.pos
    BY ONLY <1>2
  <2>2. PICK next \in 1..len : next = new.pos /\ next = IF pos = len THEN 1 ELSE pos + 1
    BY ONLY <1>3, <2>1
  <2>3. /\ Place(next, len, 0) = pos
        /\ \A k \in 1..(len - 1) : Place(next, len, k) = Place(pos, len, k - 1) /\ Place(next, len, k) # pos
    BY ONLY <2>2, len \in Nat \ {0}, pos \in 1..len, next \in 1..len, PlacesMove
  <2> QED
    BY ONLY <2>1, <2>2, <2>3
<1>5. ASSUME NEW k \in 0..(len - 1) PROVE Back(new, k) = Past(x, n + 1 - k)
  <2>1. Back(new, k) = new.history[Place(new.pos, len, k)]
    BY ONLY <1>1, len \in Nat \ {0}, BackIsAtPlace
  <2>2. CASE k = 0
    <3>1. n + 1 - k = n + 1
      BY <2>2
    <3>2. Back(new, k) = x[n + 1]
      BY ONLY <2>1, <2>2, <1>3, <1>4
    <3> QED
      BY <3>1, <3>2 DEF Past
  <2>3. CASE k # 0
    <3>1. k \in 1..(len - 1) /\ k - 1 \in 0..(len - 1) /\ n + 1 - k = n - (k - 1)
      BY <2>3
    <3>2. Place(new.pos, len, k) \in 1..len
      <4>1. new.pos \in Int /\ k \in Int
        BY ONLY <1>3, <3>1, len \in Nat \ {0}
      <4> QED
        BY ONLY <4>1, len \in Nat \ {0}, PlaceInRing
    <3>3. Back(new, k) = ring.history[Place(ring.pos, len, k - 1)]
      BY ONLY <2>1, <3>1, <3>2, <1>3, <1>4
    <3>4. Back(ring, k - 1) = ring.history[Place(ring.pos, len, k - 1)]
      BY BackIsAtPlace
    <3>5. Back(ring, k - 1) = Past(x, n - (k - 1))
      BY <3>1 DEF Hears
    <3> QED
      BY <3>1, <3>3, <3>4, <3>5
  <2> QED
    BY <2>2, <2>3
<1> QED
  BY <1>5 DEF Hears, new

\* Samples behind the first n do not matter to a ring that heard n.
LEMMA HeardBefore ==
  ASSUME NEW len, NEW ring, NEW x \in Seq(Int), NEW y \in Seq(Int), len \in Nat \ {0},
         Hears(ring, len, x, Len(x))
  PROVE  Hears(ring, len, x \o y, Len(x))
<1>1. ASSUME NEW k \in 0..(len - 1) PROVE Past(x, Len(x) - k) = Past(x \o y, Len(x) - k)
  BY DEF Past
<1> QED
  BY <1>1 DEF Hears

\* Over a block y behind what was heard, x.
LEMMA PushesHear ==
  ASSUME NEW len \in Nat \ {0}, NEW ring \in RingType(len), NEW x \in Seq(Int), NEW y \in Seq(Int),
         Hears(ring, len, x, Len(x)),
         NEW R, R = Pushes(ring, y), NEW z, z = x \o y
  PROVE  /\ \A i \in 0..Len(y) : R[i + 1] \in RingType(len) /\ Hears(R[i + 1], len, z, Len(x) + i)
         /\ Last(R) \in RingType(len) /\ Hears(Last(R), len, z, Len(z))
<1> DEFINE T == {i \in Nat : i <= Len(y) => Hears(R[i + 1], len, z, Len(x) + i)}
<1>0. /\ Len(x) \in Nat /\ Len(y) \in Nat /\ z \in Seq(Int) /\ Len(z) = Len(x) + Len(y)
      /\ \A i \in 1..Len(y) : z[Len(x) + i] = y[i] /\ y[i] \in Int
  OBVIOUS
<1>1. /\ R \in Seq(RingType(len)) /\ Len(R) = Len(y) + 1 /\ R[1] = ring
      /\ \A i \in 1..Len(y) : R[i + 1] = Pushed(R[i], y[i])
  BY PushesStep
<1>2. \A i \in 0..Len(y) : R[i + 1] \in RingType(len)
  <2>1. \A i \in 0..Len(y) : i + 1 \in 1..(Len(y) + 1)
    BY <1>0
  <2> QED
    BY <2>1, <1>0, <1>1
<1>3. Hears(ring, len, z, Len(x))
  BY HeardBefore
<1>4. 0 \in T
  BY <1>0, <1>1, <1>3
<1>5. ASSUME NEW i \in T PROVE i + 1 \in T
  <2> SUFFICES ASSUME i + 1 <= Len(y) PROVE Hears(R[(i + 1) + 1], len, z, Len(x) + (i + 1))
    OBVIOUS
  <2>1. i \in Nat /\ i <= Len(y) /\ i + 1 \in 1..Len(y) /\ i \in 0..Len(y)
    BY <1>0
  <2>2. Hears(R[i + 1], len, z, Len(x) + i)
    BY <2>1
  <2>3. R[i + 1] \in RingType(len) /\ R[(i + 1) + 1] = Pushed(R[i + 1], y[i + 1])
    BY <2>1, <1>1, <1>2
  <2>4. /\ Len(x) + i \in Nat /\ (Len(x) + i) + 1 = Len(x) + (i + 1)
        /\ (Len(x) + i) + 1 \in 1..Len(z)
    BY <2>1, <1>0
  <2>5. z[(Len(x) + i) + 1] = y[i + 1] /\ y[i + 1] \in Int
    BY <2>1, <2>4, <1>0
  <2>6. (Len(x) + i) + 1 \in DOMAIN z
    BY <2>4, <1>0
  <2>7. Hears(Pushed(R[i + 1], z[(Len(x) + i) + 1]), len, z, (Len(x) + i) + 1)
    <3> DEFINE n == Len(x) + i
    <3>1. n \in Nat /\ n + 1 \in DOMAIN z /\ z[n + 1] \in Int /\ Hears(R[i + 1], len, z, n)
      BY <2>2, <2>4, <2>5, <2>6
    <3> HIDE DEF n
    <3>2. Hears(Pushed(R[i + 1], z[n + 1]), len, z, n + 1)
      BY ONLY <3>1, <2>3, len \in Nat \ {0}, PushHears
    <3> QED
      BY <3>2 DEF n
  <2> QED
    BY <2>3, <2>4, <2>5, <2>7
<1>6. T = Nat
  BY <1>4, <1>5, NatSetInduction
<1>7. \A i \in 0..Len(y) : Hears(R[i + 1], len, z, Len(x) + i)
  <2> TAKE i \in 0..Len(y)
  <2>1. i \in Nat /\ i <= Len(y)
    BY <1>0
  <2>2. i \in T
    BY <2>1, <1>6
  <2> QED
    BY <2>1, <2>2
<1>8. Last(R) = R[Len(y) + 1] /\ Len(y) \in 0..Len(y)
  BY <1>0, <1>1 DEF Last
<1>9. Last(R) \in RingType(len)
  BY <1>2, <1>8
<1>10. Hears(Last(R), len, z, Len(z))
  BY ONLY <1>0, <1>7, <1>8
<1> QED
  BY ONLY <1>2, <1>7, <1>9, <1>10

-----------------------------------------------------------------------------
(* The two converters compute their kernels over the whole past.           *)

LEMMA ConvolvedTyped ==
  ASSUME NEW taps \in Seq(Int), NEW x \in Seq(Int), NEW n \in Int
  PROVE  Convolved(taps, x, n) \in Int
<1> DEFINE f == [k \in DOMAIN taps |-> taps[k] * Past(x, n - k + 1)]
<1>1. DOMAIN taps = 1..Len(taps) /\ Len(taps) \in Nat
  OBVIOUS
<1>2. \A k \in DOMAIN taps : taps[k] * Past(x, n - k + 1) \in Int
  BY DEF Past
<1>3. IsFiniteSet(DOMAIN taps)
  BY <1>1, FS_Interval
<1>4. DOMAIN f = DOMAIN taps /\ \A k \in DOMAIN f : f[k] \in Int
  BY <1>2
<1>5. Convolved(taps, x, n) = SumFunction(f)
  BY DEF Convolved
<1> HIDE DEF f
<1> QED
  BY <1>3, <1>4, <1>5, SumTyped

\* What comes later does not matter.
LEMMA ConvolvedBefore ==
  ASSUME NEW taps \in Seq(Int), NEW x \in Seq(Int), NEW y \in Seq(Int), NEW n \in Int, n <= Len(x)
  PROVE  Convolved(taps, x \o y, n) = Convolved(taps, x, n)
<1>1. DOMAIN taps = 1..Len(taps) /\ Len(taps) \in Nat
  OBVIOUS
<1>2. \A k \in DOMAIN taps : Past(x \o y, n - k + 1) = Past(x, n - k + 1)
  BY <1>1, SMTT(30) DEF Past
<1>3. [k \in DOMAIN taps |-> taps[k] * Past(x \o y, n - k + 1)]
        = [k \in DOMAIN taps |-> taps[k] * Past(x, n - k + 1)]
  BY <1>2
<1> QED
  BY <1>3 DEF Convolved

LEMMA ByOne ==
  ASSUME NEW a \in Int
  PROVE  a % 1 = 0 /\ a \div 1 = a
<1>1. (a * 1 + 0) \div 1 = a /\ (a * 1 + 0) % 1 = 0
  <2>1. 1 \in Nat \ {0} /\ 0 \in 0..(1 - 1)
    OBVIOUS
  <2> QED
    BY ONLY <2>1, a \in Int, DivMod
<1>2. a * 1 + 0 = a
  OBVIOUS
<1> QED
  BY <1>1, <1>2

LEMMA DotIsConvolved ==
  ASSUME NEW taps \in Seq(Int), NEW ring, NEW x \in Seq(Int), NEW n \in Int,
         Hears(ring, Len(taps), x, n)
  PROVE  Dot(ring, taps, 1, 1) = Convolved(taps, x, n)
<1>1. DOMAIN taps = 1..Len(taps) /\ Len(taps) \in Nat
  OBVIOUS
<1>2. ASSUME NEW k \in DOMAIN taps
      PROVE  (IF k >= 1 /\ (k - 1) % 1 = 0 THEN taps[k] * Back(ring, (k - 1) \div 1) ELSE 0)
               = taps[k] * Past(x, n - k + 1)
  <2>1. k \in Int /\ k >= 1 /\ k - 1 \in Int /\ k - 1 \in 0..(Len(taps) - 1) /\ n - (k - 1) = n - k + 1
    BY <1>1
  <2>2. (k - 1) % 1 = 0 /\ (k - 1) \div 1 = k - 1
    BY ONLY <2>1, ByOne
  <2>3. Back(ring, k - 1) = Past(x, n - (k - 1))
    BY <2>1 DEF Hears
  <2> QED
    BY ONLY <2>1, <2>2, <2>3
<1>3. [k \in DOMAIN taps |-> IF k >= 1 /\ (k - 1) % 1 = 0 THEN taps[k] * Back(ring, (k - 1) \div 1) ELSE 0]
        = [k \in DOMAIN taps |-> taps[k] * Past(x, n - k + 1)]
  BY <1>2
<1> QED
  BY <1>3 DEF Dot, Convolved

\* Behind x and with z heard, the ring that is left and the N outputs.
Outputs(d, taps, x, z, step, N) ==
  /\ d.ring \in RingType(Len(taps)) /\ Hears(d.ring, Len(taps), z, Len(z))
  /\ d.out \in Seq(Int) /\ Len(d.out) = N
  /\ \A n \in 1..N : d.out[n] = Convolved(taps, z, Len(x) + n * step)

LEMMA Decimated ==
  ASSUME NEW taps \in Seq(Int), taps # <<>>, NEW factor \in Nat \ {0},
         NEW ring \in RingType(Len(taps)), NEW x \in Seq(Int), NEW y \in Seq(Int),
         Hears(ring, Len(taps), x, Len(x)),
         NEW z, z = x \o y, NEW d, d = Decimate(taps, factor, ring, y),
         NEW N, N = Len(y) \div factor
  PROVE  Outputs(d, taps, x, z, factor, N)
<1>0. /\ Len(taps) \in Nat \ {0} /\ Len(x) \in Nat /\ Len(y) \in Nat
      /\ z \in Seq(Int)
  OBVIOUS
<1>1. PICK R : R = Pushes(ring, y)
  OBVIOUS
<1>2. /\ \A i \in 0..Len(y) : Hears(R[i + 1], Len(taps), z, Len(x) + i)
      /\ Last(R) \in RingType(Len(taps)) /\ Hears(Last(R), Len(taps), z, Len(z))
  BY <1>0, <1>1, PushesHear
<1>3. d = [ring |-> Last(R), out |-> [n \in 1..(Len(y) \div factor) |-> Dot(R[1 + n * factor], taps, 1, 1)]]
  BY <1>1 DEF Decimate
<1>4. N \in Nat /\ N = Len(y) \div factor /\ N * factor <= Len(y)
  BY <1>0, DivBelow
<1>5. ASSUME NEW n \in 1..N PROVE Dot(R[1 + n * factor], taps, 1, 1) = Convolved(taps, z, Len(x) + n * factor)
  <2>1. n * factor \in Nat /\ n * factor <= Len(y)
    <3>1. n \in Nat /\ n <= N /\ factor \in Nat
      OBVIOUS
    <3>2. n * factor <= N * factor
      BY ONLY <3>1, <1>4, Monotone
    <3>3. n * factor \in Nat /\ N * factor \in Nat
      BY ONLY <3>1, <1>4
    <3> QED
      BY ONLY <3>2, <3>3, <1>0, <1>4
  <2>2. PICK i \in 0..Len(y) : i = n * factor
    BY <2>1, <1>0
  <2>3. Hears(R[i + 1], Len(taps), z, Len(x) + i) /\ 1 + i = i + 1 /\ Len(x) + i \in Int
    BY <1>0, <1>2
  <2>4. Dot(R[i + 1], taps, 1, 1) = Convolved(taps, z, Len(x) + i)
    BY <2>3, <1>0, DotIsConvolved
  <2> QED
    BY ONLY <2>2, <2>3, <2>4
<1>6. d.out = [n \in 1..N |-> Convolved(taps, z, Len(x) + n * factor)]
  BY ONLY <1>3, <1>4, <1>5
<1>7. \A n \in 1..N : Convolved(taps, z, Len(x) + n * factor) \in Int
  <2> TAKE n \in 1..N
  <2>1. Len(x) + n * factor \in Int
    BY <1>0
  <2> QED
    BY <2>1, <1>0, ConvolvedTyped
<1>8. d.out \in Seq(Int) /\ Len(d.out) = N
  <2> DEFINE out == [n \in 1..N |-> Convolved(taps, z, Len(x) + n * factor)]
  <2>1. \A n \in 1..N : out[n] \in Int
    BY ONLY <1>7
  <2>2. d.out = out
    BY ONLY <1>6
  <2>3. out = [n \in 1..N |-> out[n]]
    OBVIOUS
  <2> HIDE DEF out
  <2>4. out \in Seq(Int) /\ Len(out) = N
    BY ONLY <2>1, <2>3, <1>4, FunctionAsSeq
  <2> QED
    BY ONLY <2>2, <2>4
<1> QED
  <2>1. d.ring = Last(R)
    BY ONLY <1>3
  <2>2. \A n \in 1..N : d.out[n] = Convolved(taps, z, Len(x) + n * factor)
    BY ONLY <1>6
  <2> QED
    BY ONLY <1>2, <1>8, <2>1, <2>2 DEF Outputs

LEMMA FactorTyped == M \in Nat \ {0}
  BY ChainAssumption

LEMMA StuffedTyped ==
  ASSUME NEW x \in Seq(Int)
  PROVE  /\ Stuffed(x) \in Seq(Int) /\ Len(Stuffed(x)) = Len(x) * M
         /\ DOMAIN Stuffed(x) = 1..(Len(x) * M)
         /\ \A n \in 1..(Len(x) * M) :
              Stuffed(x)[n] = IF (n - 1) % M = 0 THEN x[1 + ((n - 1) \div M)] ELSE 0
<1>0. Len(x) \in Nat /\ M \in Nat \ {0} /\ Len(x) * M \in Nat
  BY FactorTyped
<1>1. \A n \in 1..(Len(x) * M) :
        (IF (n - 1) % M = 0 THEN x[1 + ((n - 1) \div M)] ELSE 0) \in Int
  <2> TAKE n \in 1..(Len(x) * M)
  <2>1. n - 1 \in Nat /\ n - 1 < Len(x) * M
    BY <1>0
  <2>2. PICK q \in Nat : q = (n - 1) \div M /\ q * M <= n - 1
    BY ONLY <2>1, <1>0, DivBelow
  <2>3. q < Len(x)
    <3> SUFFICES ASSUME Len(x) <= q PROVE FALSE
      BY ONLY <1>0, <2>2
    <3>1. Len(x) * M <= q * M
      BY ONLY <1>0, <2>2, Len(x) <= q, Monotone
    <3> QED
      BY ONLY <3>1, <2>1, <2>2, <1>0
  <2>4. x[1 + q] \in Int
    BY <2>3
  <2> QED
    BY <2>2, <2>4
<1>2. Stuffed(x) = [n \in 1..(Len(x) * M) |-> IF (n - 1) % M = 0 THEN x[1 + ((n - 1) \div M)] ELSE 0]
  BY DEF Stuffed
<1> QED
  BY ONLY <1>0, <1>1, <1>2

\* Zeros lie between the samples of the stuffed signal, d after a sample.
LEMMA StuffedPast ==
  ASSUME NEW x \in Seq(Int), NEW a \in Int, a <= Len(x)
  PROVE  /\ Past(Stuffed(x), (a - 1) * M + 1) = Past(x, a)
         /\ \A d \in 1..(M - 1) : Past(Stuffed(x), (a - 1) * M + d + 1) = 0
<1>0. /\ Len(x) \in Nat /\ M \in Nat \ {0} /\ Len(x) * M \in Nat
      /\ DOMAIN x = 1..Len(x) /\ DOMAIN Stuffed(x) = 1..(Len(x) * M)
      /\ \A n \in 1..(Len(x) * M) :
           Stuffed(x)[n] = IF (n - 1) % M = 0 THEN x[1 + ((n - 1) \div M)] ELSE 0
  BY FactorTyped, StuffedTyped
<1>1. a - 1 \in Int /\ 0 \in 0..(M - 1) /\ \A d \in 0..(M - 1) : d \in Int
  BY <1>0
<1>2. \A d \in 0..(M - 1) :
        /\ (((a - 1) * M + d + 1) - 1) \div M = a - 1
        /\ (((a - 1) * M + d + 1) - 1) % M = d
  <2> TAKE d \in 0..(M - 1)
  <2>1. ((a - 1) * M + d) \div M = a - 1 /\ ((a - 1) * M + d) % M = d
    BY ONLY <1>0, <1>1, DivMod
  <2>2. ((a - 1) * M + d + 1) - 1 = (a - 1) * M + d
    BY <1>0, <1>1
  <2> QED
    BY ONLY <2>1, <2>2
<1>3. Past(Stuffed(x), (a - 1) * M + 1) = Past(x, a)
  <2>1. (a - 1) * M + 0 + 1 = (a - 1) * M + 1
    BY <1>0, <1>1
  <2>2. CASE a >= 1
    <3>1. (a - 1) * M + 1 \in 1..(Len(x) * M)
      <4>1. a - 1 \in Nat /\ a \in Nat
        BY <2>2
      <4>2. a * M <= Len(x) * M
        BY ONLY <4>1, <1>0, a <= Len(x), Monotone
      <4>3. a * M = (a - 1) * M + M /\ (a - 1) * M \in Nat
        BY <4>1, <1>0
      <4>4. M >= 1
        BY <1>0
      <4>5. M \in Int /\ a * M \in Int /\ Len(x) * M \in Int
        BY <1>0, <4>1
      <4> QED
        BY ONLY <4>2, <4>3, <4>4, <4>5
    <3>2. Stuffed(x)[(a - 1) * M + 1] = x[1 + (a - 1)]
      BY ONLY <3>1, <1>0, <1>1, <1>2, <2>1
    <3>3. 1 + (a - 1) = a /\ a \in DOMAIN x
      BY <1>0, <2>2
    <3> QED
      BY <3>1, <3>2, <3>3, <1>0 DEF Past
  <2>3. CASE a < 1
    <3>1. (a - 1) * M <= 0 - M
      <4>1. 1 - a \in Nat /\ 1 <= 1 - a
        BY <2>3
      <4>2. 1 * M <= (1 - a) * M
        BY ONLY <4>1, 1 \in Nat, <1>0, Monotone
      <4> QED
        BY <4>2, <1>0
    <3>2. (a - 1) * M + 1 \notin 1..(Len(x) * M)
      BY <3>1, <1>0, <1>1
    <3> QED
      BY <3>2, <2>3, <1>0 DEF Past
  <2> QED
    BY <2>2, <2>3
<1>4. ASSUME NEW d \in 1..(M - 1)
      PROVE  Past(Stuffed(x), (a - 1) * M + d + 1) = 0
  <2>1. d \in 0..(M - 1) /\ d # 0
    OBVIOUS
  <2>2. PICK n : n = (a - 1) * M + d + 1
    OBVIOUS
  <2>3. (n - 1) % M # 0
    BY ONLY <2>1, <2>2, <1>2
  <2> QED
    BY ONLY <2>2, <2>3, <1>0 DEF Past
<1> QED
  BY <1>3, <1>4

\* Phase r of the a-th sample.
LEMMA DotIsPhase ==
  ASSUME NEW taps \in Seq(Int), taps # <<>>, NEW ring, NEW x \in Seq(Int), NEW a \in Int, a <= Len(x),
         NEW r \in 0..(M - 1), Hears(ring, Span(taps, M), x, a)
  PROVE  Dot(ring, taps, 1 + r, M) = Convolved(taps, Stuffed(x), (a - 1) * M + r + 1)
<1>0. /\ DOMAIN taps = 1..Len(taps) /\ Len(taps) \in Nat \ {0} /\ M \in Nat \ {0} /\ r \in Int
      /\ Len(x) \in Nat
  BY FactorTyped
<1>1. PICK n \in Int : n = (a - 1) * M + r + 1
  BY <1>0
<1>2. ASSUME NEW j \in DOMAIN taps
      PROVE  (IF j >= 1 + r /\ (j - (1 + r)) % M = 0 THEN taps[j] * Back(ring, (j - (1 + r)) \div M) ELSE 0)
               = taps[j] * Past(Stuffed(x), n - j + 1)
  <2>1. PICK e \in Int : e = j - (1 + r)
    BY <1>0
  <2>2. j \in Int /\ 1 <= j /\ j <= Len(taps) /\ taps[j] \in Int /\ n - j + 1 = (a - 1) * M - e + 1
    BY <1>0, <1>1, <2>1
  <2>3. taps[j] * 0 = 0
    BY <2>2
  <2>4. CASE e < 0
    <3>1. 0 - e \in 1..(M - 1) /\ (a - 1) * M + (0 - e) + 1 = (a - 1) * M - e + 1
      <4>1. e >= 0 - r
        BY ONLY <2>1, <2>2, r \in 0..(M - 1), <1>0
      <4>2. 0 - e \in 1..(M - 1)
        BY ONLY <4>1, <2>4, e \in Int, r \in 0..(M - 1), <1>0
      <4>3. (a - 1) * M \in Int
        BY <1>0
      <4> QED
        BY ONLY <4>2, <4>3, e \in Int
    <3>2. Past(Stuffed(x), (a - 1) * M + (0 - e) + 1) = 0
      BY <3>1, StuffedPast
    <3>3. ~(j >= 1 + r)
      BY <2>1, <2>2, <2>4, <1>0
    <3> QED
      BY ONLY <3>1, <3>2, <3>3, <2>2, <2>3
  <2>5. CASE e >= 0
    <3>0. e \in Nat /\ j >= 1 + r
      BY <2>1, <2>2, <2>5, <1>0
    <3>1. PICK k \in Nat : k = e \div M
      BY ONLY <3>0, <1>0, DivBelow
    <3>2. PICK s \in 0..(M - 1) : s = e % M
      BY ONLY <2>1, <1>0, Parts
    <3>3. e = k * M + s
      BY ONLY <2>1, <1>0, <3>1, <3>2, Euclid
    <3>4. CASE s = 0
      <4>1. k \in 0..(Span(taps, M) - 1)
        <5>1. (k + 1) * M = k * M + M /\ k * M <= Len(taps) - 1 /\ k * M \in Int /\ k + 1 \in Nat
          <6>1. k * M \in Int /\ k + 1 \in Nat /\ (k + 1) * M = k * M + M
            BY ONLY k \in Nat, <1>0
          <6>2. e = k * M
            BY ONLY <6>1, <3>3, <3>4
          <6>3. e <= Len(taps) - 1
            BY ONLY <2>1, <2>2, <1>0, r \in 0..(M - 1), SMTT(30)
          <6> QED
            BY ONLY <6>1, <6>2, <6>3
        <5>2. (k + 1) * M <= Len(taps) + M - 1 /\ Len(taps) + M - 1 \in Nat
          BY ONLY <5>1, <1>0
        <5>3. k + 1 <= Span(taps, M)
          BY ONLY <5>1, <5>2, <1>0, Fits DEF Span
        <5>4. Span(taps, M) \in Int
          BY ONLY <5>2, <1>0, Parts DEF Span
        <5> QED
          BY ONLY <5>3, <5>4, k \in Nat
      <4>2. Back(ring, k) = Past(x, a - k)
        BY <4>1 DEF Hears
      <4>3. a - k \in Int /\ a - k <= Len(x) /\ ((a - k) - 1) * M + 1 = (a - 1) * M - e + 1
        BY <3>1, <3>3, <3>4, <1>0
      <4>4. Past(Stuffed(x), ((a - k) - 1) * M + 1) = Past(x, a - k)
        BY ONLY <4>3, x \in Seq(Int), StuffedPast
      <4> QED
        BY ONLY <4>2, <4>3, <4>4, <3>0, <3>1, <3>2, <3>4, <2>1, <2>2
    <3>5. CASE s # 0
      <4>1. M - s \in 1..(M - 1)
        BY <3>2, <3>5, <1>0
      <4>2. a - k - 1 \in Int /\ a - k - 1 <= Len(x)
            /\ ((a - k - 1) - 1) * M + (M - s) + 1 = (a - 1) * M - e + 1
        BY <3>1, <3>2, <3>3, <1>0
      <4>3. Past(Stuffed(x), ((a - k - 1) - 1) * M + (M - s) + 1) = 0
        BY ONLY <4>1, <4>2, x \in Seq(Int), StuffedPast
      <4>4. (j - (1 + r)) % M # 0
        BY ONLY <2>1, <3>2, <3>5
      <4> QED
        BY ONLY <4>2, <4>3, <4>4, <2>2, <2>3
    <3> QED
      BY <3>4, <3>5
  <2> QED
    BY <2>4, <2>5
<1>3. [j \in DOMAIN taps |-> IF j >= 1 + r /\ (j - (1 + r)) % M = 0
                             THEN taps[j] * Back(ring, (j - (1 + r)) \div M) ELSE 0]
        = [j \in DOMAIN taps |-> taps[j] * Past(Stuffed(x), n - j + 1)]
  BY <1>2
<1> QED
  BY <1>1, <1>3 DEF Dot, Convolved

\* Behind x and with z heard, the ring that is left and the N outputs.
Lifts(d, taps, x, z, N) ==
  /\ d.ring \in RingType(Span(taps, M)) /\ Hears(d.ring, Span(taps, M), z, Len(z))
  /\ d.out \in Seq(Int) /\ Len(d.out) = N
  /\ \A n \in 1..N : d.out[n] = Convolved(taps, Stuffed(z), Len(x) * M + n)

LEMMA Interpolated ==
  ASSUME NEW taps \in Seq(Int), taps # <<>>,
         NEW ring \in RingType(Span(taps, M)), NEW x \in Seq(Int), NEW y \in Seq(Int),
         Hears(ring, Span(taps, M), x, Len(x)),
         NEW z, z = x \o y, NEW d, d = Interpolate(taps, M, ring, y),
         NEW C, C = Len(y) * M
  PROVE  Lifts(d, taps, x, z, C)
<1>0. /\ Len(taps) \in Nat \ {0} /\ Len(x) \in Nat /\ Len(y) \in Nat /\ Len(z) = Len(x) + Len(y)
      /\ z \in Seq(Int) /\ M \in Nat \ {0} /\ Len(y) * M \in Nat /\ Len(x) * M \in Nat
  BY FactorTyped
<1>1. Span(taps, M) \in Nat \ {0}
  <2>1. 1 * M <= Len(taps) + M - 1 /\ Len(taps) + M - 1 \in Nat
    BY <1>0
  <2>2. 1 <= Span(taps, M)
    BY ONLY <2>1, 1 \in Nat, <1>0, Fits DEF Span
  <2>3. Span(taps, M) \in Int
    BY ONLY <2>1, <1>0, Parts DEF Span
  <2> QED
    BY ONLY <2>2, <2>3
<1>2. PICK R : R = Pushes(ring, y)
  OBVIOUS
<1>3. /\ \A i \in 0..Len(y) : Hears(R[i + 1], Span(taps, M), z, Len(x) + i)
      /\ Last(R) \in RingType(Span(taps, M)) /\ Hears(Last(R), Span(taps, M), z, Len(z))
  BY <1>1, <1>2, PushesHear
<1>4. d = [ring |-> Last(R), out |-> [n \in 1..(Len(y) * M) |->
              Dot(R[2 + ((n - 1) \div M)], taps, 1 + ((n - 1) % M), M)]]
  BY <1>2 DEF Interpolate
<1>5. ASSUME NEW n \in 1..(Len(y) * M)
      PROVE  Dot(R[2 + ((n - 1) \div M)], taps, 1 + ((n - 1) % M), M)
               = Convolved(taps, Stuffed(z), Len(x) * M + n)
  <2>1. n - 1 \in Nat /\ n - 1 < Len(y) * M
    BY <1>0
  <2>2. PICK q \in Nat : q = (n - 1) \div M /\ q * M <= n - 1
    BY ONLY <2>1, <1>0, DivBelow
  <2>3. PICK r \in 0..(M - 1) : r = (n - 1) % M
    BY ONLY <2>1, <1>0, Parts
  <2>4. n - 1 = q * M + r
    BY ONLY <2>1, <1>0, <2>2, <2>3, Euclid
  <2>5. q < Len(y)
    <3>1. PICK b \in Nat : b = Len(y)
      BY <1>0
    <3>2. q * M < b * M
      <4>1. q * M \in Int /\ b * M \in Int /\ n - 1 \in Int
        BY <2>1, <1>0
      <4> QED
        BY ONLY <4>1, <3>1, <2>1, <2>2
    <3>3. q < b
      BY ONLY <3>2, <1>0, b \in Nat, q \in Nat, QuotientBelow
    <3> QED
      BY <3>1, <3>3
  <2>6. PICK a \in Int : a = Len(x) + (q + 1)
    BY <1>0
  <2>7. q + 1 \in 0..Len(y) /\ (q + 1) + 1 = 2 + q /\ a <= Len(z)
    BY <2>5, <2>6, <1>0
  <2>8. Hears(R[2 + q], Span(taps, M), z, a)
    BY ONLY <1>3, <2>6, <2>7
  <2>9. Dot(R[2 + q], taps, 1 + r, M) = Convolved(taps, Stuffed(z), (a - 1) * M + r + 1)
    <3>1. a <= Len(z) /\ z \in Seq(Int)
      BY <1>0, <2>7
    <3> QED
      BY ONLY <3>1, <2>8, taps \in Seq(Int), taps # <<>>, a \in Int, r \in 0..(M - 1), DotIsPhase
  <2>10. (a - 1) * M + r + 1 = Len(x) * M + n
    <3>1. a - 1 = Len(x) + q
      BY <2>6, <1>0
    <3>2. (Len(x) + q) * M = Len(x) * M + q * M /\ q * M \in Int /\ r \in Int /\ n \in Int
      BY <1>0
    <3> QED
      BY ONLY <3>1, <3>2, <2>4, <1>0
  <2> QED
    BY ONLY <2>2, <2>3, <2>9, <2>10
<1>6. d.out = [n \in 1..(Len(y) * M) |-> Convolved(taps, Stuffed(z), Len(x) * M + n)]
  BY ONLY <1>4, <1>5
<1>7. \A n \in 1..(Len(y) * M) : Convolved(taps, Stuffed(z), Len(x) * M + n) \in Int
  <2> TAKE n \in 1..(Len(y) * M)
  <2>1. Len(x) * M + n \in Int
    BY <1>0
  <2>2. Stuffed(z) \in Seq(Int)
    BY <1>0, StuffedTyped
  <2> QED
    BY ONLY <2>1, <2>2, taps \in Seq(Int), ConvolvedTyped
<1>8. d.out \in Seq(Int) /\ Len(d.out) = Len(y) * M
  <2>1. PICK N \in Nat : N = Len(y) * M
    BY <1>0
  <2> DEFINE out == [n \in 1..N |-> Convolved(taps, Stuffed(z), Len(x) * M + n)]
  <2>2. \A n \in 1..N : out[n] \in Int
    BY ONLY <2>1, <1>7
  <2>3. d.out = out
    BY ONLY <2>1, <1>6
  <2>4. DOMAIN out = 1..N
    OBVIOUS
  <2>5. out = [n \in 1..N |-> out[n]]
    OBVIOUS
  <2> HIDE DEF out
  <2>6. out \in Seq(Int) /\ Len(out) = N
    BY ONLY <2>2, <2>4, <2>5, N \in Nat, FunctionAsSeq
  <2> QED
    BY ONLY <2>1, <2>3, <2>6
<1> QED
  BY ONLY <1>3, <1>4, <1>6, <1>8, C = Len(y) * M DEF Lifts


\* Up to the a-th output, what comes behind x does not matter.
Alike(taps, x, z, a) ==
  \A n \in 1..a : Convolved(taps, Stuffed(z), n) = Convolved(taps, Stuffed(x), n)

LEMMA StuffedBefore ==
  ASSUME NEW taps \in Seq(Int), NEW x \in Seq(Int), NEW y \in Seq(Int), NEW z, z = x \o y,
         NEW a, a = Len(x) * M
  PROVE  Alike(taps, x, z, a)
<1>0. /\ Len(x) \in Nat /\ Len(y) \in Nat /\ z \in Seq(Int) /\ Len(z) = Len(x) + Len(y)
      /\ \A i \in 1..Len(x) : z[i] = x[i]
  OBVIOUS
<1>1. PICK A \in Nat : A = Len(x) * M
  BY <1>0, FactorTyped
<1>2. PICK C \in Nat : C = Len(z) * M /\ A <= C
  <2>1. Len(y) * M \in Nat /\ Len(z) * M = Len(x) * M + Len(y) * M
    BY <1>0, FactorTyped
  <2> QED
    BY <2>1, <1>1
<1>3. /\ DOMAIN Stuffed(x) = 1..A /\ DOMAIN Stuffed(z) = 1..C
      /\ \A k \in 1..A : Stuffed(x)[k] = IF (k - 1) % M = 0 THEN x[1 + ((k - 1) \div M)] ELSE 0
      /\ \A k \in 1..C : Stuffed(z)[k] = IF (k - 1) % M = 0 THEN z[1 + ((k - 1) \div M)] ELSE 0
  BY ONLY <1>0, <1>1, <1>2, x \in Seq(Int), StuffedTyped
<1>4. ASSUME NEW k \in 1..A PROVE Stuffed(z)[k] = Stuffed(x)[k]
  <2>1. k - 1 \in Nat /\ k - 1 < A /\ k \in 1..C
    BY <1>1, <1>2
  <2>2. PICK q \in Nat : q = (k - 1) \div M /\ q * M <= k - 1
    BY ONLY <2>1, FactorTyped, DivBelow
  <2>3. q < Len(x)
    <3>1. PICK b \in Nat : b = Len(x)
      BY <1>0
    <3>2. q * M < b * M
      <4>1. q * M \in Int /\ b * M \in Int /\ k - 1 \in Int
        BY <2>1, FactorTyped
      <4> QED
        BY ONLY <4>1, <3>1, <2>1, <2>2, <1>1
    <3>3. q < b
      BY ONLY <3>2, FactorTyped, b \in Nat, q \in Nat, QuotientBelow
    <3> QED
      BY <3>1, <3>3
  <2>4. 1 + q \in 1..Len(x)
    BY <2>3, <1>0
  <2>5. z[1 + q] = x[1 + q]
    BY ONLY <2>4, <1>0
  <2> QED
    BY ONLY <2>1, <2>2, <2>5, <1>3
<1>5. \A k \in Int : k <= A => Past(Stuffed(z), k) = Past(Stuffed(x), k)
  <2> TAKE k \in Int
  <2> HAVE k <= A
  <2>1. k \in 1..A <=> k >= 1
    OBVIOUS
  <2>2. k \in 1..C <=> k >= 1
    BY <1>2
  <2> QED
    BY ONLY <2>1, <2>2, <1>3, <1>4 DEF Past
<1>6. DOMAIN taps = 1..Len(taps) /\ Len(taps) \in Nat
  OBVIOUS
<1>7. ASSUME NEW n \in 1..A
      PROVE  Convolved(taps, Stuffed(z), n) = Convolved(taps, Stuffed(x), n)
  <2>1. \A k \in DOMAIN taps : n - k + 1 \in Int /\ n - k + 1 <= A
    BY <1>1, <1>6
  <2>2. [k \in DOMAIN taps |-> taps[k] * Past(Stuffed(z), n - k + 1)]
          = [k \in DOMAIN taps |-> taps[k] * Past(Stuffed(x), n - k + 1)]
    BY ONLY <1>5, <2>1
  <2> QED
    BY ONLY <2>2 DEF Convolved
<1> QED
  BY ONLY <1>1, <1>7, a = Len(x) * M DEF Alike

-----------------------------------------------------------------------------
(* Smoothers.                                                              *)

LEMMA UnitTyped == One \in Nat \ {0} /\ GlideLen \in Nat \ {0}
  BY FiltersAssumption

LEMMA TimesTyped ==
  ASSUME NEW x \in Int, NEW gain \in Int
  PROVE  Times(x, gain) \in Int /\ Times(x, One) = x /\ Times(x, 0) = 0
<1>1. x * gain \in Int /\ x * One \in Int /\ x * One = x * One + 0 /\ x * 0 = 0 * One + 0
  BY UnitTyped
<1>2. Times(x, gain) \in Int
  BY ONLY <1>1, UnitTyped, Parts DEF Times
<1>3. 0 \in 0..(One - 1) /\ 0 \in Int
  BY UnitTyped
<1>4. (x * One + 0) \div One = x /\ (0 * One + 0) \div One = 0
  BY ONLY <1>3, x \in Int, UnitTyped, DivMod
<1> QED
  BY ONLY <1>1, <1>2, <1>4 DEF Times

LEMMA ClampTyped ==
  ASSUME NEW x \in Int, NEW lo \in Int, NEW hi \in Int
  PROVE  /\ Clamp(x, lo, hi) \in Int
         /\ lo <= hi => lo <= Clamp(x, lo, hi) /\ Clamp(x, lo, hi) <= hi
  BY DEF Clamp, Lesser, Greater

SmootherType == [current : Int, target : Int, step : Int, min : Int, max : Int]

\* A glide is within its range, runs toward its target, and no step of it is
\* larger than that of the whole range.
Gliding(s) ==
  /\ s.min <= s.current /\ s.current <= s.max
  /\ s.min <= s.target /\ s.target <= s.max
  /\ s.step > 0 => s.current <= s.target
  /\ s.step < 0 => s.target <= s.current
  /\ 0 - GlideStep(s.max - s.min) <= s.step /\ s.step <= GlideStep(s.max - s.min)

LEMMA GlideStepTyped ==
  ASSUME NEW range \in Nat
  PROVE  GlideStep(range) \in Nat /\ range <= GlideStep(range) * GlideLen
<1>1. range + GlideLen - 1 \in Nat
  BY UnitTyped
<1>2. PICK q \in Nat : q = (range + GlideLen - 1) \div GlideLen
  BY ONLY <1>1, UnitTyped, DivBelow
<1>3. PICK r \in 0..(GlideLen - 1) : r = (range + GlideLen - 1) % GlideLen
  BY ONLY <1>1, UnitTyped, Parts
<1>4. range + GlideLen - 1 = q * GlideLen + r
  BY ONLY <1>1, UnitTyped, <1>2, <1>3, Euclid
<1>5. range <= q * GlideLen
  BY ONLY <1>4, UnitTyped, r \in 0..(GlideLen - 1), q \in Nat
<1> QED
  BY ONLY <1>2, <1>5 DEF GlideStep

\* A step of a glide over a part of the range.
LEMMA StepOfGlide ==
  ASSUME NEW range \in Nat, NEW d \in Int, 0 - range <= d, d <= range
  PROVE  /\ d \div GlideLen \in Int
         /\ d \div GlideLen > 0 => d > 0
         /\ d \div GlideLen < 0 => d < 0
         /\ 0 - GlideStep(range) <= d \div GlideLen /\ d \div GlideLen <= GlideStep(range)
<1>1. PICK q \in Int : q = d \div GlideLen
  BY ONLY d \in Int, UnitTyped, Parts
<1>2. PICK r \in 0..(GlideLen - 1) : r = d % GlideLen
  BY ONLY d \in Int, UnitTyped, Parts
<1>3. d = q * GlideLen + r
  BY ONLY d \in Int, UnitTyped, <1>1, <1>2, Euclid
<1>4. PICK s \in Nat : s = GlideStep(range) /\ range <= s * GlideLen
  BY GlideStepTyped
<1>5. q > 0 => d > 0
  <2> SUFFICES ASSUME q > 0 PROVE d > 0
    OBVIOUS
  <2>1. 1 * GlideLen <= q * GlideLen
    <3>1. 1 \in Nat /\ q \in Nat /\ GlideLen \in Nat /\ 1 <= q
      BY UnitTyped
    <3> QED
      BY ONLY <3>1, Monotone
  <2> QED
    BY ONLY <2>1, <1>3, UnitTyped, r \in 0..(GlideLen - 1), q \in Int
<1>6. q < 0 => d < 0
  <2> SUFFICES ASSUME q < 0 PROVE d < 0
    OBVIOUS
  <2>1. q * GlideLen <= 0 - GlideLen
    <3>1. 1 \in Nat /\ 0 - q \in Nat /\ GlideLen \in Nat /\ 1 <= 0 - q
      BY UnitTyped
    <3>2. 1 * GlideLen <= (0 - q) * GlideLen
      BY ONLY <3>1, Monotone
    <3>3. (0 - q) * GlideLen = 0 - q * GlideLen /\ q * GlideLen \in Int
      BY UnitTyped
    <3> QED
      BY ONLY <3>2, <3>3, UnitTyped
  <2>2. q * GlideLen \in Int
    BY UnitTyped
  <2> QED
    BY ONLY <2>1, <2>2, <1>3, UnitTyped, r \in 0..(GlideLen - 1)
<1>7. q <= s
  <2>1. q * GlideLen <= s * GlideLen
    <3>1. q * GlideLen \in Int /\ s * GlideLen \in Int /\ r \in Nat
      BY UnitTyped
    <3> QED
      BY ONLY <3>1, <1>3, <1>4, d <= range, range \in Nat, d \in Int
  <2>2. s \in Int
    OBVIOUS
  <2> QED
    BY ONLY <2>1, <2>2, q \in Int, UnitTyped, Cancels
<1>8. 0 - s <= q
  <2>1. (0 - s - 1) * GlideLen < q * GlideLen
    <3>1. q * GlideLen \in Int /\ s * GlideLen \in Int /\ (0 - s - 1) * GlideLen = 0 - s * GlideLen - GlideLen
          /\ r < GlideLen /\ r \in Int /\ GlideLen \in Int
      BY UnitTyped
    <3> QED
      BY ONLY <3>1, <1>3, <1>4, 0 - range <= d, range \in Nat, d \in Int
  <2>2. q <= 0 - s - 1 => q * GlideLen <= (0 - s - 1) * GlideLen
    <3> SUFFICES ASSUME q <= 0 - s - 1 PROVE q * GlideLen <= (0 - s - 1) * GlideLen
      OBVIOUS
    <3>1. s + 1 \in Nat /\ 0 - q \in Nat /\ GlideLen \in Nat /\ s + 1 <= 0 - q
      BY UnitTyped
    <3>2. (s + 1) * GlideLen <= (0 - q) * GlideLen
      BY ONLY <3>1, Monotone
    <3>3. (0 - q) * GlideLen = 0 - q * GlideLen /\ (0 - s - 1) * GlideLen = 0 - (s + 1) * GlideLen
          /\ (s + 1) * GlideLen \in Int /\ q * GlideLen \in Int
      BY UnitTyped
    <3> QED
      BY ONLY <3>2, <3>3
  <2>3. (0 - s - 1) * GlideLen \in Int /\ q * GlideLen \in Int
    BY UnitTyped
  <2> QED
    BY ONLY <2>1, <2>2, <2>3, s \in Nat, q \in Int
<1> QED
  BY ONLY <1>1, <1>4, <1>5, <1>6, <1>7, <1>8

\* A smoother keeps its range, and its value when it is aimed.
LEMMA SetTargetGlides ==
  ASSUME NEW s \in SmootherType, Gliding(s), NEW value \in Int
  PROVE  /\ SetTarget(s, value) \in SmootherType /\ Gliding(SetTarget(s, value))
         /\ SetTarget(s, value).min = s.min /\ SetTarget(s, value).max = s.max
         /\ SetTarget(s, value).current = s.current
<1>0. s.current \in Int /\ s.target \in Int /\ s.step \in Int /\ s.min \in Int /\ s.max \in Int
  BY DEF SmootherType
<1>1. PICK v \in Int : v = Clamp(value, s.min, s.max) /\ s.min <= v /\ v <= s.max
  <2>1. s.min <= s.max
    BY <1>0 DEF Gliding
  <2> QED
    BY ONLY <2>1, <1>0, value \in Int, ClampTyped
<1>2. CASE v = s.target
  BY <1>0, <1>1, <1>2 DEF SetTarget
<1>3. CASE v # s.target
  <2>1. SetTarget(s, value) = [s EXCEPT !.target = v, !.step = (v - s.current) \div GlideLen]
    BY <1>1, <1>3 DEF SetTarget
  <2>2. /\ s.max - s.min \in Nat /\ v - s.current \in Int
        /\ 0 - (s.max - s.min) <= v - s.current /\ v - s.current <= s.max - s.min
    BY <1>0, <1>1 DEF Gliding
  <2>3. PICK n \in Int : n = (v - s.current) \div GlideLen
    BY ONLY <2>2, UnitTyped, Parts
  <2>4. /\ n > 0 => v - s.current > 0
        /\ n < 0 => v - s.current < 0
        /\ 0 - GlideStep(s.max - s.min) <= n /\ n <= GlideStep(s.max - s.min)
    BY ONLY <2>2, <2>3, StepOfGlide
  <2>5. PICK w : w = [s EXCEPT !.target = v, !.step = n]
    OBVIOUS
  <2>6. /\ w \in SmootherType
        /\ w.current = s.current /\ w.target = v /\ w.step = n /\ w.min = s.min /\ w.max = s.max
    BY ONLY <2>5, s \in SmootherType, v \in Int, n \in Int DEF SmootherType
  <2>7. Gliding(w)
    BY ONLY <2>4, <2>6, <1>0, <1>1, v \in Int, Gliding(s) DEF Gliding
  <2> QED
    BY ONLY <2>1, <2>3, <2>5, <2>6, <2>7
<1> QED
  BY <1>2, <1>3

LEMMA ProductSigns ==
  ASSUME NEW a \in Int, NEW i \in Nat
  PROVE  a * i \in Int /\ (a >= 0 => a * i >= 0) /\ (a <= 0 => a * i <= 0)
  OBVIOUS

LEMMA ValueGlides ==
  ASSUME NEW s \in SmootherType, Gliding(s), NEW i \in Nat
  PROVE  /\ ValueAt(s, i) \in Int /\ s.min <= ValueAt(s, i) /\ ValueAt(s, i) <= s.max
         /\ ValueAt(s, 0) = s.current
         /\ s.step > 0 => ValueAt(s, i) <= s.target
         /\ s.step < 0 => s.target <= ValueAt(s, i)
         /\ s.step = 0 => ValueAt(s, i) = s.current
<1>0. s.current \in Int /\ s.target \in Int /\ s.step \in Int /\ s.min \in Int /\ s.max \in Int
  BY DEF SmootherType
<1>1. PICK p \in Int : /\ p = s.step * i
                       /\ s.step >= 0 => p >= 0
                       /\ s.step <= 0 => p <= 0
  BY <1>0, ProductSigns
<1>2. s.step * 0 = 0
  BY <1>0
<1> QED
  BY ONLY <1>0, <1>1, <1>2, Gliding(s) DEF Gliding, ValueAt, Toward, Lesser, Greater

\* Two instants of a glide are no further apart than the steps between them.
LEMMA ValuesApart ==
  ASSUME NEW s \in SmootherType, Gliding(s), NEW i \in Nat, NEW j \in Nat, i <= j,
         NEW most \in Nat, GlideStep(s.max - s.min) <= most
  PROVE  /\ Apart(ValueAt(s, i), ValueAt(s, j)) <= (j - i) * most
         /\ Apart(ValueAt(s, j), ValueAt(s, i)) <= (j - i) * most
<1>0. s.current \in Int /\ s.target \in Int /\ s.step \in Int /\ s.min \in Int /\ s.max \in Int
      /\ j - i \in Nat
  BY DEF SmootherType
<1>1. GlideStep(s.max - s.min) \in Nat
  <2>1. s.max - s.min \in Nat
    BY <1>0 DEF Gliding
  <2> QED
    BY <2>1, GlideStepTyped
<1>2. 0 - most <= s.step /\ s.step <= most
  BY <1>0, <1>1 DEF Gliding
<1>3. PICK a \in Int : /\ a = s.step * i
                       /\ s.step >= 0 => a >= 0
                       /\ s.step <= 0 => a <= 0
  BY <1>0, ProductSigns
<1>4. PICK b \in Int : /\ b = s.step * (j - i)
                       /\ s.step >= 0 => b >= 0
                       /\ s.step <= 0 => b <= 0
  BY <1>0, ProductSigns
<1>5. s.step * j = a + b
  BY <1>0, <1>3, <1>4
<1>6. PICK m \in Int : m = (j - i) * most /\ 0 <= m /\ b <= m /\ 0 - m <= b
  <2>1. (most - s.step) * (j - i) >= 0 /\ (most + s.step) * (j - i) >= 0 /\ most * (j - i) >= 0
    <3>1. most - s.step \in Int /\ most + s.step \in Int /\ most - s.step >= 0 /\ most + s.step >= 0
          /\ most >= 0 /\ most \in Int
      BY <1>0, <1>2
    <3> QED
      BY ONLY <3>1, <1>0, ProductSigns
  <2>2. /\ (most - s.step) * (j - i) = most * (j - i) - s.step * (j - i)
        /\ (most + s.step) * (j - i) = most * (j - i) + s.step * (j - i)
        /\ most * (j - i) = (j - i) * most /\ (j - i) * most \in Int
    BY <1>0
  <2> QED
    BY ONLY <2>1, <2>2, <1>4, b \in Int
<1>7. ValueAt(s, i) = Toward(s.current + a, s.target, s.step)
      /\ ValueAt(s, j) = Toward(s.current + (a + b), s.target, s.step)
  BY ONLY <1>3, <1>5 DEF ValueAt
<1> QED
  BY ONLY <1>0, <1>3, <1>4, <1>6, <1>7 DEF Toward, Lesser, Greater, Apart

LEMMA AdvanceGlides ==
  ASSUME NEW s \in SmootherType, Gliding(s), NEW n \in Nat
  PROVE  /\ Advance(s, n) \in SmootherType /\ Gliding(Advance(s, n))
         /\ Advance(s, n).min = s.min /\ Advance(s, n).max = s.max
         /\ Advance(s, n).current = ValueAt(s, n)
<1>0. s.current \in Int /\ s.target \in Int /\ s.step \in Int /\ s.min \in Int /\ s.max \in Int
  BY DEF SmootherType
<1>1. PICK v \in Int : /\ v = ValueAt(s, n) /\ s.min <= v /\ v <= s.max
                       /\ s.step > 0 => v <= s.target
                       /\ s.step < 0 => s.target <= v
  BY ValueGlides
<1>2. PICK w : w = Advance(s, n)
  OBVIOUS
<1>3. /\ w \in SmootherType /\ w.current = v /\ w.target = s.target /\ w.min = s.min /\ w.max = s.max
      /\ w.step = IF v = s.target THEN 0 ELSE s.step
  <2>1. PICK st \in Int : st = IF v = s.target THEN 0 ELSE s.step
    BY <1>0
  <2>2. w = [s EXCEPT !.current = v, !.step = st]
    BY ONLY <1>1, <1>2, <2>1, s \in SmootherType DEF Advance, SmootherType
  <2> QED
    BY ONLY <2>1, <2>2, s \in SmootherType, v \in Int DEF SmootherType
<1>4. 0 <= GlideStep(s.max - s.min) /\ GlideStep(s.max - s.min) \in Int
  <2>1. s.max - s.min \in Nat
    BY <1>0 DEF Gliding
  <2> QED
    BY <2>1, GlideStepTyped
<1>5. Gliding(w)
  BY ONLY <1>0, <1>1, <1>3, <1>4, Gliding(s) DEF Gliding
<1> QED
  BY ONLY <1>1, <1>2, <1>3, <1>5

-----------------------------------------------------------------------------
(* The shelf of AIR.                                                       *)

LEMMA PastTyped ==
  ASSUME NEW x \in Seq(Int), NEW n
  PROVE  Past(x, n) \in Int
  BY DEF Past

\* After n samples: `a` went in, `y` came out.
ShelfHears(q, a, y, n) ==
  /\ q.z1 = Shelf.b1 * Past(a, n) - Shelf.a1 * Past(y, n)
              + (Shelf.b2 * Past(a, n - 1) - Shelf.a2 * Past(y, n - 1))
  /\ q.z2 = Shelf.b2 * Past(a, n) - Shelf.a2 * Past(y, n)

Recurrence(a, y, n) ==
  y[n] = Shelf.b0 * a[n] + Shelf.b1 * Past(a, n - 1) + Shelf.b2 * Past(a, n - 2)
           - Shelf.a1 * Past(y, n - 1) - Shelf.a2 * Past(y, n - 2)

LEMMA ShelfTyped == Shelf \in Coefficients
  BY ChainAssumption DEF Coefficients

LEMMA ShelfStep ==
  ASSUME NEW q \in StateType, NEW a \in Seq(Int), NEW y \in Seq(Int), NEW n \in Nat,
         n + 1 \in DOMAIN a, n + 1 \in DOMAIN y, ShelfHears(q, a, y, n),
         y[n + 1] = Stepped(q, Shelf, a[n + 1])
  PROVE  /\ ShelfHears(StepState(q, Shelf, a[n + 1]), a, y, n + 1)
         /\ Recurrence(a, y, n + 1)
<1>0. (n + 1) - 1 = n /\ (n + 1) - 2 = n - 1
  OBVIOUS
<1>1. /\ Past(a, n + 1) = a[n + 1] /\ Past(y, n + 1) = y[n + 1]
      /\ Past(a, n) \in Int /\ Past(y, n) \in Int /\ Past(a, n - 1) \in Int /\ Past(y, n - 1) \in Int
      /\ a[n + 1] \in Int /\ y[n + 1] \in Int
  BY PastTyped DEF Past
<1>2. Shelf.b0 \in Int /\ Shelf.b1 \in Int /\ Shelf.b2 \in Int /\ Shelf.a1 \in Int /\ Shelf.a2 \in Int
  BY ShelfTyped DEF Coefficients
<1>3. StepState(q, Shelf, a[n + 1]) =
        [z1 |-> Shelf.b1 * a[n + 1] - Shelf.a1 * y[n + 1] + q.z2,
         z2 |-> Shelf.b2 * a[n + 1] - Shelf.a2 * y[n + 1]]
  BY DEF StepState
<1>4. ShelfHears(StepState(q, Shelf, a[n + 1]), a, y, n + 1)
  BY ONLY <1>0, <1>1, <1>3, ShelfHears(q, a, y, n) DEF ShelfHears
<1>5. Recurrence(a, y, n + 1)
  <2>0. \A u, v \in Int : u * v \in Int
    OBVIOUS
  <2>1. PICK x1 \in Int : x1 = Shelf.b1 * Past(a, n)
    BY ONLY <1>1, <1>2, <2>0
  <2>2. PICK y1 \in Int : y1 = Shelf.a1 * Past(y, n)
    BY ONLY <1>1, <1>2, <2>0
  <2>3. PICK x2 \in Int : x2 = Shelf.b2 * Past(a, n - 1)
    BY ONLY <1>1, <1>2, <2>0
  <2>4. PICK y2 \in Int : y2 = Shelf.a2 * Past(y, n - 1)
    BY ONLY <1>1, <1>2, <2>0
  <2>5. PICK x0 \in Int : x0 = Shelf.b0 * a[n + 1]
    BY ONLY <1>1, <1>2, <2>0
  <2>6. y[n + 1] = x0 + (x1 - y1 + (x2 - y2))
    BY ONLY <2>1, <2>2, <2>3, <2>4, <2>5, y[n + 1] = Stepped(q, Shelf, a[n + 1]),
            ShelfHears(q, a, y, n) DEF Stepped, ShelfHears
  <2>7. x0 + (x1 - y1 + (x2 - y2)) = x0 + x1 + x2 - y1 - y2
    OBVIOUS
  <2> QED
    BY ONLY <1>0, <2>1, <2>2, <2>3, <2>4, <2>5, <2>6, <2>7 DEF Recurrence
<1> QED
  BY <1>4, <1>5

\* A block, b into the shelf and o out of it, behind what was heard, a and y.
LEMMA ShelfHearsBlock ==
  ASSUME NEW q \in StateType, NEW a \in Seq(Int), NEW y \in Seq(Int), Len(a) = Len(y),
         ShelfHears(q, a, y, Len(a)), NEW b \in Seq(Int), NEW o \in Seq(Int), Len(b) = Len(o),
         \A i \in 1..Len(b) : o[i] = Stepped(Steps(q, Shelf, b)[i], Shelf, b[i]),
         NEW c, c = a \o b, NEW z, z = y \o o
  PROVE  /\ Last(Steps(q, Shelf, b)) \in StateType
         /\ ShelfHears(Last(Steps(q, Shelf, b)), c, z, Len(c))
         /\ \A i \in 1..Len(b) : Recurrence(c, z, Len(a) + i)
<1>1. PICK S : S = Steps(q, Shelf, b)
  OBVIOUS
<1>2. /\ S \in Seq(StateType) /\ Len(S) = Len(b) + 1 /\ S[1] = q
      /\ \A i \in 1..Len(b) : S[i + 1] = StepState(S[i], Shelf, b[i])
  <2>1. /\ Steps(q, Shelf, b) \in Seq(StateType) /\ Len(Steps(q, Shelf, b)) = Len(b) + 1
        /\ Steps(q, Shelf, b)[1] = q
        /\ \A i \in 1..Len(b) : Steps(q, Shelf, b)[i + 1] = StepState(Steps(q, Shelf, b)[i], Shelf, b[i])
    BY ONLY q \in StateType, b \in Seq(Int), ShelfTyped, StepsStep
  <2> QED
    BY ONLY <1>1, <2>1
<1>3. /\ Len(a) \in Nat /\ Len(b) \in Nat /\ c \in Seq(Int) /\ z \in Seq(Int)
      /\ Len(c) = Len(a) + Len(b) /\ Len(z) = Len(a) + Len(b)
      /\ \A i \in 1..Len(b) : c[Len(a) + i] = b[i] /\ z[Len(a) + i] = o[i]
  <2>1. /\ Len(a) \in Nat /\ Len(b) \in Nat /\ c \in Seq(Int) /\ Len(c) = Len(a) + Len(b)
        /\ \A i \in 1..Len(b) : c[Len(a) + i] = b[i]
    BY ONLY c = a \o b, a \in Seq(Int), b \in Seq(Int)
  <2>2. /\ z \in Seq(Int) /\ Len(z) = Len(y) + Len(o)
        /\ \A i \in 1..Len(o) : z[Len(y) + i] = o[i]
    BY ONLY z = y \o o, y \in Seq(Int), o \in Seq(Int)
  <2> QED
    BY ONLY <2>1, <2>2, Len(a) = Len(y), Len(b) = Len(o)
<1>4. \A i \in 0..Len(b) : S[i + 1] \in StateType
  <2>1. \A i \in 0..Len(b) : i + 1 \in 1..(Len(b) + 1)
    BY <1>3
  <2> QED
    BY <2>1, <1>2, <1>3
<1>5. ShelfHears(q, c, z, Len(a))
  <2>1. /\ Past(c, Len(a)) = Past(a, Len(a)) /\ Past(c, Len(a) - 1) = Past(a, Len(a) - 1)
        /\ Past(z, Len(a)) = Past(y, Len(a)) /\ Past(z, Len(a) - 1) = Past(y, Len(a) - 1)
    <3>1. Past(c, Len(a)) = Past(a, Len(a)) /\ Past(c, Len(a) - 1) = Past(a, Len(a) - 1)
      BY ONLY c = a \o b, a \in Seq(Int), b \in Seq(Int) DEF Past
    <3>2. Past(z, Len(y)) = Past(y, Len(y)) /\ Past(z, Len(y) - 1) = Past(y, Len(y) - 1)
      BY ONLY z = y \o o, y \in Seq(Int), o \in Seq(Int) DEF Past
    <3> QED
      BY ONLY <3>1, <3>2, Len(a) = Len(y)
  <2> QED
    BY ONLY <2>1, ShelfHears(q, a, y, Len(a)) DEF ShelfHears
<1>6. ASSUME NEW i \in Nat, i < Len(b), ShelfHears(S[i + 1], c, z, Len(a) + i)
      PROVE  /\ ShelfHears(S[(i + 1) + 1], c, z, Len(a) + (i + 1))
             /\ Recurrence(c, z, Len(a) + (i + 1))
  <2>1. i + 1 \in 1..Len(b) /\ i \in 0..Len(b)
    <3>1. PICK n \in Nat : n = Len(b)
      BY ONLY <1>3
    <3>2. i < n
      BY ONLY <3>1, <1>6
    <3> QED
      BY ONLY <3>1, <3>2, i \in Nat
  <2>2. PICK n \in Nat : n = Len(a) + i /\ n + 1 = Len(a) + (i + 1)
    <3>1. PICK m \in Nat : m = Len(a)
      BY ONLY <1>3
    <3>2. m + i \in Nat /\ (m + i) + 1 = m + (i + 1)
      BY ONLY m \in Nat, i \in Nat
    <3> QED
      BY ONLY <3>1, <3>2
  <2>3. /\ n + 1 \in DOMAIN c /\ n + 1 \in DOMAIN z
        /\ c[n + 1] = b[i + 1] /\ z[n + 1] = o[i + 1]
    <3>1. DOMAIN c = 1..Len(c) /\ DOMAIN z = 1..Len(z)
      BY ONLY <1>3
    <3>2. n + 1 \in 1..(Len(a) + Len(b))
      BY ONLY <2>1, <2>2, <1>3
    <3>3. c[Len(a) + (i + 1)] = b[i + 1] /\ z[Len(a) + (i + 1)] = o[i + 1]
      BY ONLY <2>1, <1>3
    <3> QED
      BY ONLY <3>1, <3>2, <3>3, <2>2, <1>3
  <2>4. z[n + 1] = Stepped(S[i + 1], Shelf, c[n + 1])
    <3>1. o[i + 1] = Stepped(S[i + 1], Shelf, b[i + 1])
      BY ONLY <2>1, <1>1, \A k \in 1..Len(b) : o[k] = Stepped(Steps(q, Shelf, b)[k], Shelf, b[k])
    <3> QED
      BY ONLY <2>3, <3>1
  <2>5. S[i + 1] \in StateType /\ S[(i + 1) + 1] = StepState(S[i + 1], Shelf, c[n + 1])
    BY <2>1, <2>3, <1>2, <1>4
  <2>6. ShelfHears(S[i + 1], c, z, n)
    BY <1>6, <2>2
  <2>7. ShelfHears(StepState(S[i + 1], Shelf, c[n + 1]), c, z, n + 1) /\ Recurrence(c, z, n + 1)
    BY ONLY <2>3, <2>4, <2>5, <2>6, <1>3, n \in Nat, ShelfStep
  <2> QED
    BY ONLY <2>2, <2>5, <2>7
<1> DEFINE T == {i \in Nat : i <= Len(b) => ShelfHears(S[i + 1], c, z, Len(a) + i)}
<1>7. 0 \in T
  BY <1>2, <1>3, <1>5
<1>8. ASSUME NEW i \in T PROVE i + 1 \in T
  BY <1>3, <1>6
<1>9. T = Nat
  BY <1>7, <1>8, NatSetInduction
<1>10. \A i \in 0..Len(b) : ShelfHears(S[i + 1], c, z, Len(a) + i)
  <2> TAKE i \in 0..Len(b)
  <2>1. i \in Nat /\ i <= Len(b)
    BY <1>3
  <2>2. i \in T
    BY <2>1, <1>9
  <2> QED
    BY <2>1, <2>2
<1>11. \A i \in 1..Len(b) : Recurrence(c, z, Len(a) + i)
  <2> TAKE i \in 1..Len(b)
  <2>1. PICK k \in Nat : k + 1 = i /\ k < Len(b) /\ k \in 0..Len(b)
    BY <1>3
  <2>2. Recurrence(c, z, Len(a) + (k + 1))
    BY ONLY <2>1, <1>6, <1>10
  <2> QED
    BY <2>1, <2>2
<1>12. Last(S) = S[Len(b) + 1] /\ Len(b) \in 0..Len(b)
  BY <1>2, <1>3 DEF Last
<1>13. Last(S) \in StateType
  BY <1>4, <1>12
<1>14. ShelfHears(Last(S), c, z, Len(c))
  BY ONLY <1>3, <1>10, <1>12
<1> QED
  BY ONLY <1>1, <1>11, <1>13, <1>14

-----------------------------------------------------------------------------
(* The parameters of the channel, and the knobs that bind them.            *)

MainPower == <<"preamp", POWERED>>
AirSwitch == <<"preamp", AIR>>
Powers == {MainPower, <<"ad", CONVERTER_POWERED>>, <<"da", CONVERTER_POWERED>>, <<"amp", POWERED>>}
Switches == Powers \union {AirSwitch}
Others == {<<"preamp", GAIN>>, <<"preamp", PAD>>, <<"amp", GAIN>>}
Crosspoints == {<<"matrix", 0>>, <<"matrix", 1>>, <<"matrix", 2>>, <<"matrix", 3>>}
Parameters == Switches \union Others \union Crosspoints

\* The crosspoints that are mixed into an output, and the knobs that turn them.
Column(j) == {<<"matrix", j>>, <<"matrix", 2 + j>>}
Own(j) == IF j = 0 THEN {"ad_to_send", "usb_to_send"} ELSE {"ad_to_monitor", "usb_to_monitor"}

LEMMA ColumnsAre ==
  /\ Column(0) = {<<"matrix", 0>>, <<"matrix", 2>>} /\ Column(1) = {<<"matrix", 1>>, <<"matrix", 3>>}
  /\ Own(0) = {"ad_to_send", "usb_to_send"} /\ Own(1) = {"ad_to_monitor", "usb_to_monitor"}
  /\ \A j \in {0, 1} : j = 0 \/ j = 1
<1>1. 2 + 0 = 2 /\ 2 + 1 = 3 /\ 1 # 0
  OBVIOUS
<1> QED
  BY <1>1 DEF Column, Own

LEMMA CrosspointsAre ==
  /\ {<<"matrix", Crosspoint(i, j)>> : i \in 0..1, j \in 0..1} = Crosspoints
  /\ GainOf(0, 0) = <<"matrix", 0>> /\ GainOf(1, 0) = <<"matrix", 2>>
  /\ GainOf(0, 1) = <<"matrix", 1>> /\ GainOf(1, 1) = <<"matrix", 3>>
<1>1. 0..1 = {0, 1}
  OBVIOUS
<1>2. Crosspoint(0, 0) = 0 /\ Crosspoint(0, 1) = 1 /\ Crosspoint(1, 0) = 2 /\ Crosspoint(1, 1) = 3
  BY DEF Crosspoint, Ways
<1>3. {<<"matrix", Crosspoint(i, j)>> : i \in 0..1, j \in 0..1}
        = {<<"matrix", Crosspoint(i, j)>> : i \in {0, 1}, j \in {0, 1}}
  BY <1>1
<1>4. {<<"matrix", Crosspoint(i, j)>> : i \in {0, 1}, j \in {0, 1}}
        = {<<"matrix", Crosspoint(0, 0)>>, <<"matrix", Crosspoint(0, 1)>>,
           <<"matrix", Crosspoint(1, 0)>>, <<"matrix", Crosspoint(1, 1)>>}
  OBVIOUS
<1>5. {<<"matrix", Crosspoint(i, j)>> : i \in 0..1, j \in 0..1} = Crosspoints
  BY ONLY <1>2, <1>3, <1>4 DEF Crosspoints
<1> QED
  BY ONLY <1>2, <1>5 DEF GainOf

LEMMA ParametersAre == DOMAIN Declared = Parameters
<1>1. DOMAIN Declared =
        {<<"preamp", GAIN>>, <<"preamp", POWERED>>, <<"preamp", PAD>>, <<"preamp", AIR>>,
         <<"amp", GAIN>>, <<"amp", POWERED>>, <<"ad", CONVERTER_POWERED>>, <<"da", CONVERTER_POWERED>>}
          \union {<<"matrix", Crosspoint(i, j)>> : i \in 0..1, j \in 0..1}
  BY DEF Declared
<1>2. DOMAIN Declared =
        {<<"preamp", GAIN>>, <<"preamp", POWERED>>, <<"preamp", PAD>>, <<"preamp", AIR>>,
         <<"amp", GAIN>>, <<"amp", POWERED>>, <<"ad", CONVERTER_POWERED>>, <<"da", CONVERTER_POWERED>>}
          \union Crosspoints
  BY ONLY <1>1, CrosspointsAre
<1> QED
  BY ONLY <1>2, Zenon DEF Parameters, Switches, Powers, Others, MainPower, AirSwitch

LEMMA DeclaredAs ==
  /\ \A p \in Powers : Declared[p] = Smoother(One, 0, One)
  /\ Declared[AirSwitch] = Smoother(0, 0, One) /\ Declared[<<"preamp", PAD>>] = Smoother(0, 0, One)
  /\ Declared[<<"amp", GAIN>>] = Smoother(One, 0, One)
  /\ Declared[<<"preamp", GAIN>>] = Smoother(One, One, 1000 * One)
  /\ Declared[<<"matrix", 0>>] = Smoother(One, 0, MaxGain)
  /\ Declared[<<"matrix", 1>>] = Smoother(0, 0, MaxGain)
  /\ Declared[<<"matrix", 2>>] = Smoother(0, 0, MaxGain)
  /\ Declared[<<"matrix", 3>>] = Smoother(One, 0, MaxGain)
<1> DEFINE D(p) ==
      CASE p[1] = "matrix" -> Smoother(IF p[2] % (Ways + 1) = 0 THEN One ELSE 0, 0, MaxGain)
        [] p = <<"preamp", GAIN>> -> Smoother(One, One, 1000 * One)
        [] p = <<"preamp", PAD>> \/ p = <<"preamp", AIR>> -> Switch(0)
        [] OTHER -> Switch(One)
<1>1. \A p \in Parameters : Declared[p] = D(p)
  <2>1. Declared = [p \in Parameters |-> D(p)]
    <3>1. Declared = [p \in DOMAIN Declared |-> D(p)]
      BY DEF Declared
    <3> HIDE DEF D
    <3> QED
      BY ONLY <3>1, ParametersAre
  <2> HIDE DEF D
  <2> QED
    BY ONLY <2>1
<1>2. \A p \in {<<"ad", CONVERTER_POWERED>>, <<"da", CONVERTER_POWERED>>, <<"amp", POWERED>>,
                <<"amp", GAIN>>, MainPower} : D(p) = Switch(One)
  <2>1. D(<<"ad", CONVERTER_POWERED>>) = Switch(One) /\ D(<<"da", CONVERTER_POWERED>>) = Switch(One)
    OBVIOUS
  <2>2. D(<<"amp", POWERED>>) = Switch(One) /\ D(<<"amp", GAIN>>) = Switch(One)
    OBVIOUS
  <2>3. D(MainPower) = Switch(One)
    BY DEF POWERED, GAIN, MainPower, PAD, AIR
  <2> HIDE DEF D
  <2> QED
    BY ONLY <2>1, <2>2, <2>3
<1>3. D(<<"preamp", GAIN>>) = Smoother(One, One, 1000 * One)
  BY DEF GAIN, PAD, AIR
<1>4. D(AirSwitch) = Switch(0) /\ D(<<"preamp", PAD>>) = Switch(0)
  BY DEF AirSwitch, AIR, PAD, GAIN
<1>5. \A k \in 0..3 : D(<<"matrix", k>>) = Smoother(IF k % (Ways + 1) = 0 THEN One ELSE 0, 0, MaxGain)
  OBVIOUS
<1>6. 0 % (Ways + 1) = 0 /\ 1 % (Ways + 1) = 1 /\ 2 % (Ways + 1) = 2 /\ 3 % (Ways + 1) = 0
  <2>1. Ways + 1 = 3
    BY DEF Ways
  <2> QED
    BY <2>1
<1> HIDE DEF D
<1>7. D(<<"matrix", 0>>) = Smoother(One, 0, MaxGain) /\ D(<<"matrix", 1>>) = Smoother(0, 0, MaxGain)
      /\ D(<<"matrix", 2>>) = Smoother(0, 0, MaxGain) /\ D(<<"matrix", 3>>) = Smoother(One, 0, MaxGain)
  <2>1. 0 \in 0..3 /\ 1 \in 0..3 /\ 2 \in 0..3 /\ 3 \in 0..3 /\ 1 # 0 /\ 2 # 0
    OBVIOUS
  <2> QED
    BY ONLY <2>1, <1>5, <1>6
<1>8. Switch(One) = Smoother(One, 0, One) /\ Switch(0) = Smoother(0, 0, One)
  BY DEF Switch
<1>9. /\ \A p \in Powers : p \in Parameters /\ D(p) = Switch(One)
      /\ <<"amp", GAIN>> \in Parameters /\ <<"preamp", GAIN>> \in Parameters /\ AirSwitch \in Parameters
      /\ <<"preamp", PAD>> \in Parameters
      /\ \A k \in {0, 1, 2, 3} : <<"matrix", k>> \in Parameters
  BY ONLY <1>2, Zenon DEF Parameters, Switches, Powers, Others, Crosspoints
<1> QED
  BY ONLY <1>1, <1>2, <1>3, <1>4, <1>7, <1>8, <1>9

LEMMA SmootherGlides ==
  ASSUME NEW d \in Int, NEW lo \in Int, NEW hi \in Int, lo <= d, d <= hi
  PROVE  Smoother(d, lo, hi) \in SmootherType /\ Gliding(Smoother(d, lo, hi))
<1>1. hi - lo \in Nat
  OBVIOUS
<1>2. GlideStep(hi - lo) \in Nat
  BY ONLY <1>1, GlideStepTyped
<1> QED
  BY <1>2 DEF Smoother, SmootherType, Gliding

SoundGlides(g) ==
  /\ DOMAIN g = Parameters
  /\ \A p \in Parameters : /\ g[p] \in SmootherType /\ Gliding(g[p])
                           /\ g[p].min = Declared[p].min /\ g[p].max = Declared[p].max

LEMMA DeclaredSound == SoundGlides(Declared)
<1>0. 0 \in Int /\ One \in Int /\ 0 <= One /\ 0 <= 0 /\ One <= One /\ One <= 1000 * One /\ 1000 * One \in Int
      /\ MaxGain \in Int /\ 0 <= MaxGain /\ One <= MaxGain
  BY UnitTyped DEF MaxGain
<1>1. /\ Smoother(One, 0, One) \in SmootherType /\ Gliding(Smoother(One, 0, One))
      /\ Smoother(0, 0, One) \in SmootherType /\ Gliding(Smoother(0, 0, One))
      /\ Smoother(One, One, 1000 * One) \in SmootherType /\ Gliding(Smoother(One, One, 1000 * One))
      /\ Smoother(One, 0, MaxGain) \in SmootherType /\ Gliding(Smoother(One, 0, MaxGain))
      /\ Smoother(0, 0, MaxGain) \in SmootherType /\ Gliding(Smoother(0, 0, MaxGain))
  BY ONLY <1>0, SmootherGlides
<1>2. \A p \in Parameters : Declared[p] \in SmootherType /\ Gliding(Declared[p])
  <2>1. Parameters = Powers \union {AirSwitch, <<"preamp", GAIN>>, <<"preamp", PAD>>, <<"amp", GAIN>>,
                       <<"matrix", 0>>, <<"matrix", 1>>, <<"matrix", 2>>, <<"matrix", 3>>}
    BY ONLY Zenon DEF Parameters, Switches, Others, Crosspoints
  <2>2. \A p \in Powers : Declared[p] \in SmootherType /\ Gliding(Declared[p])
    BY ONLY <1>1, DeclaredAs
  <2>3. \A p \in {AirSwitch, <<"preamp", GAIN>>, <<"preamp", PAD>>, <<"amp", GAIN>>} :
           Declared[p] \in SmootherType /\ Gliding(Declared[p])
    BY ONLY <1>1, DeclaredAs
  <2>4. \A p \in {<<"matrix", 0>>, <<"matrix", 1>>, <<"matrix", 2>>, <<"matrix", 3>>} :
           Declared[p] \in SmootherType /\ Gliding(Declared[p])
    BY ONLY <1>1, DeclaredAs
  <2> QED
    BY ONLY <2>1, <2>2, <2>3, <2>4
<1> QED
  BY ONLY <1>2, ParametersAre DEF SoundGlides

\* What a hand may have asked for.
SoundQueue(q) == DOMAIN q \subseteq Parameters /\ \A p \in DOMAIN q : q[p] \in Int

LEMMA AimedSound ==
  ASSUME SoundGlides(glides), SoundQueue(pending)
  PROVE  SoundGlides(Aimed) /\ \A p \in Parameters : Aimed[p].current = glides[p].current
<1>1. /\ DOMAIN Aimed = Parameters
      /\ \A p \in Parameters :
           Aimed[p] = IF p \in DOMAIN pending THEN SetTarget(glides[p], pending[p]) ELSE glides[p]
  BY DEF Aimed, SoundGlides
<1>2. ASSUME NEW p \in Parameters
      PROVE  /\ Aimed[p] \in SmootherType /\ Gliding(Aimed[p])
             /\ Aimed[p].min = glides[p].min /\ Aimed[p].max = glides[p].max
             /\ Aimed[p].current = glides[p].current
  <2>1. glides[p] \in SmootherType /\ Gliding(glides[p])
    BY DEF SoundGlides
  <2>2. CASE p \in DOMAIN pending
    <3>1. pending[p] \in Int
      BY <2>2 DEF SoundQueue
    <3> QED
      BY ONLY <3>1, <2>1, <2>2, <1>1, p \in Parameters, SetTargetGlides
  <2>3. CASE p \notin DOMAIN pending
    BY ONLY <2>1, <2>3, <1>1, p \in Parameters
  <2> QED
    BY <2>2, <2>3
<1> QED
  BY <1>1, <1>2 DEF SoundGlides

LEMMA AdvancedSound ==
  ASSUME NEW g, SoundGlides(g)
  PROVE  /\ SoundGlides(Advanced(g))
         /\ \A p \in Parameters : Advanced(g)[p] = Advance(g[p], BlockLen)
         /\ \A p \in Parameters : Advanced(g)[p].current = ValueAt(g[p], BlockLen)
<1>0. BlockLen \in Nat
  BY ChainAssumption
<1>1. DOMAIN Advanced(g) = Parameters /\ \A p \in Parameters : Advanced(g)[p] = Advance(g[p], BlockLen)
  BY DEF Advanced, SoundGlides
<1>2. ASSUME NEW p \in Parameters
      PROVE  /\ Advanced(g)[p] \in SmootherType /\ Gliding(Advanced(g)[p])
             /\ Advanced(g)[p].min = g[p].min /\ Advanced(g)[p].max = g[p].max
             /\ Advanced(g)[p].current = ValueAt(g[p], BlockLen)
  <2>1. g[p] \in SmootherType /\ Gliding(g[p])
    BY DEF SoundGlides
  <2> QED
    BY ONLY <2>1, <1>0, <1>1, p \in Parameters, AdvanceGlides
<1> QED
  BY <1>1, <1>2 DEF SoundGlides

\* The four parts that the power switch is bound to move as one.
Together(g) == \A p \in Powers : g[p] = g[MainPower]
Asked(q) ==
  \A p \in Powers : /\ p \in DOMAIN q <=> MainPower \in DOMAIN q
                    /\ p \in DOMAIN q => q[p] = q[MainPower]

\* The gains of an output's mix are as they were built.
AsBuilt(g, j) == \A p \in Column(j) : g[p] = Declared[p]
Unasked(q, j) == \A p \in Column(j) : p \notin DOMAIN q

LEMMA NamesAre ==
  /\ Powers \subseteq Parameters /\ Switches \subseteq Parameters
  /\ \A j \in {0, 1} : Column(j) \subseteq Crosspoints
  /\ MainPower \in Powers /\ AirSwitch \in Switches /\ MainPower \in Switches
  /\ Powers \subseteq Switches
  /\ \A p \in Others \union Crosspoints : p \in Parameters
<1>1. \A j \in {0, 1} : Column(j) \subseteq Crosspoints
  BY ONLY ColumnsAre DEF Crosspoints
<1> QED
  BY <1>1, Zenon DEF Parameters, Switches, Powers

LEMMA AimedTogether ==
  ASSUME SoundGlides(glides)
  PROVE  /\ Together(glides) /\ Asked(pending) => Together(Aimed)
         /\ \A j \in {0, 1} : AsBuilt(glides, j) /\ Unasked(pending, j) => AsBuilt(Aimed, j)
<1>1. \A p \in Parameters :
           Aimed[p] = IF p \in DOMAIN pending THEN SetTarget(glides[p], pending[p]) ELSE glides[p]
  BY DEF Aimed, SoundGlides
<1>2. Together(glides) /\ Asked(pending) => Together(Aimed)
  BY ONLY <1>1, NamesAre DEF Together, Asked
<1>3. ASSUME NEW j \in {0, 1}, AsBuilt(glides, j), Unasked(pending, j) PROVE AsBuilt(Aimed, j)
  BY ONLY <1>1, <1>3, NamesAre DEF AsBuilt, Unasked
<1> QED
  BY <1>2, <1>3

LEMMA AdvancedTogether ==
  ASSUME NEW g, SoundGlides(g)
  PROVE  /\ Together(g) => Together(Advanced(g))
         /\ \A j \in {0, 1} : AsBuilt(g, j) => AsBuilt(Advanced(g), j)
<1>1. \A p \in Parameters : Advanced(g)[p] = Advance(g[p], BlockLen)
  BY AdvancedSound
<1>2. Together(g) => Together(Advanced(g))
  BY ONLY <1>1, NamesAre DEF Together
<1>3. \A p \in Crosspoints : Advance(Declared[p], BlockLen) = Declared[p]
  <2>0. BlockLen \in Nat /\ One \in Int
    BY ChainAssumption, UnitTyped
  <2>1. ASSUME NEW d \in Int PROVE Advance(Smoother(d, 0, MaxGain), BlockLen) = Smoother(d, 0, MaxGain)
    <3>1. PICK s : s = [current |-> d, target |-> d, step |-> 0, min |-> 0, max |-> MaxGain]
      OBVIOUS
    <3>2. 0 * BlockLen = 0 /\ d + 0 = d
      BY <2>0
    <3>3. s.current = d /\ s.target = d /\ s.step = 0
      BY <3>1
    <3>4. ValueAt(s, BlockLen) = d
      BY ONLY <3>2, <3>3 DEF ValueAt, Toward
    <3>5. Advance(s, BlockLen) = [s EXCEPT !.current = d, !.step = 0]
      BY ONLY <3>3, <3>4 DEF Advance
    <3>6. Advance(s, BlockLen) = s
      BY ONLY <3>1, <3>5
    <3> QED
      BY ONLY <3>1, <3>6 DEF Smoother
  <2> QED
    BY <2>0, <2>1, DeclaredAs DEF Crosspoints
<1>4. ASSUME NEW j \in {0, 1}, AsBuilt(g, j) PROVE AsBuilt(Advanced(g), j)
  BY ONLY <1>1, <1>3, <1>4, NamesAre DEF AsBuilt
<1> QED
  BY <1>2, <1>4

\* What a knob's group holds: all four power parameters or none, and nothing of
\* an output's mix unless the knob is one of that mix.
LEMMA BoundAre ==
  ASSUME NEW control \in Controls
  PROVE  /\ Range(Bound(control)) \subseteq Parameters
         /\ \A p \in Powers : p \in Range(Bound(control)) <=> MainPower \in Range(Bound(control))
         /\ \A j \in {0, 1} : control \notin Own(j) => Range(Bound(control)) \intersect Column(j) = {}
<1>0. \A a : Range(<<a>>) = {a}
  BY DEF Range
<1>1. /\ Range(Bound("power")) = Powers
      /\ Bound("gain") = <<<<"preamp", GAIN>>>> /\ Bound("pad") = <<<<"preamp", PAD>>>>
      /\ Bound("air") = <<AirSwitch>> /\ Bound("volume") = <<<<"amp", GAIN>>>>
  <2>0. {"power", "gain", "pad", "air", "volume"} \intersect DOMAIN Routes = {}
    BY DEF Routes
  <2>1. \A a, b, c, d : Range(<<a, b, c, d>>) = {a, b, c, d}
    BY DEF Range
  <2>2. Bound("power") = <<<<"preamp", POWERED>>, <<"ad", CONVERTER_POWERED>>,
                           <<"da", CONVERTER_POWERED>>, <<"amp", POWERED>>>>
    BY <2>0 DEF Bound
  <2>3. Range(Bound("power")) = Powers
    <3>1. Range(Bound("power")) = {<<"preamp", POWERED>>, <<"ad", CONVERTER_POWERED>>,
                                   <<"da", CONVERTER_POWERED>>, <<"amp", POWERED>>}
      BY ONLY <2>1, <2>2
    <3>2. Powers = {<<"preamp", POWERED>>, <<"ad", CONVERTER_POWERED>>,
                    <<"da", CONVERTER_POWERED>>, <<"amp", POWERED>>}
      BY ONLY Zenon DEF Powers, MainPower
    <3> QED
      BY ONLY <3>1, <3>2, Zenon
  <2>4. Bound("gain") = <<<<"preamp", GAIN>>>>
    BY <2>0 DEF Bound
  <2>5. Bound("pad") = <<<<"preamp", PAD>>>>
    BY <2>0 DEF Bound
  <2>6. Bound("air") = <<<<"preamp", AIR>>>>
    BY <2>0 DEF Bound
  <2>7. Bound("volume") = <<<<"amp", GAIN>>>>
    BY <2>0 DEF Bound
  <2> QED
    BY ONLY <2>3, <2>4, <2>5, <2>6, <2>7 DEF AirSwitch
<1>2. /\ Bound("ad_to_send") = <<<<"matrix", 0>>>> /\ Bound("usb_to_send") = <<<<"matrix", 2>>>>
      /\ Bound("ad_to_monitor") = <<<<"matrix", 1>>>> /\ Bound("usb_to_monitor") = <<<<"matrix", 3>>>>
      /\ DOMAIN Routes = {"ad_to_send", "ad_to_monitor", "usb_to_send", "usb_to_monitor"}
  <2>1. Crosspoint(0, 0) = 0 /\ Crosspoint(0, 1) = 1 /\ Crosspoint(1, 0) = 2 /\ Crosspoint(1, 1) = 3
    BY DEF Crosspoint, Ways
  <2>2. /\ DOMAIN Routes = {"ad_to_send", "ad_to_monitor", "usb_to_send", "usb_to_monitor"}
        /\ Routes["ad_to_send"] = 0 /\ Routes["ad_to_monitor"] = 1
        /\ Routes["usb_to_send"] = 2 /\ Routes["usb_to_monitor"] = 3
    BY <2>1 DEF Routes
  <2> QED
    BY <2>2 DEF Bound
<1>3. \A p \in Powers \union Others \union {AirSwitch} : p \notin Crosspoints
  BY DEF Powers, Crosspoints, Others, MainPower, AirSwitch
<1>4. \A p \in Others \union Crosspoints \union {AirSwitch} : p \notin Powers
  BY DEF Powers, Crosspoints, Others, AirSwitch, MainPower, POWERED, CONVERTER_POWERED, GAIN, PAD, AIR
<1>5. CASE control = "power"
  BY ONLY <1>1, <1>3, <1>5, NamesAre
<1>6. CASE control \in {"gain", "pad", "air", "volume"}
  <2>1. PICK p \in Others \union {AirSwitch} : Range(Bound(control)) = {p}
    BY ONLY <1>0, <1>1, <1>6 DEF Others
  <2>2. p \in Parameters
    BY NamesAre
  <2> QED
    BY ONLY <2>1, <2>2, <1>3, <1>4, NamesAre
<1>7. CASE control \in DOMAIN Routes
  <2>1. \A a, b : a # b => <<"matrix", a>> # <<"matrix", b>>
    OBVIOUS
  <2>2. PICK p \in Crosspoints : /\ Range(Bound(control)) = {p}
                                 /\ \A j \in {0, 1} : control \notin Own(j) => p \notin Column(j)
    BY ONLY <1>0, <1>2, <1>7, <2>1, ColumnsAre DEF Crosspoints
  <2> QED
    BY ONLY <2>2, <1>4, NamesAre
<1> QED
  BY <1>5, <1>6, <1>7 DEF Controls

\* A knob is turned.
LEMMA TurnAsks ==
  ASSUME NEW control \in Controls, NEW target \in Int, SoundQueue(pending), Turn(control, target)
  PROVE  /\ SoundQueue(pending')
         /\ split \in BOOLEAN => split' \in BOOLEAN
         /\ ~split' => ~split /\ (Asked(pending) => Asked(pending'))
         /\ \A j \in {0, 1} : turned' \intersect Own(j) = {} =>
              turned \intersect Own(j) = {} /\ (Unasked(pending, j) => Unasked(pending', j))
<1>1. PICK stored : stored = Stored(Bound(control))
  OBVIOUS
<1>2. /\ DOMAIN pending' = DOMAIN pending \union stored
      /\ \A p \in DOMAIN pending' : pending'[p] = IF p \in stored THEN target ELSE pending[p]
      /\ split' = (split \/ stored # Range(Bound(control)))
      /\ turned' = turned \union {control}
  BY <1>1 DEF Turn
<1>3. stored \subseteq Range(Bound(control))
  BY <1>1 DEF Stored, Range
<1>4. /\ Range(Bound(control)) \subseteq Parameters
      /\ \A p \in Powers : p \in Range(Bound(control)) <=> MainPower \in Range(Bound(control))
      /\ \A j \in {0, 1} : control \notin Own(j) => Range(Bound(control)) \intersect Column(j) = {}
  BY BoundAre
<1>5. SoundQueue(pending')
  BY ONLY <1>2, <1>3, <1>4, SoundQueue(pending), target \in Int DEF SoundQueue
<1>6. ASSUME ~split' PROVE ~split /\ (Asked(pending) => Asked(pending'))
  <2>1. ~split /\ stored = Range(Bound(control))
    BY ONLY <1>2, <1>6
  <2> QED
    BY ONLY <2>1, <1>2, <1>4, NamesAre DEF Asked
<1>7. ASSUME NEW j \in {0, 1}, turned' \intersect Own(j) = {}
      PROVE  turned \intersect Own(j) = {} /\ (Unasked(pending, j) => Unasked(pending', j))
  <2>1. turned \intersect Own(j) = {} /\ control \notin Own(j)
    BY ONLY <1>2, <1>7
  <2> QED
    BY ONLY <2>1, <1>2, <1>3, <1>4 DEF Unasked
<1>8. split' \in BOOLEAN
  BY ONLY <1>2
<1> QED
  BY <1>5, <1>6, <1>7, <1>8

-----------------------------------------------------------------------------
(* What the nodes put out is a block of numbers.                           *)

DigitalLen == BlockLen \div M

LEMMA BlockLengths ==
  /\ BlockLen \in Nat \ {0} /\ M \in Nat \ {0} /\ DigitalLen \in Nat \ {0}
  /\ BlockLen = DigitalLen * M
  /\ Analog = 1..BlockLen /\ Digital = 1..DigitalLen
<1>1. BlockLen \in Nat \ {0} /\ M \in Nat \ {0} /\ BlockLen % M = 0
  BY ChainAssumption
<1>2. DigitalLen \in Nat
  BY ONLY <1>1, DivBelow DEF DigitalLen
<1>3. BlockLen = DigitalLen * M + 0
  <2>1. BlockLen \in Int
    BY <1>1
  <2> QED
    BY ONLY <2>1, <1>1, Euclid DEF DigitalLen
<1>4. DigitalLen # 0
  BY <1>1, <1>3
<1>5. DigitalLen * M \in Int
  BY <1>1, <1>2
<1>6. BlockLen = DigitalLen * M
  BY ONLY <1>3, <1>5
<1> QED
  BY ONLY <1>1, <1>2, <1>4, <1>6 DEF Analog, Digital, DigitalLen

LEMMA AnalogSignal ==
  ASSUME NEW x \in [Analog -> Int]
  PROVE  x \in Seq(Int) /\ Len(x) = BlockLen /\ DOMAIN x = 1..BlockLen
<1>1. x = [i \in 1..BlockLen |-> x[i]] /\ \A i \in 1..BlockLen : x[i] \in Int
  BY BlockLengths
<1>2. BlockLen \in Nat
  BY BlockLengths
<1> QED
  BY ONLY <1>1, <1>2, FunctionAsSeq

LEMMA DigitalSignal ==
  ASSUME NEW x \in [Digital -> Int]
  PROVE  x \in Seq(Int) /\ Len(x) = DigitalLen /\ DOMAIN x = 1..DigitalLen
<1>1. x = [i \in 1..DigitalLen |-> x[i]] /\ \A i \in 1..DigitalLen : x[i] \in Int
  BY BlockLengths
<1>2. DigitalLen \in Nat
  BY BlockLengths
<1> QED
  BY ONLY <1>1, <1>2, FunctionAsSeq

LEMMA GateTyped ==
  ASSUME NEW i \in Digital
  PROVE  GateAt(i) \in Nat /\ GateAt(i) = (i - 1) * M /\ GateAt(i) < BlockLen /\ i - 1 \in Nat
<1>1. i - 1 \in Nat /\ DigitalLen - 1 \in Nat /\ i - 1 <= DigitalLen - 1 /\ M \in Nat \ {0}
  BY BlockLengths
<1>2. (i - 1) * M <= (DigitalLen - 1) * M
  BY ONLY <1>1, Monotone
<1>3. (DigitalLen - 1) * M = BlockLen - M /\ (i - 1) * M \in Nat
  BY <1>1, BlockLengths
<1> QED
  BY ONLY <1>1, <1>2, <1>3, BlockLengths DEF GateAt

LEMMA ValueTyped ==
  ASSUME NEW g, SoundGlides(g), NEW p \in Parameters, NEW i \in Nat
  PROVE  ValueAt(g[p], i) \in Int
BY ValueGlides DEF SoundGlides

LEMMA AnalogIndex == \A i \in Analog : i - 1 \in Nat
  BY BlockLengths

LEMMA ParameterNames ==
  /\ {<<"preamp", GAIN>>, <<"preamp", POWERED>>, <<"preamp", PAD>>, <<"preamp", AIR>>,
      <<"amp", GAIN>>, <<"amp", POWERED>>, <<"ad", CONVERTER_POWERED>>,
      <<"da", CONVERTER_POWERED>>} \subseteq Parameters
  /\ \A i, j \in {0, 1} : GainOf(i, j) \in Parameters
<1>1. \A i, j \in {0, 1} : GainOf(i, j) \in Crosspoints
  BY ONLY CrosspointsAre DEF Crosspoints
<1>2. Crosspoints \subseteq Parameters
  BY NamesAre
<1> QED
  BY ONLY <1>1, <1>2, Zenon DEF Parameters, Switches, Powers, Others, MainPower, AirSwitch

LEMMA AmpedTyped ==
  ASSUME NEW g, SoundGlides(g), NEW plus \in [Analog -> Int], NEW minus \in [Analog -> Int],
         NEW ein \in [Analog -> Int]
  PROVE  Amped(g, plus, minus, ein) \in [Analog -> Int]
<1> DEFINE Pad(i) == ValueAt(g[<<"preamp", PAD>>], i - 1)
           Gain(i) == ValueAt(g[<<"preamp", GAIN>>], i - 1)
           Padded(i) == Times(plus[i] - minus[i], One + Times(Pad(i), PadFactor - One))
           Out(i) == Clamp(Times(Padded(i) + ein[i], Gain(i)), -Rail, Rail)
<1>1. ASSUME NEW i \in Analog PROVE Out(i) \in Int
  <2>1. Pad(i) \in Int /\ Gain(i) \in Int
    BY AnalogIndex, ParameterNames, ValueTyped
  <2>2. One \in Int /\ PadFactor - One \in Int /\ -Rail \in Int /\ Rail \in Int
    BY UnitTyped, ChainAssumption
  <2>3. plus[i] - minus[i] \in Int /\ ein[i] \in Int
    OBVIOUS
  <2> HIDE DEF Pad, Gain
  <2>4. One + Times(Pad(i), PadFactor - One) \in Int
    <3>1. PICK depth \in Int : depth = PadFactor - One
      BY ONLY <2>2
    <3>2. PICK pad \in Int : pad = Pad(i)
      BY ONLY <2>1
    <3>3. Times(pad, depth) \in Int
      BY ONLY pad \in Int, depth \in Int, TimesTyped
    <3> QED
      BY ONLY <3>1, <3>2, <3>3, <2>2
  <2>5. Padded(i) \in Int
    BY ONLY <2>3, <2>4, TimesTyped
  <2> HIDE DEF Padded
  <2>6. Padded(i) + ein[i] \in Int
    BY ONLY <2>3, <2>5
  <2>7. Times(Padded(i) + ein[i], Gain(i)) \in Int
    BY ONLY <2>1, <2>6, TimesTyped
  <2> QED
    BY ONLY <2>2, <2>7, ClampTyped
<1>2. Amped(g, plus, minus, ein) = [i \in Analog |-> Out(i)]
  BY DEF Amped
<1> HIDE DEF Out
<1> QED
  BY <1>1, <1>2

LEMMA ShelvedTyped ==
  ASSUME NEW g, NEW q \in StateType, NEW x \in [Analog -> Int]
  PROVE  /\ Shelved(g, q, x).out \in [Analog -> Int]
         /\ \A i \in Analog : Shelved(g, q, x).out[i] = Stepped(Steps(q, Shelf, x)[i], Shelf, x[i])
         /\ Shelved(g, q, x).state = Last(Steps(q, Shelf, x))
<1>1. PICK S : S = Steps(q, Shelf, x)
  OBVIOUS
<1>2. S \in Seq(StateType) /\ Len(S) = BlockLen + 1
  BY <1>1, AnalogSignal, ShelfTyped, StepsStep
<1>3. ASSUME NEW i \in Analog PROVE Stepped(S[i], Shelf, x[i]) \in Int
  <2>1. i \in 1..(BlockLen + 1) /\ x[i] \in Int
    BY BlockLengths
  <2>2. S[i] \in StateType
    BY ONLY <2>1, <1>2
  <2> QED
    BY ONLY <2>1, <2>2, ShelfTyped, StepTyped
<1>4. Shelved(g, q, x) = [state |-> Last(S), out |-> [i \in Analog |-> Stepped(S[i], Shelf, x[i])]]
  BY <1>1 DEF Shelved
<1> QED
  BY ONLY <1>1, <1>3, <1>4

LEMMA PreampTyped ==
  ASSUME NEW g, SoundGlides(g), NEW x \in [Analog -> Int], NEW y \in [Analog -> Int]
  PROVE  /\ Preamp(g, x, y) \in [Analog -> Int]
         /\ \A i \in Analog : /\ ValueAt(g[AirSwitch], i - 1) = One
                              /\ ValueAt(g[MainPower], i - 1) = One
                              => Preamp(g, x, y)[i] = y[i]
<1> DEFINE Air(i) == ValueAt(g[<<"preamp", AIR>>], i - 1)
           Power(i) == ValueAt(g[<<"preamp", POWERED>>], i - 1)
           Out(i) == Times(x[i] + Times(y[i] - x[i], Air(i)), Power(i))
<1>1. ASSUME NEW i \in Analog
      PROVE  Out(i) \in Int /\ (Air(i) = One /\ Power(i) = One => Out(i) = y[i])
  <2>1. Air(i) \in Int /\ Power(i) \in Int /\ x[i] \in Int /\ y[i] \in Int /\ y[i] - x[i] \in Int
    BY AnalogIndex, ParameterNames, ValueTyped
  <2> HIDE DEF Air, Power
  <2>2. Times(y[i] - x[i], Air(i)) \in Int /\ Times(y[i] - x[i], One) = y[i] - x[i]
    BY ONLY <2>1, TimesTyped
  <2>3. x[i] + Times(y[i] - x[i], Air(i)) \in Int
    BY ONLY <2>1, <2>2
  <2>4. Out(i) \in Int /\ Times(y[i], One) = y[i]
    BY ONLY <2>1, <2>3, TimesTyped
  <2>5. x[i] + (y[i] - x[i]) = y[i]
    BY ONLY <2>1
  <2> QED
    BY ONLY <2>2, <2>4, <2>5
<1>2. Preamp(g, x, y) = [i \in Analog |-> Out(i)]
  BY DEF Preamp
<1>3. \A i \in Analog : Air(i) = ValueAt(g[AirSwitch], i - 1) /\ Power(i) = ValueAt(g[MainPower], i - 1)
  BY DEF AirSwitch, MainPower
<1> HIDE DEF Out, Air, Power
<1>4. Preamp(g, x, y) \in [Analog -> Int]
  BY ONLY <1>1, <1>2
<1>5. \A i \in Analog : Preamp(g, x, y)[i] = Out(i)
  BY ONLY <1>2
<1> QED
  BY ONLY <1>1, <1>3, <1>4, <1>5

LEMMA QuantisedTyped ==
  ASSUME NEW x \in Int, NEW d \in Int
  PROVE  Quantised(x, d) \in Int
<1>1. Lsb \in Nat \ {0} /\ FullScale \in Nat /\ 2 * Lsb \in Nat \ {0}
  BY ChainAssumption
<1>2. ASSUME NEW v \in Int PROVE Rounded(v) \in Int
  <2>1. 2 * v + Lsb \in Int /\ Lsb - 2 * v \in Int
    BY <1>1
  <2>2. (2 * v + Lsb) \div (2 * Lsb) \in Int /\ (Lsb - 2 * v) \div (2 * Lsb) \in Int
    BY ONLY <2>1, <1>1, Parts
  <2> QED
    BY ONLY <2>2 DEF Rounded
<1>3. -FullScale * Lsb \in Int /\ FullScale * Lsb \in Int /\ -FullScale \in Int /\ FullScale \in Int
  BY <1>1
<1>4. Clamp(x, -FullScale * Lsb, FullScale * Lsb) + d \in Int
  <2>1. Clamp(x, -FullScale * Lsb, FullScale * Lsb) \in Int
    BY ONLY <1>3, x \in Int, ClampTyped
  <2> QED
    BY ONLY <2>1, d \in Int
<1>5. Rounded(Clamp(x, -FullScale * Lsb, FullScale * Lsb) + d) \in Int
  BY ONLY <1>2, <1>4
<1> QED
  BY ONLY <1>3, <1>5, ClampTyped DEF Quantised

LEMMA AdTyped ==
  ASSUME NEW g, SoundGlides(g), NEW x \in Seq(Int), Len(x) = DigitalLen, NEW dither \in [Digital -> Int]
  PROVE  Ad(g, x, dither) \in [Digital -> Int]
<1>1. ASSUME NEW i \in Digital
      PROVE  Quantised(x[i], dither[i]) * ValueAt(g[<<"ad", CONVERTER_POWERED>>], GateAt(i)) \in Int
  <2>1. x[i] \in Int /\ dither[i] \in Int
    BY BlockLengths
  <2>2. Quantised(x[i], dither[i]) \in Int
    BY ONLY <2>1, QuantisedTyped
  <2>3. ValueAt(g[<<"ad", CONVERTER_POWERED>>], GateAt(i)) \in Int
    BY GateTyped, ParameterNames, ValueTyped
  <2> QED
    BY ONLY <2>2, <2>3
<1> QED
  BY <1>1 DEF Ad

\* The sum of the two inputs of the matrix.
LEMMA RoutedIs ==
  ASSUME NEW g, SoundGlides(g), NEW x \in [Digital -> Int], NEW y \in [Digital -> Int], NEW j \in {0, 1}
  PROVE  /\ Routed(g, <<x, y>>, j) \in [Digital -> Int]
         /\ \A s \in Digital : Routed(g, <<x, y>>, j)[s] =
              Times(x[s], ValueAt(g[GainOf(0, j)], s - 1)) + Times(y[s], ValueAt(g[GainOf(1, j)], s - 1))
<1> DEFINE f(s) == [i \in {0, 1} |-> Times(<<x, y>>[i + 1][s], ValueAt(g[GainOf(i, j)], SampleIndex(s)))]
<1>1. ASSUME NEW s \in Digital
      PROVE  /\ SumFunction(f(s)) \in Int
             /\ SumFunction(f(s)) = Times(x[s], ValueAt(g[GainOf(0, j)], s - 1))
                                      + Times(y[s], ValueAt(g[GainOf(1, j)], s - 1))
  <2>1. s - 1 \in Nat /\ x[s] \in Int /\ y[s] \in Int
    BY GateTyped
  <2>2. ValueAt(g[GainOf(0, j)], s - 1) \in Int /\ ValueAt(g[GainOf(1, j)], s - 1) \in Int
    BY <2>1, ParameterNames, ValueTyped
  <2>3. PICK a \in Int : a = Times(x[s], ValueAt(g[GainOf(0, j)], s - 1))
    BY ONLY <2>1, <2>2, TimesTyped
  <2>4. PICK b \in Int : b = Times(y[s], ValueAt(g[GainOf(1, j)], s - 1))
    BY ONLY <2>1, <2>2, TimesTyped
  <2>5. DOMAIN f(s) = {0, 1} /\ f(s)[0] = a /\ f(s)[1] = b
    BY <2>3, <2>4 DEF SampleIndex
  <2>6. 0 # 1 /\ a + b \in Int
    OBVIOUS
  <2> HIDE DEF f
  <2>7. SumFunction(f(s)) = a + b
    BY ONLY <2>5, <2>6, a \in Int, b \in Int, SumOfTwo
  <2> QED
    BY ONLY <2>3, <2>4, <2>6, <2>7
<1>2. Routed(g, <<x, y>>, j) = [s \in Digital |-> SumFunction(f(s))]
  BY DEF Routed
<1> HIDE DEF f
<1> QED
  BY ONLY <1>1, <1>2

LEMMA DaTyped ==
  ASSUME NEW g, SoundGlides(g), NEW x \in Seq(Int), Len(x) = BlockLen
  PROVE  Da(g, x) \in [Analog -> Int]
<1>1. ASSUME NEW i \in Analog PROVE Times(x[i], ValueAt(g[<<"da", CONVERTER_POWERED>>], i - 1)) \in Int
  <2>1. x[i] \in Int
    BY BlockLengths
  <2>2. ValueAt(g[<<"da", CONVERTER_POWERED>>], i - 1) \in Int
    BY AnalogIndex, ParameterNames, ValueTyped
  <2> QED
    BY ONLY <2>1, <2>2, TimesTyped
<1> QED
  BY <1>1 DEF Da

LEMMA AmpTyped ==
  ASSUME NEW g, SoundGlides(g), NEW x \in [Analog -> Int]
  PROVE  Amp(g, x) \in [Analog -> Int]
<1> DEFINE Gain(i) == ValueAt(g[<<"amp", GAIN>>], i - 1)
           Power(i) == ValueAt(g[<<"amp", POWERED>>], i - 1)
           Out(i) == Times(Clamp(Times(x[i], Gain(i)), -Rail * One, Rail * One), Power(i))
<1>1. ASSUME NEW i \in Analog PROVE Out(i) \in Int
  <2>1. Gain(i) \in Int /\ Power(i) \in Int /\ x[i] \in Int
    BY AnalogIndex, ParameterNames, ValueTyped
  <2> HIDE DEF Gain, Power
  <2>2. -Rail * One \in Int /\ Rail * One \in Int
    BY UnitTyped, ChainAssumption
  <2>3. Times(x[i], Gain(i)) \in Int
    BY ONLY <2>1, TimesTyped
  <2>4. Clamp(Times(x[i], Gain(i)), -Rail * One, Rail * One) \in Int
    BY ONLY <2>2, <2>3, ClampTyped
  <2> QED
    BY ONLY <2>1, <2>4, TimesTyped
<1>2. Amp(g, x) = [i \in Analog |-> Out(i)]
  BY DEF Amp
<1> HIDE DEF Out
<1> QED
  BY <1>1, <1>2

LEMMA CapturedTyped ==
  ASSUME NEW x \in Seq(Int)
  PROVE  /\ Captured(x) \in Seq(Int) /\ Len(Captured(x)) = Len(x)
         /\ \A i \in 1..Len(x) : Captured(x)[i] = Clamp(x[i], -FullScale * One, FullScale * One)
<1>1. \A i \in 1..Len(x) : Clamp(x[i], -FullScale * One, FullScale * One) \in Int
  <2>1. -FullScale * One \in Int /\ FullScale * One \in Int
    BY UnitTyped, ChainAssumption
  <2>2. \A i \in 1..Len(x) : x[i] \in Int
    OBVIOUS
  <2> QED
    BY ONLY <2>1, <2>2, ClampTyped
<1>2. DOMAIN x = 1..Len(x) /\ Len(x) \in Nat
  OBVIOUS
<1>3. Captured(x) = [i \in 1..Len(x) |-> Clamp(x[i], -FullScale * One, FullScale * One)]
  BY <1>2 DEF Captured
<1>4. /\ Captured(x) = [i \in 1..Len(x) |-> Captured(x)[i]]
      /\ \A i \in 1..Len(x) : Captured(x)[i] \in Int
                              /\ Captured(x)[i] = Clamp(x[i], -FullScale * One, FullScale * One)
  BY ONLY <1>1, <1>3
<1>5. Captured(x) \in Seq(Int) /\ Len(Captured(x)) = Len(x)
  BY ONLY <1>2, <1>4, FunctionAsSeq
<1> QED
  BY <1>4, <1>5

-----------------------------------------------------------------------------
(* The trace grows by a block.                                             *)

AnalogNames == {"amped", "shelved", "preamp", "da", "amp", "air", "power", "da_power", "amp_power"}
DigitalNames == {"ad", "usb", "send", "monitor", "host", "ad_power"}
TraceNames == AnalogNames \union DigitalNames \union {"line", "route"}
LineType == [mic : Int, ein : Int, pad : Int, gain : Int]
RouteType == [0..3 -> Int]

\* b blocks of each signal.
Sound(t, b) ==
  /\ DOMAIN t = TraceNames
  /\ \A n \in AnalogNames : t[n] \in Seq(Int) /\ Len(t[n]) = b * BlockLen
  /\ \A n \in DigitalNames : t[n] \in Seq(Int) /\ Len(t[n]) = b * DigitalLen
  /\ t["line"] \in Seq(LineType) /\ Len(t["line"]) = b * BlockLen
  /\ t["route"] \in Seq(RouteType) /\ Len(t["route"]) = b * DigitalLen

Grows(t, now, u) ==
  /\ DOMAIN u = TraceNames
  /\ \A n \in TraceNames :
       /\ u[n] = t[n] \o now[n]
       /\ \A i \in 1..Len(t[n]) : u[n][i] = t[n][i]
       /\ \A i \in 1..Len(now[n]) : u[n][Len(t[n]) + i] = now[n][i]

LEMMA NextMultiple ==
  ASSUME NEW b \in Nat, NEW c \in Nat
  PROVE  b * c \in Nat /\ (b + 1) * c = b * c + c
  OBVIOUS

LEMMA SoundGrows ==
  ASSUME NEW t, NEW b \in Nat, Sound(t, b), NEW now, Sound(now, 1),
         NEW u, u = [n \in DOMAIN t |-> t[n] \o now[n]]
  PROVE  Sound(u, b + 1) /\ Grows(t, now, u)
<1>1. DOMAIN u = TraceNames /\ \A n \in TraceNames : u[n] = t[n] \o now[n]
  BY DEF Sound
<1>2. /\ 1 * BlockLen = BlockLen /\ 1 * DigitalLen = DigitalLen
      /\ (b + 1) * BlockLen = b * BlockLen + BlockLen
      /\ (b + 1) * DigitalLen = b * DigitalLen + DigitalLen
  <2>1. BlockLen \in Nat /\ DigitalLen \in Nat
    BY BlockLengths
  <2> QED
    BY ONLY <2>1, b \in Nat, NextMultiple
<1>3. ASSUME NEW n \in AnalogNames
      PROVE  /\ u[n] \in Seq(Int) /\ Len(u[n]) = (b + 1) * BlockLen
             /\ \A i \in 1..Len(t[n]) : u[n][i] = t[n][i]
             /\ \A i \in 1..Len(now[n]) : u[n][Len(t[n]) + i] = now[n][i]
  <2>0. Len(t[n]) = b * BlockLen /\ Len(now[n]) = 1 * BlockLen
    BY DEF Sound
  <2>1. PICK x \in Seq(Int) : x = t[n]
    BY DEF Sound
  <2>2. PICK y \in Seq(Int) : y = now[n]
    BY DEF Sound
  <2>3. PICK z : z = u[n] /\ z = x \o y
    BY ONLY <1>1, <2>1, <2>2, n \in AnalogNames DEF TraceNames
  <2>4. /\ z \in Seq(Int) /\ Len(z) = Len(x) + Len(y)
        /\ \A i \in 1..Len(x) : z[i] = x[i]
        /\ \A i \in 1..Len(y) : z[Len(x) + i] = y[i]
    BY ONLY <2>3, x \in Seq(Int), y \in Seq(Int)
  <2>5. /\ u[n] \in Seq(Int) /\ Len(u[n]) = Len(t[n]) + Len(now[n])
        /\ \A i \in 1..Len(t[n]) : u[n][i] = t[n][i]
        /\ \A i \in 1..Len(now[n]) : u[n][Len(t[n]) + i] = now[n][i]
    BY ONLY <2>1, <2>2, <2>3, <2>4
  <2> QED
    BY ONLY <2>0, <2>5, <1>2
<1>4. ASSUME NEW n \in DigitalNames
      PROVE  /\ u[n] \in Seq(Int) /\ Len(u[n]) = (b + 1) * DigitalLen
             /\ \A i \in 1..Len(t[n]) : u[n][i] = t[n][i]
             /\ \A i \in 1..Len(now[n]) : u[n][Len(t[n]) + i] = now[n][i]
  <2>0. Len(t[n]) = b * DigitalLen /\ Len(now[n]) = 1 * DigitalLen
    BY DEF Sound
  <2>1. PICK x \in Seq(Int) : x = t[n]
    BY DEF Sound
  <2>2. PICK y \in Seq(Int) : y = now[n]
    BY DEF Sound
  <2>3. PICK z : z = u[n] /\ z = x \o y
    BY ONLY <1>1, <2>1, <2>2, n \in DigitalNames DEF TraceNames
  <2>4. /\ z \in Seq(Int) /\ Len(z) = Len(x) + Len(y)
        /\ \A i \in 1..Len(x) : z[i] = x[i]
        /\ \A i \in 1..Len(y) : z[Len(x) + i] = y[i]
    BY ONLY <2>3, x \in Seq(Int), y \in Seq(Int)
  <2>5. /\ u[n] \in Seq(Int) /\ Len(u[n]) = Len(t[n]) + Len(now[n])
        /\ \A i \in 1..Len(t[n]) : u[n][i] = t[n][i]
        /\ \A i \in 1..Len(now[n]) : u[n][Len(t[n]) + i] = now[n][i]
    BY ONLY <2>1, <2>2, <2>3, <2>4
  <2> QED
    BY ONLY <2>0, <2>5, <1>2
<1>5. /\ u["line"] \in Seq(LineType) /\ Len(u["line"]) = (b + 1) * BlockLen
      /\ \A i \in 1..Len(t["line"]) : u["line"][i] = t["line"][i]
      /\ \A i \in 1..Len(now["line"]) : u["line"][Len(t["line"]) + i] = now["line"][i]
  <2>0. Len(t["line"]) = b * BlockLen /\ Len(now["line"]) = 1 * BlockLen
    BY DEF Sound
  <2>1. PICK x \in Seq(LineType) : x = t["line"]
    BY DEF Sound
  <2>2. PICK y \in Seq(LineType) : y = now["line"]
    BY DEF Sound
  <2>3. PICK z : z = u["line"] /\ z = x \o y
    BY ONLY <1>1, <2>1, <2>2, Zenon DEF TraceNames
  <2>4. /\ z \in Seq(LineType) /\ Len(z) = Len(x) + Len(y)
        /\ \A i \in 1..Len(x) : z[i] = x[i]
        /\ \A i \in 1..Len(y) : z[Len(x) + i] = y[i]
    BY ONLY <2>3, x \in Seq(LineType), y \in Seq(LineType)
  <2>5. /\ u["line"] \in Seq(LineType) /\ Len(u["line"]) = Len(t["line"]) + Len(now["line"])
        /\ \A i \in 1..Len(t["line"]) : u["line"][i] = t["line"][i]
        /\ \A i \in 1..Len(now["line"]) : u["line"][Len(t["line"]) + i] = now["line"][i]
    BY ONLY <2>1, <2>2, <2>3, <2>4
  <2> QED
    BY ONLY <2>0, <2>5, <1>2
<1>6. /\ u["route"] \in Seq(RouteType) /\ Len(u["route"]) = (b + 1) * DigitalLen
      /\ \A i \in 1..Len(t["route"]) : u["route"][i] = t["route"][i]
      /\ \A i \in 1..Len(now["route"]) : u["route"][Len(t["route"]) + i] = now["route"][i]
  <2>0. Len(t["route"]) = b * DigitalLen /\ Len(now["route"]) = 1 * DigitalLen
    BY DEF Sound
  <2>1. PICK x \in Seq(RouteType) : x = t["route"]
    BY DEF Sound
  <2>2. PICK y \in Seq(RouteType) : y = now["route"]
    BY DEF Sound
  <2>3. PICK z : z = u["route"] /\ z = x \o y
    BY ONLY <1>1, <2>1, <2>2, Zenon DEF TraceNames
  <2>4. /\ z \in Seq(RouteType) /\ Len(z) = Len(x) + Len(y)
        /\ \A i \in 1..Len(x) : z[i] = x[i]
        /\ \A i \in 1..Len(y) : z[Len(x) + i] = y[i]
    BY ONLY <2>3, x \in Seq(RouteType), y \in Seq(RouteType)
  <2>5. /\ u["route"] \in Seq(RouteType) /\ Len(u["route"]) = Len(t["route"]) + Len(now["route"])
        /\ \A i \in 1..Len(t["route"]) : u["route"][i] = t["route"][i]
        /\ \A i \in 1..Len(now["route"]) : u["route"][Len(t["route"]) + i] = now["route"][i]
    BY ONLY <2>1, <2>2, <2>3, <2>4
  <2> QED
    BY ONLY <2>0, <2>5, <1>2
<1>7. Sound(u, b + 1)
  BY ONLY <1>1, <1>3, <1>4, <1>5, <1>6 DEF Sound
<1>8. ASSUME NEW n \in TraceNames
      PROVE  /\ \A i \in 1..Len(t[n]) : u[n][i] = t[n][i]
             /\ \A i \in 1..Len(now[n]) : u[n][Len(t[n]) + i] = now[n][i]
  <2>1. n \in AnalogNames \/ n \in DigitalNames \/ n = "line" \/ n = "route"
    BY DEF TraceNames
  <2> QED
    BY ONLY <2>1, <1>3, <1>4, <1>5, <1>6
<1> QED
  BY ONLY <1>1, <1>7, <1>8 DEF Grows

LEMMA OldOrNew ==
  ASSUME NEW a \in Nat, NEW c \in Nat, NEW i \in 1..(a + c)
  PROVE  i \in 1..a \/ \E j \in 1..c : i = a + j
<1>1. CASE i > a
  <2>1. i - a \in 1..c /\ i = a + (i - a)
    BY <1>1
  <2> QED
    BY <2>1
<1> QED
  BY <1>1

\* The end of b blocks, at both rates.
LEMMA BlockEnds ==
  ASSUME NEW b \in Nat
  PROVE  /\ b * BlockLen \in Nat /\ b * DigitalLen \in Nat /\ b * BlockLen = (b * DigitalLen) * M
         /\ (b + 1) * BlockLen = b * BlockLen + BlockLen
         /\ (b + 1) * DigitalLen = b * DigitalLen + DigitalLen
         /\ \A n \in Int : (b * DigitalLen + n) * M = b * BlockLen + n * M
<1>1. PICK D \in Nat : D = DigitalLen /\ BlockLen = D * M
  BY BlockLengths
<1>2. M \in Nat /\ BlockLen \in Nat
  BY BlockLengths
<1>3. b * (D * M) = (b * D) * M /\ \A n \in Int : (b * D + n) * M = (b * D) * M + n * M
  BY ONLY <1>2, b \in Nat, D \in Nat
<1>4. /\ b * BlockLen \in Nat /\ b * D \in Nat /\ (b + 1) * BlockLen = b * BlockLen + BlockLen
      /\ (b + 1) * D = b * D + D
  BY ONLY <1>2, b \in Nat, D \in Nat, NextMultiple
<1> QED
  BY ONLY <1>1, <1>3, <1>4

-----------------------------------------------------------------------------
(* What holds of the trace holds of it with a block more.                  *)

\* z is x, of a numbers, and y behind it, of c.
Longer(x, y, z, a, c) ==
  /\ x \in Seq(Int) /\ y \in Seq(Int) /\ z \in Seq(Int) /\ z = x \o y
  /\ Len(x) = a /\ Len(y) = c /\ DOMAIN x = 1..a /\ DOMAIN z = 1..(a + c)
  /\ \A i \in 1..a : z[i] = x[i]
  /\ \A i \in 1..c : z[a + i] = y[i]

LEMMA LongerIs ==
  ASSUME NEW x \in Seq(Int), NEW y \in Seq(Int), NEW a, Len(x) = a, NEW c, Len(y) = c, NEW z, z = x \o y
  PROVE  Longer(x, y, z, a, c)
<1>1. /\ z \in Seq(Int) /\ Len(z) = Len(x) + Len(y)
      /\ \A i \in 1..Len(x) : z[i] = x[i]
      /\ \A i \in 1..Len(y) : z[Len(x) + i] = y[i]
  BY ONLY z = x \o y, x \in Seq(Int), y \in Seq(Int)
<1>2. DOMAIN z = 1..Len(z) /\ DOMAIN x = 1..Len(x)
  BY ONLY <1>1, x \in Seq(Int)
<1> QED
  BY ONLY <1>1, <1>2, x \in Seq(Int), y \in Seq(Int), Len(x) = a, Len(y) = c, z = x \o y DEF Longer

LEMMA Lengths ==
  ASSUME NEW t, NEW b \in Nat, Sound(t, b), NEW now, Sound(now, 1), NEW u, Grows(t, now, u)
  PROVE  /\ \A n \in AnalogNames : Longer(t[n], now[n], u[n], b * BlockLen, BlockLen)
         /\ \A n \in DigitalNames : Longer(t[n], now[n], u[n], b * DigitalLen, DigitalLen)
<1>1. 1 * BlockLen = BlockLen /\ 1 * DigitalLen = DigitalLen
  BY BlockLengths
<1>2. \A n \in AnalogNames \union DigitalNames : u[n] = t[n] \o now[n]
  BY DEF Grows, TraceNames
<1>3. ASSUME NEW n \in AnalogNames
      PROVE  Longer(t[n], now[n], u[n], b * BlockLen, BlockLen)
  <2>1. /\ t[n] \in Seq(Int) /\ now[n] \in Seq(Int)
        /\ Len(t[n]) = b * BlockLen /\ Len(now[n]) = BlockLen
    BY <1>1 DEF Sound
  <2> QED
    BY ONLY <2>1, <1>2, n \in AnalogNames, LongerIs
<1>4. ASSUME NEW n \in DigitalNames
      PROVE  Longer(t[n], now[n], u[n], b * DigitalLen, DigitalLen)
  <2>1. /\ t[n] \in Seq(Int) /\ now[n] \in Seq(Int)
        /\ Len(t[n]) = b * DigitalLen /\ Len(now[n]) = DigitalLen
    BY <1>1 DEF Sound
  <2> QED
    BY ONLY <2>1, <1>2, n \in DigitalNames, LongerIs
<1> QED
  BY <1>3, <1>4

LEMMA EarlierSamples ==
  ASSUME NEW b \in Nat, NEW i \in 1..(b * DigitalLen)
  PROVE  i * M \in Int /\ i * M <= b * BlockLen
<1>1. b * DigitalLen \in Nat /\ i \in Nat /\ i <= b * DigitalLen /\ M \in Nat /\ i * M \in Int
  BY BlockEnds, BlockLengths
<1>2. i * M <= (b * DigitalLen) * M
  BY ONLY <1>1, Monotone
<1> QED
  BY ONLY <1>1, <1>2, b \in Nat, BlockEnds

AdHears(t) ==
  \A i \in DOMAIN t.ad : \E draws \in DitherDraws : \E d \in Range(draws) :
    t.ad[i] = Quantised(Convolved(AaTaps, t.preamp, i * M), d) * t.ad_power[i]
HostHears(t) ==
  \A i \in DOMAIN t.host :
    t.host[i] = Clamp(Convolved(AaTaps, t.amp, i * M), -FullScale * One, FullScale * One)
DaHears(t) ==
  \A n \in DOMAIN t.da :
    t.da[n] = Times(Convolved(ReconTaps, Stuffed(t.monitor), n), t.da_power[n])

LEMMA TapsTyped ==
  /\ AaTaps \in Seq(Int) /\ AaTaps # <<>> /\ Len(AaTaps) \in Nat \ {0}
  /\ ReconTaps \in Seq(Int) /\ ReconTaps # <<>> /\ Span(ReconTaps, M) \in Nat \ {0}
<1>1. AaTaps \in Seq(Int) /\ AaTaps # <<>> /\ ReconTaps \in Seq(Int) /\ ReconTaps # <<>>
  BY ChainAssumption
<1>2. Len(AaTaps) \in Nat \ {0} /\ Len(ReconTaps) \in Nat \ {0}
  BY <1>1
<1>3. 1 * M <= Len(ReconTaps) + M - 1 /\ Len(ReconTaps) + M - 1 \in Nat
  BY <1>2, BlockLengths
<1>4. 1 <= Span(ReconTaps, M)
  BY ONLY <1>3, 1 \in Nat, BlockLengths, Fits DEF Span
<1>5. Span(ReconTaps, M) \in Int
  BY ONLY <1>3, BlockLengths, Parts DEF Span
<1>6. Span(ReconTaps, M) \in Nat \ {0}
  BY ONLY <1>4, <1>5
<1> QED
  BY ONLY <1>1, <1>2, <1>6

\* The old outputs of a decimator, and those of the block behind b.
Continues(d, x, z, B) ==
  /\ d.ring \in RingType(Len(AaTaps)) /\ Hears(d.ring, Len(AaTaps), z, Len(z))
  /\ d.out \in Seq(Int) /\ Len(d.out) = DigitalLen
  /\ \A i \in 1..B : Convolved(AaTaps, z, i * M) = Convolved(AaTaps, x, i * M)
  /\ \A n \in 1..DigitalLen : d.out[n] = Convolved(AaTaps, z, (B + n) * M)

LEMMA DecimatedBlock ==
  ASSUME NEW x, NEW y, NEW z, NEW b \in Nat, NEW A, A = b * BlockLen, NEW B, B = b * DigitalLen,
         Longer(x, y, z, A, BlockLen),
         NEW ring \in RingType(Len(AaTaps)), Hears(ring, Len(AaTaps), x, Len(x)),
         NEW d, d = Decimate(AaTaps, M, ring, y)
  PROVE  Continues(d, x, z, B)
<1>1. M \in Nat \ {0} /\ DigitalLen = BlockLen \div M
  BY BlockLengths DEF DigitalLen
<1>2. x \in Seq(Int) /\ y \in Seq(Int) /\ z = x \o y /\ Len(x) = A /\ Len(y) = BlockLen
  BY DEF Longer
<1>3. Outputs(d, AaTaps, x, z, M, DigitalLen)
  <2>1. x \in Seq(Int) /\ y \in Seq(Int) /\ z = x \o y
    BY <1>2
  <2>2. AaTaps \in Seq(Int) /\ AaTaps # <<>> /\ M \in Nat \ {0}
    BY <1>1, TapsTyped
  <2>3. DigitalLen = Len(y) \div M
    BY ONLY <1>1, <1>2
  <2> QED
    BY ONLY <2>1, <2>2, ring \in RingType(Len(AaTaps)), Hears(ring, Len(AaTaps), x, Len(x)),
            d = Decimate(AaTaps, M, ring, y), <2>3, Decimated
<1>4. \A n \in 1..DigitalLen : (B + n) * M = Len(x) + n * M
  BY <1>2, BlockEnds
<1>5. ASSUME NEW i \in 1..B
      PROVE  Convolved(AaTaps, z, i * M) = Convolved(AaTaps, x, i * M)
  <2>1. PICK k \in Int : k = i * M /\ k <= A
    BY EarlierSamples
  <2>2. k <= Len(x)
    BY ONLY <1>2, <2>1
  <2>3. Convolved(AaTaps, x \o y, k) = Convolved(AaTaps, x, k)
    BY ONLY <2>2, <1>2, k \in Int, TapsTyped, ConvolvedBefore
  <2> QED
    BY ONLY <2>1, <2>3, <1>2
<1> QED
  BY ONLY <1>1, <1>2, <1>3, <1>4, <1>5 DEF Outputs, Continues

LEMMA AdGrows ==
  ASSUME NEW t, NEW b \in Nat, Sound(t, b), NEW now, Sound(now, 1), NEW u, Grows(t, now, u),
         AdHears(t), NEW ring \in RingType(Len(AaTaps)),
         Hears(ring, Len(AaTaps), t.preamp, Len(t.preamp)),
         NEW dec, dec = Decimate(AaTaps, M, ring, now.preamp),
         NEW dither \in DitherDraws, NEW g, now.ad = Ad(g, dec.out, dither),
         \A i \in Digital : now.ad_power[i] = ValueAt(g[<<"ad", CONVERTER_POWERED>>], GateAt(i))
  PROVE  AdHears(u)
<1>1. PICK B \in Nat : B = b * DigitalLen
  BY BlockEnds
<1>2. PICK A : A = b * BlockLen /\ Longer(t.preamp, now.preamp, u.preamp, A, BlockLen)
  <2>1. "preamp" \in AnalogNames
    BY DEF AnalogNames
  <2> QED
    BY <2>1, Lengths
<1>3. /\ DOMAIN u.ad = 1..(B + DigitalLen)
      /\ \A i \in 1..B : i \in DOMAIN t.ad /\ u.ad[i] = t.ad[i] /\ u.ad_power[i] = t.ad_power[i]
      /\ \A i \in 1..DigitalLen : u.ad[B + i] = now.ad[i] /\ u.ad_power[B + i] = now.ad_power[i]
  <2>1. "ad" \in DigitalNames /\ "ad_power" \in DigitalNames
    BY DEF DigitalNames
  <2>2. Longer(t.ad, now.ad, u.ad, B, DigitalLen) /\ Longer(t.ad_power, now.ad_power, u.ad_power, B, DigitalLen)
    BY <2>1, <1>1, Lengths
  <2> QED
    BY ONLY <2>2 DEF Longer
<1>4. /\ \A i \in 1..B : Convolved(AaTaps, u.preamp, i * M) = Convolved(AaTaps, t.preamp, i * M)
      /\ \A n \in 1..DigitalLen : dec.out[n] = Convolved(AaTaps, u.preamp, (B + n) * M)
  BY ONLY <1>1, <1>2, b \in Nat, ring \in RingType(Len(AaTaps)), DecimatedBlock,
          Hears(ring, Len(AaTaps), t.preamp, Len(t.preamp)), dec = Decimate(AaTaps, M, ring, now.preamp)
          DEF Continues
<1>5. ASSUME NEW i \in DOMAIN u.ad
      PROVE  \E draws \in DitherDraws : \E d \in Range(draws) :
                u.ad[i] = Quantised(Convolved(AaTaps, u.preamp, i * M), d) * u.ad_power[i]
  <2>0. i \in 1..(B + DigitalLen) /\ DigitalLen \in Nat
    BY <1>3, BlockLengths
  <2>1. i \in 1..B \/ \E j \in 1..DigitalLen : i = B + j
    BY ONLY <2>0, B \in Nat, OldOrNew
  <2>2. CASE i \in 1..B
    <3>1. PICK draws \in DitherDraws : \E d \in Range(draws) :
             t.ad[i] = Quantised(Convolved(AaTaps, t.preamp, i * M), d) * t.ad_power[i]
      BY <1>3, <2>2 DEF AdHears
    <3>2. PICK d \in Range(draws) :
             t.ad[i] = Quantised(Convolved(AaTaps, t.preamp, i * M), d) * t.ad_power[i]
      BY <3>1
    <3>3. u.ad[i] = Quantised(Convolved(AaTaps, u.preamp, i * M), d) * u.ad_power[i]
      BY ONLY <3>2, <1>3, <1>4, <2>2
    <3> QED
      BY <3>3
  <2>3. ASSUME NEW j \in 1..DigitalLen, i = B + j
        PROVE  \E draws \in DitherDraws : \E d \in Range(draws) :
                  u.ad[i] = Quantised(Convolved(AaTaps, u.preamp, i * M), d) * u.ad_power[i]
    <3>1. j \in Digital
      BY BlockLengths
    <3>2. now.ad[j] = Quantised(dec.out[j], dither[j]) * now.ad_power[j]
      BY <3>1 DEF Ad
    <3>3. dither[j] \in Range(dither)
      <4>1. DOMAIN dither = Digital
        BY ChainAssumption
      <4> QED
        BY <3>1, <4>1 DEF Range
    <3>4. u.ad[i] = Quantised(Convolved(AaTaps, u.preamp, i * M), dither[j]) * u.ad_power[i]
      BY ONLY <3>2, <1>3, <1>4, <2>3
    <3> QED
      BY <3>3, <3>4
  <2> QED
    BY <2>1, <2>2, <2>3
<1> QED
  BY <1>5 DEF AdHears

LEMMA HostGrows ==
  ASSUME NEW t, NEW b \in Nat, Sound(t, b), NEW now, Sound(now, 1), NEW u, Grows(t, now, u),
         HostHears(t), NEW ring \in RingType(Len(AaTaps)),
         Hears(ring, Len(AaTaps), t.amp, Len(t.amp)),
         NEW dec, dec = Decimate(AaTaps, M, ring, now.amp), now.host = Captured(dec.out)
  PROVE  HostHears(u)
<1>1. PICK B \in Nat : B = b * DigitalLen
  BY BlockEnds
<1>2. PICK A : A = b * BlockLen /\ Longer(t.amp, now.amp, u.amp, A, BlockLen)
  <2>1. "amp" \in AnalogNames
    BY DEF AnalogNames
  <2> QED
    BY <2>1, Lengths
<1>3. /\ DOMAIN u.host = 1..(B + DigitalLen)
      /\ \A i \in 1..B : i \in DOMAIN t.host /\ u.host[i] = t.host[i]
      /\ \A i \in 1..DigitalLen : u.host[B + i] = now.host[i]
  <2>1. "host" \in DigitalNames
    BY DEF DigitalNames
  <2>2. Longer(t.host, now.host, u.host, B, DigitalLen)
    BY <2>1, <1>1, Lengths
  <2> QED
    BY ONLY <2>2 DEF Longer
<1>4. /\ dec.out \in Seq(Int) /\ Len(dec.out) = DigitalLen
      /\ \A i \in 1..B : Convolved(AaTaps, u.amp, i * M) = Convolved(AaTaps, t.amp, i * M)
      /\ \A n \in 1..DigitalLen : dec.out[n] = Convolved(AaTaps, u.amp, (B + n) * M)
  BY ONLY <1>1, <1>2, b \in Nat, ring \in RingType(Len(AaTaps)), DecimatedBlock,
          Hears(ring, Len(AaTaps), t.amp, Len(t.amp)), dec = Decimate(AaTaps, M, ring, now.amp)
          DEF Continues
<1>5. \A i \in 1..DigitalLen : now.host[i] = Clamp(dec.out[i], -FullScale * One, FullScale * One)
  BY ONLY <1>4, now.host = Captured(dec.out), CapturedTyped
<1>6. ASSUME NEW i \in DOMAIN u.host
      PROVE  u.host[i] = Clamp(Convolved(AaTaps, u.amp, i * M), -FullScale * One, FullScale * One)
  <2>0. i \in 1..(B + DigitalLen) /\ DigitalLen \in Nat
    BY <1>3, BlockLengths
  <2>1. i \in 1..B \/ \E j \in 1..DigitalLen : i = B + j
    BY ONLY <2>0, B \in Nat, OldOrNew
  <2>2. CASE i \in 1..B
    BY ONLY <1>3, <1>4, <2>2, HostHears(t) DEF HostHears
  <2>3. CASE \E j \in 1..DigitalLen : i = B + j
    BY ONLY <1>3, <1>4, <1>5, <2>3
  <2> QED
    BY <2>1, <2>2, <2>3
<1> QED
  BY <1>6 DEF HostHears

\* The old outputs of the interpolator, and those of the block behind b.
Rises(d, x, z, A) ==
  /\ d.ring \in RingType(Span(ReconTaps, M)) /\ Hears(d.ring, Span(ReconTaps, M), z, Len(z))
  /\ d.out \in Seq(Int) /\ Len(d.out) = BlockLen
  /\ \A i \in 1..A : Convolved(ReconTaps, Stuffed(z), i) = Convolved(ReconTaps, Stuffed(x), i)
  /\ \A n \in 1..BlockLen : d.out[n] = Convolved(ReconTaps, Stuffed(z), A + n)

LEMMA LiftedBlock ==
  ASSUME NEW x, NEW y, NEW z, NEW b \in Nat, NEW A, A = b * BlockLen, NEW B, B = b * DigitalLen,
         Longer(x, y, z, B, DigitalLen),
         NEW ring \in RingType(Span(ReconTaps, M)), Hears(ring, Span(ReconTaps, M), x, Len(x)),
         NEW d, d = Interpolate(ReconTaps, M, ring, y)
  PROVE  Rises(d, x, z, A)
<1>1. M \in Nat \ {0} /\ BlockLen = DigitalLen * M
  BY BlockLengths
<1>2. x \in Seq(Int) /\ y \in Seq(Int) /\ z = x \o y /\ Len(x) = B /\ Len(y) = DigitalLen
  BY DEF Longer
<1>3. Lifts(d, ReconTaps, x, z, BlockLen)
  <2>1. x \in Seq(Int) /\ y \in Seq(Int) /\ z = x \o y
    BY <1>2
  <2>2. ReconTaps \in Seq(Int) /\ ReconTaps # <<>>
    BY TapsTyped
  <2>3. BlockLen = Len(y) * M
    BY ONLY <1>1, <1>2
  <2> QED
    BY ONLY <2>1, <2>2, ring \in RingType(Span(ReconTaps, M)),
            Hears(ring, Span(ReconTaps, M), x, Len(x)),
            d = Interpolate(ReconTaps, M, ring, y), <2>3, Interpolated
<1>4. Len(x) * M = A /\ A \in Nat
  BY ONLY <1>2, b \in Nat, BlockEnds, A = b * BlockLen, B = b * DigitalLen
<1>5. Alike(ReconTaps, x, z, A)
  <2>1. A = Len(x) * M
    BY <1>4
  <2>2. ReconTaps \in Seq(Int) /\ x \in Seq(Int) /\ y \in Seq(Int) /\ z = x \o y
    BY <1>2, TapsTyped
  <2> QED
    BY ONLY <2>1, <2>2, StuffedBefore
<1> QED
  BY ONLY <1>3, <1>4, <1>5 DEF Lifts, Alike, Rises

LEMMA DaGrows ==
  ASSUME NEW t, NEW b \in Nat, Sound(t, b), NEW now, Sound(now, 1), NEW u, Grows(t, now, u),
         DaHears(t), NEW ring \in RingType(Span(ReconTaps, M)),
         Hears(ring, Span(ReconTaps, M), t.monitor, Len(t.monitor)),
         NEW dec, dec = Interpolate(ReconTaps, M, ring, now.monitor),
         NEW g, now.da = Da(g, dec.out),
         \A i \in Analog : now.da_power[i] = ValueAt(g[<<"da", CONVERTER_POWERED>>], i - 1)
  PROVE  DaHears(u)
<1>1. PICK A \in Nat : A = b * BlockLen
  BY BlockEnds
<1>2. PICK B : B = b * DigitalLen /\ Longer(t.monitor, now.monitor, u.monitor, B, DigitalLen)
  <2>1. "monitor" \in DigitalNames
    BY DEF DigitalNames
  <2> QED
    BY <2>1, Lengths
<1>3. /\ DOMAIN u.da = 1..(A + BlockLen)
      /\ \A i \in 1..A : i \in DOMAIN t.da /\ u.da[i] = t.da[i] /\ u.da_power[i] = t.da_power[i]
      /\ \A i \in 1..BlockLen : u.da[A + i] = now.da[i] /\ u.da_power[A + i] = now.da_power[i]
  <2>1. "da" \in AnalogNames /\ "da_power" \in AnalogNames
    BY DEF AnalogNames
  <2>2. Longer(t.da, now.da, u.da, A, BlockLen) /\ Longer(t.da_power, now.da_power, u.da_power, A, BlockLen)
    BY <2>1, <1>1, Lengths
  <2> QED
    BY ONLY <2>2 DEF Longer
<1>4. /\ \A i \in 1..A : Convolved(ReconTaps, Stuffed(u.monitor), i) = Convolved(ReconTaps, Stuffed(t.monitor), i)
      /\ \A n \in 1..BlockLen : dec.out[n] = Convolved(ReconTaps, Stuffed(u.monitor), A + n)
  BY ONLY <1>1, <1>2, b \in Nat, ring \in RingType(Span(ReconTaps, M)), LiftedBlock,
          Hears(ring, Span(ReconTaps, M), t.monitor, Len(t.monitor)),
          dec = Interpolate(ReconTaps, M, ring, now.monitor)
          DEF Rises
<1>5. \A i \in 1..BlockLen : now.da[i] = Times(dec.out[i], now.da_power[i])
  BY BlockLengths DEF Da
<1>6. ASSUME NEW i \in DOMAIN u.da
      PROVE  u.da[i] = Times(Convolved(ReconTaps, Stuffed(u.monitor), i), u.da_power[i])
  <2>0. i \in 1..(A + BlockLen) /\ BlockLen \in Nat
    BY <1>3, BlockLengths
  <2>1. i \in 1..A \/ \E j \in 1..BlockLen : i = A + j
    BY ONLY <2>0, A \in Nat, OldOrNew
  <2>2. CASE i \in 1..A
    BY ONLY <1>3, <1>4, <2>2, DaHears(t) DEF DaHears
  <2>3. CASE \E j \in 1..BlockLen : i = A + j
    BY ONLY <1>3, <1>4, <1>5, <2>3
  <2> QED
    BY <2>1, <2>2, <2>3
<1> QED
  BY <1>6 DEF DaHears

\* What comes later does not matter.
LEMMA RecurrenceBefore ==
  ASSUME NEW a, NEW b, NEW c, NEW y, NEW o, NEW z, NEW A, NEW B,
         Longer(a, b, c, A, B), Longer(y, o, z, A, B), A \in Nat, B \in Nat,
         NEW n \in 1..A, Recurrence(a, y, n)
  PROVE  Recurrence(c, z, n)
<1>1. /\ DOMAIN a = 1..A /\ DOMAIN c = 1..(A + B) /\ DOMAIN y = 1..A /\ DOMAIN z = 1..(A + B)
      /\ \A i \in 1..A : c[i] = a[i] /\ z[i] = y[i]
  BY DEF Longer
<1>2. \A i \in Int : i <= A => Past(c, i) = Past(a, i) /\ Past(z, i) = Past(y, i)
  BY <1>1 DEF Past
<1>3. n - 1 \in Int /\ n - 1 <= A /\ n - 2 \in Int /\ n - 2 <= A
  OBVIOUS
<1> QED
  BY ONLY <1>1, <1>2, <1>3, Recurrence(a, y, n), n \in 1..A DEF Recurrence

ShelfKept(t) ==
  \A n \in DOMAIN t.preamp :
    /\ Recurrence(t.amped, t.shelved, n)
    /\ t.air[n] = One /\ t.power[n] = One => t.preamp[n] = t.shelved[n]

LEMMA ShelfGrows ==
  ASSUME NEW t, NEW b \in Nat, Sound(t, b), NEW now, Sound(now, 1), NEW u, Grows(t, now, u),
         ShelfKept(t), NEW q \in StateType,
         ShelfHears(q, t.amped, t.shelved, Len(t.amped)),
         NEW g, SoundGlides(g),
         now.amped \in [Analog -> Int],
         NEW out, out = Shelved(g, q, now.amped), now.shelved = out.out,
         now.preamp = Preamp(g, now.amped, now.shelved),
         \A i \in Analog : now.air[i] = ValueAt(g[AirSwitch], i - 1),
         \A i \in Analog : now.power[i] = ValueAt(g[MainPower], i - 1)
  PROVE  /\ ShelfKept(u)
         /\ out.state \in StateType
         /\ ShelfHears(out.state, u.amped, u.shelved, Len(u.amped))
<1>1. PICK A \in Nat : A = b * BlockLen
  BY BlockEnds
<1>2. /\ Longer(t.amped, now.amped, u.amped, A, BlockLen)
      /\ Longer(t.shelved, now.shelved, u.shelved, A, BlockLen)
      /\ Longer(t.preamp, now.preamp, u.preamp, A, BlockLen)
      /\ Longer(t.air, now.air, u.air, A, BlockLen)
      /\ Longer(t.power, now.power, u.power, A, BlockLen)
  <2>1. {"amped", "shelved", "preamp", "air", "power"} \subseteq AnalogNames
    BY DEF AnalogNames
  <2> QED
    BY <2>1, <1>1, Lengths
<1>3. BlockLen \in Nat /\ Analog = 1..BlockLen
  BY BlockLengths
<1>4. /\ now.shelved \in [Analog -> Int]
      /\ \A i \in Analog : now.shelved[i] = Stepped(Steps(q, Shelf, now.amped)[i], Shelf, now.amped[i])
      /\ out.state = Last(Steps(q, Shelf, now.amped))
  <2>1. PICK x \in [Analog -> Int] : x = now.amped
    OBVIOUS
  <2>2. /\ Shelved(g, q, x).out \in [Analog -> Int]
        /\ \A i \in Analog : Shelved(g, q, x).out[i] = Stepped(Steps(q, Shelf, x)[i], Shelf, x[i])
        /\ Shelved(g, q, x).state = Last(Steps(q, Shelf, x))
    BY ONLY x \in [Analog -> Int], q \in StateType, ShelvedTyped
  <2> QED
    BY ONLY <2>1, <2>2, out = Shelved(g, q, now.amped), now.shelved = out.out
<1>5. /\ out.state \in StateType
      /\ ShelfHears(out.state, u.amped, u.shelved, Len(u.amped))
      /\ \A i \in 1..BlockLen : Recurrence(u.amped, u.shelved, A + i)
  <2>1. /\ t.amped \in Seq(Int) /\ t.shelved \in Seq(Int) /\ Len(t.amped) = A /\ Len(t.shelved) = A
        /\ now.amped \in Seq(Int) /\ now.shelved \in Seq(Int)
        /\ Len(now.amped) = BlockLen /\ Len(now.shelved) = BlockLen
        /\ u.amped = t.amped \o now.amped /\ u.shelved = t.shelved \o now.shelved
    BY <1>2 DEF Longer
  <2>2. Len(t.amped) = Len(t.shelved) /\ Len(now.amped) = Len(now.shelved)
    BY ONLY <2>1
  <2>3. \A i \in 1..Len(now.amped) :
           now.shelved[i] = Stepped(Steps(q, Shelf, now.amped)[i], Shelf, now.amped[i])
    BY ONLY <1>3, <1>4, <2>1
  <2>4. /\ Last(Steps(q, Shelf, now.amped)) \in StateType
        /\ ShelfHears(Last(Steps(q, Shelf, now.amped)), u.amped, u.shelved, Len(u.amped))
        /\ \A i \in 1..Len(now.amped) : Recurrence(u.amped, u.shelved, Len(t.amped) + i)
    BY ONLY <2>1, <2>2, <2>3, q \in StateType, ShelfHears(q, t.amped, t.shelved, Len(t.amped)),
            ShelfHearsBlock
  <2> QED
    BY ONLY <1>4, <2>1, <2>4
<1>6. /\ DOMAIN u.preamp = 1..(A + BlockLen) /\ DOMAIN t.preamp = 1..A
      /\ \A i \in 1..A : /\ u.preamp[i] = t.preamp[i] /\ u.shelved[i] = t.shelved[i]
                         /\ u.air[i] = t.air[i] /\ u.power[i] = t.power[i]
      /\ \A i \in 1..BlockLen : /\ u.preamp[A + i] = now.preamp[i] /\ u.shelved[A + i] = now.shelved[i]
                                /\ u.air[A + i] = now.air[i] /\ u.power[A + i] = now.power[i]
  BY ONLY <1>2 DEF Longer
<1>7. \A i \in 1..BlockLen : now.air[i] = One /\ now.power[i] = One => now.preamp[i] = now.shelved[i]
  <2>1. PICK x \in [Analog -> Int] : x = now.amped
    OBVIOUS
  <2>2. PICK y \in [Analog -> Int] : y = now.shelved
    BY ONLY <1>4
  <2>3. \A i \in Analog : /\ ValueAt(g[AirSwitch], i - 1) = One
                          /\ ValueAt(g[MainPower], i - 1) = One
                          => Preamp(g, x, y)[i] = y[i]
    BY ONLY SoundGlides(g), x \in [Analog -> Int], y \in [Analog -> Int], PreampTyped
  <2> QED
    BY ONLY <2>1, <2>2, <2>3, <1>3, now.preamp = Preamp(g, now.amped, now.shelved),
            \A i \in Analog : now.air[i] = ValueAt(g[AirSwitch], i - 1),
            \A i \in Analog : now.power[i] = ValueAt(g[MainPower], i - 1)
<1>8. ASSUME NEW n \in DOMAIN u.preamp
      PROVE  /\ Recurrence(u.amped, u.shelved, n)
             /\ u.air[n] = One /\ u.power[n] = One => u.preamp[n] = u.shelved[n]
  <2>0. n \in 1..(A + BlockLen)
    BY <1>6
  <2>1. n \in 1..A \/ \E j \in 1..BlockLen : n = A + j
    BY ONLY <2>0, <1>3, A \in Nat, OldOrNew
  <2>2. CASE n \in 1..A
    <3>1. Recurrence(t.amped, t.shelved, n) /\ (t.air[n] = One /\ t.power[n] = One => t.preamp[n] = t.shelved[n])
      BY ONLY <1>6, <2>2, ShelfKept(t) DEF ShelfKept
    <3>2. Recurrence(u.amped, u.shelved, n)
      BY ONLY <1>2, <1>3, <2>2, <3>1, A \in Nat, RecurrenceBefore
    <3> QED
      BY ONLY <1>6, <2>2, <3>1, <3>2
  <2>3. CASE \E j \in 1..BlockLen : n = A + j
    BY ONLY <2>3, <1>5, <1>6, <1>7
  <2> QED
    BY <2>1, <2>2, <2>3
<1> QED
  BY <1>5, <1>8 DEF ShelfKept

-----------------------------------------------------------------------------
(* What the listener reads of the glides.                                  *)

LEMMA OneStep ==
  ASSUME NEW s \in SmootherType, Gliding(s), NEW range \in Nat, s.max - s.min = range, NEW i \in Nat
  PROVE  Apart(ValueAt(s, i + 1), ValueAt(s, i)) <= GlideStep(range)
<1>1. i + 1 \in Nat /\ i <= i + 1 /\ (i + 1) - i = 1
  OBVIOUS
<1>2. PICK most \in Nat : most = GlideStep(range)
  BY GlideStepTyped
<1>3. Apart(ValueAt(s, i + 1), ValueAt(s, i)) <= ((i + 1) - i) * most
  <2>1. GlideStep(s.max - s.min) <= most
    BY <1>2
  <2> QED
    BY ONLY <2>1, <1>1, s \in SmootherType, Gliding(s), i \in Nat, most \in Nat, ValuesApart
<1>4. ((i + 1) - i) * most = most
  OBVIOUS
<1> QED
  BY ONLY <1>2, <1>3, <1>4

\* No two neighbours of x, nor its last and cur, are a click apart.
Smooth(x, cur) ==
  /\ \A n \in 2..Len(x) : Apart(x[n], x[n - 1]) <= GlideStep(One)
  /\ Len(x) > 0 => Apart(cur, x[Len(x)]) <= GlideStep(One)

LEMMA SmoothGrows ==
  ASSUME NEW x, NEW y, NEW z, NEW A \in Nat, Longer(x, y, z, A, BlockLen),
         NEW s \in SmootherType, Gliding(s), s.max - s.min = One, Smooth(x, s.current),
         \A i \in 1..BlockLen : y[i] = ValueAt(s, i - 1)
  PROVE  Smooth(z, ValueAt(s, BlockLen))
<1>0. BlockLen \in Nat \ {0} /\ One \in Nat
  BY BlockLengths, UnitTyped
<1>1. /\ Len(x) = A /\ Len(z) = A + BlockLen
      /\ \A i \in 1..A : z[i] = x[i]
      /\ \A i \in 1..BlockLen : z[A + i] = ValueAt(s, i - 1)
  <2>1. /\ z \in Seq(Int) /\ DOMAIN z = 1..(A + BlockLen) /\ Len(x) = A
        /\ \A i \in 1..A : z[i] = x[i]
        /\ \A i \in 1..BlockLen : z[A + i] = y[i]
    BY ONLY Longer(x, y, z, A, BlockLen) DEF Longer
  <2>2. Len(z) = A + BlockLen
    BY ONLY <2>1, <1>0, A \in Nat
  <2> QED
    BY ONLY <2>1, <2>2, \A i \in 1..BlockLen : y[i] = ValueAt(s, i - 1)
<1>2. \A i \in Nat : Apart(ValueAt(s, i + 1), ValueAt(s, i)) <= GlideStep(One)
  BY ONLY <1>0, s \in SmootherType, Gliding(s), s.max - s.min = One, OneStep
<1>3. ASSUME NEW n \in 2..(A + BlockLen)
      PROVE  Apart(z[n], z[n - 1]) <= GlideStep(One)
  <2>1. CASE n <= A
    <3>1. n \in 1..A /\ n - 1 \in 1..A /\ n \in 2..A
      BY <2>1
    <3> QED
      BY ONLY <3>1, <1>1, Smooth(x, s.current) DEF Smooth
  <2>2. CASE n = A + 1
    <3>1. n - 1 = A /\ A > 0 /\ A \in 1..A /\ 1 \in 1..BlockLen
      BY <2>2, <1>0
    <3>2. z[n] = ValueAt(s, 1 - 1) /\ 1 - 1 = 0
      BY ONLY <2>2, <3>1, <1>1
    <3>3. ValueAt(s, 0) = s.current
      BY ONLY s \in SmootherType, Gliding(s), 0 \in Nat, ValueGlides
    <3> QED
      BY ONLY <3>1, <3>2, <3>3, <1>1, Smooth(x, s.current) DEF Smooth
  <2>3. CASE n > A + 1
    <3>1. PICK i \in Nat : n = A + (i + 2) /\ i + 2 \in 1..BlockLen /\ i + 1 \in 1..BlockLen /\ n - 1 = A + (i + 1)
      <4>1. n - A - 2 \in Nat /\ n = A + ((n - A - 2) + 2) /\ (n - A - 2) + 2 \in 1..BlockLen
            /\ (n - A - 2) + 1 \in 1..BlockLen /\ n - 1 = A + ((n - A - 2) + 1)
        BY <2>3, <1>0
      <4> QED
        BY ONLY <4>1
    <3>2. z[n] = ValueAt(s, (i + 2) - 1) /\ z[n - 1] = ValueAt(s, (i + 1) - 1)
      BY ONLY <3>1, <1>1
    <3>3. (i + 2) - 1 = i + 1 /\ (i + 1) - 1 = i
      OBVIOUS
    <3> QED
      BY ONLY <3>2, <3>3, <1>2, i \in Nat
  <2> QED
    BY <2>1, <2>2, <2>3
<1>4. Apart(ValueAt(s, BlockLen), z[A + BlockLen]) <= GlideStep(One)
  <2>1. BlockLen \in 1..BlockLen /\ BlockLen - 1 \in Nat /\ (BlockLen - 1) + 1 = BlockLen
    BY <1>0
  <2> QED
    BY ONLY <2>1, <1>1, <1>2
<1> QED
  BY ONLY <1>1, <1>3, <1>4 DEF Smooth

PowersAlike(t) ==
  /\ t.da_power = t.power /\ t.amp_power = t.power
  /\ \A i \in DOMAIN t.ad_power : t.ad_power[i] = t.power[(i - 1) * M + 1]

LEMMA PowersGrow ==
  ASSUME NEW t, NEW b \in Nat, Sound(t, b), NEW now, Sound(now, 1), NEW u, Grows(t, now, u),
         PowersAlike(t), NEW s,
         \A i \in Analog : /\ now.power[i] = ValueAt(s, i - 1)
                           /\ now.da_power[i] = ValueAt(s, i - 1)
                           /\ now.amp_power[i] = ValueAt(s, i - 1),
         \A i \in Digital : now.ad_power[i] = ValueAt(s, GateAt(i))
  PROVE  PowersAlike(u)
<1>0. BlockLen \in Nat \ {0} /\ Analog = 1..BlockLen /\ M \in Nat \ {0} /\ Digital = 1..DigitalLen /\ DigitalLen \in Nat
  BY BlockLengths
<1>1. PICK A \in Nat : A = b * BlockLen
  BY BlockEnds
<1>2. PICK B \in Nat : B = b * DigitalLen
  BY BlockEnds
<1>3. /\ Longer(t.power, now.power, u.power, A, BlockLen)
      /\ Longer(t.da_power, now.da_power, u.da_power, A, BlockLen)
      /\ Longer(t.amp_power, now.amp_power, u.amp_power, A, BlockLen)
      /\ Longer(t.ad_power, now.ad_power, u.ad_power, B, DigitalLen)
  <2>1. {"power", "da_power", "amp_power"} \subseteq AnalogNames /\ "ad_power" \in DigitalNames
    BY DEF AnalogNames, DigitalNames
  <2> QED
    BY <2>1, <1>1, <1>2, Lengths
<1>4. now.da_power = now.power /\ now.amp_power = now.power
  <2>1. ASSUME NEW v \in Seq(Int), Len(v) = BlockLen, NEW w \in Seq(Int), Len(w) = BlockLen,
               \A i \in 1..BlockLen : v[i] = ValueAt(s, i - 1) /\ w[i] = ValueAt(s, i - 1)
        PROVE  v = w
    <3>1. \A i \in 1..BlockLen : v[i] = w[i]
      BY ONLY <2>1
    <3>2. v = [i \in 1..BlockLen |-> v[i]] /\ w = [i \in 1..BlockLen |-> w[i]]
      BY ONLY v \in Seq(Int), Len(v) = BlockLen, w \in Seq(Int), Len(w) = BlockLen
    <3> QED
      BY ONLY <3>1, <3>2
  <2>2. /\ now.power \in Seq(Int) /\ Len(now.power) = BlockLen
        /\ now.da_power \in Seq(Int) /\ Len(now.da_power) = BlockLen
        /\ now.amp_power \in Seq(Int) /\ Len(now.amp_power) = BlockLen
    BY ONLY <1>3 DEF Longer
  <2> QED
    BY <2>1, <2>2, <1>0
<1>5. u.da_power = u.power /\ u.amp_power = u.power
  BY ONLY <1>3, <1>4, PowersAlike(t) DEF Longer, PowersAlike
<1>6. ASSUME NEW n \in DOMAIN u.ad_power PROVE u.ad_power[n] = u.power[(n - 1) * M + 1]
  <2>0. n \in 1..(B + DigitalLen)
    BY <1>3 DEF Longer
  <2>1. n \in 1..B \/ \E j \in 1..DigitalLen : n = B + j
    BY ONLY <2>0, <1>0, B \in Nat, OldOrNew
  <2>2. CASE n \in 1..B
    <3>1. u.ad_power[n] = t.ad_power[n] /\ t.ad_power[n] = t.power[(n - 1) * M + 1]
      BY ONLY <1>3, <2>2, PowersAlike(t) DEF Longer, PowersAlike
    <3>2. PICK k \in Int : k = (n - 1) * M + 1 /\ k \in 1..A
      <4>1. n \in 1..(b * DigitalLen) /\ n - 1 \in Nat /\ n - 1 \in Int
        BY <2>2, <1>2
      <4>2. n * M \in Int /\ n * M <= A
        BY ONLY <4>1, b \in Nat, EarlierSamples, <1>1
      <4>3. (n - 1) * M \in Nat /\ (n - 1) * M = n * M - M
        BY <4>1, <1>0
      <4> QED
        BY ONLY <4>1, <4>2, <4>3, <1>0, <1>1
    <3> QED
      BY ONLY <3>1, <3>2, <1>3 DEF Longer
  <2>3. ASSUME NEW j \in 1..DigitalLen, n = B + j PROVE u.ad_power[n] = u.power[(n - 1) * M + 1]
    <3>1. j \in Digital
      BY <1>0
    <3>2. PICK e \in Nat : e = GateAt(j) /\ e = (j - 1) * M /\ e < BlockLen
      BY <3>1, GateTyped
    <3>3. u.ad_power[n] = ValueAt(s, e)
      BY ONLY <3>1, <3>2, <2>3, <1>3, \A i \in Digital : now.ad_power[i] = ValueAt(s, GateAt(i)) DEF Longer
    <3>4. (n - 1) * M + 1 = A + (e + 1)
      <4>1. j - 1 \in Int /\ n - 1 = B + (j - 1)
        BY <2>3
      <4>2. (B + (j - 1)) * M = A + (j - 1) * M
        BY ONLY <4>1, b \in Nat, <1>1, <1>2, BlockEnds
      <4> QED
        BY ONLY <4>1, <4>2, <3>2, A \in Nat
    <3>5. e + 1 \in 1..BlockLen /\ (e + 1) - 1 = e
      BY <3>2, <1>0
    <3>6. u.power[A + (e + 1)] = ValueAt(s, e)
      BY ONLY <3>5, <1>0, <1>3, \A i \in Analog : now.power[i] = ValueAt(s, i - 1) DEF Longer
    <3> QED
      BY ONLY <3>3, <3>4, <3>6
  <2> QED
    BY <2>1, <2>2, <2>3
<1> QED
  BY <1>5, <1>6 DEF PowersAlike

Recorded(t) ==
  \A n \in DOMAIN t.amped : t.amped[n] = Amplified(t.line[n])

\* A gain that nobody turns stays where it was built.
LEMMA BuiltValue ==
  ASSUME NEW d \in Int, NEW i \in Nat
  PROVE  ValueAt(Smoother(d, 0, MaxGain), i) = d
<1>1. PICK s : s = [current |-> d, target |-> d, step |-> 0, min |-> 0, max |-> MaxGain]
  OBVIOUS
<1>2. s.current = d /\ s.step = 0 /\ s = Smoother(d, 0, MaxGain)
  BY <1>1 DEF Smoother
<1>3. d + 0 * i = d
  OBVIOUS
<1>4. ValueAt(s, i) = d
  BY ONLY <1>2, <1>3 DEF ValueAt, Toward
<1> QED
  BY <1>2, <1>4

LEMMA MixAsBuilt ==
  ASSUME NEW g, SoundGlides(g), NEW x \in [Digital -> Int], NEW y \in [Digital -> Int]
  PROVE  /\ AsBuilt(g, 0) => Routed(g, <<x, y>>, 0) = x
         /\ AsBuilt(g, 1) => Routed(g, <<x, y>>, 1) = y
<1>1. /\ AsBuilt(g, 0) => g[GainOf(0, 0)] = Smoother(One, 0, MaxGain) /\ g[GainOf(1, 0)] = Smoother(0, 0, MaxGain)
      /\ AsBuilt(g, 1) => g[GainOf(0, 1)] = Smoother(0, 0, MaxGain) /\ g[GainOf(1, 1)] = Smoother(One, 0, MaxGain)
  BY ONLY ColumnsAre, CrosspointsAre, DeclaredAs DEF AsBuilt
<1>2. \A j \in {0, 1} :
        /\ Routed(g, <<x, y>>, j) \in [Digital -> Int]
        /\ \A s \in Digital : Routed(g, <<x, y>>, j)[s] =
             Times(x[s], ValueAt(g[GainOf(0, j)], s - 1)) + Times(y[s], ValueAt(g[GainOf(1, j)], s - 1))
  BY ONLY SoundGlides(g), x \in [Digital -> Int], y \in [Digital -> Int], RoutedIs
<1>3. ASSUME NEW s \in Digital
      PROVE  /\ AsBuilt(g, 0) => Routed(g, <<x, y>>, 0)[s] = x[s]
             /\ AsBuilt(g, 1) => Routed(g, <<x, y>>, 1)[s] = y[s]
  <2>1. s - 1 \in Nat /\ x[s] \in Int /\ y[s] \in Int /\ One \in Int /\ 0 \in Int
    BY BlockLengths, UnitTyped
  <2>2. /\ AsBuilt(g, 0) => ValueAt(g[GainOf(0, 0)], s - 1) = One /\ ValueAt(g[GainOf(1, 0)], s - 1) = 0
        /\ AsBuilt(g, 1) => ValueAt(g[GainOf(0, 1)], s - 1) = 0 /\ ValueAt(g[GainOf(1, 1)], s - 1) = One
    BY ONLY <1>1, <2>1, BuiltValue
  <2>3. Times(x[s], One) = x[s] /\ Times(y[s], 0) = 0 /\ Times(x[s], 0) = 0 /\ Times(y[s], One) = y[s]
    BY ONLY <2>1, TimesTyped
  <2>4. /\ AsBuilt(g, 0) => Routed(g, <<x, y>>, 0)[s] = x[s] + 0
        /\ AsBuilt(g, 1) => Routed(g, <<x, y>>, 1)[s] = 0 + y[s]
    BY ONLY <1>2, <2>2, <2>3
  <2> QED
    BY ONLY <2>1, <2>4
<1> QED
  BY ONLY <1>2, <1>3, x \in [Digital -> Int], y \in [Digital -> Int]

\* The microphone and the noise of a block, and the controls they were read with.
MicLine(g, mic, ein) ==
  [i \in Analog |-> [mic |-> mic[i], ein |-> ein[i],
                     pad |-> ValueAt(g[<<"preamp", PAD>>], i - 1),
                     gain |-> ValueAt(g[<<"preamp", GAIN>>], i - 1)]]

LEMMA RecordGrows ==
  ASSUME NEW t, NEW b \in Nat, Sound(t, b), NEW now, Sound(now, 1), NEW u, Grows(t, now, u),
         Recorded(t), NEW g, SoundGlides(g),
         NEW ph \in Int, NEW mic \in [Analog -> Int], NEW ein,
         NEW plus, plus = [i \in Analog |-> mic[i] + ph], NEW minus, minus = [i \in Analog |-> ph],
         now.amped = Amped(g, plus, minus, ein), now.line = MicLine(g, mic, ein)
  PROVE  Recorded(u)
<1>0. BlockLen \in Nat \ {0} /\ Analog = 1..BlockLen
  BY BlockLengths
<1>1. PICK A \in Nat : A = b * BlockLen
  BY BlockEnds
<1>2. /\ Longer(t.amped, now.amped, u.amped, A, BlockLen)
  <2>1. "amped" \in AnalogNames
    BY DEF AnalogNames
  <2> QED
    BY <2>1, <1>1, Lengths
<1>3. /\ DOMAIN u.amped = 1..(A + BlockLen) /\ DOMAIN t.amped = 1..A
      /\ \A i \in 1..A : u.amped[i] = t.amped[i]
      /\ \A i \in 1..BlockLen : u.amped[A + i] = now.amped[i]
  BY ONLY <1>2 DEF Longer
<1>4. /\ \A i \in 1..A : u.line[i] = t.line[i]
      /\ \A i \in 1..BlockLen : u.line[A + i] = now.line[i]
  <2>1. Len(t["line"]) = A /\ Len(now["line"]) = BlockLen
    BY <1>0, <1>1 DEF Sound
  <2>2. /\ \A i \in 1..Len(t["line"]) : u["line"][i] = t["line"][i]
        /\ \A i \in 1..Len(now["line"]) : u["line"][Len(t["line"]) + i] = now["line"][i]
    <3>1. "line" \in TraceNames
      BY DEF TraceNames
    <3> QED
      BY ONLY <3>1, Grows(t, now, u) DEF Grows
  <2> QED
    BY ONLY <2>1, <2>2
<1>5. ASSUME NEW i \in 1..BlockLen PROVE now.amped[i] = Amplified(now.line[i])
  <2>1. i \in Analog /\ mic[i] \in Int
    BY <1>0
  <2>2. (mic[i] + ph) - ph = mic[i]
    BY ONLY <2>1, ph \in Int
  <2>3. now.amped[i] =
          Clamp(Times(Times((mic[i] + ph) - ph, One + Times(ValueAt(g[<<"preamp", PAD>>], i - 1), PadFactor - One))
                        + ein[i], ValueAt(g[<<"preamp", GAIN>>], i - 1)), -Rail, Rail)
    <3>1. plus[i] = mic[i] + ph /\ minus[i] = ph
      BY ONLY <2>1, plus = [k \in Analog |-> mic[k] + ph], minus = [k \in Analog |-> ph]
    <3> QED
      BY ONLY <2>1, <3>1, now.amped = Amped(g, plus, minus, ein) DEF Amped
  <2>4. /\ now.line[i].mic = mic[i] /\ now.line[i].ein = ein[i]
        /\ now.line[i].pad = ValueAt(g[<<"preamp", PAD>>], i - 1)
        /\ now.line[i].gain = ValueAt(g[<<"preamp", GAIN>>], i - 1)
    <3>1. PICK l : l = now.line[i]
      OBVIOUS
    <3>2. l = [mic |-> mic[i], ein |-> ein[i],
               pad |-> ValueAt(g[<<"preamp", PAD>>], i - 1),
               gain |-> ValueAt(g[<<"preamp", GAIN>>], i - 1)]
      BY ONLY <2>1, <3>1, now.line = MicLine(g, mic, ein), Zenon DEF MicLine
    <3>3. /\ l.mic = mic[i] /\ l.ein = ein[i]
          /\ l.pad = ValueAt(g[<<"preamp", PAD>>], i - 1)
          /\ l.gain = ValueAt(g[<<"preamp", GAIN>>], i - 1)
      BY ONLY <3>2
    <3> QED
      BY ONLY <3>1, <3>3
  <2> QED
    BY ONLY <2>2, <2>3, <2>4 DEF Amplified
<1>6. ASSUME NEW n \in DOMAIN u.amped PROVE u.amped[n] = Amplified(u.line[n])
  <2>0. n \in 1..(A + BlockLen) /\ BlockLen \in Nat
    BY <1>3, <1>0
  <2>1. n \in 1..A \/ \E j \in 1..BlockLen : n = A + j
    BY ONLY <2>0, A \in Nat, OldOrNew
  <2>2. CASE n \in 1..A
    BY ONLY <2>2, <1>3, <1>4, Recorded(t) DEF Recorded
  <2>3. CASE \E j \in 1..BlockLen : n = A + j
    BY ONLY <2>3, <1>3, <1>4, <1>5
  <2> QED
    BY <2>1, <2>2, <2>3
<1> QED
  BY <1>6 DEF Recorded

\* A mix that nobody has touched is passed on as it came in.
Passed(t, in, out, kept) == kept => t[out] = t[in]

-----------------------------------------------------------------------------
(* The inductive invariant: what is remembered is what was heard.          *)

\* The queue and the smoothers: the one power switch moves its four
\* parameters together while none of them was refused, and the gains of an
\* output stay as built while none of its knobs is turned.
KnobsInv ==
  /\ SoundGlides(glides) /\ SoundQueue(pending)
  /\ split \in BOOLEAN
  /\ ~split => Together(glides) /\ Asked(pending)
  /\ \A j \in {0, 1} : turned \intersect Own(j) = {} => AsBuilt(glides, j) /\ Unasked(pending, j)

\* The filters: each ring, and the state of the shelf, is the end of what its
\* node has heard since the start.
FiltersInv ==
  /\ shelf \in StateType /\ ShelfHears(shelf, trace.amped, trace.shelved, Len(trace.amped))
  /\ anti_alias \in RingType(Len(AaTaps))
  /\ Hears(anti_alias, Len(AaTaps), trace.preamp, Len(trace.preamp))
  /\ host \in RingType(Len(AaTaps)) /\ Hears(host, Len(AaTaps), trace.amp, Len(trace.amp))
  /\ recon \in RingType(Span(ReconTaps, M))
  /\ Hears(recon, Span(ReconTaps, M), trace.monitor, Len(trace.monitor))

\* The switches: the next value is within a step of the last one heard.
GlidesInv ==
  /\ Smooth(trace.power, glides[MainPower].current)
  /\ Smooth(trace.air, glides[AirSwitch].current)
  /\ ~split => PowersAlike(trace)

Mixed ==
  /\ Passed(trace, "ad", "send", turned \intersect Own(0) = {})
  /\ Passed(trace, "usb", "monitor", turned \intersect Own(1) = {})

HeardInv ==
  /\ AdHears(trace) /\ HostHears(trace) /\ DaHears(trace) /\ ShelfKept(trace) /\ Recorded(trace)
  /\ Mixed

ChainInv ==
  /\ phantom \in Int /\ block \in Nat /\ Sound(trace, block)
  /\ KnobsInv /\ FiltersInv /\ GlidesInv /\ HeardInv

LEMMA SilentSound == Sound(Silent, 0)
<1>1. 0 * BlockLen = 0 /\ 0 * DigitalLen = 0
  BY BlockLengths
<1>2. DOMAIN Silent = TraceNames /\ \A n \in TraceNames : Silent[n] = <<>>
  <2>1. {"line", "amped", "shelved", "preamp", "ad", "usb", "send", "monitor", "da", "amp", "host",
         "air", "power", "ad_power", "da_power", "amp_power", "route"} = TraceNames
    BY DEF TraceNames, AnalogNames, DigitalNames
  <2> QED
    BY ONLY <2>1 DEF Silent
<1>3. <<>> \in Seq(Int) /\ <<>> \in Seq(LineType) /\ <<>> \in Seq(RouteType) /\ Len(<<>>) = 0
  OBVIOUS
<1>4. AnalogNames \subseteq TraceNames /\ DigitalNames \subseteq TraceNames /\ "line" \in TraceNames /\ "route" \in TraceNames
  BY DEF TraceNames
<1> QED
  BY ONLY <1>1, <1>2, <1>3, <1>4 DEF Sound

LEMMA ChainInit == Init => ChainInv
<1> SUFFICES ASSUME Init PROVE ChainInv
  OBVIOUS
<1>1. /\ phantom \in Phantoms /\ glides = Declared /\ pending = <<>> /\ shelf = Biquad
      /\ anti_alias = Ring(Len(AaTaps)) /\ host = Ring(Len(AaTaps)) /\ recon = Ring(Span(ReconTaps, M))
      /\ block = 0 /\ turned = {} /\ split = FALSE /\ trace = Silent
  BY DEF Init
<1>2. phantom \in Int /\ block \in Nat
  BY <1>1, ChainAssumption
<1>3. Sound(trace, block)
  BY ONLY <1>1, SilentSound
<1>4. /\ trace.amped = <<>> /\ trace.shelved = <<>> /\ trace.preamp = <<>> /\ trace.amp = <<>>
      /\ trace.monitor = <<>> /\ trace.power = <<>> /\ trace.air = <<>> /\ trace.da_power = <<>>
      /\ trace.amp_power = <<>> /\ trace.ad_power = <<>> /\ trace.route = <<>> /\ trace.ad = <<>>
      /\ trace.usb = <<>> /\ trace.host = <<>> /\ trace.da = <<>> /\ trace.send = <<>> /\ trace.line = <<>>
  BY ONLY <1>1 DEF Silent
<1>5. KnobsInv
  <2>1. SoundQueue(pending) /\ Asked(pending) /\ \A j \in {0, 1} : Unasked(pending, j)
    BY <1>1 DEF SoundQueue, Asked, Unasked
  <2>2. Together(glides)
    BY ONLY <1>1, DeclaredAs, NamesAre DEF Together
  <2>3. \A j \in {0, 1} : AsBuilt(glides, j)
    BY <1>1 DEF AsBuilt
  <2> QED
    BY ONLY <1>1, <2>1, <2>2, <2>3, DeclaredSound DEF KnobsInv
<1>6. FiltersInv
  <2>1. Len(<<>>) = 0
    OBVIOUS
  <2>2. /\ anti_alias \in RingType(Len(AaTaps)) /\ Hears(anti_alias, Len(AaTaps), <<>>, 0)
        /\ host \in RingType(Len(AaTaps)) /\ Hears(host, Len(AaTaps), <<>>, 0)
        /\ recon \in RingType(Span(ReconTaps, M)) /\ Hears(recon, Span(ReconTaps, M), <<>>, 0)
    BY ONLY <1>1, TapsTyped, EmptyRingHearsSilence
  <2>3. shelf \in StateType /\ ShelfHears(shelf, <<>>, <<>>, 0)
    <3>1. shelf.z1 = 0 /\ shelf.z2 = 0 /\ shelf \in StateType
      BY <1>1 DEF Biquad, StateType
    <3>2. \A i : Past(<<>>, i) = 0
      BY DEF Past
    <3>3. Shelf.b1 \in Int /\ Shelf.b2 \in Int /\ Shelf.a1 \in Int /\ Shelf.a2 \in Int
      BY ChainAssumption
    <3>4. Shelf.b1 * 0 - Shelf.a1 * 0 + (Shelf.b2 * 0 - Shelf.a2 * 0) = 0 /\ Shelf.b2 * 0 - Shelf.a2 * 0 = 0
      BY <3>3
    <3> QED
      BY ONLY <3>1, <3>2, <3>4 DEF ShelfHears
  <2> QED
    BY ONLY <1>4, <2>1, <2>2, <2>3 DEF FiltersInv
<1>7. GlidesInv
  BY ONLY <1>4 DEF GlidesInv, Smooth, PowersAlike
<1>8. HeardInv
  BY ONLY <1>4 DEF HeardInv, AdHears, HostHears, DaHears, ShelfKept, Recorded, Mixed, Passed
<1> QED
  BY ONLY <1>2, <1>3, <1>5, <1>6, <1>7, <1>8 DEF ChainInv

LEMMA ChainTurns ==
  ASSUME ChainInv, NEW t \in Turns, Turn(t[1], t[2])
  PROVE  ChainInv'
<1>1. t[1] \in Controls /\ t[2] \in Int
  BY ChainAssumption
<1>2. UNCHANGED <<phantom, glides, shelf, anti_alias, recon, host, block, trace>>
  BY DEF Turn
<1>3. /\ SoundQueue(pending')
      /\ split' \in BOOLEAN
      /\ ~split' => ~split /\ (Asked(pending) => Asked(pending'))
      /\ \A j \in {0, 1} : turned' \intersect Own(j) = {} =>
           turned \intersect Own(j) = {} /\ (Unasked(pending, j) => Unasked(pending', j))
  BY ONLY <1>1, Turn(t[1], t[2]), ChainInv, TurnAsks DEF ChainInv, KnobsInv
<1>4. KnobsInv'
  BY ONLY <1>2, <1>3, ChainInv DEF ChainInv, KnobsInv
<1>5. GlidesInv'
  BY ONLY <1>2, <1>3, ChainInv DEF ChainInv, GlidesInv
<1>6. HeardInv'
  BY ONLY <1>2, <1>3, ChainInv DEF ChainInv, HeardInv, Mixed, Passed
<1> QED
  BY ONLY <1>2, <1>4, <1>5, <1>6, ChainInv DEF ChainInv, FiltersInv

-----------------------------------------------------------------------------
(* A block of every signal.                                                *)

LEMMA ReadIs ==
  ASSUME NEW g, SoundGlides(g), NEW p \in Parameters
  PROVE  /\ Read(g, p, [i \in Analog |-> i - 1]) \in [Analog -> Int]
         /\ \A i \in Analog : Read(g, p, [k \in Analog |-> k - 1])[i] = ValueAt(g[p], i - 1)
         /\ Read(g, p, [i \in Digital |-> GateAt(i)]) \in [Digital -> Int]
         /\ \A i \in Digital : Read(g, p, [k \in Digital |-> GateAt(k)])[i] = ValueAt(g[p], GateAt(i))
<1>1. \A i \in Analog : ValueAt(g[p], i - 1) \in Int
  BY AnalogIndex, ValueTyped
<1>2. \A i \in Digital : ValueAt(g[p], GateAt(i)) \in Int
  BY GateTyped, ValueTyped
<1>3. Read(g, p, [i \in Analog |-> i - 1]) = [i \in Analog |-> ValueAt(g[p], i - 1)]
  BY DEF Read
<1>4. Read(g, p, [i \in Digital |-> GateAt(i)]) = [i \in Digital |-> ValueAt(g[p], GateAt(i))]
  BY DEF Read
<1> QED
  BY ONLY <1>1, <1>2, <1>3, <1>4

LEMMA LineTyped ==
  ASSUME NEW g, SoundGlides(g), NEW mic \in [Analog -> Int], NEW ein \in [Analog -> Int],
         NEW line, line = [i \in Analog |->
                             [mic |-> mic[i], ein |-> ein[i],
                              pad |-> ValueAt(g[<<"preamp", PAD>>], i - 1),
                              gain |-> ValueAt(g[<<"preamp", GAIN>>], i - 1)]]
  PROVE  line \in Seq(LineType) /\ Len(line) = BlockLen
<1>1. ASSUME NEW i \in Analog
      PROVE  /\ ValueAt(g[<<"preamp", PAD>>], i - 1) \in Int
             /\ ValueAt(g[<<"preamp", GAIN>>], i - 1) \in Int
  BY AnalogIndex, ParameterNames, ValueTyped
<1>2. line \in [Analog -> LineType]
  BY ONLY <1>1, mic \in [Analog -> Int], ein \in [Analog -> Int],
          line = [i \in Analog |->
                    [mic |-> mic[i], ein |-> ein[i],
                     pad |-> ValueAt(g[<<"preamp", PAD>>], i - 1),
                     gain |-> ValueAt(g[<<"preamp", GAIN>>], i - 1)]] DEF LineType
<1>3. line = [i \in 1..BlockLen |-> line[i]] /\ \A i \in 1..BlockLen : line[i] \in LineType
  BY ONLY <1>2, BlockLengths
<1>4. BlockLen \in Nat
  BY BlockLengths
<1> QED
  BY ONLY <1>3, <1>4

LEMMA RouteTyped ==
  ASSUME NEW g, SoundGlides(g),
         NEW route, route = [s \in Digital |-> [c \in 0..3 |-> ValueAt(g[<<"matrix", c>>], SampleIndex(s))]]
  PROVE  route \in Seq(RouteType) /\ Len(route) = DigitalLen
<1>1. \A c \in 0..3 : <<"matrix", c>> \in Parameters
  <2>1. \A c \in 0..3 : c = 0 \/ c = 1 \/ c = 2 \/ c = 3
    OBVIOUS
  <2>2. \A c \in 0..3 : <<"matrix", c>> \in Crosspoints
    BY ONLY <2>1 DEF Crosspoints
  <2> QED
    BY ONLY <2>2, NamesAre
<1>2. ASSUME NEW s \in Digital PROVE route[s] \in RouteType
  <2>1. PICK e \in Nat : e = SampleIndex(s)
    BY GateTyped DEF SampleIndex
  <2>2. \A c \in 0..3 : ValueAt(g[<<"matrix", c>>], e) \in Int
    BY ONLY <1>1, SoundGlides(g), e \in Nat, ValueTyped
  <2>3. route[s] = [c \in 0..3 |-> ValueAt(g[<<"matrix", c>>], e)]
    BY <2>1
  <2> QED
    BY ONLY <2>2, <2>3 DEF RouteType
<1>3. route = [i \in 1..DigitalLen |-> route[i]] /\ \A i \in 1..DigitalLen : route[i] \in RouteType
  BY <1>2, BlockLengths
<1>4. DigitalLen \in Nat
  BY BlockLengths
<1> QED
  BY ONLY <1>3, <1>4

LEMMA OneBlock ==
  ASSUME NEW t, DOMAIN t = TraceNames,
         \A n \in AnalogNames : t[n] \in [Analog -> Int],
         \A n \in {"ad", "usb", "send", "monitor", "ad_power"} : t[n] \in [Digital -> Int],
         t["host"] \in Seq(Int), Len(t["host"]) = DigitalLen,
         t["line"] \in Seq(LineType), Len(t["line"]) = BlockLen,
         t["route"] \in Seq(RouteType), Len(t["route"]) = DigitalLen
  PROVE  Sound(t, 1)
<1>1. 1 * BlockLen = BlockLen /\ 1 * DigitalLen = DigitalLen
  BY BlockLengths
<1>2. ASSUME NEW n \in AnalogNames PROVE t[n] \in Seq(Int) /\ Len(t[n]) = BlockLen
  BY AnalogSignal
<1>3. ASSUME NEW n \in DigitalNames PROVE t[n] \in Seq(Int) /\ Len(t[n]) = DigitalLen
  <2>1. n = "host" \/ n \in {"ad", "usb", "send", "monitor", "ad_power"}
    BY DEF DigitalNames
  <2>2. CASE n \in {"ad", "usb", "send", "monitor", "ad_power"}
    <3>1. PICK x \in [Digital -> Int] : x = t[n]
      BY ONLY <2>2, \A k \in {"ad", "usb", "send", "monitor", "ad_power"} : t[k] \in [Digital -> Int]
    <3>2. x \in Seq(Int) /\ Len(x) = DigitalLen
      BY ONLY x \in [Digital -> Int], DigitalSignal
    <3> QED
      BY ONLY <3>1, <3>2
  <2> QED
    BY <2>1, <2>2
<1> QED
  BY <1>1, <1>2, <1>3 DEF Sound

LEMMA ChainBlock ==
  ASSUME ChainInv, NEW mic \in MicBlocks, NEW usb \in UsbBlocks, NEW ein \in EinDraws,
         NEW dither \in DitherDraws, ProcessBlock(mic, usb, ein, dither)
  PROVE  ChainInv'
<1> DEFINE g == Aimed
           each == [i \in Analog |-> i - 1]
           amped == Amped(g, [i \in Analog |-> mic[i] + phantom], [i \in Analog |-> phantom], ein)
           shelved == Shelved(g, shelf, amped)
           volts == Preamp(g, amped, shelved.out)
           decimated == Decimate(AaTaps, M, anti_alias, volts)
           ad == Ad(g, decimated.out, dither)
           send == Routed(g, <<ad, usb>>, 0)
           monitor == Routed(g, <<ad, usb>>, 1)
           lifted == Interpolate(ReconTaps, M, recon, monitor)
           da == Da(g, lifted.out)
           amp == Amp(g, da)
           heard == Decimate(AaTaps, M, host, amp)
           line == [i \in Analog |->
                      [mic |-> mic[i], ein |-> ein[i],
                       pad |-> ValueAt(g[<<"preamp", PAD>>], i - 1),
                       gain |-> ValueAt(g[<<"preamp", GAIN>>], i - 1)]]
           captured == Captured(heard.out)
           air == Read(g, <<"preamp", AIR>>, each)
           power == Read(g, <<"preamp", POWERED>>, each)
           ad_power == Read(g, <<"ad", CONVERTER_POWERED>>, [i \in Digital |-> GateAt(i)])
           da_power == Read(g, <<"da", CONVERTER_POWERED>>, each)
           amp_power == Read(g, <<"amp", POWERED>>, each)
           route == [s \in Digital |-> [c \in 0..3 |-> ValueAt(g[<<"matrix", c>>], SampleIndex(s))]]
           now == [line |-> line, amped |-> amped, shelved |-> shelved.out, preamp |-> volts, ad |-> ad,
                   usb |-> usb, send |-> send, monitor |-> monitor, da |-> da, amp |-> amp, host |-> captured,
                   air |-> air, power |-> power, ad_power |-> ad_power, da_power |-> da_power,
                   amp_power |-> amp_power, route |-> route]
<1>1. /\ glides' = Advanced(g) /\ shelf' = shelved.state
      /\ anti_alias' = decimated.ring /\ recon' = lifted.ring /\ host' = heard.ring
      /\ trace' = [n \in DOMAIN trace |-> trace[n] \o now[n]]
  <2>1. glides' = Advanced(g) /\ shelf' = shelved.state
    BY ZenonT(60) DEF ProcessBlock
  <2>2. anti_alias' = decimated.ring /\ recon' = lifted.ring
    BY ZenonT(60) DEF ProcessBlock
  <2>3. host' = heard.ring
    BY ZenonT(60) DEF ProcessBlock
  <2>4. trace' = [n \in DOMAIN trace |-> trace[n] \o now[n]]
    BY ZenonT(60) DEF ProcessBlock
  <2> QED
    BY ONLY <2>1, <2>2, <2>3, <2>4, Zenon
<1>2. pending' = <<>> /\ block' = block + 1 /\ phantom' = phantom
  BY ONLY ProcessBlock(mic, usb, ein, dither) DEF ProcessBlock
<1> HIDE DEF g, each, amped, shelved, volts, decimated, ad, send, monitor, lifted, da, amp, heard, line,
             captured, air, power, ad_power, da_power, amp_power, route
<1>3. /\ DOMAIN now = TraceNames
      /\ now["line"] = line /\ now["amped"] = amped /\ now["shelved"] = shelved.out
      /\ now["preamp"] = volts /\ now["ad"] = ad /\ now["usb"] = usb /\ now["send"] = send /\ now["monitor"] = monitor
      /\ now["da"] = da /\ now["amp"] = amp /\ now["host"] = captured /\ now["air"] = air
      /\ now["power"] = power /\ now["ad_power"] = ad_power /\ now["da_power"] = da_power
      /\ now["amp_power"] = amp_power /\ now["route"] = route
  BY ONLY TRUE DEF TraceNames, AnalogNames, DigitalNames
<1> HIDE DEF now
<1>4. /\ SoundGlides(g) /\ \A p \in Parameters : g[p].current = glides[p].current
      /\ ~split => Together(g)
      /\ \A j \in {0, 1} : turned \intersect Own(j) = {} => AsBuilt(g, j)
  <2>1. g = Aimed
    BY DEF g
  <2>2. /\ SoundGlides(glides) /\ SoundQueue(pending)
        /\ ~split => Together(glides) /\ Asked(pending)
        /\ \A j \in {0, 1} : turned \intersect Own(j) = {} => AsBuilt(glides, j) /\ Unasked(pending, j)
    BY ONLY ChainInv DEF ChainInv, KnobsInv
  <2> QED
    BY ONLY <2>1, <2>2, AimedSound, AimedTogether
<1>5. /\ phantom \in Int /\ block \in Nat /\ Sound(trace, block) /\ FiltersInv /\ GlidesInv /\ HeardInv
  BY ONLY ChainInv DEF ChainInv
<1>6. /\ mic \in [Analog -> Int] /\ ein \in [Analog -> Int]
      /\ usb \in [Digital -> Int] /\ dither \in [Digital -> Int]
  BY ChainAssumption
<1>7. amped \in [Analog -> Int]
  <2>1. /\ [i \in Analog |-> mic[i] + phantom] \in [Analog -> Int]
        /\ [i \in Analog |-> phantom] \in [Analog -> Int]
    BY ONLY <1>5, <1>6
  <2>2. amped = Amped(g, [i \in Analog |-> mic[i] + phantom], [i \in Analog |-> phantom], ein)
    BY DEF amped
  <2> QED
    BY ONLY <2>1, <2>2, <1>4, <1>6, AmpedTyped
<1>8. shelved = Shelved(g, shelf, amped) /\ shelved.out \in [Analog -> Int]
  <2>1. shelved = Shelved(g, shelf, amped)
    BY DEF shelved
  <2>2. shelf \in StateType
    BY <1>5 DEF FiltersInv
  <2> QED
    BY ONLY <2>1, <2>2, <1>7, ShelvedTyped
<1>9. volts = Preamp(g, amped, shelved.out) /\ volts \in [Analog -> Int]
  <2>1. volts = Preamp(g, amped, shelved.out)
    BY DEF volts
  <2> QED
    BY ONLY <2>1, <1>4, <1>7, <1>8, PreampTyped
<1>10. PICK A : A = block * BlockLen
  OBVIOUS
<1>11. PICK B : B = block * DigitalLen
  OBVIOUS
<1>12. /\ trace["preamp"] \in Seq(Int) /\ Len(trace["preamp"]) = A
       /\ trace["amp"] \in Seq(Int) /\ Len(trace["amp"]) = A
       /\ trace["monitor"] \in Seq(Int) /\ Len(trace["monitor"]) = B
  BY ONLY <1>5, <1>10, <1>11 DEF Sound, AnalogNames, DigitalNames
<1>13. /\ decimated = Decimate(AaTaps, M, anti_alias, volts)
       /\ decimated.out \in Seq(Int) /\ Len(decimated.out) = DigitalLen
       /\ decimated.ring \in RingType(Len(AaTaps))
       /\ Hears(decimated.ring, Len(AaTaps), trace.preamp \o volts, Len(trace.preamp \o volts))
  <2>1. decimated = Decimate(AaTaps, M, anti_alias, volts)
    BY DEF decimated
  <2>2. Longer(trace.preamp, volts, trace.preamp \o volts, A, BlockLen)
    <3>1. volts \in Seq(Int) /\ Len(volts) = BlockLen
      BY ONLY <1>9, AnalogSignal
    <3> QED
      BY ONLY <3>1, <1>12, LongerIs
  <2>3. anti_alias \in RingType(Len(AaTaps)) /\ Hears(anti_alias, Len(AaTaps), trace.preamp, Len(trace.preamp))
    BY <1>5 DEF FiltersInv
  <2>4. PICK x : x = trace.preamp
    OBVIOUS
  <2>5. PICK z : z = trace.preamp \o volts
    OBVIOUS
  <2>6. Continues(decimated, x, z, B)
    BY ONLY <2>1, <2>2, <2>3, <2>4, <2>5, <1>5, <1>10, <1>11, DecimatedBlock
  <2> QED
    BY ONLY <2>1, <2>4, <2>5, <2>6 DEF Continues
<1>14. ad = Ad(g, decimated.out, dither) /\ ad \in [Digital -> Int]
  <2>1. ad = Ad(g, decimated.out, dither)
    BY DEF ad
  <2> QED
    BY ONLY <2>1, <1>4, <1>6, <1>13, AdTyped
<1>15. send \in [Digital -> Int] /\ (turned \intersect Own(0) = {} => send = ad)
  <2>1. send = Routed(g, <<ad, usb>>, 0) /\ 0 \in {0, 1}
    BY DEF send
  <2>2. send \in [Digital -> Int]
    BY ONLY <2>1, <1>4, <1>6, <1>14, RoutedIs
  <2>3. turned \intersect Own(0) = {} => send = ad
    BY ONLY <2>1, <1>4, <1>6, <1>14, MixAsBuilt
  <2> QED
    BY ONLY <2>2, <2>3
<1>16. monitor \in [Digital -> Int] /\ (turned \intersect Own(1) = {} => monitor = usb)
  <2>1. monitor = Routed(g, <<ad, usb>>, 1) /\ 1 \in {0, 1}
    BY DEF monitor
  <2>2. monitor \in [Digital -> Int]
    BY ONLY <2>1, <1>4, <1>6, <1>14, RoutedIs
  <2>3. turned \intersect Own(1) = {} => monitor = usb
    BY ONLY <2>1, <1>4, <1>6, <1>14, MixAsBuilt
  <2> QED
    BY ONLY <2>2, <2>3
<1>17. /\ lifted = Interpolate(ReconTaps, M, recon, monitor)
       /\ lifted.out \in Seq(Int) /\ Len(lifted.out) = BlockLen
       /\ lifted.ring \in RingType(Span(ReconTaps, M))
       /\ Hears(lifted.ring, Span(ReconTaps, M), trace.monitor \o monitor, Len(trace.monitor \o monitor))
  <2>1. lifted = Interpolate(ReconTaps, M, recon, monitor)
    BY DEF lifted
  <2>2. Longer(trace.monitor, monitor, trace.monitor \o monitor, B, DigitalLen)
    <3>1. monitor \in Seq(Int) /\ Len(monitor) = DigitalLen
      BY ONLY <1>16, DigitalSignal
    <3> QED
      BY ONLY <3>1, <1>12, LongerIs
  <2>3. recon \in RingType(Span(ReconTaps, M)) /\ Hears(recon, Span(ReconTaps, M), trace.monitor, Len(trace.monitor))
    BY <1>5 DEF FiltersInv
  <2>4. PICK x : x = trace.monitor
    OBVIOUS
  <2>5. PICK z : z = trace.monitor \o monitor
    OBVIOUS
  <2>6. Rises(lifted, x, z, A)
    BY ONLY <2>1, <2>2, <2>3, <2>4, <2>5, <1>5, <1>10, <1>11, LiftedBlock
  <2> QED
    BY ONLY <2>1, <2>4, <2>5, <2>6 DEF Rises
<1>18. da = Da(g, lifted.out) /\ da \in [Analog -> Int]
  <2>1. da = Da(g, lifted.out)
    BY DEF da
  <2> QED
    BY ONLY <2>1, <1>4, <1>17, DaTyped
<1>19. amp \in [Analog -> Int]
  <2>1. amp = Amp(g, da)
    BY DEF amp
  <2> QED
    BY ONLY <2>1, <1>4, <1>18, AmpTyped
<1>20. /\ heard = Decimate(AaTaps, M, host, amp)
       /\ heard.out \in Seq(Int) /\ Len(heard.out) = DigitalLen
       /\ heard.ring \in RingType(Len(AaTaps))
       /\ Hears(heard.ring, Len(AaTaps), trace.amp \o amp, Len(trace.amp \o amp))
  <2>1. heard = Decimate(AaTaps, M, host, amp)
    BY DEF heard
  <2>2. Longer(trace.amp, amp, trace.amp \o amp, A, BlockLen)
    <3>1. amp \in Seq(Int) /\ Len(amp) = BlockLen
      BY ONLY <1>19, AnalogSignal
    <3> QED
      BY ONLY <3>1, <1>12, LongerIs
  <2>3. host \in RingType(Len(AaTaps)) /\ Hears(host, Len(AaTaps), trace.amp, Len(trace.amp))
    BY <1>5 DEF FiltersInv
  <2>4. PICK x : x = trace.amp
    OBVIOUS
  <2>5. PICK z : z = trace.amp \o amp
    OBVIOUS
  <2>6. Continues(heard, x, z, B)
    BY ONLY <2>1, <2>2, <2>3, <2>4, <2>5, <1>5, <1>10, <1>11, DecimatedBlock
  <2> QED
    BY ONLY <2>1, <2>4, <2>5, <2>6 DEF Continues
<1>21. captured = Captured(heard.out) /\ captured \in Seq(Int) /\ Len(captured) = DigitalLen
  <2>1. captured = Captured(heard.out)
    BY DEF captured
  <2> QED
    BY ONLY <2>1, <1>20, CapturedTyped
<1>22. /\ air \in [Analog -> Int] /\ \A i \in Analog : air[i] = ValueAt(g[AirSwitch], i - 1)
       /\ power \in [Analog -> Int] /\ \A i \in Analog : power[i] = ValueAt(g[MainPower], i - 1)
  <2>1. air = Read(g, AirSwitch, [i \in Analog |-> i - 1]) /\ power = Read(g, MainPower, [i \in Analog |-> i - 1])
    BY DEF air, power, each, AirSwitch, MainPower
  <2>2. AirSwitch \in Parameters /\ MainPower \in Parameters
    BY NamesAre
  <2> QED
    BY ONLY <2>1, <2>2, <1>4, ReadIs
<1>23. /\ <<"da", CONVERTER_POWERED>> \in Powers /\ <<"amp", POWERED>> \in Powers
       /\ <<"ad", CONVERTER_POWERED>> \in Powers
       /\ \A p \in Powers : p \in Parameters
  BY NamesAre DEF Powers
<1>24. /\ da_power \in [Analog -> Int] /\ \A i \in Analog : da_power[i] = ValueAt(g[<<"da", CONVERTER_POWERED>>], i - 1)
       /\ amp_power \in [Analog -> Int] /\ \A i \in Analog : amp_power[i] = ValueAt(g[<<"amp", POWERED>>], i - 1)
       /\ ad_power \in [Digital -> Int]
       /\ \A i \in Digital : ad_power[i] = ValueAt(g[<<"ad", CONVERTER_POWERED>>], GateAt(i))
  <2>1. /\ da_power = Read(g, <<"da", CONVERTER_POWERED>>, [i \in Analog |-> i - 1])
        /\ amp_power = Read(g, <<"amp", POWERED>>, [i \in Analog |-> i - 1])
        /\ ad_power = Read(g, <<"ad", CONVERTER_POWERED>>, [i \in Digital |-> GateAt(i)])
    BY DEF da_power, amp_power, ad_power, each
  <2> QED
    BY ONLY <2>1, <1>4, <1>23, ReadIs
<1>25. /\ line = [i \in Analog |-> [mic |-> mic[i], ein |-> ein[i],
                                   pad |-> ValueAt(g[<<"preamp", PAD>>], i - 1),
                                   gain |-> ValueAt(g[<<"preamp", GAIN>>], i - 1)]]
       /\ line \in Seq(LineType) /\ Len(line) = BlockLen
  <2>1. line = [i \in Analog |-> [mic |-> mic[i], ein |-> ein[i],
                                 pad |-> ValueAt(g[<<"preamp", PAD>>], i - 1),
                                 gain |-> ValueAt(g[<<"preamp", GAIN>>], i - 1)]]
    BY DEF line
  <2> QED
    BY ONLY <2>1, <1>4, <1>6, LineTyped
<1>26. route \in Seq(RouteType) /\ Len(route) = DigitalLen
  <2>1. route = [s \in Digital |-> [c \in 0..3 |-> ValueAt(g[<<"matrix", c>>], SampleIndex(s))]]
    BY DEF route
  <2> QED
    BY ONLY <2>1, <1>4, RouteTyped
<1>27. Sound(now, 1)
  <2>1. \A n \in AnalogNames : now[n] \in [Analog -> Int]
    BY ONLY <1>3, <1>7, <1>8, <1>9, <1>18, <1>19, <1>22, <1>24 DEF AnalogNames
  <2>2. \A n \in {"ad", "usb", "send", "monitor", "ad_power"} : now[n] \in [Digital -> Int]
    BY ONLY <1>3, <1>6, <1>14, <1>15, <1>16, <1>24
  <2> QED
    BY ONLY <2>1, <2>2, <1>3, <1>21, <1>25, <1>26, OneBlock
<1>28. Sound(trace', block + 1) /\ Grows(trace, now, trace')
  BY ONLY <1>1, <1>5, <1>27, SoundGrows
<1>29. /\ trace'["preamp"] = trace["preamp"] \o volts /\ trace'["amp"] = trace["amp"] \o amp
       /\ trace'["monitor"] = trace["monitor"] \o monitor
  <2>1. "preamp" \in TraceNames /\ "amp" \in TraceNames /\ "monitor" \in TraceNames
    BY DEF TraceNames, AnalogNames, DigitalNames
  <2> QED
    BY ONLY <2>1, <1>3, <1>28 DEF Grows
<1>30. AdHears(trace') /\ HostHears(trace') /\ DaHears(trace')
  <2>1. AdHears(trace)  /\ HostHears(trace) /\ DaHears(trace)
    BY <1>5 DEF HeardInv
  <2>2. AdHears(trace')
    <3>1. \A i \in Digital : now.ad_power[i] = ValueAt(g[<<"ad", CONVERTER_POWERED>>], GateAt(i))
      BY ONLY <1>3, <1>24
    <3>2. anti_alias \in RingType(Len(AaTaps)) /\ Hears(anti_alias, Len(AaTaps), trace.preamp, Len(trace.preamp))
      BY <1>5 DEF FiltersInv
    <3>3. decimated = Decimate(AaTaps, M, anti_alias, now.preamp) /\ now.ad = Ad(g, decimated.out, dither)
      BY ONLY <1>3, <1>13, <1>14
    <3> QED
      BY ONLY <2>1, <3>1, <3>2, <3>3, <1>5, <1>27, <1>28, dither \in DitherDraws, AdGrows
  <2>3. HostHears(trace')
    <3>1. host \in RingType(Len(AaTaps)) /\ Hears(host, Len(AaTaps), trace.amp, Len(trace.amp))
      BY <1>5 DEF FiltersInv
    <3>2. heard = Decimate(AaTaps, M, host, now.amp) /\ now.host = Captured(heard.out)
      BY ONLY <1>3, <1>20, <1>21
    <3> QED
      BY ONLY <2>1, <3>1, <3>2, <1>5, <1>27, <1>28, HostGrows
  <2>4. DaHears(trace')
    <3>1. \A i \in Analog : now.da_power[i] = ValueAt(g[<<"da", CONVERTER_POWERED>>], i - 1)
      BY ONLY <1>3, <1>24
    <3>2. recon \in RingType(Span(ReconTaps, M)) /\ Hears(recon, Span(ReconTaps, M), trace.monitor, Len(trace.monitor))
      BY <1>5 DEF FiltersInv
    <3>3. lifted = Interpolate(ReconTaps, M, recon, now.monitor) /\ now.da = Da(g, lifted.out)
      BY ONLY <1>3, <1>17, <1>18
    <3> QED
      BY ONLY <2>1, <3>1, <3>2, <3>3, <1>5, <1>27, <1>28, DaGrows
  <2> QED
    BY ONLY <2>2, <2>3, <2>4
<1>31. /\ ShelfKept(trace')
       /\ shelved.state \in StateType
       /\ ShelfHears(shelved.state, trace'.amped, trace'.shelved, Len(trace'.amped))
  <2>1. ShelfKept(trace)
    BY <1>5 DEF HeardInv
  <2>2. shelf \in StateType /\ ShelfHears(shelf, trace.amped, trace.shelved, Len(trace.amped))
    BY <1>5 DEF FiltersInv
  <2>3. /\ now.amped \in [Analog -> Int] /\ shelved = Shelved(g, shelf, now.amped)
        /\ now.shelved = shelved.out /\ now.preamp = Preamp(g, now.amped, now.shelved)
    BY ONLY <1>3, <1>7, <1>8, <1>9
  <2>4. /\ \A i \in Analog : now.air[i] = ValueAt(g[AirSwitch], i - 1)
        /\ \A i \in Analog : now.power[i] = ValueAt(g[MainPower], i - 1)
    BY ONLY <1>3, <1>22
  <2> QED
    BY ONLY <2>1, <2>2, <2>3, <2>4, <1>4, <1>5, <1>27, <1>28, ShelfGrows
<1>32. Recorded(trace')
  <2>1. Recorded(trace)
    BY <1>5 DEF HeardInv
  <2>2. PICK plus : plus = [i \in Analog |-> mic[i] + phantom]
    OBVIOUS
  <2>3. PICK minus : minus = [i \in Analog |-> phantom]
    OBVIOUS
  <2>4. now.amped = Amped(g, plus, minus, ein)
    BY ONLY <1>3, <2>2, <2>3 DEF amped
  <2>5. now.line = MicLine(g, mic, ein)
    BY ONLY <1>3, <1>25 DEF MicLine
  <2> QED
    BY ONLY <2>1, <2>2, <2>3, <2>4, <2>5, <1>4, <1>5, <1>6, <1>27, <1>28, RecordGrows
<1>33. HeardInv'
  <2>1. Mixed
    BY <1>5 DEF HeardInv
  <2>2. turned' = turned
    BY ONLY ProcessBlock(mic, usb, ein, dither) DEF ProcessBlock
  <2>3. {"ad", "usb", "send", "monitor"} \subseteq TraceNames
    BY DEF TraceNames, DigitalNames
  <2>4. /\ Passed(trace', "ad", "send", turned \intersect Own(0) = {})
        /\ Passed(trace', "usb", "monitor", turned \intersect Own(1) = {})
    <3>1. /\ turned \intersect Own(0) = {} => now["send"] = now["ad"]
          /\ turned \intersect Own(1) = {} => now["monitor"] = now["usb"]
      BY ONLY <1>3, <1>15, <1>16
    <3>2. PICK u : u = trace'
      OBVIOUS
    <3>3. Grows(trace, now, u)
      BY ONLY <1>28, <3>2
    <3>4. \A n \in {"ad", "usb", "send", "monitor"} : u[n] = trace[n] \o now[n]
      BY ONLY <2>3, <3>3 DEF Grows
    <3>5. turned \intersect Own(0) = {} => u["send"] = u["ad"]
      BY ONLY <2>1, <3>1, <3>4 DEF Mixed, Passed
    <3>6. turned \intersect Own(1) = {} => u["monitor"] = u["usb"]
      BY ONLY <2>1, <3>1, <3>4 DEF Mixed, Passed
    <3> QED
      BY ONLY <3>2, <3>5, <3>6 DEF Passed
  <2>5. Mixed'
    BY ONLY <2>2, <2>4 DEF Mixed, Passed
  <2> QED
    BY ONLY <1>30, <1>31, <1>32, <2>5 DEF HeardInv
<1>34. FiltersInv'
  BY ONLY <1>1, <1>13, <1>17, <1>20, <1>29, <1>31 DEF FiltersInv
<1>35. KnobsInv'
  <2>1. /\ SoundGlides(Advanced(g))
        /\ ~split => Together(Advanced(g))
        /\ \A j \in {0, 1} : turned \intersect Own(j) = {} => AsBuilt(Advanced(g), j)
    BY ONLY <1>4, AdvancedSound, AdvancedTogether
  <2>2. SoundQueue(pending') /\ Asked(pending') /\ \A j \in {0, 1} : Unasked(pending', j)
    BY <1>2, SMTT(30) DEF SoundQueue, Asked, Unasked
  <2>3. split' = split /\ turned' = turned
    BY ONLY ProcessBlock(mic, usb, ein, dither) DEF ProcessBlock
  <2>4. split \in BOOLEAN
    BY ONLY ChainInv DEF ChainInv, KnobsInv
  <2> QED
    BY ONLY <2>1, <2>2, <2>3, <2>4, <1>1 DEF KnobsInv
<1>36. GlidesInv'
  <2>1. /\ Smooth(trace.power, glides[MainPower].current) /\ Smooth(trace.air, glides[AirSwitch].current)
        /\ ~split => PowersAlike(trace)
    BY <1>5 DEF GlidesInv
  <2>2. BlockLen \in Nat /\ Analog = 1..BlockLen
    BY BlockLengths
  <2>3. \A p \in {MainPower, AirSwitch} :
          /\ p \in Parameters /\ g[p] \in SmootherType /\ Gliding(g[p]) /\ g[p].max - g[p].min = One
          /\ g[p].current = glides[p].current /\ glides'[p].current = ValueAt(g[p], BlockLen)
    <3>1. MainPower \in Parameters /\ AirSwitch \in Parameters /\ MainPower \in Powers
      BY NamesAre
    <3>2. \A p \in {MainPower, AirSwitch} : Declared[p].min = 0 /\ Declared[p].max = One
      BY <3>1, DeclaredAs DEF Smoother
    <3>3. One - 0 = One
      BY UnitTyped
    <3>4. \A p \in Parameters : Advanced(g)[p].current = ValueAt(g[p], BlockLen)
      BY ONLY <1>4, AdvancedSound
    <3> QED
      BY ONLY <3>1, <3>2, <3>3, <3>4, <1>1, <1>4 DEF SoundGlides
  <2>4. Smooth(trace'.power, glides'[MainPower].current)
    <3>1. PICK x : x = trace.power
      OBVIOUS
    <3>2. PICK z : z = trace'.power
      OBVIOUS
    <3>3. PICK s : s = g[MainPower]
      OBVIOUS
    <3>4. Longer(x, power, z, A, BlockLen) /\ A \in Nat
      <4>1. "power" \in AnalogNames
        BY DEF AnalogNames
      <4> QED
        BY ONLY <4>1, <3>1, <3>2, <1>3, <1>5, <1>10, <1>27, <1>28, Lengths, BlockEnds
    <3>5. \A i \in 1..BlockLen : power[i] = ValueAt(s, i - 1)
      BY ONLY <1>22, <2>2, <3>3
    <3>6. s \in SmootherType /\ Gliding(s) /\ s.max - s.min = One /\ Smooth(x, s.current)
      BY ONLY <2>1, <2>3, <3>1, <3>3
    <3>7. Smooth(z, ValueAt(s, BlockLen))
      BY ONLY <3>4, <3>5, <3>6, SmoothGrows
    <3> QED
      BY ONLY <2>3, <3>2, <3>3, <3>7
  <2>5. Smooth(trace'.air, glides'[AirSwitch].current)
    <3>1. PICK x : x = trace.air
      OBVIOUS
    <3>2. PICK z : z = trace'.air
      OBVIOUS
    <3>3. PICK s : s = g[AirSwitch]
      OBVIOUS
    <3>4. Longer(x, air, z, A, BlockLen) /\ A \in Nat
      <4>1. "air" \in AnalogNames
        BY DEF AnalogNames
      <4> QED
        BY ONLY <4>1, <3>1, <3>2, <1>3, <1>5, <1>10, <1>27, <1>28, Lengths, BlockEnds
    <3>5. \A i \in 1..BlockLen : air[i] = ValueAt(s, i - 1)
      BY ONLY <1>22, <2>2, <3>3
    <3>6. s \in SmootherType /\ Gliding(s) /\ s.max - s.min = One /\ Smooth(x, s.current)
      BY ONLY <2>1, <2>3, <3>1, <3>3
    <3>7. Smooth(z, ValueAt(s, BlockLen))
      BY ONLY <3>4, <3>5, <3>6, SmoothGrows
    <3> QED
      BY ONLY <2>3, <3>2, <3>3, <3>7
  <2>6. ASSUME ~split PROVE PowersAlike(trace')
    <3>1. PICK s : s = g[MainPower]
      OBVIOUS
    <3>2. \A p \in Powers : g[p] = s
      BY ONLY <2>6, <3>1, <1>4 DEF Together
    <3>3. /\ \A i \in Analog : /\ now.power[i] = ValueAt(s, i - 1)
                               /\ now.da_power[i] = ValueAt(s, i - 1)
                               /\ now.amp_power[i] = ValueAt(s, i - 1)
          /\ \A i \in Digital : now.ad_power[i] = ValueAt(s, GateAt(i))
      BY ONLY <3>1, <3>2, <1>3, <1>22, <1>23, <1>24, SMTT(30)
    <3> QED
      BY ONLY <2>1, <2>6, <3>3, <1>5, <1>27, <1>28, PowersGrow
  <2>7. split' = split
    BY ONLY ProcessBlock(mic, usb, ein, dither) DEF ProcessBlock
  <2> QED
    BY ONLY <2>4, <2>5, <2>6, <2>7 DEF GlidesInv
<1> QED
  <2>1. phantom' \in Int /\ block' \in Nat /\ Sound(trace', block')
    BY ONLY <1>2, <1>5, <1>28
  <2> QED
    BY ONLY <2>1, <1>33, <1>34, <1>35, <1>36 DEF ChainInv

LEMMA ChainNext == ChainInv /\ [Next]_vars => ChainInv'
<1> SUFFICES ASSUME ChainInv, [Next]_vars PROVE ChainInv'
  OBVIOUS
<1>1. CASE \E t \in Turns : Turn(t[1], t[2])
  BY <1>1, ChainTurns
<1>2. CASE \E mic \in MicBlocks, usb \in UsbBlocks, ein \in EinDraws, dither \in DitherDraws :
              ProcessBlock(mic, usb, ein, dither)
  BY <1>2, ChainBlock
<1>3. CASE UNCHANGED vars
  BY <1>3 DEF vars, ChainInv, KnobsInv, FiltersInv, GlidesInv, HeardInv, Mixed
<1> QED
  BY <1>1, <1>2, <1>3 DEF Next

LEMMA ChainKept == Spec => []ChainInv
BY ChainInit, ChainNext, PTL DEF Spec

-----------------------------------------------------------------------------

\* For every kernel, every converter factor that divides the block, every cut
\* of the sound into blocks and everything that is switched on the way: each
\* converter and the capture have computed their kernel over the whole past
\* (fir.rs:158, fir.rs:262), and the AIR shelf has heard it all (biquad.rs:109).
THEOREM FiltersHearTheWholePastTheorem == Spec => []FiltersHearTheWholePast
<1>1. ChainInv => FiltersHearTheWholePast
  <2> SUFFICES ASSUME ChainInv PROVE FiltersHearTheWholePast
    OBVIOUS
  <2>1. AdHears(trace) /\ HostHears(trace) /\ DaHears(trace) /\ ShelfKept(trace)
    BY ONLY ChainInv DEF ChainInv, HeardInv
  <2> QED
    BY ONLY <2>1 DEF FiltersHearTheWholePast, AdHears, HostHears, DaHears, ShelfKept, Recurrence
<1> QED
  BY <1>1, ChainKept, PTL

\* Whatever the smoothing length and the block, no switch moves by more than a
\* glide's step from a sample to the next, and the four nodes that the one power
\* switch gates read the same value at every instant, unless the queue once had
\* no room for a whole group (param.rs:198, ad.rs:154-160).
THEOREM SwitchesGlideTheorem == Spec => []SwitchesGlide
<1>1. ChainInv => SwitchesGlide
  <2> SUFFICES ASSUME ChainInv PROVE SwitchesGlide
    OBVIOUS
  <2>1. /\ Smooth(trace.power, glides[MainPower].current) /\ Smooth(trace.air, glides[AirSwitch].current)
        /\ (~split => PowersAlike(trace)) /\ Sound(trace, block)
    BY ONLY ChainInv DEF ChainInv, GlidesInv
  <2>2. Len(trace["power"]) = Len(trace["air"])
    BY ONLY <2>1 DEF Sound, AnalogNames
  <2> QED
    BY ONLY <2>1, <2>2 DEF SwitchesGlide, Smooth, PowersAlike
<1> QED
  BY <1>1, ChainKept, PTL

\* Whatever pedestal phantom power puts on the line and whatever is turned, the
\* preamp has amplified the difference of the legs alone (mic_preamp.rs:315).
THEOREM RailClipsTheDifferenceTheorem == Spec => []RailClipsTheDifference
<1>1. ChainInv => RailClipsTheDifference
  BY DEF ChainInv, HeardInv, Recorded, RailClipsTheDifference
<1> QED
  BY <1>1, ChainKept, PTL

\* Whatever is mixed at the crosspoints of one output of the matrix, every one of
\* which is a knob, the other output keeps the mix it was built with until one of
\* its own is turned (matrix.rs:48).
THEOREM OutputsKeepTheirMixTheorem == Spec => []OutputsKeepTheirMix
<1>1. ChainInv => OutputsKeepTheirMix
  <2> SUFFICES ASSUME ChainInv PROVE OutputsKeepTheirMix
    OBVIOUS
  <2>1. Mixed
    BY ONLY ChainInv DEF ChainInv, HeardInv
  <2> QED
    BY ONLY <2>1, ColumnsAre DEF Mixed, Passed, OutputsKeepTheirMix
<1> QED
  BY <1>1, ChainKept, PTL

=============================================================================
