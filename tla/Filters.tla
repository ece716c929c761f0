------------------------------- MODULE Filters -------------------------------
(***************************************************************************)
(* The stateful pieces the circuit nodes are made of: the de-zipper of a   *)
(* control parameter (crates/engine/src/param.rs), the decimating and the  *)
(* interpolating FIR of the converters (fir.rs) and the second-order       *)
(* section (dsp/biquad.rs).  Each keeps its state from one block to the    *)
(* next; a value is an integer, and a float product is rounded down to a   *)
(* multiple of 1 / One.                                                    *)
(***************************************************************************)
EXTENDS Integers, FiniteSetsExt, SequencesExt

CONSTANTS
  One,         \* the unit of a parameter: 1.0
  GlideLen     \* smooth_samples: analog samples that a change takes

ASSUME FiltersAssumption == One \in Nat \ {0} /\ GlideLen \in Nat \ {0}

Times(x, gain) == (x * gain) \div One
Lesser(a, b) == IF a < b THEN a ELSE b
Greater(a, b) == IF a > b THEN a ELSE b
Clamp(x, lo, hi) == Lesser(Greater(x, lo), hi)

-----------------------------------------------------------------------------
(* Smoother: a glide from where it is toward its target.                   *)

Smoother(default, lo, hi) ==
  [current |-> default, target |-> default, step |-> 0, min |-> lo, max |-> hi]

\* Mutant: a new target is jumped to.
Jumped(s, value) == LET v == Clamp(value, s.min, s.max) IN
  [s EXCEPT !.target = v, !.current = v, !.step = 0]

SetTarget(s, value) == LET v == Clamp(value, s.min, s.max) IN
  IF v = s.target THEN s
  ELSE [s EXCEPT !.target = v, !.step = (v - s.current) \div GlideLen]

\* clamp_toward
Toward(v, target, step) ==
  IF step > 0 THEN Lesser(v, target) ELSE IF step < 0 THEN Greater(v, target) ELSE v

ValueAt(s, i) == Toward(s.current + s.step * i, s.target, s.step)

Advance(s, blockLen) == LET v == ValueAt(s, blockLen) IN
  [s EXCEPT !.current = v, !.step = IF v = s.target THEN 0 ELSE @]

-----------------------------------------------------------------------------
(* Ring buffers of past samples, and the two FIRs over them.               *)

Ring(len) == [history |-> [k \in 1..len |-> 0], pos |-> 1]

Pushed(ring, x) ==
  [history |-> [ring.history EXCEPT ![ring.pos] = x],
   pos |-> IF ring.pos = Len(ring.history) THEN 1 ELSE ring.pos + 1]

\* Mutant: pos is taken for the newest sample, not for the next place.
FromPos(ring, k) == ring.history[1 + ((ring.pos - 1 - k) % Len(ring.history))]

\* The sample k before the newest.
Back(ring, k) == ring.history[1 + ((ring.pos - 2 - k) % Len(ring.history))]

\* The ring before the first sample of a block, and after each.
Pushes(ring, input) ==
  FoldLeft(LAMBDA rings, x : Append(rings, Pushed(Last(rings), x)), <<ring>>, input)

\* Every stride-th tap from `first` on meets the next older sample.
Dot(ring, taps, first, stride) ==
  SumFunction([j \in DOMAIN taps |->
     IF j >= first /\ (j - first) % stride = 0
     THEN taps[j] * Back(ring, (j - first) \div stride)
     ELSE 0])

\* Decimator::process: one output for `factor` inputs, counted from the block.
Decimate(taps, factor, ring, input) ==
  LET rings == Pushes(ring, input) IN
  [ring |-> Last(rings),
   out |-> [n \in 1..(Len(input) \div factor) |-> Dot(rings[1 + n * factor], taps, 1, 1)]]

\* Interpolator: the ring spans the inputs that one phase reaches.
Span(taps, factor) == (Len(taps) + factor - 1) \div factor

\* Interpolator::process: `factor` outputs for each input, one per phase.
Interpolate(taps, factor, ring, input) ==
  LET rings == Pushes(ring, input) IN
  [ring |-> Last(rings),
   out |-> [n \in 1..(Len(input) * factor) |->
              Dot(rings[2 + ((n - 1) \div factor)], taps, 1 + ((n - 1) % factor), factor)]]

-----------------------------------------------------------------------------
(* Biquad: transposed direct form II.                                      *)

Biquad == [z1 |-> 0, z2 |-> 0]

\* What step returns, and the state it leaves.
Stepped(q, c, x) == c.b0 * x + q.z1
StepState(q, c, x) == LET y == Stepped(q, c, x) IN
  [z1 |-> c.b1 * x - c.a1 * y + q.z2, z2 |-> c.b2 * x - c.a2 * y]

\* The state before the first sample of a block, and after each.
Steps(q, c, input) ==
  FoldLeft(LAMBDA states, x : Append(states, StepState(Last(states), c, x)), <<q>>, input)

=============================================================================
