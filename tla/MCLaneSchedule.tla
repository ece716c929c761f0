--------------------------- MODULE MCLaneSchedule ---------------------------
(* Four nodes out of sources, inline processors, balanced drivers and      *)
(* receivers, with every choice of what feeds their inputs, plugged in     *)
(* every order; the converters with their rates; microphones and their     *)
(* supplies; and graphs with a wire or a tap that does not fit.            *)
EXTENDS LaneSchedule

Lanes(domain, lanes) == [domain |-> domain, lanes |-> lanes, rate |-> 0, capacity |-> 4]
Wire == Lanes("analog", 1)
Pair == Lanes("analog", 2)
Air == Lanes("acoustic", 1)
Notes(capacity) == [Lanes("events", 1) EXCEPT !.capacity = capacity]
Digital(channels, rate) == [Lanes("digital", channels) EXCEPT !.rate = rate]

Node(kind, ins, outs) ==
  [kind |-> kind, in |-> ins, out |-> outs, per_conductor |-> kind = "inline",
   draws |-> {}, supplies |-> {}, engaged |-> {}]

Source == Node("mix", <<>>, <<Wire>>)
Gain == Node("mix", <<Wire>>, <<Wire>>)
Inline == Node("inline", <<Wire>>, <<Wire>>)
Driver == Node("driver", <<Wire>>, <<Pair>>)
Receiver == Node("receiver", <<Pair>>, <<Wire>>)
Mic == [Node("mix", <<Air>>, <<Pair>>) EXCEPT !.draws = {1}]
Preamp(on) == [Receiver EXCEPT !.supplies = {1}, !.engaged = IF on THEN {1} ELSE {}]
Monitor == Node("mix", <<Wire>>, <<Air>>)
Ad(rate) == Node("mix", <<Wire>>, <<Digital(1, rate)>>)
Da(rate) == Node("mix", <<Digital(1, rate)>>, <<Wire>>)
Mux(rate) == Node("mix", <<Digital(1, rate), Digital(1, rate)>>, <<Digital(2, rate)>>)
Meter(rate) == Node("mix", <<Digital(2, rate)>>, <<Digital(2, rate)>>)
Thru == Node("mix", <<Notes(4)>>, <<Notes(2)>>)
Synth == Node("mix", <<Notes(4)>>, <<Wire>>)

Cabled(from, out, to, in, cable, late) ==
  [from |-> from, out |-> out, to |-> to, in |-> in, cable |-> cable, delayed |-> late]

Plug(from, to) == Cabled(from, 1, to, 1, {"pickup", "hum"}, FALSE)

Graph(nodes, edges) == [nodes |-> nodes, edges |-> edges, output |-> <<1, 1>>]

-----------------------------------------------------------------------------
Benches ==
  {<<Source, Inline, Receiver, Gain>>, <<Mic, Inline, Receiver, Gain>>,
   <<Source, Driver, Inline, Receiver>>, <<Source, Inline, Inline, Receiver>>,
   <<Mic, Inline, Inline, Receiver>>}

\* What feeds the inputs of nodes 2 to 4 (nothing for 0), plugged in every order.
Feedings == {f \in [2..4 -> 0..4] : \A n \in 2..4 : f[n] # n}

Orders(f) ==
  {[i \in DOMAIN p |-> Plug(f[p[i]], p[i])] : p \in SetToSeqs({n \in 2..4 : f[n] # 0})}

Inline4 == {Graph(b, w) : b \in Benches, w \in UNION {Orders(f) : f \in Feedings}}

\* A chain of converters at rates that divide the analog rate, that do not, and
\* that do not divide the block; two meters of two channels, in a loop or behind a delay.
Rates == {4, 2, 3, 1}
Chains ==
  {Graph(<<Source, Ad(r), Da(s), Gain>>, <<Plug(1, 2), Plug(2, 3), Plug(3, 4)>>) :
     r \in Rates, s \in Rates} \cup
  {Graph(<<Ad(4), Mux(4), Meter(4), Meter(s)>>,
         <<Cabled(1, 1, 2, p, {}, FALSE), Cabled(x, 1, 3, 1, {}, late), Plug(3, 4)>>) :
     p \in 1..2, s \in {4, 2}, x \in {1, 2, 4}, late \in BOOLEAN}

\* One microphone on two preamps, a loop through the air, and notes.
Others ==
  {Graph(<<Mic, Preamp(a), Preamp(b), Monitor>>,
         <<Plug(1, 2), Plug(x, 3), Plug(2, 4)>>) : a \in BOOLEAN, b \in BOOLEAN, x \in {1, 4}} \cup
  {Graph(<<Mic, Inline, Preamp(TRUE), Monitor>>,
         <<Plug(1, 2), Plug(2, 3), Plug(3, 4), Cabled(4, 1, 1, 1, {}, FALSE)>>)} \cup
  {Graph(<<Thru, Thru, Synth, Synth>>, <<Cabled(a, 1, b, 1, {}, FALSE), Cabled(1, 1, 3, 1, {}, FALSE)>>) :
     a \in 1..2, b \in 1..4}

MCPatches == Inline4 \cup Chains \cup Others

\* A wire to or from what does not exist, or between two media; a tap of nothing.
MCBroken ==
  {Graph(<<Source, Gain, Thru, Gain>>, <<Plug(1, 2), w>>) :
     w \in {Plug(5, 2), Plug(1, 5), Cabled(1, 2, 4, 1, {}, FALSE),
            Cabled(1, 1, 4, 2, {}, FALSE), Plug(3, 4), Plug(1, 3)}} \cup
  {[Graph(<<Source, Gain, Gain, Gain>>, <<Plug(1, 2)>>) EXCEPT !.output = o] :
     o \in {<<>>, <<5, 1>>, <<1, 2>>}}
=============================================================================
