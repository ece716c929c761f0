----------------------------- MODULE MCSchedule -----------------------------
(* Every wiring of three edges between three nodes, in every medium, with  *)
(* two input ports a node, and two loops of four nodes that share edges.   *)
EXTENDS Schedule

Media == {[domain |-> "acoustic", delayed |-> FALSE],
          [domain |-> "analog",   delayed |-> FALSE],
          [domain |-> "digital",  delayed |-> FALSE],
          [domain |-> "digital",  delayed |-> TRUE]}

Wire(from, to, port, medium) ==
  [from |-> from, to |-> to, port |-> port,
   domain |-> medium.domain, delayed |-> medium.delayed]

\* Up to renaming, the first edge leaves node 1, for itself or for node 2.  Two
\* of the edges may be declared delayed.
MCSmall ==
  {<<Wire(1, x, 0, m), Wire(f, y, 1, n), Wire(g, z, p, o)>> :
     x \in 1..2, f \in 1..3, y \in 1..3, g \in 1..3, z \in 1..3, p \in {0, 1},
     m \in Media, n \in Media, o \in {w \in Media : ~ w.delayed}}

\* 1 -> 2 -> 3 -> 1 and 2 -> 4 -> 2, and a tap of the first loop into node 4.
MCEight ==
  {[i \in 0..5 |->
      CASE i = 0 -> Wire(1, 2, 0, m[0])
        [] i = 1 -> Wire(2, 3, 0, m[1])
        [] i = 2 -> Wire(3, 1, 0, m[2])
        [] i = 3 -> Wire(2, 4, 0, m[3])
        [] i = 4 -> Wire(4, 2, 1, m[4])
        [] i = 5 -> Wire(3, 4, 1, m[5])] : m \in [0..5 -> Media]}

MCGraphs == MCSmall \cup MCEight
=============================================================================
