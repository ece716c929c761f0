-------------------------- MODULE MCTopologySession --------------------------
(* One cable that compiles and one that does not, a knob with two          *)
(* positions, and a saved scene that differs in all three parts.           *)
EXTENDS TopologySession
CONSTANTS usb, loop
MCCompilable == {{}, {usb}}
MCSaved == {[cables |-> {usb}, knob |-> 1, track |-> 1]}
MCEdits == PageEdits
=============================================================================
