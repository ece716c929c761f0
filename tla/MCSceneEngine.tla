---------------------------- MODULE MCSceneEngine ----------------------------
(* Three scenes that give the same indices different meanings: in `small`  *)
(* the amp's power knob is a group of two smoothers and the synth has one; *)
(* `swapped` orders the stores the other way round and moves the lanes;    *)
(* `broken` does not build.                                                *)
EXTENDS SceneEngine

CONSTANTS small, swapped, broken, amp, synth, knob, a4

MCParamHandles ==
  [p \in {small, swapped} |-> [d \in {amp, synth} |-> [k \in {knob} |->
     CASE p = small   /\ d = amp   -> <<0, 1>>
       [] p = small   /\ d = synth -> <<2>>
       [] p = swapped /\ d = amp   -> <<1, 2>>
       [] p = swapped /\ d = synth -> <<0>>]]]

MCHandles == [p \in {small, swapped} |-> 0..2]

MCEventInput ==
  [p \in {small, swapped} |-> [d \in {amp, synth} |->
     IF d = amp THEN NoInput ELSE IF p = small THEN 3 ELSE 1]]

MCSettings ==
  [p \in {small, swapped} |->
     IF p = small THEN <<>>
     ELSE <<[device |-> synth, id |-> knob, value |-> 1],
            [device |-> amp, id |-> knob, value |-> 1]>>]
=============================================================================
