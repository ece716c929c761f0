---------------------------- MODULE MCPatchEdits ----------------------------
(* Three kinds of scene are opened.  The default studio, with no room for  *)
(* more gear.  The studio without its instruments, which grows to three    *)
(* computers and three interfaces with their USB sockets, the line sockets *)
(* of the first interface and a leveler.  And every two devices of the     *)
(* catalog on a bench, with all their sockets and one cable at a time.     *)
EXTENDS PatchEdits

Bench == {8, 9}
OnBench(s) == \E d \in Devices(s) : d[2] \in Bench

BenchScene(t, u) ==
  [devices |-> <<Speaker0, <<t, 8>>, <<u, 9>>>>,
   usb |-> [c \in {d \in {<<t, 8>>, <<u, 9>>} : IsComputer(d)} |-> BuiltIn],
   connections |-> <<>>]

Studio ==
  [DefaultScene EXCEPT !.devices = SubSeq(@, 3, 5), !.connections = SubSeq(@, 3, 5)]

MCStartScenes ==
  {DefaultScene, Studio} \cup
  {BenchScene(TypeIds[p[1]], TypeIds[p[2]]) :
     p \in {q \in (DOMAIN TypeIds) \X (DOMAIN TypeIds) : q[1] <= q[2]}}

WithInstruments(s) == {Ctrl0, Synth0} \cap Devices(s) # {}

MCRoom(s) ==
  IF OnBench(s) THEN [devices |-> 0, cables |-> 1, presets |-> CableTypes]
  ELSE IF WithInstruments(s)
  THEN [devices |-> 0, cables |-> 5, presets |-> {"patch_short"}]
  ELSE [devices |-> 5, cables |-> 4, presets |-> {"patch_short", "balanced_trs_xlr_3m"}]

MCMaxAdded == [computer |-> 2, scarlett_8i6 |-> 2, luma_leveler |-> 1]

\* All sockets of a type, a duplex one by its output.
AllSockets(type) ==
  UNION {{<<dir, p.id>> : p \in {q \in ToSet(Faces[type][dir]) :
                                    q.partner = NoPartner \/ dir = "output"}} :
           dir \in {"input", "output"}}

Usb == {<<"output", 0>>}

MCOffered ==
  [d \in (Types \X Bench) \cup ({"computer", "scarlett_8i6"} \X (0..2))
           \cup {Ctrl0, Synth0, Speaker0, <<"luma_leveler", 1>>} |->
     IF d = If0 THEN Usb \cup {<<"input", 2>>, <<"output", 2>>}
     ELSE IF TypeOf(d) = "scarlett_8i6" /\ d[2] \notin Bench THEN Usb
     ELSE IF d = Speaker0 THEN {<<"input", 0>>}
     ELSE AllSockets(TypeOf(d))]
=============================================================================
