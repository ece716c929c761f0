---------------------------- MODULE MCPatchBuild ----------------------------
(* Scenes of a microphone, a synth, a guitar, an interface or two, computers *)
(* and a speaker, with every way to plug in a few cables.                    *)
EXTENDS PatchBuild

Plain == <<>>
Phantom(on) == ("phantom" :> on)
Usb(sends, returns) == ("usb_sends" :> sends) @@ ("usb_returns" :> returns)

Gear(type, n, config) == [id |-> <<type, n>>, type |-> type, config |-> config]
Mic == Gear("condenser_mic", 1, Plain)
Ribbon == Gear("dynamic_mic", 1, Plain)
Vocalist == Gear("vox", 1, Plain)
Interface(n, config) == Gear("scarlett_8i6", n, config)
Laptop(n, config) == Gear("computer", n, config)
Keys == Gear("midi_controller", 0, Plain)
Synth == Gear("synth_voice", 0, Plain)
Guitar == Gear("acoustic_guitar", 1, Plain)
Strip(n) == Gear("channel_strip", n, Plain)
Box == Gear("speaker", 0, Plain)

Socket(gear, port) == <<gear.id, port>>
OneWay(from, to, cable) == [from |-> from, to |-> to, cable |-> cable, duplex |-> FALSE]
Plug(from, to) == OneWay(from, to, Ideal)
BothWays(from, to) == [Plug(from, to) EXCEPT !.duplex = TRUE]

Scene(devices, connections) ==
  [devices |-> devices, connections |-> connections, output |-> Socket(Box, 0)]

\* Every way to plug in one or two of some cables.
Plugged(devices, cables) ==
  {Scene(devices, <<a>>) : a \in cables} \cup {Scene(devices, <<a, b>>) : a \in cables, b \in cables}

-----------------------------------------------------------------------------
\* Microphones on two interfaces, with their phantom power on and off.
Microphones ==
  UNION {LET if == Interface(1, Phantom(a))
             other == Interface(2, Phantom(b))
             mic == m
         IN Plugged(<<Box, other, mic, if>>,
                    {OneWay(Socket(mic, 0), Socket(if, p), c) :
                       p \in {0, 1, 2}, c \in {"mic_10m", "balanced_trs_xlr_3m"}}
                      \cup {Plug(Socket(mic, 0), Socket(other, 1))}) :
         a \in 0..1, b \in 0..1, m \in {Mic, Ribbon}}

\* Computers and interfaces over USB, each drawn from either end.
Bundles ==
  UNION {LET if == Interface(1, Plain)
             first == Laptop(1, x)
             second == Laptop(2, y)
         IN Plugged(<<first, if, Box, second>>,
                    {BothWays(Socket(if, 0), Socket(l, 0)) : l \in {first, second}}
                      \cup {BothWays(Socket(l, 0), Socket(if, 7)) : l \in {first, second}}
                      \cup {BothWays(Socket(first, 0), Socket(second, 0)),
                            BothWays(Socket(if, 1), Socket(if, 6)),
                            Plug(Socket(if, 2), Socket(Box, 0)),
                            Plug(Socket(if, 0), Socket(second, 0)),
                            Plug(Socket(if, 0), Socket(Box, 0))}) :
         x \in {Plain, Usb(8, 6)}, y \in {Plain, Usb(8, 6), Usb(0, 6)}}

\* Notes over MIDI cables; loops through analog gear; a guitar in the air.
Playing ==
  Plugged(<<Keys, Synth, Strip(1), Guitar, Mic, Box, Strip(2)>>,
          {Plug(Socket(Keys, 0), Socket(d, 0)) : d \in {Keys, Synth, Guitar}}
            \cup {Plug(Socket(d, 0), Socket(Strip(1), 0)) : d \in {Synth, Strip(1), Strip(2), Mic}}
            \cup {Plug(Socket(Strip(1), 0), Socket(Strip(2), 0)), Plug(Socket(Strip(1), 0), Socket(Box, 0)),
                  Plug(Socket(Guitar, 0), Socket(Mic, 0)), Plug(Socket(Keys, 0), Socket(Box, 0))})

\* The default studio, with its recorder's track count.
Studio ==
  LET if == Interface(0, Plain)
      daw(tracks) == Laptop(0, Usb(8, 6) @@ ("track_count" :> tracks))
  IN {Scene(<<Keys, Synth, if, daw(t), Box>>,
            <<Plug(Socket(Keys, 0), Socket(Synth, 0)), Plug(Socket(Synth, 0), Socket(if, 0)),
              Plug(Socket(if, 0), Socket(daw(t), 0)), Plug(Socket(daw(t), 0), Socket(if, 7)),
              Plug(Socket(if, 2), Socket(Box, 0))>>) : t \in 0..2}

\* Scenes the page cannot make: twice the same id, gear that does not exist,
\* sockets that do not, a tap of nothing, of no socket, of MIDI and of USB.
Malformed ==
  {Scene(<<Box, Strip(1), Strip(1)>>, <<>>),
   Scene(<<Box, Gear("theremin", 1, Plain)>>, <<>>),
   Scene(<<Strip(1)>>, <<>>),
   Scene(<<Box>>, <<Plug(Socket(Strip(1), 0), Socket(Box, 0))>>),
   Scene(<<Box>>, <<Plug(Socket(Box, 0), Socket(Strip(1), 0))>>),
   Scene(<<Box>>, <<Plug(Socket(Box, 1), Socket(Box, 0))>>),
   Scene(<<Box>>, <<Plug(Socket(Box, 0), Socket(Box, 1))>>),
   [Scene(<<Box>>, <<>>) EXCEPT !.output = Socket(Box, 1)],
   [Scene(<<Box, Keys>>, <<>>) EXCEPT !.output = Socket(Keys, 0)],
   [Scene(<<Box, Laptop(1, Plain)>>, <<>>) EXCEPT !.output = Socket(Laptop(1, Plain), 0)],
   Scene(<<Box, Vocalist, Mic>>, <<BothWays(Socket(Vocalist, 0), Socket(Mic, 0))>>)}

\* Only the guitar is made of a sound font.
MCRequests ==
  ((Microphones \cup Bundles \cup Studio \cup Malformed) \X {{}}) \cup (Playing \X {{TimGm6mb}})
    \cup {<<Scene(<<Box, Guitar>>, <<>>), {}>>}
=============================================================================
