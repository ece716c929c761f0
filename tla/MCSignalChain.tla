---------------------------- MODULE MCSignalChain ----------------------------
(***************************************************************************)
(* SignalChain with kernels of five taps over blocks of four samples, so   *)
(* that every ring buffer wraps inside a block, and glides of six samples, *)
(* so that every change of a knob crosses a block.                         *)
(***************************************************************************)
EXTENDS SignalChain

MCAaTaps == <<1, 2, 3, 2, 1>>
MCReconTaps == <<1, 2, 3, 2, 1>>
MCShelf == [b0 |-> 2, b1 |-> -1, b2 |-> 1, a1 |-> 1, a2 |-> 0]
MCMicBlocks == {<<4, 0, 0, 0>>, <<0, 2, -6, 2>>}
MCUsbBlocks == {<<0, 432>>}
MCEinDraws == {<<0, 0, 0, 0>>}
MCDitherDraws == {<<0, 8>>, <<-8, 0>>}
MCTurns == {<<"power", 0>>, <<"power", 216>>, <<"air", 216>>, <<"air", 0>>,
            <<"pad", 216>>, <<"gain", 432>>, <<"volume", 108>>, <<"ad_to_monitor", 864>>,
            <<"usb_to_monitor", 0>>, <<"ad_to_send", 0>>, <<"usb_to_send", 216>>}
=============================================================================
