------------------------------ MODULE MCProbe -------------------------------
(* Probe with eight packets and two lists of blocks. Every form of packet  *)
(* is there; payloads hold bytes that look like headers, like the end of a   *)
(* synchronisation and like continuations.                                   *)
EXTENDS Probe

MCPackets ==
  {Stimulus(0, 1, <<0>>), Stimulus(31, 1, <<128>>),
   Stimulus(1, 2, <<0, 0>>), Stimulus(2, 3, <<128, 9, 0, 192>>),
   Skipped(<<0, 0, 128>>),      \* synchronisation, its run of zeros shortened
   Skipped(<<112>>),            \* overflow
   Skipped(<<192, 129, 1>>),    \* timestamp with extension bytes
   Skipped(<<13, 128>>)}        \* DWT packet with one byte of payload

MCBlockLists == {<<1>>, <<1, 2>>}
==============================================================================
