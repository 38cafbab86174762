---------------------------- MODULE MCPacketFrames ----------------------------
(* Small instances of PacketFrames for TLC. *)
EXTENDS PacketFrames

\* Even and odd lengths, and words that make the sum wrap around.
SomePayloads == {<<>>, <<7>>, <<255, 255>>, <<1, 2, 255>>}
=============================================================================
