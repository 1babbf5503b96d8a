---------------------------- MODULE MCPacketParser ----------------------------
(***************************************************************************)
(* The limits of the code.  Lengths lie around the sizes of the fixed      *)
(* headers, of short chains, of chains of eight headers and of chains that *)
(* reach the byte limit; length bytes give headers of 8, 12, 16, 128, 256  *)
(* and 264 bytes.                                                          *)
(***************************************************************************)
EXTENDS PacketParser

MCLengths == (0..1) \cup (19..25) \cup (39..72) \cup (92..108) \cup (294..304)
              \cup {352, 400}
MCLengthBytes == {0, 1, 15, 31, 32, 62, 63, 255}
MCTotals == {0, 19, 20, 21, 24, 25, 65535}
MCNibbles == {0, 4, 5, 6, 15}

=============================================================================
