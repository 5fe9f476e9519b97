---------------------------- MODULE FrameFormat ----------------------------
(***************************************************************************)
(* The byte format of an XBee API frame, shared by the modules that load   *)
(* frames (FrameRx) and write them (FrameTx):                              *)
(*                                                                         *)
(*    StartByte, length MSB, length LSB, length frame bytes, checksum      *)
(*                                                                         *)
(* ByteMod is 256 and StartByte 0x7E in the code.  The lengths and the     *)
(* checksum only depend on arithmetic modulo ByteMod, so a small ByteMod   *)
(* keeps the format's own ambiguities: a start byte may appear in the      *)
(* data, and the low byte of a valid length may equal the start byte.      *)
(***************************************************************************)
EXTENDS Integers, Sequences

CONSTANTS ByteMod, StartByte,
          MaxFrameLen   \* XBEE_MAX_RX_FRAME_LEN: a receiver takes no longer frame

ASSUME ByteAssumption == /\ ByteMod \in Nat \ {0, 1}
                         /\ StartByte \in 0 .. ByteMod - 1
                         /\ MaxFrameLen \in Nat

Byte == 0 .. ByteMod - 1

\* _xbee_checksum: initial minus every byte, in eight bits.
Checksum(bytes, initial) ==
  LET sum[n \in 0 .. Len(bytes)] == IF n = 0 THEN initial
                                    ELSE (sum[n - 1] - bytes[n]) % ByteMod
  IN  sum[Len(bytes)]

AllOnes == ByteMod - 1

\* htobe16 of a frame length.
LengthBytes(n) == << (n \div ByteMod) % ByteMod, n % ByteMod >>

=============================================================================
