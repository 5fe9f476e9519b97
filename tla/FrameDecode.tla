---------------------------- MODULE FrameDecode ----------------------------
(***************************************************************************)
(* The reference the receiver is compared with: the frames in a byte       *)
(* stream, found by position in the whole stream instead of by a state     *)
(* machine fed with chunks.                                                *)
(***************************************************************************)
EXTENDS FrameFormat, FiniteSetsExt

\* A payload and the checksum byte after it add up to all ones.
Intact(payload, check) ==
  LET total[n \in 0 .. Len(payload)] == IF n = 0 THEN check
                                        ELSE total[n - 1] + payload[n]
  IN  total[Len(payload)] % ByteMod = AllOnes

\* The first position of s from i on whose byte is (not) a start byte,
\* or one past the end.
FirstStart(s, i) == Min({j \in i .. Len(s) : s[j] = StartByte} \union {Len(s) + 1})
FirstOther(s, i) == Min({j \in i .. Len(s) : s[j] # StartByte} \union {Len(s) + 1})

\* The frames from each position of s on.
FramesFrom(s) ==
  LET from[i \in 1 .. Len(s) + 1] ==
        LET msb   == FirstOther(s, FirstStart(s, i))
            lsb   == msb + 1
            len   == s[msb] * ByteMod + s[lsb]
            check == lsb + len + 1
            frame == SubSeq(s, lsb + 1, lsb + len)
        IN  IF lsb > Len(s) THEN <<>>
            ELSE IF len \notin 2 .. MaxFrameLen
                 THEN from[IF s[lsb] = StartByte THEN lsb ELSE lsb + 1]
            ELSE IF check > Len(s) THEN <<>>
            ELSE IF Intact(frame, s[check])
                 THEN <<frame>> \o from[check + 1]
                 ELSE from[check + 1]
  IN  from

Frames(s) == FramesFrom(s)[1]

=============================================================================
