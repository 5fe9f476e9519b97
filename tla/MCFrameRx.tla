----------------------------- MODULE MCFrameRx -----------------------------
(***************************************************************************)
(* FrameRx on two families of byte streams: sequences of whole, damaged    *)
(* and torn frames, and arbitrary garbage followed by a quiet line and a   *)
(* good frame.  Bytes are 0..3 and the start byte is 3, so a length of 3   *)
(* looks like a start byte; MaxFrameLen 5 has valid lengths with MSB 1.    *)
(***************************************************************************)
EXTENDS FrameRx, FrameDecode, SequencesExt

CONSTANT GarbageLen   \* longest arbitrary prefix

MCHandlers == << [frame_type |-> 1, frame_id |-> 0],
                 [frame_type |-> 0, frame_id |-> 2],
                 [frame_type |-> 2, frame_id |-> 0] >>

Frame(payload) == <<StartByte>> \o LengthBytes(Len(payload)) \o payload
                    \o <<Checksum(payload, AllOnes)>>

Good      == Frame(<<1, 2>>)
Modem     == {Frame(<<2, 0>>), Frame(<<2, 2>>)}
Ambiguous == Frame(<<3, 3, 0>>)          \* length and data look like starts
Long      == Frame(<<1, 0, 3, 3, 1>>)    \* the longest frame, MSB 1
Damaged   == {<<3, 0, 2, 2, 2, 0>>, <<3, 0, 2, 1>>, <<3, 2, 3>>, <<3, 0, 1>>,
              <<3, 1, 2>>, <<3, 3>>, <<0>>}
Pieces    == {Good, Ambiguous, Long} \union Modem \union Damaged
Mixed     == {p[1] \o p[2] \o p[3] : p \in [1 .. 3 -> Pieces]}

\* A collecting frame swallows at most MaxFrameLen bytes and a checksum
\* after its LSB, so this much silence ends whatever the garbage began.
Quiet   == [i \in 1 .. MaxFrameLen + 2 |-> 0]
Closing == Quiet \o Good
Noisy   == {g \o Closing : g \in BoundedSeq(Byte, GarbageLen)}

MCStreams == Mixed \union Noisy

-----------------------------------------------------------------------------
\* The handler calls that a frame must cause, up to each entry of the table.
CallsUpTo(frame) ==
  LET made[n \in 0 .. Len(Handlers)] ==
        IF n = 0 THEN <<>>
        ELSE IF Matches(Handlers[n], frame[1], frame[2])
             THEN Append(made[n - 1], [entry |-> n, frame |-> frame])
             ELSE made[n - 1]
  IN  made

\* The handler calls that a sequence of frames must cause.
Expected(frames) ==
  LET made[n \in 0 .. Len(frames)] ==
        IF n = 0 THEN <<>> ELSE made[n - 1] \o CallsUpTo(frames[n])[Len(Handlers)]
  IN  made[Len(frames)]

\* The join state that it must lead to: modem status frames change it.
JoinState(frames) ==
  LET after[n \in 0 .. Len(frames)] ==
        IF n = 0 THEN WpanAfterDevInit
        ELSE IF frames[n][1] = ModemStatusType
             THEN ModemStatus(after[n - 1], frames[n][2])
             ELSE after[n - 1]
  IN  after[Len(frames)]

Consumed == SubSeq(input, 1, pos)

\* Which handlers ran, in which order and with which frames is a function of
\* the bytes read so far: it does not depend on how the port cut them into
\* chunks, on read errors, on the dispatch cap or on handlers calling
\* xbee_dev_tick, and no damaged or torn frame reaches a handler.
HandledAsDecoded ==
  LET expected == Expected(Frames(Consumed))
  IN  /\ IsPrefix(handled, expected)
      /\ ~Running => handled = expected

\* The join flags are what the intact modem status frames, in order, make
\* them, before a handler sees the frame; frames of other types and damaged
\* frames leave them alone.
WpanAsDecoded == wpan = JoinState(Frames(Consumed))

\* Whatever garbage came before, a good frame that follows MaxFrameLen + 2
\* bytes of silence is delivered: the loader cannot stay out of step.
ResyncAfterQuiet ==
  /\ ~Running
  /\ pos = Len(input)
  /\ IsSuffix(Closing, input)
  => /\ handled # <<>>
     /\ Last(handled) = [entry |-> 2, frame |-> <<1, 2>>]

\* Every intact frame the XBee sends is handled in the end: the cap, short
\* reads and read errors only delay it.
AllHandled == <>[](handled = Expected(Frames(input)))

=============================================================================
