----------------------------- MODULE MCFrameTx -----------------------------
(***************************************************************************)
(* FrameTx with its output decoded: by the same reference that FrameRx is  *)
(* compared with, so that what one side writes the other side loads.       *)
(***************************************************************************)
EXTENDS FrameTx, FrameDecode

\* The receiving side takes every frame, and no length begins with a start byte.
ASSUME DecoderAssumption == /\ MaxFrameLen < StartByte * ByteMod
                            /\ \A r \in Requests : Payload(r) = <<>> \/ Len(Payload(r)) \in 2 .. MaxFrameLen

MCRequests == { [header |-> <<1, 3>>, data |-> <<>>],
                [header |-> <<>>,     data |-> <<2, 1>>],
                [header |-> <<3, 3>>, data |-> <<0, 3>>],
                [header |-> <<1>>,    data |-> <<3, 2>>],
                [header |-> <<>>,     data |-> <<>>] }

\* Between two calls the bytes handed to the port are exactly the frames for
\* which xbee_frame_write returned 0, whole and in order: a refused frame
\* leaves no bytes behind, and the header/data split does not show.
QueuedWhole ==
  call = Idle => Frames(wire) = accepted

\* The same as a promise of the API, "Successfully queued frame in transmit
\* serial buffer", for every port: a frame reported as queued is in what the
\* port took.
ZeroMeansQueued ==
  (call = Idle /\ accepted # <<>> /\ ret = 0) =>
    \E i \in DOMAIN Frames(wire) : Frames(wire)[i] = accepted[Len(accepted)]

=============================================================================
