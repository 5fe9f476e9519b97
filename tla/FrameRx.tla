------------------------------ MODULE FrameRx ------------------------------
(***************************************************************************)
(* xbee_dev_tick, _xbee_frame_load and _xbee_frame_dispatch                *)
(* (src/xbee/xbee_device.c): bytes come in from the serial port in chunks  *)
(* of any size, a resumable state machine collects them into frames, and   *)
(* every good frame is handed to the matching entries of the device's      *)
(* handler table.  A handler is user code: it runs while the frame buffer  *)
(* is on loan to it, and may call xbee_dev_tick again.                     *)
(*                                                                         *)
(* One step is one xbee_ser_read, one entry of the handler table, or one   *)
(* call or return, so the peer and the handlers interleave everywhere the  *)
(* code lets them.                                                         *)
(***************************************************************************)
EXTENDS FrameFormat, WpanStatus

CONSTANTS DispatchCap,      \* XBEE_DEV_MAX_DISPATCH_PER_TICK
          Handlers,         \* the device's table of [frame_type, frame_id]
          ModemStatusType,  \* XBEE_FRAME_MODEM_STATUS
          Streams           \* what the XBee may send, bytes in order

ASSUME RxAssumption == /\ MaxFrameLen >= 2
                       /\ DispatchCap \in Nat \ {0}
                       /\ Handlers \in Seq([frame_type : Byte, frame_id : Byte])
                       /\ Streams \subseteq Seq(Byte)

VARIABLES
  rx,       \* xbee->rx: state, bytes_in_frame, bytes_read, frame_data[]
  in_tick,  \* XBEE_DEV_FLAG_IN_TICK
  calls,    \* activations of xbee_dev_tick, the innermost last
  wpan,     \* xbee->wpan_dev: join flags and network address
  ret,      \* what the latest xbee_dev_tick returned
  input,    \* the bytes of this run, \in Streams
  pos,      \* how many of them the driver has read
  handled   \* history: the handler calls made, [entry, frame]

vars == <<rx, in_tick, calls, wpan, ret, input, pos, handled>>

EIO == -5
EBUSY == -16

Slots == 0 .. MaxFrameLen        \* uint8_t frame_data[XBEE_MAX_RX_FRAME_LEN + 1]

RxState == {"WAITSTART", "LENGTH_MSB", "LENGTH_LSB", "RXFRAME"}

\* The locals of _xbee_frame_load and of the _xbee_frame_dispatch it calls.
Activation == [pc : {"load", "dispatch", "handler"},
               dispatched : 0 .. DispatchCap,
               entry : Nat, length : Nat, type : Byte, id : Byte]

Running == calls # <<>>
Top == calls[Len(calls)]
SetTop(a) == calls' = [calls EXCEPT ![Len(calls)] = a]

Bytes(n) == [i \in 1 .. n |-> rx.frame_data[i - 1]]

-----------------------------------------------------------------------------
Init ==
  /\ rx = [state |-> "WAITSTART", bytes_in_frame |-> 0, bytes_read |-> 0,
           frame_data |-> [i \in Slots |-> 0]]
  /\ in_tick = FALSE
  /\ calls = <<>>
  /\ wpan = WpanAfterDevInit
  /\ ret = 0
  /\ input \in Streams
  /\ pos = 0
  /\ handled = <<>>

-----------------------------------------------------------------------------
(* xbee_dev_tick: from the main loop, or from a handler that is running.   *)

MayCallTick == Running => Top.pc = "handler"

TickBusy ==
  /\ MayCallTick
  /\ in_tick
  /\ ret' = EBUSY
  /\ UNCHANGED <<rx, in_tick, calls, wpan, input, pos, handled>>

\* Mutant: without the check of XBEE_DEV_FLAG_IN_TICK.
TickEnterAnyway ==
  /\ MayCallTick
  /\ in_tick' = TRUE
  /\ calls' = Append(calls, [pc |-> "load", dispatched |-> 0, entry |-> 1,
                             length |-> 0, type |-> 0, id |-> 0])
  /\ UNCHANGED <<rx, wpan, ret, input, pos, handled>>

TickEnter ==
  /\ MayCallTick
  /\ ~in_tick
  /\ in_tick' = TRUE
  /\ calls' = Append(calls, [pc |-> "load", dispatched |-> 0, entry |-> 1,
                             length |-> 0, type |-> 0, id |-> 0])
  /\ UNCHANGED <<rx, wpan, ret, input, pos, handled>>

\* _xbee_frame_load returns result; xbee_dev_tick clears the flag.
TickReturn(result) ==
  /\ ret' = result
  /\ in_tick' = FALSE
  /\ calls' = SubSeq(calls, 1, Len(calls) - 1)

-----------------------------------------------------------------------------
(* _xbee_frame_load: one step per xbee_ser_read.                           *)

Loading == Running /\ Top.pc = "load"

Available == Len(input) - pos

\* Mutant: forgets the checksum byte.
BytesLeftOfData == rx.bytes_in_frame - rx.bytes_read

BytesLeft == rx.bytes_in_frame - rx.bytes_read + 1

\* A read of one byte that succeeds.
ReadByte(ch) ==
  /\ Loading
  /\ Available > 0
  /\ ch = input[pos + 1]
  /\ pos' = pos + 1

LoadStart ==
  \E ch \in Byte :
    /\ rx.state = "WAITSTART"
    /\ ReadByte(ch)
    /\ rx' = [rx EXCEPT !.state =
                IF ch = StartByte THEN "LENGTH_MSB" ELSE "WAITSTART"]
    /\ UNCHANGED <<in_tick, calls, wpan, ret, input, handled>>

\* A second start byte cannot be the MSB of a length: it starts a new frame.
LoadLengthMSB ==
  \E ch \in Byte :
    /\ rx.state = "LENGTH_MSB"
    /\ ReadByte(ch)
    /\ rx' = IF ch = StartByte THEN rx
             ELSE [rx EXCEPT !.bytes_in_frame = ch * ByteMod,
                             !.state = "LENGTH_LSB"]
    /\ UNCHANGED <<in_tick, calls, wpan, ret, input, handled>>

\* Mutant: no upper limit.
ValidLengthAny(n) == n >= 2

ValidLength(n) == n \in 2 .. MaxFrameLen

\* Mutant: a bad length does not restart the search for a frame.
AfterLengthStuck(length, ch) ==
  IF ValidLength(length)
  THEN [rx EXCEPT !.bytes_in_frame = length, !.state = "RXFRAME", !.bytes_read = 0]
  ELSE [rx EXCEPT !.bytes_in_frame = length]

AfterLength(length, ch) ==
  IF ValidLength(length)
  THEN [rx EXCEPT !.bytes_in_frame = length, !.state = "RXFRAME", !.bytes_read = 0]
  ELSE [rx EXCEPT !.bytes_in_frame = length,
                  !.state = IF ch = StartByte THEN "LENGTH_MSB" ELSE "WAITSTART"]

LoadLengthLSB ==
  \E ch \in Byte :
    /\ rx.state = "LENGTH_LSB"
    /\ ReadByte(ch)
    /\ rx' = AfterLength(rx.bytes_in_frame + ch, ch)
    /\ UNCHANGED <<in_tick, calls, wpan, ret, input, handled>>

\* frame_data after n more bytes are read at offset bytes_read.
Stored(n) ==
  [i \in Slots |-> IF i \in rx.bytes_read .. rx.bytes_read + n - 1
                   THEN input[pos + 1 + (i - rx.bytes_read)]
                   ELSE rx.frame_data[i]]

\* Some of the rest of the frame, but not all of it.
LoadPart ==
  \E n \in 1 .. BytesLeft - 1 :
    /\ Loading
    /\ rx.state = "RXFRAME"
    /\ n <= Available
    /\ rx' = [rx EXCEPT !.bytes_read = @ + n, !.frame_data = Stored(n)]
    /\ pos' = pos + n
    /\ TickReturn(Top.dispatched)
    /\ UNCHANGED <<wpan, input, handled>>

\* Mutant: every frame is good.
ChecksumIgnored(data, length) == TRUE

\* Frame bytes and checksum byte sum to zero.
ChecksumOK(data, length) ==
  Checksum([i \in 1 .. length + 1 |-> data[i - 1]], AllOnes) = 0

\* The rest of the frame: check it and enter _xbee_frame_dispatch with it.
LoadFrame ==
  LET data == Stored(BytesLeft)
      length == rx.bytes_in_frame
      good == ChecksumOK(data, length)
  IN  /\ Loading
      /\ rx.state = "RXFRAME"
      /\ BytesLeft <= Available
      /\ pos' = pos + BytesLeft
      /\ rx' = [rx EXCEPT !.state = "WAITSTART", !.frame_data = data]
      /\ IF good
         THEN SetTop([pc |-> "dispatch", dispatched |-> Top.dispatched + 1,
                      entry |-> 1, length |-> length,
                      type |-> data[0], id |-> data[1]])
         ELSE UNCHANGED calls
      /\ wpan' = IF good /\ data[0] = ModemStatusType
                 THEN ModemStatus(wpan, data[1]) ELSE wpan
      /\ UNCHANGED <<in_tick, ret, input, handled>>

\* Mutant: a frame that is not complete at the end of a tick is dropped.
LoadNothingAndDrop ==
  /\ Loading
  /\ \E result \in {Top.dispatched, EIO} : TickReturn(result)
  /\ rx' = [rx EXCEPT !.state = "WAITSTART"]
  /\ UNCHANGED <<wpan, input, pos, handled>>

\* The port has nothing for now (0), or read() fails: the tick is over, and
\* a failed read hides how many frames were dispatched before it.
LoadNothing ==
  /\ Loading
  /\ \E result \in {Top.dispatched, EIO} : TickReturn(result)
  /\ UNCHANGED <<rx, wpan, input, pos, handled>>

-----------------------------------------------------------------------------
(* _xbee_frame_dispatch: one step per entry of the handler table.          *)

Matches(entry, type, id) == /\ entry.frame_type \in {0, type}
                            /\ entry.frame_id \in {0, id}

Dispatching == Running /\ Top.pc = "dispatch"

CallHandler ==
  /\ Dispatching
  /\ Top.entry <= Len(Handlers)
  /\ Matches(Handlers[Top.entry], Top.type, Top.id)
  /\ handled' = Append(handled, [entry |-> Top.entry, frame |-> Bytes(Top.length)])
  /\ SetTop([Top EXCEPT !.pc = "handler"])
  /\ UNCHANGED <<rx, in_tick, wpan, ret, input, pos>>

HandlerReturn ==
  /\ Running
  /\ Top.pc = "handler"
  /\ SetTop([Top EXCEPT !.pc = "dispatch", !.entry = @ + 1])
  /\ UNCHANGED <<rx, in_tick, wpan, ret, input, pos, handled>>

SkipEntry ==
  /\ Dispatching
  /\ Top.entry <= Len(Handlers)
  /\ ~Matches(Handlers[Top.entry], Top.type, Top.id)
  /\ SetTop([Top EXCEPT !.entry = @ + 1])
  /\ UNCHANGED <<rx, in_tick, wpan, ret, input, pos, handled>>

\* Mutant: no cap on the frames of one tick.
DispatchOn ==
  /\ Dispatching
  /\ Top.entry > Len(Handlers)
  /\ SetTop([Top EXCEPT !.pc = "load"])
  /\ UNCHANGED <<rx, in_tick, wpan, ret, input, pos, handled>>

\* End of the table: load the next frame, unless this tick did its share.
DispatchDone ==
  /\ Dispatching
  /\ Top.entry > Len(Handlers)
  /\ IF Top.dispatched = DispatchCap
     THEN TickReturn(Top.dispatched)
     ELSE SetTop([Top EXCEPT !.pc = "load"]) /\ UNCHANGED <<in_tick, ret>>
  /\ UNCHANGED <<rx, wpan, input, pos, handled>>

-----------------------------------------------------------------------------
ReadStep == LoadStart \/ LoadLengthMSB \/ LoadLengthLSB \/ LoadPart \/ LoadFrame

DispatchStep == CallHandler \/ HandlerReturn \/ SkipEntry \/ DispatchDone

Next == TickBusy \/ TickEnter \/ ReadStep \/ LoadNothing \/ DispatchStep

Spec == Init /\ [][Next]_vars

\* The main loop keeps calling xbee_dev_tick, handlers return, and a port
\* that holds bytes does not answer "nothing yet" or fail forever.
Fairness == /\ WF_vars(TickEnter)
            /\ WF_vars(DispatchStep)
            /\ SF_vars(ReadStep)

FairSpec == Spec /\ Fairness

-----------------------------------------------------------------------------
TypeOK ==
  /\ rx \in [state : RxState, bytes_in_frame : 0 .. ByteMod * ByteMod - 1,
             bytes_read : Nat, frame_data : [Slots -> Byte]]
  /\ in_tick \in BOOLEAN
  /\ calls \in Seq(Activation)
  /\ wpan \in Wpan
  /\ ret \in 0 .. DispatchCap \union {EIO, EBUSY}
  /\ input \in Seq(Byte)
  /\ pos \in 0 .. Len(input)
  /\ handled \in Seq([entry : 1 .. Len(Handlers), frame : Seq(Byte)])

\* The read that is asked for while a frame is collected ends inside
\* frame_data[]: no sequence of lengths, short reads, bad checksums and
\* errors makes bytes_read + bytes_left pass the end of the array.
NoOverrun ==
  rx.state = "RXFRAME" =>
    /\ rx.bytes_read <= rx.bytes_in_frame
    /\ rx.bytes_in_frame <= MaxFrameLen

\* xbee_dev_tick never runs inside itself, whatever the handlers call.
OneTick == Len(calls) <= 1

\* The frame lent to the handlers does not change before the last of them
\* has returned, even though they may call xbee_dev_tick while the port has
\* more bytes (rx.frame_data is the buffer the next frame is loaded into).
OnLoan == \E i \in 1 .. Len(calls) : calls[i].pc \in {"dispatch", "handler"}

FrameStable ==
  [][OnLoan => UNCHANGED <<rx.frame_data, rx.bytes_in_frame>>]_vars

=============================================================================
