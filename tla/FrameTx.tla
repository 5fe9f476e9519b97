------------------------------ MODULE FrameTx ------------------------------
(***************************************************************************)
(* xbee_frame_write (src/xbee/xbee_device.c): a frame goes out as up to    *)
(* four separate writes to the serial port, whose results are ignored,     *)
(* after one look at /CTS and at the room in the transmit buffer.  The     *)
(* UART drains the buffer and the module moves /CTS meanwhile.             *)
(*                                                                         *)
(* The port is external.  ReportsRoom says which kind it is: one whose     *)
(* xbee_ser_tx_free and xbee_ser_tx_used tell the truth (the contract in   *)
(* include/xbee/serial.h), or the POSIX port, which answers INT_MAX and 0  *)
(* and writes to a non-blocking file descriptor.                           *)
(***************************************************************************)
EXTENDS FrameFormat

CONSTANTS Requests,     \* [header, data] pairs the application writes
          Capacity,     \* bytes the port's transmit buffer holds
          ReportsRoom,  \* FALSE: xbee_ser_tx_free is INT_MAX, _used is 0
          MaxFrames     \* bound: how many frames are accepted in a run

ASSUME TxAssumption == /\ Requests \subseteq [header : Seq(Byte), data : Seq(Byte)]
                       /\ Capacity \in Nat
                       /\ ReportsRoom \in BOOLEAN
                       /\ MaxFrames \in Nat

VARIABLES
  flowcontrol,  \* XBEE_DEV_FLAG_USE_FLOWCONTROL
  cts,          \* what xbee_ser_get_cts answers: 1, 0, or a negative error
  wire,         \* every byte the port took, in order
  queued,       \* how many of them are still in its buffer
  call,         \* the xbee_frame_write that runs: its request and where it is
  ret,          \* what the latest one returned
  accepted      \* history: the frames for which it returned 0

vars == <<flowcontrol, cts, wire, queued, call, ret, accepted>>

EIO == -5
EBUSY == -16
EINVAL == -22
ENODATA == -61
EMSGSIZE == -90

Idle == [at |-> "idle"]

Payload(r) == r.header \o r.data

\* Mutant: no room for the checksum.
FrameSizeShort(r) == Len(Payload(r)) + 3

FrameSize(r) == Len(Payload(r)) + 3 + 1

\* Mutant: one byte too many.
RoomPlusOne == Capacity - queued + 1

Room == Capacity - queued

-----------------------------------------------------------------------------
Init ==
  /\ flowcontrol = TRUE
  /\ cts \in {0, 1}
  /\ wire = <<>>
  /\ queued = 0
  /\ call = Idle
  /\ ret = 0
  /\ accepted = <<>>

-----------------------------------------------------------------------------
(* The port and the module.                                                *)

MoveCTS ==
  /\ \E c \in {0, 1, EIO, EINVAL} : cts' = c
  /\ UNCHANGED <<flowcontrol, wire, queued, call, ret, accepted>>

Drain ==
  /\ queued > 0
  /\ queued' = queued - 1
  /\ UNCHANGED <<flowcontrol, cts, wire, call, ret, accepted>>

SetFlowcontrol ==
  /\ call = Idle
  /\ flowcontrol' \in BOOLEAN
  /\ UNCHANGED <<cts, wire, queued, call, ret, accepted>>

-----------------------------------------------------------------------------
(* xbee_frame_write                                                        *)

\* Any answer but 0 counts as asserted, an error other than -EINVAL too.
CtsSeen == IF flowcontrol THEN cts ELSE 1

Return(result) == ret' = result /\ call' = Idle

FrameWrite(r) ==
  /\ call = Idle
  /\ Len(accepted) < MaxFrames
  /\ IF CtsSeen = EINVAL THEN Return(EINVAL)
     ELSE IF Payload(r) = <<>> THEN Return(ENODATA)
     ELSE call' = [at |-> "tx_free", r |-> r, clear |-> CtsSeen # 0] /\ UNCHANGED ret
  /\ UNCHANGED <<flowcontrol, cts, wire, queued, accepted>>

ReadFree ==
  /\ call.at = "tx_free"
  /\ call' = [at |-> "tx_used", r |-> call.r, clear |-> call.clear,
              fits |-> ReportsRoom => Room >= FrameSize(call.r),
              short |-> IF ReportsRoom THEN FrameSize(call.r) - Room ELSE 0]
  /\ UNCHANGED <<flowcontrol, cts, wire, queued, ret, accepted>>

ReadUsed ==
  /\ call.at = "tx_used"
  /\ IF call.clear /\ call.fits
     THEN call' = [at |-> "prefix", r |-> call.r] /\ UNCHANGED ret
     ELSE Return(IF call.short > (IF ReportsRoom THEN queued ELSE 0)
                 THEN EMSGSIZE ELSE EBUSY)
  /\ UNCHANGED <<flowcontrol, cts, wire, queued, accepted>>

\* xbee_ser_write takes what there is room for; nobody looks at the result.  A port
\* with no room takes 0 bytes or answers -EAGAIN, which is the same here; errors of
\* a port that is gone are left out.
SerWrite(bytes) ==
  LET n == IF Len(bytes) <= Room THEN Len(bytes) ELSE Room
  IN  /\ wire' = wire \o SubSeq(bytes, 1, n)
      /\ queued' = queued + n

Segment(from, to, bytes) ==
  /\ call.at = from
  /\ SerWrite(bytes)
  /\ call' = [call EXCEPT !.at = to]
  /\ UNCHANGED <<flowcontrol, cts, ret, accepted>>

WritePrefix == /\ call # Idle
               /\ Segment("prefix", "header",
                          <<StartByte>> \o LengthBytes(Len(Payload(call.r))))
WriteHeader == call # Idle /\ Segment("header", "data", call.r.header)
WriteData   == call # Idle /\ Segment("data", "checksum", call.r.data)

WriteChecksum ==
  /\ call.at = "checksum"
  /\ SerWrite(<<Checksum(call.r.data, Checksum(call.r.header, AllOnes))>>)
  /\ Return(0)
  /\ accepted' = Append(accepted, Payload(call.r))
  /\ UNCHANGED <<flowcontrol, cts>>

-----------------------------------------------------------------------------
Next == \/ MoveCTS \/ Drain \/ SetFlowcontrol
        \/ \E r \in Requests : FrameWrite(r)
        \/ ReadFree \/ ReadUsed
        \/ WritePrefix \/ WriteHeader \/ WriteData \/ WriteChecksum

Spec == Init /\ [][Next]_vars

-----------------------------------------------------------------------------
TypeOK ==
  /\ flowcontrol \in BOOLEAN
  /\ cts \in {0, 1, EIO, EINVAL}
  /\ wire \in Seq(Byte)
  /\ queued \in 0 .. Capacity
  /\ call.at \in {"idle", "tx_free", "tx_used", "prefix", "header", "data", "checksum"}
  /\ ret \in {0, EBUSY, EINVAL, ENODATA, EMSGSIZE}
  /\ accepted \in Seq(Seq(Byte))

=============================================================================
