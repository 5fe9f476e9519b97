--------------------------- MODULE FrameRx_proof ---------------------------
(***************************************************************************)
(* For every buffer size, dispatch cap, handler table and input: the frame *)
(* buffer is never overrun, xbee_dev_tick never runs inside itself, a      *)
(* frame on loan to the handlers does not change under them, and the       *)
(* handler calls and the join state are those that the reference decoder   *)
(* spells out from the bytes read so far.                                  *)
(***************************************************************************)
EXTENDS MCFrameRx, FrameDecode_proof, TLAPS

\* The flag is raised exactly while a tick runs, and no two ticks nest.
FlagInv == /\ Len(calls) \in {0, 1}
           /\ in_tick <=> Len(calls) = 1

\* What the fields of rx mean in each state, with the values the next read
\* relies on.
RxInv ==
  /\ rx.state = "LENGTH_LSB" =>
       \E msb \in Byte : rx.bytes_in_frame = msb * ByteMod
  /\ rx.state = "RXFRAME" => /\ rx.bytes_in_frame \in 2 .. MaxFrameLen
                             /\ rx.bytes_read \in 0 .. rx.bytes_in_frame

\* A tick that still loads has dispatches left; a frame handed out fits.
CallInv ==
  \A i \in 1 .. Len(calls) : /\ calls[i].length \in 0 .. MaxFrameLen
                             /\ calls[i].entry \in Nat \ {0}
                             /\ calls[i].pc = "load" => calls[i].dispatched < DispatchCap

IInv == TypeOK /\ FlagInv /\ RxInv /\ CallInv

\* Two bytes make a 16-bit length.
LEMMA LengthRange ==
  ASSUME NEW msb \in Byte, NEW lsb \in Byte
  PROVE  msb * ByteMod + lsb \in 0 .. ByteMod * ByteMod - 1
<1>1. msb * ByteMod <= (ByteMod - 1) * ByteMod
  BY ByteAssumption, SMT DEF Byte
<1>2. (ByteMod - 1) * ByteMod = ByteMod * ByteMod - ByteMod
  BY ByteAssumption, SMT
<1>3. msb * ByteMod \in Nat /\ ByteMod * ByteMod \in Nat
  BY ByteAssumption, SMT DEF Byte
<1> QED
  BY <1>1, <1>2, <1>3, ByteAssumption, SMT DEF Byte

\* The join state stays well typed whatever status byte arrives.
LEMMA ModemStatusType_OK ==
  ASSUME NEW w \in Wpan, NEW status
  PROVE  ModemStatus(w, status) \in Wpan
BY DEF ModemStatus, Wpan, NetAddr

\* A read of n bytes that ends inside the array keeps the array's type.
LEMMA StoredType ==
  ASSUME TypeOK, NEW n \in Nat, n <= Available
  PROVE  Stored(n) \in [Slots -> Byte]
<1>1. ASSUME NEW i \in Slots, i \in rx.bytes_read .. rx.bytes_read + n - 1
      PROVE  input[pos + 1 + (i - rx.bytes_read)] \in Byte
  BY <1>1, SMT DEF TypeOK, Available, Slots
<1>2. ASSUME NEW i \in Slots PROVE rx.frame_data[i] \in Byte
  BY DEF TypeOK
<1> QED
  BY <1>1, <1>2 DEF Stored

\* With ticks never nested, there is at most one activation to speak of.
LEMMA OneActivation ==
  ASSUME TypeOK, FlagInv, Running
  PROVE  /\ Len(calls) = 1
         /\ in_tick
         /\ calls = <<Top>>
         /\ Top \in Activation
         /\ SubSeq(calls, 1, Len(calls) - 1) = <<>>
         /\ \A a : [calls EXCEPT ![Len(calls)] = a] = <<a>>
<1>1. calls \in Seq(Activation) /\ Len(calls) = 1
  BY EmptySeq DEF TypeOK, FlagInv, Running
<1>2. calls[1] \in Activation /\ calls = <<calls[1]>>
  BY <1>1
<1>3. Top = calls[1]
  BY <1>1 DEF Top
<1>4. SubSeq(calls, 1, Len(calls) - 1) = <<>>
  BY <1>1
<1>5. ASSUME NEW a PROVE [calls EXCEPT ![Len(calls)] = a] = <<a>>
  BY <1>1, <1>2
<1>6. in_tick
  BY <1>1 DEF FlagInv
<1> QED
  BY <1>1, <1>2, <1>3, <1>4, <1>5, <1>6

LEMMA InitIInv == Init => IInv
<1> SUFFICES ASSUME Init PROVE IInv
  OBVIOUS
<1>0. 0 \in Byte /\ ByteMod * ByteMod \in Nat \ {0}
  BY ByteAssumption, SMT DEF Byte
<1>1. TypeOK
  <2>1. rx \in [state : RxState, bytes_in_frame : 0 .. ByteMod * ByteMod - 1,
                bytes_read : Nat, frame_data : [Slots -> Byte]]
    BY <1>0 DEF Init, RxState, Slots
  <2>2. wpan \in Wpan
    BY DEF Init, Wpan, WpanAfterDevInit, NetAddr
  <2>3. input \in Seq(Byte) /\ pos \in 0 .. Len(input)
    BY RxAssumption DEF Init
  <2>4. ret \in 0 .. DispatchCap \union {EIO, EBUSY}
    BY RxAssumption DEF Init
  <2>5. /\ calls \in Seq(Activation)
        /\ handled \in Seq([entry : 1 .. Len(Handlers), frame : Seq(Byte)])
    BY EmptySeq DEF Init
  <2>6. in_tick \in BOOLEAN
    BY DEF Init
  <2> QED
    BY <2>1, <2>2, <2>3, <2>4, <2>5, <2>6 DEF TypeOK
<1>2. FlagInv /\ RxInv /\ CallInv
  BY DEF Init, FlagInv, RxInv, CallInv
<1> QED
  BY <1>1, <1>2 DEF IInv

-----------------------------------------------------------------------------
(* Every step keeps the invariant.                                         *)

\* A step of the driver happens with exactly one tick running, and either
\* keeps that tick, changed, or ends it.
LEMMA TickReturnInv ==
  ASSUME TypeOK, FlagInv, Running, NEW r, TickReturn(r),
         r \in 0 .. DispatchCap \union {EIO, EBUSY}
  PROVE  /\ calls' \in Seq(Activation)
         /\ in_tick' \in BOOLEAN
         /\ ret' \in 0 .. DispatchCap \union {EIO, EBUSY}
         /\ FlagInv'
         /\ CallInv'
<1>1. calls' = <<>> /\ in_tick' = FALSE /\ ret' = r
  BY OneActivation DEF TickReturn
<1>2. Len(calls') = 0 /\ calls' \in Seq(Activation)
  BY <1>1, EmptySeq
<1>3. in_tick' \in BOOLEAN
  BY <1>1
<1>4. FlagInv'
  BY <1>1, <1>2 DEF FlagInv
<1>5. CallInv'
  BY <1>2 DEF CallInv
<1> QED
  BY <1>1, <1>2, <1>3, <1>4, <1>5

LEMMA SetTopInv ==
  ASSUME TypeOK, FlagInv, Running, NEW a \in Activation, SetTop(a),
         UNCHANGED in_tick,
         a.length \in 0 .. MaxFrameLen, a.entry \in Nat \ {0},
         a.pc = "load" => a.dispatched < DispatchCap
  PROVE  /\ calls' \in Seq(Activation)
         /\ FlagInv'
         /\ CallInv'
<1>1. calls' = <<a>>
  BY OneActivation DEF SetTop
<1>2. calls' \in Seq(Activation) /\ Len(calls') = 1 /\ calls'[1] = a
  BY <1>1
<1>3. FlagInv'
  BY <1>2, OneActivation DEF FlagInv
<1>4. CallInv'
  BY <1>2 DEF CallInv
<1> QED
  BY <1>2, <1>3, <1>4

LEMMA StepTick ==
  ASSUME IInv, TickBusy \/ TickEnter
  PROVE  IInv'
<1> USE DEF IInv
<1>1. CASE TickBusy
  <2>1. TypeOK'
    BY <1>1 DEF TypeOK, TickBusy
  <2>2. FlagInv' /\ RxInv' /\ CallInv'
    BY <1>1 DEF TickBusy, FlagInv, RxInv, CallInv
  <2> QED
    BY <2>1, <2>2
<1>2. CASE TickEnter
  <2> DEFINE a == [pc |-> "load", dispatched |-> 0, entry |-> 1,
                   length |-> 0, type |-> 0, id |-> 0]
  <2>1. a \in Activation
    BY ByteAssumption, RxAssumption DEF Activation, Byte
  <2>2. calls = <<>> /\ calls' = <<a>> /\ in_tick' = TRUE
    <3>1. Len(calls) # 1 /\ Len(calls) \in {0, 1}
      BY <1>2 DEF FlagInv, TickEnter
    <3>2. calls = <<>>
      BY <3>1 DEF TypeOK
    <3> QED
      BY <1>2, <3>2 DEF TickEnter
  <2>3. Len(calls') = 1 /\ calls' \in Seq(Activation) /\ calls'[1] = a
    BY <2>1, <2>2
  <2>4. TypeOK'
    <3>1. in_tick' \in BOOLEAN
      BY <2>2
    <3> QED
      BY <1>2, <2>3, <3>1 DEF TypeOK, TickEnter
  <2>5. FlagInv'
    BY <2>2, <2>3 DEF FlagInv
  <2>6. RxInv'
    BY <1>2 DEF RxInv, TickEnter
  <2>7. CallInv'
    BY <2>3, RxAssumption, ByteAssumption DEF CallInv
  <2> QED
    BY <2>4, <2>5, <2>6, <2>7
<1> QED
  BY <1>1, <1>2

LEMMA StepLength ==
  ASSUME IInv, LoadStart \/ LoadLengthMSB \/ LoadLengthLSB
  PROVE  IInv'
<1> USE DEF IInv
<1>0. PICK ch \in Byte : ReadByte(ch)
  BY DEF LoadStart, LoadLengthMSB, LoadLengthLSB
<1>1. pos' \in 0 .. Len(input)
  BY <1>0, SMT DEF ReadByte, Available, TypeOK
<1>2. UNCHANGED <<in_tick, calls, wpan, ret, input, handled>>
  BY DEF LoadStart, LoadLengthMSB, LoadLengthLSB
<1>3. FlagInv' /\ CallInv'
  BY <1>2 DEF FlagInv, CallInv
<1> DEFINE RxType == [state : RxState, bytes_in_frame : 0 .. ByteMod * ByteMod - 1,
                      bytes_read : Nat, frame_data : [Slots -> Byte]]
<1>4. rx' \in RxType /\ RxInv'
  <2>1. CASE LoadStart
    <3>1. rx'.state \in {"WAITSTART", "LENGTH_MSB"}
      BY <2>1 DEF LoadStart, TypeOK
    <3> QED
      BY <2>1, <3>1 DEF LoadStart, TypeOK, RxInv, RxState
  <2>2. CASE LoadLengthMSB
    <3>1. PICK msb \in Byte :
            rx' = IF msb = StartByte THEN rx
                  ELSE [rx EXCEPT !.bytes_in_frame = msb * ByteMod,
                                  !.state = "LENGTH_LSB"]
      BY <2>2 DEF LoadLengthMSB
    <3>2. msb * ByteMod \in 0 .. ByteMod * ByteMod - 1
      <4>1. 0 \in Byte /\ ByteMod \in Nat
        BY ByteAssumption DEF Byte
      <4>2. msb * ByteMod + 0 \in 0 .. ByteMod * ByteMod - 1
        BY <4>1, LengthRange
      <4>3. msb * ByteMod \in Int
        BY <4>1 DEF Byte
      <4> QED
        BY <4>2, <4>3
    <3>3. CASE msb = StartByte
      BY <3>1, <3>3, <2>2 DEF TypeOK, RxInv, LoadLengthMSB
    <3>4. CASE msb # StartByte
      <4>1. rx' = [rx EXCEPT !.bytes_in_frame = msb * ByteMod, !.state = "LENGTH_LSB"]
        BY <3>1, <3>4
      <4>2. rx' \in RxType
        BY <4>1, <3>2 DEF TypeOK, RxState
      <4>3. rx'.state = "LENGTH_LSB" /\ rx'.bytes_in_frame = msb * ByteMod
        BY <4>1 DEF TypeOK
      <4> QED
        BY <4>2, <4>3 DEF RxInv
    <3> QED
      BY <3>3, <3>4
  <2>3. CASE LoadLengthLSB
    <3>1. PICK lsb \in Byte : rx' = AfterLength(rx.bytes_in_frame + lsb, lsb)
      BY <2>3 DEF LoadLengthLSB
    <3>2. PICK msb \in Byte : rx.bytes_in_frame = msb * ByteMod
      BY <2>3 DEF LoadLengthLSB, RxInv
    <3> DEFINE len == rx.bytes_in_frame + lsb
    <3>3. len \in 0 .. ByteMod * ByteMod - 1
      BY <3>2, LengthRange
    <3> HIDE DEF len
    <3>4. CASE ValidLength(len)
      <4>1. rx' = [rx EXCEPT !.bytes_in_frame = len, !.state = "RXFRAME", !.bytes_read = 0]
        BY <3>1, <3>4 DEF AfterLength, len
      <4>2. rx' \in RxType
        BY <4>1, <3>3 DEF TypeOK, RxState
      <4>3. /\ rx'.state = "RXFRAME" /\ rx'.bytes_in_frame = len
            /\ rx'.bytes_read = 0
        BY <4>1 DEF TypeOK
      <4>4. len \in 2 .. MaxFrameLen /\ 0 \in 0 .. len
        BY <3>4, RxAssumption DEF ValidLength
      <4> QED
        BY <4>2, <4>3, <4>4 DEF RxInv
    <3>5. CASE ~ValidLength(len)
      <4>1. rx' = [rx EXCEPT !.bytes_in_frame = len,
                     !.state = IF lsb = StartByte THEN "LENGTH_MSB" ELSE "WAITSTART"]
        BY <3>1, <3>5 DEF AfterLength, len
      <4>2. rx' \in RxType
        BY <4>1, <3>3 DEF TypeOK, RxState
      <4>3. rx'.state \in {"LENGTH_MSB", "WAITSTART"}
        BY <4>1 DEF TypeOK
      <4> QED
        BY <4>2, <4>3 DEF RxInv
    <3> QED
      BY <3>4, <3>5
  <2> QED
    BY <2>1, <2>2, <2>3
<1>5. TypeOK'
  BY <1>1, <1>2, <1>4 DEF TypeOK
<1> QED
  BY <1>3, <1>4, <1>5

\* A read of n of the bytes left moves pos inside the input.
LEMMA ReadSome ==
  ASSUME TypeOK, NEW n \in Nat, n <= Available, pos' = pos + n, UNCHANGED input
  PROVE  pos' \in 0 .. Len(input')
BY SMT DEF TypeOK, Available

\* While a frame is collected there is always something left to read.
LEMMA BytesLeftRange ==
  ASSUME IInv, rx.state = "RXFRAME"
  PROVE  /\ BytesLeft \in 1 .. MaxFrameLen + 1
         /\ rx.bytes_read + BytesLeft = rx.bytes_in_frame + 1
<1>1. PICK size \in 2 .. MaxFrameLen : rx.bytes_in_frame = size
  BY DEF IInv, RxInv
<1>2. PICK have \in 0 .. size : rx.bytes_read = have
  BY <1>1 DEF IInv, RxInv
<1>3. /\ size - have + 1 \in 1 .. MaxFrameLen + 1
      /\ have + (size - have + 1) = size + 1
  BY RxAssumption, ByteAssumption
<1> QED
  BY <1>1, <1>2, <1>3 DEF BytesLeft

LEMMA StepPart ==
  ASSUME IInv, LoadPart
  PROVE  IInv'
<1> USE DEF IInv
<1>1. PICK n \in 1 .. BytesLeft - 1 :
        /\ n <= Available
        /\ rx' = [rx EXCEPT !.bytes_read = @ + n, !.frame_data = Stored(n)]
        /\ pos' = pos + n
  BY DEF LoadPart
<1>2. Running /\ rx.state = "RXFRAME" /\ UNCHANGED <<wpan, input, handled>>
  BY DEF LoadPart, Loading
<1>3. n \in Nat
  BY <1>2, BytesLeftRange
<1>4. /\ calls' \in Seq(Activation)
      /\ in_tick' \in BOOLEAN
      /\ ret' \in 0 .. DispatchCap \union {EIO, EBUSY}
      /\ FlagInv' /\ CallInv'
  <2>1. Top.dispatched \in 0 .. DispatchCap /\ TickReturn(Top.dispatched)
    BY <1>2, OneActivation DEF LoadPart, Activation
  <2> QED
    BY <1>2, <2>1, TickReturnInv
<1>5. Stored(n) \in [Slots -> Byte]
  BY <1>1, <1>3, StoredType
<1>6. PICK size \in 2 .. MaxFrameLen : rx.bytes_in_frame = size
  BY <1>2 DEF RxInv
<1>7. PICK have \in 0 .. size : rx.bytes_read = have
  BY <1>2, <1>6 DEF RxInv
<1>8. n \in 1 .. size - have
  <2>1. BytesLeft = size - have + 1
    BY <1>6, <1>7 DEF BytesLeft
  <2>2. n \in 1 .. (size - have + 1) - 1
    BY <2>1, <1>1
  <2> QED
    BY <2>2, RxAssumption
<1>9. /\ rx'.state = "RXFRAME" /\ rx'.bytes_in_frame = size
      /\ rx'.bytes_read = have + n
  BY <1>1, <1>2, <1>6, <1>7 DEF TypeOK
<1>10. have + n \in 0 .. size
  BY <1>8
<1>11. RxInv'
  BY <1>9, <1>10 DEF RxInv
<1>12. TypeOK'
  <2>1. rx' \in [state : RxState, bytes_in_frame : 0 .. ByteMod * ByteMod - 1,
                 bytes_read : Nat, frame_data : [Slots -> Byte]]
    <3>1. rx' = [rx EXCEPT !.bytes_read = have + n, !.frame_data = Stored(n)]
      BY <1>1, <1>7
    <3>2. have + n \in Nat
      BY <1>10
    <3> QED
      BY <3>1, <3>2, <1>5 DEF TypeOK
  <2>2. pos' \in 0 .. Len(input')
    BY <1>1, <1>2, <1>3, ReadSome
  <2> QED
    BY <1>2, <1>4, <2>1, <2>2 DEF TypeOK
<1> QED
  BY <1>4, <1>11, <1>12

LEMMA StepFrame ==
  ASSUME IInv, LoadFrame
  PROVE  IInv'
<1> USE DEF IInv
<1> DEFINE data == Stored(BytesLeft)
           length == rx.bytes_in_frame
           good == ChecksumOK(data, length)
           a == [pc |-> "dispatch", dispatched |-> Top.dispatched + 1,
                 entry |-> 1, length |-> length, type |-> data[0], id |-> data[1]]
<1>1. Running /\ Top.pc = "load" /\ rx.state = "RXFRAME"
  BY DEF LoadFrame, Loading
<1>2. BytesLeft \in Nat /\ BytesLeft <= Available
  BY <1>1, BytesLeftRange DEF LoadFrame
<1>3. data \in [Slots -> Byte] /\ data[0] \in Byte /\ data[1] \in Byte
  <2>1. data \in [Slots -> Byte]
    BY <1>2, StoredType
  <2>2. 0 \in Slots /\ 1 \in Slots
    BY RxAssumption, ByteAssumption DEF Slots
  <2> QED
    BY <2>1, <2>2
<1>4. length \in 2 .. MaxFrameLen
  BY <1>1 DEF RxInv
<1> HIDE DEF data, length, good
<1>5. /\ pos' = pos + BytesLeft
      /\ rx' = [rx EXCEPT !.state = "WAITSTART", !.frame_data = data]
      /\ IF good THEN SetTop(a) ELSE UNCHANGED calls
      /\ wpan' = IF good /\ data[0] = ModemStatusType
                 THEN ModemStatus(wpan, data[1]) ELSE wpan
      /\ UNCHANGED <<in_tick, ret, input, handled>>
  BY DEF LoadFrame, data, length, good
<1>6. calls' \in Seq(Activation) /\ FlagInv' /\ CallInv'
  <2>1. CASE ~good
    <3>1. UNCHANGED <<calls, in_tick>>
      BY <1>5, <2>1
    <3> QED
      BY <3>1 DEF TypeOK, FlagInv, CallInv
  <2>2. CASE good
    <3>1. PICK d \in 0 .. DispatchCap : Top.dispatched = d
      BY <1>1, OneActivation DEF Activation
    <3>2. d < DispatchCap
      <4>1. Len(calls) = 1 /\ Top = calls[1]
        BY <1>1, OneActivation DEF Top
      <4> QED
        BY <4>1, <3>1, <1>1 DEF CallInv
    <3>3. d + 1 \in 0 .. DispatchCap
      BY <3>2, RxAssumption
    <3>4. a \in Activation
      BY <1>3, <1>4, <3>1, <3>3 DEF Activation
    <3>5. /\ a.length \in 0 .. MaxFrameLen /\ a.entry \in Nat \ {0}
          /\ a.pc # "load"
      BY <1>4
    <3>6. SetTop(a) /\ UNCHANGED in_tick
      BY <1>5, <2>2
    <3> HIDE DEF a
    <3> QED
      BY <1>1, <3>4, <3>5, <3>6, SetTopInv
  <2> QED
    BY <2>1, <2>2
<1>7. rx'.state = "WAITSTART"
  BY <1>5 DEF TypeOK
<1>8. RxInv'
  BY <1>7 DEF RxInv
<1>9. TypeOK'
  <2>1. rx' \in [state : RxState, bytes_in_frame : 0 .. ByteMod * ByteMod - 1,
                 bytes_read : Nat, frame_data : [Slots -> Byte]]
    BY <1>3, <1>5 DEF TypeOK, RxState
  <2>2. pos' \in 0 .. Len(input')
    BY <1>2, <1>5, ReadSome
  <2>3. wpan' \in Wpan
    BY <1>5, ModemStatusType_OK DEF TypeOK
  <2> QED
    BY <1>5, <1>6, <2>1, <2>2, <2>3 DEF TypeOK
<1> QED
  BY <1>6, <1>8, <1>9

LEMMA StepReturn ==
  ASSUME IInv, LoadNothing \/ DispatchStep
  PROVE  IInv'
<1> USE DEF IInv
<1>1. Running
  BY DEF LoadNothing, Loading, DispatchStep, CallHandler, HandlerReturn,
         SkipEntry, DispatchDone, Dispatching
<1>2. UNCHANGED <<rx, wpan, input, pos>>
  BY DEF LoadNothing, DispatchStep, CallHandler, HandlerReturn, SkipEntry, DispatchDone
<1>3. /\ Len(calls) = 1 /\ Top = calls[1] /\ Top \in Activation
      /\ Top.length \in 0 .. MaxFrameLen /\ Top.entry \in Nat \ {0}
  BY <1>1, OneActivation, SMTT(30) DEF Top, CallInv
<1> DEFINE Kept == /\ calls' \in Seq(Activation) /\ in_tick' \in BOOLEAN
                   /\ ret' \in 0 .. DispatchCap \union {EIO, EBUSY}
                   /\ FlagInv' /\ CallInv'
<1>4. Kept
  <2>1. ASSUME NEW r, TickReturn(r), r \in {Top.dispatched, EIO}
        PROVE  Kept
    <3>1. r \in 0 .. DispatchCap \union {EIO, EBUSY}
      BY <2>1, <1>3 DEF Activation
    <3> QED
      BY <1>1, <2>1, <3>1, TickReturnInv
  <2>2. ASSUME NEW a \in Activation, SetTop(a), UNCHANGED <<in_tick, ret>>,
               a.length \in 0 .. MaxFrameLen, a.entry \in Nat \ {0},
               a.pc = "load" => a.dispatched < DispatchCap
        PROVE  Kept
    <3>1. calls' \in Seq(Activation) /\ FlagInv' /\ CallInv'
      BY <1>1, <2>2, SetTopInv
    <3>2. in_tick' \in BOOLEAN
      BY <2>2 DEF TypeOK
    <3>3. ret' \in 0 .. DispatchCap \union {EIO, EBUSY}
      BY <2>2 DEF TypeOK
    <3> QED
      BY <3>1, <3>2, <3>3
  <2>3. CASE LoadNothing
    BY <2>1, <2>3 DEF LoadNothing
  <2>4. CASE CallHandler
    <3> DEFINE a == [Top EXCEPT !.pc = "handler"]
    <3>1. /\ a \in Activation /\ a.length = Top.length /\ a.entry = Top.entry
          /\ a.pc # "load"
      BY <1>3 DEF Activation
    <3>2. SetTop(a) /\ UNCHANGED <<in_tick, ret>>
      BY <2>4 DEF CallHandler
    <3> HIDE DEF a
    <3> QED
      BY <1>3, <3>1, <3>2, <2>2
  <2>5. CASE HandlerReturn
    <3> DEFINE a == [Top EXCEPT !.pc = "dispatch", !.entry = @ + 1]
    <3>1. PICK e \in Nat \ {0} : Top.entry = e
      BY <1>3
    <3>2. /\ a \in Activation /\ a.length = Top.length /\ a.entry = e + 1
          /\ a.pc # "load"
      <4>1. a = [Top EXCEPT !.pc = "dispatch", !.entry = e + 1] /\ e + 1 \in Nat
        BY <3>1
      <4> HIDE DEF a
      <4> QED
        BY <1>3, <4>1 DEF Activation
    <3>3. SetTop(a) /\ UNCHANGED <<in_tick, ret>>
      BY <2>5 DEF HandlerReturn
    <3> HIDE DEF a
    <3>4. a.entry \in Nat \ {0}
      BY <3>2
    <3> QED
      BY <1>3, <3>2, <3>3, <3>4, <2>2
  <2>6. CASE SkipEntry
    <3> DEFINE a == [Top EXCEPT !.entry = @ + 1]
    <3>1. PICK e \in Nat \ {0} : Top.entry = e
      BY <1>3
    <3>2. /\ a \in Activation /\ a.length = Top.length /\ a.entry = e + 1
          /\ a.pc # "load"
      BY <1>3, <3>1, <2>6 DEF Activation, SkipEntry, Dispatching
    <3>3. SetTop(a) /\ UNCHANGED <<in_tick, ret>>
      BY <2>6 DEF SkipEntry
    <3> HIDE DEF a
    <3>4. a.entry \in Nat \ {0}
      BY <3>2
    <3> QED
      BY <1>3, <3>2, <3>3, <3>4, <2>2
  <2>7. CASE DispatchDone
    <3>1. CASE Top.dispatched = DispatchCap
      BY <2>1, <2>7, <3>1 DEF DispatchDone
    <3>2. CASE Top.dispatched # DispatchCap
      <4> DEFINE a == [Top EXCEPT !.pc = "load"]
      <4>1. PICK d \in 0 .. DispatchCap : Top.dispatched = d
        BY <1>3 DEF Activation
      <4>2. d < DispatchCap
        BY <4>1, <3>2, RxAssumption
      <4>3. /\ a \in Activation /\ a.length = Top.length /\ a.entry = Top.entry
            /\ a.dispatched = d
        BY <1>3, <4>1 DEF Activation
      <4>4. SetTop(a) /\ UNCHANGED <<in_tick, ret>>
        BY <2>7, <3>2 DEF DispatchDone
      <4> HIDE DEF a
      <4> QED
        BY <1>3, <4>2, <4>3, <4>4, <2>2
    <3> QED
      BY <3>1, <3>2
  <2> QED
    BY <2>3, <2>4, <2>5, <2>6, <2>7 DEF DispatchStep
<1>5. RxInv'
  BY <1>2 DEF RxInv
<1>6. handled' \in Seq([entry : 1 .. Len(Handlers), frame : Seq(Byte)])
  <2>1. CASE CallHandler
    <3> DEFINE n == Top.length
               h == [entry |-> Top.entry, frame |-> Bytes(n)]
    <3>1. n \in 0 .. MaxFrameLen
      BY <1>3
    <3>2. ASSUME NEW i \in 1 .. n PROVE rx.frame_data[i - 1] \in Byte
      <4>1. i - 1 \in Slots
        BY <3>1, <3>2, RxAssumption, ByteAssumption DEF Slots
      <4> QED
        BY <4>1 DEF TypeOK
    <3>3. Bytes(n) \in Seq(Byte)
      <4>1. n \in Nat
        BY <3>1, RxAssumption
      <4> QED
        BY <3>2, <4>1 DEF Bytes
    <3>4. Top.entry \in 1 .. Len(Handlers)
      BY <2>1, <1>3, RxAssumption DEF CallHandler
    <3>5. h \in [entry : 1 .. Len(Handlers), frame : Seq(Byte)]
      BY <3>3, <3>4
    <3>6. handled' = Append(handled, h)
      BY <2>1 DEF CallHandler
    <3> HIDE DEF h
    <3> QED
      BY <3>5, <3>6 DEF TypeOK
  <2>2. CASE ~CallHandler
    BY <2>2 DEF TypeOK, LoadNothing, DispatchStep, HandlerReturn, SkipEntry, DispatchDone
  <2> QED
    BY <2>1, <2>2
<1>7. TypeOK'
  BY <1>2, <1>4, <1>6 DEF TypeOK
<1> QED
  BY <1>4, <1>5, <1>7

LEMMA NextIInv == IInv /\ [Next]_vars => IInv'
<1> SUFFICES ASSUME IInv, [Next]_vars PROVE IInv'
  OBVIOUS
<1>1. CASE UNCHANGED vars
  BY <1>1 DEF vars, IInv, TypeOK, FlagInv, RxInv, CallInv
<1>2. CASE Next
  BY <1>2, StepTick, StepLength, StepPart, StepFrame, StepReturn DEF Next, ReadStep
<1> QED
  BY <1>1, <1>2

THEOREM Invariance == Spec => []IInv
BY InitIInv, NextIInv, PTL DEF Spec

\* Every variable keeps its type, for every instance of the constants.
THEOREM TypeCorrect == Spec => []TypeOK
BY Invariance, PTL DEF IInv

\* The reads of _xbee_frame_load stay inside frame_data[].
THEOREM BufferSafe == Spec => []NoOverrun
<1>1. IInv => NoOverrun
  <2> SUFFICES ASSUME IInv, rx.state = "RXFRAME"
               PROVE  /\ rx.bytes_read <= rx.bytes_in_frame
                      /\ rx.bytes_in_frame <= MaxFrameLen
    BY DEF NoOverrun
  <2>1. PICK size \in 2 .. MaxFrameLen : rx.bytes_in_frame = size
    BY DEF IInv, RxInv
  <2>2. PICK have \in 0 .. size : rx.bytes_read = have
    BY <2>1 DEF IInv, RxInv
  <2>3. size <= MaxFrameLen /\ have <= size
    BY RxAssumption
  <2> QED
    BY <2>1, <2>2, <2>3
<1> QED
  BY <1>1, Invariance, PTL

\* xbee_dev_tick never runs inside itself.
THEOREM NotReentered == Spec => []OneTick
<1>1. ASSUME NEW n \in {0, 1} PROVE n <= 1
  OBVIOUS
<1>2. IInv => OneTick
  BY <1>1, Zenon DEF IInv, FlagInv, OneTick
<1> QED
  BY <1>2, Invariance, PTL

\* The frame on loan to the handlers does not change under them: a step that
\* writes the buffer belongs to a tick that is loading, and there is no
\* second tick beside the one that dispatches.
THEOREM LoanedFrameStable == Spec => FrameStable
<1>1. IInv /\ [Next]_vars
        => [OnLoan => UNCHANGED <<rx.frame_data, rx.bytes_in_frame>>]_vars
  <2> SUFFICES ASSUME IInv, Next, OnLoan
               PROVE  UNCHANGED rx
    OBVIOUS
  <2>1. Len(calls) = 1 /\ Top = calls[1]
    <3>1. Len(calls) # 0
      BY DEF OnLoan
    <3> QED
      BY <3>1 DEF IInv, FlagInv, Top
  <2>2. Top.pc # "load"
    BY <2>1 DEF OnLoan
  <2> QED
    BY <2>2 DEF Next, ReadStep, DispatchStep, TickBusy, TickEnter, LoadStart,
         LoadLengthMSB, LoadLengthLSB, ReadByte, LoadPart, LoadFrame, Loading,
         LoadNothing, CallHandler, HandlerReturn, SkipEntry, DispatchDone
<1> QED
  BY <1>1, Invariance, PTL DEF Spec, FrameStable

-----------------------------------------------------------------------------
(* What the frames of a stream lead to: the recursive functions of           *)
(* MCFrameRx satisfy their equations.                                        *)

Call == [entry : 1 .. Len(Handlers), frame : Seq(Byte)]

\* The calls that a frame must cause, entry by entry.
LEMMA CallsIs ==
  ASSUME NEW f \in Seq(Byte), NEW N, N = Len(Handlers), NEW calling, calling = CallsUpTo(f)
  PROVE  /\ N \in Nat /\ calling \in [0 .. N -> Seq(Call)] /\ calling[0] = <<>>
         /\ \A n \in 1 .. N :
              calling[n] = IF Matches(Handlers[n], f[1], f[2])
                           THEN Append(calling[n - 1], [entry |-> n, frame |-> f])
                           ELSE calling[n - 1]
<1> DEFINE Then(before, n) == IF Matches(Handlers[n], f[1], f[2])
                              THEN Append(before, [entry |-> n, frame |-> f])
                              ELSE before
<1>1. N \in Nat
  BY RxAssumption, LenProperties
<1>2. ASSUME NEW before \in Seq(Call), NEW n \in 1 .. N PROVE Then(before, n) \in Seq(Call)
  <2>1. [entry |-> n, frame |-> f] \in Call
    BY DEF Call
  <2>2. Append(before, [entry |-> n, frame |-> f]) \in Seq(Call)
    BY <2>1, AppendProperties
  <2>3. QED
    BY <2>2
<1> HIDE DEF Then
<1>3. PICK F : F = [x \in Seq(Call) \X (1 .. N) |-> Then(x[1], x[2])]
  OBVIOUS
<1>4. F \in [Seq(Call) \X (1 .. N) -> Seq(Call)]
  BY <1>2, <1>3
<1>5. PICK g \in [0 .. N -> Seq(Call)] : g[0] = <<>> /\ \A n \in 1 .. N : g[n] = F[<<g[n - 1], n>>]
  <2>1. Steps(Seq(Call), N, F) /\ <<>> \in Seq(Call)
    BY <1>4, EmptySeq DEF Steps
  <2>2. Solution(Seq(Call), N, <<>>, F)
    BY <1>1, <2>1, Recursion
  <2>3. QED
    BY <2>2 DEF Solution
<1>6. ASSUME NEW n \in 1 .. N PROVE g[n] = Then(g[n - 1], n)
  <2>1. n - 1 \in 0 .. N
    BY <1>1
  <2>2. <<g[n - 1], n>> \in Seq(Call) \X (1 .. N)
    BY <1>5, <2>1
  <2>3. QED
    BY <1>3, <1>5, <2>2
<1>7. g = [n \in 0 .. N |-> IF n = 0 THEN <<>> ELSE Then(g[n - 1], n)]
  <2>1. \A n \in 0 .. N : n # 0 => n \in 1 .. N
    BY <1>1
  <2>2. \A n \in 0 .. N : g[n] = IF n = 0 THEN <<>> ELSE Then(g[n - 1], n)
    BY <1>5, <1>6, <2>1
  <2>3. g = [n \in 0 .. N |-> g[n]]
    BY <1>5
  <2>4. QED
    BY <2>2, <2>3
<1>8. calling = CHOOSE x : x = [n \in 0 .. N |-> IF n = 0 THEN <<>> ELSE Then(x[n - 1], n)]
  BY DEF CallsUpTo, Then
<1>9. calling = [n \in 0 .. N |-> IF n = 0 THEN <<>> ELSE Then(calling[n - 1], n)]
  BY <1>7, <1>8
<1>10. calling[0] = <<>> /\ \A n \in 1 .. N : calling[n] = Then(calling[n - 1], n)
  <2>1. 0 \in 0 .. N /\ \A n \in 1 .. N : n \in 0 .. N /\ n # 0
    BY <1>1
  <2>2. QED
    BY <1>9, <2>1
<1>11. \A n \in 0 .. N : calling[n] \in Seq(Call)
  <2>1. calling[0] \in Seq(Call)
    BY <1>10, EmptySeq
  <2>2. ASSUME NEW n \in 1 .. N, calling[n - 1] \in Seq(Call) PROVE calling[n] \in Seq(Call)
    BY <1>2, <1>10, <2>2
  <2>3. QED
    BY <1>1, <2>1, <2>2, RecursionType
<1>12. calling \in [0 .. N -> Seq(Call)]
  BY <1>9, <1>11
<1>13. QED
  BY <1>1, <1>10, <1>12 DEF Then

\* What one more frame adds to the handler calls, and to the join state.
Handling(before, f) == before \o CallsUpTo(f)[Len(Handlers)]

Joining(before, f) == IF f[1] = ModemStatusType THEN ModemStatus(before, f[2]) ELSE before

LEMMA HandlingType == ASSUME NEW before \in Seq(Call), NEW f \in Seq(Byte)
                      PROVE  Handling(before, f) \in Seq(Call)
<1>1. PICK N, c : N = Len(Handlers) /\ c = CallsUpTo(f)
  OBVIOUS
<1> N \in Nat /\ c \in [0 .. N -> Seq(Call)]
  BY <1>1, CallsIs
<1>2. N \in 0 .. N
  OBVIOUS
<1>3. c[N] \in Seq(Call)
  BY <1>1, <1>2
<1>4. before \o c[N] \in Seq(Call)
  BY <1>3, ConcatProperties
<1>5. QED
  BY <1>1, <1>4 DEF Handling

LEMMA JoiningType == ASSUME NEW before \in Wpan, NEW f \in Seq(Byte)
                     PROVE  Joining(before, f) \in Wpan
  BY ModemStatusType_OK DEF Joining

\* The handler calls that a sequence of frames must cause.
LEMMA ExpectedIs ==
  ASSUME NEW frames \in Seq(Seq(Byte))
  PROVE  \E g \in [0 .. Len(frames) -> Seq(Call)] :
           /\ g[0] = <<>> /\ Expected(frames) = g[Len(frames)]
           /\ \A n \in 1 .. Len(frames) : g[n] = Handling(g[n - 1], frames[n])
<1>1. PICK N \in Nat : N = Len(frames)
  BY LenProperties
<1>2. \A before \in Seq(Call), n \in 1 .. N : Handling(before, frames[n]) \in Seq(Call)
  <2>1. \A n \in 1 .. N : frames[n] \in Seq(Byte)
    BY <1>1, ElementOfSeq
  <2>2. QED
    BY <2>1, HandlingType
<1>3. PICK F : F = [x \in Seq(Call) \X (1 .. N) |-> Handling(x[1], frames[x[2]])]
  OBVIOUS
<1>4. F \in [Seq(Call) \X (1 .. N) -> Seq(Call)]
  BY <1>2, <1>3
<1>5. PICK g \in [0 .. N -> Seq(Call)] : g[0] = <<>> /\ \A n \in 1 .. N : g[n] = F[<<g[n - 1], n>>]
  <2>1. Steps(Seq(Call), N, F) /\ <<>> \in Seq(Call)
    BY <1>4, EmptySeq DEF Steps
  <2>2. Solution(Seq(Call), N, <<>>, F)
    BY <2>1, Recursion
  <2>3. QED
    BY <2>2 DEF Solution
<1>6. ASSUME NEW n \in 1 .. N PROVE g[n] = Handling(g[n - 1], frames[n])
  <2>1. n - 1 \in 0 .. N
    OBVIOUS
  <2>2. <<g[n - 1], n>> \in Seq(Call) \X (1 .. N)
    BY <1>5, <2>1
  <2>3. QED
    BY <1>3, <1>5, <2>2
<1>7. g = [n \in 0 .. N |-> IF n = 0 THEN <<>> ELSE Handling(g[n - 1], frames[n])]
  <2>1. \A n \in 0 .. N : n # 0 => n \in 1 .. N
    OBVIOUS
  <2>2. \A n \in 0 .. N : g[n] = IF n = 0 THEN <<>> ELSE Handling(g[n - 1], frames[n])
    BY <1>5, <1>6, <2>1
  <2>3. g = [n \in 0 .. N |-> g[n]]
    BY <1>5
  <2>4. QED
    BY <2>2, <2>3
<1>8. PICK h : /\ h = [n \in 0 .. N |-> IF n = 0 THEN <<>> ELSE Handling(h[n - 1], frames[n])]
               /\ Expected(frames) = h[N]
  <2>1. PICK h : h = CHOOSE x : x = [n \in 0 .. N |-> IF n = 0 THEN <<>> ELSE Handling(x[n - 1], frames[n])]
    OBVIOUS
  <2>2. Expected(frames) = h[N]
    BY <1>1, <2>1 DEF Expected, Handling
  <2>3. QED
    BY <1>7, <2>1, <2>2
<1>9. h[0] = <<>> /\ \A n \in 1 .. N : h[n] = Handling(h[n - 1], frames[n])
  <2>1. 0 \in 0 .. N /\ \A n \in 1 .. N : n \in 0 .. N /\ n # 0
    OBVIOUS
  <2>2. QED
    BY <1>8, <2>1
<1>10. \A n \in 0 .. N : h[n] \in Seq(Call)
  <2>1. h[0] \in Seq(Call)
    BY <1>5, <1>9
  <2>2. ASSUME NEW n \in 1 .. N, h[n - 1] \in Seq(Call) PROVE h[n] \in Seq(Call)
    BY <1>2, <1>9, <2>2
  <2>3. QED
    BY <2>1, <2>2, RecursionType
<1>11. h \in [0 .. N -> Seq(Call)]
  BY <1>8, <1>10
<1>12. QED
  BY <1>1, <1>8, <1>9, <1>11

\* One more frame is one more step.
LEMMA ExpectedAppend ==
  ASSUME NEW frames \in Seq(Seq(Byte)), NEW f \in Seq(Byte)
  PROVE  /\ Expected(frames) \in Seq(Call) /\ Expected(<<>>) = <<>>
         /\ Expected(Append(frames, f)) = Handling(Expected(frames), f)
<1>1. PICK N \in Nat : N = Len(frames)
  BY LenProperties
<1>2. PICK longer : longer = Append(frames, f)
  OBVIOUS
<1>3. /\ longer \in Seq(Seq(Byte)) /\ Len(longer) = N + 1 /\ longer[N + 1] = f
      /\ \A n \in 1 .. N : longer[n] = frames[n]
  BY <1>1, <1>2, AppendProperties
<1>4. PICK g \in [0 .. N -> Seq(Call)] : /\ g[0] = <<>> /\ Expected(frames) = g[N]
                                   /\ \A n \in 1 .. N : g[n] = Handling(g[n - 1], frames[n])
  BY <1>1, ExpectedIs
<1>5. PICK h \in [0 .. N + 1 -> Seq(Call)] : /\ h[0] = <<>> /\ Expected(longer) = h[N + 1]
                                       /\ \A n \in 1 .. N + 1 : h[n] = Handling(h[n - 1], longer[n])
  BY <1>3, ExpectedIs, ZenonT(40)
<1>6. ASSUME NEW n \in 1 .. N, g[n - 1] = h[n - 1] PROVE g[n] = h[n]
  <2>1. n \in 1 .. N + 1
    OBVIOUS
  <2>2. h[n] = Handling(h[n - 1], frames[n])
    BY <1>3, <1>5, <2>1
  <2>3. QED
    BY <1>4, <1>6, <2>2
<1>7. \A n \in 0 .. N : g[n] = h[n]
  <2>1. g[0] = h[0]
    BY <1>4, <1>5
  <2>2. \A n \in 1 .. N : g[n - 1] = h[n - 1] => g[n] = h[n]
    BY <1>6
  <2>3. Lockstep(N, g, h)
    BY <2>1, <2>2 DEF Lockstep
  <2>4. QED
    BY <1>1, <2>3, SameRecursion
<1>8. h[N + 1] = Handling(g[N], f)
  <2>1. N + 1 \in 1 .. N + 1 /\ N + 1 - 1 = N /\ N \in 0 .. N
    OBVIOUS
  <2>2. QED
    BY <1>3, <1>5, <1>7, <2>1
<1>9. g[N] \in Seq(Call)
  <2>1. N \in 0 .. N
    OBVIOUS
  <2>2. QED
    BY <1>4, <2>1
<1>10. Expected(<<>>) = <<>>
  <2>1. <<>> \in Seq(Seq(Byte)) /\ Len(<<>>) = 0
    BY EmptySeq
  <2>2. QED
    BY <2>1, ExpectedIs
<1>11. QED
  BY <1>2, <1>4, <1>5, <1>8, <1>9, <1>10

LEMMA InitialWpan == WpanAfterDevInit \in Wpan
  BY DEF Wpan, WpanAfterDevInit, NetAddr

\* The join state that a sequence of frames must lead to.
LEMMA JoinStateIs ==
  ASSUME NEW frames \in Seq(Seq(Byte))
  PROVE  \E g \in [0 .. Len(frames) -> Wpan] :
           /\ g[0] = WpanAfterDevInit /\ JoinState(frames) = g[Len(frames)]
           /\ \A n \in 1 .. Len(frames) : g[n] = Joining(g[n - 1], frames[n])
<1>1. PICK N \in Nat : N = Len(frames)
  BY LenProperties
<1>2. \A before \in Wpan, n \in 1 .. N : Joining(before, frames[n]) \in Wpan
  <2>1. \A n \in 1 .. N : frames[n] \in Seq(Byte)
    BY <1>1, ElementOfSeq
  <2>2. QED
    BY <2>1, JoiningType
<1>3. PICK F : F = [x \in Wpan \X (1 .. N) |-> Joining(x[1], frames[x[2]])]
  OBVIOUS
<1>4. F \in [Wpan \X (1 .. N) -> Wpan]
  BY <1>2, <1>3
<1>5. PICK g \in [0 .. N -> Wpan] : g[0] = WpanAfterDevInit /\ \A n \in 1 .. N : g[n] = F[<<g[n - 1], n>>]
  <2>1. Steps(Wpan, N, F) /\ WpanAfterDevInit \in Wpan
    BY <1>4, InitialWpan DEF Steps
  <2>2. Solution(Wpan, N, WpanAfterDevInit, F)
    BY <2>1, Recursion
  <2>3. QED
    BY <2>2 DEF Solution
<1>6. ASSUME NEW n \in 1 .. N PROVE g[n] = Joining(g[n - 1], frames[n])
  <2>1. n - 1 \in 0 .. N
    OBVIOUS
  <2>2. <<g[n - 1], n>> \in Wpan \X (1 .. N)
    BY <1>5, <2>1
  <2>3. QED
    BY <1>3, <1>5, <2>2
<1>7. g = [n \in 0 .. N |-> IF n = 0 THEN WpanAfterDevInit ELSE Joining(g[n - 1], frames[n])]
  <2>1. \A n \in 0 .. N : n # 0 => n \in 1 .. N
    OBVIOUS
  <2>2. \A n \in 0 .. N : g[n] = IF n = 0 THEN WpanAfterDevInit ELSE Joining(g[n - 1], frames[n])
    BY <1>5, <1>6, <2>1
  <2>3. g = [n \in 0 .. N |-> g[n]]
    BY <1>5
  <2>4. QED
    BY <2>2, <2>3
<1>8. PICK h : /\ h = [n \in 0 .. N |-> IF n = 0 THEN WpanAfterDevInit ELSE Joining(h[n - 1], frames[n])]
               /\ JoinState(frames) = h[N]
  <2>1. PICK h : h = CHOOSE x : x = [n \in 0 .. N |-> IF n = 0 THEN WpanAfterDevInit ELSE Joining(x[n - 1], frames[n])]
    OBVIOUS
  <2>2. JoinState(frames) = h[N]
    BY <1>1, <2>1 DEF JoinState, Joining
  <2>3. QED
    BY <1>7, <2>1, <2>2
<1>9. h[0] = WpanAfterDevInit /\ \A n \in 1 .. N : h[n] = Joining(h[n - 1], frames[n])
  <2>1. 0 \in 0 .. N /\ \A n \in 1 .. N : n \in 0 .. N /\ n # 0
    OBVIOUS
  <2>2. QED
    BY <1>8, <2>1
<1>10. \A n \in 0 .. N : h[n] \in Wpan
  <2>1. h[0] \in Wpan
    BY <1>9, InitialWpan
  <2>2. ASSUME NEW n \in 1 .. N, h[n - 1] \in Wpan PROVE h[n] \in Wpan
    BY <1>2, <1>9, <2>2
  <2>3. QED
    BY <2>1, <2>2, RecursionType
<1>11. h \in [0 .. N -> Wpan]
  BY <1>8, <1>10
<1>12. QED
  BY <1>1, <1>8, <1>9, <1>11

\* One more frame is one more step.
LEMMA JoinStateAppend ==
  ASSUME NEW frames \in Seq(Seq(Byte)), NEW f \in Seq(Byte)
  PROVE  /\ JoinState(frames) \in Wpan /\ JoinState(<<>>) = WpanAfterDevInit
         /\ JoinState(Append(frames, f)) = Joining(JoinState(frames), f)
<1>1. PICK N \in Nat : N = Len(frames)
  BY LenProperties
<1>2. PICK longer : longer = Append(frames, f)
  OBVIOUS
<1>3. /\ longer \in Seq(Seq(Byte)) /\ Len(longer) = N + 1 /\ longer[N + 1] = f
      /\ \A n \in 1 .. N : longer[n] = frames[n]
  BY <1>1, <1>2, AppendProperties
<1>4. PICK g \in [0 .. N -> Wpan] : /\ g[0] = WpanAfterDevInit /\ JoinState(frames) = g[N]
                                   /\ \A n \in 1 .. N : g[n] = Joining(g[n - 1], frames[n])
  BY <1>1, JoinStateIs
<1>5. PICK h \in [0 .. N + 1 -> Wpan] : /\ h[0] = WpanAfterDevInit /\ JoinState(longer) = h[N + 1]
                                       /\ \A n \in 1 .. N + 1 : h[n] = Joining(h[n - 1], longer[n])
  BY <1>3, JoinStateIs, ZenonT(40)
<1>6. ASSUME NEW n \in 1 .. N, g[n - 1] = h[n - 1] PROVE g[n] = h[n]
  <2>1. n \in 1 .. N + 1
    OBVIOUS
  <2>2. h[n] = Joining(h[n - 1], frames[n])
    BY <1>3, <1>5, <2>1
  <2>3. QED
    BY <1>4, <1>6, <2>2
<1>7. \A n \in 0 .. N : g[n] = h[n]
  <2>1. g[0] = h[0]
    BY <1>4, <1>5
  <2>2. \A n \in 1 .. N : g[n - 1] = h[n - 1] => g[n] = h[n]
    BY <1>6
  <2>3. Lockstep(N, g, h)
    BY <2>1, <2>2 DEF Lockstep
  <2>4. QED
    BY <1>1, <2>3, SameRecursion
<1>8. h[N + 1] = Joining(g[N], f)
  <2>1. N + 1 \in 1 .. N + 1 /\ N + 1 - 1 = N /\ N \in 0 .. N
    OBVIOUS
  <2>2. QED
    BY <1>3, <1>5, <1>7, <2>1
<1>9. g[N] \in Wpan
  <2>1. N \in 0 .. N
    OBVIOUS
  <2>2. QED
    BY <1>4, <2>1
<1>10. JoinState(<<>>) = WpanAfterDevInit
  <2>1. <<>> \in Seq(Seq(Byte)) /\ Len(<<>>) = 0
    BY EmptySeq
  <2>2. QED
    BY <2>1, JoinStateIs
<1>11. QED
  BY <1>2, <1>4, <1>5, <1>8, <1>9, <1>10

LEMMA AppendLast ==
  ASSUME NEW made \in Seq(Call), NEW rest \in Seq(Call), NEW call \in Call
  PROVE  \E more \in Seq(Call) : Append(made \o rest, call) = made \o more
<1>1. PICK one \in Seq(Call) : one = <<call>>
  BY Single
<1>2. made \o rest \in Seq(Call) /\ rest \o one \in Seq(Call)
  BY <1>1, ConcatProperties
<1>3. Append(made \o rest, call) = (made \o rest) \o one
  BY <1>1, <1>2, AppendIsConcat
<1>4. (made \o rest) \o one = made \o (rest \o one)
  BY <1>1, ConcatAssociative
<1>5. QED
  BY <1>2, <1>3, <1>4

\* The calls made for a frame so far begin those it must cause in all.
LEMMA CallsExtend ==
  ASSUME NEW f \in Seq(Byte), NEW n \in 0 .. Len(Handlers)
  PROVE  \E rest \in Seq(Call) : CallsUpTo(f)[Len(Handlers)] = CallsUpTo(f)[n] \o rest
<1>0. PICK N, calling : N = Len(Handlers) /\ calling = CallsUpTo(f)
  OBVIOUS
<1>1. N \in Nat /\ calling \in [0 .. N -> Seq(Call)] /\ n \in 0 .. N
  BY <1>0, CallsIs
<1>2. PICK T : T = {k \in Nat : n + k <= N => \E rest \in Seq(Call) : calling[n + k] = calling[n] \o rest}
  OBVIOUS
<1>3. 0 \in T
  <2>1. n + 0 = n /\ calling[n] \in Seq(Call) /\ <<>> \in Seq(Call)
    BY <1>1, EmptySeq
  <2>2. calling[n] = calling[n] \o <<>>
    BY <2>1, ConcatEmptySeq
  <2>3. QED
    BY <1>2, <2>1, <2>2
<1>4. ASSUME NEW k \in Nat, k \in T PROVE k + 1 \in T
  <2> SUFFICES ASSUME n + (k + 1) <= N
               PROVE  \E rest \in Seq(Call) : calling[n + (k + 1)] = calling[n] \o rest
    BY <1>2
  <2>1. PICK m \in 1 .. N : m = n + (k + 1) /\ m - 1 = n + k /\ m - 1 <= N
    BY <1>1
  <2>2. PICK rest \in Seq(Call) : calling[m - 1] = calling[n] \o rest
    BY <1>2, <1>4, <2>1
  <2>3. PICK call \in Call : call = [entry |-> m, frame |-> f]
    BY <1>0, <2>1 DEF Call
  <2>4. calling[m] = calling[m - 1] \/ calling[m] = Append(calling[m - 1], call)
    BY <1>0, <2>1, <2>3, CallsIs, ZenonT(40)
  <2>5. calling[n] \in Seq(Call)
    BY <1>1
  <2>6. \E more \in Seq(Call) : Append(calling[n] \o rest, call) = calling[n] \o more
    BY <2>2, <2>3, <2>5, AppendLast
  <2>7. QED
    BY <2>1, <2>2, <2>4, <2>6
<1>5. PICK k \in Nat : n + k = N
  <2>1. N - n \in Nat /\ n + (N - n) = N
    BY <1>1
  <2>2. QED
    BY <2>1
<1>6. k \in T
  BY <1>3, <1>4, Stepwise
<1>7. n + k <= N
  BY <1>1, <1>5
<1>8. QED
  BY <1>0, <1>2, <1>5, <1>6, <1>7

LEMMA PrefixOf == ASSUME NEW S, NEW s \in Seq(S), NEW rest \in Seq(S), NEW t, t = s \o rest
                  PROVE  IsPrefix(s, t)
<1>1. PICK n \in Nat, m \in Nat : n = Len(s) /\ m = Len(rest)
  BY LenProperties
<1>2. Len(t) = n + m
  BY <1>1, ConcatProperties
<1>3. Len(s) <= Len(t)
  BY <1>1, <1>2
<1>4. SubSeq(s, 1, Len(s)) = SubSeq(t, 1, Len(s))
  <2>1. CASE n = 0
    <3>1. SubSeq(s, 1, 0) = <<>> /\ SubSeq(t, 1, 0) = <<>>
      BY SubSeqEmpty
    <3>2. QED
      BY <1>1, <2>1, <3>1
  <2>2. CASE n # 0
    <3>1. 1 \in 1 .. n /\ n \in 1 .. n
      BY <2>2
    <3>2. QED
      BY <1>1, <3>1, SubSeqOfConcat1
  <2>3. QED
    BY <2>1, <2>2
<1>5. QED
  BY <1>3, <1>4 DEF IsPrefix

-----------------------------------------------------------------------------
(* Where the decoder stands when the receiver has read the input up to pos.  *)

Upto(m) == SubSeq(input, 1, m)

\* A start byte is looked for from p on, or the header that begins at p is
\* being read, or the frame behind the header that ends at q is.
Waiting(p)    == p = pos + 1
AtMSB(p)      == p \in 1 .. pos /\ \A j \in p .. pos : input[j] = StartByte
AtLSB(p)      == p \in 1 .. pos /\ Header(input, p, pos + 1) /\ rx.bytes_in_frame = input[pos] * ByteMod
Within(p, q)  == /\ p \in 1 .. pos /\ q \in 1 .. pos /\ Header(input, p, q)
                 /\ rx.bytes_in_frame = Length(input, q)
                 /\ \A i \in 0 .. rx.bytes_read - 1 : rx.frame_data[i] = input[q + 1 + i]
Collecting(p) == \E q \in Nat : q + rx.bytes_read = pos /\ Within(p, q)

Pending(p) == /\ p \in 1 .. pos + 1
              /\ rx.state = "WAITSTART" => Waiting(p)
              /\ rx.state = "LENGTH_MSB" => AtMSB(p)
              /\ rx.state = "LENGTH_LSB" => AtLSB(p)
              /\ rx.state = "RXFRAME" => Collecting(p)

\* The frames found before p stay found, and the others begin at p or later,
\* however much of the input is decoded.
Following(p) == \A m \in pos .. Len(input) :
                  Frames(Upto(m)) = Frames(Upto(pos)) \o FramesFrom(Upto(m))[p]

LEMMA UptoIs == ASSUME TypeOK, NEW m \in 0 .. Len(input)
                PROVE  /\ Upto(m) \in Seq(Byte) /\ Len(Upto(m)) = m
                       /\ \A i \in 1 .. m : Upto(m)[i] = input[i]
<1>1. input \in Seq(Byte) /\ Len(input) \in Nat
  BY LenProperties DEF TypeOK
<1>2. m \in Nat /\ 0 + m <= Len(input) /\ 0 + m = m /\ 0 + 1 = 1
  BY <1>1
<1>3. PICK u : u = SubSeq(input, 0 + 1, 0 + m)
  OBVIOUS
<1>4. u \in Seq(Byte) /\ Len(u) = m /\ \A i \in 1 .. m : u[i] = input[0 + i]
  BY <1>1, <1>2, <1>3, Piece
<1>5. \A i \in 1 .. m : 0 + i = i
  OBVIOUS
<1>6. u = Upto(m)
  BY <1>2, <1>3 DEF Upto
<1>7. QED
  BY <1>4, <1>5, <1>6

\* A header of the input is one of every part of it that holds the header.
LEMMA HeaderUpto ==
  ASSUME TypeOK, NEW m \in 0 .. Len(input), NEW p \in Nat, p >= 1, NEW q \in Nat, q <= m + 1, Header(input, p, q)
  PROVE  /\ Header(Upto(m), p, q)
         /\ q <= m => Length(Upto(m), q) = Length(input, q) /\ Upto(m)[q] = input[q]
<1>1. p + 2 <= q /\ input[q - 1] # StartByte /\ \A j \in p .. q - 2 : input[j] = StartByte
  BY DEF Header
<1>2. m \in Nat
  BY LenProperties DEF TypeOK
<1>3. q - 1 \in 1 .. m /\ (q <= m => q \in 1 .. m) /\ \A j \in p .. q - 2 : j \in 1 .. m
  BY <1>1, <1>2
<1>4. Upto(m)[q - 1] = input[q - 1] /\ \A j \in p .. q - 2 : Upto(m)[j] = input[j]
  BY <1>3, UptoIs
<1>5. q <= m => Upto(m)[q] = input[q]
  BY <1>3, UptoIs
<1>6. QED
  BY <1>1, <1>4, <1>5 DEF Header, Length

LEMMA PosRange == ASSUME TypeOK PROVE pos \in Nat /\ Len(input) \in Nat /\ pos \in 0 .. Len(input)
  BY LenProperties DEF TypeOK

\* What the receiver has begun to read is no frame yet.
LEMMA PendingEmpty ==
  ASSUME IInv, NEW p, Pending(p)
  PROVE  p \in 1 .. pos + 1 /\ FramesFrom(Upto(pos))[p] = <<>>
<1>1. TypeOK /\ RxInv /\ p \in 1 .. pos + 1
  BY DEF IInv, Pending
<1>2. pos \in Nat /\ Len(input) \in Nat /\ pos \in 0 .. Len(input)
  BY <1>1, PosRange
<1>3. PICK s : s = Upto(pos)
  OBVIOUS
<1>4. s \in Seq(Byte) /\ Len(s) = pos /\ \A i \in 1 .. pos : s[i] = input[i]
  BY <1>1, <1>2, <1>3, UptoIs
<1>5. p \in 1 .. Len(s) + 1
  BY <1>1, <1>4
<1>6. rx.state \in RxState
  BY <1>1 DEF TypeOK
<1>7. CASE rx.state = "WAITSTART"
  <2>1. p = pos + 1
    BY <1>7 DEF Pending, Waiting
  <2>2. \A j \in p .. Len(s) - 1 : s[j] = StartByte
    BY <1>2, <1>4, <2>1
  <2>3. QED
    BY <1>1, <1>3, <1>4, <1>5, <2>2, NoHeader
<1>8. CASE rx.state = "LENGTH_MSB"
  <2>1. \A j \in p .. pos : input[j] = StartByte
    BY <1>8 DEF Pending, AtMSB
  <2>2. \A j \in p .. Len(s) - 1 : s[j] = StartByte
    BY <1>1, <1>2, <1>4, <2>1
  <2>3. QED
    BY <1>1, <1>3, <1>4, <1>5, <2>2, NoHeader
<1>9. CASE rx.state = "LENGTH_LSB"
  <2>1. \A j \in p .. pos + 1 - 2 : input[j] = StartByte
    <3>1. PICK q \in Nat : q = pos + 1
      BY <1>2
    <3>2. Header(input, p, q)
      BY <1>9, <3>1 DEF Pending, AtLSB
    <3>3. \A j \in p .. q - 2 : input[j] = StartByte
      BY <3>2 DEF Header
    <3>4. QED
      BY <1>1, <1>2, <3>1, <3>3
  <2>2. \A j \in p .. Len(s) - 1 : s[j] = StartByte
    BY <1>1, <1>2, <1>4, <2>1
  <2>3. QED
    BY <1>1, <1>3, <1>4, <1>5, <2>2, NoHeader
<1>10. CASE rx.state = "RXFRAME"
  <2>1. PICK q \in Nat : q + rx.bytes_read = pos /\ Within(p, q)
    BY <1>10 DEF Pending, Collecting
  <2>2. PICK size \in 2 .. MaxFrameLen : rx.bytes_in_frame = size
    BY <1>1, <1>10 DEF RxInv
  <2>3. PICK have \in 0 .. size : rx.bytes_read = have
    BY <1>1, <1>10, <2>2 DEF RxInv
  <2>4. q \in 1 .. pos /\ Header(input, p, q) /\ size = Length(input, q)
    BY <2>1, <2>2 DEF Within
  <2>5. p \in Nat /\ p >= 1 /\ q <= pos /\ q <= pos + 1
    BY <1>1, <1>2, <2>4
  <2>6. Header(s, p, q) /\ Length(s, q) = size
    BY <1>1, <1>2, <1>3, <2>1, <2>4, <2>5, HeaderUpto
  <2>7. q <= Len(s) /\ q + size + 1 > Len(s)
    BY <1>2, <1>4, <2>1, <2>2, <2>3, <2>5, ByteAssumption
  <2>8. QED
    BY <1>1, <1>3, <1>4, <2>1, <2>2, <2>5, <2>6, <2>7, Incomplete
<1>11. QED
  BY <1>6, <1>7, <1>8, <1>9, <1>10 DEF RxState

LEMMA PendingNone == IInv => \A at : Pending(at) => FramesFrom(Upto(pos))[at] = <<>>
  BY PendingEmpty

LEMMA Later == ASSUME NEW a \in Nat, NEW b \in Nat, NEW n \in Nat, a <= b, NEW m \in b .. n, NEW r \in 1 .. b + 1
               PROVE  m \in 0 .. n /\ m \in a .. n /\ r \in 1 .. m + 1
  OBVIOUS

LEMMA Regroup == ASSUME NEW S, NEW s \in Seq(S), NEW t \in Seq(S), NEW u \in Seq(S), NEW all, all = s \o (t \o u)
                 PROVE  all = (s \o t) \o u
  BY ConcatAssociative, SMTT(30)

\* With the input read up to a or further, the frames from p on are these,
\* and then those from r on.
Between(p, found, r, a) ==
  \A m \in a .. Len(input) : FramesFrom(Upto(m))[p] = found \o FramesFrom(Upto(m))[r]

\* A read that lets the decoder find some frames and go on at r.
LEMMA ReadOn ==
  ASSUME IInv, IInv', UNCHANGED input, pos' >= pos, NEW p, Pending(p), Following(p),
         NEW r, Pending(r)', NEW found \in Seq(Seq(Byte)),
         Between(p, found, r, pos')
  PROVE  Following(r)' /\ Frames(Upto(pos)) \in Seq(Seq(Byte)) /\ Frames(Upto(pos))' = Frames(Upto(pos)) \o found
<1>1. TypeOK /\ TypeOK' /\ p \in 1 .. pos + 1 /\ r \in 1 .. pos' + 1
  BY DEF IInv, Pending
<1>2. pos \in Nat /\ pos' \in Nat /\ Len(input) \in Nat /\ pos' <= Len(input) /\ pos <= pos'
  BY <1>1, PosRange DEF TypeOK
<1>3. \A m : Upto(m)' = Upto(m)
  BY DEF Upto
<1>4. ASSUME NEW m \in 0 .. Len(input), NEW i \in 1 .. m + 1
      PROVE  Frames(Upto(m)) \in Seq(Seq(Byte)) /\ FramesFrom(Upto(m))[i] \in Seq(Seq(Byte))
  <2>1. Upto(m) \in Seq(Byte) /\ Len(Upto(m)) = m /\ 1 \in 1 .. m + 1
    BY <1>1, UptoIs
  <2>2. QED
    BY <2>1, FramesType DEF Frames
<1>5. PICK base \in Seq(Seq(Byte)) : base = Frames(Upto(pos))
  <2>1. pos \in 0 .. Len(input) /\ 1 \in 1 .. pos + 1
    BY <1>2
  <2>2. QED
    BY <1>4, <2>1
<1>6. base \o found \in Seq(Seq(Byte))
  BY <1>5, ConcatProperties
<1>7. ASSUME NEW m \in pos' .. Len(input)
      PROVE  Frames(Upto(m)) = (base \o found) \o FramesFrom(Upto(m))[r]
  <2>1. m \in 0 .. Len(input) /\ r \in 1 .. m + 1 /\ m \in pos .. Len(input)
    <3>1. PICK a \in Nat, b \in Nat, n \in Nat : a = pos /\ b = pos' /\ n = Len(input)
      BY <1>2
    <3>2. a <= b /\ r \in 1 .. b + 1 /\ m \in b .. n
      BY <1>1, <1>2, <3>1
    <3>3. m \in 0 .. n /\ m \in a .. n /\ r \in 1 .. m + 1
      BY <3>1, <3>2, Later
    <3>4. QED
      BY <3>1, <3>3
  <2>2. PICK rest \in Seq(Seq(Byte)) : rest = FramesFrom(Upto(m))[r]
    BY <1>4, <2>1
  <2>3. Frames(Upto(m)) = base \o (found \o rest)
    BY <1>5, <2>1, <2>2 DEF Following, Between
  <2>4. QED
    <3>1. base \in Seq(Seq(Byte)) /\ rest \in Seq(Seq(Byte))
      BY <1>5, <2>2
    <3>2. Frames(Upto(m)) = (base \o found) \o rest
      BY <2>3, <3>1, Regroup, SMTT(30)
    <3>3. QED
      BY <2>2, <3>2
<1>8. FramesFrom(Upto(pos'))[r] = <<>>
  <2>1. (IInv => \A at : Pending(at) => FramesFrom(Upto(pos))[at] = <<>>)'
    BY PendingNone, PTL
  <2>2. QED
    BY <1>3, <2>1
<1>9. Frames(Upto(pos')) = base \o found
  <2>1. pos' \in pos' .. Len(input)
    BY <1>2
  <2>2. (base \o found) \o <<>> = base \o found
    BY <1>6, ConcatEmptySeq
  <2>3. QED
    BY <1>7, <1>8, <2>1, <2>2
<1>10. QED
  BY <1>3, <1>5, <1>7, <1>9 DEF Following, Frames

-----------------------------------------------------------------------------
(* Reading the bytes of a header finds no frame.                             *)

SameFrom(p, r, a) == \A m \in a .. Len(input) : FramesFrom(Upto(m))[p] = FramesFrom(Upto(m))[r]

\* The decoder's place goes with the receiver's, and no frame is found.
OnlyOn == \E r : /\ Pending(r)' /\ Following(r)'
                 /\ Frames(Upto(pos))' = Frames(Upto(pos))

LEMMA ReadNothing ==
  ASSUME IInv, IInv', UNCHANGED input, pos' >= pos, NEW p, Pending(p), Following(p),
         NEW r, Pending(r)', SameFrom(p, r, pos')
  PROVE  OnlyOn
<1>1. TypeOK /\ TypeOK' /\ r \in 1 .. pos' + 1
  BY DEF IInv, Pending
<1>2. pos' \in Nat /\ Len(input) \in Nat /\ pos' <= Len(input)
  BY <1>1, LenProperties DEF TypeOK
<1>3. <<>> \in Seq(Seq(Byte))
  BY EmptySeq
<1>4. ASSUME NEW m \in pos' .. Len(input)
      PROVE  FramesFrom(Upto(m))[p] = <<>> \o FramesFrom(Upto(m))[r]
  <2>1. PICK b \in Nat, n \in Nat : b = pos' /\ n = Len(input)
    BY <1>2
  <2>2. r \in 1 .. b + 1 /\ m \in b .. n
    BY <1>1, <2>1
  <2>3. m \in 0 .. n /\ r \in 1 .. m + 1
    <3>1. b <= b
      BY <2>1
    <3>2. QED
      BY <2>1, <2>2, <3>1, Later
  <2>4. Upto(m) \in Seq(Byte) /\ Len(Upto(m)) = m
    BY <1>1, <2>1, <2>3, UptoIs
  <2>5. FramesFrom(Upto(m))[r] \in Seq(Seq(Byte))
    BY <2>3, <2>4, FramesType
  <2>6. FramesFrom(Upto(m))[p] = FramesFrom(Upto(m))[r]
    BY DEF SameFrom
  <2>7. QED
    BY <2>5, <2>6, ConcatEmptySeq
<1>5. Between(p, <<>>, r, pos')
  BY <1>4 DEF Between
<1>6. /\ Following(r)' /\ Frames(Upto(pos)) \in Seq(Seq(Byte))
      /\ Frames(Upto(pos))' = Frames(Upto(pos)) \o <<>>
  BY <1>3, <1>5, ReadOn
<1>7. Frames(Upto(pos))' = Frames(Upto(pos))
  BY <1>6, ConcatEmptySeq
<1>8. QED
  BY <1>6, <1>7 DEF OnlyOn

LEMMA SamePlace == ASSUME NEW p, NEW a PROVE SameFrom(p, p, a)
  BY DEF SameFrom

LEMMA DecodeStart ==
  ASSUME IInv, IInv', NEW p, Pending(p), Following(p), LoadStart
  PROVE  OnlyOn
<1>1. TypeOK /\ pos \in Nat /\ Len(input) \in Nat
  BY PosRange DEF IInv
<1>2. /\ rx.state = "WAITSTART" /\ pos' = pos + 1 /\ UNCHANGED input /\ pos + 1 <= Len(input)
      /\ rx'.state = IF input[pos + 1] = StartByte THEN "LENGTH_MSB" ELSE "WAITSTART"
  BY <1>1 DEF LoadStart, ReadByte, Available, TypeOK
<1>3. p = pos + 1 /\ pos' >= pos
  BY <1>1, <1>2 DEF Pending, Waiting
<1>4. CASE input[pos + 1] = StartByte
  <2>1. AtMSB(p)'
    <3>1. p \in 1 .. pos' /\ \A j \in p .. pos' : j = pos + 1
      BY <1>1, <1>2, <1>3
    <3>2. \A j \in p .. pos' : input'[j] = StartByte
      BY <1>2, <1>4, <3>1
    <3>3. QED
      BY <3>1, <3>2 DEF AtMSB
  <2>2. p \in 1 .. pos' + 1
    BY <1>1, <1>2, <1>3
  <2>3. Pending(p)'
    BY <1>2, <1>4, <2>1, <2>2 DEF Pending
  <2>4. QED
    BY <1>2, <1>3, <2>3, SamePlace, ReadNothing
<1>5. CASE input[pos + 1] # StartByte
  <2>1. PICK r \in Nat : r = p + 1
    BY <1>1, <1>3
  <2>2. Waiting(r)' /\ r \in 1 .. pos' + 1
    BY <1>1, <1>2, <1>3, <2>1 DEF Waiting
  <2>3. Pending(r)'
    BY <1>2, <1>5, <2>2 DEF Pending
  <2>4. ASSUME NEW m \in pos' .. Len(input) PROVE FramesFrom(Upto(m))[p] = FramesFrom(Upto(m))[r]
    <3>1. m \in 0 .. Len(input) /\ p \in 1 .. m
      BY <1>1, <1>2, <1>3
    <3>2. Upto(m) \in Seq(Byte) /\ Len(Upto(m)) = m /\ Upto(m)[p] = input[p]
      BY <1>1, <3>1, UptoIs
    <3>3. QED
      BY <1>3, <1>5, <2>1, <3>1, <3>2, Passed
  <2>5. SameFrom(p, r, pos')
    BY <2>4 DEF SameFrom
  <2>6. QED
    BY <1>2, <1>3, <2>3, <2>5, ReadNothing
<1>6. QED
  BY <1>4, <1>5

LEMMA DecodeMSB ==
  ASSUME IInv, IInv', NEW p, Pending(p), Following(p), LoadLengthMSB
  PROVE  OnlyOn
<1>1. TypeOK /\ pos \in Nat /\ Len(input) \in Nat
  BY PosRange DEF IInv
<1>2. /\ rx.state = "LENGTH_MSB" /\ pos' = pos + 1 /\ UNCHANGED input
      /\ input[pos + 1] = StartByte => rx' = rx
      /\ input[pos + 1] # StartByte => /\ rx'.state = "LENGTH_LSB"
                                       /\ rx'.bytes_in_frame = input[pos + 1] * ByteMod
  BY <1>1 DEF LoadLengthMSB, ReadByte, TypeOK
<1>3. p \in 1 .. pos /\ (\A j \in p .. pos : input[j] = StartByte) /\ pos' >= pos
  BY <1>1, <1>2 DEF Pending, AtMSB
<1>4. p \in 1 .. pos' /\ p \in 1 .. pos' + 1
  BY <1>1, <1>2, <1>3
<1>5. Pending(p)'
  <2>1. CASE input[pos + 1] = StartByte
    <3>1. \A j \in p .. pos' : j \in p .. pos \/ j = pos + 1
      BY <1>1, <1>2, <1>3
    <3>2. \A j \in p .. pos' : input'[j] = StartByte
      BY <1>2, <1>3, <2>1, <3>1
    <3>3. AtMSB(p)'
      BY <1>4, <3>2 DEF AtMSB
    <3>4. QED
      BY <1>2, <1>4, <2>1, <3>3 DEF Pending
  <2>2. CASE input[pos + 1] # StartByte
    <3>1. PICK q \in Nat : q = pos + 2 /\ q = pos' + 1 /\ q - 1 = pos + 1 /\ q - 2 = pos
      BY <1>1, <1>2
    <3>2. Header(input, p, q)
      <4>1. p + 2 <= q
        BY <1>1, <1>3, <3>1
      <4>2. QED
        BY <1>3, <2>2, <3>1, <4>1 DEF Header
    <3>3. AtLSB(p)'
      BY <1>2, <1>4, <2>2, <3>1, <3>2 DEF AtLSB
    <3>4. QED
      BY <1>2, <1>4, <2>2, <3>3 DEF Pending
  <2>3. QED
    BY <2>1, <2>2
<1>6. QED
  BY <1>2, <1>3, <1>5, SamePlace, ReadNothing

\* The low byte of a length ends the header, and rules the frame in or out.
LEMMA DecodeLSB ==
  ASSUME IInv, IInv', NEW p, Pending(p), Following(p), LoadLengthLSB
  PROVE  OnlyOn
<1>1. TypeOK /\ pos \in Nat /\ Len(input) \in Nat
  BY PosRange DEF IInv
<1>2. PICK q \in Nat : q = pos + 1
  BY <1>1
<1>3. /\ rx.state = "LENGTH_LSB" /\ pos' = q /\ UNCHANGED input /\ q <= Len(input)
      /\ rx' = AfterLength(rx.bytes_in_frame + input[q], input[q])
  BY <1>1, <1>2 DEF LoadLengthLSB, ReadByte, Available
<1>4. p \in 1 .. pos /\ Header(input, p, q) /\ rx.bytes_in_frame = input[q - 1] * ByteMod
  <2>1. q - 1 = pos
    BY <1>1, <1>2
  <2>2. QED
    BY <1>2, <1>3, <2>1 DEF Pending, AtLSB
<1>5. p \in Nat /\ p >= 1 /\ p \in 1 .. q /\ p \in 1 .. q + 1 /\ pos' >= pos /\ q \in 1 .. q
  BY <1>1, <1>2, <1>3, <1>4
<1>6. rx' = AfterLength(Length(input, q), input[q])
  BY <1>3, <1>4 DEF Length
<1>7. PICK len : len = Length(input, q)
  OBVIOUS
<1>8. CASE len \in 2 .. MaxFrameLen
  <2>1. rx'.state = "RXFRAME" /\ rx'.bytes_in_frame = len /\ rx'.bytes_read = 0
    BY <1>1, <1>6, <1>7, <1>8 DEF AfterLength, ValidLength, TypeOK
  <2>2. q + rx'.bytes_read = pos' /\ \A i \in 0 .. rx'.bytes_read - 1 : FALSE
    BY <1>2, <1>3, <2>1
  <2>3. Within(p, q)'
    BY <1>3, <1>4, <1>5, <1>7, <2>1, <2>2 DEF Within
  <2>4. Collecting(p)'
    BY <1>2, <2>2, <2>3 DEF Collecting
  <2>5. Pending(p)'
    BY <1>3, <1>5, <2>1, <2>4 DEF Pending
  <2>6. QED
    BY <1>3, <1>5, <2>5, SamePlace, ReadNothing
<1>9. CASE len \notin 2 .. MaxFrameLen
  <2>1. PICK r \in Nat : r = IF input[q] = StartByte THEN q ELSE q + 1
    BY <1>2
  <2>2. rx'.state = IF input[q] = StartByte THEN "LENGTH_MSB" ELSE "WAITSTART"
    BY <1>1, <1>6, <1>7, <1>9 DEF AfterLength, ValidLength, TypeOK
  <2>3. r \in 1 .. pos' + 1
    BY <1>2, <1>3, <1>5, <2>1
  <2>4. Pending(r)'
    <3>1. CASE input[q] = StartByte
      <4>1. r = q /\ \A j \in r .. pos' : j = q
        BY <1>2, <1>3, <2>1, <3>1
      <4>2. \A j \in r .. pos' : input'[j] = StartByte
        BY <1>3, <3>1, <4>1
      <4>3. AtMSB(r)'
        BY <1>3, <1>5, <4>1, <4>2 DEF AtMSB
      <4>4. QED
        BY <2>2, <2>3, <3>1, <4>3 DEF Pending
    <3>2. CASE input[q] # StartByte
      <4>1. Waiting(r)'
        BY <1>3, <2>1, <3>2 DEF Waiting
      <4>2. QED
        BY <2>2, <2>3, <3>2, <4>1 DEF Pending
    <3>3. QED
      BY <3>1, <3>2
  <2>5. ASSUME NEW m \in pos' .. Len(input) PROVE FramesFrom(Upto(m))[p] = FramesFrom(Upto(m))[r]
    <3>1. m \in 0 .. Len(input) /\ q <= m /\ q <= m + 1
      BY <1>1, <1>2, <1>3
    <3>2. PICK t \in Seq(Byte) : t = Upto(m) /\ Len(t) = m
      BY <1>1, <3>1, UptoIs
    <3>3. Header(t, p, q) /\ Length(t, q) = len /\ t[q] = input[q]
      BY <1>1, <1>2, <1>4, <1>5, <1>7, <3>1, <3>2, HeaderUpto
    <3>4. FramesFrom(t)[p] = FramesFrom(t)[r]
      BY <1>2, <1>5, <1>9, <2>1, <3>1, <3>2, <3>3, BadLength
    <3>5. QED
      BY <3>2, <3>4
  <2>6. SameFrom(p, r, pos')
    BY <2>5 DEF SameFrom
  <2>7. QED
    BY <1>3, <1>5, <2>4, <2>6, ReadNothing
<1>10. QED
  BY <1>8, <1>9

-----------------------------------------------------------------------------
(* Collecting a frame, and finding it.                                       *)

\* Where the frame begins, and how much of it has come.
LEMMA CollectingIs ==
  ASSUME IInv, rx.state = "RXFRAME", NEW p, Pending(p)
  PROVE  \E len \in Nat, q \in Nat, have \in Nat :
           /\ len \in 2 .. MaxFrameLen /\ rx.bytes_in_frame = len /\ rx.bytes_read = have /\ have <= len
           /\ q + have = pos /\ q >= 1 /\ p \in Nat /\ p >= 1 /\ p <= pos
           /\ Within(p, q) /\ len = Length(input, q)
<1>1. PICK len \in 2 .. MaxFrameLen : rx.bytes_in_frame = len
  BY DEF IInv, RxInv
<1>2. PICK have \in 0 .. len : rx.bytes_read = have
  BY <1>1 DEF IInv, RxInv
<1>3. PICK q \in Nat : q + have = pos /\ Within(p, q)
  BY <1>2 DEF Pending, Collecting
<1>4. pos \in Nat
  BY PosRange DEF IInv
<1>5. q \in 1 .. pos /\ p \in 1 .. pos /\ len = Length(input, q)
  BY <1>1, <1>3 DEF Within
<1>6. have \in Nat /\ have <= len /\ q >= 1 /\ p \in Nat /\ p >= 1 /\ p <= pos
  BY <1>1, <1>2, <1>4, <1>5, ByteAssumption
<1>7. len \in Nat /\ len \in 2 .. MaxFrameLen
  BY <1>1, ByteAssumption
<1>8. QED
  BY <1>1, <1>2, <1>3, <1>5, <1>6, <1>7

\* A read of n more bytes puts them in their places.
LEMMA StoredIs ==
  ASSUME NEW p, NEW q \in Nat, NEW have \in Nat, NEW len \in Nat, NEW n \in Nat,
         len \in 2 .. MaxFrameLen, rx.bytes_read = have, q + have = pos, have + n <= len + 1, Within(p, q)
  PROVE  \A i \in 0 .. have + n - 1 : Stored(n)[i] = input[q + 1 + i]
<1> SUFFICES ASSUME NEW i \in 0 .. have + n - 1 PROVE Stored(n)[i] = input[q + 1 + i]
  OBVIOUS
<1>1. i \in Slots
  BY ByteAssumption DEF Slots
<1>2. CASE i \in 0 .. have - 1
  <2>1. ~(i \in have .. have + n - 1)
    BY <1>2
  <2>2. Stored(n)[i] = rx.frame_data[i]
    BY <1>1, <2>1 DEF Stored
  <2>3. QED
    BY <1>2, <2>2 DEF Within
<1>3. CASE i \in have .. have + n - 1
  <2>1. Stored(n)[i] = input[pos + 1 + (i - have)]
    BY <1>1, <1>3 DEF Stored
  <2>2. pos + 1 + (i - have) = q + 1 + i
    BY <1>3
  <2>3. QED
    BY <2>1, <2>2
<1>4. QED
  BY <1>2, <1>3

LEMMA DecodePart ==
  ASSUME IInv, IInv', NEW p, Pending(p), Following(p), LoadPart
  PROVE  OnlyOn
<1>1. TypeOK /\ pos \in Nat /\ Len(input) \in Nat
  BY PosRange DEF IInv
<1>2. rx.state = "RXFRAME" /\ UNCHANGED input
  BY DEF LoadPart
<1>3. PICK len \in Nat, q \in Nat, have \in Nat :
        /\ len \in 2 .. MaxFrameLen /\ rx.bytes_in_frame = len /\ rx.bytes_read = have /\ have <= len
        /\ q + have = pos /\ q >= 1 /\ p \in Nat /\ p >= 1 /\ p <= pos
        /\ Within(p, q) /\ len = Length(input, q)
  BY <1>2, CollectingIs
<1>4. PICK n \in 1 .. BytesLeft - 1 : /\ rx' = [rx EXCEPT !.bytes_read = @ + n, !.frame_data = Stored(n)]
                                      /\ pos' = pos + n
  BY DEF LoadPart
<1>5. n \in Nat /\ n >= 1 /\ have + n <= len + 1
  BY <1>3, <1>4, ByteAssumption DEF BytesLeft
<1>6. /\ rx'.state = "RXFRAME" /\ rx'.bytes_in_frame = len
      /\ rx'.bytes_read = have + n /\ rx'.frame_data = Stored(n)
  BY <1>1, <1>2, <1>3, <1>4 DEF TypeOK
<1>7. q + rx'.bytes_read = pos' /\ pos' >= pos /\ p \in 1 .. pos' /\ q \in 1 .. pos' /\ p \in 1 .. pos' + 1
  BY <1>1, <1>3, <1>4, <1>5, <1>6
<1>8. \A i \in 0 .. rx'.bytes_read - 1 : rx'.frame_data[i] = input[q + 1 + i]
  BY <1>3, <1>5, <1>6, StoredIs
<1>9. Header(input, p, q)
  BY <1>3 DEF Within
<1>10. Within(p, q)'
  BY <1>2, <1>3, <1>6, <1>7, <1>8, <1>9 DEF Within
<1>11. Collecting(p)'
  BY <1>3, <1>7, <1>10 DEF Collecting
<1>12. Pending(p)'
  BY <1>6, <1>7, <1>11 DEF Pending
<1>13. QED
  BY <1>2, <1>7, <1>12, SamePlace, ReadNothing

\* One frame more, as it lies in the buffer.
OneMore(f) == /\ f \in Seq(Byte) /\ Len(f) = rx.bytes_in_frame /\ f = Bytes(rx.bytes_in_frame)'
              /\ f[1] = Stored(BytesLeft)[0] /\ f[2] = Stored(BytesLeft)[1]
              /\ Frames(Upto(pos))' = Append(Frames(Upto(pos)), f)

\* The bytes q + 1 .. q + len + 1 of the input, as data[] holds them.
Holds(data, q, len) == \A i \in 0 .. len : data[i] = input[q + 1 + i]

LEMMA Spelled == ASSUME NEW S, NEW f \in Seq(S), NEW n, n = Len(f) PROVE f = [i \in 1 .. n |-> f[i]]
  OBVIOUS

Spells(f, data, len) == /\ f \in Seq(Byte) /\ Len(f) = len /\ f = [i \in 1 .. len |-> data[i - 1]]
                        /\ f[1] = data[0] /\ f[2] = data[1]

\* The checksum test of the loader is the decoder's.
LEMMA GoodIsIntact ==
  ASSUME TypeOK, NEW q \in Nat, NEW len \in Nat, len >= 2, q + len + 1 <= Len(input),
         NEW data, Holds(data, q, len), NEW m \in 0 .. Len(input), q + len + 1 <= m,
         NEW f, f = SubSeq(Upto(m), q + 1, q + len)
  PROVE  /\ Spells(f, data, len)
         /\ ChecksumOK(data, len) <=> Intact(f, Upto(m)[q + len + 1])
<1>1. Len(input) \in Nat /\ m \in Nat
  BY LenProperties DEF TypeOK
<1>2. PICK s \in Seq(Byte) : s = Upto(m) /\ Len(s) = m /\ \A i \in 1 .. m : s[i] = input[i]
  BY UptoIs
<1>3. q + len <= Len(s)
  BY <1>1, <1>2
<1>4. f \in Seq(Byte) /\ Len(f) = len /\ \A i \in 1 .. len : f[i] = s[q + i]
  BY <1>2, <1>3, Piece
<1>5. ASSUME NEW i \in 1 .. len + 1 PROVE data[i - 1] = s[q + i]
  <2>1. i - 1 \in 0 .. len /\ q + 1 + (i - 1) = q + i /\ q + i \in 1 .. m
    BY <1>1
  <2>2. data[i - 1] = input[q + 1 + (i - 1)]
    BY <2>1 DEF Holds
  <2>3. QED
    BY <1>2, <2>1, <2>2
<1>6. \A i \in 1 .. len : f[i] = data[i - 1]
  BY <1>4, <1>5
<1>7. f = [i \in 1 .. len |-> data[i - 1]]
  <2>1. f = [i \in 1 .. len |-> f[i]]
    BY <1>4, Spelled
  <2>2. QED
    BY <1>6, <2>1
<1>8. f[1] = data[0] /\ f[2] = data[1]
  BY <1>6
<1>9. PICK c \in Byte : c = s[q + len + 1]
  <2>1. q + len + 1 \in 1 .. Len(s)
    BY <1>1, <1>2
  <2>2. QED
    BY <2>1, ElementOfSeq
<1>10. PICK bytes : bytes = [i \in 1 .. len + 1 |-> data[i - 1]]
  OBVIOUS
<1>11. bytes = Append(f, c)
  <2>1. PICK longer : longer = Append(f, c)
    OBVIOUS
  <2>2. /\ longer \in Seq(Byte) /\ Len(longer) = len + 1
        /\ (\A i \in 1 .. len : longer[i] = f[i]) /\ longer[len + 1] = c
    BY <1>4, <2>1, AppendProperties
  <2>3. longer = [i \in 1 .. len + 1 |-> longer[i]]
    BY <2>2
  <2>4. data[len + 1 - 1] = c
    <3>1. len + 1 \in 1 .. len + 1 /\ q + (len + 1) = q + len + 1
      OBVIOUS
    <3>2. QED
      BY <1>5, <1>9, <3>1
  <2>5. \A i \in 1 .. len + 1 : longer[i] = data[i - 1]
    <3>1. \A i \in 1 .. len + 1 : i \in 1 .. len \/ i = len + 1
      OBVIOUS
    <3>2. QED
      BY <1>6, <2>2, <2>4, <3>1
  <2>6. QED
    BY <1>10, <2>1, <2>3, <2>5
<1>12. Checksum(bytes, AllOnes) = 0 <=> Intact(f, c)
  BY <1>4, <1>11, ZeroIsIntact
<1>13. ChecksumOK(data, len) <=> Checksum(bytes, AllOnes) = 0
  BY <1>10 DEF ChecksumOK
<1>14. QED
  BY <1>2, <1>4, <1>7, <1>8, <1>9, <1>12, <1>13 DEF Spells

LEMMA Remainder == ASSUME NEW have \in Nat, NEW len \in Nat, NEW q \in Nat, NEW n \in Nat, n = len - have + 1
                   PROVE  q + have + n = q + len + 1 /\ have + n = len + 1 /\ have + n - 1 = len
  OBVIOUS

\* The rest of a frame: the decoder finds it if it is good.
LEMMA DecodeFrame ==
  ASSUME IInv, IInv', NEW p, Pending(p), Following(p), LoadFrame
  PROVE  /\ \E r : Pending(r)' /\ Following(r)'
         /\ IF ChecksumOK(Stored(BytesLeft), rx.bytes_in_frame)
            THEN \E f : OneMore(f)
            ELSE Frames(Upto(pos))' = Frames(Upto(pos))
<1>1. TypeOK /\ pos \in Nat /\ Len(input) \in Nat
  BY PosRange DEF IInv
<1>2. rx.state = "RXFRAME" /\ UNCHANGED input /\ BytesLeft <= Available /\ pos' = pos + BytesLeft
  BY DEF LoadFrame
<1>3. PICK len \in Nat, q \in Nat, have \in Nat :
        /\ len \in 2 .. MaxFrameLen /\ rx.bytes_in_frame = len /\ rx.bytes_read = have /\ have <= len
        /\ q + have = pos /\ q >= 1 /\ p \in Nat /\ p >= 1 /\ p <= pos
        /\ Within(p, q) /\ len = Length(input, q)
  BY <1>2, CollectingIs
<1>4. PICK n \in Nat : n = BytesLeft /\ n = len - have + 1
  BY <1>3, ByteAssumption DEF BytesLeft
<1>5. PICK data : data = Stored(n)
  OBVIOUS
<1>6. rx'.state = "WAITSTART" /\ rx'.frame_data = data /\ rx'.bytes_in_frame = len
  BY <1>1, <1>3, <1>4, <1>5 DEF LoadFrame, TypeOK
<1>7. len \in Nat /\ len >= 2 /\ have + n <= len + 1 /\ pos' = q + len + 1 /\ q + len + 1 <= Len(input)
  <2>1. len \in Nat /\ len >= 2
    BY <1>3, ByteAssumption
  <2>2. have + n = len + 1 /\ pos + n = q + len + 1
    <3>1. q + have + n = q + len + 1 /\ have + n = len + 1
      BY <1>3, <1>4, <2>1, Remainder
    <3>2. QED
      BY <1>3, <3>1
  <2>3. n <= Len(input) - pos
    BY <1>2, <1>4 DEF Available
  <2>4. pos + n <= Len(input)
    BY <1>1, <1>4, <2>3
  <2>5. have + n <= len + 1
    BY <1>3, <2>1, <2>2
  <2>6. QED
    BY <1>2, <1>4, <2>1, <2>2, <2>4, <2>5
<1>8. Holds(data, q, len)
  <2>1. \A i \in 0 .. have + n - 1 : Stored(n)[i] = input[q + 1 + i]
    <3>1. len \in 2 .. MaxFrameLen /\ rx.bytes_read = have /\ q + have = pos /\ Within(p, q)
      BY <1>3
    <3>2. have + n <= len + 1
      BY <1>7
    <3>3. have \in Nat /\ n \in Nat /\ q \in Nat /\ len \in Nat
      BY <1>3, <1>4
    <3>4. QED
      BY <3>1, <3>2, <3>3, StoredIs
  <2>2. have + n - 1 = len
    BY <1>3, <1>4, Remainder
  <2>3. QED
    BY <1>5, <2>1, <2>2 DEF Holds
<1>9. PICK good : good = ChecksumOK(data, len)
  OBVIOUS
<1>10. PICK r \in Nat : r = q + len + 1 + 1
  BY <1>7
<1>11. Pending(r)'
  <2>1. Waiting(r)' /\ r \in 1 .. pos' + 1
    BY <1>3, <1>7, <1>10, SMTT(30) DEF Waiting
  <2>2. QED
    BY <1>6, <2>1 DEF Pending
<1>12. PICK f : f = [i \in 1 .. len |-> data[i - 1]]
  OBVIOUS
<1>13. ASSUME NEW m \in pos' .. Len(input)
       PROVE  /\ f \in Seq(Byte) /\ Len(f) = len /\ f[1] = data[0] /\ f[2] = data[1]
              /\ FramesFrom(Upto(m))[p] = IF good THEN <<f>> \o FramesFrom(Upto(m))[r]
                                          ELSE FramesFrom(Upto(m))[r]
              /\ FramesFrom(Upto(m))[r] \in Seq(Seq(Byte))
  <2>1. m \in 0 .. Len(input) /\ q + len + 1 <= m /\ q <= m /\ q <= m + 1 /\ r \in 1 .. m + 1
    BY <1>1, <1>3, <1>7, <1>10, SMTT(30)
  <2>2. PICK t \in Seq(Byte) : t = Upto(m) /\ Len(t) = m
    BY <1>1, <2>1, UptoIs
  <2>3. Header(t, p, q) /\ Length(t, q) = len
    <3>1. Header(input, p, q)
      BY <1>3 DEF Within
    <3>2. QED
      BY <1>1, <1>3, <2>1, <2>2, <3>1, HeaderUpto
  <2>4. PICK g : g = SubSeq(t, q + 1, q + len)
    OBVIOUS
  <2>5. /\ g \in Seq(Byte) /\ Len(g) = len /\ g = f /\ g[1] = data[0] /\ g[2] = data[1]
        /\ good <=> Intact(g, t[q + len + 1])
    <3>1. g = SubSeq(Upto(m), q + 1, q + len)
      BY <2>2, <2>4
    <3>2. /\ Spells(g, data, len)
          /\ ChecksumOK(data, len) <=> Intact(g, Upto(m)[q + len + 1])
      <4>1. q \in Nat /\ len \in Nat /\ len >= 2 /\ q + len + 1 <= Len(input)
        BY <1>3, <1>7
      <4>2. QED
        BY <1>1, <1>8, <2>1, <3>1, <4>1, GoodIsIntact
    <3>3. QED
      BY <1>9, <1>12, <2>2, <3>2 DEF Spells
  <2>6. FramesFrom(t)[p] = IF Intact(g, t[q + len + 1]) THEN <<g>> \o FramesFrom(t)[r]
                           ELSE FramesFrom(t)[r]
    <3>1. q <= Len(t) /\ q + len + 1 <= Len(t) /\ len = Length(t, q)
      BY <2>1, <2>2, <2>3
    <3>2. FramesFrom(t)[p] = IF Intact(SubSeq(t, q + 1, q + len), t[q + len + 1])
                             THEN <<SubSeq(t, q + 1, q + len)>> \o FramesFrom(t)[q + len + 1 + 1]
                             ELSE FramesFrom(t)[q + len + 1 + 1]
      BY <1>3, <2>2, <2>3, <3>1, Whole, ZenonT(40)
    <3>3. QED
      BY <1>10, <2>4, <3>2
  <2>7. FramesFrom(t)[r] \in Seq(Seq(Byte))
    BY <2>1, <2>2, FramesType
  <2>8. QED
    BY <2>2, <2>5, <2>6, <2>7
<1>14. f \in Seq(Byte) /\ Len(f) = len /\ f[1] = data[0] /\ f[2] = data[1]
  <2>1. pos' \in pos' .. Len(input)
    BY <1>1, <1>3, <1>7
  <2>2. QED
    BY <1>13, <2>1
<1>15. pos' >= pos
  BY <1>1, <1>2, <1>4
<1>16. CASE good
  <2>1. PICK found \in Seq(Seq(Byte)) : found = <<f>>
    BY <1>14, Single
  <2>2. Between(p, found, r, pos')
    BY <1>13, <1>16, <2>1 DEF Between
  <2>3. /\ Following(r)' /\ Frames(Upto(pos)) \in Seq(Seq(Byte))
        /\ Frames(Upto(pos))' = Frames(Upto(pos)) \o found
    BY <1>2, <1>11, <1>15, <2>2, ReadOn
  <2>4. Frames(Upto(pos))' = Append(Frames(Upto(pos)), f)
    BY <1>14, <2>1, <2>3, AppendIsConcat
  <2>5. OneMore(f)
    BY <1>3, <1>4, <1>5, <1>6, <1>12, <1>14, <2>4 DEF OneMore, Bytes
  <2>6. QED
    BY <1>3, <1>4, <1>5, <1>9, <1>11, <1>16, <2>3, <2>5
<1>17. CASE ~good
  <2>1. SameFrom(p, r, pos')
    BY <1>13, <1>17 DEF SameFrom
  <2>2. OnlyOn
    BY <1>2, <1>11, <1>15, <2>1, ReadNothing
  <2>3. QED
    BY <1>3, <1>4, <1>5, <1>9, <1>17, <2>2 DEF OnlyOn
<1>18. QED
  BY <1>16, <1>17

-----------------------------------------------------------------------------
(* What the handlers have seen, and the join state, follow the decoder.      *)

\* How many entries of the table have had the frame on loan.
Made == IF Top.pc = "handler" THEN Top.entry ELSE Top.entry - 1

\* The last frame found is on its way through the table.
InTable(before, f) ==
  /\ before \in Seq(Seq(Byte)) /\ f \in Seq(Byte)
  /\ Frames(Upto(pos)) = Append(before, f)
  /\ Top.length = Len(f) /\ f = Bytes(Len(f)) /\ Top.type = f[1] /\ Top.id = f[2]
  /\ Top.entry \in 1 .. Len(Handlers) + 1 /\ Made \in 0 .. Len(Handlers)
  /\ handled = Expected(before) \o CallsUpTo(f)[Made]

Lent == Running /\ Top.pc # "load"

DispatchInv == /\ ~Lent => handled = Expected(Frames(Upto(pos)))
               /\ Lent => \E before, f : InTable(before, f)

DecodeInv == \E p : Pending(p) /\ Following(p)

FInv == IInv /\ DecodeInv /\ DispatchInv /\ WpanAsDecoded

LEMMA FramesAre == ASSUME TypeOK PROVE Frames(Upto(pos)) \in Seq(Seq(Byte))
<1>1. pos \in Nat /\ pos \in 0 .. Len(input) /\ 1 \in 1 .. pos + 1
  BY PosRange
<1>2. Upto(pos) \in Seq(Byte) /\ Len(Upto(pos)) = pos
  BY <1>1, UptoIs
<1>3. QED
  BY <1>1, <1>2, FramesType DEF Frames

LEMMA TopIs == ASSUME NEW a, calls' = <<a>> PROVE Running' /\ Top' = a
<1>1. calls' # <<>> /\ Len(calls') = 1 /\ calls'[1] = a
  OBVIOUS
<1>2. QED
  BY <1>1 DEF Running, Top

LEMMA InitFInv == ASSUME Init PROVE FInv
<1>1. IInv /\ TypeOK
  BY InitIInv DEF IInv
<1>2. /\ pos = 0 /\ rx.state = "WAITSTART" /\ calls = <<>> /\ handled = <<>> /\ wpan = WpanAfterDevInit
      /\ Len(input) \in Nat
  BY <1>1, LenProperties DEF Init, TypeOK
<1>3. PICK s \in Seq(Byte) : s = Upto(0) /\ Len(s) = 0
  BY <1>1, <1>2, UptoIs
<1>4. Frames(Upto(0)) = <<>>
  <2>1. 1 \in 1 .. Len(s) + 1 /\ \A j \in 1 .. Len(s) - 1 : FALSE
    BY <1>3
  <2>2. FramesFrom(s)[1] = <<>>
    BY <1>3, <2>1, NoHeader
  <2>3. QED
    BY <1>3, <2>2 DEF Frames
<1>5. Pending(1)
  BY <1>2 DEF Pending, Waiting
<1>6. Following(1)
  <2>1. ASSUME NEW m \in 0 .. Len(input) PROVE Frames(Upto(m)) = <<>> \o FramesFrom(Upto(m))[1]
    <3>1. Upto(m) \in Seq(Byte) /\ Len(Upto(m)) = m /\ 1 \in 1 .. m + 1
      BY <1>1, <1>2, UptoIs
    <3>2. FramesFrom(Upto(m))[1] \in Seq(Seq(Byte))
      BY <3>1, FramesType
    <3>3. QED
      BY <3>2, ConcatEmptySeq DEF Frames
  <2>2. QED
    BY <1>2, <1>4, <2>1 DEF Following
<1>7. DispatchInv
  <2>1. ~Lent
    BY <1>2 DEF Lent, Running
  <2>2. Expected(<<>>) = <<>>
    <3>1. PICK none \in Seq(Seq(Byte)), f \in Seq(Byte) : none = <<>> /\ f = <<>>
      BY EmptySeq
    <3>2. QED
      BY <3>1, ExpectedAppend
  <2>3. QED
    BY <1>2, <1>4, <2>1, <2>2 DEF DispatchInv
<1>8. WpanAsDecoded
  <2>1. JoinState(<<>>) = WpanAfterDevInit
    <3>1. PICK none \in Seq(Seq(Byte)), f \in Seq(Byte) : none = <<>> /\ f = <<>>
      BY EmptySeq
    <3>2. QED
      BY <3>1, JoinStateAppend
  <2>2. QED
    BY <1>2, <1>4, <2>1 DEF WpanAsDecoded, Consumed, Upto
<1>9. QED
  BY <1>1, <1>5, <1>6, <1>7, <1>8 DEF FInv, DecodeInv

\* A step that reads nothing leaves the decoder where it is.
LEMMA DecodeStill ==
  ASSUME DecodeInv, UNCHANGED <<rx, input, pos>>
  PROVE  DecodeInv' /\ Frames(Upto(pos))' = Frames(Upto(pos))
<1>1. PICK p : Pending(p) /\ Following(p)
  BY DEF DecodeInv
<1>2. Pending(p)'
  BY <1>1 DEF Pending, Waiting, AtMSB, AtLSB, Collecting, Within
<1>3. Following(p)'
  BY <1>1 DEF Following, Upto
<1>4. QED
  BY <1>2, <1>3 DEF DecodeInv, Upto

\* Reading is what the decoder does, and it finds a frame only when the
\* loader does.
LEMMA DecodeStep ==
  ASSUME IInv, IInv', DecodeInv, LoadStart \/ LoadLengthMSB \/ LoadLengthLSB \/ LoadPart
  PROVE  DecodeInv' /\ Frames(Upto(pos))' = Frames(Upto(pos))
<1>1. PICK p : Pending(p) /\ Following(p)
  BY DEF DecodeInv
<1>2. OnlyOn
  BY <1>1, DecodeStart, DecodeMSB, DecodeLSB, DecodePart
<1>3. QED
  BY <1>2 DEF OnlyOn, DecodeInv

\* With no frame on loan before or after, and none found.
LEMMA NotLent ==
  ASSUME DispatchInv, ~Lent, ~Lent', UNCHANGED handled, Frames(Upto(pos))' = Frames(Upto(pos))
  PROVE  DispatchInv'
<1>1. handled' = Expected(Frames(Upto(pos))')
  BY DEF DispatchInv
<1>2. QED
  BY <1>1 DEF DispatchInv

LEMMA StepStill ==
  ASSUME FInv, IInv', UNCHANGED vars \/ TickBusy \/ TickEnter \/ LoadNothing
  PROVE  FInv'
<1>1. UNCHANGED <<rx, input, pos, handled, wpan>>
  BY DEF vars, TickBusy, TickEnter, LoadNothing
<1>2. DecodeInv' /\ Frames(Upto(pos))' = Frames(Upto(pos))
  BY <1>1, DecodeStill DEF FInv
<1>3. WpanAsDecoded'
  BY <1>1, <1>2 DEF FInv, WpanAsDecoded, Consumed, Upto
<1>4. DispatchInv'
  <2>1. CASE UNCHANGED calls
    <3>1. \A before, f : InTable(before, f)' <=> InTable(before, f)
      BY <1>1, <1>2, <2>1 DEF InTable, Made, Top, Bytes
    <3>2. Lent' <=> Lent
      BY <2>1 DEF Lent, Running, Top
    <3>3. QED
      BY <1>1, <1>2, <3>1, <3>2 DEF FInv, DispatchInv
  <2>2. CASE TickEnter
    <3>1. ~Lent
      <4>1. TypeOK /\ FlagInv /\ ~in_tick
        BY <2>2 DEF FInv, IInv, TickEnter
      <4>2. ~Running
        BY <4>1, OneActivation
      <4>3. QED
        BY <4>2 DEF Lent
    <3>2. ~Lent'
      <4>1. calls = <<>>
        BY <2>2, OneActivation DEF FInv, IInv, TickEnter, Running
      <4>2. PICK a : a = [pc |-> "load", dispatched |-> 0, entry |-> 1, length |-> 0, type |-> 0, id |-> 0]
        OBVIOUS
      <4>3. calls' = <<a>> /\ a.pc = "load"
        BY <2>2, <4>1, <4>2 DEF TickEnter
      <4>4. QED
        BY <4>3, TopIs DEF Lent
    <3>3. QED
      BY <1>1, <1>2, <3>1, <3>2, NotLent DEF FInv
  <2>3. CASE LoadNothing
    <3>1. Running /\ ~Lent
      BY <2>3 DEF LoadNothing, Loading, Lent
    <3>2. calls' = <<>>
      BY <2>3, <3>1, OneActivation DEF FInv, IInv, LoadNothing, TickReturn
    <3>3. ~Lent'
      BY <3>2 DEF Lent, Running
    <3>4. QED
      BY <1>1, <1>2, <3>1, <3>3, NotLent DEF FInv
  <2>4. QED
    BY <2>1, <2>2, <2>3 DEF vars, TickBusy
<1>5. QED
  BY <1>2, <1>3, <1>4 DEF FInv

LEMMA StepRead ==
  ASSUME FInv, IInv', LoadStart \/ LoadLengthMSB \/ LoadLengthLSB \/ LoadPart
  PROVE  FInv'
<1>1. DecodeInv' /\ Frames(Upto(pos))' = Frames(Upto(pos))
  BY DecodeStep DEF FInv
<1>2. Running /\ Top.pc = "load" /\ UNCHANGED <<handled, wpan>>
  BY DEF LoadStart, LoadLengthMSB, LoadLengthLSB, LoadPart, ReadByte, Loading
<1>3. WpanAsDecoded'
  BY <1>1, <1>2 DEF FInv, WpanAsDecoded, Consumed, Upto
<1>4. ~Lent'
  <2>1. CASE UNCHANGED calls
    BY <1>2, <2>1 DEF Lent, Running, Top
  <2>2. CASE LoadPart
    <3>1. calls' = <<>>
      BY <1>2, <2>2, OneActivation DEF FInv, IInv, LoadPart, TickReturn
    <3>2. QED
      BY <3>1 DEF Lent, Running
  <2>3. QED
    BY <2>1, <2>2 DEF LoadStart, LoadLengthMSB, LoadLengthLSB
<1>5. DispatchInv'
  BY <1>1, <1>2, <1>4, NotLent DEF FInv, Lent
<1>6. QED
  BY <1>1, <1>3, <1>5 DEF FInv

LEMMA StepWhole ==
  ASSUME FInv, IInv', LoadFrame
  PROVE  FInv'
<1>1. PICK data, len, good : data = Stored(BytesLeft) /\ len = rx.bytes_in_frame /\ good = ChecksumOK(data, len)
  OBVIOUS
<1>2. PICK fs \in Seq(Seq(Byte)) : fs = Frames(Upto(pos))
  BY FramesAre DEF FInv, IInv
<1>3. /\ DecodeInv'
      /\ IF good THEN \E f : OneMore(f) ELSE Frames(Upto(pos))' = fs
  <2>1. PICK p : Pending(p) /\ Following(p)
    BY DEF FInv, DecodeInv
  <2>2. QED
    BY <1>1, <1>2, <2>1, DecodeFrame DEF FInv, DecodeInv
<1>4. /\ Running /\ Top.pc = "load" /\ UNCHANGED handled
      /\ IF good
         THEN SetTop([pc |-> "dispatch", dispatched |-> Top.dispatched + 1,
                      entry |-> 1, length |-> len, type |-> data[0], id |-> data[1]])
         ELSE UNCHANGED calls
      /\ wpan' = IF good /\ data[0] = ModemStatusType THEN ModemStatus(wpan, data[1]) ELSE wpan
  BY <1>1 DEF LoadFrame, Loading
<1>5. handled = Expected(fs) /\ wpan = JoinState(fs)
  BY <1>2, <1>4 DEF FInv, DispatchInv, Lent, WpanAsDecoded, Consumed, Upto
<1>6. CASE ~good
  <2>1. Frames(Upto(pos))' = fs /\ wpan' = wpan /\ UNCHANGED calls
    BY <1>3, <1>4, <1>6
  <2>2. ~Lent /\ ~Lent'
    BY <1>4, <2>1 DEF Lent, Running, Top
  <2>3. DispatchInv'
    BY <1>2, <1>4, <2>1, <2>2, NotLent DEF FInv
  <2>4. WpanAsDecoded'
    BY <1>5, <2>1 DEF WpanAsDecoded, Consumed, Upto
  <2>5. QED
    BY <1>3, <2>3, <2>4 DEF FInv
<1>7. CASE good
  <2>1. PICK f : OneMore(f)
    BY <1>3, <1>7
  <2>2. /\ f \in Seq(Byte) /\ Len(f) = len /\ f = Bytes(len)' /\ f[1] = data[0] /\ f[2] = data[1]
        /\ Frames(Upto(pos))' = Append(fs, f)
    <3>1. rx'.bytes_in_frame = len
      BY <1>1 DEF FInv, IInv, TypeOK, LoadFrame
    <3>2. Bytes(rx.bytes_in_frame)' = Bytes(len)'
      BY <3>1 DEF Bytes
    <3>3. f = Bytes(len)'
      BY <2>1, <3>2 DEF OneMore
    <3>4. QED
      BY <1>1, <1>2, <2>1, <3>3 DEF OneMore
  <2>3. PICK a : a = [pc |-> "dispatch", dispatched |-> Top.dispatched + 1,
                      entry |-> 1, length |-> len, type |-> data[0], id |-> data[1]]
    OBVIOUS
  <2>4. calls' = <<a>>
    BY <1>4, <1>7, <2>3, OneActivation DEF FInv, IInv, SetTop
  <2>5. Running' /\ Top' = a
    BY <2>4, TopIs
  <2>6. Made' = 0 /\ Top'.pc = "dispatch"
    BY <2>3, <2>5 DEF Made
  <2>7. PICK N \in Nat : N = Len(Handlers)
    BY RxAssumption, LenProperties
  <2>8. handled' = Expected(fs) \o CallsUpTo(f)[0]
    <3>1. PICK calling : calling = CallsUpTo(f)
      OBVIOUS
    <3>2. calling[0] = <<>>
      BY <2>2, <2>7, <3>1, CallsIs
    <3>3. Expected(fs) \in Seq(Call)
      BY <1>2, <2>2, ExpectedAppend
    <3>4. Expected(fs) \o <<>> = Expected(fs)
      BY <3>3, ConcatEmptySeq
    <3>5. QED
      BY <1>4, <1>5, <3>1, <3>2, <3>4
  <2>9. InTable(fs, f)'
    <3>1. /\ Top'.length = Len(f) /\ f = Bytes(Len(f))' /\ Top'.type = f[1] /\ Top'.id = f[2]
          /\ Top'.entry = 1
      BY <2>2, <2>3, <2>5
    <3>2. 1 \in 1 .. Len(Handlers) + 1 /\ 0 \in 0 .. Len(Handlers)
      BY <2>7
    <3>3. QED
      BY <1>2, <2>2, <2>6, <2>8, <3>1, <3>2 DEF InTable
  <2>10. DispatchInv'
    BY <2>5, <2>6, <2>9 DEF DispatchInv, Lent
  <2>11. WpanAsDecoded'
    <3>1. wpan' = Joining(wpan, f)
      BY <1>4, <1>7, <2>2 DEF Joining
    <3>2. JoinState(Append(fs, f)) = Joining(JoinState(fs), f)
      BY <1>2, <2>2, JoinStateAppend
    <3>3. QED
      BY <1>5, <2>2, <3>1, <3>2 DEF WpanAsDecoded, Consumed, Upto
  <2>12. QED
    BY <1>3, <2>10, <2>11 DEF FInv
<1>8. QED
  BY <1>6, <1>7

-----------------------------------------------------------------------------
(* The table: each entry adds its call, in order.                            *)

LEMMA AddCall == ASSUME NEW s \in Seq(Call), NEW t \in Seq(Call), NEW x \in Call
                 PROVE  Append(s \o t, x) = s \o Append(t, x)
<1>1. PICK one \in Seq(Call) : one = <<x>>
  BY Single
<1>2. s \o t \in Seq(Call)
  BY ConcatProperties
<1>3. Append(s \o t, x) = (s \o t) \o one /\ Append(t, x) = t \o one
  BY <1>1, <1>2, AppendIsConcat
<1>4. (s \o t) \o one = s \o (t \o one)
  BY <1>1, ConcatAssociative
<1>5. QED
  BY <1>3, <1>4

LEMMA JoinCalls == ASSUME NEW s \in Seq(Call), NEW t \in Seq(Call), NEW u \in Seq(Call)
                   PROVE  s \o (t \o u) = (s \o t) \o u
  BY ConcatAssociative

\* What the loaned frame is, and what is left to show after a step in the
\* table.
LEMMA TableMoves ==
  ASSUME FInv, IInv', NEW before, NEW f, InTable(before, f), NEW a, calls' = <<a>>, a.pc # "load",
         UNCHANGED <<rx, wpan, input, pos>>,
         a.length = Top.length, a.type = Top.type, a.id = Top.id,
         NEW k \in 0 .. Len(Handlers), a.entry = IF a.pc = "handler" THEN k ELSE k + 1,
         a.entry \in 1 .. Len(Handlers) + 1,
         handled' = Expected(before) \o CallsUpTo(f)[k]
  PROVE  FInv'
<1>1. DecodeInv' /\ Frames(Upto(pos))' = Frames(Upto(pos))
  BY DecodeStill DEF FInv
<1>2. WpanAsDecoded'
  BY <1>1 DEF FInv, WpanAsDecoded, Consumed, Upto
<1>3. Running' /\ Top' = a
  BY TopIs
<1>4. Made' = k
  BY <1>3, RxAssumption, LenProperties DEF Made
<1>5. Bytes(Len(f))' = Bytes(Len(f))
  BY DEF Bytes
<1>6. InTable(before, f)'
  BY <1>1, <1>3, <1>4, <1>5 DEF InTable
<1>7. DispatchInv'
  BY <1>3, <1>6 DEF DispatchInv, Lent
<1>8. QED
  BY <1>1, <1>2, <1>7 DEF FInv

LEMMA Lending == ASSUME FInv, Running, Top.pc # "load"
                 PROVE  /\ calls = <<Top>> /\ Top \in Activation
                        /\ \A a : SetTop(a) => calls' = <<a>>
                        /\ \A r : TickReturn(r) => calls' = <<>>
                        /\ \E before, f : InTable(before, f)
<1>1. /\ calls = <<Top>> /\ Top \in Activation /\ SubSeq(calls, 1, Len(calls) - 1) = <<>>
  BY OneActivation DEF FInv, IInv
<1>2. ASSUME NEW a, SetTop(a) PROVE calls' = <<a>>
  BY <1>2, OneActivation DEF FInv, IInv, SetTop
<1>3. ASSUME NEW r, TickReturn(r) PROVE calls' = <<>>
  BY <1>1, <1>3 DEF TickReturn
<1>4. QED
  BY <1>1, <1>2, <1>3 DEF FInv, DispatchInv, Lent

\* The activation after a handler, field by field.
LEMMA Returned ==
  ASSUME NEW top, top \in Activation, NEW e, e \in Nat
  PROVE  [top EXCEPT !.pc = "dispatch", !.entry = e]
           = [pc |-> "dispatch", dispatched |-> top.dispatched, entry |-> e,
              length |-> top.length, type |-> top.type, id |-> top.id]
<1>1. PICK a : a = [pc |-> "dispatch", dispatched |-> top.dispatched, entry |-> e,
                    length |-> top.length, type |-> top.type, id |-> top.id]
  OBVIOUS
<1>2. PICK b : b = [top EXCEPT !.pc = "dispatch", !.entry = e]
  OBVIOUS
<1>3. a = b
  BY <1>1, <1>2 DEF Activation
<1>4. QED
  BY <1>1, <1>2, <1>3

LEMMA StepTable ==
  ASSUME FInv, IInv', CallHandler \/ HandlerReturn \/ SkipEntry
  PROVE  FInv'
<1>1. Running /\ Top.pc \in {"dispatch", "handler"} /\ UNCHANGED <<rx, wpan, input, pos>>
  BY DEF CallHandler, HandlerReturn, SkipEntry, Dispatching
<1>2. Top \in Activation /\ \A a : SetTop(a) => calls' = <<a>>
  BY <1>1, Lending
<1>3. PICK before, f : InTable(before, f)
  BY <1>1, Lending
<1>4. PICK N, c : N \in Nat /\ N = Len(Handlers) /\ c = CallsUpTo(f)
  BY RxAssumption, LenProperties
<1>5. /\ before \in Seq(Seq(Byte)) /\ f \in Seq(Byte) /\ Top.entry \in 1 .. N + 1 /\ Made \in 0 .. N
      /\ Top.length = Len(f) /\ f = Bytes(Len(f)) /\ Top.type = f[1] /\ Top.id = f[2]
      /\ handled = Expected(before) \o c[Made]
  BY <1>3, <1>4 DEF InTable
<1>6. /\ c \in [0 .. N -> Seq(Call)]
      /\ \A n \in 1 .. N : c[n] = IF Matches(Handlers[n], f[1], f[2])
                                  THEN Append(c[n - 1], [entry |-> n, frame |-> f]) ELSE c[n - 1]
  BY <1>4, <1>5, CallsIs
<1>7. CASE CallHandler
  <2>1. PICK k, a : k = Top.entry /\ a = [Top EXCEPT !.pc = "handler"]
    OBVIOUS
  <2>2. k \in 1 .. N /\ Made = k - 1 /\ Matches(Handlers[k], f[1], f[2])
    <3>1. Top.pc = "dispatch" /\ Top.entry <= N /\ Matches(Handlers[k], Top.type, Top.id)
      BY <1>4, <1>7, <2>1 DEF CallHandler, Dispatching
    <3>2. Made = k - 1
      BY <2>1, <3>1 DEF Made
    <3>3. k \in 1 .. N
      BY <1>4, <1>5, <2>1, <3>1
    <3>4. QED
      BY <1>5, <3>1, <3>2, <3>3
  <2>3. /\ calls' = <<a>> /\ a.pc = "handler" /\ a.entry = k
        /\ a.length = Top.length /\ a.type = Top.type /\ a.id = Top.id
    BY <1>2, <1>7, <2>1 DEF CallHandler, Activation
  <2>4. PICK x : x = [entry |-> k, frame |-> f]
    OBVIOUS
  <2>5. x \in Call
    BY <1>4, <1>5, <2>2, <2>4 DEF Call
  <2>6. handled' = Append(handled, x)
    BY <1>5, <1>7, <2>1, <2>4 DEF CallHandler
  <2>7. Expected(before) \in Seq(Call) /\ c[k - 1] \in Seq(Call) /\ c[k] = Append(c[k - 1], x)
    BY <1>5, <1>6, <2>2, <2>4, ExpectedAppend
  <2>8. handled' = Expected(before) \o c[k]
    <3>1. PICK s \in Seq(Call), t \in Seq(Call) : s = Expected(before) /\ t = c[k - 1]
      BY <2>7
    <3>2. handled = s \o t
      BY <1>5, <2>2, <3>1
    <3>3. Append(s \o t, x) = s \o Append(t, x)
      BY <2>5, <3>1, AddCall
    <3>4. QED
      BY <2>6, <2>7, <3>1, <3>2, <3>3
  <2>9. k \in 0 .. Len(Handlers) /\ k \in 1 .. Len(Handlers) + 1
    BY <1>4, <2>2
  <2>10. QED
    BY <1>1, <1>3, <1>4, <2>3, <2>8, <2>9, TableMoves
<1>8. CASE HandlerReturn
  <2>1. PICK k, a : k = Top.entry /\ a = [pc |-> "dispatch", dispatched |-> Top.dispatched, entry |-> k + 1,
                                          length |-> Top.length, type |-> Top.type, id |-> Top.id]
    OBVIOUS
  <2>2. k \in 1 .. N /\ Made = k
    BY <1>5, <1>8, <2>1 DEF HandlerReturn, Made
  <2>3. calls' = <<a>>
    <3>1. PICK b : b = [Top EXCEPT !.pc = "dispatch", !.entry = k + 1]
      OBVIOUS
    <3>2. b = a
      <4>1. PICK e \in Nat : e = k + 1
        BY <2>2
      <4>2. b = [pc |-> "dispatch", dispatched |-> Top.dispatched, entry |-> e,
                 length |-> Top.length, type |-> Top.type, id |-> Top.id]
        BY <1>2, <3>1, <4>1, Returned
      <4>3. QED
        BY <2>1, <4>1, <4>2
    <3>3. SetTop(b)
      BY <1>8, <2>1, <3>1 DEF HandlerReturn
    <3>4. QED
      BY <1>2, <3>2, <3>3
  <2>4. k \in 0 .. Len(Handlers) /\ k + 1 \in 1 .. Len(Handlers) + 1
    BY <1>4, <2>2
  <2>5. handled' = Expected(before) \o CallsUpTo(f)[k]
    BY <1>4, <1>5, <1>8, <2>2 DEF HandlerReturn
  <2>6. /\ a.pc # "load" /\ a.length = Top.length /\ a.type = Top.type /\ a.id = Top.id
        /\ a.entry = IF a.pc = "handler" THEN k ELSE k + 1
        /\ a.entry \in 1 .. Len(Handlers) + 1
    BY <2>1, <2>4
  <2>7. QED
    BY <1>1, <1>3, <2>3, <2>4, <2>5, <2>6, TableMoves
<1>9. CASE SkipEntry
  <2>1. PICK k, a : k = Top.entry /\ a = [pc |-> "dispatch", dispatched |-> Top.dispatched, entry |-> k + 1,
                                          length |-> Top.length, type |-> Top.type, id |-> Top.id]
    OBVIOUS
  <2>2. k \in 1 .. N /\ Made = k - 1 /\ ~Matches(Handlers[k], f[1], f[2])
    <3>1. Top.pc = "dispatch" /\ Top.entry <= N /\ ~Matches(Handlers[k], Top.type, Top.id)
      BY <1>4, <1>9, <2>1 DEF SkipEntry, Dispatching
    <3>2. Made = k - 1
      BY <2>1, <3>1 DEF Made
    <3>3. k \in 1 .. N
      BY <1>4, <1>5, <2>1, <3>1
    <3>4. QED
      BY <1>5, <3>1, <3>2, <3>3
  <2>3. calls' = <<a>>
    BY <1>2, <1>9, <2>1 DEF SkipEntry, Dispatching, Activation
  <2>4. k \in 0 .. Len(Handlers) /\ k + 1 \in 1 .. Len(Handlers) + 1
    BY <1>4, <2>2
  <2>5. c[k] = c[k - 1]
    BY <1>6, <2>2
  <2>6. handled' = Expected(before) \o CallsUpTo(f)[k]
    BY <1>4, <1>5, <1>9, <2>2, <2>5 DEF SkipEntry
  <2>7. /\ a.pc # "load" /\ a.length = Top.length /\ a.type = Top.type /\ a.id = Top.id
        /\ a.entry = IF a.pc = "handler" THEN k ELSE k + 1
        /\ a.entry \in 1 .. Len(Handlers) + 1
    BY <2>1, <2>4
  <2>8. QED
    BY <1>1, <1>3, <2>3, <2>4, <2>6, <2>7, TableMoves
<1>10. QED
  BY <1>7, <1>8, <1>9

\* The end of the table: all that the frame had to cause has happened.
LEMMA StepDone ==
  ASSUME FInv, IInv', DispatchDone
  PROVE  FInv'
<1>1. Running /\ Top.pc = "dispatch" /\ Top.entry > Len(Handlers) /\ UNCHANGED <<rx, wpan, input, pos, handled>>
  BY DEF DispatchDone, Dispatching
<1>2. /\ Top \in Activation /\ \A a : SetTop(a) => calls' = <<a>>
      /\ \A r : TickReturn(r) => calls' = <<>>
  BY <1>1, Lending
<1>3. PICK before, f : InTable(before, f)
  BY <1>1, Lending
<1>4. PICK N \in Nat : N = Len(Handlers)
  BY RxAssumption, LenProperties
<1>5. DecodeInv' /\ Frames(Upto(pos))' = Frames(Upto(pos))
  BY <1>1, DecodeStill DEF FInv
<1>6. WpanAsDecoded'
  BY <1>1, <1>5 DEF FInv, WpanAsDecoded, Consumed, Upto
<1>7. handled' = Expected(Frames(Upto(pos)))'
  <2>1. /\ before \in Seq(Seq(Byte)) /\ f \in Seq(Byte) /\ Frames(Upto(pos)) = Append(before, f)
        /\ Top.entry \in 1 .. N + 1 /\ handled = Expected(before) \o CallsUpTo(f)[Made]
    BY <1>3, <1>4 DEF InTable
  <2>2. Made = N
    BY <1>1, <1>4, <2>1 DEF Made
  <2>3. handled = Handling(Expected(before), f)
    BY <1>4, <2>1, <2>2 DEF Handling
  <2>4. handled = Expected(Frames(Upto(pos)))
    BY <2>1, <2>3, ExpectedAppend
  <2>5. QED
    BY <1>1, <1>5, <2>4
<1>8. ~Lent'
  <2>1. CASE calls' = <<>>
    BY <2>1 DEF Lent, Running
  <2>2. CASE SetTop([Top EXCEPT !.pc = "load"])
    <3>1. PICK a : a = [Top EXCEPT !.pc = "load"]
      OBVIOUS
    <3>2. calls' = <<a>> /\ a.pc = "load"
      BY <1>2, <2>2, <3>1 DEF Activation
    <3>3. Top' = a
      BY <3>2, TopIs
    <3>4. QED
      BY <3>2, <3>3 DEF Lent
  <2>3. QED
    BY <1>2, <2>1, <2>2 DEF DispatchDone
<1>9. DispatchInv'
  BY <1>7, <1>8 DEF DispatchInv
<1>10. QED
  BY <1>5, <1>6, <1>9 DEF FInv

LEMMA NextFInv == FInv /\ [Next]_vars => FInv'
<1> SUFFICES ASSUME FInv, [Next]_vars PROVE FInv'
  OBVIOUS
<1>1. IInv'
  BY NextIInv DEF FInv
<1>2. QED
  BY <1>1, StepStill, StepRead, StepWhole, StepTable, StepDone DEF Next, ReadStep, DispatchStep

LEMMA FInvariance == Spec => []FInv
BY InitFInv, NextFInv, PTL DEF Spec

-----------------------------------------------------------------------------
LEMMA HandledHolds == ASSUME FInv PROVE HandledAsDecoded
<1>1. PICK fs \in Seq(Seq(Byte)) : fs = Frames(Upto(pos)) /\ Expected(fs) \in Seq(Call)
  <2>1. PICK fs \in Seq(Seq(Byte)) : fs = Frames(Upto(pos))
    BY FramesAre DEF FInv, IInv
  <2>2. PICK f \in Seq(Byte) : f = <<>>
    BY EmptySeq
  <2>3. QED
    BY <2>1, <2>2, ExpectedAppend
<1>2. CASE ~Lent
  <2>1. handled = Expected(fs)
    BY <1>1, <1>2 DEF FInv, DispatchInv
  <2>2. IsPrefix(handled, Expected(fs))
    <3>1. PICK none \in Seq(Call) : none = <<>>
      BY EmptySeq
    <3>2. Expected(fs) = Expected(fs) \o none
      BY <1>1, <3>1, ConcatEmptySeq
    <3>3. QED
      BY <1>1, <2>1, <3>2, PrefixOf
  <2>3. QED
    BY <1>1, <2>1, <2>2 DEF HandledAsDecoded, Consumed, Upto
<1>3. CASE Lent
  <2>1. PICK before, f : InTable(before, f)
    BY <1>3 DEF FInv, DispatchInv
  <2>2. PICK N, c : N \in Nat /\ N = Len(Handlers) /\ c = CallsUpTo(f)
    BY RxAssumption, LenProperties
  <2>3. PICK k \in 0 .. N : k = Made
    BY <2>1, <2>2 DEF InTable
  <2>4. /\ before \in Seq(Seq(Byte)) /\ f \in Seq(Byte) /\ fs = Append(before, f)
        /\ handled = Expected(before) \o c[k]
    BY <1>1, <2>1, <2>2, <2>3 DEF InTable
  <2>5. PICK rest \in Seq(Call) : c[N] = c[k] \o rest
    <3>1. f \in Seq(Byte) /\ k \in 0 .. Len(Handlers)
      BY <2>2, <2>3, <2>4
    <3>2. QED
      BY <2>2, <3>1, CallsExtend
  <2>6. Expected(before) \in Seq(Call) /\ c[k] \in Seq(Call)
    <3>1. c \in [0 .. N -> Seq(Call)]
      BY <2>2, <2>4, CallsIs
    <3>2. QED
      BY <2>3, <2>4, <3>1, ExpectedAppend
  <2>7. Expected(fs) = Expected(before) \o c[N]
    BY <2>2, <2>4, ExpectedAppend DEF Handling
  <2>8. Expected(fs) = handled \o rest
    <3>1. PICK s \in Seq(Call), t \in Seq(Call) : s = Expected(before) /\ t = c[k]
      BY <2>6
    <3>2. Expected(fs) = s \o (t \o rest)
      BY <2>5, <2>7, <3>1
    <3>3. Expected(fs) = (s \o t) \o rest
      BY <2>5, <3>1, <3>2, JoinCalls
    <3>4. QED
      BY <2>4, <3>1, <3>3
  <2>9. handled \in Seq(Call)
    BY <2>4, <2>6, ConcatProperties
  <2>10. IsPrefix(handled, Expected(fs))
    BY <2>8, <2>9, PrefixOf
  <2>11. QED
    BY <1>1, <1>3, <2>10 DEF HandledAsDecoded, Consumed, Upto, Lent
<1>4. QED
  BY <1>2, <1>3

\* Which handlers ran, in which order and with which frames, is what the
\* bytes read so far spell, whatever the table, the stream, the chunks, the
\* errors and the cap (_xbee_frame_load, _xbee_frame_dispatch).
THEOREM HandledIsDecoded == Spec => []HandledAsDecoded
<1>1. FInv => HandledAsDecoded
  BY HandledHolds
<1>2. QED
  BY <1>1, FInvariance, PTL

\* The join flags are what the intact modem status frames make them, for
\* every stream (_xbee_frame_dispatch, xbee_frame_modem_status).
THEOREM WpanIsDecoded == Spec => []WpanAsDecoded
<1>1. FInv => WpanAsDecoded
  BY DEF FInv
<1>2. QED
  BY <1>1, FInvariance, PTL

-----------------------------------------------------------------------------
(* The receiver back in step after a silence.                               *)

\* After the silence the calls for the frame are the last ones made.
LEMMA LastHandled ==
  ASSUME FInv, StartByte # 0, ~Running, pos = Len(input),
         NEW a \in Nat, NEW frame \in Seq(Byte), Quietened(input, a, frame)
  PROVE  \E before \in Seq(Call) : handled = before \o CallsUpTo(frame)[Len(Handlers)]
<1>1. TypeOK
  BY DEF FInv, IInv
<1>2. Upto(pos) = input
  <2>1. PICK m \in Nat : m = Len(input) /\ m \in 0 .. Len(input)
    BY <1>1, PosRange
  <2>2. /\ Upto(m) \in Seq(Byte) /\ Len(Upto(m)) = m
        /\ \A i \in 1 .. m : Upto(m)[i] = input[i]
    BY <1>1, <2>1, UptoIs
  <2>3. input \in Seq(Byte)
    BY <1>1 DEF TypeOK
  <2>4. Upto(m) = input
    BY <2>1, <2>2, <2>3, SameElements
  <2>5. QED
    BY <2>1, <2>4
<1>3. handled = Expected(Frames(input))
  <2>1. HandledAsDecoded
    BY HandledHolds
  <2>2. QED
    BY <1>2, <2>1 DEF HandledAsDecoded, Consumed, Upto
<1>4. PICK front \in Seq(Seq(Byte)) : Frames(input) = front \o <<frame>>
  <2>1. input \in Seq(Byte)
    BY <1>1 DEF TypeOK
  <2>2. QED
    BY <2>1, Resynchronised
<1>5. Frames(input) = Append(front, frame)
  BY <1>4, AppendIsConcat
<1>6. Expected(front) \in Seq(Call) /\ handled = Handling(Expected(front), frame)
  BY <1>3, <1>5, ExpectedAppend
<1>7. QED
  BY <1>6 DEF Handling

\* The end of a sequence, counted from the front.
LEMMA SuffixIs ==
  ASSUME NEW s \in Seq(Byte), NEW t \in Seq(Byte), IsSuffix(s, t)
  PROVE  /\ Len(s) <= Len(t)
         /\ \A i \in 1 .. Len(s) : t[Len(t) - Len(s) + i] = s[i]
<1>1. PICK n \in Nat, m \in Nat : n = Len(s) /\ m = Len(t)
  BY LenProperties
<1>2. PICK u, v : u = [i \in 1 .. n |-> s[(n - i) + 1]] /\ v = [i \in 1 .. m |-> t[(m - i) + 1]]
  OBVIOUS
<1>3. u \in Seq(Byte) /\ Len(u) = n
  <2>1. \A i \in 1 .. n : s[(n - i) + 1] \in Byte
    BY <1>1, ElementOfSeq
  <2>2. u \in [1 .. n -> Byte]
    BY <1>2, <2>1
  <2>3. QED
    BY <2>2
<1>4. v \in Seq(Byte) /\ Len(v) = m
  <2>1. \A i \in 1 .. m : t[(m - i) + 1] \in Byte
    BY <1>1, ElementOfSeq
  <2>2. v \in [1 .. m -> Byte]
    BY <1>2, <2>1
  <2>3. QED
    BY <2>2
<1>5. n <= m /\ SubSeq(u, 1, n) = SubSeq(v, 1, n)
  <2>1. IsPrefix(u, v)
    BY <1>1, <1>2 DEF IsSuffix, Reverse
  <2>2. QED
    BY <1>3, <1>4, <2>1 DEF IsPrefix
<1>6. ASSUME NEW i \in 1 .. n PROVE u[i] = v[i]
  <2>1. 0 + n <= n /\ 0 + n <= m /\ 0 + 1 = 1 /\ 0 + n = n /\ 0 + i = i
    BY <1>5
  <2>2. \A j \in 1 .. n : SubSeq(u, 1, n)[j] = u[0 + j]
    BY <1>3, <2>1, Piece
  <2>3. \A j \in 1 .. n : SubSeq(v, 1, n)[j] = v[0 + j]
    BY <1>4, <2>1, Piece
  <2>4. QED
    BY <1>5, <2>1, <2>2, <2>3
<1>7. ASSUME NEW i \in 1 .. n PROVE t[m - n + i] = s[i]
  <2>1. PICK k \in 1 .. n : k = n - i + 1
    OBVIOUS
  <2>2. k \in 1 .. m /\ (n - k) + 1 = i /\ (m - k) + 1 = m - n + i
    BY <1>5, <2>1
  <2>3. u[k] = s[i] /\ v[k] = t[m - n + i]
    BY <1>2, <2>2
  <2>4. QED
    BY <1>6, <2>3
<1>8. QED
  BY <1>1, <1>5, <1>7

\* The bytes of a concatenation, by the lengths n and m of its parts.
Parts(u, s, t, n, m) == u = s \o t /\ s \in Seq(Byte) /\ t \in Seq(Byte) /\ n = Len(s) /\ m = Len(t)

Spliced(u, s, t, n, m) == /\ u \in Seq(Byte) /\ Len(u) = n + m
                          /\ \A j \in 1 .. n : u[j] = s[j]
                          /\ \A j \in 1 .. m : u[n + j] = t[j]

LEMMA JoinBytes == ASSUME NEW s, NEW t, NEW u, NEW n, NEW m, Parts(u, s, t, n, m)
                   PROVE  Spliced(u, s, t, n, m)
<1>1. u = s \o t /\ s \in Seq(Byte) /\ t \in Seq(Byte) /\ n = Len(s) /\ m = Len(t)
  BY DEF Parts
<1>2. /\ u \in Seq(Byte) /\ Len(u) = Len(s) + Len(t)
      /\ \A j \in 1 .. Len(s) : u[j] = s[j]
      /\ \A j \in 1 .. Len(t) : u[Len(s) + j] = t[j]
  BY <1>1, Concatenated
<1>3. QED
  BY <1>1, <1>2 DEF Spliced

LEMMA NothingSummed ==
  ASSUME NEW none \in Seq(Byte), Len(none) = 0, NEW initial \in Int
  PROVE  Checksum(none, initial) = initial
<1>1. PICK g \in [0 .. Len(none) -> Int] :
        /\ g[0] = initial
        /\ \A n \in 1 .. Len(none) : g[n] = (g[n - 1] - none[n]) % ByteMod
        /\ Checksum(none, initial) = g[Len(none)]
  BY ChecksumIs
<1>2. QED
  BY <1>1

LEMMA GoodIs ==
  ASSUME ByteMod > 2, NEW frame, frame = <<1, 2>>
  PROVE  /\ Good \in Seq(Byte) /\ Len(Good) = 6
         /\ Good[1] = StartByte /\ Good[2] = 0 /\ Good[3] = 2 /\ Good[4] = 1 /\ Good[5] = 2
         /\ Good[6] = Checksum(frame, AllOnes)
         /\ frame \in Seq(Byte) /\ Len(frame) = 2 /\ Intact(frame, Checksum(frame, AllOnes))
<1>1. 0 \in Byte /\ 1 \in Byte /\ 2 \in Byte /\ StartByte \in Byte /\ AllOnes \in Byte /\ AllOnes \in Int
  BY ByteAssumption DEF Byte, AllOnes
<1>2. frame \in Seq(Byte) /\ Len(frame) = 2 /\ frame[1] = 1 /\ frame[2] = 2
  BY <1>1
<1>3. PICK c \in Byte : c = Checksum(frame, AllOnes)
  BY <1>1, <1>2, ChecksumByte
<1>4. LengthBytes(2) = <<0, 2>>
  <2>1. 2 \div ByteMod = 0 /\ 2 % ByteMod = 2 /\ 0 % ByteMod = 0
    BY ByteAssumption
  <2>2. QED
    BY <2>1 DEF LengthBytes
<1>5. Good = <<StartByte>> \o <<0, 2>> \o <<1, 2>> \o <<c>>
  BY <1>2, <1>3, <1>4 DEF Good, Frame
<1>6. PICK s \in Seq(Byte), l \in Seq(Byte), e \in Seq(Byte) :
         s = <<StartByte>> /\ l = <<0, 2>> /\ e = <<c>>
  <2>1. <<StartByte>> \in Seq(Byte) /\ <<0, 2>> \in Seq(Byte) /\ <<c>> \in Seq(Byte)
    BY <1>1, <1>3
  <2>2. QED
    BY <2>1
<1>7. /\ Good \in Seq(Byte) /\ Len(Good) = 6
      /\ Good[1] = StartByte /\ Good[2] = 0 /\ Good[3] = 2 /\ Good[4] = 1 /\ Good[5] = 2 /\ Good[6] = c
  <2>1. Len(s) = 1 /\ s[1] = StartByte /\ Len(l) = 2 /\ l[1] = 0 /\ l[2] = 2 /\ Len(e) = 1 /\ e[1] = c
    BY <1>6
  <2>2. PICK u : u = s \o l
    OBVIOUS
  <2>3. /\ u \in Seq(Byte) /\ Len(u) = 1 + 2 /\ \A j \in 1 .. 1 : u[j] = s[j]
        /\ \A j \in 1 .. 2 : u[1 + j] = l[j]
    <3>1. Parts(u, s, l, 1, 2)
      BY <1>6, <2>1, <2>2 DEF Parts
    <3>2. Spliced(u, s, l, 1, 2)
      BY <3>1, JoinBytes
    <3>3. QED
      BY <3>2 DEF Spliced
  <2>4. Len(u) = 3 /\ u[1] = StartByte /\ u[2] = 0 /\ u[3] = 2
    BY <2>1, <2>3
  <2>5. PICK v : v = u \o frame
    OBVIOUS
  <2>6. /\ v \in Seq(Byte) /\ Len(v) = 3 + 2 /\ \A j \in 1 .. 3 : v[j] = u[j]
        /\ \A j \in 1 .. 2 : v[3 + j] = frame[j]
    <3>1. Parts(v, u, frame, 3, 2)
      BY <1>2, <2>3, <2>4, <2>5 DEF Parts
    <3>2. Spliced(v, u, frame, 3, 2)
      BY <3>1, JoinBytes
    <3>3. QED
      BY <3>2 DEF Spliced
  <2>7. Len(v) = 5 /\ v[1] = StartByte /\ v[2] = 0 /\ v[3] = 2 /\ v[4] = 1 /\ v[5] = 2
    BY <1>2, <2>4, <2>6
  <2>8. PICK w : w = v \o e
    OBVIOUS
  <2>9. /\ w \in Seq(Byte) /\ Len(w) = 5 + 1 /\ \A j \in 1 .. 5 : w[j] = v[j]
        /\ \A j \in 1 .. 1 : w[5 + j] = e[j]
    <3>1. Parts(w, v, e, 5, 1)
      BY <1>6, <2>1, <2>6, <2>7, <2>8 DEF Parts
    <3>2. Spliced(w, v, e, 5, 1)
      BY <3>1, JoinBytes
    <3>3. QED
      BY <3>2 DEF Spliced
  <2>10. /\ w \in Seq(Byte) /\ Len(w) = 6
         /\ w[1] = StartByte /\ w[2] = 0 /\ w[3] = 2 /\ w[4] = 1 /\ w[5] = 2 /\ w[6] = c
    BY <2>1, <2>7, <2>9
  <2>11. w = Good
    BY <1>5, <1>6, <2>2, <2>5, <2>8
  <2>12. QED
    BY <2>10, <2>11
<1>8. Intact(frame, c)
  <2>1. PICK none \in Seq(Byte) : none = <<>> /\ Len(none) = 0
    BY EmptySeq
  <2>2. frame = none \o frame
    BY <1>2, <2>1, ConcatEmptySeq
  <2>3. Checksum(none, AllOnes) = AllOnes
    BY <1>1, <2>1, NothingSummed
  <2>4. QED
    BY <1>2, <1>3, <2>2, <2>3, AddsUp
<1>9. QED
  BY <1>2, <1>3, <1>7, <1>8

LEMMA ClosingIs ==
  ASSUME ByteMod > 2, NEW n \in Nat, n = MaxFrameLen + 2
  PROVE  /\ Closing \in Seq(Byte) /\ Len(Closing) = n + 6
         /\ \A j \in 1 .. n : Closing[j] = 0
         /\ \A j \in 1 .. 6 : Closing[n + j] = Good[j]
<1>1. Quiet \in Seq(Byte) /\ Len(Quiet) = n /\ \A j \in 1 .. n : Quiet[j] = 0
  BY ByteAssumption DEF Quiet, Byte
<1>2. Good \in Seq(Byte) /\ Len(Good) = 6
  BY GoodIs
<1>3. PICK u : u = Closing
  OBVIOUS
<1>4. u = Quiet \o Good
  BY <1>3 DEF Closing
<1>5. /\ u \in Seq(Byte) /\ Len(u) = n + 6
      /\ \A j \in 1 .. n : u[j] = Quiet[j]
      /\ \A j \in 1 .. 6 : u[n + j] = Good[j]
  <2>1. Parts(u, Quiet, Good, n, 6)
    BY <1>1, <1>2, <1>4 DEF Parts
  <2>2. Spliced(u, Quiet, Good, n, 6)
    BY <2>1, JoinBytes
  <2>3. QED
    BY <2>2 DEF Spliced
<1>6. QED
  BY <1>1, <1>2, <1>3, <1>5

LEMMA ClosingQuietens ==
  ASSUME TypeOK, ByteMod > 2, StartByte # 0, IsSuffix(Closing, input),
         NEW frame, frame = <<1, 2>>
  PROVE  \E a \in Nat : Quietened(input, a, frame)
<1>1. PICK n \in Nat : n = MaxFrameLen + 2
  BY ByteAssumption
<1>2. input \in Seq(Byte) /\ Closing \in Seq(Byte) /\ Len(Closing) = n + 6
  BY <1>1, ClosingIs DEF TypeOK
<1>3. PICK L \in Nat : L = Len(input)
  BY <1>2, LenProperties
<1>4. n + 6 <= L /\ \A i \in 1 .. n + 6 : input[L - (n + 6) + i] = Closing[i]
  <2>1. PICK w : w = Closing
    OBVIOUS
  <2>2. w \in Seq(Byte) /\ IsSuffix(w, input) /\ Len(w) = n + 6
    BY <1>2, <2>1
  <2>3. /\ Len(w) <= Len(input)
        /\ \A i \in 1 .. Len(w) : input[Len(input) - Len(w) + i] = w[i]
    BY <1>2, <2>2, SuffixIs
  <2>4. QED
    BY <1>3, <2>1, <2>2, <2>3
<1>5. PICK a \in Nat : a = L - (n + 6)
  BY <1>4
<1>6. \A i \in 1 .. n + 6 : input[a + i] = Closing[i]
  BY <1>4, <1>5
<1>7. ASSUME NEW j \in a + 1 .. a + n PROVE input[j] = 0
  <2>1. PICK i \in 1 .. n : j = a + i
    <3>1. j - a \in 1 .. n /\ j = a + (j - a)
      OBVIOUS
    <3>2. QED
      BY <3>1
  <2>2. Closing[i] = 0 /\ i \in 1 .. n + 6
    BY <1>1, ClosingIs
  <2>3. QED
    BY <1>6, <2>1, <2>2
<1>8. ASSUME NEW j \in 1 .. 6 PROVE input[a + n + j] = Good[j]
  <2>1. n + j \in 1 .. n + 6 /\ a + (n + j) = a + n + j
    OBVIOUS
  <2>2. Closing[n + j] = Good[j]
    BY <1>1, ClosingIs
  <2>3. QED
    BY <1>6, <2>1, <2>2
<1>9. /\ input[a + n + 1] = StartByte /\ input[a + n + 2] = 0 /\ input[a + n + 3] = 2
      /\ input[a + n + 4] = 1 /\ input[a + n + 5] = 2 /\ input[a + n + 6] = Checksum(frame, AllOnes)
  BY <1>8, GoodIs
<1>10. frame \in Seq(Byte) /\ Len(frame) = 2 /\ Intact(frame, Checksum(frame, AllOnes))
  BY GoodIs
<1>11. Length(input, a + n + 3) = 2
  <2>1. a + n + 3 - 1 = a + n + 2
    OBVIOUS
  <2>2. 0 * ByteMod + 2 = 2
    BY ByteAssumption
  <2>3. QED
    BY <1>9, <2>1, <2>2 DEF Length
<1>12. /\ a + MaxFrameLen + 2 = a + n /\ a + MaxFrameLen + 3 = a + n + 1
       /\ a + MaxFrameLen + 4 = a + n + 2 /\ a + MaxFrameLen + 5 = a + n + 3
       /\ 2 \in 2 .. MaxFrameLen /\ L = a + n + 2 + 4 /\ L = a + n + 6
  BY <1>1, <1>5, ByteAssumption, RxAssumption
<1>13. \A i \in 1 .. Len(frame) : input[a + n + 3 + i] = frame[i]
  <2> SUFFICES ASSUME NEW i \in 1 .. 2 PROVE input[a + n + 3 + i] = frame[i]
    BY <1>10
  <2>1. CASE i = 1
    BY <1>9, <2>1
  <2>2. CASE i = 2
    BY <1>9, <2>2
  <2>3. QED
    BY <2>1, <2>2
<1>14. QED
  <2>1. Len(frame) \in 2 .. MaxFrameLen /\ Len(input) = a + MaxFrameLen + 2 + Len(frame) + 4
    <3>1. a + n + 2 + 4 = a + MaxFrameLen + 2 + 2 + 4
      BY <1>1, ByteAssumption
    <3>2. QED
      BY <1>3, <1>10, <1>12, <3>1
  <2>2. \A j \in a + 1 .. a + MaxFrameLen + 2 : input[j] = 0
    BY <1>7, <1>12
  <2>3. Intact(frame, input[Len(input)])
    BY <1>3, <1>9, <1>10, <1>12
  <2>4. Quietened(input, a, frame)
    BY <1>9, <1>11, <1>12, <1>13, <2>1, <2>2, <2>3 DEF Quietened
  <2>5. QED
    BY <2>4

LEMMA LastCall == ASSUME NEW s \in Seq(Call), NEW x \in Call, NEW t, t = Append(s, x)
                  PROVE  Len(t) = Len(s) + 1 /\ t[Len(s) + 1] = x
  BY AppendProperties

\* The last call for a frame is of the last entry that takes it: here the
\* last but one of the table.
LEMMA LastEntry ==
  ASSUME NEW f \in Seq(Byte), NEW before \in Seq(Call), NEW k \in Nat, k >= 1, k + 1 = Len(Handlers),
         Matches(Handlers[k], f[1], f[2]), ~Matches(Handlers[k + 1], f[1], f[2]),
         NEW all, all = before \o CallsUpTo(f)[Len(Handlers)]
  PROVE  all # <<>> /\ Last(all) = [entry |-> k, frame |-> f]
<1>1. PICK N, c : N = Len(Handlers) /\ c = CallsUpTo(f)
  OBVIOUS
<1>2. /\ c \in [0 .. N -> Seq(Call)]
      /\ \A n \in 1 .. N : c[n] = IF Matches(Handlers[n], f[1], f[2])
                                  THEN Append(c[n - 1], [entry |-> n, frame |-> f])
                                  ELSE c[n - 1]
  BY <1>1, CallsIs
<1>3. N = k + 1 /\ all = before \o c[N]
  BY <1>1
<1>4. PICK x \in Call : x = [entry |-> k, frame |-> f]
  <2>1. k \in 1 .. Len(Handlers)
    BY <1>1, <1>3
  <2>2. [entry |-> k, frame |-> f] \in Call
    BY <2>1 DEF Call
  <2>3. QED
    BY <2>2
<1>5. c[k - 1] \in Seq(Call) /\ c[k] = Append(c[k - 1], x) /\ c[k + 1] = c[k]
  <2>1. k - 1 \in 0 .. N /\ k \in 1 .. N /\ k + 1 \in 1 .. N /\ k + 1 - 1 = k
    BY <1>3
  <2>2. c[k - 1] \in Seq(Call)
    BY <1>2, <2>1
  <2>3. c[k] = Append(c[k - 1], [entry |-> k, frame |-> f])
    BY <1>2, <2>1
  <2>4. c[k + 1] = c[k]
    <3>1. PICK m \in 1 .. N : m = k + 1 /\ m - 1 = k
      BY <2>1
    <3>2. ~Matches(Handlers[m], f[1], f[2])
      BY <3>1
    <3>3. c[m] = c[m - 1]
      BY <1>2, <3>2
    <3>4. QED
      BY <3>1, <3>3
  <2>5. QED
    BY <1>4, <2>2, <2>3, <2>4
<1>6. PICK s \in Seq(Call) : s = before \o c[k - 1]
  BY <1>5, ConcatProperties
<1>7. all = Append(s, x)
  <2>1. all = before \o Append(c[k - 1], x)
    BY <1>3, <1>5
  <2>2. QED
    BY <1>4, <1>5, <1>6, <2>1, AddCall
<1>8. PICK n \in Nat : n = Len(s)
  BY <1>6, LenProperties
<1>9. Len(all) = n + 1 /\ all[n + 1] = x
  BY <1>6, <1>7, <1>8, LastCall
<1>10. all # <<>>
  <2>1. Len(<<>>) = 0
    OBVIOUS
  <2>2. QED
    BY <1>8, <1>9, <2>1
<1>11. QED
  BY <1>4, <1>9, <1>10 DEF Last

\* Behind MaxFrameLen + 2 bytes of silence a frame is delivered to the
\* handlers of its type and id, after all the others.
DeliveredAfterQuiet ==
  ~Running /\ pos = Len(input)
    => \A a \in Nat, frame \in Seq(Byte) :
         Quietened(input, a, frame)
           => \E before \in Seq(Call) : handled = before \o CallsUpTo(frame)[Len(Handlers)]

\* Every intact frame that ends a silence is handled, and last of all,
\* whatever garbage came before the silence and whatever the table
\* (_xbee_frame_load, _xbee_frame_dispatch).
THEOREM QuietResyncs == ASSUME StartByte # 0 PROVE Spec => []DeliveredAfterQuiet
<1>1. FInv => DeliveredAfterQuiet
  BY LastHandled DEF DeliveredAfterQuiet
<1>2. QED
  BY <1>1, FInvariance, PTL

\* The same of the good frame and the handler table of the run, whatever the
\* garbage, the byte size and the frame length (_xbee_frame_load).
THEOREM ResyncHolds ==
  ASSUME StartByte # 0, ByteMod > 2, Handlers = MCHandlers
  PROVE  Spec => []ResyncAfterQuiet
<1>1. FInv => ResyncAfterQuiet
  <2> SUFFICES ASSUME FInv, ~Running, pos = Len(input), IsSuffix(Closing, input)
               PROVE  handled # <<>> /\ Last(handled) = [entry |-> 2, frame |-> <<1, 2>>]
    BY DEF ResyncAfterQuiet
  <2>1. PICK frame \in Seq(Byte) : frame = <<1, 2>>
    BY GoodIs
  <2>2. TypeOK
    BY DEF FInv, IInv
  <2>3. PICK a \in Nat : Quietened(input, a, frame)
    BY <2>1, <2>2, ClosingQuietens
  <2>4. PICK before \in Seq(Call) : handled = before \o CallsUpTo(frame)[Len(Handlers)]
    BY <2>3, LastHandled
  <2>5. PICK k \in Nat, f \in Seq(Byte) : k = 2 /\ f = frame
    BY <2>1
  <2>6. /\ k >= 1 /\ k + 1 = Len(Handlers)
        /\ Matches(Handlers[k], f[1], f[2]) /\ ~Matches(Handlers[k + 1], f[1], f[2])
    BY <2>1, <2>5 DEF MCHandlers, Matches
  <2>7. handled = before \o CallsUpTo(f)[Len(Handlers)]
    BY <2>4, <2>5
  <2>8. handled # <<>> /\ Last(handled) = [entry |-> k, frame |-> f]
    BY <2>6, <2>7, LastEntry
  <2>9. QED
    BY <2>1, <2>5, <2>8
<1>2. QED
  BY <1>1, FInvariance, PTL

=============================================================================
