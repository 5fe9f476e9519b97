--------------------------------- MODULE Ota ---------------------------------
(* Sending a firmware image over the air (pxbee_ota_client.c) with the XMODEM  *)
(* sender of xbee_xmodem.c: the program calls xbee_xmodem_tx_tick until it     *)
(* ends, one whole call a step, and between two calls wpan_tick hands it the   *)
(* bytes that came back.  The network (two lossy queues) and the receiver in   *)
(* the target's bootloader are external, modelled from how the sender uses     *)
(* them.                                                                       *)
EXTENDS CBuf

CONSTANTS Blocks,       \* 64-byte blocks in the image
          NumMod,       \* block numbers travel modulo this (256 in the code)
          StartChar,    \* what the receiver asks for: "C" (CRC) or "NAK" (checksum)
          MayFail,      \* the sends wpan_envelope_send may refuse: a subset of Sends
          WideInt,      \* int is wider than the 16 bits of the timer
          ClockMod,     \* where the 16-bit millisecond timer wraps
          AckWait, FinalWait,   \* 10000 and 3000 ms on that timer
          MaxOut, MaxIn,        \* bounds: messages on the air each way
          MaxPayload,           \* bound: characters that arrive in one frame
          LengthMod,            \* values of a payload's length as a byte (256)
          MaxSessions           \* bound: times the program starts an update

Sends == {"first", "resend", "eot", "cancel", "start"}

ASSUME OtaAssumption == /\ MayFail \subseteq Sends
                        /\ WideInt \in BOOLEAN
                        /\ {Blocks, NumMod, ClockMod, AckWait, FinalWait,
                            MaxOut, MaxIn, MaxPayload, LengthMod, MaxSessions} \subseteq Nat
                        /\ LengthMod > 0
                        /\ ClockMod > 0
                        /\ NumMod > 0

VARIABLES state,      \* xbxm->state
          check,      \* the CHECKSUM and CRC bits of xbxm->flags, set at the start
          packetNum,  \* xbxm->packet_num
          tries,      \* xbxm->tries
          loaded,     \* blocks read from the file: xbxm->buffer holds the last
          timer,      \* xbxm->timer, stamped when a packet is sent
          clock,      \* the low word of xbee_millisecond_timer()
          rxbuf,      \* ota->rxbuf
          out, in,    \* the air: messages to the target, characters from it
          rstate,     \* the receiver: off, open, done or aborted
          got,        \* the blocks the receiver has stored
          sessions,   \* how many updates the program has started
          crossed     \* history: a packet was sent again with an answer under way

sender == <<state, check, packetNum, tries, loaded, timer>>
receiver == <<rstate, got>>
vars == <<state, check, packetNum, tries, loaded, timer, clock, rxbuf, out, in,
          rstate, got, sessions, crossed>>

Chars == {"ACK", "NAK", "C", "CAN"}

ASSUME CharsAssumption == Chars \subseteq Byte /\ StartChar \in {"C", "NAK"}

Init == /\ state = "unused"
        /\ check = "none"
        /\ packetNum = 0
        /\ tries = 0
        /\ loaded = 0
        /\ timer = 0
        /\ clock \in 0 .. ClockMod - 1
        /\ rxbuf = Fresh
        /\ out = <<>>
        /\ in = <<>>
        /\ rstate = "off"
        /\ got = <<>>
        /\ sessions = 0
        /\ crossed = FALSE

(* The stream the OTA client gives the sender.                                 *)

\* Whether a send goes out; one the module's frame layer refuses sends nothing.
Outcomes(kind) == IF kind \in MayFail THEN BOOLEAN ELSE {TRUE}

\* The network takes a message, or drops it when it has too many.
OnAir(m) == IF Len(out) < MaxOut THEN Append(out, m) ELSE out

\* pxbee_ota_init and the file the program opens again with it.
OtaInit ==
    /\ state \in {"unused", "FAILURE"}
    /\ sessions < MaxSessions
    /\ sessions' = sessions + 1
    /\ rxbuf' = Fresh
    /\ crossed' = (crossed \/ out # <<>> \/ in # <<>>)
    /\ \E sent \in Outcomes("start") :
          IF sent
          THEN /\ out' = OnAir([kind |-> "start"])
               /\ state' = "START"
               /\ check' = "none"
               /\ packetNum' = 0
               /\ loaded' = 0
               /\ UNCHANGED <<tries, timer>>
          ELSE UNCHANGED <<sender, out>>
    /\ UNCHANGED <<clock, in, receiver>>

\* What is put of a payload: its length is cast to a byte.
Cast(payload) == SubSeq(payload, 1, Len(payload) % LengthMod)

\* Mutant: what any node sends is taken for the target's.
TransparentRxFromAnyone(from, payload) == rxbuf' = CBufPut(rxbuf, Cast(payload))

\* Serial data reaches the program: only the target's is kept, as far as it fits.
TransparentRx(from, payload) ==
    rxbuf' = IF from = "target" THEN CBufPut(rxbuf, Cast(payload)) ELSE rxbuf

Deliver == \E n \in 1 .. Smaller(Len(in), MaxPayload) :
              /\ TransparentRx("target", SubSeq(in, 1, n))
              /\ in' = SubSeq(in, n + 1, Len(in))
              /\ UNCHANGED <<sender, clock, out, receiver, sessions, crossed>>

OtherNode == /\ TransparentRx("other", <<"ACK">>)
             /\ UNCHANGED <<sender, clock, out, in, receiver, sessions, crossed>>

(* xbee_xmodem_tx_tick.                                                        *)

Waiting == Used(rxbuf) > 0
NextChar == CBufGot(rxbuf, 1)[1]
Rest == CBufGet(rxbuf, 1)
Flushed == CBufGet(rxbuf, Mask)

\* (uint16_t) now - timer < wait: the difference wraps only where int is 16 bits.
Elapsed(wait) == IF WideInt THEN clock - timer >= wait
                            ELSE (clock - timer) % ClockMod >= wait

\* The label failure: cancel twice, whether that can be sent or not.
Fail == /\ state' = "FAILURE"
        /\ \E sent \in Outcomes("cancel") : out' = IF sent THEN OnAir([kind |-> "can"]) ELSE out
        /\ UNCHANGED <<tries, loaded, timer>>

\* The buffered packet goes out in one frame.  When it does not, the state stays
\* SEND or RESEND: no line of the code ever sets XBEE_XMODEM_STATE_SENDING.
SendBlock(again, block) ==
    \E sent \in Outcomes(IF again THEN "resend" ELSE "first") :
       IF sent
       THEN /\ out' = OnAir([kind |-> "block", num |-> packetNum' % NumMod,
                             data |-> block, check |-> check'])
            /\ state' = "WAIT_ACK"
            /\ timer' = clock
       ELSE /\ state' = (IF again THEN "RESEND" ELSE "SEND")
            /\ UNCHANGED <<out, timer>>

\* State SEND: the next block is read and, after a flush of stray characters,
\* sent; or the file is at its end, or cannot be read.
AssemblePacket(rest) ==
    \/ /\ loaded < Blocks
       /\ loaded' = loaded + 1
       /\ tries' = 3
       /\ rxbuf' = Flushed
       /\ SendBlock(FALSE, loaded + 1)
    \/ /\ loaded = Blocks
       /\ state' = "EOF"
       /\ tries' = 3
       /\ rxbuf' = rest
       /\ UNCHANGED <<loaded, timer, out>>
    \/ /\ Fail
       /\ rxbuf' = rest

Start == /\ state = "START"
         /\ Waiting
         /\ IF NextChar \in {"NAK", "C"}
            THEN /\ check' = (IF NextChar = "C" THEN "crc" ELSE "checksum")
                 /\ packetNum' = 1
                 /\ AssemblePacket(Rest)
            ELSE /\ rxbuf' = Rest
                 /\ UNCHANGED <<sender, out>>
         /\ UNCHANGED <<clock, in, receiver, sessions, crossed>>

Send == /\ state = "SEND"
        /\ UNCHANGED <<check, packetNum>>
        /\ AssemblePacket(rxbuf)
        /\ UNCHANGED <<clock, in, receiver, sessions, crossed>>

\* Mutant: a block that goes out again is read again too.
ResendReads == /\ state = "RESEND"
               /\ loaded' = Smaller(loaded + 1, Blocks)
               /\ UNCHANGED <<check, packetNum, tries>>
               /\ SendBlock(TRUE, Smaller(loaded + 1, Blocks))
               /\ UNCHANGED <<clock, rxbuf, in, receiver, sessions, crossed>>

Resend == /\ state = "RESEND"
          /\ UNCHANGED <<check, packetNum, tries, loaded>>
          /\ SendBlock(TRUE, loaded)
          /\ UNCHANGED <<clock, rxbuf, in, receiver, sessions, crossed>>

\* Mutant: every try is the first of three.
TryAgainForever(again) ==
    /\ tries' = 3
    /\ state' = again
    /\ UNCHANGED <<loaded, timer, out>>

\* No ACK: one try less, and once more from state again, or the end.
TryAgain(again) ==
    IF tries > 1
    THEN /\ tries' = tries - 1
         /\ state' = again
         /\ UNCHANGED <<loaded, timer, out>>
    ELSE Fail

\* State WAIT_ACK with a character.
Answered == /\ state = "WAIT_ACK"
            /\ Waiting
            /\ rxbuf' = Rest
            /\ IF NextChar = "ACK"
               THEN /\ packetNum' = packetNum + 1
                    /\ state' = "SEND"
                    /\ UNCHANGED <<tries, loaded, timer, out, crossed>>
               ELSE /\ TryAgain("RESEND")
                    /\ crossed' = (crossed \/ out # <<>> \/ in # <<>> \/ Used(Rest) > 0)
                    /\ UNCHANGED packetNum
            /\ UNCHANGED <<check, clock, in, receiver, sessions>>

\* State WAIT_ACK with none for ten seconds.
AckTimeout == /\ state = "WAIT_ACK"
              /\ ~Waiting
              /\ Elapsed(AckWait)
              /\ TryAgain("RESEND")
              /\ crossed' = (crossed \/ out # <<>> \/ in # <<>>)
              /\ UNCHANGED <<check, packetNum, clock, rxbuf, in, receiver, sessions>>

SendEot == /\ state = "EOF"
           /\ \E sent \in Outcomes("eot") :
                 out' = IF sent THEN OnAir([kind |-> "eot"]) ELSE out
           /\ state' = "FINAL_ACK"
           /\ timer' = clock
           /\ UNCHANGED <<check, packetNum, tries, loaded>>
           /\ UNCHANGED <<clock, rxbuf, in, receiver, sessions, crossed>>

FinalAnswer == /\ state = "FINAL_ACK"
               /\ Waiting
               /\ rxbuf' = Rest
               /\ IF NextChar = "ACK"
                  THEN /\ state' = "SUCCESS"
                       /\ UNCHANGED <<tries, loaded, timer, out>>
                  ELSE TryAgain("EOF")
               /\ UNCHANGED <<check, packetNum, clock, in, receiver, sessions, crossed>>

FinalTimeout == /\ state = "FINAL_ACK"
                /\ ~Waiting
                /\ Elapsed(FinalWait)
                /\ TryAgain("EOF")
                /\ UNCHANGED <<check, packetNum, clock, rxbuf, in, receiver, sessions, crossed>>

\* Time passes; it matters to the two waits only.
ClockTick == /\ state \in {"WAIT_ACK", "FINAL_ACK"}
             /\ clock' = (clock + 1) % ClockMod
             /\ UNCHANGED <<sender, rxbuf, out, in, receiver, sessions, crossed>>

(* The network and the receiver.                                               *)

LoseOut == /\ out # <<>>
           /\ out' = Tail(out)
           /\ UNCHANGED <<sender, clock, rxbuf, in, receiver, sessions, crossed>>

LoseIn == /\ in # <<>>
          /\ in' = Tail(in)
          /\ UNCHANGED <<sender, clock, rxbuf, out, receiver, sessions, crossed>>

Reply(ch) == in' = IF Len(in) < MaxIn THEN Append(in, ch) ELSE in

ReceiverCheck == IF StartChar = "C" THEN "crc" ELSE "checksum"

\* The receiver stores the block it expects, acknowledges the one before again,
\* asks again for one it cannot check, and gives up on any other.
StoreBlock(m) ==
    CASE m.check # ReceiverCheck -> Reply("NAK") /\ UNCHANGED receiver
      [] m.check = ReceiverCheck /\ m.num = (Len(got) + 1) % NumMod ->
            Reply("ACK") /\ got' = Append(got, m.data) /\ UNCHANGED rstate
      [] m.check = ReceiverCheck /\ m.num = Len(got) % NumMod /\ got # <<>> ->
            Reply("ACK") /\ UNCHANGED receiver
      [] OTHER -> Reply("CAN") /\ rstate' = "aborted" /\ UNCHANGED got

Receive ==
    /\ out # <<>>
    /\ out' = Tail(out)
    /\ LET m == Head(out) IN
         CASE m.kind = "start" /\ rstate \in {"off", "aborted"} ->
                rstate' = "open" /\ got' = <<>> /\ Reply(StartChar)
           [] m.kind = "block" /\ rstate = "open" -> StoreBlock(m)
           [] m.kind = "eot" /\ rstate \in {"open", "done"} ->
                rstate' = "done" /\ UNCHANGED got /\ Reply("ACK")
           [] m.kind = "can" /\ rstate = "open" ->
                rstate' = "aborted" /\ UNCHANGED <<got, in>>
           [] OTHER -> UNCHANGED <<receiver, in>>
    /\ UNCHANGED <<sender, clock, rxbuf, sessions, crossed>>

\* A receiver that has heard nothing for seconds asks again; what it said before
\* has arrived by then, though the program may not have looked at it.
Ask == /\ rstate = "open"
       /\ in = <<>>
       /\ Reply(IF got = <<>> THEN StartChar ELSE "NAK")
       /\ UNCHANGED <<sender, clock, rxbuf, out, receiver, sessions, crossed>>

TxTick == Start \/ Send \/ Resend \/ Answered \/ SendEot \/ FinalAnswer

TxTimeout == AckTimeout \/ FinalTimeout

Next == \/ TxTick \/ TxTimeout \/ ClockTick
        \/ OtaInit \/ Deliver \/ OtherNode
        \/ LoseOut \/ LoseIn \/ Receive \/ Ask

Spec == Init /\ [][Next]_vars

\* One loop calls wpan_tick and xbee_xmodem_tx_tick, far more often than the timer
\* goes round, and a send that is tried for ever goes out at last.
Fairness == /\ WF_vars(TxTick)
            /\ SF_vars(TxTimeout)
            /\ WF_vars(ClockTick)
            /\ WF_vars(Deliver)

FairSpec == Spec /\ Fairness
-----------------------------------------------------------------------------
\* The variables hold what the code's fields can hold, and no more bytes are in
\* rxbuf than its mask lets in.
TypeOK ==
    /\ state \in {"unused", "START", "SEND", "RESEND", "WAIT_ACK", "EOF", "FINAL_ACK",
                  "SUCCESS", "FAILURE"}
    /\ check \in {"none", "checksum", "crc"}
    /\ packetNum \in 0 .. Blocks + 1
    /\ tries \in 0 .. 3
    /\ loaded \in 0 .. Blocks
    /\ timer \in 0 .. ClockMod - 1
    /\ clock \in 0 .. ClockMod - 1
    /\ rxbuf \in Buffers
    /\ in \in Seq(Chars)
    /\ rstate \in {"off", "open", "done", "aborted"}
    /\ sessions \in 0 .. MaxSessions

\* What the receiver has stored is the beginning of the image, each block once
\* and in its place, whatever is lost, repeated or late (xbee_xmodem.c:346-432).
InOrder == /\ Len(got) <= Blocks
           /\ \A i \in 1 .. Len(got) : got[i] = i

\* When xbee_xmodem_tx_tick reports success the receiver holds the whole image
\* and has closed it, as long as no packet was sent again while an answer to it
\* was still on its way (xbee_xmodem.c:443-453, 493-503).
SuccessMeansWhole == state = "SUCCESS" /\ ~crossed => rstate = "done" /\ Len(got) = Blocks

\* A transfer that has begun comes to success or failure (xbee_xmodem.h:268-272:
\* "call until it returns a non-zero result").
Ends == state \notin {"unused", "START"} ~> state \in {"SUCCESS", "FAILURE"}

\* To its writer and its reader the buffer is a bounded queue: a frame's characters
\* go in at the back as far as they fit, and nothing leaves but from the front, to
\* the program (xbee_cbuf.c:102-166).
Queue == INSTANCE BoundedQueue WITH queue <- Contents(rxbuf), Capacity <- Mask,
            Payloads <- UNION {[1 .. n -> Chars] : n \in 0 .. MaxPayload}

BufferIsQueue == /\ Queue!Spec
                 /\ [][Deliver => Queue!Put(Cast(SubSeq(in, 1, Len(in) - Len(in'))))]_vars
=============================================================================
