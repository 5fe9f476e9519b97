----------------------------- MODULE Ota_proof -----------------------------
(* For every buffer, image, network bound and choice of failing sends: the     *)
(* sender's fields keep their ranges and the receive buffer is a bounded queue *)
(* to those who use it.  When the first sending of a block is not refused,     *)
(* what the receiver has stored is the beginning of the image, and all of it   *)
(* when the sender reports success and no answer crossed a packet that was     *)
(* sent again: for images whose block numbers do not wrap, and for images of   *)
(* any length when little is on the air at a time and no update begins in the  *)
(* middle of another.                                                          *)
EXTENDS Ota, SequenceTheorems, FiniteSetTheorems, TLAPS

(* The two operations of the circular buffer seen as operations on what it     *)
(* holds, for every size of buffer and every position of head and tail.        *)

LEMMA WrapValue ==
    ASSUME NEW i \in Int
    PROVE  /\ i < 0 => Wrap(i) = i + Mask + 1
           /\ i \in 0 .. Mask => Wrap(i) = i
           /\ i > Mask => Wrap(i) = i - (Mask + 1)
BY MaskAssumption DEF Wrap

LEMMA Fields ==
    ASSUME NEW b \in Buffers
    PROVE  /\ b.head \in 0 .. Mask + 1
           /\ b.tail \in 0 .. Mask
           /\ b.data \in [0 .. Mask -> Byte \cup {Erased}]
           /\ b = [head |-> b.head, tail |-> b.tail, data |-> b.data]
BY DEF Buffers

LEMMA UsedRange ==
    ASSUME NEW b \in Buffers
    PROVE  /\ Used(b) \in 0 .. Mask
           /\ Free(b) = Mask - Used(b)
<1>1. PICK h \in 0 .. Mask + 1, t \in 0 .. Mask : h = b.head /\ t = b.tail
  BY Fields
<1>2. Wrap(t - h) \in 0 .. Mask /\ Wrap(h - t - 1) = Mask - Wrap(t - h)
  BY MaskAssumption DEF Wrap
<1> QED BY <1>1, <1>2 DEF Used, Free

Cells == Byte \cup {Erased}

\* What a buffer holds is a sequence as long as Used says.
LEMMA ContentsIs ==
    ASSUME NEW b \in Buffers
    PROVE  /\ Contents(b) \in Seq(Cells)
           /\ Len(Contents(b)) = Used(b)
           /\ \A i \in 1 .. Used(b) : Contents(b)[i] = b.data[Wrap(b.head + i - 1)]
<1> DEFINE U == Used(b)
<1>1. U \in 0 .. Mask /\ U \in Nat
  BY UsedRange, MaskAssumption
<1>2. Smaller(U, U) = U
  BY DEF Smaller
<1>3. Contents(b) = [i \in 1 .. U |-> b.data[Wrap(b.head + i - 1)]]
  BY <1>2 DEF Contents, CBufGot
<1>4. ASSUME NEW i \in 1 .. U PROVE b.data[Wrap(b.head + i - 1)] \in Cells
  <2>1. PICK h \in 0 .. Mask + 1 : h = b.head
    BY Fields
  <2>2. Wrap(h + i - 1) \in 0 .. Mask
    BY <1>1, MaskAssumption DEF Wrap
  <2> QED BY <2>1, <2>2, Fields DEF Cells
<1> HIDE DEF U
<1>5. Contents(b) \in [1 .. U -> Cells]
  BY <1>3, <1>4
<1> QED BY <1>1, <1>3, <1>5 DEF U

\* From head, the cell of the j-th byte, and how far it lies from tail.
LEMMA CellOf ==
    ASSUME NEW h \in 0 .. Mask + 1, NEW t \in 0 .. Mask, NEW j \in 0 .. Mask
    PROVE  /\ Wrap(h + j) \in 0 .. Mask
           /\ Wrap(Wrap(h + j) - h) = j
           /\ j < Wrap(t - h) => Wrap(Wrap(h + j) - t) = Mask + 1 - Wrap(t - h) + j
           /\ j >= Wrap(t - h) => Wrap(Wrap(h + j) - t) = j - Wrap(t - h)
BY MaskAssumption DEF Wrap

\* A put leaves a buffer, and says how full.
LEMMA PutBuffer ==
    ASSUME NEW b \in Buffers, NEW s \in Seq(Byte)
    PROVE  /\ CBufPut(b, s) \in Buffers
           /\ Used(CBufPut(b, s)) = Used(b) + Smaller(Len(s), Mask - Used(b))
<1> DEFINE k == Smaller(Len(s), Free(b))
           d == [i \in 0 .. Mask |-> IF Wrap(i - b.tail) < k
                                      THEN s[Wrap(i - b.tail) + 1] ELSE b.data[i]]
           t == IF k >= Mask + 1 - b.tail THEN k - (Mask + 1 - b.tail) ELSE b.tail + k
<1>1. /\ b.head \in 0 .. Mask + 1 /\ b.tail \in 0 .. Mask
      /\ b.data \in [0 .. Mask -> Byte \cup {Erased}]
      /\ Len(s) \in Nat
  BY Fields
<1>2. k \in Nat /\ k <= Len(s) /\ k <= Mask - Used(b) /\ k = Smaller(Len(s), Mask - Used(b))
  BY <1>1, UsedRange, MaskAssumption DEF Smaller
<1>3. t \in 0 .. Mask
  BY <1>1, <1>2, UsedRange, MaskAssumption, SMTT(30)
<1>4. ASSUME NEW i \in 0 .. Mask PROVE d[i] \in Byte \cup {Erased}
  <2>1. Wrap(i - b.tail) \in 0 .. Mask
    BY <1>1, MaskAssumption, SMTT(30) DEF Wrap
  <2>2. CASE Wrap(i - b.tail) < k
    <3>1. Wrap(i - b.tail) + 1 \in 1 .. Len(s)
      BY <2>1, <2>2, <1>1, <1>2
    <3>2. s[Wrap(i - b.tail) + 1] \in Byte
      BY <3>1
    <3> QED BY <2>2, <3>2
  <2>3. CASE ~(Wrap(i - b.tail) < k)
    BY <2>3, <1>1
  <2> QED BY <2>2, <2>3
<1>5. d \in [0 .. Mask -> Byte \cup {Erased}]
  BY <1>4
<1>6. CBufPut(b, s) = [head |-> b.head, tail |-> t, data |-> d]
  BY DEF CBufPut
<1>7. CBufPut(b, s) \in Buffers
  <2> HIDE DEF d, t
  <2> QED BY <1>1, <1>3, <1>5, <1>6 DEF Buffers
<1>8. Used(CBufPut(b, s)) = Wrap(t - b.head)
  <2> HIDE DEF d, t
  <2> QED BY <1>6 DEF Used
<1>9. Wrap(t - b.head) = Used(b) + k
  <2>1. PICK h \in 0 .. Mask + 1, u \in 0 .. Mask, n \in Nat :
           h = b.head /\ u = b.tail /\ n = k /\ n <= Mask - Used(b)
    BY <1>1, <1>2
  <2>2. Used(b) = Wrap(u - h)
    BY <2>1 DEF Used
  <2>3. n <= Mask - Wrap(u - h)
    BY <2>1, <2>2
  <2>4. Wrap((IF n >= Mask + 1 - u THEN n - (Mask + 1 - u) ELSE u + n) - h) = Wrap(u - h) + n
    BY <2>3, MaskAssumption, SMTT(30) DEF Wrap
  <2> QED BY <2>1, <2>2, <2>4
<1> QED BY <1>2, <1>7, <1>8, <1>9

\* A put appends what fits to what the buffer holds.
LEMMA PutContents ==
    ASSUME NEW b \in Buffers, NEW s \in Seq(Byte)
    PROVE  Contents(CBufPut(b, s)) =
              Contents(b) \o SubSeq(s, 1, Smaller(Len(s), Mask - Len(Contents(b))))
<1> DEFINE c == CBufPut(b, s)
           U == Used(b)
           k == Smaller(Len(s), Mask - U)
           new == SubSeq(s, 1, k)
<1>1. /\ c \in Buffers
      /\ Used(c) = U + k
      /\ U \in 0 .. Mask
      /\ Len(s) \in Nat
      /\ U = Len(Contents(b))
      /\ Free(b) = Mask - U
  BY PutBuffer, UsedRange, ContentsIs
<1>2. k \in Nat /\ k <= Len(s) /\ k <= Mask - U
  BY <1>1, MaskAssumption DEF Smaller
<1>3. \A i \in 0 .. Mask : c.data[i] = IF Wrap(i - b.tail) < k
                                         THEN s[Wrap(i - b.tail) + 1] ELSE b.data[i]
  BY <1>1 DEF CBufPut
<1>4. c.head = b.head
  BY DEF CBufPut
<1>5. PICK h \in 0 .. Mask + 1, t \in 0 .. Mask : h = b.head /\ t = b.tail
  BY Fields
<1>6. U = Wrap(t - h)
  BY <1>5 DEF Used
<1> HIDE DEF c, k, U
<1>7. \A i \in 1 .. k : s[i] \in Cells
  BY <1>1, <1>2 DEF Cells
<1>8. /\ new \in Seq(Cells)
      /\ Len(new) = k
      /\ \A i \in 1 .. k : new[i] = s[i]
  <2>1. /\ new \in Seq(Cells)
        /\ Len(new) = IF 1 <= k THEN k - 1 + 1 ELSE 0
        /\ \A i \in 1 .. k - 1 + 1 : new[i] = s[1 + i - 1]
    BY <1>2, <1>7, SubSeqProperties
  <2> HIDE DEF new
  <2> QED BY <2>1, <1>2
<1> HIDE DEF new
<1>9. /\ Contents(b) \o new \in Seq(Cells)
      /\ Len(Contents(b) \o new) = U + k
      /\ \A i \in 1 .. U + k : (Contents(b) \o new)[i] =
                                  IF i <= U THEN Contents(b)[i] ELSE new[i - U]
  BY <1>1, <1>8, ContentsIs, ConcatProperties
<1>10. ASSUME NEW i \in 1 .. U + k
       PROVE  Contents(c)[i] = (Contents(b) \o new)[i]
  <2>1. PICK j \in 0 .. Mask : j = i - 1 /\ i = j + 1
    BY <1>1, <1>2, MaskAssumption
  <2>2. Contents(c)[i] = c.data[Wrap(h + j)]
    <3>1. Contents(c)[i] = c.data[Wrap(c.head + i - 1)]
      BY <1>1, ContentsIs
    <3>2. h + i - 1 = h + j
      BY <2>1
    <3> QED BY <1>4, <1>5, <3>1, <3>2
  <2>3. Wrap(h + j) \in 0 .. Mask
    BY CellOf
  <2>4. CASE i <= U
    <3>1. Wrap(Wrap(h + j) - t) = Mask + 1 - U + j
      BY <1>6, <2>1, <2>4, <1>1, CellOf
    <3>2. ~(Wrap(Wrap(h + j) - t) < k)
      BY <3>1, <1>1, <1>2, <2>1, MaskAssumption
    <3>3. c.data[Wrap(h + j)] = b.data[Wrap(h + j)]
      BY <1>3, <1>5, <2>3, <3>2
    <3>4. Contents(b)[i] = b.data[Wrap(b.head + i - 1)]
      BY <1>1, <2>4, ContentsIs DEF U
    <3>5. h + i - 1 = h + j
      BY <2>1
    <3> QED BY <1>5, <1>9, <2>2, <2>4, <3>3, <3>4, <3>5
  <2>5. CASE i > U
    <3>1. Wrap(Wrap(h + j) - t) = j - U
      BY <1>6, <2>1, <2>5, <1>1, CellOf
    <3>2. j - U < k /\ j - U + 1 = i - U /\ i - U \in 1 .. k
      BY <2>1, <2>5, <1>1, <1>2
    <3>3. c.data[Wrap(h + j)] = s[i - U]
      BY <1>3, <1>5, <2>3, <3>1, <3>2
    <3>4. (Contents(b) \o new)[i] = new[i - U]
      BY <1>9, <2>5, <1>1
    <3> QED BY <1>8, <2>2, <3>2, <3>3, <3>4
  <2>6. i <= U \/ i > U
    BY <1>1, <1>2
  <2> QED BY <2>4, <2>5, <2>6
<1>11. Contents(c) \in Seq(Cells) /\ Len(Contents(c)) = U + k
  BY <1>1, ContentsIs
<1>12. Contents(c) = Contents(b) \o new
  BY <1>9, <1>10, <1>11, SeqEqual
<1> QED BY <1>1, <1>12 DEF c, new, k

\* A get takes the first n bytes, or all there are, and leaves a buffer.
LEMMA GetContents ==
    ASSUME NEW b \in Buffers, NEW n \in Nat
    PROVE  /\ CBufGet(b, n) \in Buffers
           /\ Contents(CBufGet(b, n)) =
                 SubSeq(Contents(b), Smaller(n, Len(Contents(b))) + 1, Len(Contents(b)))
<1> DEFINE c == CBufGet(b, n)
           U == Used(b)
           k == Smaller(n, U)
           left == SubSeq(Contents(b), k + 1, U)
<1>1. U \in 0 .. Mask /\ U = Len(Contents(b))
  BY UsedRange, ContentsIs
<1>2. k \in Nat /\ k <= U
  BY <1>1, MaskAssumption DEF Smaller
<1>3. PICK h \in 0 .. Mask + 1, t \in 0 .. Mask : h = b.head /\ t = b.tail
  BY Fields
<1>4. U = Wrap(t - h)
  BY <1>3 DEF Used
<1>5. /\ c.head = IF k > Mask + 1 - h THEN k - (Mask + 1 - h) ELSE h + k
      /\ c.tail = t
      /\ c.data = [i \in 0 .. Mask |-> IF Wrap(i - h) < k THEN Erased ELSE b.data[i]]
      /\ c = [head |-> c.head, tail |-> c.tail, data |-> c.data]
  BY <1>3 DEF CBufGet
<1> HIDE DEF c, k, U
<1>6. PICK g \in 0 .. Mask + 1 : /\ g = c.head
                                /\ g = IF k > Mask + 1 - h THEN k - (Mask + 1 - h) ELSE h + k
  BY <1>1, <1>2, <1>5, MaskAssumption, SMTT(30)
<1>7. c.data \in [0 .. Mask -> Byte \cup {Erased}]
  BY <1>3, <1>5, Fields
<1>8. c \in Buffers
  BY <1>5, <1>6, <1>7 DEF Buffers
<1>9. Used(c) = U - k /\ \A j \in 0 .. Mask : j < U - k => Wrap(g + j) = Wrap(h + k + j)
  <2>1. PICK m \in Nat : m = k /\ m <= Wrap(t - h)
    BY <1>2, <1>4
  <2>2. g = IF m > Mask + 1 - h THEN m - (Mask + 1 - h) ELSE h + m
    BY <1>6, <2>1
  <2>3. Wrap(t - g) = Wrap(t - h) - m
    BY <2>1, <2>2, MaskAssumption DEF Wrap
  <2>4. \A j \in 0 .. Mask : j < Wrap(t - h) - m => Wrap(g + j) = Wrap(h + m + j)
    BY <2>1, <2>2, MaskAssumption DEF Wrap
  <2> QED BY <1>4, <1>5, <1>6, <2>1, <2>3, <2>4 DEF Used
<1>10. /\ left \in Seq(Cells)
       /\ Len(left) = U - k
       /\ \A i \in 1 .. U - k : left[i] = Contents(b)[k + i]
  <2>1. \A i \in k + 1 .. U : Contents(b)[i] \in Cells
    BY <1>1, <1>2, ContentsIs
  <2>2. k + 1 \in Int /\ U \in Int
    BY <1>1, <1>2
  <2>3. /\ left \in Seq(Cells)
        /\ Len(left) = IF k + 1 <= U THEN U - (k + 1) + 1 ELSE 0
        /\ \A i \in 1 .. U - (k + 1) + 1 : left[i] = Contents(b)[k + 1 + i - 1]
    BY <2>1, <2>2, SubSeqProperties
  <2> HIDE DEF left
  <2>4. PICK m \in Nat, u \in 0 .. Mask : m = k /\ u = U /\ m <= u
    BY <1>1, <1>2
  <2>5. /\ (IF m + 1 <= u THEN u - (m + 1) + 1 ELSE 0) = u - m
        /\ u - (m + 1) + 1 = u - m
        /\ \A i \in 1 .. u - m : m + 1 + i - 1 = m + i
    BY <2>4, MaskAssumption
  <2>6. /\ left \in Seq(Cells)
        /\ Len(left) = IF m + 1 <= u THEN u - (m + 1) + 1 ELSE 0
        /\ \A i \in 1 .. u - (m + 1) + 1 : left[i] = Contents(b)[m + 1 + i - 1]
    BY <2>3, <2>4
  <2>7. \A i \in 1 .. u - m : left[i] = Contents(b)[m + i]
    BY <2>5, <2>6
  <2> QED BY <2>4, <2>5, <2>6, <2>7
<1> HIDE DEF left
<1>11. ASSUME NEW i \in 1 .. U - k
       PROVE  Contents(c)[i] = left[i]
  <2>1. PICK j \in 0 .. Mask : /\ j = i - 1 + k
                              /\ j >= k
                              /\ j < U
                              /\ k + i = j + 1
    BY <1>1, <1>2, MaskAssumption
  <2>2. Contents(c)[i] = c.data[Wrap(g + i - 1)]
    BY <1>6, <1>8, <1>9, ContentsIs
  <2>3. Wrap(g + i - 1) = Wrap(h + j)
    <3>1. PICK e \in 0 .. Mask : e = i - 1 /\ e < U - k /\ k + e = j
      BY <1>1, <1>2, <2>1, MaskAssumption
    <3>2. g + i - 1 = g + e /\ h + k + e = h + j
      BY <1>2, <2>1, <3>1
    <3> QED BY <1>9, <3>1, <3>2
  <2>4. Wrap(h + j) \in 0 .. Mask /\ Wrap(Wrap(h + j) - h) = j
    BY CellOf
  <2>5. c.data[Wrap(h + j)] = b.data[Wrap(h + j)]
    BY <1>2, <1>5, <2>1, <2>4
  <2>6. Contents(b)[j + 1] = b.data[Wrap(h + j)]
    <3>1. j + 1 \in 1 .. U /\ h + (j + 1) - 1 = h + j
      BY <1>1, <2>1
    <3> QED BY <1>3, <3>1, ContentsIs DEF U
  <2> QED BY <1>10, <2>1, <2>2, <2>3, <2>5, <2>6
<1>12. Contents(c) \in Seq(Cells) /\ Len(Contents(c)) = U - k
  BY <1>8, <1>9, ContentsIs
<1>13. Contents(c) = left
  BY <1>10, <1>11, <1>12, SeqEqual
<1> QED BY <1>1, <1>8, <1>13 DEF c, left, k

-----------------------------------------------------------------------------
Payloads == UNION {[1 .. n -> Chars] : n \in 0 .. MaxPayload}

(* The receive buffer.                                                         *)

LEMMA PayloadIsSeq ==
    ASSUME NEW s \in Seq(Chars)
    PROVE  s \in Seq(Byte)
BY CharsAssumption

LEMMA FreshEmpty ==
    Fresh \in Buffers /\ Contents(Fresh) = <<>>
<1>1. Fresh \in Buffers
  BY MaskAssumption DEF Fresh, Buffers
<1>2. Used(Fresh) = 0
  BY MaskAssumption DEF Fresh, Used, Wrap
<1>3. Contents(Fresh) \in Seq(Cells) /\ Len(Contents(Fresh)) = 0
  BY <1>1, <1>2, ContentsIs
<1> QED BY <1>1, <1>3, EmptySeq

\* Writing is the queue's put.
LEMMA PutStep ==
    ASSUME rxbuf \in Buffers, NEW s \in Seq(Chars), rxbuf' = CBufPut(rxbuf, s)
    PROVE  rxbuf' \in Buffers /\ Queue!Put(s)
<1>1. /\ CBufPut(rxbuf, s) \in Buffers
      /\ Contents(CBufPut(rxbuf, s)) = Contents(rxbuf) \o
             SubSeq(s, 1, Smaller(Len(s), Mask - Len(Contents(rxbuf))))
  BY PayloadIsSeq, PutBuffer, PutContents
<1> QED BY <1>1 DEF Queue!Put, Queue!Least, Smaller

\* Reading is the queue's get.
LEMMA GetStep ==
    ASSUME rxbuf \in Buffers, NEW n \in Nat, rxbuf' = CBufGet(rxbuf, n)
    PROVE  rxbuf' \in Buffers /\ Queue!Get(n)
BY GetContents DEF Queue!Get, Queue!Least, Smaller

\* A fresh start takes whatever was left.
LEMMA ClearStep ==
    ASSUME rxbuf \in Buffers, rxbuf' = Fresh
    PROVE  rxbuf' \in Buffers /\ Queue!Get(Mask)
<1> DEFINE q == Contents(rxbuf)
<1>1. q \in Seq(Cells) /\ Len(q) \in 0 .. Mask
  BY ContentsIs, UsedRange
<1>2. Len(q) + 1 > Len(q) /\ Queue!Least(Mask, Len(q)) = Len(q)
  BY <1>1, MaskAssumption DEF Queue!Least
<1>3. SubSeq(q, Len(q) + 1, Len(q)) = <<>>
  BY <1>1, <1>2, SubSeqEmpty
<1> QED BY <1>2, <1>3, FreshEmpty DEF Queue!Get

(* The steps.                                                                  *)

\* A call of xbee_xmodem_tx_tick leaves the buffer, takes its first byte or
\* flushes it.
LEMMA TickBuffer ==
    ASSUME TypeOK, TxTick \/ TxTimeout
    PROVE  rxbuf' \in {rxbuf, Rest, Flushed} /\ in' = in
BY DEF TxTick, TxTimeout, Start, Send, Resend, Answered, SendEot, FinalAnswer, AckTimeout,
       FinalTimeout, AssemblePacket

\* What is put of a payload is a beginning of it.
LEMMA CastIs ==
    ASSUME NEW s \in Seq(Chars)
    PROVE  /\ Cast(s) \in Seq(Chars)
           /\ Len(Cast(s)) \in 0 .. Len(s)
           /\ Cast(s) = SubSeq(s, 1, Len(Cast(s)))
<1>1. PICK n \in Nat : n = Len(s)
  BY LenProperties
<1>2. PICK k \in 0 .. n : k = n % LengthMod
  BY OtaAssumption
<1>3. \A i \in 1 .. k : s[i] \in Chars
  BY <1>1
<1>4. SubSeq(s, 1, k) \in Seq(Chars) /\ Len(SubSeq(s, 1, k)) = k
  BY <1>3, SubSeqProperties
<1> QED BY <1>1, <1>2, <1>4 DEF Cast

\* What comes back joins the buffer as one put.
LEMMA DeliverPuts ==
    ASSUME TypeOK, Deliver
    PROVE  /\ in' \in Seq(Chars)
           /\ rxbuf' \in Buffers
           /\ Queue!Put(Cast(SubSeq(in, 1, Len(in) - Len(in'))))
           /\ Queue!Next
<1>1. in \in Seq(Chars) /\ Len(in) \in Nat /\ rxbuf \in Buffers
  BY DEF TypeOK
<1>2. PICK n \in 1 .. Smaller(Len(in), MaxPayload) :
         /\ rxbuf' = CBufPut(rxbuf, Cast(SubSeq(in, 1, n)))
         /\ in' = SubSeq(in, n + 1, Len(in))
  BY DEF Deliver, TransparentRx
<1>3. MaxPayload \in Nat
  BY OtaAssumption
<1>4. n \in 1 .. Len(in) /\ n \in 0 .. MaxPayload
  BY <1>1, <1>2, <1>3 DEF Smaller
<1>5. /\ SubSeq(in, 1, n) \in Seq(Chars)
      /\ Len(SubSeq(in, 1, n)) = n
      /\ SubSeq(in, n + 1, Len(in)) \in Seq(Chars)
      /\ Len(SubSeq(in, n + 1, Len(in))) = Len(in) - n
  BY <1>1, <1>4
<1>6. Len(in) - Len(in') = n
  BY <1>1, <1>2, <1>4, <1>5
<1>7. PICK p : p = Cast(SubSeq(in, 1, n))
  OBVIOUS
<1>8. p \in Seq(Chars) /\ Len(p) \in 0 .. n
  BY <1>5, <1>7, CastIs
<1>9. rxbuf' \in Buffers /\ Queue!Put(p)
  BY <1>1, <1>2, <1>7, <1>8, PutStep
<1>10. p \in Payloads
  <2>1. PICK l \in 0 .. MaxPayload : l = Len(p)
    BY <1>3, <1>4, <1>8
  <2>2. p \in [1 .. l -> Chars]
    BY <1>8, <2>1, LenProperties
  <2> QED BY <2>1, <2>2 DEF Payloads
<1> QED BY <1>2, <1>5, <1>6, <1>7, <1>9, <1>10 DEF Payloads, Queue!Next

\* Every step is one of the queue's, or leaves it alone.
LEMMA BufferStep ==
    ASSUME TypeOK, [Next]_vars
    PROVE  /\ in' \in Seq(Chars)
           /\ rxbuf' \in Buffers
           /\ [Queue!Next]_(Contents(rxbuf))
<1>1. in \in Seq(Chars) /\ rxbuf \in Buffers /\ Mask \in Nat /\ Mask >= 1
  BY MaskAssumption DEF TypeOK
<1>2. ASSUME TxTick \/ TxTimeout
      PROVE  in' = in /\ rxbuf' \in Buffers /\ [Queue!Next]_(Contents(rxbuf))
  <2>1. in' = in /\ rxbuf' \in {rxbuf, Rest, Flushed}
    BY <1>2, TickBuffer
  <2>2. CASE rxbuf' = rxbuf
    BY <1>1, <2>1, <2>2
  <2>3. CASE rxbuf' = Rest
    <3>1. 1 \in Nat /\ 1 \in 0 .. Mask
      BY <1>1
    <3>2. rxbuf' \in Buffers /\ Queue!Get(1)
      BY <1>1, <2>3, <3>1, GetStep DEF Rest
    <3> QED BY <2>1, <3>1, <3>2 DEF Queue!Next
  <2>4. CASE rxbuf' = Flushed
    <3>1. Mask \in 0 .. Mask
      BY <1>1
    <3>2. rxbuf' \in Buffers /\ Queue!Get(Mask)
      BY <1>1, <2>4, GetStep DEF Flushed
    <3> QED BY <2>1, <3>1, <3>2 DEF Queue!Next
  <2> QED BY <2>1, <2>2, <2>3, <2>4
<1>3. ASSUME OtaInit
      PROVE  in' = in /\ rxbuf' \in Buffers /\ [Queue!Next]_(Contents(rxbuf))
  <2>1. in' = in /\ rxbuf' = Fresh
    BY <1>3 DEF OtaInit
  <2>2. rxbuf' \in Buffers /\ Queue!Get(Mask) /\ Mask \in 0 .. Mask
    BY <1>1, <2>1, ClearStep
  <2> QED BY <2>1, <2>2 DEF Queue!Next
<1>4. CASE Deliver
  BY <1>4, DeliverPuts
<1>5. ASSUME ClockTick \/ OtherNode \/ LoseOut
      PROVE  in' = in /\ rxbuf' = rxbuf
  BY <1>5 DEF ClockTick, OtherNode, LoseOut, TransparentRx
<1>6. ASSUME LoseIn \/ Receive \/ Ask
      PROVE  in' \in Seq(Chars) /\ rxbuf' = rxbuf
  <2>1. ASSUME NEW ch \in Chars, Reply(ch) PROVE in' \in Seq(Chars)
    BY <1>1, <2>1 DEF Reply
  <2>2. {"ACK", "NAK", "CAN", StartChar} \subseteq Chars
    BY CharsAssumption DEF Chars
  <2>3. CASE LoseIn
    BY <1>1, <2>3 DEF LoseIn
  <2>4. CASE Receive
    <3>1. ASSUME NEW m, StoreBlock(m) PROVE in' \in Seq(Chars)
      BY <2>1, <2>2, <3>1 DEF StoreBlock
    <3> QED BY <1>1, <2>1, <2>2, <2>4, <3>1 DEF Receive
  <2>5. CASE Ask
    BY <2>1, <2>2, <2>5 DEF Ask
  <2>6. rxbuf' = rxbuf
    BY <1>6 DEF LoseIn, Receive, Ask
  <2> QED BY <1>6, <2>3, <2>4, <2>5, <2>6
<1>7. CASE UNCHANGED vars
  BY <1>1, <1>7 DEF vars
<1> QED
  BY <1>1, <1>2, <1>3, <1>4, <1>5, <1>6, <1>7 DEF Next

(* The ranges of the sender's fields.                                          *)

\* While a packet waits for its answer, its number is at most the blocks read.
Numbers == /\ packetNum <= loaded + 1
           /\ state \in {"WAIT_ACK", "RESEND"} => packetNum <= loaded

TypeInv == TypeOK /\ Numbers

SenderOK == /\ state \in {"unused", "START", "SEND", "RESEND", "WAIT_ACK", "EOF",
                          "FINAL_ACK", "SUCCESS", "FAILURE"}
            /\ check \in {"none", "checksum", "crc"}
            /\ packetNum \in 0 .. Blocks + 1
            /\ tries \in 0 .. 3
            /\ loaded \in 0 .. Blocks
            /\ timer \in 0 .. ClockMod - 1
            /\ clock \in 0 .. ClockMod - 1

LEMMA SenderTick ==
    ASSUME TypeInv, TxTick \/ TxTimeout
    PROVE  SenderOK' /\ Numbers'
<1>1. SenderOK /\ Numbers
  BY DEF TypeInv, TypeOK, SenderOK
<1>2. Blocks \in Nat /\ ClockMod \in Nat /\ ClockMod > 0
  BY OtaAssumption
<1>3. CASE Start
  BY <1>1, <1>2, <1>3 DEF Start, AssemblePacket, SendBlock, Fail, SenderOK, Numbers, sender
<1>4. CASE Send
  BY <1>1, <1>2, <1>4 DEF Send, AssemblePacket, SendBlock, Fail, SenderOK, Numbers
<1>5. CASE Resend
  BY <1>1, <1>2, <1>5 DEF Resend, SendBlock, SenderOK, Numbers
<1>6. CASE Answered
  BY <1>1, <1>2, <1>6 DEF Answered, TryAgain, Fail, SenderOK, Numbers
<1>7. CASE AckTimeout
  BY <1>1, <1>2, <1>7 DEF AckTimeout, TryAgain, Fail, SenderOK, Numbers
<1>8. CASE SendEot
  BY <1>1, <1>2, <1>8 DEF SendEot, SenderOK, Numbers
<1>9. CASE FinalAnswer
  BY <1>1, <1>2, <1>9 DEF FinalAnswer, TryAgain, Fail, SenderOK, Numbers
<1>10. CASE FinalTimeout
  BY <1>1, <1>2, <1>10 DEF FinalTimeout, TryAgain, Fail, SenderOK, Numbers
<1> QED
  BY <1>3, <1>4, <1>5, <1>6, <1>7, <1>8, <1>9, <1>10 DEF TxTick, TxTimeout

LEMMA SenderStep ==
    ASSUME TypeInv, [Next]_vars
    PROVE  SenderOK' /\ Numbers'
<1>1. SenderOK /\ Numbers
  BY DEF TypeInv, TypeOK, SenderOK
<1>2. Blocks \in Nat /\ ClockMod \in Nat /\ ClockMod > 0
  BY OtaAssumption
<1>3. CASE OtaInit
  BY <1>1, <1>2, <1>3 DEF OtaInit, SenderOK, Numbers, sender
<1>4. CASE ClockTick
  BY <1>1, <1>2, <1>4 DEF ClockTick, SenderOK, Numbers, sender
<1>5. CASE Deliver \/ OtherNode \/ LoseOut \/ LoseIn \/ Receive \/ Ask
  <2>1. UNCHANGED <<sender, clock>>
    BY <1>5 DEF Deliver, OtherNode, LoseOut, LoseIn, Receive, Ask
  <2> QED BY <1>1, <2>1 DEF SenderOK, Numbers, sender
<1>6. CASE UNCHANGED vars
  BY <1>1, <1>6 DEF vars, SenderOK, Numbers
<1> QED
  BY <1>3, <1>4, <1>5, <1>6, SenderTick DEF Next

\* The receiver's state and the number of updates started.
LEMMA RestStep ==
    ASSUME TypeInv, [Next]_vars
    PROVE  rstate' \in {"off", "open", "done", "aborted"} /\ sessions' \in 0 .. MaxSessions
<1>1. rstate \in {"off", "open", "done", "aborted"} /\ sessions \in 0 .. MaxSessions
  BY DEF TypeInv, TypeOK
<1>2. MaxSessions \in Nat
  BY OtaAssumption
<1>3. CASE Receive
  <2>1. ASSUME NEW m, StoreBlock(m) PROVE rstate' \in {rstate, "aborted"}
    BY <2>1 DEF StoreBlock, receiver
  <2>2. rstate' \in {rstate, "open", "done", "aborted"}
    BY <1>3, <2>1 DEF Receive, receiver
  <2> QED BY <1>1, <1>3, <2>2 DEF Receive
<1>4. CASE OtaInit
  BY <1>1, <1>2, <1>4 DEF OtaInit, receiver
<1>5. CASE Deliver \/ OtherNode \/ LoseOut \/ LoseIn \/ Ask \/ ClockTick
  BY <1>1, <1>5 DEF Deliver, OtherNode, LoseOut, LoseIn, Ask, ClockTick, receiver
<1>6. CASE TxTick \/ TxTimeout
  BY <1>1, <1>6 DEF TxTick, TxTimeout, Start, Send, Resend, Answered, SendEot, FinalAnswer,
                    AckTimeout, FinalTimeout, receiver
<1>7. CASE UNCHANGED vars
  BY <1>1, <1>7 DEF vars
<1> QED
  BY <1>3, <1>4, <1>5, <1>6, <1>7 DEF Next

LEMMA InitTypeInv == Init => TypeInv
<1> SUFFICES ASSUME Init PROVE TypeInv
  OBVIOUS
<1>1. Blocks \in Nat /\ ClockMod \in Nat /\ ClockMod > 0 /\ MaxSessions \in Nat
  BY OtaAssumption
<1>2. rxbuf \in Buffers
  BY FreshEmpty DEF Init
<1> QED BY <1>1, <1>2 DEF Init, TypeInv, TypeOK, Numbers

LEMMA NextTypeInv == TypeInv /\ [Next]_vars => TypeInv'
BY BufferStep, SenderStep, RestStep DEF TypeInv, TypeOK, SenderOK

\* The sender's fields keep their ranges and rxbuf is always a buffer, for every
\* constant and every failing send (xbee_xmodem.c:300-553).
THEOREM TypeCorrect == Spec => []TypeOK
<1>1. TypeInv => TypeOK
  BY DEF TypeInv
<1> QED BY <1>1, InitTypeInv, NextTypeInv, PTL DEF Spec

\* The circular buffer between the network's callback and the sender implements a
\* bounded queue, for every size and every position of its two indices
\* (xbee_cbuf.c:102-166).
THEOREM BufferImplementsQueue == Spec => BufferIsQueue
<1>1. Init => Queue!Init
  BY FreshEmpty DEF Init, Queue!Init
<1>2. TypeInv /\ [Next]_vars => [Queue!Next]_(Contents(rxbuf))
  BY BufferStep DEF TypeInv
<1>3. TypeInv /\ [Next]_vars =>
         [Deliver => Queue!Put(Cast(SubSeq(in, 1, Len(in) - Len(in'))))]_vars
  BY DeliverPuts DEF TypeInv
<1> QED
  BY <1>1, <1>2, <1>3, InitTypeInv, NextTypeInv, PTL DEF Spec, BufferIsQueue, Queue!Spec

(* The order of the blocks.                                                    *)

\* What the sender may put on the air: a block always travels under its own number.
Messages == [kind : {"start", "eot", "can"}] \cup
            {[kind |-> "block", num |-> d % NumMod, data |-> d, check |-> c] :
                d \in 1 .. Blocks, c \in {"none", "checksum", "crc"}}

\* packet_num is the number of the block in xbxm->buffer, or of the one to be read.
Lockstep == /\ state = "START" => loaded = 0
            /\ state = "SEND" => packetNum = loaded + 1
            /\ state \in {"WAIT_ACK", "RESEND"} => packetNum = loaded /\ loaded >= 1

OrderInv == /\ TypeInv
            /\ Lockstep
            /\ out \in Seq(Messages)
            /\ got \in Seq(1 .. Blocks)
            /\ InOrder

LEMMA OnAirOK ==
    ASSUME out \in Seq(Messages), NEW m \in Messages
    PROVE  OnAir(m) \in Seq(Messages)
BY DEF OnAir

LEMMA MessagesOK ==
    /\ \A k \in {"start", "eot", "can"} : [kind |-> k] \in Messages
    /\ \A d \in 1 .. Blocks, c \in {"none", "checksum", "crc"} :
          [kind |-> "block", num |-> d % NumMod, data |-> d, check |-> c] \in Messages
BY DEF Messages

LEMMA FailOK ==
    ASSUME out \in Seq(Messages), Fail
    PROVE  out' \in Seq(Messages) /\ state' = "FAILURE"
BY OnAirOK, MessagesOK DEF Fail

LEMMA TryAgainOK ==
    ASSUME out \in Seq(Messages), NEW again, TryAgain(again)
    PROVE  /\ out' \in Seq(Messages)
           /\ loaded' = loaded
           /\ state' \in {again, "FAILURE"}
BY FailOK DEF TryAgain, Fail

\* A block that goes out goes out under packet_num.
LEMMA SendBlockOK ==
    ASSUME out \in Seq(Messages), NEW again \in BOOLEAN, NEW block \in 1 .. Blocks,
           packetNum' = block, check' \in {"none", "checksum", "crc"}, SendBlock(again, block)
    PROVE  out' \in Seq(Messages)
<1>1. [kind |-> "block", num |-> packetNum' % NumMod, data |-> block, check |-> check'] \in Messages
  BY MessagesOK
<1> QED BY <1>1, OnAirOK DEF SendBlock

LEMMA AssembleOK ==
    ASSUME OrderInv, "first" \notin MayFail, NEW rest, AssemblePacket(rest),
           packetNum' = loaded + 1, check' \in {"none", "checksum", "crc"}
    PROVE  Lockstep' /\ out' \in Seq(Messages)
<1>1. out \in Seq(Messages) /\ loaded \in 0 .. Blocks /\ Blocks \in Nat
  BY OtaAssumption DEF OrderInv, TypeInv, TypeOK
<1>2. CASE loaded < Blocks /\ loaded' = loaded + 1 /\ SendBlock(FALSE, loaded + 1)
  <2>1. loaded + 1 \in 1 .. Blocks
    BY <1>1, <1>2
  <2>2. out' \in Seq(Messages)
    BY <1>1, <1>2, <2>1, SendBlockOK
  <2>3. state' = "WAIT_ACK"
    BY <1>2 DEF SendBlock, Outcomes
  <2> QED BY <1>1, <1>2, <2>1, <2>2, <2>3 DEF Lockstep
<1>3. CASE state' = "EOF" /\ out' = out
  BY <1>1, <1>3 DEF Lockstep
<1>4. CASE Fail
  BY <1>1, <1>4, FailOK DEF Lockstep
<1> QED BY <1>2, <1>3, <1>4 DEF AssemblePacket

LEMMA OrderTick ==
    ASSUME OrderInv, "first" \notin MayFail, TxTick \/ TxTimeout
    PROVE  Lockstep' /\ out' \in Seq(Messages) /\ got' = got
<1>1. /\ out \in Seq(Messages) /\ Lockstep
      /\ packetNum \in 0 .. Blocks + 1 /\ loaded \in 0 .. Blocks /\ Blocks \in Nat
      /\ check \in {"none", "checksum", "crc"}
  BY OtaAssumption DEF OrderInv, TypeInv, TypeOK
<1>2. got' = got
  BY DEF TxTick, TxTimeout, Start, Send, Resend, Answered, SendEot, FinalAnswer,
         AckTimeout, FinalTimeout, receiver
<1>3. CASE Start
  <2>1. loaded = 0
    BY <1>1, <1>3 DEF Start, Lockstep
  <2>2. CASE NextChar \in {"NAK", "C"}
    <3>1. packetNum' = loaded + 1 /\ check' \in {"none", "checksum", "crc"} /\ AssemblePacket(Rest)
      BY <1>3, <2>1, <2>2 DEF Start
    <3> QED BY <1>2, <3>1, AssembleOK
  <2>3. CASE NextChar \notin {"NAK", "C"}
    BY <1>1, <1>2, <1>3, <2>3 DEF Start, sender, Lockstep
  <2> QED BY <2>2, <2>3
<1>4. CASE Send
  <2>1. packetNum' = loaded + 1 /\ check' = check /\ AssemblePacket(rxbuf)
    BY <1>1, <1>4 DEF Send, Lockstep
  <2> QED BY <1>1, <1>2, <2>1, AssembleOK
<1>5. CASE Resend
  <2>1. /\ packetNum' = packetNum /\ packetNum = loaded /\ loaded \in 1 .. Blocks
        /\ check' = check /\ loaded' = loaded
        /\ SendBlock(TRUE, loaded)
    <3>1. /\ state = "RESEND" /\ packetNum' = packetNum /\ check' = check
          /\ loaded' = loaded /\ SendBlock(TRUE, loaded)
      BY <1>5 DEF Resend
    <3>2. packetNum = loaded /\ loaded >= 1
      BY <1>1, <3>1 DEF Lockstep
    <3>3. loaded \in 1 .. Blocks
      BY <1>1, <3>2
    <3> QED BY <3>1, <3>2, <3>3
  <2>2. out' \in Seq(Messages)
    BY <1>1, <2>1, SendBlockOK
  <2>3. state' \in {"WAIT_ACK", "RESEND"}
    BY <2>1 DEF SendBlock
  <2> QED BY <1>2, <2>1, <2>2, <2>3 DEF Lockstep
<1>6. CASE Answered
  <2>1. state = "WAIT_ACK" /\ packetNum = loaded /\ loaded >= 1
    BY <1>1, <1>6 DEF Answered, Lockstep
  <2>2. CASE NextChar = "ACK"
    <3>1. packetNum' = packetNum + 1 /\ state' = "SEND" /\ loaded' = loaded /\ out' = out
      BY <1>6, <2>2 DEF Answered
    <3> QED BY <1>1, <1>2, <2>1, <3>1 DEF Lockstep
  <2>3. CASE NextChar # "ACK"
    <3>1. TryAgain("RESEND") /\ packetNum' = packetNum
      BY <1>6, <2>3 DEF Answered
    <3> QED BY <1>1, <1>2, <2>1, <3>1, TryAgainOK DEF Lockstep
  <2> QED BY <2>2, <2>3
<1>7. CASE AckTimeout
  <2>1. /\ packetNum = loaded /\ loaded >= 1
        /\ packetNum' = packetNum /\ TryAgain("RESEND")
    BY <1>1, <1>7 DEF AckTimeout, Lockstep
  <2> QED BY <1>1, <1>2, <2>1, TryAgainOK DEF Lockstep
<1>8. CASE SendEot
  BY <1>1, <1>2, <1>8, OnAirOK, MessagesOK DEF SendEot, Lockstep
<1>9. CASE FinalAnswer
  BY <1>1, <1>2, <1>9, TryAgainOK DEF FinalAnswer, Lockstep
<1>10. CASE FinalTimeout
  BY <1>1, <1>2, <1>10, TryAgainOK DEF FinalTimeout, Lockstep
<1> QED
  BY <1>3, <1>4, <1>5, <1>6, <1>7, <1>8, <1>9, <1>10 DEF TxTick, TxTimeout

\* A number up to the modulus, reduced.
LEMMA ModValue ==
    ASSUME NEW x \in Nat, NEW n \in Nat, n > 0
    PROVE  (x < n => x % n = x) /\ (x = n => x % n = 0)
OBVIOUS

\* Numbers up to the image's last block are told apart by their remainders.
LEMMA SameNumber ==
    ASSUME Blocks \in Nat, Blocks < NumMod, NEW d \in 1 .. Blocks, NEW l \in 0 .. Blocks,
           d % NumMod = (l + 1) % NumMod
    PROVE  d = l + 1
<1>1. NumMod \in Nat /\ d \in Nat /\ d > 0 /\ d < NumMod /\ d % NumMod = d
  <2>1. NumMod \in Nat /\ d \in Nat /\ d > 0 /\ d < NumMod
    BY OtaAssumption
  <2> QED BY <2>1, ModValue
<1>2. PICK e \in Nat : e = l + 1 /\ e <= NumMod
  BY <1>1
<1>3. (e < NumMod => e % NumMod = e) /\ (e = NumMod => e % NumMod = 0)
  BY <1>1, <1>2, ModValue
<1> QED BY <1>1, <1>2, <1>3

\* The number of the block that comes next says which one it is.
Told ==
    out # <<>> /\ rstate = "open" /\ Head(out).kind = "block" =>
       /\ Head(out).num = (Len(got) + 1) % NumMod => Head(out).data = Len(got) + 1
       /\ Head(out).num = Len(got) % NumMod /\ got # <<>> => Head(out).data = Len(got)

LEMMA HeadIs ==
    ASSUME OrderInv, out # <<>>
    PROVE  /\ Head(out) \in Messages
           /\ Head(out).kind = "block" =>
                 Head(out).data \in 1 .. Blocks /\ Head(out).num = Head(out).data % NumMod
<1>1. Head(out) \in Messages
  BY DEF OrderInv
<1>2. \A m \in Messages : m.kind = "block" => m.data \in 1 .. Blocks /\ m.num = m.data % NumMod
  BY DEF Messages
<1> QED BY <1>1, <1>2

\* That is so when the image has fewer blocks than there are numbers.
LEMMA ToldShort ==
    ASSUME OrderInv, Blocks < NumMod
    PROVE  Told
<1> SUFFICES ASSUME out # <<>>, Head(out).kind = "block" PROVE
       /\ Head(out).num = (Len(got) + 1) % NumMod => Head(out).data = Len(got) + 1
       /\ Head(out).num = Len(got) % NumMod /\ got # <<>> => Head(out).data = Len(got)
  BY DEF Told
<1>1. PICK d \in 1 .. Blocks : Head(out).data = d /\ Head(out).num = d % NumMod
  BY HeadIs
<1>2. Blocks \in Nat /\ got \in Seq(1 .. Blocks) /\ Len(got) <= Blocks
  BY OtaAssumption DEF OrderInv, InOrder
<1>3. PICK l \in 0 .. Blocks : l = Len(got)
  BY <1>2
<1>4. d % NumMod = (l + 1) % NumMod => d = l + 1
  BY <1>2, SameNumber
<1>5. ASSUME d % NumMod = l % NumMod, got # <<>> PROVE d = l
  <2>1. l >= 1
    BY <1>2, <1>3, <1>5, EmptySeq
  <2>2. PICK k \in 0 .. Blocks : k = l - 1 /\ k + 1 = l
    BY <1>2, <2>1
  <2> QED BY <1>2, <1>5, <2>2, SameNumber
<1> QED BY <1>1, <1>3, <1>4, <1>5

\* A block is stored only where it belongs.
LEMMA OrderReceive ==
    ASSUME OrderInv, Told, Receive
    PROVE  got' \in Seq(1 .. Blocks) /\ InOrder' /\ out' \in Seq(Messages)
<1>1. /\ out \in Seq(Messages) /\ got \in Seq(1 .. Blocks) /\ InOrder
      /\ Blocks \in Nat /\ NumMod \in Nat
  BY OtaAssumption DEF OrderInv
<1>2. out # <<>> /\ out' = Tail(out) /\ Head(out) \in Messages /\ Tail(out) \in Seq(Messages)
  BY <1>1 DEF Receive
<1>3. ASSUME Head(out).kind = "block", rstate = "open", StoreBlock(Head(out))
      PROVE  \/ got' = got
             \/ \E d \in 1 .. Blocks : d = Len(got) + 1 /\ got' = Append(got, d)
  <2>1. got' = got \/ (Head(out).num = (Len(got) + 1) % NumMod /\ got' = Append(got, Head(out).data))
    BY <1>3 DEF StoreBlock, receiver
  <2> QED BY <1>2, <1>3, <2>1, HeadIs DEF Told
<1>4. \/ got' = got
      \/ got' = <<>>
      \/ \E d \in 1 .. Blocks : d = Len(got) + 1 /\ got' = Append(got, d)
  BY <1>2, <1>3 DEF Receive, receiver
<1>5. CASE got' = got
  BY <1>1, <1>2, <1>5 DEF InOrder
<1>6. CASE got' = <<>>
  BY <1>1, <1>2, <1>6 DEF InOrder
<1>7. ASSUME NEW d \in 1 .. Blocks, d = Len(got) + 1, got' = Append(got, d)
      PROVE  got' \in Seq(1 .. Blocks) /\ InOrder'
  <2>1. got' \in Seq(1 .. Blocks) /\ Len(got') = d
    BY <1>1, <1>7
  <2>2. ASSUME NEW i \in 1 .. Len(got') PROVE got'[i] = i
    BY <1>1, <1>7, <2>1, <2>2 DEF InOrder
  <2> QED BY <1>1, <2>1, <2>2 DEF InOrder
<1> QED BY <1>2, <1>4, <1>5, <1>6, <1>7

LEMMA NextOrderInv ==
    ASSUME OrderInv, "first" \notin MayFail, Told, [Next]_vars
    PROVE  OrderInv'
<1>1. /\ out \in Seq(Messages) /\ got \in Seq(1 .. Blocks) /\ InOrder /\ Lockstep
  BY DEF OrderInv
<1>2. TypeInv'
  BY NextTypeInv DEF OrderInv
<1>3. CASE TxTick \/ TxTimeout
  BY <1>1, <1>2, <1>3, OrderTick DEF OrderInv, InOrder
<1>4. CASE Receive
  <2>1. UNCHANGED sender
    BY <1>4 DEF Receive
  <2> QED BY <1>1, <1>2, <1>4, <2>1, OrderReceive DEF OrderInv, Lockstep, sender
<1>5. CASE OtaInit
  <2>1. got' = got
    BY <1>5 DEF OtaInit, receiver
  <2>2. Lockstep' /\ out' \in Seq(Messages)
    BY <1>1, <1>5, OnAirOK, MessagesOK DEF OtaInit, sender, Lockstep
  <2> QED BY <1>1, <1>2, <2>1, <2>2 DEF OrderInv, InOrder
<1>6. CASE Deliver \/ OtherNode \/ LoseOut \/ LoseIn \/ Ask \/ ClockTick
  <2>1. UNCHANGED sender /\ got' = got /\ out' \in Seq(Messages)
    <3>1. CASE LoseOut
      BY <1>1, <3>1 DEF LoseOut, receiver
    <3>2. CASE Deliver
      BY <1>1, <3>2 DEF Deliver, receiver
    <3>3. CASE OtherNode \/ LoseIn \/ Ask \/ ClockTick
      BY <1>1, <3>3 DEF OtherNode, LoseIn, Ask, ClockTick, receiver
    <3> QED BY <1>6, <3>1, <3>2, <3>3
  <2> QED BY <1>1, <1>2, <2>1 DEF OrderInv, InOrder, Lockstep, sender
<1>7. CASE UNCHANGED vars
  BY <1>1, <1>2, <1>7 DEF vars, OrderInv, InOrder, Lockstep
<1> QED
  BY <1>3, <1>4, <1>5, <1>6, <1>7 DEF Next

LEMMA InitOrderInv == Init => OrderInv
<1>1. Init => Lockstep /\ out \in Seq(Messages) /\ got \in Seq(1 .. Blocks) /\ InOrder
  BY OtaAssumption DEF Init, Lockstep, InOrder
<1> QED BY <1>1, InitTypeInv DEF OrderInv

\* As long as the first sending of a block is never refused and block numbers do
\* not wrap, the receiver's blocks are the beginning of the image, whatever the
\* network loses or delays and however often blocks go out again
\* (xbee_xmodem.c:346-482).  MCOtaSkips shows the first assumption is needed.
THEOREM BlocksInOrder ==
    ASSUME "first" \notin MayFail, Blocks < NumMod
    PROVE  Spec => []InOrder
<1>1. OrderInv /\ [Next]_vars => OrderInv'
  BY NextOrderInv, ToldShort
<1>2. OrderInv => InOrder
  BY DEF OrderInv
<1> QED BY InitOrderInv, <1>1, <1>2, PTL DEF Spec

-----------------------------------------------------------------------------
(* What success means.                                                         *)

\* No acknowledgement in a sequence of characters, and at most one.
AckFree(s)   == \A i \in 1 .. Len(s) : s[i] # "ACK"
AtMostOne(s) == \A i, j \in 1 .. Len(s) : s[i] = "ACK" /\ s[j] = "ACK" => i = j

\* The same of what is on its way to the sender: the buffer and then the air.
Held   == Contents(rxbuf)
NoAck  == AckFree(Held) /\ AckFree(in)
OneAck == \/ AckFree(Held) /\ AtMostOne(in)
          \/ AtMostOne(Held) /\ AckFree(in)

\* What a queue of characters keeps when some go from its front or its back,
\* and what it is after two are joined.
LEMMA Drop ==
    ASSUME NEW S, NEW s \in Seq(S), NEW k \in 0 .. Len(s), NEW t, t = SubSeq(s, k + 1, Len(s))
    PROVE  /\ AckFree(s) => AckFree(t)
           /\ AtMostOne(s) => AtMostOne(t)
           /\ AtMostOne(s) /\ k = 1 /\ s[1] = "ACK" => AckFree(t)
<1>1. PICK n \in Nat : n = Len(s)
  BY LenProperties
<1>2. k \in Nat /\ k <= n
  BY <1>1
<1>3. Len(t) = n - k /\ \A i \in 1 .. n - k : t[i] = s[k + i] /\ k + i \in 1 .. n
  <2>1. CASE k = n
    BY <1>1, <1>2, <2>1, SubSeqEmpty
  <2>2. CASE k < n
    BY <1>1, <1>2, <2>2
  <2> QED BY <1>2, <2>1, <2>2
<1>4. AckFree(s) => AckFree(t)
  BY <1>1, <1>3 DEF AckFree
<1>5. AtMostOne(s) => AtMostOne(t)
  <2> SUFFICES ASSUME AtMostOne(s), NEW i \in 1 .. n - k, NEW j \in 1 .. n - k, t[i] = "ACK", t[j] = "ACK"
               PROVE  i = j
    BY <1>3 DEF AtMostOne
  <2>1. k + i \in 1 .. n /\ k + j \in 1 .. n /\ s[k + i] = "ACK" /\ s[k + j] = "ACK"
    BY <1>3
  <2>2. k + i = k + j
    BY <1>1, <2>1 DEF AtMostOne
  <2> QED BY <1>2, <2>2
<1>6. ASSUME AtMostOne(s), k = 1, s[1] = "ACK" PROVE AckFree(t)
  <2> SUFFICES ASSUME NEW i \in 1 .. n - k, t[i] = "ACK" PROVE FALSE
    BY <1>3 DEF AckFree
  <2>1. k + i \in 1 .. n /\ s[k + i] = "ACK" /\ 1 \in 1 .. n /\ k + i # 1
    BY <1>2, <1>3, <1>6
  <2> QED BY <1>1, <1>6, <2>1 DEF AtMostOne
<1> QED BY <1>4, <1>5, <1>6

LEMMA Cut ==
    ASSUME NEW S, NEW s \in Seq(S), NEW k \in 0 .. Len(s), NEW t, t = SubSeq(s, 1, k)
    PROVE  Len(t) = k /\ \A i \in 1 .. k : t[i] = s[i]
<1>1. PICK n \in Nat : n = Len(s)
  BY LenProperties
<1>2. CASE k = 0
  BY <1>2, SubSeqEmpty
<1>3. CASE k # 0
  BY <1>1, <1>3
<1> QED BY <1>2, <1>3

LEMMA Keep ==
    ASSUME NEW S, NEW s \in Seq(S), NEW k \in 0 .. Len(s), NEW t, t = SubSeq(s, 1, k)
    PROVE  /\ AckFree(s) => AckFree(t)
           /\ AtMostOne(s) => AtMostOne(t)
<1>1. Len(t) = k /\ \A i \in 1 .. k : t[i] = s[i] /\ i \in 1 .. Len(s)
  BY Cut
<1> QED BY <1>1 DEF AckFree, AtMostOne

LEMMA Split ==
    ASSUME NEW S, NEW s \in Seq(S), NEW k \in 0 .. Len(s), NEW t, t = SubSeq(s, 1, k),
           NEW u, u = SubSeq(s, k + 1, Len(s)), AtMostOne(s)
    PROVE  AckFree(t) \/ AckFree(u)
<1>1. PICK n \in Nat : n = Len(s)
  BY LenProperties
<1>2. k \in Nat /\ k <= n
  BY <1>1
<1>3. Len(u) = n - k /\ \A i \in 1 .. n - k : u[i] = s[k + i] /\ k + i \in 1 .. n
  <2>1. CASE k = n
    BY <1>1, <1>2, <2>1, SubSeqEmpty
  <2>2. CASE k < n
    BY <1>1, <1>2, <2>2
  <2> QED BY <1>2, <2>1, <2>2
<1>4. Len(t) = k /\ \A i \in 1 .. k : t[i] = s[i]
  BY Cut
<1>5. ASSUME NEW i \in 1 .. k, t[i] = "ACK", NEW j \in 1 .. n - k, u[j] = "ACK" PROVE FALSE
  <2>1. i \in 1 .. n /\ k + j \in 1 .. n /\ s[i] = "ACK" /\ s[k + j] = "ACK" /\ i # k + j
    BY <1>2, <1>3, <1>4, <1>5
  <2> QED BY <1>1, <2>1 DEF AtMostOne
<1> QED BY <1>3, <1>4, <1>5 DEF AckFree

LEMMA Join ==
    ASSUME NEW S, NEW s \in Seq(S), NEW t \in Seq(S), NEW u, u = s \o t
    PROVE  /\ AckFree(s) /\ AckFree(t) => AckFree(u)
           /\ AckFree(s) /\ AtMostOne(t) => AtMostOne(u)
           /\ AtMostOne(s) /\ AckFree(t) => AtMostOne(u)
<1>1. PICK n \in Nat, m \in Nat : n = Len(s) /\ m = Len(t)
  BY LenProperties
<1>2. Len(u) = n + m /\ \A i \in 1 .. n + m : u[i] = IF i <= n THEN s[i] ELSE t[i - n]
  BY <1>1, ConcatProperties
<1>3. \A i \in 1 .. n + m : (i <= n => i \in 1 .. n) /\ (~(i <= n) => i - n \in 1 .. m)
  OBVIOUS
<1>4. AckFree(s) /\ AckFree(t) => AckFree(u)
  BY <1>1, <1>2, <1>3 DEF AckFree
<1>5. AckFree(s) /\ AtMostOne(t) => AtMostOne(u)
  <2> SUFFICES ASSUME AckFree(s), AtMostOne(t), NEW i \in 1 .. n + m, NEW j \in 1 .. n + m,
                      u[i] = "ACK", u[j] = "ACK"
               PROVE  i = j
    BY <1>2 DEF AtMostOne
  <2>1. ~(i <= n) /\ ~(j <= n)
    BY <1>1, <1>2, <1>3 DEF AckFree
  <2>2. t[i - n] = "ACK" /\ t[j - n] = "ACK" /\ i - n \in 1 .. m /\ j - n \in 1 .. m
    BY <1>2, <1>3, <2>1
  <2>3. i - n = j - n
    BY <1>1, <2>2 DEF AtMostOne
  <2> QED BY <1>1, <2>3
<1>6. AtMostOne(s) /\ AckFree(t) => AtMostOne(u)
  <2> SUFFICES ASSUME AtMostOne(s), AckFree(t), NEW i \in 1 .. n + m, NEW j \in 1 .. n + m,
                      u[i] = "ACK", u[j] = "ACK"
               PROVE  i = j
    BY <1>2 DEF AtMostOne
  <2>1. i <= n /\ j <= n
    BY <1>1, <1>2, <1>3 DEF AckFree
  <2>2. s[i] = "ACK" /\ s[j] = "ACK" /\ i \in 1 .. n /\ j \in 1 .. n
    BY <1>2, <1>3, <2>1
  <2> QED BY <1>1, <2>2 DEF AtMostOne
<1> QED BY <1>4, <1>5, <1>6

LEMMA NoneIsOne == ASSUME NEW s, AckFree(s) PROVE AtMostOne(s)
BY DEF AckFree, AtMostOne

LEMMA OneMore ==
    ASSUME NEW s \in Seq(Chars), NEW ch \in Chars, NEW t, t = Append(s, ch)
    PROVE  /\ ch # "ACK" /\ AckFree(s) => AckFree(t)
           /\ ch # "ACK" /\ AtMostOne(s) => AtMostOne(t)
           /\ AckFree(s) => AtMostOne(t)
<1>1. PICK n \in Nat : n = Len(s)
  BY LenProperties
<1>2. Len(t) = n + 1 /\ t[n + 1] = ch /\ \A i \in 1 .. n : t[i] = s[i]
  BY <1>1, AppendProperties
<1>3. \A i \in 1 .. n + 1 : i \in 1 .. n \/ i = n + 1
  OBVIOUS
<1> QED BY <1>1, <1>2, <1>3 DEF AckFree, AtMostOne

LEMMA LineIs ==
    ASSUME TypeOK
    PROVE  /\ Held \in Seq(Cells) /\ in \in Seq(Chars) /\ rxbuf \in Buffers
           /\ Len(Held) = Used(rxbuf) /\ Len(Held) \in Nat /\ Len(in) \in Nat
           /\ Waiting => Held[1] = NextChar
           /\ ~Waiting => Held = <<>>
<1>1. /\ Held \in Seq(Cells) /\ in \in Seq(Chars) /\ rxbuf \in Buffers
      /\ Len(Held) = Used(rxbuf) /\ Len(Held) \in Nat /\ Len(in) \in Nat
  BY ContentsIs, LenProperties DEF TypeOK, Held
<1>2. ASSUME Waiting PROVE Held[1] = NextChar
  <2>1. Used(rxbuf) >= 1 /\ Used(rxbuf) \in Nat
    BY <1>1, <1>2 DEF Waiting
  <2>2. 1 \in 1 .. Smaller(Used(rxbuf), Used(rxbuf)) /\ 1 \in 1 .. Smaller(1, Used(rxbuf))
    BY <2>1 DEF Smaller
  <2> QED BY <2>2 DEF Held, Contents, NextChar, CBufGot
<1>3. ASSUME ~Waiting PROVE Held = <<>>
  <2>1. Len(Held) = 0
    BY <1>1, <1>3, UsedRange DEF Waiting
  <2> QED BY <1>1, <2>1, EmptySeq
<1> QED BY <1>1, <1>2, <1>3

\* Taking the next character.
LEMMA TakenIs ==
    ASSUME TypeOK, rxbuf' = Rest, in' = in
    PROVE  /\ NoAck => NoAck'
           /\ OneAck => OneAck'
           /\ OneAck /\ Waiting /\ NextChar = "ACK" => NoAck'
           /\ in = <<>> /\ ~(Used(Rest) > 0) => NoAck'
<1>1. /\ Held \in Seq(Cells) /\ Len(Held) \in Nat /\ rxbuf \in Buffers
      /\ (Waiting => Held[1] = NextChar) /\ Len(Held) = Used(rxbuf)
  BY LineIs
<1>2. PICK k \in 0 .. Len(Held) : k = Smaller(1, Len(Held))
  BY <1>1 DEF Smaller
<1>3. Held' = SubSeq(Held, k + 1, Len(Held)) /\ Rest \in Buffers
  BY <1>1, <1>2, GetContents DEF Held, Rest
<1>4. /\ AckFree(Held) => AckFree(Held')
      /\ AtMostOne(Held) => AtMostOne(Held')
      /\ AtMostOne(Held) /\ k = 1 /\ Held[1] = "ACK" => AckFree(Held')
  <2>1. PICK s, t : s = Held /\ t = Held'
    OBVIOUS
  <2>2. s \in Seq(Cells) /\ k \in 0 .. Len(s) /\ t = SubSeq(s, k + 1, Len(s))
    BY <1>1, <1>3, <2>1
  <2>3. /\ AckFree(s) => AckFree(t)
        /\ AtMostOne(s) => AtMostOne(t)
        /\ AtMostOne(s) /\ k = 1 /\ s[1] = "ACK" => AckFree(t)
    <3>1. s \in Seq(Cells) /\ k \in 0 .. Len(s)
      BY <2>2
    <3>2. t = SubSeq(s, k + 1, Len(s))
      BY <2>2
    <3>3. (AckFree(s) => AckFree(t)) /\ (AtMostOne(s) => AtMostOne(t))
      BY <3>1, <3>2, Drop, ZenonT(60)
    <3>4. ASSUME AtMostOne(s), k = 1, s[1] = "ACK" PROVE AckFree(t)
      BY <2>2, <3>4, Drop
    <3> QED BY <3>3, <3>4
  <2> QED BY <2>1, <2>3
<1>5. Waiting => k = 1
  BY <1>1, <1>2 DEF Smaller, Waiting
<1>6. Waiting /\ NextChar = "ACK" => ~AckFree(Held)
  BY <1>1 DEF AckFree, Waiting
<1>7. ASSUME in = <<>>, ~(Used(Rest) > 0) PROVE NoAck'
  <2>1. Len(Held') = 0
    BY <1>3, <1>7, ContentsIs, UsedRange DEF Held
  <2>2. AckFree(Held')
    BY <2>1 DEF AckFree
  <2>3. AckFree(in')
    BY <1>7 DEF AckFree
  <2> QED BY <2>2, <2>3 DEF NoAck
<1> QED BY <1>1, <1>4, <1>5, <1>6, <1>7 DEF NoAck, OneAck

LEMMA EmptiedIs ==
    ASSUME TypeOK, rxbuf' = Flushed \/ rxbuf' = Fresh, in' = in, AckFree(in)
    PROVE  NoAck'
<1>1. /\ Held \in Seq(Cells) /\ Len(Held) \in Nat /\ rxbuf \in Buffers /\ Len(Held) = Used(rxbuf)
  BY LineIs
<1>2. Held' = <<>>
  <2>1. CASE rxbuf' = Fresh
    BY <2>1, FreshEmpty DEF Held
  <2>2. CASE rxbuf' = Flushed
    <3>1. Smaller(Mask, Len(Held)) = Len(Held)
      BY <1>1, UsedRange, MaskAssumption DEF Smaller
    <3>2. Held' = SubSeq(Held, Len(Held) + 1, Len(Held))
      BY <1>1, <2>2, <3>1, GetContents, MaskAssumption DEF Held, Flushed
    <3> QED BY <1>1, <3>2, SubSeqEmpty
  <2> QED BY <2>1, <2>2
<1> QED BY <1>2 DEF NoAck, AckFree

\* What arrives at the program's buffer.
LEMMA DeliveredIs ==
    ASSUME TypeOK, Deliver
    PROVE  (NoAck => NoAck') /\ (OneAck => OneAck')
<1>1. /\ Held \in Seq(Cells) /\ in \in Seq(Chars) /\ rxbuf \in Buffers
      /\ Len(Held) \in Nat /\ Len(in) \in Nat /\ Len(Held) \in 0 .. Mask
  BY LineIs, UsedRange
<1>2. PICK n \in 1 .. Smaller(Len(in), MaxPayload) :
         /\ rxbuf' = CBufPut(rxbuf, Cast(SubSeq(in, 1, n)))
         /\ in' = SubSeq(in, n + 1, Len(in))
  BY DEF Deliver, TransparentRx
<1>3. n \in 0 .. Len(in) /\ n \in Nat
  <2>1. MaxPayload \in Nat
    BY OtaAssumption
  <2> QED BY <1>1, <1>2, <2>1 DEF Smaller
<1>4. PICK w, p : w = SubSeq(in, 1, n) /\ p = Cast(w)
  OBVIOUS
<1>5. /\ w \in Seq(Chars) /\ Len(w) = n
      /\ p \in Seq(Chars) /\ Len(p) \in Nat /\ Len(p) \in 0 .. Len(w)
      /\ p = SubSeq(w, 1, Len(p))
  <2>1. w \in Seq(Chars) /\ Len(w) = n
    BY <1>1, <1>3, <1>4, Cut, SubSeqProperties
  <2>2. /\ Cast(w) \in Seq(Chars) /\ Len(Cast(w)) \in 0 .. Len(w)
        /\ Cast(w) = SubSeq(w, 1, Len(Cast(w)))
    BY <2>1, CastIs
  <2>3. p \in Seq(Chars) /\ Len(p) \in 0 .. Len(w) /\ p = SubSeq(w, 1, Len(p))
    BY <1>4, <2>2
  <2> QED BY <1>3, <2>1, <2>3
<1>6. PICK k \in 0 .. Len(p) : k = Smaller(Len(p), Mask - Len(Held))
  <2>1. PICK l \in 0 .. Mask : l = Len(Held)
    BY <1>1
  <2>2. Len(p) \in Nat /\ Mask - l \in Nat
    BY <1>5, <2>1, MaskAssumption
  <2>3. Smaller(Len(p), Mask - l) \in 0 .. Len(p)
    BY <2>2 DEF Smaller
  <2> QED BY <2>1, <2>3
<1>7. PICK f : f = SubSeq(p, 1, k)
  OBVIOUS
<1>8. Held' = Held \o f
  <2>1. p \in Seq(Byte)
    BY <1>5, PayloadIsSeq
  <2> QED BY <1>1, <1>2, <1>4, <1>6, <1>7, <2>1, PutContents DEF Held
<1>9. f \in Seq(Cells)
  <2>1. f \in Seq(Chars)
    BY <1>5, <1>6, <1>7, Cut, SubSeqProperties
  <2> QED BY <2>1, PayloadIsSeq DEF Cells
<1>10. /\ AckFree(in) => AckFree(p) /\ AckFree(in')
       /\ AtMostOne(in) => AtMostOne(p) /\ AtMostOne(in')
       /\ AtMostOne(in) => AckFree(p) \/ AckFree(in')
  <2>1. PICK u : u = SubSeq(in, n + 1, Len(in)) /\ u = in'
    BY <1>2
  <2>2. (AckFree(in) => AckFree(w)) /\ (AtMostOne(in) => AtMostOne(w))
    BY <1>1, <1>3, <1>4, Keep
  <2>3. (AckFree(w) => AckFree(p)) /\ (AtMostOne(w) => AtMostOne(p))
    BY <1>5, Keep
  <2>4. (AckFree(in) => AckFree(u)) /\ (AtMostOne(in) => AtMostOne(u))
    BY <1>1, <1>3, <2>1, Drop
  <2>5. AtMostOne(in) => AckFree(w) \/ AckFree(u)
    BY <1>1, <1>3, <1>4, <2>1, Split
  <2> QED BY <2>1, <2>2, <2>3, <2>4, <2>5
<1>11. (AckFree(p) => AckFree(f)) /\ (AtMostOne(p) => AtMostOne(f))
  BY <1>5, <1>6, <1>7, Keep
<1>12. /\ AckFree(Held) /\ AckFree(f) => AckFree(Held')
       /\ AckFree(Held) /\ AtMostOne(f) => AtMostOne(Held')
       /\ AtMostOne(Held) /\ AckFree(f) => AtMostOne(Held')
  BY <1>1, <1>8, <1>9, Join
<1> QED BY <1>10, <1>11, <1>12 DEF NoAck, OneAck

\* A character that is lost, and one the receiver sends.
LEMMA LostIs ==
    ASSUME TypeOK, LoseIn
    PROVE  (NoAck => NoAck') /\ (OneAck => OneAck')
<1>1. in \in Seq(Chars) /\ in # <<>> /\ in' = Tail(in) /\ Held' = Held
  BY DEF TypeOK, LoseIn, Held
<1>2. 1 \in 0 .. Len(in) /\ in' = SubSeq(in, 1 + 1, Len(in))
  BY <1>1
<1>3. (AckFree(in) => AckFree(in')) /\ (AtMostOne(in) => AtMostOne(in'))
  BY <1>1, <1>2, Drop
<1> QED BY <1>1, <1>3 DEF NoAck, OneAck

LEMMA RepliedIs ==
    ASSUME TypeOK, NEW ch \in Chars, Reply(ch), rxbuf' = rxbuf
    PROVE  /\ ch # "ACK" /\ NoAck => NoAck'
           /\ ch # "ACK" /\ OneAck => OneAck'
           /\ NoAck => OneAck'
<1>1. in \in Seq(Chars) /\ Held' = Held
  BY DEF TypeOK, Held
<1>2. CASE in' = in
  BY <1>1, <1>2, NoneIsOne DEF NoAck, OneAck
<1>3. CASE in' = Append(in, ch)
  <2>1. /\ ch # "ACK" /\ AckFree(in) => AckFree(in')
        /\ ch # "ACK" /\ AtMostOne(in) => AtMostOne(in')
        /\ AckFree(in) => AtMostOne(in')
    BY <1>1, <1>3, OneMore
  <2> QED BY <1>1, <2>1 DEF NoAck, OneAck
<1> QED BY <1>2, <1>3 DEF Reply

IsStart(m) == m.kind = "start"
IsBlock(m) == m.kind = "block" /\ m.data = loaded

\* What may be on the air to the target before a packet goes out, and when one
\* has.
AtStart  == \/ Len(out) = 0
            \/ Len(out) = 1 /\ IsStart(out[1])
UnderWay == \/ AtStart
            \/ Len(out) = 1 /\ IsBlock(out[1])
            \/ Len(out) = 2 /\ IsStart(out[1]) /\ IsBlock(out[2])

IsWhole == Len(got) = Blocks

\* Where a transfer stands in which no answer crossed a packet sent again: a
\* packet, the acknowledgement of it, or neither, is on its way, and never two.
Transfer ==
    /\ state = "START" => AtStart /\ NoAck
    /\ state = "SEND" => Len(out) = 0 /\ NoAck /\ Len(got) = loaded
    /\ state = "RESEND" => Len(out) = 0 /\ NoAck
    /\ state = "WAIT_ACK" => \/ NoAck /\ UnderWay
                             \/ OneAck /\ Len(out) = 0 /\ Len(got) = loaded
    /\ state \in {"EOF", "FINAL_ACK"} =>
          /\ IsWhole
          /\ rstate = "done" \/ NoAck
          /\ \A i \in 1 .. Len(out) : out[i].kind # "block" /\ (out[i].kind = "start" => Blocks = 0)
    /\ state = "SUCCESS" => rstate = "done" /\ IsWhole

WholeInv == OrderInv /\ (crossed \/ Transfer)

LEMMA OutIs ==
    ASSUME OrderInv
    PROVE  /\ out \in Seq(Messages) /\ Len(out) \in Nat /\ Len(got) \in 0 .. Blocks
           /\ Blocks \in Nat /\ NumMod \in Nat /\ loaded \in 0 .. Blocks /\ TypeOK
BY OtaAssumption, LenProperties DEF OrderInv, TypeInv, TypeOK, InOrder

\* What a message adds to the air.
LEMMA SentIs ==
    ASSUME OrderInv, NEW m \in Messages, out' = OnAir(m)
    PROVE  \/ out' = out
           \/ /\ Len(out') = Len(out) + 1 /\ out'[Len(out) + 1] = m
              /\ \A i \in 1 .. Len(out) : out'[i] = out[i]
<1>1. out \in Seq(Messages)
  BY DEF OrderInv
<1> QED BY <1>1, AppendProperties DEF OnAir

\* A packet that goes out from the start, or after a pause.
LEMMA PacketOut ==
    ASSUME OrderInv, AtStart, NoAck', NEW again \in BOOLEAN, NEW block \in 1 .. Blocks,
           again \/ "first" \notin MayFail, loaded' = block, packetNum' = block,
           check' \in {"none", "checksum", "crc"}, SendBlock(again, block),
           again => Len(out) = 0
    PROVE  Transfer'
<1>1. out \in Seq(Messages) /\ Len(out) \in Nat
  BY OutIs
<1>2. CASE state' = "RESEND" /\ out' = out /\ again
  BY <1>2 DEF Transfer
<1>3. CASE state' = "WAIT_ACK"
  <2>1. PICK m : m = [kind |-> "block", num |-> packetNum' % NumMod, data |-> block, check |-> check']
    OBVIOUS
  <2>2. m \in Messages /\ m.kind = "block" /\ m.data = loaded'
    BY <2>1, MessagesOK
  <2>3. out' = OnAir(m)
    BY <1>3, <2>1 DEF SendBlock
  <2>4. UnderWay'
    <3>1. CASE out' = out
      BY <3>1 DEF UnderWay, AtStart, IsStart
    <3>2. CASE /\ Len(out') = Len(out) + 1 /\ out'[Len(out) + 1] = m
               /\ \A i \in 1 .. Len(out) : out'[i] = out[i]
      <4>1. CASE Len(out) = 0
        BY <2>2, <3>2, <4>1 DEF UnderWay, IsBlock
      <4>2. CASE Len(out) = 1 /\ IsStart(out[1])
        <5>1. Len(out') = 2 /\ out'[2] = m /\ out'[1] = out[1]
          BY <3>2, <4>2
        <5> QED BY <2>2, <4>2, <5>1 DEF UnderWay, IsBlock, IsStart
      <4> QED BY <4>1, <4>2 DEF AtStart
    <3> QED BY <2>2, <2>3, <3>1, <3>2, SentIs
  <2> QED BY <1>3, <2>4 DEF Transfer
<1> QED BY <1>2, <1>3 DEF SendBlock, Outcomes

LEMMA Assembled ==
    ASSUME OrderInv, "first" \notin MayFail, AtStart, NoAck, NEW rest, AssemblePacket(rest),
           rxbuf' = rest => NoAck', in' = in, got' = got, rstate' = rstate,
           packetNum' = loaded + 1, check' \in {"none", "checksum", "crc"},
           loaded = Blocks => Len(got) = Blocks /\ (Len(out) = 0 \/ Blocks = 0)
    PROVE  Transfer'
<1>1. Blocks \in Nat /\ loaded \in 0 .. Blocks /\ TypeOK
  BY OutIs
<1>2. CASE loaded < Blocks /\ loaded' = loaded + 1 /\ rxbuf' = Flushed /\ SendBlock(FALSE, loaded + 1)
  <2>1. NoAck'
    BY <1>1, <1>2, EmptiedIs DEF NoAck
  <2>2. PICK block \in 1 .. Blocks : block = loaded + 1
    BY <1>1, <1>2
  <2>3. PICK again \in BOOLEAN : again = FALSE
    OBVIOUS
  <2>4. /\ loaded' = block /\ packetNum' = block /\ SendBlock(again, block)
        /\ (again => Len(out) = 0) /\ (again \/ "first" \notin MayFail)
    BY <1>2, <2>2, <2>3
  <2> QED BY <2>1, <2>4, PacketOut
<1>3. CASE loaded = Blocks /\ state' = "EOF" /\ rxbuf' = rest /\ out' = out
  <2>1. IsWhole' /\ NoAck'
    BY <1>3 DEF IsWhole
  <2>2. \A i \in 1 .. Len(out) : out[i].kind # "block" /\ (out[i].kind = "start" => Blocks = 0)
    BY <1>3 DEF AtStart, IsStart
  <2> QED BY <1>3, <2>1, <2>2 DEF Transfer
<1>4. CASE Fail
  BY <1>4 DEF Fail, Transfer
<1> QED BY <1>2, <1>3, <1>4 DEF AssemblePacket

\* A call of xbee_xmodem_tx_tick.
LEMMA TransferTick ==
    ASSUME OrderInv, Transfer, "first" \notin MayFail, TxTick \/ TxTimeout
    PROVE  (crossed \/ Transfer)'
<1>1. /\ out \in Seq(Messages) /\ Len(out) \in Nat /\ Len(got) \in 0 .. Blocks
      /\ Blocks \in Nat /\ loaded \in 0 .. Blocks /\ TypeOK /\ Lockstep
      /\ check \in {"none", "checksum", "crc"} /\ packetNum \in 0 .. Blocks + 1
  BY OutIs DEF OrderInv, TypeOK
<1>2. in' = in /\ got' = got /\ rstate' = rstate
  BY DEF TxTick, TxTimeout, Start, Send, Resend, Answered, SendEot, FinalAnswer,
         AckTimeout, FinalTimeout, receiver
<1>3. CASE Start
  <2>1. loaded = 0 /\ AtStart /\ NoAck
    BY <1>1, <1>3 DEF Start, Lockstep, Transfer
  <2>2. rxbuf' = Rest => NoAck'
    BY <1>1, <1>2, <2>1, TakenIs
  <2>3. CASE NextChar \in {"NAK", "C"}
    <3>1. packetNum' = loaded + 1 /\ check' \in {"none", "checksum", "crc"} /\ AssemblePacket(Rest)
      BY <1>3, <2>1, <2>3 DEF Start
    <3>2. loaded = Blocks => Len(got) = Blocks /\ (Len(out) = 0 \/ Blocks = 0)
      BY <1>1, <2>1
    <3> QED BY <1>2, <2>1, <2>2, <3>1, <3>2, Assembled
  <2>4. CASE NextChar \notin {"NAK", "C"}
    <3>1. rxbuf' = Rest /\ UNCHANGED <<sender, out>> /\ state = "START"
      BY <1>3, <2>4 DEF Start
    <3> QED BY <2>1, <2>2, <3>1 DEF Transfer, sender, AtStart, IsStart
  <2> QED BY <2>3, <2>4
<1>4. CASE Send
  <2>1. packetNum' = loaded + 1 /\ check' = check /\ AssemblePacket(rxbuf)
    BY <1>1, <1>4 DEF Send, Lockstep
  <2>2. Len(out) = 0 /\ NoAck /\ Len(got) = loaded
    BY <1>4 DEF Send, Transfer
  <2>3. rxbuf' = rxbuf => NoAck'
    BY <1>2, <2>2 DEF NoAck, Held
  <2>4. AtStart
    BY <2>2 DEF AtStart
  <2> QED BY <1>1, <1>2, <2>1, <2>2, <2>3, <2>4, Assembled
<1>5. CASE Resend
  <2>1. /\ packetNum' = packetNum /\ packetNum = loaded /\ loaded >= 1
        /\ check' = check /\ loaded' = loaded /\ rxbuf' = rxbuf /\ SendBlock(TRUE, loaded)
    BY <1>1, <1>5 DEF Resend, Lockstep
  <2>2. Len(out) = 0 /\ NoAck
    BY <1>5 DEF Resend, Transfer
  <2>3. NoAck' /\ AtStart
    BY <1>2, <2>1, <2>2 DEF NoAck, Held, AtStart
  <2>4. PICK block \in 1 .. Blocks, again \in BOOLEAN : block = loaded /\ again = TRUE
    <3>1. loaded \in 1 .. Blocks
      BY <1>1, <2>1
    <3> QED BY <3>1
  <2>5. /\ loaded' = block /\ packetNum' = block /\ SendBlock(again, block)
        /\ (again => Len(out) = 0) /\ (again \/ "first" \notin MayFail)
        /\ check' \in {"none", "checksum", "crc"}
    BY <1>1, <2>1, <2>2, <2>4
  <2> QED BY <2>3, <2>5, PacketOut
<1>6. CASE Answered
  <2>1. /\ state = "WAIT_ACK" /\ Waiting /\ rxbuf' = Rest
        /\ (NoAck /\ UnderWay) \/ (OneAck /\ Len(out) = 0 /\ Len(got) = loaded)
    BY <1>6 DEF Answered, Transfer
  <2>2. CASE NextChar = "ACK"
    <3>1. state' = "SEND" /\ loaded' = loaded /\ out' = out
      BY <1>6, <2>2 DEF Answered
    <3>2. ~NoAck
      <4>1. Held[1] = "ACK" /\ Len(Held) >= 1
        BY <1>1, <2>1, <2>2, LineIs DEF Waiting
      <4> QED BY <1>1, <4>1, LineIs DEF NoAck, AckFree
    <3>3. NoAck'
      BY <1>1, <1>2, <2>1, <2>2, <3>2, TakenIs
    <3> QED BY <1>2, <2>1, <3>1, <3>2, <3>3 DEF Transfer
  <2>3. CASE NextChar # "ACK"
    <3>1. /\ TryAgain("RESEND")
          /\ crossed' = (crossed \/ out # <<>> \/ in # <<>> \/ Used(Rest) > 0)
      BY <1>6, <2>3 DEF Answered
    <3>2. CASE state' = "RESEND" /\ out' = out
      <4>1. SUFFICES ASSUME ~crossed' PROVE Transfer'
        OBVIOUS
      <4>2. out = <<>> /\ in = <<>> /\ ~(Used(Rest) > 0)
        BY <3>1, <4>1
      <4>3. NoAck' /\ Len(out) = 0
        BY <1>1, <1>2, <2>1, <4>2, TakenIs
      <4> QED BY <3>2, <4>3 DEF Transfer
    <3>3. CASE state' = "FAILURE"
      BY <3>3 DEF Transfer
    <3> QED BY <3>1, <3>2, <3>3 DEF TryAgain, Fail
  <2> QED BY <2>2, <2>3
<1>7. CASE AckTimeout
  <2>1. /\ TryAgain("RESEND") /\ ~Waiting /\ rxbuf' = rxbuf
        /\ crossed' = (crossed \/ out # <<>> \/ in # <<>>)
    BY <1>7 DEF AckTimeout
  <2>2. CASE state' = "RESEND" /\ out' = out
    <3>1. SUFFICES ASSUME ~crossed' PROVE Transfer'
      OBVIOUS
    <3>2. out = <<>> /\ in = <<>> /\ Held = <<>>
      BY <1>1, <2>1, <3>1, LineIs
    <3>3. NoAck' /\ Len(out) = 0
      BY <1>2, <2>1, <3>2 DEF NoAck, AckFree, Held
    <3> QED BY <2>2, <3>3 DEF Transfer
  <2>3. CASE state' = "FAILURE"
    BY <2>3 DEF Transfer
  <2> QED BY <2>1, <2>2, <2>3 DEF TryAgain, Fail
<1>8. CASE SendEot
  <2>1. /\ state = "EOF" /\ state' = "FINAL_ACK" /\ rxbuf' = rxbuf /\ loaded' = loaded
        /\ out' = out \/ out' = OnAir([kind |-> "eot"])
    BY <1>8 DEF SendEot
  <2>2. /\ IsWhole /\ (rstate = "done" \/ NoAck)
        /\ \A i \in 1 .. Len(out) : out[i].kind # "block" /\ (out[i].kind = "start" => Blocks = 0)
    BY <2>1 DEF Transfer
  <2>3. PICK m \in Messages : m = [kind |-> "eot"]
    BY MessagesOK
  <2>4. \A i \in 1 .. Len(out') : out'[i].kind # "block" /\ (out'[i].kind = "start" => Blocks = 0)
    <3>1. CASE out' = out
      BY <2>2, <3>1
    <3>2. CASE /\ Len(out') = Len(out) + 1 /\ out'[Len(out) + 1] = m
               /\ \A i \in 1 .. Len(out) : out'[i] = out[i]
      <4>1. \A i \in 1 .. Len(out') : i \in 1 .. Len(out) \/ i = Len(out) + 1
        BY <1>1, <3>2
      <4>2. m.kind = "eot"
        BY <2>3
      <4> QED BY <2>2, <3>2, <4>1, <4>2
    <3> QED BY <2>1, <2>3, <3>1, <3>2, SentIs
  <2>5. IsWhole' /\ (rstate' = "done" \/ NoAck')
    BY <1>2, <2>1, <2>2 DEF IsWhole, NoAck, Held
  <2> QED BY <2>1, <2>4, <2>5 DEF Transfer
<1>9. CASE FinalAnswer \/ FinalTimeout
  <2>1. /\ IsWhole /\ (rstate = "done" \/ NoAck)
        /\ \A i \in 1 .. Len(out) : out[i].kind # "block" /\ (out[i].kind = "start" => Blocks = 0)
    BY <1>9 DEF FinalAnswer, FinalTimeout, Transfer
  <2>2. rxbuf' = rxbuf \/ rxbuf' = Rest
    BY <1>9 DEF FinalAnswer, FinalTimeout
  <2>3. IsWhole' /\ (rstate' = "done" \/ NoAck')
    <3>1. rxbuf' = rxbuf => (NoAck => NoAck')
      BY <1>2 DEF NoAck, Held
    <3> QED BY <1>1, <1>2, <2>1, <2>2, <3>1, TakenIs DEF IsWhole
  <2>4. CASE state' = "EOF" /\ out' = out
    BY <2>1, <2>3, <2>4 DEF Transfer
  <2>5. CASE state' = "FAILURE"
    BY <2>5 DEF Transfer
  <2>6. CASE FinalAnswer /\ NextChar = "ACK" /\ state' = "SUCCESS"
    <3>1. ~NoAck
      <4>1. Held[1] = "ACK" /\ Len(Held) >= 1
        BY <1>1, <2>6, LineIs DEF Waiting, FinalAnswer
      <4> QED BY <1>1, <4>1, LineIs DEF NoAck, AckFree
    <3> QED BY <1>2, <2>1, <2>3, <2>6, <3>1 DEF Transfer
  <2>7. CASE TryAgain("EOF")
    BY <2>4, <2>5, <2>7 DEF TryAgain, Fail
  <2> QED BY <1>9, <2>6, <2>7 DEF FinalAnswer, FinalTimeout
<1> QED
  BY <1>3, <1>4, <1>5, <1>6, <1>7, <1>8, <1>9 DEF TxTick, TxTimeout

\* What the target does with the next message.
LEMMA TransferReceive ==
    ASSUME OrderInv, Transfer, Told, Receive
    PROVE  Transfer'
<1>1. /\ out \in Seq(Messages) /\ Len(out) \in Nat /\ Len(got) \in 0 .. Blocks
      /\ Blocks \in Nat /\ loaded \in 0 .. Blocks /\ TypeOK /\ Lockstep
  BY OutIs DEF OrderInv
<1>2. /\ out # <<>> /\ out' = Tail(out) /\ UNCHANGED sender /\ rxbuf' = rxbuf
      /\ state' = state /\ loaded' = loaded
  BY DEF Receive, sender
<1>3. /\ Len(out) >= 1 /\ Len(out') = Len(out) - 1 /\ \A i \in 1 .. Len(out) - 1 : out'[i] = out[i + 1]
      /\ Head(out) = out[1]
  BY <1>1, <1>2
<1>4. PICK m \in Messages : m = out[1]
  BY <1>1, <1>3
<1>5. \/ m.kind = "start" /\ rstate \in {"off", "aborted"} /\ rstate' = "open" /\ got' = <<>> /\ Reply(StartChar)
      \/ m.kind = "block" /\ rstate = "open" /\ StoreBlock(m)
      \/ m.kind = "eot" /\ rstate \in {"open", "done"} /\ rstate' = "done" /\ got' = got /\ Reply("ACK")
      \/ m.kind = "can" /\ rstate = "open" /\ rstate' = "aborted" /\ got' = got /\ in' = in
      \/ rstate' = rstate /\ got' = got /\ in' = in
  BY <1>3, <1>4 DEF Receive, receiver
<1>6. ASSUME in' = in PROVE NoAck => NoAck'
  BY <1>2, <1>6 DEF NoAck, Held
<1>7. StartChar \in Chars \ {"ACK"} /\ {"NAK", "CAN", "ACK"} \subseteq Chars
  BY CharsAssumption DEF Chars
<1>8. ASSUME Reply(StartChar) PROVE NoAck => NoAck'
  BY <1>1, <1>2, <1>7, <1>8, RepliedIs
<1>9. ASSUME m.kind = "block", rstate = "open", StoreBlock(m), NoAck
      PROVE  NoAck' \/ (OneAck' /\ Len(got') = m.data)
  <2>1. \/ Reply("NAK") \/ Reply("CAN")
        \/ Reply("ACK") /\ m.num = (Len(got) + 1) % NumMod /\ got' = Append(got, m.data)
        \/ Reply("ACK") /\ m.num = Len(got) % NumMod /\ got # <<>> /\ got' = got
    BY <1>9 DEF StoreBlock, receiver
  <2>2. CASE Reply("NAK") \/ Reply("CAN")
    BY <1>1, <1>2, <1>7, <1>9, <2>2, RepliedIs
  <2>3. CASE Reply("ACK")
    <3>1. OneAck'
      BY <1>1, <1>2, <1>7, <1>9, <2>3, RepliedIs
    <3>2. got \in Seq(1 .. Blocks)
      BY DEF OrderInv
    <3>3. CASE m.num = (Len(got) + 1) % NumMod /\ got' = Append(got, m.data)
      <4>1. m.data = Len(got) + 1 /\ Len(got') = Len(got) + 1
        BY <1>2, <1>3, <1>4, <1>9, <3>2, <3>3, AppendProperties DEF Told
      <4> QED BY <3>1, <4>1
    <3>4. CASE m.num = Len(got) % NumMod /\ got # <<>> /\ got' = got
      <4>1. m.data = Len(got)
        BY <1>2, <1>3, <1>4, <1>9, <3>4 DEF Told
      <4> QED BY <3>1, <3>4, <4>1
    <3> QED BY <2>1, <2>2, <3>3, <3>4
  <2> QED BY <2>1, <2>2, <2>3
<1>10. CASE state \in {"START", "WAIT_ACK"} /\ NoAck /\ UnderWay /\ (state = "START" => AtStart)
  <2>1. CASE IsStart(m)
    <3>1. NoAck'
      BY <1>5, <1>6, <1>8, <1>10, <2>1 DEF IsStart
    <3>2. AtStart => AtStart'
      BY <1>3 DEF AtStart
    <3>3. UnderWay'
      <4>1. IsStart(out[1])
        BY <1>4, <2>1
      <4> QED BY <1>2, <1>3, <1>10, <4>1 DEF UnderWay, AtStart, IsStart, IsBlock
    <3> QED BY <1>2, <1>10, <3>1, <3>2, <3>3 DEF Transfer
  <2>2. CASE IsBlock(m) /\ Len(out) = 1 /\ state = "WAIT_ACK"
    <3>1. Len(out') = 0
      BY <1>3, <2>2
    <3>2. NoAck' \/ (OneAck' /\ Len(got') = loaded)
      BY <1>5, <1>6, <1>9, <1>10, <2>2 DEF IsBlock
    <3> QED BY <1>2, <2>2, <3>1, <3>2 DEF Transfer, UnderWay, AtStart
  <2>3. IsStart(m) \/ (IsBlock(m) /\ Len(out) = 1 /\ state = "WAIT_ACK")
    BY <1>3, <1>4, <1>10 DEF UnderWay, AtStart, IsStart, IsBlock
  <2> QED BY <2>1, <2>2, <2>3
<1>11. CASE state \in {"EOF", "FINAL_ACK"}
  <2>1. /\ IsWhole /\ (rstate = "done" \/ NoAck)
        /\ \A i \in 1 .. Len(out) : out[i].kind # "block" /\ (out[i].kind = "start" => Blocks = 0)
    BY <1>11 DEF Transfer
  <2>2. m.kind # "block" /\ (m.kind = "start" => Blocks = 0)
    BY <1>3, <1>4, <2>1
  <2>3. \A i \in 1 .. Len(out') : out'[i].kind # "block" /\ (out'[i].kind = "start" => Blocks = 0)
    <3>1. \A i \in 1 .. Len(out') : i \in 1 .. Len(out) - 1 /\ i + 1 \in 1 .. Len(out)
      BY <1>1, <1>3
    <3> QED BY <1>3, <2>1, <3>1
  <2>4. IsWhole' /\ (rstate' = "done" \/ NoAck')
    <3>1. Len(<<>>) = 0
      OBVIOUS
    <3> QED BY <1>5, <1>6, <1>8, <2>1, <2>2, <3>1 DEF IsWhole
  <2> QED BY <1>2, <1>11, <2>3, <2>4 DEF Transfer
<1>12. CASE state = "SUCCESS"
  <2>1. rstate = "done" /\ IsWhole
    BY <1>12 DEF Transfer
  <2>2. rstate' = "done" /\ IsWhole'
    BY <1>5, <2>1 DEF IsWhole
  <2> QED BY <1>2, <1>12, <2>2 DEF Transfer
<1>13. CASE state \notin {"START", "WAIT_ACK", "EOF", "FINAL_ACK", "SUCCESS"}
  BY <1>1, <1>2, <1>3, <1>13 DEF Transfer
<1>14. CASE state \in {"START", "WAIT_ACK"}
  <2>1. NoAck /\ UnderWay /\ (state = "START" => AtStart)
    BY <1>3, <1>14 DEF Transfer, UnderWay
  <2> QED BY <1>10, <1>14, <2>1
<1> QED
  BY <1>11, <1>12, <1>13, <1>14

LEMMA TransferStart ==
    ASSUME OrderInv, OtaInit
    PROVE  (crossed \/ Transfer)'
<1>1. SUFFICES ASSUME ~crossed' PROVE Transfer'
  OBVIOUS
<1>2. /\ out = <<>> /\ in = <<>> /\ in' = in /\ rxbuf' = Fresh
      /\ out \in Seq(Messages) /\ Len(out) = 0 /\ TypeOK /\ state \in {"unused", "FAILURE"}
  BY <1>1, OutIs DEF OtaInit
<1>3. NoAck'
  BY <1>2, EmptiedIs DEF AckFree
<1>4. CASE state' = state
  BY <1>2, <1>4 DEF Transfer
<1>5. CASE state' = "START" /\ out' = OnAir([kind |-> "start"])
  <2>1. PICK m \in Messages : m = [kind |-> "start"]
    BY MessagesOK
  <2>2. AtStart'
    <3>1. CASE out' = out
      BY <1>2, <3>1 DEF AtStart
    <3>2. CASE Len(out') = Len(out) + 1 /\ out'[Len(out) + 1] = m
      BY <1>2, <2>1, <3>2 DEF AtStart, IsStart
    <3> QED BY <1>5, <2>1, <3>1, <3>2, SentIs
  <2> QED BY <1>3, <1>5, <2>2 DEF Transfer
<1> QED BY <1>4, <1>5 DEF OtaInit, sender

\* The other steps of the network, of the receiver and of the clock.
LEMMA TransferRest ==
    ASSUME OrderInv, Transfer,
           Deliver \/ OtherNode \/ LoseOut \/ LoseIn \/ Ask \/ ClockTick \/ UNCHANGED vars
    PROVE  Transfer'
<1>1. /\ out \in Seq(Messages) /\ Len(out) \in Nat /\ TypeOK /\ Blocks \in Nat
  BY OutIs
<1>2. state' = state /\ loaded' = loaded /\ got' = got /\ rstate' = rstate
  BY DEF Deliver, OtherNode, LoseOut, LoseIn, Ask, ClockTick, vars, sender, receiver
<1>3. (NoAck => NoAck') /\ (OneAck => OneAck')
  <2>1. CASE Deliver
    BY <1>1, <2>1, DeliveredIs
  <2>2. CASE LoseIn
    BY <1>1, <2>2, LostIs
  <2>3. CASE Ask
    <3>1. StartChar \in Chars /\ StartChar # "ACK" /\ "NAK" \in Chars
      BY CharsAssumption DEF Chars
    <3>2. PICK ch \in Chars : ch # "ACK" /\ Reply(ch) /\ rxbuf' = rxbuf
      BY <2>3, <3>1 DEF Ask
    <3> QED BY <1>1, <3>2, RepliedIs
  <2>4. CASE OtherNode \/ LoseOut \/ ClockTick \/ UNCHANGED vars
    BY <2>4 DEF OtherNode, TransparentRx, LoseOut, ClockTick, vars, NoAck, OneAck, Held
  <2> QED BY <2>1, <2>2, <2>3, <2>4
<1>4. out' = out \/ (out # <<>> /\ out' = Tail(out))
  BY DEF Deliver, OtherNode, LoseOut, LoseIn, Ask, ClockTick, vars
<1>5. CASE out' = out
  BY <1>2, <1>3, <1>5 DEF Transfer, UnderWay, AtStart, IsStart, IsBlock, IsWhole
<1>6. CASE out # <<>> /\ out' = Tail(out)
  <2>1. Len(out) >= 1 /\ Len(out') = Len(out) - 1 /\ \A i \in 1 .. Len(out) - 1 : out'[i] = out[i + 1]
    BY <1>1, <1>6
  <2>2. (AtStart => AtStart') /\ (UnderWay => UnderWay')
    BY <1>2, <2>1 DEF UnderWay, AtStart, IsStart, IsBlock
  <2>3. Len(out) # 0
    BY <2>1
  <2>4. ASSUME \A i \in 1 .. Len(out) : out[i].kind # "block" /\ (out[i].kind = "start" => Blocks = 0)
        PROVE  \A i \in 1 .. Len(out') : out'[i].kind # "block" /\ (out'[i].kind = "start" => Blocks = 0)
    <3>1. \A i \in 1 .. Len(out') : i \in 1 .. Len(out) - 1 /\ i + 1 \in 1 .. Len(out)
      BY <1>1, <2>1
    <3> QED BY <2>1, <2>4, <3>1
  <2> QED BY <1>2, <1>3, <2>2, <2>3, <2>4 DEF Transfer, IsWhole
<1> QED BY <1>4, <1>5, <1>6

\* What can go wrong is that a packet was sent again while an answer to it was
\* still on its way; nothing clears the mark.
LEMMA CrossedStays ==
    ASSUME [Next]_vars, crossed
    PROVE  crossed'
BY DEF Next, TxTick, TxTimeout, OtaInit, Deliver, OtherNode, LoseOut, LoseIn, Receive, Ask,
       ClockTick, Start, Send, Resend, Answered, SendEot, FinalAnswer, AckTimeout,
       FinalTimeout, vars

LEMMA NextWholeInv ==
    ASSUME WholeInv, "first" \notin MayFail, Told, [Next]_vars
    PROVE  WholeInv'
<1>1. OrderInv /\ OrderInv'
  BY NextOrderInv DEF WholeInv
<1>2. CASE crossed
  BY <1>1, <1>2, CrossedStays DEF WholeInv
<1>3. CASE Transfer
  <2>1. CASE TxTick \/ TxTimeout
    BY <1>1, <1>3, <2>1, TransferTick DEF WholeInv
  <2>2. CASE Receive
    BY <1>1, <1>3, <2>2, TransferReceive DEF WholeInv
  <2>3. CASE OtaInit
    BY <1>1, <2>3, TransferStart DEF WholeInv
  <2>4. CASE Deliver \/ OtherNode \/ LoseOut \/ LoseIn \/ Ask \/ ClockTick \/ UNCHANGED vars
    BY <1>1, <1>3, <2>4, TransferRest DEF WholeInv
  <2> QED BY <2>1, <2>2, <2>3, <2>4 DEF Next
<1> QED BY <1>2, <1>3 DEF WholeInv

\* A transfer that reports success has left the whole image with a receiver that
\* has closed it, unless a packet was sent again while an answer to it was still
\* on its way: whatever is lost, refused, delivered in pieces or sent by other
\* nodes, and however often it was begun again (xbee_xmodem.c:346-503).
THEOREM SuccessIsWhole ==
    ASSUME "first" \notin MayFail, Blocks < NumMod
    PROVE  Spec => []SuccessMeansWhole
<1>1. Init => WholeInv
  <2> SUFFICES ASSUME Init PROVE WholeInv
    OBVIOUS
  <2>1. OrderInv
    BY InitOrderInv
  <2>2. Transfer
    BY DEF Init, Transfer
  <2> QED BY <2>1, <2>2 DEF WholeInv
<1>2. WholeInv /\ [Next]_vars => WholeInv'
  BY NextWholeInv, ToldShort DEF WholeInv
<1>3. WholeInv => SuccessMeansWhole
  BY DEF WholeInv, Transfer, SuccessMeansWhole, IsWhole
<1> QED BY <1>1, <1>2, <1>3, PTL DEF Spec

-----------------------------------------------------------------------------
(* Images of any length.  How far the sender can be ahead of the receiver.     *)

\* The places of a sequence that hold something of T, and how many they are.
Places(s, T) == {i \in 1 .. Len(s) : s[i] \in T}
Count(s, T)  == Cardinality(Places(s, T))

LEMMA CountIs ==
    ASSUME NEW S, NEW s \in Seq(S), NEW T
    PROVE  IsFiniteSet(Places(s, T)) /\ Count(s, T) \in Nat /\ Count(s, T) <= Len(s)
<1>1. Len(s) \in Nat /\ Places(s, T) \in SUBSET (1 .. Len(s))
  BY LenProperties DEF Places
<1>2. IsFiniteSet(1 .. Len(s)) /\ Cardinality(1 .. Len(s)) = Len(s)
  <2>1. PICK n \in Nat : n = Len(s)
    BY <1>1
  <2>2. 1 \in Int /\ n \in Int /\ (IF 1 > n THEN 0 ELSE n - 1 + 1) = n
    BY <2>1
  <2>3. IsFiniteSet(1 .. n) /\ Cardinality(1 .. n) = IF 1 > n THEN 0 ELSE n - 1 + 1
    BY <2>2, FS_Interval
  <2> QED BY <2>1, <2>2, <2>3
<1>3. IsFiniteSet(Places(s, T)) /\ Cardinality(Places(s, T)) <= Len(s)
  BY <1>1, <1>2, FS_Subset
<1> QED BY <1>3, FS_CardinalityType DEF Count

LEMMA CountAppend ==
    ASSUME NEW S, NEW s \in Seq(S), NEW x \in S, NEW T
    PROVE  Count(Append(s, x), T) = Count(s, T) + IF x \in T THEN 1 ELSE 0
<1>1. PICK n \in Nat : n = Len(s)
  BY LenProperties
<1>2. PICK t : t = Append(s, x)
  OBVIOUS
<1>3. Len(t) = n + 1 /\ t[n + 1] = x /\ \A i \in 1 .. n : t[i] = s[i]
  BY <1>1, <1>2, AppendProperties
<1>4. \A i : i \in 1 .. n + 1 <=> i \in 1 .. n \/ i = n + 1
  BY <1>1
<1>5. n + 1 \notin 1 .. n
  BY <1>1
<1>6. CASE x \in T
  <2>1. Places(t, T) = Places(s, T) \cup {n + 1}
    BY <1>1, <1>3, <1>4, <1>6 DEF Places
  <2>2. n + 1 \notin Places(s, T)
    BY <1>1, <1>5 DEF Places
  <2> QED BY <1>2, <1>6, <2>1, <2>2, CountIs, FS_AddElement DEF Count
<1>7. CASE x \notin T
  <2>1. Places(t, T) = Places(s, T)
    BY <1>1, <1>3, <1>4, <1>5, <1>7 DEF Places
  <2> QED BY <1>2, <1>7, <2>1, CountIs DEF Count
<1> QED BY <1>6, <1>7

\* What goes from the front is no longer counted.
LEMMA CountDrop ==
    ASSUME NEW S, NEW s \in Seq(S), NEW k \in 0 .. Len(s), NEW t \in Seq(S),
           t = SubSeq(s, k + 1, Len(s)), NEW T
    PROVE  /\ Count(t, T) <= Count(s, T)
           /\ (\E i \in 1 .. k : s[i] \in T) => Count(t, T) + 1 <= Count(s, T)
<1>1. PICK n \in Nat : n = Len(s)
  BY LenProperties
<1>2. k \in Nat /\ k <= n
  BY <1>1
<1>3. Len(t) = n - k /\ \A i \in 1 .. n - k : t[i] = s[k + i] /\ k + i \in 1 .. n
  <2>1. CASE k = n
    BY <1>1, <1>2, <2>1, SubSeqEmpty
  <2>2. CASE k < n
    <3>1. k + 1 \in 1 .. n /\ n \in 1 .. n /\ n - (k + 1) + 1 = n - k
      BY <1>2, <2>2
    <3>2. Len(t) = n - k
      BY <1>1, <1>2, <2>2
    <3>3. ASSUME NEW i \in 1 .. n - k PROVE t[i] = s[k + i] /\ k + i \in 1 .. n
      <4>1. i \in 1 .. n - (k + 1) + 1 /\ k + 1 + i - 1 = k + i /\ k + i \in 1 .. n
        BY <1>2
      <4>2. SubSeq(s, k + 1, n)[i] = s[k + 1 + i - 1]
        BY <1>1, <3>1, <4>1, SubSeqProperties
      <4> QED BY <1>1, <4>1, <4>2
    <3> QED BY <3>2, <3>3
  <2> QED BY <1>2, <2>1, <2>2
<1>4. PICK f : f = [i \in Places(t, T) |-> k + i]
  OBVIOUS
<1>5. ASSUME NEW P, \A i \in Places(s, T) : i > k => i \in P
      PROVE  f \in Injection(Places(t, T), P)
  <2>1. \A i \in Places(t, T) : i \in Nat /\ i >= 1 /\ k + i \in Places(s, T)
    BY <1>1, <1>2, <1>3 DEF Places
  <2>2. \A i \in Places(t, T) : k + i \in P
    BY <1>2, <1>5, <2>1
  <2>3. f \in [Places(t, T) -> P]
    BY <1>4, <2>2
  <2>4. \A i, j \in Places(t, T) : f[i] = f[j] => i = j
    BY <1>2, <1>4, <2>1
  <2> QED BY <2>3, <2>4 DEF Injection, IsInjective
<1>6. Count(t, T) <= Count(s, T)
  <2>1. f \in Injection(Places(t, T), Places(s, T))
    BY <1>5
  <2> QED BY <2>1, CountIs, FS_Injection DEF Count
<1>7. ASSUME NEW i \in 1 .. k, s[i] \in T
      PROVE  Count(t, T) + 1 <= Count(s, T)
  <2>1. i \in Places(s, T) /\ ~(i > k)
    BY <1>1, <1>2, <1>7 DEF Places
  <2>2. PICK P : P = Places(s, T) \ {i}
    OBVIOUS
  <2>3. f \in Injection(Places(t, T), P)
    BY <1>5, <2>1, <2>2
  <2>4. IsFiniteSet(P) /\ Cardinality(P) = Count(s, T) - 1
    BY <2>1, <2>2, CountIs, FS_RemoveElement DEF Count
  <2>5. Count(t, T) <= Count(s, T) - 1
    BY <2>3, <2>4, FS_Injection DEF Count
  <2>6. PICK c \in Nat, d \in Nat : c = Count(t, T) /\ d = Count(s, T)
    BY CountIs
  <2> QED BY <2>5, <2>6
<1> QED BY <1>6, <1>7

\* An update is not begun while the receiver is in the middle of another, or with
\* messages of an earlier one still on their way.
CleanStart == OtaInit => rstate # "open" /\ out = <<>>

\* What can still let the sender go on: the acknowledgements on the air and, since
\* a packet goes out after a flush, one of those in the buffer.
Pending == state \in {"WAIT_ACK", "RESEND"} /\ ~AckFree(Held)
Acks    == Count(in, {"ACK"}) + IF Pending THEN 1 ELSE 0

\* The copies of blocks up to j on the air: the only messages that can still
\* draw an acknowledgement from a receiver that has stored fewer than j.
Upto(j)  == {m \in Messages : m.kind = "block" /\ m.data <= j}
Early(j) == Count(out, Upto(j))

\* The most by which packet_num can leave behind the block the receiver waits for.
Apart == MaxOut + MaxIn + 1

Within(j) == packetNum > j + 1 => packetNum + Acks + Early(j + 1) <= j + 1 + Apart

\* The air to the target keeps the order of sending: a start message in front and
\* blocks in ascending order.
Ascending ==
    /\ Len(out) <= MaxOut /\ Len(in) <= MaxIn
    /\ state = "START" => packetNum = 0
    /\ \A i \in 1 .. Len(out) : out[i].kind = "start" => i = 1
    /\ \A i, k \in 1 .. Len(out) :
          i < k /\ out[i].kind = "block" /\ out[k].kind = "block" => out[i].data <= out[k].data
    /\ \A i \in 1 .. Len(out) : out[i].kind = "block" => out[i].data <= packetNum

\* The receiver takes blocks, or will when a start message has reached it; it has
\* so many of this update.
Coming == Len(out) >= 1 /\ IsStart(out[1]) /\ rstate \in {"off", "aborted"}
Live   == Coming \/ rstate = "open"
Base   == IF Coming THEN 0 ELSE Len(got)

Near == Live => /\ Base <= packetNum
                /\ \A i \in 1 .. Len(out) : out[i].kind = "block" => Base <= out[i].data
                /\ \A j \in Nat : Base <= j => Within(j)

NearInv == OrderInv /\ Ascending /\ Near

LEMMA NearTypes ==
    ASSUME OrderInv
    PROVE  /\ out \in Seq(Messages) /\ in \in Seq(Chars) /\ got \in Seq(1 .. Blocks)
           /\ Len(out) \in Nat /\ Len(in) \in Nat /\ Len(got) \in Nat
           /\ packetNum \in Nat /\ loaded \in Nat /\ TypeOK /\ Lockstep /\ TypeInv
           /\ MaxOut \in Nat /\ MaxIn \in Nat /\ Apart \in Nat /\ Blocks \in Nat
           /\ Count(in, {"ACK"}) \in Nat /\ Acks \in Nat /\ Base \in Nat
           /\ \A j : Early(j) \in Nat /\ Early(j) <= Len(out)
           /\ Count(in, {"ACK"}) <= Len(in)
           /\ \A i \in 1 .. Len(out) : out[i].kind = "block" => out[i].data \in 1 .. Blocks
<1>1. /\ out \in Seq(Messages) /\ in \in Seq(Chars) /\ got \in Seq(1 .. Blocks)
      /\ packetNum \in Nat /\ loaded \in Nat /\ TypeOK /\ Lockstep /\ TypeInv
      /\ MaxOut \in Nat /\ MaxIn \in Nat /\ Blocks \in Nat
  BY OtaAssumption DEF OrderInv, TypeInv, TypeOK
<1>2. Len(out) \in Nat /\ Len(in) \in Nat /\ Len(got) \in Nat
  BY <1>1, LenProperties
<1>3. Count(in, {"ACK"}) \in Nat /\ Count(in, {"ACK"}) <= Len(in)
  BY <1>1, CountIs
<1>4. \A j : Early(j) \in Nat /\ Early(j) <= Len(out)
  BY <1>1, CountIs DEF Early
<1>5. Apart \in Nat /\ Acks \in Nat /\ Base \in Nat
  BY <1>1, <1>2, <1>3 DEF Apart, Acks, Base
<1>6. ASSUME NEW i \in 1 .. Len(out), out[i].kind = "block" PROVE out[i].data \in 1 .. Blocks
  <2>1. out[i] \in Messages
    BY <1>1, <1>6
  <2> QED BY <1>6, <2>1 DEF Messages
<1> QED BY <1>1, <1>2, <1>3, <1>4, <1>5, <1>6

\* Two numbers with the same remainder that are not far apart.
LEMMA SameRemainder ==
    ASSUME NEW n \in Nat, n > 0, NEW a \in Nat, NEW b \in Nat, a % n = b % n, a - b < n, b - a < n
    PROVE  a = b
<1> DEFINE p == a \div n
           q == b \div n
<1>1. p \in Int /\ q \in Int /\ a = n * p + (a % n) /\ b = n * q + (b % n)
  OBVIOUS
<1> HIDE DEF p, q
<1>2. a - b = (n * p) - (n * q)
  BY <1>1
<1>3. a - b = n * (p - q)
  BY <1>1, <1>2
<1>4. \A d \in Int : (d >= 1 => n * d >= n) /\ (d <= -1 => n * d <= -n)
  OBVIOUS
<1> QED BY <1>1, <1>3, <1>4

\* Then the number of a block says which one it is, for any length of image.
LEMMA ToldNear ==
    ASSUME NearInv, Apart + 1 < NumMod
    PROVE  Told
<1> SUFFICES ASSUME out # <<>>, rstate = "open", Head(out).kind = "block" PROVE
       /\ Head(out).num = (Len(got) + 1) % NumMod => Head(out).data = Len(got) + 1
       /\ Head(out).num = Len(got) % NumMod /\ got # <<>> => Head(out).data = Len(got)
  BY DEF Told
<1>1. OrderInv /\ NumMod \in Nat /\ Apart \in Nat
  BY NearTypes, OtaAssumption DEF NearInv
<1>2. PICK g \in Nat, p \in Nat : g = Len(got) /\ p = packetNum
  BY <1>1, NearTypes
<1>3. Head(out) = out[1] /\ 1 \in 1 .. Len(out)
  BY <1>1, NearTypes
<1>4. PICK d \in Nat : Head(out).data = d /\ Head(out).num = d % NumMod
  BY <1>1, HeadIs
<1>5. Base = g /\ Live
  BY <1>2 DEF Base, Coming, Live
<1>6. g <= d /\ d <= p
  BY <1>2, <1>3, <1>4, <1>5 DEF NearInv, Ascending, Near
<1>7. p > g + 1 => p <= g + 1 + Apart
  <2>1. Within(g)
    BY <1>2, <1>5 DEF NearInv, Near
  <2>2. Acks \in Nat /\ Early(g + 1) \in Nat
    BY <1>1, NearTypes
  <2> QED BY <1>1, <1>2, <2>1, <2>2 DEF Within
<1>8. d - g < NumMod /\ g - d < NumMod /\ d - (g + 1) < NumMod /\ (g + 1) - d < NumMod
  BY <1>1, <1>6, <1>7
<1>9. d % NumMod = (g + 1) % NumMod => d = g + 1
  <2>1. PICK e \in Nat : e = g + 1
    OBVIOUS
  <2>2. NumMod > 0 /\ d - e < NumMod /\ e - d < NumMod
    BY <1>1, <1>8, <2>1
  <2>3. d % NumMod = e % NumMod => d = e
    BY <1>1, <2>2, SameRemainder
  <2> QED BY <2>1, <2>3
<1>10. d % NumMod = g % NumMod => d = g
  BY <1>1, <1>8, SameRemainder
<1> QED BY <1>2, <1>4, <1>9, <1>10

\* A step that adds e acknowledgements takes as many early blocks off the air.
LEMMA WithinKept ==
    ASSUME OrderInv, NEW j \in Nat, Within(j), packetNum' = packetNum, NEW e \in {0, 1},
           Acks' \in Nat, Early(j + 1)' \in Nat, Acks' <= Acks + e,
           packetNum > j + 1 => Early(j + 1)' + e <= Early(j + 1)
    PROVE  Within(j)'
<1>1. packetNum \in Nat /\ Acks \in Nat /\ Early(j + 1) \in Nat /\ Apart \in Nat /\ Apart' = Apart
  BY NearTypes DEF Apart
<1>2. PICK p \in Nat, a \in Nat, b \in Nat, c \in Nat, d \in Nat, w \in Nat :
         /\ p = packetNum /\ a = Acks /\ b = Early(j + 1) /\ c = Acks' /\ d = Early(j + 1)' /\ w = Apart
  BY <1>1
<1>3. ASSUME p > j + 1 PROVE p + c + d <= j + 1 + w
  <2>1. p + a + b <= j + 1 + w
    BY <1>2, <1>3 DEF Within
  <2>2. c <= a + e /\ d + e <= b
    BY <1>2, <1>3
  <2> QED BY <1>2, <2>1, <2>2
<1> QED BY <1>1, <1>2, <1>3 DEF Within

\* What a call of xbee_xmodem_tx_tick puts on the air.
Emits == \/ out' = out
         \/ /\ Len(out) < MaxOut
            /\ \E m \in Messages : /\ m.kind # "start"
                                   /\ m.kind = "block" => m.data = packetNum'
                                   /\ out' = Append(out, m)

LEMMA OnAirEmits ==
    ASSUME NEW m \in Messages, m.kind # "start", m.kind = "block" => m.data = packetNum',
           out' = OnAir(m)
    PROVE  Emits
BY DEF OnAir, Emits

LEMMA FailEmits == ASSUME Fail PROVE Emits
<1>1. PICK m \in Messages : m = [kind |-> "can"]
  BY MessagesOK
<1>2. out' = out \/ out' = OnAir(m)
  BY <1>1 DEF Fail
<1> QED BY <1>1, <1>2, OnAirEmits DEF Emits

LEMMA BlockEmits ==
    ASSUME NEW again \in BOOLEAN, NEW block \in 1 .. Blocks, packetNum' = block,
           check' \in {"none", "checksum", "crc"}, SendBlock(again, block)
    PROVE  Emits
<1>1. PICK m \in Messages : m = [kind |-> "block", num |-> packetNum' % NumMod, data |-> block, check |-> check']
  BY MessagesOK
<1>2. out' = out \/ out' = OnAir(m)
  BY <1>1 DEF SendBlock
<1> QED BY <1>1, <1>2, OnAirEmits DEF Emits

LEMMA AssembleEmits ==
    ASSUME OrderInv, NEW rest, AssemblePacket(rest), packetNum' = loaded + 1,
           check' \in {"none", "checksum", "crc"}
    PROVE  Emits
<1>1. loaded \in Nat /\ Blocks \in Nat
  BY NearTypes
<1>2. CASE loaded < Blocks /\ SendBlock(FALSE, loaded + 1)
  <2>1. PICK block \in 1 .. Blocks : block = loaded + 1
    BY <1>1, <1>2
  <2>2. PICK again \in BOOLEAN : again = FALSE
    OBVIOUS
  <2> QED BY <1>2, <2>1, <2>2, BlockEmits
<1>3. CASE out' = out
  BY <1>3 DEF Emits
<1> QED BY <1>2, <1>3, FailEmits DEF AssemblePacket

LEMMA AgainEmits == ASSUME NEW again, TryAgain(again) PROVE Emits
BY FailEmits DEF TryAgain, Emits

LEMMA TickEmits ==
    ASSUME OrderInv, TxTick \/ TxTimeout
    PROVE  Emits /\ rstate' = rstate /\ got' = got /\ in' = in
<1>1. /\ packetNum \in Nat /\ loaded \in Nat /\ Blocks \in Nat /\ Lockstep /\ TypeOK
      /\ loaded \in 0 .. Blocks /\ check \in {"none", "checksum", "crc"}
  BY NearTypes DEF TypeOK
<1>2. rstate' = rstate /\ got' = got /\ in' = in
  BY DEF TxTick, TxTimeout, Start, Send, Resend, Answered, SendEot, FinalAnswer,
         AckTimeout, FinalTimeout, receiver
<1>3. CASE Start
  <2>1. loaded = 0
    BY <1>1, <1>3 DEF Start, Lockstep
  <2>2. CASE NextChar \in {"NAK", "C"}
    <3>1. packetNum' = loaded + 1 /\ check' \in {"none", "checksum", "crc"} /\ AssemblePacket(Rest)
      BY <1>3, <2>1, <2>2 DEF Start
    <3> QED BY <1>2, <3>1, AssembleEmits
  <2>3. CASE NextChar \notin {"NAK", "C"}
    BY <1>2, <1>3, <2>3 DEF Start, Emits
  <2> QED BY <2>2, <2>3
<1>4. CASE Send
  <2>1. packetNum' = loaded + 1 /\ check' = check /\ AssemblePacket(rxbuf)
    BY <1>1, <1>4 DEF Send, Lockstep
  <2> QED BY <1>1, <1>2, <2>1, AssembleEmits
<1>5. CASE Resend
  <2>1. packetNum' = loaded /\ loaded >= 1 /\ check' = check /\ SendBlock(TRUE, loaded)
    BY <1>1, <1>5 DEF Resend, Lockstep
  <2>2. loaded \in 1 .. Blocks
    BY <1>1, <2>1
  <2> QED BY <1>1, <1>2, <2>1, <2>2, BlockEmits
<1>6. CASE SendEot
  <2>1. PICK m \in Messages : m = [kind |-> "eot"]
    BY MessagesOK
  <2>2. out' = out \/ out' = OnAir(m)
    BY <1>6, <2>1 DEF SendEot
  <2> QED BY <1>2, <2>1, <2>2, OnAirEmits DEF Emits
<1>7. CASE Answered \/ AckTimeout \/ FinalAnswer \/ FinalTimeout
  BY <1>2, <1>7, AgainEmits DEF Answered, AckTimeout, FinalAnswer, FinalTimeout, Emits
<1> QED BY <1>3, <1>4, <1>5, <1>6, <1>7 DEF TxTick, TxTimeout

\* What a read leaves in the buffer.
LEMMA HeldAfter ==
    ASSUME TypeOK, NEW n \in Nat, rxbuf' = CBufGet(rxbuf, n)
    PROVE  /\ AckFree(Held) => AckFree(Held')
           /\ n = Mask => AckFree(Held')
<1>1. Held \in Seq(Cells) /\ Len(Held) \in 0 .. Mask /\ rxbuf \in Buffers
  BY LineIs, UsedRange
<1>2. PICK k \in 0 .. Len(Held) : k = Smaller(n, Len(Held))
  BY <1>1 DEF Smaller
<1>3. PICK s, t : s = Held /\ t = Held'
  OBVIOUS
<1>4. t = SubSeq(s, k + 1, Len(s))
  BY <1>1, <1>2, <1>3, GetContents DEF Held
<1>5. AckFree(s) => AckFree(t)
  BY <1>1, <1>2, <1>3, <1>4, Drop
<1>6. ASSUME n = Mask PROVE AckFree(t)
  <2>1. k = Len(s)
    BY <1>1, <1>2, <1>3, <1>6 DEF Smaller
  <2>2. t = <<>>
    BY <1>1, <1>3, <1>4, <2>1, SubSeqEmpty
  <2> QED BY <2>2 DEF AckFree
<1> QED BY <1>3, <1>5, <1>6

\* packet_num goes on with an acknowledgement, of which none is left when the
\* packet has gone out.
LEMMA TickCounts ==
    ASSUME OrderInv, TxTick \/ TxTimeout
    PROVE  \/ packetNum' = packetNum /\ (Pending' => Pending) /\ (state' = "START" => state = "START")
           \/ packetNum' = 1 /\ state = "START" /\ state' # "START"
           \/ packetNum' = packetNum + 1 /\ Pending /\ ~Pending' /\ out' = out /\ state' # "START"
<1>1. TypeOK
  BY NearTypes
<1>2. 1 \in Nat /\ Mask \in Nat
  BY MaskAssumption
<1>3. rxbuf' = Rest => (AckFree(Held) => AckFree(Held'))
  BY <1>1, <1>2, HeldAfter DEF Rest
<1>4. rxbuf' = Flushed => AckFree(Held')
  BY <1>1, <1>2, HeldAfter DEF Flushed
<1>5. rxbuf' = rxbuf => Held' = Held
  BY DEF Held
<1>6. CASE Start
  BY <1>6 DEF Start, AssemblePacket, SendBlock, Fail, Pending, sender
<1>7. CASE Send
  BY <1>4, <1>7 DEF Send, AssemblePacket, SendBlock, Fail, Pending
<1>8. CASE Resend
  BY <1>5, <1>8 DEF Resend, SendBlock, Pending
<1>9. CASE Answered
  <2>1. CASE NextChar = "ACK"
    <3>1. ~AckFree(Held)
      BY <1>1, <1>9, <2>1, LineIs DEF Answered, AckFree, Waiting
    <3> QED BY <1>9, <2>1, <3>1 DEF Answered, Pending
  <2>2. CASE NextChar # "ACK"
    BY <1>3, <1>9, <2>2 DEF Answered, TryAgain, Fail, Pending
  <2> QED BY <2>1, <2>2
<1>10. CASE AckTimeout
  BY <1>5, <1>10 DEF AckTimeout, TryAgain, Fail, Pending
<1>11. CASE SendEot
  BY <1>11 DEF SendEot, Pending
<1>12. CASE FinalAnswer
  BY <1>12 DEF FinalAnswer, TryAgain, Fail, Pending
<1>13. CASE FinalTimeout
  BY <1>13 DEF FinalTimeout, TryAgain, Fail, Pending
<1> QED
  BY <1>6, <1>7, <1>8, <1>9, <1>10, <1>11, <1>12, <1>13 DEF TxTick, TxTimeout

\* One message more at the end of the air.
LEMMA AppendedAir ==
    ASSUME OrderInv, NEW m \in Messages, out' = Append(out, m)
    PROVE  /\ Len(out') = Len(out) + 1 /\ out'[Len(out) + 1] = m
           /\ \A i \in 1 .. Len(out) : out'[i] = out[i]
           /\ \A i \in 1 .. Len(out') : i \in 1 .. Len(out) \/ i = Len(out) + 1
           /\ \A j \in Nat : Early(j)' \in Nat /\ (m \notin Upto(j) => Early(j)' = Early(j))
<1>1. out \in Seq(Messages) /\ Len(out) \in Nat
  BY NearTypes
<1>2. Len(out') = Len(out) + 1 /\ out'[Len(out) + 1] = m /\ \A i \in 1 .. Len(out) : out'[i] = out[i]
  BY <1>1, AppendProperties
<1>3. \A i \in 1 .. Len(out') : i \in 1 .. Len(out) \/ i = Len(out) + 1
  BY <1>1, <1>2
<1>4. ASSUME NEW j PROVE Early(j)' \in Nat /\ (m \notin Upto(j) => Early(j)' = Early(j))
  <2>1. PICK T : T = Upto(j)
    OBVIOUS
  <2>2. PICK t : t = Append(out, m)
    OBVIOUS
  <2>3. t \in Seq(Messages)
    BY <1>1, <2>2
  <2>4. Count(t, T) = Count(out, T) + IF m \in T THEN 1 ELSE 0
    BY <1>1, <2>2, CountAppend
  <2>5. Count(t, T) \in Nat /\ Count(out, T) \in Nat
    BY <1>1, <2>3, CountIs
  <2>6. Early(j)' = Count(t, T) /\ Early(j) = Count(out, T)
    BY <2>1, <2>2 DEF Early, Upto
  <2> QED BY <2>1, <2>4, <2>5, <2>6
<1> QED BY <1>2, <1>3, <1>4

\* The first message off it.
LEMMA ShortenedAir ==
    ASSUME OrderInv, Ascending, out # <<>>, out' = Tail(out), packetNum' = packetNum,
           state' = state, Len(in') <= MaxIn
    PROVE  /\ Ascending' /\ ~Coming'
           /\ \A j : Early(j)' \in Nat /\ Early(j)' <= Early(j)
           /\ \A j : out[1] \in Upto(j) => Early(j)' + 1 <= Early(j)
           /\ \A b \in Nat : (\A i \in 1 .. Len(out) : out[i].kind = "block" => b <= out[i].data) =>
                                \A i \in 1 .. Len(out') : out'[i].kind = "block" => b <= out'[i].data
           /\ out[1].kind = "block" =>
                 \A i \in 1 .. Len(out') : out'[i].kind = "block" => out[1].data <= out'[i].data
<1>1. PICK n \in Nat : n = Len(out)
  BY NearTypes
<1>2. out \in Seq(Messages) /\ n >= 1 /\ packetNum \in Nat /\ MaxOut \in Nat
  BY <1>1, NearTypes, EmptySeq
<1>3. Len(out') = n - 1 /\ \A i \in 1 .. n - 1 : out'[i] = out[i + 1] /\ i + 1 \in 1 .. n /\ i + 1 # 1
  BY <1>1, <1>2
<1>4. \A i \in 1 .. n - 1 : out'[i].kind # "start"
  BY <1>1, <1>3 DEF Ascending
<1>5. \A b \in Nat : (\A i \in 1 .. Len(out) : out[i].kind = "block" => b <= out[i].data) =>
                        \A i \in 1 .. Len(out') : out'[i].kind = "block" => b <= out'[i].data
  BY <1>1, <1>3
<1>6. ASSUME out[1].kind = "block", NEW i \in 1 .. n - 1, out'[i].kind = "block"
      PROVE  out[1].data <= out'[i].data
  <2>1. 1 \in 1 .. n /\ i + 1 \in 1 .. n /\ 1 < i + 1
    BY <1>2, <1>3
  <2> QED BY <1>1, <1>3, <1>6, <2>1 DEF Ascending
<1>7. ASSUME NEW i \in 1 .. n - 1, NEW k \in 1 .. n - 1, i < k, out'[i].kind = "block", out'[k].kind = "block"
      PROVE  out'[i].data <= out'[k].data
  <2>1. i + 1 < k + 1
    BY <1>7
  <2> QED BY <1>1, <1>3, <1>7, <2>1 DEF Ascending
<1>8. \A i \in 1 .. n - 1 : out'[i].kind = "block" => out'[i].data <= packetNum'
  BY <1>1, <1>3 DEF Ascending
<1>9. Ascending'
  <2>1. Len(out') <= MaxOut
    BY <1>1, <1>2, <1>3 DEF Ascending
  <2> QED BY <1>3, <1>4, <1>7, <1>8, <2>1 DEF Ascending
<1>10. ~Coming'
  <2>1. Len(out') >= 1 => 1 \in 1 .. n - 1
    BY <1>1, <1>3
  <2>2. Len(out') >= 1 => out'[1].kind # "start"
    BY <1>4, <2>1
  <2> QED BY <2>2 DEF Coming, IsStart
<1>11. ASSUME NEW j
       PROVE  /\ Early(j)' \in Nat /\ Early(j)' <= Early(j)
              /\ out[1] \in Upto(j) => Early(j)' + 1 <= Early(j)
  <2>1. PICK T : T = Upto(j)
    OBVIOUS
  <2>2. PICK t \in Seq(Messages) : t = Tail(out)
    BY <1>2
  <2>3. PICK k \in 0 .. Len(out) : k = 1
    BY <1>1, <1>2
  <2>4. t = SubSeq(out, k + 1, Len(out))
    BY <1>2, <2>2, <2>3
  <2>5. Count(t, T) <= Count(out, T) /\ ((\E i \in 1 .. k : out[i] \in T) => Count(t, T) + 1 <= Count(out, T))
    BY <1>2, <2>4, CountDrop
  <2>6. Early(j)' = Count(t, T) /\ Early(j) = Count(out, T) /\ Count(t, T) \in Nat
    BY <2>1, <2>2, CountIs DEF Early, Upto
  <2>7. 1 \in 1 .. k
    BY <2>3
  <2> QED BY <2>1, <2>5, <2>6, <2>7
<1> QED BY <1>1, <1>3, <1>5, <1>6, <1>9, <1>10, <1>11

\* What stays true of the air when the sender adds to it under number p.
AirKept(p) ==
    /\ Len(out') <= MaxOut
    /\ \A i \in 1 .. Len(out') : out'[i].kind = "start" => i = 1
    /\ \A i, k \in 1 .. Len(out') :
          i < k /\ out'[i].kind = "block" /\ out'[k].kind = "block" => out'[i].data <= out'[k].data
    /\ \A i \in 1 .. Len(out') : out'[i].kind = "block" =>
          /\ out'[i].data <= p
          /\ (i \in 1 .. Len(out) /\ out'[i] = out[i]) \/ out'[i].data = p
    /\ Coming' = Coming
    /\ \A j \in Nat : Early(j)' \in Nat /\ (p > j => Early(j)' = Early(j))

\* A call of xbee_xmodem_tx_tick.
LEMMA NearTick ==
    ASSUME NearInv, TxTick \/ TxTimeout
    PROVE  Ascending' /\ Near'
<1>1. /\ OrderInv /\ Ascending /\ Near
      /\ packetNum \in Nat /\ Len(out) \in Nat /\ MaxOut \in Nat /\ MaxIn \in Nat /\ Base \in Nat
      /\ Count(in, {"ACK"}) \in Nat /\ Count(in, {"ACK"}) <= Len(in) /\ Len(in) \in Nat
  BY NearTypes DEF NearInv
<1>2. Emits /\ rstate' = rstate /\ got' = got /\ in' = in
  BY <1>1, TickEmits
<1>3. PICK p \in Nat : p = packetNum'
  BY <1>1, TickCounts
<1>4. packetNum <= p /\ (state' = "START" => p = 0)
  BY <1>1, <1>3, TickCounts DEF Ascending
<1>5. AirKept(p)
  <2>1. \A i \in 1 .. Len(out) : out[i].kind = "block" => out[i].data <= p
    <3> SUFFICES ASSUME NEW i \in 1 .. Len(out), out[i].kind = "block" PROVE out[i].data <= p
      OBVIOUS
    <3>1. PICK d \in 1 .. Blocks : d = out[i].data
      BY <1>1, NearTypes
    <3>2. d <= packetNum
      BY <1>1, <3>1 DEF Ascending
    <3> QED BY <1>1, <1>3, <1>4, <3>1, <3>2
  <2>2. CASE out' = out
    <3>1. \A j \in Nat : Early(j)' \in Nat /\ Early(j)' = Early(j)
      BY <1>1, <2>2, NearTypes DEF Early, Upto
    <3> QED BY <1>1, <1>2, <2>1, <2>2, <3>1 DEF Ascending, Coming, IsStart, AirKept
  <2>3. ASSUME Len(out) < MaxOut, NEW m \in Messages, m.kind # "start",
               m.kind = "block" => m.data = p, out' = Append(out, m)
        PROVE  AirKept(p)
    <3>1. PICK n \in Nat : n = Len(out)
      BY <1>1
    <3>2. /\ Len(out') = n + 1 /\ out'[n + 1] = m
          /\ \A i \in 1 .. n : out'[i] = out[i]
          /\ \A i \in 1 .. Len(out') : i \in 1 .. n \/ i = n + 1
          /\ \A j \in Nat : Early(j)' \in Nat /\ (m \notin Upto(j) => Early(j)' = Early(j))
      BY <1>1, <2>3, <3>1, AppendedAir
    <3>3. \A i \in 1 .. Len(out') : out'[i].kind = "start" => i = 1
      BY <1>1, <2>3, <3>1, <3>2 DEF Ascending
    <3>4. ASSUME NEW i \in 1 .. Len(out'), NEW k \in 1 .. Len(out'), i < k,
                 out'[i].kind = "block", out'[k].kind = "block"
          PROVE  out'[i].data <= out'[k].data
      <4>1. i \in 1 .. n
        BY <3>1, <3>2, <3>4
      <4>2. CASE k \in 1 .. n
        BY <1>1, <3>1, <3>2, <3>4, <4>1, <4>2 DEF Ascending
      <4>3. CASE k = n + 1
        BY <2>1, <2>3, <3>1, <3>2, <3>4, <4>1, <4>3
      <4> QED BY <3>2, <4>2, <4>3
    <3>5. ASSUME NEW i \in 1 .. Len(out'), out'[i].kind = "block"
          PROVE  out'[i].data <= p /\ ((i \in 1 .. Len(out) /\ out'[i] = out[i]) \/ out'[i].data = p)
      <4>1. CASE i \in 1 .. n
        BY <2>1, <3>1, <3>2, <3>5, <4>1
      <4>2. CASE i = n + 1
        BY <2>3, <3>2, <3>5, <4>2
      <4> QED BY <3>2, <4>1, <4>2
    <3>6. Coming' = Coming
      <4>1. CASE n = 0
        BY <1>2, <2>3, <3>1, <3>2, <4>1 DEF Coming, IsStart
      <4>2. CASE n >= 1
        <5>1. out'[1] = out[1] /\ Len(out') >= 1 /\ Len(out) >= 1
          BY <3>1, <3>2, <4>2
        <5> QED BY <1>2, <5>1 DEF Coming, IsStart
      <4> QED BY <3>1, <4>1, <4>2
    <3>7. Len(out') <= MaxOut
      BY <1>1, <2>3, <3>1, <3>2
    <3>8. ASSUME NEW j \in Nat PROVE Early(j)' \in Nat /\ (p > j => Early(j)' = Early(j))
      <4>1. p > j => m \notin Upto(j)
        BY <2>3 DEF Upto
      <4> QED BY <3>2, <4>1
    <3> QED BY <3>3, <3>4, <3>5, <3>6, <3>7, <3>8 DEF AirKept
  <2> QED BY <1>2, <1>3, <2>2, <2>3 DEF Emits
<1>6. Ascending'
  BY <1>1, <1>2, <1>3, <1>4, <1>5 DEF Ascending, AirKept
<1>7. Live' = Live /\ Base' = Base
  BY <1>2, <1>5 DEF Live, Base, AirKept
<1>8. ASSUME Live, NEW j \in Nat, Base <= j PROVE Within(j)'
  <2>1. Within(j)
    BY <1>1, <1>8 DEF Near
  <2>2. PICK c \in Nat : c = Count(in, {"ACK"}) /\ c <= MaxIn
    BY <1>1 DEF Ascending
  <2>3. Acks = c + (IF Pending THEN 1 ELSE 0) /\ Acks' = c + (IF Pending' THEN 1 ELSE 0)
    BY <1>2, <2>2 DEF Acks
  <2>4. CASE packetNum' = packetNum /\ (Pending' => Pending)
    <3>1. Acks' \in Nat /\ Acks' <= Acks + 0
      BY <2>3, <2>4
    <3>2. PICK k \in Nat : k = j + 1
      OBVIOUS
    <3>3. Early(k)' \in Nat /\ Early(k) \in Nat /\ (packetNum > k => Early(k)' = Early(k))
      BY <1>1, <1>3, <1>5, <2>4, NearTypes DEF AirKept
    <3>4. PICK e \in {0, 1} : e = 0
      OBVIOUS
    <3>5. Early(j + 1)' \in Nat /\ (packetNum > j + 1 => Early(j + 1)' + e <= Early(j + 1))
      BY <3>2, <3>3, <3>4
    <3> QED BY <1>1, <2>1, <2>4, <3>1, <3>4, <3>5, WithinKept
  <2>5. CASE packetNum' = 1
    BY <2>5 DEF Within
  <2>6. CASE packetNum' = packetNum + 1 /\ Pending /\ ~Pending' /\ out' = out
    <3>1. Acks = c + 1 /\ Acks' = c
      BY <2>2, <2>3, <2>6
    <3>2. PICK b \in Nat : b = Early(j + 1)
      BY <1>1, NearTypes
    <3>3. b <= MaxOut
      <4>1. b <= Len(out) /\ Len(out) <= MaxOut
        BY <1>1, <3>2, NearTypes DEF Ascending
      <4> QED BY <1>1, <4>1
    <3>4. Early(j + 1)' = b
      BY <2>6, <3>2 DEF Early, Upto
    <3>5. PICK q \in Nat : q = packetNum
      BY <1>1
    <3>6. q > j + 1 => q + (c + 1) + b <= j + 1 + (MaxOut + MaxIn + 1)
      BY <2>1, <3>1, <3>2, <3>5 DEF Within, Apart
    <3>7. q + 1 > j + 1 => q + 1 + c + b <= j + 1 + (MaxOut + MaxIn + 1)
      <4>1. MaxOut \in Nat /\ MaxIn \in Nat /\ c <= MaxIn /\ b <= MaxOut
        BY <1>1, <2>2, <3>3
      <4>2. CASE q > j + 1
        BY <3>6, <4>1, <4>2
      <4>3. CASE q <= j + 1
        BY <4>1, <4>3
      <4> QED BY <4>2, <4>3
    <3> QED BY <2>6, <3>1, <3>4, <3>5, <3>7 DEF Within, Apart
  <2> QED BY <1>1, <2>4, <2>5, <2>6, TickCounts
<1>9. ASSUME Live PROVE Near'
  <2>1. Base <= packetNum /\ \A i \in 1 .. Len(out) : out[i].kind = "block" => Base <= out[i].data
    BY <1>1, <1>9 DEF Near
  <2>2. \A i \in 1 .. Len(out') : out'[i].kind = "block" => Base <= out'[i].data
    <3> SUFFICES ASSUME NEW i \in 1 .. Len(out'), out'[i].kind = "block" PROVE Base <= out'[i].data
      OBVIOUS
    <3>1. CASE i \in 1 .. Len(out) /\ out'[i] = out[i]
      BY <2>1, <3>1
    <3>2. CASE out'[i].data = p
      BY <1>1, <1>4, <2>1, <3>2
    <3> QED BY <1>5, <3>1, <3>2 DEF AirKept
  <2>3. Base' <= packetNum'
    BY <1>1, <1>3, <1>4, <1>7, <2>1
  <2> QED BY <1>7, <1>8, <1>9, <2>2, <2>3 DEF Near
<1> QED BY <1>6, <1>7, <1>9 DEF Near

\* What the target adds to the air.
LEMMA ReplyCounts ==
    ASSUME OrderInv, Len(in) <= MaxIn, NEW ch \in Chars, Reply(ch), rxbuf' = rxbuf, state' = state
    PROVE  /\ Len(in') <= MaxIn /\ Acks' \in Nat
           /\ Acks' <= Acks + 1
           /\ ch # "ACK" => Acks' <= Acks
<1>1. in \in Seq(Chars) /\ Len(in) \in Nat /\ MaxIn \in Nat /\ Count(in, {"ACK"}) \in Nat
  BY NearTypes
<1>2. Pending' = Pending
  BY DEF Pending, Held
<1>3. PICK c \in Nat : c = Count(in, {"ACK"})
  BY <1>1
<1>4. PICK u : u = in'
  OBVIOUS
<1>5. /\ Len(u) <= MaxIn
      /\ Count(u, {"ACK"}) \in Nat /\ Count(u, {"ACK"}) <= c + 1
      /\ ch # "ACK" => Count(u, {"ACK"}) <= c
  <2>1. CASE u = in
    BY <1>3, <2>1
  <2>2. CASE u = Append(in, ch) /\ Len(in) < MaxIn
    <3>1. Len(u) = Len(in) + 1
      BY <1>1, <2>2, AppendProperties
    <3>2. PICK T : T = {"ACK"}
      OBVIOUS
    <3>3. Count(u, T) = Count(in, T) + IF ch \in T THEN 1 ELSE 0
      BY <1>1, <2>2, CountAppend
    <3>4. Count(u, T) = c + IF ch = "ACK" THEN 1 ELSE 0
      BY <1>3, <3>2, <3>3
    <3> QED BY <1>1, <1>3, <2>2, <3>1, <3>2, <3>4
  <2> QED BY <1>4, <2>1, <2>2 DEF Reply
<1>6. PICK d \in Nat : d = Count(u, {"ACK"})
  BY <1>5
<1>7. Acks = c + (IF Pending THEN 1 ELSE 0) /\ Acks' = d + (IF Pending THEN 1 ELSE 0)
  BY <1>2, <1>3, <1>4, <1>6 DEF Acks
<1> QED BY <1>3, <1>4, <1>5, <1>6, <1>7

\* The target takes the next message.
LEMMA NearReceive ==
    ASSUME NearInv, Told, Receive
    PROVE  Ascending' /\ Near'
<1>1. /\ OrderInv /\ Ascending /\ Near /\ TypeOK
      /\ packetNum \in Nat /\ Len(got) \in Nat /\ Base \in Nat /\ Len(in) <= MaxIn
      /\ out \in Seq(Messages) /\ got \in Seq(1 .. Blocks) /\ Len(out) \in Nat /\ Acks \in Nat
  BY NearTypes DEF NearInv, Ascending
<1>2. /\ out # <<>> /\ out' = Tail(out) /\ packetNum' = packetNum /\ state' = state
      /\ rxbuf' = rxbuf
  BY DEF Receive, sender
<1>3. PICK m \in Messages : m = out[1] /\ m = Head(out)
  BY <1>1, <1>2
<1>4. \/ m.kind = "start" /\ rstate \in {"off", "aborted"} /\ rstate' = "open" /\ got' = <<>> /\ Reply(StartChar)
      \/ m.kind = "block" /\ rstate = "open" /\ StoreBlock(m)
      \/ m.kind = "eot" /\ rstate' = "done" /\ Reply("ACK")
      \/ m.kind = "can" /\ rstate' = "aborted" /\ in' = in
      \/ rstate' = rstate /\ got' = got /\ in' = in
  BY <1>3 DEF Receive, receiver
<1>5. m.kind = "block" /\ rstate = "open" /\ StoreBlock(m) =>
         \/ Reply("NAK") /\ got' = got /\ rstate' = rstate
         \/ Reply("ACK") /\ got' = Append(got, m.data) /\ rstate' = rstate /\ m.data = Len(got) + 1
         \/ Reply("ACK") /\ got' = got /\ rstate' = rstate /\ m.data = Len(got)
         \/ Reply("CAN") /\ rstate' = "aborted"
  BY <1>2, <1>3 DEF StoreBlock, receiver, Told
<1>6. {"NAK", "CAN", "ACK", StartChar} \subseteq Chars /\ StartChar # "ACK"
  BY CharsAssumption DEF Chars
<1>7. Len(in') <= MaxIn /\ Acks' \in Nat
  <2>1. in' = in => Acks' = Acks
    BY <1>2 DEF Acks, Pending, Held
  <2>2. \E ch \in Chars : Reply(ch) \/ in' = in
    BY <1>4, <1>5, <1>6
  <2> QED BY <1>1, <1>2, <2>1, <2>2, ReplyCounts
<1>8. Ascending' /\ ~Coming'
  BY <1>1, <1>2, <1>7, ShortenedAir
<1>9. \A i \in 1 .. Len(out) : out[i].kind = "block" => out[i].data <= packetNum
  BY <1>1 DEF Ascending
<1>10. ASSUME Live, Base' \in Nat, Base <= Base', Base' <= packetNum, NEW e \in {0, 1}, Acks' <= Acks + e,
              e = 1 => m.kind = "block" /\ m.data \in Nat /\ m.data <= Base' + 1,
              Base' = Base \/ (m.kind = "block" /\ m.data = Base')
       PROVE  Near'
  <2>1. \A i \in 1 .. Len(out) : out[i].kind = "block" => Base <= out[i].data
    BY <1>1, <1>10 DEF Near
  <2>2. \A i \in 1 .. Len(out') : out'[i].kind = "block" => Base' <= out'[i].data
    <3>1. CASE Base' = Base
      <4>1. \A i \in 1 .. Len(out') : out'[i].kind = "block" => Base <= out'[i].data
        BY <1>1, <1>2, <1>7, <2>1, ShortenedAir
      <4> QED BY <3>1, <4>1
    <3>2. CASE m.kind = "block" /\ m.data = Base'
      <4>1. \A i \in 1 .. Len(out') : out'[i].kind = "block" => out[1].data <= out'[i].data
        BY <1>1, <1>2, <1>3, <1>7, <3>2, ShortenedAir
      <4> QED BY <1>3, <3>2, <4>1
    <3> QED BY <1>10, <3>1, <3>2
  <2>3. ASSUME NEW j \in Nat, Base' <= j PROVE Within(j)'
    <3>1. Base <= j
      BY <1>1, <1>10, <2>3
    <3>2. Within(j)
      BY <1>1, <1>10, <3>1 DEF Near
    <3>3. PICK k \in Nat : k = j + 1
      OBVIOUS
    <3>4. Early(k) \in Nat /\ Early(k)' \in Nat /\ Early(k)' <= Early(k)
      BY <1>1, <1>2, <1>7, NearTypes, ShortenedAir
    <3>5. e = 1 => Early(k)' + 1 <= Early(k)
      <4>1. e = 1 => out[1] \in Upto(k)
        BY <1>3, <1>10, <2>3, <3>3 DEF Upto
      <4> QED BY <1>1, <1>2, <1>7, <4>1, ShortenedAir
    <3>6. Early(j + 1)' \in Nat /\ (packetNum > j + 1 => Early(j + 1)' + e <= Early(j + 1))
      BY <3>3, <3>4, <3>5
    <3> QED BY <1>1, <1>2, <1>7, <1>10, <3>2, <3>6, WithinKept
  <2> QED BY <1>2, <1>10, <2>2, <2>3 DEF Near
<1>11. ASSUME Live' PROVE Near'
  <2>1. rstate' = "open" /\ Base' = Len(got')
    BY <1>8, <1>11 DEF Live, Base
  <2>2. rstate = "open" => Live /\ Base = Len(got)
    BY DEF Live, Base, Coming
  <2>3. Live => Base <= packetNum
    BY <1>1 DEF Near
  <2>4. PICK z \in {0, 1} : z = 0
    OBVIOUS
  <2>5. PICK o \in {0, 1} : o = 1
    OBVIOUS
  <2>6. ASSUME NEW ch \in Chars, ch # "ACK", Reply(ch) PROVE Acks' <= Acks + z
    BY <1>1, <1>2, <1>7, <2>4, <2>6, ReplyCounts
  <2>7. Reply("ACK") => Acks' <= Acks + o
    BY <1>1, <1>2, <1>6, <2>5, ReplyCounts
  <2>8. CASE m.kind = "start" /\ rstate \in {"off", "aborted"} /\ got' = <<>> /\ Reply(StartChar)
    <3>1. Coming
      <4>1. Len(out) >= 1
        BY <1>1, <1>2, EmptySeq
      <4> QED BY <1>3, <2>8, <4>1 DEF Coming, IsStart
    <3>2. Live /\ Base = 0 /\ Base' = 0
      BY <2>1, <2>8, <3>1 DEF Live, Base
    <3>3. Acks' <= Acks + z
      BY <1>6, <2>6, <2>8
    <3> QED BY <1>10, <2>3, <2>4, <3>2, <3>3
  <2>9. CASE rstate = "open" /\ got' = got /\ (in' = in \/ Reply("NAK"))
    <3>1. Acks' <= Acks + z
      <4>1. in' = in => Acks' = Acks
        BY <1>2 DEF Acks, Pending, Held
      <4> QED BY <1>1, <1>6, <2>4, <2>6, <2>9, <4>1
    <3> QED BY <1>1, <1>10, <2>1, <2>2, <2>3, <2>4, <2>9, <3>1
  <2>10. CASE rstate = "open" /\ m.kind = "block" /\ Reply("ACK") /\ got' = got /\ m.data = Len(got)
    BY <1>1, <1>10, <2>1, <2>2, <2>3, <2>5, <2>7, <2>10
  <2>11. CASE rstate = "open" /\ m.kind = "block" /\ Reply("ACK") /\ got' = Append(got, m.data) /\ m.data = Len(got) + 1
    <3>1. m.data \in 1 .. Blocks
      BY <1>2, <1>3, <1>1, <2>11, HeadIs
    <3>2. Len(got') = Len(got) + 1
      BY <1>1, <2>11, <3>1, AppendProperties
    <3>3. m.data <= packetNum
      <4>1. 1 \in 1 .. Len(out)
        BY <1>1, <1>2
      <4> QED BY <1>3, <1>9, <2>11, <4>1
    <3> QED BY <1>1, <1>10, <2>1, <2>2, <2>5, <2>7, <2>11, <3>2, <3>3
  <2>12. rstate' \notin {"done", "aborted"}
    BY <2>1
  <2> QED BY <1>4, <1>5, <2>1, <2>8, <2>9, <2>10, <2>11, <2>12
<1> QED BY <1>8, <1>11 DEF Near

\* An update begins with a start message alone on the air, or with nothing sent.
LEMMA NearStart ==
    ASSUME NearInv, OtaInit, CleanStart
    PROVE  Ascending' /\ Near'
<1>1. /\ OrderInv /\ Ascending /\ Near /\ MaxOut \in Nat /\ MaxIn \in Nat
      /\ packetNum \in Nat
  BY NearTypes DEF NearInv
<1>2. out = <<>> /\ rstate # "open" /\ rstate' = rstate /\ in' = in /\ got' = got
  BY DEF OtaInit, CleanStart, receiver
<1>3. Len(out) = 0 /\ Len(in') <= MaxIn
  BY <1>1, <1>2 DEF Ascending
<1>4. CASE out' = out /\ (state' = "START" => packetNum' = 0)
  <2>1. \A i : i \notin 1 .. Len(out')
    BY <1>3, <1>4
  <2>2. ~Live'
    BY <1>2, <1>3, <1>4 DEF Live, Coming
  <2> QED BY <1>1, <1>3, <1>4, <2>1, <2>2 DEF Ascending, Near
<1>5. ASSUME NEW m \in Messages, m.kind = "start", out' = Append(out, m), Len(out) < MaxOut,
             packetNum' = 0
      PROVE  Ascending' /\ Near'
  <2>1. out' = <<m>>
    BY <1>2, <1>5
  <2>2. Len(out') = 1 /\ out'[1] = m /\ \A i \in 1 .. Len(out') : i = 1
    BY <2>1
  <2>3. \A i \in 1 .. Len(out') : out'[i].kind # "block"
    BY <1>5, <2>2
  <2>4. Ascending'
    <3>1. Len(out') <= MaxOut
      BY <1>1, <1>3, <1>5, <2>2
    <3> QED BY <1>3, <1>5, <2>2, <2>3, <3>1 DEF Ascending
  <2>5. \A j \in Nat : Within(j)'
    BY <1>5 DEF Within
  <2>6. ASSUME Live' PROVE Base' = 0
    BY <1>2, <2>6 DEF Live, Base
  <2> QED BY <1>5, <2>3, <2>4, <2>5, <2>6 DEF Near
<1>6. PICK m \in Messages : m = [kind |-> "start"]
  BY MessagesOK
<1>7. \/ out' = out /\ (state' = "START" => packetNum' = 0)
      \/ out' = Append(out, m) /\ Len(out) < MaxOut /\ packetNum' = 0
  BY <1>1, <1>6 DEF OtaInit, OnAir, sender, Ascending
<1> QED BY <1>4, <1>5, <1>6, <1>7

\* Bytes handed over from the air: at most one acknowledgement counts in the
\* buffer, and it has left the air.
LEMMA DeliverCounts ==
    ASSUME NearInv, Deliver
    PROVE  Len(in') <= MaxIn /\ Acks' \in Nat /\ Acks' <= Acks
<1>1. /\ OrderInv /\ TypeOK /\ in \in Seq(Chars) /\ Len(in) \in Nat /\ Len(in) <= MaxIn /\ MaxIn \in Nat
      /\ Count(in, {"ACK"}) \in Nat
      /\ Held \in Seq(Cells) /\ Len(Held) \in Nat /\ Len(Held) \in 0 .. Mask /\ rxbuf \in Buffers
  BY NearTypes, LineIs, UsedRange DEF NearInv, Ascending
<1>2. PICK n \in 1 .. Smaller(Len(in), MaxPayload) :
         /\ rxbuf' = CBufPut(rxbuf, Cast(SubSeq(in, 1, n)))
         /\ in' = SubSeq(in, n + 1, Len(in))
  BY DEF Deliver, TransparentRx
<1>3. n \in 0 .. Len(in) /\ n \in Nat
  <2>1. MaxPayload \in Nat
    BY OtaAssumption
  <2> QED BY <1>1, <1>2, <2>1 DEF Smaller
<1>4. PICK w, p, u : w = SubSeq(in, 1, n) /\ p = Cast(w) /\ u = in'
  OBVIOUS
<1>5. /\ w \in Seq(Chars) /\ Len(w) = n /\ u \in Seq(Chars)
      /\ p \in Seq(Chars) /\ Len(p) \in Nat /\ Len(p) \in 0 .. Len(w)
      /\ p = SubSeq(w, 1, Len(p))
  <2>1. w \in Seq(Chars) /\ Len(w) = n /\ u \in Seq(Chars)
    BY <1>1, <1>2, <1>3, <1>4, DeliverPuts, Cut, SubSeqProperties
  <2>2. /\ Cast(w) \in Seq(Chars) /\ Len(Cast(w)) \in 0 .. Len(w)
        /\ Cast(w) = SubSeq(w, 1, Len(Cast(w)))
    BY <2>1, CastIs
  <2>3. p \in Seq(Chars) /\ Len(p) \in 0 .. Len(w) /\ p = SubSeq(w, 1, Len(p))
    BY <1>4, <2>2
  <2> QED BY <1>3, <2>1, <2>3
<1>6. PICK T : T = {"ACK"}
  OBVIOUS
<1>7. /\ Count(u, T) <= Count(in, T) /\ Count(u, T) \in Nat
      /\ (\E i \in 1 .. n : in[i] \in T) => Count(u, T) + 1 <= Count(in, T)
  BY <1>1, <1>2, <1>3, <1>4, <1>5, CountDrop, CountIs
<1>8. Len(u) <= MaxIn
  <2>1. n = Len(in) => u = <<>>
    BY <1>1, <1>2, <1>4, SubSeqEmpty
  <2>2. Len(u) <= Len(in)
    BY <1>1, <1>2, <1>3, <1>4
  <2> QED BY <1>1, <2>2, <1>5
<1>9. (\A i \in 1 .. n : in[i] # "ACK") /\ AckFree(Held) => AckFree(Held')
  <2> SUFFICES ASSUME \A i \in 1 .. n : in[i] # "ACK", AckFree(Held) PROVE AckFree(Held')
    OBVIOUS
  <2>1. PICK l \in 0 .. Mask : l = Len(Held)
    BY <1>1
  <2>2. PICK k \in 0 .. Len(p) : k = Smaller(Len(p), Mask - Len(Held))
    <3>1. Len(p) \in Nat /\ Mask - l \in Nat
      BY <1>5, <2>1, MaskAssumption
    <3>2. Smaller(Len(p), Mask - l) \in 0 .. Len(p)
      BY <3>1 DEF Smaller
    <3> QED BY <2>1, <3>2
  <2>3. PICK f : f = SubSeq(p, 1, k)
    OBVIOUS
  <2>4. Held' = Held \o f
    <3>1. p \in Seq(Byte)
      BY <1>5, PayloadIsSeq
    <3> QED BY <1>1, <1>2, <1>4, <1>5, <2>1, <2>2, <2>3, <3>1, PutContents DEF Held
  <2>5. AckFree(p)
    <3>1. AckFree(w)
      BY <1>1, <1>3, <1>4, <1>5, Cut DEF AckFree
    <3> QED BY <1>5, <3>1, Keep
  <2>6. AckFree(f)
    BY <1>5, <2>2, <2>3, <2>5, Keep
  <2>7. f \in Seq(Cells)
    <3>1. f \in Seq(Chars)
      BY <1>5, <2>2, <2>3, Cut, SubSeqProperties
    <3> QED BY <3>1, PayloadIsSeq DEF Cells
  <2> QED BY <1>1, <2>4, <2>6, <2>7, Join
<1>10. Pending' => Pending \/ \E i \in 1 .. n : in[i] \in T
  BY <1>6, <1>9 DEF Deliver, Pending, sender
<1>11. PICK c \in Nat, d \in Nat : c = Count(in, T) /\ d = Count(u, T)
  BY <1>1, <1>6, <1>7
<1>12. Acks = c + (IF Pending THEN 1 ELSE 0) /\ Acks' = d + (IF Pending' THEN 1 ELSE 0)
  BY <1>4, <1>6, <1>11 DEF Acks
<1> QED BY <1>4, <1>7, <1>8, <1>10, <1>11, <1>12

\* With nothing new on the air to the target, and no more acknowledgements.
LEMMA NearQuiet ==
    ASSUME NearInv, UNCHANGED <<rstate, got>>, packetNum' = packetNum, state' = state,
           out' = out \/ (out # <<>> /\ out' = Tail(out)),
           Len(in') <= MaxIn, Acks' \in Nat, Acks' <= Acks
    PROVE  Ascending' /\ Near'
<1>1. OrderInv /\ Ascending /\ Near
  BY DEF NearInv
<1>2. /\ Ascending' /\ \A j : Early(j)' \in Nat /\ Early(j)' <= Early(j)
      /\ \A b \in Nat : (\A i \in 1 .. Len(out) : out[i].kind = "block" => b <= out[i].data) =>
                           \A i \in 1 .. Len(out') : out'[i].kind = "block" => b <= out'[i].data
  <2>1. CASE out' = out
    <3>1. \A j : Early(j)' \in Nat /\ Early(j)' = Early(j)
      BY <1>1, <2>1, NearTypes DEF Early, Upto
    <3>2. Ascending'
      BY <1>1, <2>1 DEF Ascending
    <3>3. \A j : Early(j)' <= Early(j)
      BY <3>1
    <3> QED BY <2>1, <3>1, <3>2, <3>3
  <2>2. CASE out # <<>> /\ out' = Tail(out)
    BY <1>1, <2>2, ShortenedAir
  <2> QED BY <2>1, <2>2
<1>3. Live' => Live /\ Base <= Base' /\ Base' = Base
  <2>1. CASE out' = out
    BY <1>1, <2>1, NearTypes DEF Live, Base, Coming
  <2>2. CASE out # <<>> /\ out' = Tail(out)
    <3>1. ~Coming'
      BY <1>1, <2>2, ShortenedAir
    <3> QED BY <1>1, <3>1, NearTypes DEF Live, Base, Coming
  <2> QED BY <2>1, <2>2
<1>4. SUFFICES ASSUME Live' PROVE Near'
  BY <1>2 DEF Near
<1>5. /\ Live /\ Base' = Base /\ Base \in Nat /\ Base <= packetNum
      /\ \A i \in 1 .. Len(out) : out[i].kind = "block" => Base <= out[i].data
  BY <1>1, <1>3, <1>4, NearTypes DEF Near
<1>6. \A i \in 1 .. Len(out') : out'[i].kind = "block" => Base <= out'[i].data
  BY <1>2, <1>5
<1>7. ASSUME NEW j \in Nat, Base <= j PROVE Within(j)'
  <2>1. Within(j)
    BY <1>1, <1>5, <1>7 DEF Near
  <2>2. PICK e \in {0, 1} : e = 0
    OBVIOUS
  <2>3. PICK k \in Nat : k = j + 1
    OBVIOUS
  <2>4. Early(k)' \in Nat /\ Early(k) \in Nat /\ Early(k)' + e <= Early(k)
    BY <1>1, <1>2, <2>2, NearTypes
  <2>5. Acks' <= Acks + e
    BY <1>1, <2>2, NearTypes
  <2> QED BY <1>1, <2>1, <2>3, <2>4, <2>5, WithinKept
<1> QED BY <1>5, <1>6, <1>7 DEF Near

\* The other steps of the network, of the receiver and of the clock.
LEMMA NearRest ==
    ASSUME NearInv,
           Deliver \/ OtherNode \/ LoseOut \/ LoseIn \/ Ask \/ ClockTick \/ UNCHANGED vars
    PROVE  Ascending' /\ Near'
<1>1. /\ OrderInv /\ in \in Seq(Chars) /\ Len(in) \in Nat /\ Len(in) <= MaxIn
      /\ Acks \in Nat /\ MaxIn \in Nat /\ Count(in, {"ACK"}) \in Nat
  BY NearTypes DEF NearInv, Ascending
<1>2. /\ UNCHANGED <<rstate, got>> /\ packetNum' = packetNum /\ state' = state
      /\ out' = out \/ (out # <<>> /\ out' = Tail(out))
  BY DEF Deliver, OtherNode, LoseOut, LoseIn, Ask, ClockTick, vars, sender, receiver
<1>3. Len(in') <= MaxIn /\ Acks' \in Nat /\ Acks' <= Acks
  <2>1. CASE Deliver
    BY <2>1, DeliverCounts
  <2>2. CASE LoseIn
    <3>1. PICK u \in Seq(Chars) : u = in' /\ Len(u) = Len(in) - 1
      BY <1>1, <2>2, EmptySeq DEF LoseIn
    <3>2. PICK k \in 0 .. Len(in) : k = 1
      BY <1>1, <2>2 DEF LoseIn
    <3>3. u = SubSeq(in, k + 1, Len(in))
      BY <1>1, <2>2, <3>1, <3>2 DEF LoseIn
    <3>4. PICK T : T = {"ACK"}
      OBVIOUS
    <3>5. Count(u, T) <= Count(in, T) /\ Count(u, T) \in Nat
      BY <1>1, <3>1, <3>3, CountDrop, CountIs
    <3>6. Pending' = Pending
      BY <2>2 DEF LoseIn, Pending, sender, Held
    <3>7. PICK c \in Nat, d \in Nat : c = Count(in, T) /\ d = Count(u, T)
      BY <1>1, <3>4, <3>5
    <3>8. Acks = c + (IF Pending THEN 1 ELSE 0) /\ Acks' = d + (IF Pending THEN 1 ELSE 0)
      BY <3>1, <3>4, <3>6, <3>7 DEF Acks
    <3> QED BY <1>1, <3>1, <3>5, <3>7, <3>8
  <2>3. CASE Ask
    <3>1. StartChar \in Chars /\ StartChar # "ACK" /\ "NAK" \in Chars
      BY CharsAssumption DEF Chars
    <3>2. PICK ch \in Chars : ch # "ACK" /\ Reply(ch) /\ rxbuf' = rxbuf
      BY <2>3, <3>1 DEF Ask
    <3> QED BY <1>1, <1>2, <3>2, ReplyCounts
  <2>4. CASE OtherNode \/ LoseOut \/ ClockTick \/ UNCHANGED vars
    <3>1. in' = in /\ rxbuf' = rxbuf
      BY <2>4 DEF OtherNode, TransparentRx, LoseOut, ClockTick, vars
    <3>2. Acks' = Acks
      BY <1>2, <3>1 DEF Acks, Pending, Held
    <3> QED BY <1>1, <3>1, <3>2
  <2> QED BY <2>1, <2>2, <2>3, <2>4
<1> QED BY <1>2, <1>3, NearQuiet

LEMMA InitNearInv == Init => NearInv
<1> SUFFICES ASSUME Init PROVE NearInv
  OBVIOUS
<1>1. OrderInv /\ MaxOut \in Nat /\ MaxIn \in Nat
  BY InitOrderInv, OtaAssumption
<1>2. out = <<>> /\ in = <<>> /\ rstate = "off" /\ state = "unused"
  BY DEF Init
<1>3. Ascending
  BY <1>1, <1>2 DEF Ascending
<1>4. Near
  BY <1>2 DEF Near, Live, Coming
<1> QED BY <1>1, <1>3, <1>4 DEF NearInv

LEMMA NextNearInv ==
    ASSUME NearInv, "first" \notin MayFail, Apart + 1 < NumMod, [Next]_vars, [CleanStart]_vars
    PROVE  NearInv'
<1>1. OrderInv /\ Told
  BY ToldNear DEF NearInv
<1>2. OrderInv'
  BY <1>1, NextOrderInv
<1>3. CleanStart \/ UNCHANGED vars
  OBVIOUS
<1>4. CASE TxTick \/ TxTimeout
  BY <1>2, <1>4, NearTick DEF NearInv
<1>5. CASE Receive
  BY <1>1, <1>2, <1>5, NearReceive DEF NearInv
<1>6. CASE OtaInit /\ CleanStart
  BY <1>2, <1>6, NearStart DEF NearInv
<1>7. CASE Deliver \/ OtherNode \/ LoseOut \/ LoseIn \/ Ask \/ ClockTick \/ UNCHANGED vars
  BY <1>2, <1>7, NearRest DEF NearInv
<1> QED
  BY <1>3, <1>4, <1>5, <1>6, <1>7 DEF Next

\* An image of any length arrives in order, block numbers wrapping as they may: as
\* long as the first sending of a block is never refused, fewer than NumMod - 2
\* messages and characters are on the air, and no update begins while the receiver
\* has another open or messages of one are on their way (xbee_xmodem.c:346-432).
THEOREM LongImageInOrder ==
    ASSUME "first" \notin MayFail, Apart + 1 < NumMod
    PROVE  Spec /\ [][CleanStart]_vars => []InOrder
<1>1. NearInv /\ [Next]_vars /\ [CleanStart]_vars => NearInv'
  BY NextNearInv
<1>2. NearInv => InOrder
  BY DEF NearInv, OrderInv
<1> QED BY <1>1, <1>2, InitNearInv, PTL DEF Spec

\* And when its transfer reports success, all of it has arrived, unless a packet
\* was sent again while an answer to it was on its way (xbee_xmodem.c:443-503).
THEOREM LongImageWhole ==
    ASSUME "first" \notin MayFail, Apart + 1 < NumMod
    PROVE  Spec /\ [][CleanStart]_vars => []SuccessMeansWhole
<1>1. Init => NearInv /\ WholeInv
  <2> SUFFICES ASSUME Init PROVE NearInv /\ WholeInv
    OBVIOUS
  <2>1. OrderInv
    BY InitOrderInv
  <2>2. Transfer
    BY DEF Init, Transfer
  <2> QED BY <2>1, <2>2, InitNearInv DEF WholeInv
<1>2. NearInv /\ WholeInv /\ [Next]_vars /\ [CleanStart]_vars => NearInv' /\ WholeInv'
  BY NextNearInv, NextWholeInv, ToldNear
<1>3. NearInv /\ WholeInv => SuccessMeansWhole
  BY DEF WholeInv, Transfer, SuccessMeansWhole, IsWhole
<1> QED BY <1>1, <1>2, <1>3, PTL DEF Spec
=============================================================================
