--------------------------- MODULE FrameTx_proof ---------------------------
(* What xbee_frame_write leaves in a port that reports its room, for every    *)
(* byte width, set of requests and buffer: the accepted frames, end to end,   *)
(* and nothing else; and that the reference decoder of FrameDecode finds      *)
(* those frames in the bytes.  The length of a frame is compared with the     *)
(* room before the first of its four writes, and the buffer only drains until *)
(* the last.                                                                  *)
EXTENDS MCFrameTx, FrameDecode_proof, TLAPS

-----------------------------------------------------------------------------
(* A frame on the wire.                                                       *)

\* xbee_frame_write refuses a frame without a payload.
Written == {r \in Requests : Payload(r) # <<>>}

CheckByte(r) == Checksum(r.data, Checksum(r.header, AllOnes))

Prefix(r) == <<StartByte>> \o LengthBytes(Len(Payload(r)))

Encoded(r) == Prefix(r) \o r.header \o r.data \o <<CheckByte(r)>>

-----------------------------------------------------------------------------
(* The requests rs were accepted, and the frame of each ends at its cut.      *)
Accepted(rs, cut) ==
  /\ rs \in Seq(Written) /\ Len(rs) = Len(accepted)
  /\ \A k \in 1 .. Len(rs) : accepted[k] = Payload(rs[k])
  /\ cut \in [0 .. Len(rs) -> Nat] /\ cut[0] = 0
  /\ \A k \in 1 .. Len(rs) : cut[k] = cut[k - 1] + FrameSize(rs[k])
  /\ \A k \in 0 .. Len(rs) : cut[k] <= cut[Len(rs)]

Laid(w, rs, cut) == \A k \in 1 .. Len(rs) : \A n \in 1 .. FrameSize(rs[k]) :
                      w[cut[k - 1] + n] = Encoded(rs[k])[n]

(* Then the first p bytes of r follow.                                        *)
Begun(w, rs, cut, r, p) ==
  /\ Len(w) = cut[Len(rs)] + p
  /\ \A n \in 1 .. p : w[cut[Len(rs)] + n] = Encoded(r)[n]

(* Between two calls the wire is the accepted frames, one after the other.    *)
EndToEnd == call = Idle =>
  \E rs, cut : Accepted(rs, cut) /\ Laid(wire, rs, cut) /\ Len(wire) = cut[Len(rs)]

Checking == [at : {"tx_free"}, r : Written, clear : BOOLEAN]
              \union [at : {"tx_used"}, r : Written, clear : BOOLEAN, fits : BOOLEAN, short : Int]
Writing  == [at : {"prefix", "header", "data", "checksum"}, r : Written]

(* How much of a frame was written when the call is at a write.               *)
Done(c) == IF c.at = "header" THEN 3
           ELSE IF c.at = "data" THEN 3 + Len(c.r.header)
           ELSE IF c.at = "checksum" THEN 3 + Len(c.r.header) + Len(c.r.data)
           ELSE 0

Typed == TypeOK /\ call \in {Idle} \union Checking \union Writing

(* What was compared with the room still fits.                                *)
Fitting ==
  /\ call \in Checking /\ call.at = "tx_used" /\ call.fits => FrameSize(call.r) <= Room
  /\ call \in Writing => FrameSize(call.r) - Done(call) <= Room

OnWire(w, c) == \E rs, cut :
  /\ Accepted(rs, cut) /\ Laid(w, rs, cut)
  /\ IF c \in Writing THEN Begun(w, rs, cut, c.r, Done(c)) ELSE Len(w) = cut[Len(rs)]

TxInv == Typed /\ Fitting /\ OnWire(wire, call)

-----------------------------------------------------------------------------
LEMMA RequestType == ASSUME NEW r \in Written
  PROVE  /\ r.header \in Seq(Byte) /\ r.data \in Seq(Byte) /\ Payload(r) \in Seq(Byte)
         /\ Payload(r) # <<>>
         /\ Len(r.header) \in Nat /\ Len(r.data) \in Nat
         /\ Len(Payload(r)) = Len(r.header) + Len(r.data)
         /\ FrameSize(r) = Len(r.header) + Len(r.data) + 4
<1>1. r.header \in Seq(Byte) /\ r.data \in Seq(Byte)
  BY TxAssumption DEF Written
<1>2. QED
  BY <1>1 DEF Payload, FrameSize, Written

LEMMA SizeType == ASSUME NEW r \in Written PROVE FrameSize(r) \in Nat /\ FrameSize(r) >= 4
<1>1. Len(r.header) \in Nat /\ Len(r.data) \in Nat /\ FrameSize(r) = Len(r.header) + Len(r.data) + 4
  BY RequestType
<1>2. \A x, y \in Nat : x + y + 4 \in Nat /\ x + y + 4 >= 4
  OBVIOUS
<1>3. QED
  BY <1>1, <1>2

LEMMA CheckType == ASSUME NEW r \in Written PROVE CheckByte(r) \in Byte
<1>1. r.header \in Seq(Byte) /\ r.data \in Seq(Byte)
  BY RequestType
<1>2. AllOnes \in Byte
  BY ByteAssumption DEF AllOnes, Byte
<1>3. QED
  BY <1>1, <1>2, ChecksumByte DEF CheckByte

LEMMA PrefixType == ASSUME NEW r \in Written
                    PROVE  Prefix(r) \in Seq(Byte) /\ Len(Prefix(r)) = 3
<1>1. PICK n \in Nat : n = Len(Payload(r))
  BY RequestType
<1>2. (n \div ByteMod) % ByteMod \in Byte /\ n % ByteMod \in Byte /\ StartByte \in Byte
  BY ByteAssumption DEF Byte
<1>3. LengthBytes(n) \in Seq(Byte) /\ Len(LengthBytes(n)) = 2
  BY <1>2 DEF LengthBytes
<1>4. <<StartByte>> \in Seq(Byte) /\ Len(<<StartByte>>) = 1
  BY <1>2
<1>5. Prefix(r) = <<StartByte>> \o LengthBytes(n)
  BY <1>1 DEF Prefix
<1>6. PICK a, b : a = <<StartByte>> /\ b = LengthBytes(n)
  OBVIOUS
<1>7. a \o b \in Seq(Byte) /\ Len(a \o b) = Len(a) + Len(b)
  BY <1>3, <1>4, <1>6, Concatenated
<1>8. Prefix(r) = a \o b /\ Len(a) = 1 /\ Len(b) = 2
  BY <1>3, <1>4, <1>5, <1>6
<1>9. QED
  BY <1>7, <1>8

LEMMA EncodedIs == ASSUME NEW r \in Written
  PROVE  /\ Encoded(r) \in Seq(Byte) /\ Len(Encoded(r)) = FrameSize(r)
         /\ \A n \in 1 .. 3 : Encoded(r)[n] = Prefix(r)[n]
         /\ \A n \in 1 .. Len(r.header) : Encoded(r)[3 + n] = r.header[n]
         /\ \A n \in 1 .. Len(r.data) : Encoded(r)[3 + Len(r.header) + n] = r.data[n]
         /\ Encoded(r)[3 + Len(r.header) + Len(r.data) + 1] = CheckByte(r)
<1>1. PICK a \in Seq(Byte) : a = Prefix(r) /\ Len(a) = 3
  BY PrefixType
<1>2. PICK b \in Seq(Byte) : b = r.header
  BY RequestType
<1>3. PICK c \in Seq(Byte) : c = r.data
  BY RequestType
<1>4. PICK d \in Byte : d = CheckByte(r)
  BY CheckType
<1>5. PICK e : e = a \o b
  OBVIOUS
<1>6. /\ e \in Seq(Byte) /\ Len(b) \in Nat /\ Len(e) = 3 + Len(b)
      /\ \A n \in 1 .. 3 : n \in 1 .. Len(e) /\ e[n] = a[n]
      /\ \A n \in 1 .. Len(b) : 3 + n \in 1 .. Len(e) /\ e[3 + n] = b[n]
  <2>1. /\ e \in Seq(Byte) /\ Len(e) = Len(a) + Len(b) /\ Len(b) \in Nat
        /\ \A n \in 1 .. Len(a) : n \in 1 .. Len(e) /\ e[n] = a[n]
        /\ \A n \in 1 .. Len(b) : Len(a) + n \in 1 .. Len(e) /\ e[Len(a) + n] = b[n]
    BY <1>5, Concatenated
  <2>2. QED
    BY <1>1, <2>1
<1>7. PICK f : f = e \o c
  OBVIOUS
<1>8. /\ f \in Seq(Byte) /\ Len(c) \in Nat /\ Len(f) = 3 + Len(b) + Len(c)
      /\ \A n \in 1 .. Len(e) : n \in 1 .. Len(f) /\ f[n] = e[n]
      /\ \A n \in 1 .. Len(c) : 3 + Len(b) + n \in 1 .. Len(f) /\ f[3 + Len(b) + n] = c[n]
  <2>1. /\ f \in Seq(Byte) /\ Len(f) = Len(e) + Len(c) /\ Len(c) \in Nat
        /\ \A n \in 1 .. Len(e) : n \in 1 .. Len(f) /\ f[n] = e[n]
        /\ \A n \in 1 .. Len(c) : Len(e) + n \in 1 .. Len(f) /\ f[Len(e) + n] = c[n]
    <3>1. e \in Seq(Byte) /\ c \in Seq(Byte)
      BY <1>6
    <3>2. QED
      BY <1>7, <3>1, Concatenated
  <2>2. QED
    BY <1>6, <2>1
<1>9. PICK g : g = f \o <<d>>
  OBVIOUS
<1>10. /\ g \in Seq(Byte) /\ Len(g) = 3 + Len(b) + Len(c) + 1
       /\ \A n \in 1 .. Len(f) : g[n] = f[n]
       /\ g[3 + Len(b) + Len(c) + 1] = d
  <2>1. PICK z : z = <<d>>
    OBVIOUS
  <2>2. z \in Seq(Byte) /\ Len(z) = 1 /\ z[1] = d /\ 1 \in 1 .. Len(z)
    BY <2>1, Single
  <2>3. /\ g \in Seq(Byte) /\ Len(g) = Len(f) + Len(z)
        /\ \A n \in 1 .. Len(f) : n \in 1 .. Len(g) /\ g[n] = f[n]
        /\ \A n \in 1 .. Len(z) : Len(f) + n \in 1 .. Len(g) /\ g[Len(f) + n] = z[n]
    <3>1. f \in Seq(Byte) /\ z \in Seq(Byte) /\ g = f \o z
      BY <1>8, <1>9, <2>1, <2>2
    <3>2. QED
      BY <3>1, Concatenated
  <2>4. QED
    BY <1>8, <2>2, <2>3
<1>11. g = Encoded(r)
  BY <1>1, <1>2, <1>3, <1>4, <1>5, <1>7, <1>9 DEF Encoded
<1>12. FrameSize(r) = 3 + Len(b) + Len(c) + 1
  <2>1. FrameSize(r) = Len(r.header) + Len(r.data) + 4
    BY RequestType
  <2>2. Len(b) = Len(r.header) /\ Len(c) = Len(r.data) /\ Len(b) \in Nat /\ Len(c) \in Nat
    BY <1>2, <1>3, RequestType
  <2>3. FrameSize(r) = Len(b) + Len(c) + 4
    BY <2>1, <2>2
  <2>4. Len(b) + Len(c) + 4 = 3 + Len(b) + Len(c) + 1
    <3>1. \A x, y \in Nat : x + y + 4 = 3 + x + y + 1
      OBVIOUS
    <3>2. QED
      BY <2>2, <3>1
  <2>5. QED
    BY <2>3, <2>4
<1>13. /\ \A n \in 1 .. 3 : g[n] = a[n]
       /\ \A n \in 1 .. Len(b) : g[3 + n] = b[n]
       /\ \A n \in 1 .. Len(c) : g[3 + Len(b) + n] = c[n]
  BY <1>6, <1>8, <1>10
<1>14. QED
  BY <1>1, <1>2, <1>3, <1>4, <1>10, <1>11, <1>12, <1>13

-----------------------------------------------------------------------------
(* One write.                                                                 *)

LEMMA Where == ASSUME Typed
  PROVE  /\ call.at = "tx_free" => call \in Checking /\ call.r \in Written /\ call.clear \in BOOLEAN
         /\ call.at = "tx_used" => /\ call \in Checking /\ call.r \in Written /\ call.clear \in BOOLEAN
                                   /\ call.fits \in BOOLEAN /\ call.short \in Int
         /\ call.at \in {"prefix", "header", "data", "checksum"} => call \in Writing /\ call.r \in Written
         /\ call \notin Writing => Done(call) = 0
<1>1. CASE call = Idle
  <2>1. call.at = "idle"
    BY <1>1 DEF Idle
  <2>2. call \notin Writing
    BY <2>1 DEF Writing
  <2>3. QED
    BY <2>1, <2>2 DEF Done
<1>2. CASE call \in Checking
  <2>1. call.at \in {"tx_free", "tx_used"} /\ call.r \in Written /\ call.clear \in BOOLEAN
    BY <1>2 DEF Checking
  <2>2. call.at = "tx_used" => call.fits \in BOOLEAN /\ call.short \in Int
    BY <1>2 DEF Checking
  <2>3. QED
    BY <1>2, <2>1, <2>2 DEF Done
<1>3. CASE call \in Writing
  <2>1. call.at \in {"prefix", "header", "data", "checksum"} /\ call.r \in Written
    BY <1>3 DEF Writing
  <2>2. QED
    BY <1>3, <2>1
<1>4. QED
  BY <1>1, <1>2, <1>3 DEF Typed

LEMMA RoomType == ASSUME Typed PROVE Room \in Nat /\ Capacity \in Nat /\ queued \in Nat
  BY TxAssumption DEF Typed, TypeOK, Room

LEMMA Taken ==
  ASSUME Typed, NEW bytes \in Seq(Byte), Len(bytes) <= Room, SerWrite(bytes)
  PROVE  /\ wire' \in Seq(Byte) /\ Len(wire') = Len(wire) + Len(bytes)
         /\ Len(wire) \in Nat /\ Len(bytes) \in Nat
         /\ \A n \in 1 .. Len(wire) : n \in 1 .. Len(wire') /\ wire'[n] = wire[n]
         /\ \A n \in 1 .. Len(bytes) : Len(wire) + n \in 1 .. Len(wire') /\ wire'[Len(wire) + n] = bytes[n]
         /\ queued' = queued + Len(bytes) /\ queued' \in 0 .. Capacity /\ Room' = Room - Len(bytes)
<1>1. wire \in Seq(Byte) /\ Len(bytes) \in Nat
  BY LenProperties DEF Typed, TypeOK
<1>2. SubSeq(bytes, 1, Len(bytes)) = bytes
  <2>1. PICK s : s = SubSeq(bytes, 1, Len(bytes))
    OBVIOUS
  <2>2. \A i \in 1 .. Len(bytes) : bytes[i] \in Byte
    BY ElementOfSeq
  <2>3. /\ s \in Seq(Byte) /\ Len(s) = (IF 1 <= Len(bytes) THEN Len(bytes) - 1 + 1 ELSE 0)
        /\ \A i \in 1 .. Len(bytes) - 1 + 1 : s[i] = bytes[1 + i - 1]
    BY <1>1, <2>1, <2>2, SubSeqProperties
  <2>4. Len(s) = Len(bytes) /\ \A i \in 1 .. Len(s) : s[i] = bytes[i]
    BY <1>1, <2>3
  <2>5. QED
    BY <2>1, <2>3, <2>4, SeqEqual
<1>3. wire' = wire \o bytes /\ queued' = queued + Len(bytes)
  BY <1>2 DEF SerWrite
<1>4. /\ wire' \in Seq(Byte) /\ Len(wire') = Len(wire) + Len(bytes) /\ Len(wire) \in Nat
      /\ \A n \in 1 .. Len(wire) : n \in 1 .. Len(wire') /\ wire'[n] = wire[n]
      /\ \A n \in 1 .. Len(bytes) : Len(wire) + n \in 1 .. Len(wire') /\ wire'[Len(wire) + n] = bytes[n]
  <2>1. PICK w : w = wire \o bytes
    OBVIOUS
  <2>2. /\ w \in Seq(Byte) /\ Len(w) = Len(wire) + Len(bytes) /\ Len(wire) \in Nat
        /\ \A n \in 1 .. Len(wire) : n \in 1 .. Len(w) /\ w[n] = wire[n]
        /\ \A n \in 1 .. Len(bytes) : Len(wire) + n \in 1 .. Len(w) /\ w[Len(wire) + n] = bytes[n]
    BY <1>1, <2>1, Concatenated
  <2>3. QED
    BY <1>3, <2>1, <2>2
<1>5. queued' \in 0 .. Capacity /\ Room' = Room - Len(bytes)
  BY <1>1, <1>3, RoomType DEF Room
<1>6. QED
  BY <1>1, <1>3, <1>4, <1>5

(* The frame goes on where it had come to.                                    *)
LEMMA Further ==
  ASSUME NEW rs, NEW cut, Accepted(rs, cut), NEW w \in Seq(Byte), NEW w2 \in Seq(Byte),
         NEW bytes \in Seq(Byte), NEW r \in Written, NEW p \in Nat, Laid(w, rs, cut), Begun(w, rs, cut, r, p),
         Len(w2) = Len(w) + Len(bytes), \A n \in 1 .. Len(w) : w2[n] = w[n],
         \A n \in 1 .. Len(bytes) : w2[Len(w) + n] = bytes[n] /\ Encoded(r)[p + n] = bytes[n]
  PROVE  Laid(w2, rs, cut) /\ Begun(w2, rs, cut, r, p + Len(bytes))
<1>1. PICK N : N = Len(rs)
  OBVIOUS
<1>2. /\ N \in Nat /\ cut \in [0 .. N -> Nat] /\ rs \in Seq(Written)
      /\ \A k \in 1 .. N : cut[k] = cut[k - 1] + FrameSize(rs[k])
      /\ \A k \in 0 .. N : cut[k] <= cut[N]
  BY <1>1, LenProperties DEF Accepted
<1>3. PICK c \in Nat : c = cut[N]
  BY <1>2
<1>4. /\ Len(w) = c + p /\ Len(w) \in Nat /\ Len(bytes) \in Nat
      /\ \A n \in 1 .. p : w[c + n] = Encoded(r)[n]
  BY <1>1, <1>3, LenProperties DEF Begun
<1>5. Laid(w2, rs, cut)
  <2> SUFFICES ASSUME NEW k \in 1 .. N, NEW n \in 1 .. FrameSize(rs[k])
               PROVE  w2[cut[k - 1] + n] = Encoded(rs[k])[n]
    BY <1>1 DEF Laid
  <2>1. k \in 0 .. N /\ k - 1 \in 0 .. N
    BY <1>2
  <2>2. cut[k - 1] \in Nat /\ cut[k] \in Nat
    BY <1>2, <2>1
  <2>3. cut[k] = cut[k - 1] + FrameSize(rs[k]) /\ cut[k] <= c
    BY <1>2, <1>3, <2>1
  <2>4. rs[k] \in Written
    BY <1>1, <1>2, ElementOfSeq
  <2>5. FrameSize(rs[k]) \in Nat
    <3>1. PICK q \in Written : q = rs[k]
      BY <2>4
    <3>2. Len(q.header) \in Nat /\ Len(q.data) \in Nat /\ FrameSize(q) = Len(q.header) + Len(q.data) + 4
      BY RequestType
    <3>3. \A x, y \in Nat : x + y + 4 \in Nat
      OBVIOUS
    <3>4. FrameSize(q) \in Nat
      BY <3>2, <3>3
    <3>5. QED
      BY <3>1, <3>4
  <2>6. cut[k - 1] + n \in 1 .. Len(w)
    <3>1. PICK a \in Nat, b \in Nat : a = cut[k - 1] /\ b = FrameSize(rs[k])
      BY <2>2, <2>5
    <3>2. a + b <= c /\ n \in 1 .. b
      BY <2>3, <3>1
    <3>3. a + n \in 1 .. Len(w)
      BY <1>4, <3>2
    <3>4. QED
      BY <3>1, <3>3
  <2>7. w[cut[k - 1] + n] = Encoded(rs[k])[n]
    BY <1>1 DEF Laid
  <2>8. QED
    BY <2>6, <2>7
<1>6. ASSUME NEW n \in 1 .. p + Len(bytes) PROVE w2[c + n] = Encoded(r)[n]
  <2>1. CASE n <= p
    <3>1. n \in 1 .. p /\ c + n \in 1 .. Len(w)
      BY <1>4, <2>1
    <3>2. QED
      BY <1>4, <3>1
  <2>2. CASE n > p
    <3>1. PICK L \in Nat : L = Len(bytes)
      BY <1>4
    <3>2. PICK j : j = n - p
      OBVIOUS
    <3>3. j \in 1 .. L /\ n = p + j /\ c + n = c + p + j
      BY <2>2, <3>1, <3>2
    <3>4. w2[Len(w) + j] = bytes[j] /\ Encoded(r)[p + j] = bytes[j]
      BY <3>1, <3>3
    <3>5. QED
      BY <1>4, <3>3, <3>4
  <2>3. QED
    BY <1>4, <2>1, <2>2
<1>7. Len(w2) = c + (p + Len(bytes))
  BY <1>4
<1>8. QED
  BY <1>1, <1>3, <1>5, <1>6, <1>7 DEF Begun

(* A frame that was begun and is there to its last byte is one more.          *)
LEMMA OneMore ==
  ASSUME NEW rs, NEW cut, Accepted(rs, cut), NEW w \in Seq(Byte), NEW r \in Written,
         Laid(w, rs, cut), Begun(w, rs, cut, r, FrameSize(r)),
         accepted \in Seq(Seq(Byte)), accepted' = Append(accepted, Payload(r))
  PROVE  \E rs2, cut2 : Accepted(rs2, cut2)' /\ Laid(w, rs2, cut2) /\ Len(w) = cut2[Len(rs2)]
<1>1. /\ Len(rs) \in Nat /\ cut \in [0 .. Len(rs) -> Nat] /\ rs \in Seq(Written) /\ cut[0] = 0
      /\ \A k \in 1 .. Len(rs) : cut[k] = cut[k - 1] + FrameSize(rs[k])
      /\ \A k \in 0 .. Len(rs) : cut[k] <= cut[Len(rs)]
      /\ Len(rs) = Len(accepted) /\ \A k \in 1 .. Len(rs) : accepted[k] = Payload(rs[k])
  BY LenProperties DEF Accepted
<1>2. PICK N \in Nat : N = Len(rs)
  BY <1>1
<1>3. FrameSize(r) \in Nat /\ cut[N] \in Nat /\ Len(w) \in Nat /\ Len(w) = cut[N] + FrameSize(r)
  <2>1. FrameSize(r) \in Nat /\ Len(w) \in Nat
    BY SizeType, LenProperties
  <2>2. N \in 0 .. N
    OBVIOUS
  <2>3. QED
    BY <1>1, <1>2, <2>1, <2>2 DEF Begun
<1>4. PICK rs2 : rs2 = Append(rs, r)
  OBVIOUS
<1>5. /\ rs2 \in Seq(Written) /\ Len(rs2) = N + 1 /\ rs2[N + 1] = r
      /\ \A k \in 1 .. N : rs2[k] = rs[k]
  BY <1>1, <1>2, <1>4
<1>6. PICK cut2 : cut2 = [k \in 0 .. N + 1 |-> IF k = N + 1 THEN Len(w) ELSE cut[k]]
  OBVIOUS
<1>7. /\ cut2 \in [0 .. N + 1 -> Nat] /\ cut2[N + 1] = Len(w)
      /\ \A k \in 0 .. N : cut2[k] = cut[k]
  BY <1>1, <1>2, <1>3, <1>6
<1>8. /\ Len(accepted') = N + 1 /\ accepted'[N + 1] = Payload(r)
      /\ \A k \in 1 .. N : accepted'[k] = accepted[k]
  <2>1. Payload(r) \in Seq(Byte)
    BY RequestType
  <2>2. QED
    BY <1>1, <1>2, <2>1
<1>9. Accepted(rs2, cut2)'
  <2>1. \A k \in 1 .. N + 1 : accepted'[k] = Payload(rs2[k])
    BY <1>1, <1>2, <1>5, <1>8
  <2>2. \A k \in 1 .. N + 1 : cut2[k] = cut2[k - 1] + FrameSize(rs2[k])
    <3>1. ASSUME NEW k \in 1 .. N PROVE cut2[k] = cut2[k - 1] + FrameSize(rs2[k])
      <4>1. k \in 0 .. N /\ k - 1 \in 0 .. N
        OBVIOUS
      <4>2. cut2[k] = cut[k] /\ cut2[k - 1] = cut[k - 1] /\ rs2[k] = rs[k]
        BY <1>5, <1>7, <4>1
      <4>3. QED
        BY <1>1, <1>2, <4>2
    <3>2. cut2[N + 1] = cut2[N] + FrameSize(rs2[N + 1])
      BY <1>3, <1>5, <1>7
    <3>3. \A k \in 1 .. N + 1 : k \in 1 .. N \/ (k = N + 1 /\ k - 1 = N)
      OBVIOUS
    <3>4. QED
      BY <3>1, <3>2, <3>3
  <2>3. \A k \in 0 .. N + 1 : cut2[k] <= cut2[N + 1]
    <3>1. ASSUME NEW k \in 0 .. N PROVE cut2[k] <= cut2[N + 1]
      <4>1. cut[k] <= cut[N] /\ cut[k] \in Nat
        BY <1>1, <1>2
      <4>2. QED
        BY <1>3, <1>7, <4>1
    <3>2. \A k \in 0 .. N + 1 : k \in 0 .. N \/ k = N + 1
      OBVIOUS
    <3>3. cut2[N + 1] <= cut2[N + 1]
      BY <1>3, <1>7
    <3>4. ASSUME NEW k \in 0 .. N + 1 PROVE cut2[k] <= cut2[N + 1]
      <4>1. CASE k \in 0 .. N
        BY <3>1, <4>1
      <4>2. CASE k = N + 1
        BY <3>3, <4>2
      <4>3. QED
        BY <3>2, <4>1, <4>2
    <3>5. QED
      BY <3>4
  <2>4. cut2[0] = 0
    BY <1>1, <1>7
  <2>5. QED
    BY <1>5, <1>7, <1>8, <2>1, <2>2, <2>3, <2>4 DEF Accepted
<1>10. Laid(w, rs2, cut2)
  <2>1. ASSUME NEW k \in 1 .. N, NEW n \in 1 .. FrameSize(rs2[k]) PROVE w[cut2[k - 1] + n] = Encoded(rs2[k])[n]
    <3>1. rs2[k] = rs[k] /\ cut2[k - 1] = cut[k - 1]
      BY <1>5, <1>7
    <3>2. QED
      BY <1>2, <2>1, <3>1 DEF Laid
  <2>2. ASSUME NEW n \in 1 .. FrameSize(r) PROVE w[cut2[N] + n] = Encoded(r)[n]
    <3>1. cut2[N] = cut[N] /\ N \in 0 .. N
      BY <1>7
    <3>2. w[cut[N] + n] = Encoded(r)[n]
      BY <1>2 DEF Begun
    <3>3. QED
      BY <3>1, <3>2
  <2>3. \A k \in 1 .. N + 1 : k \in 1 .. N \/ (k = N + 1 /\ k - 1 = N)
    OBVIOUS
  <2>4. QED
    <3>1. ASSUME NEW k \in 1 .. N + 1, NEW n \in 1 .. FrameSize(rs2[k])
          PROVE  w[cut2[k - 1] + n] = Encoded(rs2[k])[n]
      <4>1. CASE k \in 1 .. N
        BY <2>1, <4>1
      <4>2. CASE k = N + 1 /\ k - 1 = N
        BY <1>5, <2>2, <4>2
      <4>3. QED
        BY <2>3, <4>1, <4>2
    <3>2. QED
      BY <1>5, <3>1 DEF Laid
<1>11. QED
  BY <1>5, <1>7, <1>9, <1>10

LEMMA DoneType == ASSUME call \in Writing
                  PROVE  call.r \in Written /\ FrameSize(call.r) \in Nat /\ Done(call) \in Nat
<1>1. call.r \in Written
  BY DEF Writing
<1>2. Len(call.r.header) \in Nat /\ Len(call.r.data) \in Nat
  BY <1>1, RequestType
<1>3. Done(call) \in Nat
  <2>1. \A x, y \in Nat : 3 + x \in Nat /\ 3 + x + y \in Nat
    OBVIOUS
  <2>2. QED
    BY <1>2, <2>1 DEF Done
<1>4. QED
  BY <1>1, <1>3, SizeType

-----------------------------------------------------------------------------
(* Types, whatever the port says of its room.                                 *)

LEMMA IdleNot == Idle \notin Checking /\ Idle \notin Writing
  BY DEF Idle, Checking, Writing

LEMMA PortTook ==
  ASSUME Typed, NEW bytes \in Seq(Byte), SerWrite(bytes)
  PROVE  wire' \in Seq(Byte) /\ queued' \in 0 .. Capacity
<1>1. /\ wire \in Seq(Byte) /\ Len(bytes) \in Nat /\ Room \in Nat
      /\ queued \in Nat /\ Capacity \in Nat /\ queued + Room = Capacity
  BY RoomType, LenProperties DEF Typed, TypeOK, Room
<1>2. PICK n : n = IF Len(bytes) <= Room THEN Len(bytes) ELSE Room
  OBVIOUS
<1>3. n \in 0 .. Len(bytes) /\ n <= Room
  BY <1>1, <1>2
<1>4. PICK s : s = SubSeq(bytes, 1, n)
  OBVIOUS
<1>5. \A i \in 1 .. n : bytes[i] \in Byte
  BY <1>1, <1>3, ElementOfSeq
<1>6. s \in Seq(Byte)
  BY <1>1, <1>3, <1>4, <1>5, SubSeqProperties
<1>7. wire' = wire \o s /\ queued' = queued + n
  BY <1>2, <1>4 DEF SerWrite
<1>8. wire \o s \in Seq(Byte)
  BY <1>1, <1>6, ConcatProperties
<1>9. QED
  BY <1>1, <1>3, <1>7, <1>8

LEMMA SegmentType ==
  ASSUME Typed, NEW bytes \in Seq(Byte),
         NEW from \in {"prefix", "header", "data"}, NEW to \in {"header", "data", "checksum"},
         Segment(from, to, bytes)
  PROVE  Typed'
<1>1. call \in Writing
  BY Where DEF Segment
<1>2. call' \in Writing /\ call'.at = to
  BY <1>1 DEF Segment, Writing
<1>3. wire' \in Seq(Byte) /\ queued' \in 0 .. Capacity
  BY PortTook DEF Segment
<1>4. UNCHANGED <<flowcontrol, cts, ret, accepted>>
  BY DEF Segment
<1>5. QED
  BY <1>2, <1>3, <1>4 DEF Typed, TypeOK

LEMMA TypeStep == ASSUME Typed, [Next]_vars PROVE Typed'
<1>1. CASE UNCHANGED vars
  BY <1>1 DEF vars, Typed, TypeOK
<1>2. CASE MoveCTS
  BY <1>2 DEF MoveCTS, Typed, TypeOK
<1>3. CASE Drain
  <2>1. queued' \in 0 .. Capacity
    BY <1>3, RoomType DEF Drain, Typed, TypeOK
  <2>2. QED
    BY <1>3, <2>1 DEF Drain, Typed, TypeOK
<1>4. CASE SetFlowcontrol
  BY <1>4 DEF SetFlowcontrol, Typed, TypeOK
<1>5. ASSUME NEW r \in Requests, FrameWrite(r) PROVE Typed'
  <2>1. UNCHANGED <<flowcontrol, cts, wire, queued, accepted>>
    BY <1>5 DEF FrameWrite
  <2>2. CASE call' = Idle /\ ret' \in {EINVAL, ENODATA}
    BY <2>1, <2>2 DEF Typed, TypeOK, Idle
  <2>3. CASE ~(call' = Idle /\ ret' \in {EINVAL, ENODATA})
    <3>1. PICK c \in BOOLEAN : c = (CtsSeen # 0)
      OBVIOUS
    <3>2. /\ Payload(r) # <<>> /\ ret' = ret
          /\ call' = [at |-> "tx_free", r |-> r, clear |-> c]
      BY <1>5, <2>3, <3>1 DEF FrameWrite, Return
    <3>3. r \in Written
      BY <3>2 DEF Written
    <3>4. call' \in Checking /\ call'.at = "tx_free"
      BY <3>2, <3>3 DEF Checking
    <3>5. QED
      BY <2>1, <3>2, <3>4 DEF Typed, TypeOK
  <2>4. QED
    BY <2>2, <2>3
<1>6. CASE ReadFree
  <2>1. UNCHANGED <<flowcontrol, cts, wire, queued, ret, accepted>>
    BY <1>6 DEF ReadFree
  <2>2. call.r \in Written /\ call.clear \in BOOLEAN
    BY <1>6, Where DEF ReadFree
  <2>3. PICK z : z = IF ReportsRoom THEN FrameSize(call.r) - Room ELSE 0
    OBVIOUS
  <2>4. PICK q : q = FrameSize(call.r) - Room
    OBVIOUS
  <2>5. z \in Int
    <3>1. FrameSize(call.r) \in Nat /\ Room \in Nat
      BY <2>2, SizeType, RoomType
    <3>2. q \in Int
      BY <2>4, <3>1
    <3>3. QED
      BY <2>3, <2>4, <3>2
  <2>6. PICK f \in BOOLEAN : f = (ReportsRoom => Room >= FrameSize(call.r))
    OBVIOUS
  <2>7. call' = [at |-> "tx_used", r |-> call.r, clear |-> call.clear, fits |-> f, short |-> z]
    BY <1>6, <2>3, <2>6 DEF ReadFree
  <2>8. call' \in Checking /\ call'.at = "tx_used"
    BY <2>2, <2>5, <2>7 DEF Checking
  <2>9. QED
    BY <2>1, <2>8 DEF Typed, TypeOK
<1>7. CASE ReadUsed
  <2>1. UNCHANGED <<flowcontrol, cts, wire, queued, accepted>>
    BY <1>7 DEF ReadUsed
  <2>2. call.r \in Written
    BY <1>7, Where DEF ReadUsed
  <2>3. CASE call.clear /\ call.fits
    <3>1. call' = [at |-> "prefix", r |-> call.r] /\ ret' = ret
      BY <1>7, <2>3 DEF ReadUsed
    <3>2. call' \in Writing /\ call'.at = "prefix"
      BY <2>2, <3>1 DEF Writing
    <3>3. QED
      BY <2>1, <3>1, <3>2 DEF Typed, TypeOK
  <2>4. CASE ~(call.clear /\ call.fits)
    <3>1. call' = Idle /\ ret' \in {EMSGSIZE, EBUSY}
      BY <1>7, <2>4 DEF ReadUsed, Return
    <3>2. QED
      BY <2>1, <3>1 DEF Typed, TypeOK, Idle
  <2>5. QED
    BY <2>3, <2>4
<1>8. CASE WritePrefix
  <2>1. Segment("prefix", "header", Prefix(call.r)) /\ call.at = "prefix"
    BY <1>8 DEF WritePrefix, Segment, Prefix
  <2>2. Prefix(call.r) \in Seq(Byte)
    BY <2>1, Where, PrefixType
  <2>3. QED
    BY <2>1, <2>2, SegmentType
<1>9. CASE WriteHeader
  <2>1. Segment("header", "data", call.r.header) /\ call.at = "header"
    BY <1>9 DEF WriteHeader, Segment
  <2>2. call.r.header \in Seq(Byte)
    BY <2>1, Where, RequestType
  <2>3. QED
    BY <2>1, <2>2, SegmentType
<1>10. CASE WriteData
  <2>1. Segment("data", "checksum", call.r.data) /\ call.at = "data"
    BY <1>10 DEF WriteData, Segment
  <2>2. call.r.data \in Seq(Byte)
    BY <2>1, Where, RequestType
  <2>3. QED
    BY <2>1, <2>2, SegmentType
<1>11. CASE WriteChecksum
  <2>1. /\ call.at = "checksum" /\ call' = Idle /\ ret' = 0 /\ UNCHANGED <<flowcontrol, cts>>
        /\ SerWrite(<<CheckByte(call.r)>>) /\ accepted' = Append(accepted, Payload(call.r))
    BY <1>11 DEF WriteChecksum, Return, CheckByte
  <2>2. call.r \in Written
    BY <2>1, Where
  <2>3. PICK d \in Byte : d = CheckByte(call.r)
    BY <2>2, CheckType
  <2>4. <<d>> \in Seq(Byte) /\ SerWrite(<<d>>)
    BY <2>1, <2>3, Single
  <2>5. wire' \in Seq(Byte) /\ queued' \in 0 .. Capacity
    BY <2>4, PortTook
  <2>6. PICK p \in Seq(Byte) : p = Payload(call.r)
    BY <2>2, RequestType
  <2>7. accepted' \in Seq(Seq(Byte))
    BY <2>1, <2>6, AppendProperties DEF Typed, TypeOK
  <2>8. QED
    BY <2>1, <2>5, <2>7 DEF Typed, TypeOK, Idle
<1>12. QED
  BY <1>1, <1>2, <1>3, <1>4, <1>5, <1>6, <1>7, <1>8, <1>9, <1>10, <1>11 DEF Next

LEMMA TypeInit == Init => Typed
  BY TxAssumption DEF Init, Typed, TypeOK, Idle

(* Every variable keeps its type; the checksum is one byte and the buffer     *)
(* never holds more than its capacity, whether or not the port tells its      *)
(* room.                                                                      *)
THEOREM TxTyped == Spec => []TypeOK
<1>1. Typed => TypeOK
  BY DEF Typed
<1>2. QED
  BY <1>1, TypeInit, TypeStep, PTL DEF Spec

-----------------------------------------------------------------------------
LEMMA TxInit == Init => TxInv
<1> SUFFICES ASSUME Init PROVE TxInv
  OBVIOUS
<1>1. Typed
  BY TxAssumption DEF Init, Typed, TypeOK, Idle
<1>2. call \notin Checking /\ call \notin Writing
  BY DEF Init, Idle, Checking, Writing
<1>3. Fitting
  BY <1>2 DEF Fitting
<1>4. OnWire(wire, call)
  <2>1. PICK cut : cut = [k \in 0 .. 0 |-> 0]
    OBVIOUS
  <2>2. PICK rs : rs = <<>>
    OBVIOUS
  <2>3. rs \in Seq(Written) /\ Len(rs) = 0 /\ Len(accepted) = 0 /\ Len(wire) = 0
    BY <2>2 DEF Init
  <2>4. cut \in [0 .. 0 -> Nat] /\ cut[0] = 0
    BY <2>1
  <2>5. Accepted(rs, cut) /\ Laid(wire, rs, cut) /\ Len(wire) = cut[Len(rs)]
    BY <2>3, <2>4 DEF Accepted, Laid
  <2>6. QED
    BY <1>2, <2>5 DEF OnWire
<1>5. QED
  BY <1>1, <1>3, <1>4 DEF TxInv

(* The port and the module move while nothing is written.                     *)
LEMMA Quiet ==
  ASSUME TxInv, Typed', UNCHANGED <<wire, call, accepted>>, queued' \in 0 .. queued
  PROVE  TxInv'
<1>1. Typed'
  OBVIOUS
<1>2. Room \in Nat /\ Room' \in Nat /\ Room <= Room'
  BY RoomType DEF TxInv, Room
<1>3. Fitting'
  <2>1. ASSUME call \in Checking, call.at = "tx_used", call.fits PROVE FrameSize(call.r) <= Room'
    <3>1. FrameSize(call.r) <= Room
      BY <2>1 DEF TxInv, Fitting
    <3>2. call.r \in Written
      BY <2>1, Where DEF TxInv
    <3>3. FrameSize(call.r) \in Nat
      BY <3>2, SizeType
    <3>4. QED
      BY <1>2, <3>1, <3>3
  <2>2. ASSUME call \in Writing PROVE FrameSize(call.r) - Done(call) <= Room'
    <3>1. FrameSize(call.r) - Done(call) <= Room
      BY <2>2 DEF TxInv, Fitting
    <3>2. FrameSize(call.r) \in Nat /\ Done(call) \in Nat
      BY <2>2, DoneType
    <3>3. QED
      BY <1>2, <3>1, <3>2
  <2>3. QED
    BY <2>1, <2>2 DEF Fitting, FrameSize, Done
<1>4. OnWire(wire, call)'
  <2>1. PICK rs, cut :
          /\ Accepted(rs, cut) /\ Laid(wire, rs, cut)
          /\ IF call \in Writing THEN Begun(wire, rs, cut, call.r, Done(call)) ELSE Len(wire) = cut[Len(rs)]
    BY DEF TxInv, OnWire
  <2>2. Accepted(rs, cut)' /\ wire' = wire /\ call' = call
    BY <2>1 DEF Accepted
  <2>3. /\ Laid(wire', rs, cut)
        /\ IF call' \in Writing THEN Begun(wire', rs, cut, call'.r, Done(call')) ELSE Len(wire') = cut[Len(rs)]
    BY <2>1, <2>2
  <2>4. QED
    BY <2>2, <2>3 DEF OnWire
<1>5. QED
  BY <1>1, <1>3, <1>4 DEF TxInv

(* Nothing is written before the first write.                                 *)
LEMMA Look ==
  ASSUME TxInv, Typed', UNCHANGED <<wire, queued, accepted>>, call \notin Writing,
         call' \in Checking /\ call'.at = "tx_used" /\ call'.fits => FrameSize(call'.r) <= Room,
         call' \in Writing => call'.at = "prefix" /\ FrameSize(call'.r) <= Room
  PROVE  TxInv'
<1>1. Typed'
  OBVIOUS
<1>2. Fitting'
  <2>1. Room' = Room
    BY DEF Room
  <2>2. call' \in Writing => Done(call)' = 0 /\ FrameSize(call'.r) \in Nat
    <3>1. ASSUME call' \in Writing PROVE Done(call)' = 0 /\ FrameSize(call'.r) \in Nat
      <4>1. call'.at = "prefix" /\ call'.r \in Written
        BY <3>1 DEF Writing
      <4>2. QED
        BY <4>1, SizeType DEF Done
    <3>2. QED
      BY <3>1
  <2>3. QED
    BY <2>1, <2>2 DEF Fitting
<1>3. PICK rs, cut : Accepted(rs, cut) /\ Laid(wire, rs, cut) /\ Len(wire) = cut[Len(rs)]
  BY DEF TxInv, OnWire
<1>4. Accepted(rs, cut)' /\ Laid(wire, rs, cut)' /\ Len(wire') = cut[Len(rs)]
  BY <1>3 DEF Accepted, Laid
<1>5. call' \in Writing => Begun(wire', rs, cut, call'.r, Done(call'))
  <2>1. ASSUME call' \in Writing PROVE Begun(wire', rs, cut, call'.r, Done(call'))
    <3>1. Done(call') = 0
      BY <2>1 DEF Done
    <3>2. Len(wire') \in Nat
      BY <1>1, LenProperties DEF Typed, TypeOK
    <3>3. QED
      BY <1>4, <3>1, <3>2 DEF Begun
  <2>2. QED
    BY <2>1
<1>6. OnWire(wire, call)'
  BY <1>4, <1>5 DEF OnWire
<1>7. QED
  BY <1>1, <1>2, <1>6 DEF TxInv

(* One of the first three writes.                                             *)
LEMMA Wrote ==
  ASSUME TxInv, Typed', call \in Writing, call' \in Writing, UNCHANGED accepted,
         NEW bytes \in Seq(Byte), Len(bytes) <= Room, SerWrite(bytes),
         call'.r = call.r, Done(call') = Done(call) + Len(bytes),
         \A n \in 1 .. Len(bytes) : Encoded(call.r)[Done(call) + n] = bytes[n]
  PROVE  TxInv'
<1>1. /\ wire' \in Seq(Byte) /\ Len(wire') = Len(wire) + Len(bytes)
      /\ Len(wire) \in Nat /\ Len(bytes) \in Nat
      /\ \A n \in 1 .. Len(wire) : wire'[n] = wire[n]
      /\ \A n \in 1 .. Len(bytes) : wire'[Len(wire) + n] = bytes[n]
      /\ queued' \in 0 .. Capacity /\ Room' = Room - Len(bytes)
  BY Taken DEF TxInv
<1>2. Typed'
  OBVIOUS
<1>3. call.r \in Written /\ FrameSize(call.r) \in Nat /\ Done(call) \in Nat /\ Room \in Nat
  BY DoneType, RoomType DEF TxInv
<1>4. Fitting'
  <2>1. FrameSize(call.r) - Done(call) <= Room
    BY DEF TxInv, Fitting
  <2>2. FrameSize(call.r) - Done(call') <= Room'
    BY <1>1, <1>3, <2>1
  <2>3. call' \notin Checking
    BY DEF Checking, Writing
  <2>4. QED
    BY <2>2, <2>3 DEF Fitting
<1>5. PICK rs, cut : Accepted(rs, cut) /\ Laid(wire, rs, cut) /\ Begun(wire, rs, cut, call.r, Done(call))
  BY DEF TxInv, OnWire
<1>6. PICK w \in Seq(Byte), w2 \in Seq(Byte), r \in Written, p \in Nat :
         w = wire /\ w2 = wire' /\ r = call.r /\ p = Done(call)
  BY <1>1, <1>3 DEF TxInv, Typed, TypeOK
<1>7. Laid(w2, rs, cut) /\ Begun(w2, rs, cut, r, p + Len(bytes))
  <2>1. Accepted(rs, cut) /\ Laid(w, rs, cut) /\ Begun(w, rs, cut, r, p)
    BY <1>5, <1>6
  <2>2. Len(w2) = Len(w) + Len(bytes) /\ \A n \in 1 .. Len(w) : w2[n] = w[n]
    BY <1>1, <1>6
  <2>3. \A n \in 1 .. Len(bytes) : w2[Len(w) + n] = bytes[n] /\ Encoded(r)[p + n] = bytes[n]
    BY <1>1, <1>6
  <2>4. QED
    BY <2>1, <2>2, <2>3, Further
<1>8. Accepted(rs, cut)'
  BY <1>5 DEF Accepted
<1>9. Laid(wire', rs, cut) /\ Begun(wire', rs, cut, call'.r, Done(call'))
  BY <1>6, <1>7
<1>10. OnWire(wire, call)'
  BY <1>8, <1>9 DEF OnWire
<1>11. QED
  BY <1>2, <1>4, <1>10 DEF TxInv

-----------------------------------------------------------------------------
LEMMA PortStep == ASSUME TxInv, Typed', MoveCTS \/ Drain \/ SetFlowcontrol PROVE TxInv'
<1>1. queued \in Nat
  BY RoomType DEF TxInv
<1>2. CASE MoveCTS
  BY <1>1, <1>2, Quiet DEF MoveCTS
<1>3. CASE Drain
  <2>1. queued' \in 0 .. queued
    BY <1>1, <1>3 DEF Drain
  <2>2. QED
    BY <1>3, <2>1, Quiet DEF Drain
<1>4. CASE SetFlowcontrol
  BY <1>1, <1>4, Quiet DEF SetFlowcontrol
<1>5. QED
  BY <1>2, <1>3, <1>4

LEMMA FrameWriteStep == ASSUME TxInv, Typed', NEW r \in Requests, FrameWrite(r) PROVE TxInv'
<1>1. UNCHANGED <<wire, queued, accepted>> /\ call \notin Writing
  BY IdleNot DEF FrameWrite
<1>2. PICK c \in BOOLEAN : c = (CtsSeen # 0)
  OBVIOUS
<1>3. call' = Idle \/ call' = [at |-> "tx_free", r |-> r, clear |-> c]
  BY <1>2 DEF FrameWrite, Return
<1>4. CASE call' = Idle
  BY <1>1, <1>4, IdleNot, Look
<1>5. CASE call' = [at |-> "tx_free", r |-> r, clear |-> c]
  <2>1. call'.at = "tx_free"
    BY <1>5
  <2>2. call' \notin Writing
    BY <2>1 DEF Writing
  <2>3. QED
    BY <1>1, <2>1, <2>2, Look
<1>6. QED
  BY <1>3, <1>4, <1>5

LEMMA ReadFreeStep == ASSUME ReportsRoom, TxInv, Typed', ReadFree PROVE TxInv'
<1>1. UNCHANGED <<wire, queued, accepted>>
  BY DEF ReadFree
<1>2. call \in Checking /\ call.r \in Written /\ call.clear \in BOOLEAN
  BY Where DEF ReadFree, TxInv
<1>3. call \notin Writing
  BY DEF ReadFree, Writing
<1>4. PICK z : z = FrameSize(call.r) - Room
  OBVIOUS
<1>5. FrameSize(call.r) \in Nat /\ Room \in Nat /\ z \in Int
  BY <1>2, <1>4, SizeType, RoomType DEF TxInv
<1>6. PICK f \in BOOLEAN : f = (ReportsRoom => Room >= FrameSize(call.r))
  OBVIOUS
<1>7. call' = [at |-> "tx_used", r |-> call.r, clear |-> call.clear, fits |-> f, short |-> z]
  <2>1. (IF ReportsRoom THEN FrameSize(call.r) - Room ELSE 0) = z
    BY <1>4
  <2>2. QED
    BY <1>6, <2>1 DEF ReadFree
<1>8. call' \in Checking /\ call'.at = "tx_used"
  BY <1>2, <1>5, <1>7 DEF Checking
<1>9. call'.fits => FrameSize(call'.r) <= Room
  <2>1. call'.fits = f /\ call'.r = call.r
    BY <1>7
  <2>2. f => Room >= FrameSize(call.r)
    BY <1>6
  <2>3. QED
    BY <1>5, <2>1, <2>2
<1>10. call' \notin Writing
  BY <1>8 DEF Writing
<1>11. QED
  BY <1>1, <1>3, <1>8, <1>9, <1>10, Look

LEMMA ReadUsedStep == ASSUME TxInv, Typed', ReadUsed PROVE TxInv'
<1>1. UNCHANGED <<wire, queued, accepted>>
  BY DEF ReadUsed
<1>2. call \in Checking /\ call.r \in Written /\ call.at = "tx_used"
  BY Where DEF ReadUsed, TxInv
<1>3. call \notin Writing
  BY DEF ReadUsed, Writing
<1>4. CASE call.clear /\ call.fits
  <2>1. call' = [at |-> "prefix", r |-> call.r]
    BY <1>4 DEF ReadUsed
  <2>2. FrameSize(call.r) <= Room
    BY <1>2, <1>4 DEF TxInv, Fitting
  <2>3. call' \in Writing /\ call'.at = "prefix" /\ FrameSize(call'.r) <= Room
    BY <1>2, <2>1, <2>2 DEF Writing
  <2>4. call' \notin Checking
    BY <2>3 DEF Checking
  <2>5. QED
    BY <1>1, <1>3, <2>3, <2>4, Look
<1>5. CASE ~(call.clear /\ call.fits)
  <2>1. call' = Idle
    BY <1>5 DEF ReadUsed, Return
  <2>2. QED
    BY <1>1, <1>3, <2>1, IdleNot, Look
<1>6. QED
  BY <1>4, <1>5

(* A segment of bytes is written where the call stands.                       *)
LEMMA SegmentStep ==
  ASSUME TxInv, Typed', NEW from \in {"prefix", "header", "data"}, NEW to \in {"header", "data", "checksum"},
         NEW bytes \in Seq(Byte), Segment(from, to, bytes),
         NEW p \in Nat, Done(call) = p, Done([call EXCEPT !.at = to]) = p + Len(bytes),
         p + Len(bytes) <= FrameSize(call.r),
         \A n \in 1 .. Len(bytes) : Encoded(call.r)[p + n] = bytes[n]
  PROVE  TxInv'
<1>1. call \in Writing /\ call.r \in Written
  BY Where DEF Segment, TxInv
<1>2. /\ call.at = from /\ SerWrite(bytes) /\ call' = [call EXCEPT !.at = to]
      /\ UNCHANGED accepted
  BY DEF Segment
<1>3. call' \in Writing /\ call'.r = call.r
  BY <1>1, <1>2 DEF Writing
<1>4. Done(call') = Done(call) + Len(bytes)
  BY <1>2
<1>5. Len(bytes) <= Room
  <2>1. FrameSize(call.r) - p <= Room
    BY <1>1 DEF TxInv, Fitting
  <2>2. FrameSize(call.r) \in Nat /\ Room \in Nat /\ Len(bytes) \in Nat
    BY <1>1, SizeType, RoomType, LenProperties DEF TxInv
  <2>3. QED
    BY <2>1, <2>2
<1>6. bytes \in Seq(Byte)
  OBVIOUS
<1>7. \A n \in 1 .. Len(bytes) : Encoded(call.r)[Done(call) + n] = bytes[n]
  OBVIOUS
<1>8. QED
  BY <1>1, <1>2, <1>3, <1>4, <1>5, <1>6, <1>7, Wrote

LEMMA Lengths == ASSUME NEW r \in Written
  PROVE  /\ Len(r.header) \in Nat /\ Len(r.data) \in Nat /\ Len(Prefix(r)) = 3
         /\ FrameSize(r) = 3 + Len(r.header) + Len(r.data) + 1
         /\ 3 + Len(r.header) + Len(r.data) \in Nat
<1>1. /\ Len(r.header) \in Nat /\ Len(r.data) \in Nat /\ Len(Prefix(r)) = 3
      /\ FrameSize(r) = Len(r.header) + Len(r.data) + 4
  BY RequestType, PrefixType
<1>2. \A x, y \in Nat : x + y + 4 = 3 + x + y + 1 /\ 3 + x + y \in Nat
  OBVIOUS
<1>3. QED
  BY <1>1, <1>2

LEMMA WritePrefixStep == ASSUME TxInv, Typed', WritePrefix PROVE TxInv'
<1>1. call.at = "prefix" /\ Segment("prefix", "header", Prefix(call.r))
  BY DEF WritePrefix, Segment, Prefix
<1>2. call \in Writing /\ call.r \in Written
  BY <1>1, Where DEF TxInv
<1>3. PICK bytes \in Seq(Byte) : bytes = Prefix(call.r) /\ Len(bytes) = 3
  BY <1>2, PrefixType
<1>4. PICK p \in Nat : p = 0
  OBVIOUS
<1>5. Done(call) = p
  BY <1>1, <1>4 DEF Done
<1>6. Done([call EXCEPT !.at = "header"]) = p + Len(bytes)
  BY <1>2, <1>3, <1>4 DEF Done, Writing
<1>7. p + Len(bytes) <= FrameSize(call.r)
  BY <1>2, <1>3, <1>4, SizeType
<1>8. ASSUME NEW n \in 1 .. Len(bytes) PROVE Encoded(call.r)[p + n] = bytes[n]
  <2>1. p + n = n /\ n \in 1 .. 3
    BY <1>3, <1>4
  <2>2. QED
    BY <1>2, <1>3, <2>1, EncodedIs
<1>9. Segment("prefix", "header", bytes)
  BY <1>1, <1>3
<1>10. QED
  BY <1>3, <1>5, <1>6, <1>7, <1>8, <1>9, SegmentStep

LEMMA WriteHeaderStep == ASSUME TxInv, Typed', WriteHeader PROVE TxInv'
<1>1. call.at = "header" /\ Segment("header", "data", call.r.header)
  BY DEF WriteHeader, Segment
<1>2. call \in Writing /\ call.r \in Written
  BY <1>1, Where DEF TxInv
<1>3. PICK bytes \in Seq(Byte) : bytes = call.r.header
  BY <1>2, RequestType
<1>4. PICK p \in Nat : p = 3
  OBVIOUS
<1>5. Done(call) = p
  BY <1>1, <1>4 DEF Done
<1>6. Done([call EXCEPT !.at = "data"]) = p + Len(bytes)
  BY <1>2, <1>3, <1>4 DEF Done, Writing
<1>7. p + Len(bytes) <= FrameSize(call.r)
  <2>1. /\ Len(bytes) \in Nat /\ Len(call.r.data) \in Nat
        /\ FrameSize(call.r) = 3 + Len(bytes) + Len(call.r.data) + 1
    BY <1>2, <1>3, Lengths
  <2>2. \A x, y \in Nat : 3 + x <= 3 + x + y + 1
    OBVIOUS
  <2>3. QED
    BY <1>4, <2>1, <2>2
<1>8. \A n \in 1 .. Len(bytes) : Encoded(call.r)[p + n] = bytes[n]
  BY <1>2, <1>3, <1>4, EncodedIs
<1>9. Segment("header", "data", bytes)
  BY <1>1, <1>3
<1>10. QED
  BY <1>3, <1>5, <1>6, <1>7, <1>8, <1>9, SegmentStep

LEMMA WriteDataStep == ASSUME TxInv, Typed', WriteData PROVE TxInv'
<1>1. call.at = "data" /\ Segment("data", "checksum", call.r.data)
  BY DEF WriteData, Segment
<1>2. call \in Writing /\ call.r \in Written
  BY <1>1, Where DEF TxInv
<1>3. PICK bytes \in Seq(Byte) : bytes = call.r.data
  BY <1>2, RequestType
<1>4. PICK p \in Nat : p = 3 + Len(call.r.header)
  <2>1. Len(call.r.header) \in Nat /\ \A x \in Nat : 3 + x \in Nat
    BY <1>2, RequestType
  <2>2. QED
    BY <2>1
<1>5. Done(call) = p
  BY <1>1, <1>4 DEF Done
<1>6. Done([call EXCEPT !.at = "checksum"]) = p + Len(bytes)
  BY <1>2, <1>3, <1>4 DEF Done, Writing
<1>7. p + Len(bytes) <= FrameSize(call.r)
  <2>1. Len(bytes) \in Nat /\ FrameSize(call.r) = p + Len(bytes) + 1
    BY <1>2, <1>3, <1>4, Lengths
  <2>2. QED
    BY <2>1
<1>8. \A n \in 1 .. Len(bytes) : Encoded(call.r)[p + n] = bytes[n]
  BY <1>2, <1>3, <1>4, EncodedIs
<1>9. QED
  BY <1>1, <1>3, <1>5, <1>6, <1>7, <1>8, SegmentStep

(* The last byte of the frame, and the call returns 0.                        *)
LEMMA WriteChecksumStep == ASSUME TxInv, Typed', WriteChecksum PROVE TxInv'
<1>1. /\ call.at = "checksum" /\ call' = Idle
      /\ SerWrite(<<CheckByte(call.r)>>) /\ accepted' = Append(accepted, Payload(call.r))
  BY DEF WriteChecksum, Return, CheckByte
<1>2. call \in Writing /\ call.r \in Written
  BY <1>1, Where DEF TxInv
<1>3. PICK d \in Byte : d = CheckByte(call.r)
  BY <1>2, CheckType
<1>4. PICK bytes : bytes = <<d>>
  OBVIOUS
<1>5. bytes \in Seq(Byte) /\ Len(bytes) = 1 /\ bytes[1] = d
  BY <1>4, Single
<1>6. PICK p \in Nat : p = 3 + Len(call.r.header) + Len(call.r.data)
  BY <1>2, Lengths
<1>7. Done(call) = p /\ FrameSize(call.r) = p + 1
  BY <1>1, <1>2, <1>6, Lengths DEF Done
<1>8. Len(bytes) <= Room
  <2>1. FrameSize(call.r) - Done(call) <= Room /\ Room \in Nat
    BY <1>2, RoomType DEF TxInv, Fitting
  <2>2. QED
    BY <1>5, <1>7, <2>1
<1>9. /\ wire' \in Seq(Byte) /\ Len(wire') = Len(wire) + Len(bytes)
      /\ \A n \in 1 .. Len(wire) : wire'[n] = wire[n]
      /\ \A n \in 1 .. Len(bytes) : wire'[Len(wire) + n] = bytes[n]
  <2>1. SerWrite(bytes)
    BY <1>1, <1>3, <1>4
  <2>2. Typed
    BY DEF TxInv
  <2>3. QED
    BY <1>5, <1>8, <2>1, <2>2, Taken
<1>10. PICK rs, cut : Accepted(rs, cut) /\ Laid(wire, rs, cut) /\ Begun(wire, rs, cut, call.r, p)
  BY <1>2, <1>7 DEF TxInv, OnWire
<1>11. PICK w \in Seq(Byte), w2 \in Seq(Byte), r \in Written :
          w = wire /\ w2 = wire' /\ r = call.r
  BY <1>2, <1>9 DEF TxInv, Typed, TypeOK
<1>12. Laid(w2, rs, cut) /\ Begun(w2, rs, cut, r, p + Len(bytes))
  <2>1. Accepted(rs, cut) /\ Laid(w, rs, cut) /\ Begun(w, rs, cut, r, p)
    BY <1>10, <1>11
  <2>2. Len(w2) = Len(w) + Len(bytes) /\ \A n \in 1 .. Len(w) : w2[n] = w[n]
    BY <1>9, <1>11
  <2>3. \A n \in 1 .. Len(bytes) : w2[Len(w) + n] = bytes[n] /\ Encoded(r)[p + n] = bytes[n]
    <3>1. Encoded(r)[p + 1] = bytes[1]
      BY <1>3, <1>5, <1>6, <1>11, EncodedIs
    <3>2. w2[Len(w) + 1] = bytes[1]
      BY <1>5, <1>9, <1>11
    <3>3. \A n \in 1 .. Len(bytes) : n = 1
      BY <1>5
    <3>4. QED
      BY <3>1, <3>2, <3>3
  <2>4. QED
    BY <1>5, <2>1, <2>2, <2>3, Further
<1>13. Begun(w2, rs, cut, r, FrameSize(r))
  BY <1>5, <1>7, <1>11, <1>12
<1>14. accepted \in Seq(Seq(Byte)) /\ accepted' = Append(accepted, Payload(r))
  BY <1>1, <1>11 DEF TxInv, Typed, TypeOK
<1>15. PICK rs2, cut2 : Accepted(rs2, cut2)' /\ Laid(w2, rs2, cut2) /\ Len(w2) = cut2[Len(rs2)]
  BY <1>10, <1>12, <1>13, <1>14, OneMore
<1>16. call' \notin Writing /\ call' \notin Checking
  BY <1>1, IdleNot
<1>17. OnWire(wire, call)'
  BY <1>11, <1>15, <1>16 DEF OnWire
<1>18. Fitting'
  BY <1>16 DEF Fitting
<1>19. QED
  BY <1>17, <1>18 DEF TxInv

-----------------------------------------------------------------------------
LEMMA TxStep == ASSUME ReportsRoom, TxInv, [Next]_vars PROVE TxInv'
<1>1. Typed'
  BY TypeStep DEF TxInv
<1>2. CASE UNCHANGED vars
  <2>1. UNCHANGED <<wire, call, accepted>> /\ queued' \in 0 .. queued
    BY <1>2, RoomType DEF vars, TxInv
  <2>2. QED
    BY <1>1, <2>1, Quiet
<1>3. CASE Next
  BY <1>1, <1>3, PortStep, FrameWriteStep, ReadFreeStep, ReadUsedStep, WritePrefixStep, WriteHeaderStep,
     WriteDataStep, WriteChecksumStep DEF Next
<1>4. QED
  BY <1>2, <1>3

-----------------------------------------------------------------------------
(* What the decoder finds.                                                    *)

-----------------------------------------------------------------------------
(* What the decoder finds.                                                    *)

LEMMA LengthRead ==
  ASSUME NEW n \in Nat, n < StartByte * ByteMod
  PROVE  /\ (n \div ByteMod) % ByteMod # StartByte
         /\ ((n \div ByteMod) % ByteMod) * ByteMod + (n % ByteMod) = n
<1>1. PICK m \in Nat, b \in Nat : m = ByteMod /\ b = StartByte /\ m > 0 /\ b < m
  BY ByteAssumption
<1>2. n \div m \in Nat /\ n % m \in 0 .. m - 1 /\ n = m * (n \div m) + (n % m)
  BY <1>1
<1>3. PICK q \in Nat, k \in Nat : q = n \div m /\ k = n % m /\ n = m * q + k
  BY <1>1, <1>2
<1>4. q < b
  <2> SUFFICES ASSUME q >= b PROVE FALSE
    OBVIOUS
  <2>1. \A x, y, z \in Nat : y >= z => x * y >= z * x
    OBVIOUS
  <2>2. m * q >= b * m
    BY <2>1
  <2>3. PICK x \in Nat, y \in Nat : x = m * q /\ y = b * m
    OBVIOUS
  <2>4. n = x + k /\ n < y /\ x >= y
    BY <1>1, <1>3, <2>2, <2>3
  <2>5. QED
    BY <2>4
<1>5. q % m = q
  BY <1>1, <1>4
<1>6. q * m = m * q
  BY <1>1
<1>7. QED
  BY <1>1, <1>3, <1>4, <1>5, <1>6

LEMMA FrameBytes ==
  ASSUME NEW r \in Written
  PROVE  /\ Encoded(r)[1] = StartByte
         /\ Encoded(r)[2] = (Len(Payload(r)) \div ByteMod) % ByteMod
         /\ Encoded(r)[3] = Len(Payload(r)) % ByteMod
         /\ \A n \in 1 .. Len(Payload(r)) : Encoded(r)[3 + n] = Payload(r)[n]
         /\ Encoded(r)[3 + Len(Payload(r)) + 1] = CheckByte(r)
<1>1. PICK L \in Nat : L = Len(Payload(r))
  BY RequestType
<1>2. PICK x \in Byte, y \in Byte, z \in Byte : x = StartByte /\ y = (L \div ByteMod) % ByteMod /\ z = L % ByteMod
  <2>1. ByteMod \in Nat /\ ByteMod > 0 /\ StartByte \in Byte
    BY ByteAssumption DEF Byte
  <2>2. (L \div ByteMod) % ByteMod \in Byte /\ L % ByteMod \in Byte
    BY <2>1 DEF Byte
  <2>3. QED
    BY <2>1, <2>2
<1>3. Prefix(r) = <<x>> \o <<y, z>>
  BY <1>1, <1>2 DEF Prefix, LengthBytes
<1>4. PICK p : p = <<x>> \o <<y, z>>
  OBVIOUS
<1>5. p[1] = x /\ p[2] = y /\ p[3] = z
  BY <1>4
<1>6. /\ \A n \in 1 .. 3 : Encoded(r)[n] = Prefix(r)[n]
      /\ \A n \in 1 .. Len(r.header) : Encoded(r)[3 + n] = r.header[n]
      /\ \A n \in 1 .. Len(r.data) : Encoded(r)[3 + Len(r.header) + n] = r.data[n]
      /\ Encoded(r)[3 + Len(r.header) + Len(r.data) + 1] = CheckByte(r)
  BY EncodedIs
<1>7. PICK h \in Seq(Byte), d \in Seq(Byte) : h = r.header /\ d = r.data
  BY RequestType
<1>8. PICK u : u = h \o d
  OBVIOUS
<1>9. /\ u = Payload(r) /\ L = Len(h) + Len(d) /\ Len(h) \in Nat /\ Len(d) \in Nat
      /\ \A n \in 1 .. Len(h) : u[n] = h[n]
      /\ \A n \in 1 .. Len(d) : u[Len(h) + n] = d[n]
  <2>1. u = Payload(r)
    BY <1>7, <1>8 DEF Payload
  <2>2. /\ Len(u) = Len(h) + Len(d) /\ Len(h) \in Nat /\ Len(d) \in Nat
        /\ \A n \in 1 .. Len(h) : u[n] = h[n]
        /\ \A n \in 1 .. Len(d) : u[Len(h) + n] = d[n]
    BY <1>8, Concatenated
  <2>3. QED
    BY <1>1, <2>1, <2>2
<1>10. PICK a \in Nat, b \in Nat : a = Len(h) /\ b = Len(d)
  BY <1>9
<1>11. PICK e : e = Encoded(r)
  OBVIOUS
<1>12. ASSUME NEW n \in 1 .. L PROVE e[3 + n] = u[n]
  <2>1. CASE n <= a
    <3>1. n \in 1 .. a
      BY <2>1
    <3>2. QED
      BY <1>6, <1>7, <1>9, <1>10, <1>11, <3>1
  <2>2. CASE n > a
    <3>1. PICK k \in 1 .. b : n = a + k
      <4>1. n - a \in 1 .. b /\ n = a + (n - a)
        BY <1>9, <1>10, <2>2
      <4>2. QED
        BY <4>1
    <3>2. 3 + n = 3 + a + k
      BY <3>1
    <3>3. e[3 + a + k] = d[k]
      BY <1>6, <1>7, <1>10, <1>11
    <3>4. u[a + k] = d[k]
      BY <1>9, <1>10
    <3>5. QED
      BY <3>1, <3>2, <3>3, <3>4
  <2>3. QED
    BY <1>1, <1>10, <2>1, <2>2
<1>13. 3 + L + 1 = 3 + a + b + 1
  BY <1>1, <1>9, <1>10
<1>14. e[3 + L + 1] = CheckByte(r)
  BY <1>6, <1>7, <1>10, <1>11, <1>13
<1>15. e[1] = StartByte /\ e[2] = y /\ e[3] = z
  <2>1. 1 \in 1 .. 3 /\ 2 \in 1 .. 3 /\ 3 \in 1 .. 3
    OBVIOUS
  <2>2. QED
    BY <1>2, <1>3, <1>4, <1>5, <1>6, <1>11, <2>1
<1>16. QED
  BY <1>1, <1>2, <1>9, <1>11, <1>12, <1>14, <1>15

(* Where a whole frame lies in the bytes, the decoder finds it and goes on    *)
(* behind it.                                                                 *)
LEMMA FrameAt ==
  ASSUME NEW s \in Seq(Byte), NEW r \in Written, NEW a \in Nat, a + FrameSize(r) <= Len(s),
         \A n \in 1 .. FrameSize(r) : s[a + n] = Encoded(r)[n]
  PROVE  FramesFrom(s)[a + 1] = <<Payload(r)>> \o FramesFrom(s)[a + FrameSize(r) + 1]
<1>1. PICK L \in 2 .. MaxFrameLen : L = Len(Payload(r))
  <2>1. r \in Requests /\ Payload(r) # <<>>
    BY DEF Written
  <2>2. QED
    BY <2>1, ByteAssumption, DecoderAssumption
<1>2. L \in Nat /\ L >= 2 /\ L < StartByte * ByteMod
  <2>1. StartByte * ByteMod \in Nat
    BY ByteAssumption
  <2>2. QED
    BY <2>1, ByteAssumption, DecoderAssumption
<1>3. FrameSize(r) = L + 4
  BY <1>1, <1>2 DEF FrameSize
<1>4. PICK N \in Nat : N = Len(s)
  BY LenProperties
<1>5. a + L + 4 <= N
  BY <1>2, <1>3, <1>4
<1>6. ASSUME NEW n \in 1 .. L + 4 PROVE s[a + n] = Encoded(r)[n]
  BY <1>3
<1>7. PICK y : y = (L \div ByteMod) % ByteMod
  OBVIOUS
<1>8. PICK z : z = L % ByteMod
  OBVIOUS
<1>9. s[a + 1] = StartByte /\ s[a + 2] = y /\ s[a + 3] = z /\ s[a + (3 + L + 1)] = CheckByte(r)
  <2>1. 1 \in 1 .. L + 4 /\ 2 \in 1 .. L + 4 /\ 3 \in 1 .. L + 4 /\ 3 + L + 1 \in 1 .. L + 4
    BY <1>2
  <2>2. /\ Encoded(r)[1] = StartByte /\ Encoded(r)[2] = y /\ Encoded(r)[3] = z
        /\ Encoded(r)[3 + L + 1] = CheckByte(r)
    BY <1>1, <1>7, <1>8, FrameBytes
  <2>3. QED
    BY <1>6, <2>1, <2>2
<1>10. y # StartByte /\ y * ByteMod + z = L
  BY <1>2, <1>7, <1>8, LengthRead
<1>11. PICK i \in 1 .. N : i = a + 1 /\ i + 1 = a + 2 /\ i + 1 + 1 = a + 3 /\ i < N
  BY <1>2, <1>5
<1>12. FirstOther(s, FirstStart(s, i)) = i + 1 /\ Low(s, i) = i + 2
  <2>1. i \in Nat /\ i >= 1 /\ i + 2 \in Nat /\ i + 2 <= Len(s) + 1 /\ i + 2 - 1 = i + 1
    BY <1>4, <1>11
  <2>2. \A j \in i .. i + 2 - 2 : j = i
    BY <1>11
  <2>3. Header(s, i, i + 2)
    BY <1>9, <1>10, <1>11, <2>1, <2>2 DEF Header
  <2>4. QED
    BY <2>1, <2>3, HeaderFound
<1>13. Low(s, i) = a + 3
  BY <1>11, <1>12
<1>14. Told(s, i) = L
  BY <1>9, <1>10, <1>11, <1>12, <1>13 DEF Told
<1>15. Check(s, i) = a + (3 + L + 1) /\ Check(s, i) + 1 = a + FrameSize(r) + 1
  <2>1. Check(s, i) = a + 3 + L + 1
    BY <1>13, <1>14 DEF Check
  <2>2. QED
    BY <1>2, <1>3, <2>1
<1>16. Found(s, i) = Payload(r)
  <2>1. PICK u \in Seq(Byte) : u = Payload(r)
    BY RequestType
  <2>2. PICK b \in Nat, c \in Nat : b = a + 4 /\ c = a + 3 + L
    BY <1>2
  <2>3. \A n \in b .. c : s[n] \in Byte
    <3>1. \A n \in b .. c : n \in 1 .. Len(s)
      BY <1>2, <1>4, <1>5, <2>2
    <3>2. QED
      BY <3>1, ElementOfSeq
  <2>4. PICK v : v = SubSeq(s, b, c)
    OBVIOUS
  <2>5. /\ v \in Seq(Byte) /\ Len(v) = (IF b <= c THEN c - b + 1 ELSE 0)
        /\ \A n \in 1 .. c - b + 1 : v[n] = s[b + n - 1]
    BY <2>2, <2>3, <2>4, SubSeqProperties
  <2>6. Len(v) = L /\ Len(u) = L
    BY <1>1, <1>2, <2>1, <2>2, <2>5
  <2>7. ASSUME NEW n \in 1 .. L PROVE v[n] = u[n]
    <3>1. n \in 1 .. c - b + 1 /\ b + n - 1 = a + (3 + n) /\ 3 + n \in 1 .. L + 4
      BY <1>2, <2>2
    <3>2. v[n] = s[a + (3 + n)]
      BY <2>5, <3>1
    <3>3. s[a + (3 + n)] = Encoded(r)[3 + n]
      BY <1>6, <3>1
    <3>4. Encoded(r)[3 + n] = u[n]
      BY <1>1, <2>1, FrameBytes
    <3>5. QED
      BY <3>2, <3>3, <3>4
  <2>8. v = u
    BY <2>5, <2>6, <2>7, SeqEqual
  <2>9. Found(s, i) = v
    <3>1. a + 3 + 1 = b /\ a + 3 + L = c
      BY <2>2
    <3>2. QED
      BY <1>13, <1>14, <2>4, <3>1 DEF Found
  <2>10. QED
    BY <2>1, <2>8, <2>9
<1>17. Intact(Found(s, i), s[Check(s, i)])
  <2>1. r.header \in Seq(Byte) /\ r.data \in Seq(Byte)
    BY RequestType
  <2>2. Intact(r.header \o r.data, Checksum(r.data, Checksum(r.header, AllOnes)))
    BY <2>1, AddsUp
  <2>3. s[Check(s, i)] = Checksum(r.data, Checksum(r.header, AllOnes))
    BY <1>9, <1>15 DEF CheckByte
  <2>4. Found(s, i) = r.header \o r.data
    BY <1>16 DEF Payload
  <2>5. QED
    BY <2>2, <2>3, <2>4
<1>18. ~(Low(s, i) > Len(s)) /\ Told(s, i) \in 2 .. MaxFrameLen /\ ~(Check(s, i) > Len(s))
  BY <1>1, <1>2, <1>4, <1>5, <1>13, <1>14, <1>15
<1>19. PICK f : f = FramesFrom(s)
  OBVIOUS
<1>20. f[i] = Body(f, s, i)
  <2>1. i \in 1 .. Len(s) + 1
    BY <1>4, <1>11
  <2>2. QED
    BY <1>19, <2>1, FramesFromIs
<1>21. Body(f, s, i) = <<Found(s, i)>> \o f[Check(s, i) + 1]
  BY <1>17, <1>18 DEF Body
<1>22. QED
  BY <1>11, <1>15, <1>16, <1>19, <1>20, <1>21

LEMMA Rest ==
  ASSUME NEW S, NEW q \in Seq(S), NEW k \in 1 .. Len(q) + 1
  PROVE  /\ SubSeq(q, k, Len(q)) \in Seq(S) /\ Len(SubSeq(q, k, Len(q))) = Len(q) + 1 - k
         /\ \A i \in 1 .. Len(q) + 1 - k : SubSeq(q, k, Len(q))[i] = q[k + i - 1]
<1>1. PICK n \in Nat : n = Len(q)
  BY LenProperties
<1>2. \A i \in k .. n : q[i] \in S
  <2>1. \A i \in k .. n : i \in 1 .. Len(q)
    BY <1>1
  <2>2. QED
    BY <2>1, ElementOfSeq
<1>3. PICK u : u = SubSeq(q, k, n)
  OBVIOUS
<1>4. k \in Int /\ n \in Int
  BY <1>1
<1>5. /\ u \in Seq(S) /\ Len(u) = (IF k <= n THEN n - k + 1 ELSE 0)
      /\ \A i \in 1 .. n - k + 1 : u[i] = q[k + i - 1]
  BY <1>2, <1>3, <1>4, SubSeqProperties
<1>6. n - k + 1 = n + 1 - k /\ (IF k <= n THEN n - k + 1 ELSE 0) = n + 1 - k
  BY <1>1
<1>7. QED
  BY <1>1, <1>3, <1>5, <1>6

LEMMA RestOfOne ==
  ASSUME NEW S, NEW q \in Seq(S), NEW k \in 1 .. Len(q)
  PROVE  SubSeq(q, k, Len(q)) = <<q[k]>> \o SubSeq(q, k + 1, Len(q))
<1>1. PICK n \in Nat : n = Len(q)
  BY LenProperties
<1>2. k \in 1 .. Len(q) + 1 /\ k + 1 \in 1 .. Len(q) + 1
  BY <1>1
<1>3. PICK u \in Seq(S) : u = SubSeq(q, k, Len(q))
  BY <1>2, Rest
<1>4. PICK v \in Seq(S) : v = SubSeq(q, k + 1, Len(q))
  BY <1>2, Rest
<1>5. Len(u) = n + 1 - k /\ \A i \in 1 .. n + 1 - k : u[i] = q[k + i - 1]
  BY <1>1, <1>2, <1>3, Rest
<1>6. Len(v) = n + 1 - (k + 1) /\ \A i \in 1 .. n + 1 - (k + 1) : v[i] = q[k + 1 + i - 1]
  BY <1>1, <1>2, <1>4, Rest
<1>7. PICK d \in S : d = q[k]
  BY ElementOfSeq
<1>8. PICK a : a = <<d>>
  OBVIOUS
<1>9. a \in Seq(S) /\ Len(a) = 1 /\ a[1] = d
  BY <1>8, Single
<1>10. PICK w : w = a \o v
  OBVIOUS
<1>11. /\ w \in Seq(S) /\ Len(w) = Len(a) + Len(v)
       /\ \A i \in 1 .. Len(a) : w[i] = a[i]
       /\ \A i \in 1 .. Len(v) : w[Len(a) + i] = v[i]
  <2>1. a \in Seq(S) /\ v \in Seq(S) /\ w = a \o v
    BY <1>9, <1>10
  <2>2. QED
    BY <2>1, Concatenated
<1>12. Len(w) = Len(u)
  BY <1>1, <1>5, <1>6, <1>9, <1>11
<1>13. ASSUME NEW i \in 1 .. Len(u) PROVE w[i] = u[i]
  <2>1. CASE i = 1
    <3>1. k + 1 - 1 = k /\ 1 \in 1 .. n + 1 - k /\ 1 \in 1 .. Len(a)
      BY <1>1, <1>9
    <3>2. QED
      BY <1>5, <1>7, <1>9, <1>11, <2>1, <3>1
  <2>2. CASE i # 1
    <3>1. PICK j \in 1 .. Len(v) : i = 1 + j
      <4>1. i - 1 \in 1 .. Len(v) /\ i = 1 + (i - 1)
        BY <1>1, <1>5, <1>6, <2>2
      <4>2. QED
        BY <4>1
    <3>2. w[i] = v[j]
      BY <1>9, <1>11, <3>1
    <3>3. v[j] = q[k + 1 + j - 1]
      BY <1>6
    <3>4. u[i] = q[k + i - 1]
      BY <1>5
    <3>5. k + 1 + j - 1 = k + i - 1
      BY <1>6, <3>1
    <3>6. QED
      BY <3>2, <3>3, <3>4, <3>5
  <2>3. QED
    BY <2>1, <2>2
<1>14. w = u
  BY <1>11, <1>12, <1>13, SeqEqual
<1>15. QED
  BY <1>3, <1>4, <1>7, <1>8, <1>10, <1>14

(* Frames laid end to end are what the decoder finds.                         *)
LEMMA Decoded ==
  ASSUME TypeOK, NEW rs, NEW cut, Accepted(rs, cut), Laid(wire, rs, cut), Len(wire) = cut[Len(rs)]
  PROVE  Frames(wire) = accepted
<1>1. PICK s \in Seq(Byte), q \in Seq(Seq(Byte)) : s = wire /\ q = accepted
  BY DEF TypeOK
<1>2. /\ Len(rs) \in Nat /\ cut \in [0 .. Len(rs) -> Nat] /\ rs \in Seq(Written) /\ cut[0] = 0
      /\ \A k \in 1 .. Len(rs) : cut[k] = cut[k - 1] + FrameSize(rs[k])
      /\ \A k \in 0 .. Len(rs) : cut[k] <= cut[Len(rs)]
      /\ Len(rs) = Len(q) /\ \A k \in 1 .. Len(rs) : q[k] = Payload(rs[k])
  BY <1>1, LenProperties DEF Accepted
<1>3. PICK n \in Nat : n = Len(rs)
  BY <1>2
<1>4. PICK f : f = FramesFrom(s)
  OBVIOUS
<1>5. PICK T : T = {m \in Nat : m <= n => f[cut[n - m] + 1] = SubSeq(q, n - m + 1, n)}
  OBVIOUS
<1>6. 0 \in T
  <2>1. n - 0 = n /\ n \in 0 .. n
    OBVIOUS
  <2>2. PICK i \in Nat : i = cut[n] + 1 /\ i = Len(s) + 1
    BY <1>1, <1>2, <1>3, <2>1
  <2>3. Len(s) \in Nat /\ i \in 1 .. Len(s) + 1
    BY <2>2, LenProperties
  <2>4. Low(s, i) > Len(s)
    BY <2>2, <2>3, LowType
  <2>5. f[i] = <<>>
    BY <1>4, <2>3, <2>4, FramesFromIs DEF Body
  <2>6. SubSeq(q, n + 1, n) = <<>>
    <3>1. n + 1 \in 1 .. Len(q) + 1 /\ Len(q) + 1 - (n + 1) = 0
      BY <1>2, <1>3
    <3>2. SubSeq(q, n + 1, n) \in Seq(Seq(Byte)) /\ Len(SubSeq(q, n + 1, n)) = 0
      BY <1>2, <1>3, <3>1, Rest
    <3>3. QED
      BY <3>2, EmptySeq
  <2>7. QED
    BY <1>5, <2>1, <2>2, <2>5, <2>6
<1>7. ASSUME NEW m \in Nat, m \in T PROVE m + 1 \in T
  <2> SUFFICES ASSUME m + 1 <= n PROVE f[cut[n - (m + 1)] + 1] = SubSeq(q, n - (m + 1) + 1, n)
    BY <1>5
  <2>1. PICK k \in 1 .. n : k = n - m /\ k - 1 = n - (m + 1) /\ k = n - (m + 1) + 1
    <3>1. n - m \in 1 .. n /\ n - m - 1 = n - (m + 1) /\ n - m = n - (m + 1) + 1
      OBVIOUS
    <3>2. QED
      BY <3>1
  <2>2. f[cut[k] + 1] = SubSeq(q, k + 1, n)
    BY <1>5, <1>7, <2>1
  <2>3. k \in 0 .. n /\ k - 1 \in 0 .. n
    OBVIOUS
  <2>4. PICK a \in Nat, b \in Nat : a = cut[k - 1] /\ b = cut[k]
    BY <1>2, <1>3, <2>3
  <2>5. PICK r \in Written : r = rs[k]
    BY <1>2, <1>3, ElementOfSeq
  <2>6. b = a + FrameSize(r) /\ b <= Len(s)
    BY <1>1, <1>2, <1>3, <2>3, <2>4, <2>5
  <2>7. \A j \in 1 .. FrameSize(r) : s[a + j] = Encoded(r)[j]
    BY <1>1, <1>3, <2>4, <2>5 DEF Laid
  <2>8. f[a + 1] = <<Payload(r)>> \o f[a + FrameSize(r) + 1]
    BY <1>4, <2>6, <2>7, FrameAt
  <2>9. f[a + 1] = <<q[k]>> \o SubSeq(q, k + 1, n)
    <3>1. Payload(r) = q[k]
      BY <1>2, <1>3, <2>5
    <3>2. f[a + FrameSize(r) + 1] = SubSeq(q, k + 1, n)
      BY <2>2, <2>4, <2>6
    <3>3. QED
      BY <2>8, <3>1, <3>2
  <2>10. SubSeq(q, k, n) = <<q[k]>> \o SubSeq(q, k + 1, n)
    BY <1>2, <1>3, RestOfOne
  <2>11. QED
    BY <2>1, <2>4, <2>9, <2>10
<1>8. n \in T
  BY <1>6, <1>7, Stepwise
<1>9. f[1] = SubSeq(q, 1, n)
  <2>1. n - n = 0 /\ 0 + 1 = 1
    OBVIOUS
  <2>2. QED
    BY <1>2, <1>5, <1>8, <2>1
<1>10. SubSeq(q, 1, n) = q
  <2>1. PICK u : u = SubSeq(q, 1, n)
    OBVIOUS
  <2>2. 1 \in 1 .. Len(q) + 1 /\ Len(q) + 1 - 1 = n
    BY <1>2, <1>3
  <2>3. u \in Seq(Seq(Byte)) /\ Len(u) = n /\ \A i \in 1 .. n : u[i] = q[1 + i - 1]
    BY <1>2, <1>3, <2>1, <2>2, Rest
  <2>4. \A i \in 1 .. n : 1 + i - 1 = i
    OBVIOUS
  <2>5. Len(u) = Len(q) /\ \A i \in 1 .. Len(u) : u[i] = q[i]
    BY <1>2, <1>3, <2>3, <2>4
  <2>6. u = q
    BY <2>3, <2>5, SeqEqual
  <2>7. QED
    BY <2>1, <2>6
<1>11. QED
  BY <1>1, <1>4, <1>9, <1>10 DEF Frames

(* xbee_frame_write looks at the room once and ignores what its four writes   *)
(* return.  On a port that tells its room truly, that is enough: whenever no  *)
(* call runs, the port took the frames for which 0 was returned, each whole   *)
(* and in order, and nothing of a frame that was refused.                     *)
THEOREM QueuedEndToEnd == ASSUME ReportsRoom PROVE Spec => []EndToEnd
<1>1. TxInv => EndToEnd
  BY IdleNot DEF TxInv, OnWire, EndToEnd
<1>2. QED
  BY <1>1, TxInit, TxStep, PTL DEF Spec

(* The fields of the call, the room in the buffer and the history keep their  *)
(* types; a frame is only being written while what is left of it fits.        *)
THEOREM RoomKept == ASSUME ReportsRoom PROVE Spec => [](Typed /\ Fitting)
<1>1. TxInv => Typed /\ Fitting
  BY DEF TxInv
<1>2. QED
  BY <1>1, TxInit, TxStep, PTL DEF Spec

(* What one side writes the other side loads: whenever no call runs, the      *)
(* frames that the reference decoder finds in the bytes a truthful port took  *)
(* are the frames for which xbee_frame_write returned 0, each whole and in    *)
(* order.  The bytes have nothing else in them, start bytes among the data    *)
(* included.                                                                  *)
THEOREM QueuedIsDecoded == ASSUME ReportsRoom PROVE Spec => []QueuedWhole
<1>1. TxInv => QueuedWhole
  <2> SUFFICES ASSUME TxInv, call = Idle PROVE Frames(wire) = accepted
    BY DEF QueuedWhole
  <2>1. PICK rs, cut : Accepted(rs, cut) /\ Laid(wire, rs, cut) /\ Len(wire) = cut[Len(rs)]
    BY IdleNot DEF TxInv, OnWire
  <2>2. QED
    BY <2>1, Decoded DEF TxInv, Typed
<1>2. QED
  BY <1>1, TxInit, TxStep, PTL DEF Spec
=============================================================================
