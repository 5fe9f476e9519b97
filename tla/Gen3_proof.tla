----------------------------- MODULE Gen3_proof -----------------------------
(* Theorems about the serial bootloader install: the pages land under their    *)
(* numbers, one that reports success is whole as far as the numbers reach, and *)
(* a page goes out header first, for every image, page size, transmit buffer   *)
(* and number of values of a byte, whichever protocol the bootloader speaks.   *)
EXTENDS Gen3, SequenceTheorems, WellFoundedInduction, TLAPS

\* A byte of the line: what it is, and the page and place it stands for.
Tags == {"B", "L", "R", "V", "I", "C", "U", "page", "high", "byte", "crc"}

LineByte == Tags \X Nat \X Int

Replies == {"U", "1", "crcErr", "verifyErr", "failure", "noise"}

Gen3TypeOK == /\ gstate \in {Stages[i] : i \in 1 .. Len(Stages)}
              /\ elapsed \in 0 .. 3
              /\ queryOnly \in BOOLEAN /\ proto1 \in BOOLEAN
              /\ eof \in BOOLEAN /\ cts \in BOOLEAN
              /\ retries \in Nat /\ pageNum \in Nat
              /\ offset \in -1 .. PageBytes
              /\ fileRead \in 0 .. Len(Image)
              /\ tx \in Seq(LineByte) /\ Len(tx) <= TxRoom
              /\ rx \in Seq(Replies)
              /\ speaks \in 0 .. 1
              /\ command \in Seq(LineByte)
              /\ flash \subseteq Nat \X Nat

\* What the bootloader has of the command being sent, and what is on its way.
Wire == command \o tx

Shaking == gstate \in {"INIT", "ENTER_BOOTLOADER", "GET_BL_VERSION", "BL_VERSION",
                       "BL_PROTOCOL", "BAUD_RATE", "EXT_VERSION", "START_TRANSFER"}

\* During the handshake one short command or its answer is on the line, never both.
OneAtATime ==
    Shaking => /\ command = <<>>
               /\ pageNum = 0 /\ fileRead = 0 /\ eof = FALSE
               /\ tx # <<>> => /\ Len(tx) = 1 /\ rx = <<>>
                               /\ \E c \in {"B", "L", "R", "V", "I"} : tx[1] = Cmd(c)
                               /\ tx[1] = Cmd("L") => gstate = "BL_PROTOCOL"
               /\ rx \in {<<>>, <<"U">>, <<"1", "U">>}
               /\ rx = <<"1", "U">> => gstate = "BL_PROTOCOL"
               /\ gstate \in {"INIT", "ENTER_BOOTLOADER", "GET_BL_VERSION"} => tx = <<>>

Paging == gstate \in {"SEND_PAGE", "LOAD_PAGE"}

\* Pages before page n that are not blank are in flash, but for those whose number
\* comes again.
StoredBelow(n) ==
    \A m \in 1 .. n - 1 : Image[m] = "data" /\ Kept(m) => <<Slot(m), m>> \in flash

\* The page in the buffer has its own number, and all before it are stored.
PageInBuffer ==
    Paging => /\ fileRead >= 1 /\ Image[fileRead] = "data"
              /\ pageNum = Wrapped(fileRead - 1)
              /\ eof => fileRead = Len(Image)
              /\ StoredBelow(fileRead)
              /\ \A i \in 1 .. Len(tx) : tx[i][1] \in {"U", "page", "high", "byte", "crc"}

\* The line holds at most the part of the page command that has been sent, and
\* when nothing of it was lost, the page's number is in its place and so is its data.
SentSoFar ==
    gstate = "SEND_PAGE" =>
        /\ offset < 0 => Wire = <<>>
        /\ offset >= 0 => Len(Wire) <= HeaderBytes + offset
        /\ offset >= 0 /\ Len(Wire) = HeaderBytes + offset =>
              /\ NumberIn(Wire) = Slot(fileRead)
              /\ offset > 0 => PageIn(Wire) = fileRead

\* An answer to a page means that all of it arrived; "U", that it was stored.
Answered ==
    gstate = "LOAD_PAGE" =>
        /\ Len(Wire) = PageCommand => NumberIn(Wire) = Slot(fileRead) /\ PageIn(Wire) = fileRead
        /\ \A i \in 1 .. Len(rx) : rx[i] \in {"U", "crcErr", "verifyErr", "noise"}
        /\ (\E i \in 1 .. Len(rx) : rx[i] # "noise") => Wire = <<>>
        /\ (\E i \in 1 .. Len(rx) : rx[i] = "U") => <<Slot(fileRead), fileRead>> \in flash

\* A whole page command names the page it carries, also after the install failed.
WholeCommand == /\ Len(Wire) <= PageCommand
                /\ Len(Wire) = PageCommand => NumberIn(Wire) = Slot(PageIn(Wire))

\* After the last page no page is on the line, and all are stored.
AllStored ==
    gstate \in {"VERIFY", "SUCCESS"} =>
        /\ Len(Wire) <= 1
        /\ ~queryOnly => StoredBelow(Len(Image) + 1)

Gen3Inv == /\ OneAtATime
           /\ PageInBuffer
           /\ SentSoFar
           /\ Answered
           /\ WholeCommand
           /\ AllStored
           /\ PagesInPlace
\* The host takes the bootloader for one of protocol 1 only if it is: a lost "1"
\* leaves it at protocol 0.
Known == /\ proto1 => speaks = 1
         /\ \A i \in 1 .. Len(rx) : rx[i] = "1" => speaks = 1
-----------------------------------------------------------------------------
\* A set of numbers that has a member has a least one (NextData's CHOOSE).
LEMMA LeastOf == ASSUME NEW S \in SUBSET Nat, S # {}
                 PROVE  \E n \in S : \A m \in S : n <= m
<1> DEFINE Less == {pair \in Nat \X Nat : pair[1] < pair[2]}
<1>1. IsWellFoundedOn(Less, Nat)
  BY NatLessThanWellFounded DEF OpToRel
<1>2. \E n \in S : \A m \in S : ~(<<m, n>> \in Less)
  <2> HIDE DEF Less
  <2> QED BY <1>1, WFMin
<1>3. \A m, n \in S : <<m, n>> \in Less <=> m < n
  OBVIOUS
<1> HIDE DEF Less
<1>4. \A m, n \in S : ~(m < n) <=> n <= m
  OBVIOUS
<1>5. QED
  BY <1>2, <1>3, <1>4

\* The read stops at a page of the image or one past it, and passes only blank ones.
LEMMA NextDataFound ==
    ASSUME fileRead \in 0 .. Len(Image)
    PROVE  /\ NextData \in fileRead + 1 .. Len(Image) + 1
           /\ NextData <= Len(Image) => Image[NextData] = "data"
           /\ \A m \in fileRead + 1 .. NextData - 1 : Image[m] = "blank"
<1> DEFINE Stops == {n \in fileRead + 1 .. Len(Image) + 1 : n <= Len(Image) => Image[n] = "data"}
           Passes(n) == \A m \in fileRead + 1 .. n - 1 : Image[m] = "blank"
<1>1. Image \in Seq({"data", "blank"}) /\ Len(Image) \in Nat
  BY ImageAssumption
<1>2. Len(Image) + 1 \in Stops /\ Stops \in SUBSET Nat
  BY <1>1
<1>3. PICK n \in Stops : \A m \in Stops : n <= m
  BY <1>2, LeastOf
<1>4. Passes(n)
  BY <1>1, <1>3
<1>5. \E k \in fileRead + 1 .. Len(Image) + 1 :
          /\ k <= Len(Image) => Image[k] = "data"
          /\ \A m \in fileRead + 1 .. k - 1 : Image[m] = "blank"
  BY <1>3, <1>4
<1>6. QED
  BY <1>5 DEF NextData

\* The order of the states.
LEMMA Order == /\ After("INIT") = "ENTER_BOOTLOADER"
               /\ After("ENTER_BOOTLOADER") = "GET_BL_VERSION"
               /\ After("GET_BL_VERSION") = "BL_VERSION"
               /\ After("BL_VERSION") = "BL_PROTOCOL"
               /\ After("BL_PROTOCOL") = "BAUD_RATE"
               /\ After("BAUD_RATE") = "EXT_VERSION"
               /\ After("EXT_VERSION") = "START_TRANSFER"
               /\ After("START_TRANSFER") = "SEND_PAGE"
               /\ After("SEND_PAGE") = "LOAD_PAGE"
               /\ After("LOAD_PAGE") = "VERIFY"
               /\ After("VERIFY") = "SUCCESS"
BY DEF After, Stages

\* What the line carries are line bytes.
LEMMA LineBytes ==
    ASSUME Gen3TypeOK
    PROVE  /\ \A c \in Tags : Cmd(c) \in LineByte
           /\ \A b \in LineByte : OfProto1(b) \in Seq(LineByte) /\ Len(OfProto1(b)) \in 0 .. 1
           /\ \A from \in Int, n \in Nat : /\ Bytes(from, from + n) \in Seq(LineByte)
                                           /\ Len(Bytes(from, from + n)) = n
           /\ TxFree \in Nat
<1>1. \A c \in Tags : Cmd(c) \in LineByte
  BY DEF Cmd, LineByte
<1>2. \A b \in LineByte : OfProto1(b) \in Seq(LineByte) /\ Len(OfProto1(b)) \in 0 .. 1
  BY DEF OfProto1
<1>3. ASSUME NEW from \in Int, NEW n \in Nat
      PROVE  Bytes(from, from + n) \in Seq(LineByte) /\ Len(Bytes(from, from + n)) = n
  <2>1. Bytes(from, from + n) = [i \in 1 .. n |-> <<"byte", fileRead, from + i - 1>>]
    BY <1>3 DEF Bytes
  <2>2. \A i \in 1 .. n : <<"byte", fileRead, from + i - 1>> \in LineByte
      BY ImageAssumption, <1>3 DEF LineByte, Tags, Gen3TypeOK
  <2>3. [i \in 1 .. n |-> <<"byte", fileRead, from + i - 1>>] \in [1 .. n -> LineByte]
    BY <2>2
  <2>4. Bytes(from, from + n) \in Seq(LineByte)
    <3>1. \E k \in Nat : Bytes(from, from + n) \in [1 .. k -> LineByte]
      BY <2>1, <2>3
    <3>2. Bytes(from, from + n) \in UNION {[1 .. k -> LineByte] : k \in Nat}
      BY <3>1
    <3>3. QED
      BY <3>2, SeqDef, Zenon
  <2>5. QED
    BY <2>1, <2>3, <2>4, LenProperties
<1>4. TxFree \in Nat
  BY LineAssumption DEF TxFree, Gen3TypeOK
<1>5. QED
  BY <1>1, <1>2, <1>3, <1>4

LEMMA Numbers ==
    ASSUME Gen3TypeOK
    PROVE  /\ PageBytes \in Nat /\ PageBytes >= 1 /\ TxRoom \in Nat /\ TxRoom >= 3
           /\ TxFree \in Nat /\ TxFree = TxRoom - Len(tx) /\ Len(tx) \in Nat
           /\ offset \in Int /\ offset >= -1 /\ offset <= PageBytes
<1>1. PageBytes \in Nat /\ PageBytes >= 1 /\ TxRoom \in Nat /\ TxRoom >= 3
  BY LineAssumption
<1>2. tx \in Seq(LineByte) /\ Len(tx) <= TxRoom
  BY DEF Gen3TypeOK
<1>3. Len(tx) \in Nat
  BY <1>2, LenProperties
<1>4. TxFree \in Nat /\ TxFree = TxRoom - Len(tx)
  BY <1>1, <1>2, <1>3 DEF TxFree
<1>5. offset \in -1 .. PageBytes
  BY DEF Gen3TypeOK
<1>6. QED
  BY <1>1, <1>3, <1>4, <1>5

\* What the two bytes of a page number keep of it, and the low one alone.
LEMMA NumberBytes ==
    /\ PageMod \in Nat /\ PageMod >= 2
    /\ PageMod * PageMod \in Nat /\ PageMod * PageMod >= PageMod
    /\ \A a \in Nat : /\ Wrapped(a) \in Nat
                      /\ a < PageMod * PageMod => Wrapped(a) = a
                      /\ Wrapped(a) % PageMod = a % PageMod
                      /\ Wrapped(a) % PageMod \in Nat
                      /\ Wrapped(a) \div PageMod \in Nat
                      /\ (Wrapped(a) % PageMod) + PageMod * (Wrapped(a) \div PageMod) = Wrapped(a)
    /\ \A a, d \in Nat : Wrapped(Wrapped(a) + d) = Wrapped(a + d)
<1>1. PageMod \in Nat /\ PageMod >= 2
  BY LineAssumption
<1>2. PICK W : W = PageMod * PageMod
  OBVIOUS
<1>3. W \in Nat \ {0} /\ W >= PageMod /\ PageMod \in Nat \ {0}
  BY <1>1, <1>2
<1>4. ASSUME NEW m \in Nat \ {0}, NEW q \in Nat, NEW k \in Nat, k < m PROVE (k + m * q) % m = k
  <2>1. (k + q * m) % m = k /\ q * m = m * q
    BY <1>4, SMT
  <2>2. QED
    BY <2>1
<1>5. ASSUME NEW m \in Nat \ {0}, NEW a \in Nat
      PROVE  \E r, q \in Nat : r = a % m /\ q = a \div m /\ r < m /\ a = m * q + r
  OBVIOUS
<1>6. \A a : Wrapped(a) = a % W
  BY <1>2 DEF Wrapped
<1>7. ASSUME NEW a \in Nat PROVE (a % W) % PageMod = a % PageMod
  <2>1. PICK r, q \in Nat : r = a % W /\ a = W * q + r
    BY <1>3, <1>5
  <2>2. PICK s, p \in Nat : s = r % PageMod /\ r = PageMod * p + s /\ s < PageMod
    BY <1>3, <1>5
  <2>3. a = s + PageMod * (PageMod * q + p)
    <3>1. W * q = PageMod * (PageMod * q)
      BY <1>1, <1>2
    <3>2. PICK u \in Nat : u = PageMod * q
      BY <1>1
    <3>3. PageMod * (u + p) = PageMod * u + PageMod * p
      BY <1>1
    <3>4. QED
      BY <1>1, <2>1, <2>2, <3>1, <3>2, <3>3
  <2>4. PICK u \in Nat : u = PageMod * q + p
    BY <1>1
  <2>5. (s + PageMod * u) % PageMod = s
    BY <1>3, <1>4, <2>2
  <2>6. a = s + PageMod * u
    BY <2>3, <2>4
  <2>7. QED
    BY <2>1, <2>2, <2>5, <2>6, Zenon
<1>8. ASSUME NEW a \in Nat, NEW d \in Nat PROVE ((a % W) + d) % W = (a + d) % W
  <2>1. PICK r, q \in Nat : r = a % W /\ a = W * q + r
    BY <1>3, <1>5
  <2>2. PICK n \in Nat : n = r + d
    OBVIOUS
  <2>3. PICK s, p \in Nat : s = n % W /\ n = W * p + s /\ s < W
    BY <1>3, <1>5
  <2>4. W * q + W * p = W * (q + p)
    BY <1>3
  <2>5. PICK u \in Nat : u = q + p
    OBVIOUS
  <2>6. a + d = s + W * u
    BY <1>3, <2>1, <2>2, <2>3, <2>4, <2>5
  <2>7. QED
    BY <1>3, <1>4, <2>1, <2>2, <2>3, <2>5, <2>6
<1>9. ASSUME NEW a \in Nat
      PROVE  /\ Wrapped(a) \in Nat
             /\ a < PageMod * PageMod => Wrapped(a) = a
             /\ Wrapped(a) % PageMod = a % PageMod
             /\ Wrapped(a) % PageMod \in Nat
             /\ Wrapped(a) \div PageMod \in Nat
             /\ (Wrapped(a) % PageMod) + PageMod * (Wrapped(a) \div PageMod) = Wrapped(a)
  <2>0. a % W \in Nat /\ (a < W => a % W = a)
    BY <1>3
  <2>1. PICK w \in Nat : w = Wrapped(a) /\ (a < W => w = a) /\ w % PageMod = a % PageMod
    BY <1>6, <1>7, <2>0, Zenon
  <2>2. PICK r, q \in Nat : r = w % PageMod /\ q = w \div PageMod /\ w = PageMod * q + r
    BY <1>3, <1>5
  <2>3. r + PageMod * q = w
    BY <1>1, <2>2
  <2>4. QED
    BY <1>2, <2>1, <2>2, <2>3, Zenon
<1>10. \A a, d \in Nat : Wrapped(Wrapped(a) + d) = Wrapped(a + d)
  BY <1>6, <1>8
<1>11. PageMod * PageMod \in Nat /\ PageMod * PageMod >= PageMod
  BY <1>2, <1>3
<1>12. QED
  BY <1>1, <1>9, <1>10, <1>11

LEMMA NumberLine ==
    ASSUME Gen3TypeOK
    PROVE  <<"page", pageNum % PageMod, 0>> \in LineByte /\ <<"high", pageNum \div PageMod, 0>> \in LineByte
<1>1. pageNum \in Nat /\ PageMod \in Nat \ {0}
  BY NumberBytes DEF Gen3TypeOK
<1>2. pageNum % PageMod \in Nat /\ pageNum \div PageMod \in Nat
  BY <1>1
<1>3. QED
  BY <1>2 DEF LineByte, Tags

\* How long a page command and its header are.
LEMMA Lengths ==
    ASSUME speaks \in 0 .. 1
    PROVE  /\ speaks \in {0, 1} /\ PageBytes \in Nat /\ PageBytes >= 1
           /\ HeaderBytes = 2 + speaks /\ PageCommand = 3 + 2 * speaks + PageBytes
           /\ HeaderBytes \in Nat /\ PageCommand \in Nat /\ PageCommand >= 4
           /\ PageCommand > HeaderBytes + PageBytes
<1>1. PageBytes \in Nat /\ PageBytes >= 1
  BY LineAssumption
<1>2. CASE speaks = 0
  BY <1>1, <1>2 DEF HeaderBytes, PageCommand
<1>3. CASE speaks = 1
  BY <1>1, <1>3 DEF HeaderBytes, PageCommand
<1>4. QED
  BY <1>2, <1>3

\* A character put into the buffer, an answer taken out of it.
LEMMA PutcharType ==
    ASSUME Gen3TypeOK, NEW c \in Tags, Putchar(Cmd(c))
    PROVE  tx' \in Seq(LineByte) /\ Len(tx') <= TxRoom
<1>1. Cmd(c) \in LineByte
  BY LineBytes
<1>2. tx \in Seq(LineByte) /\ Len(tx) \in Nat /\ TxRoom \in Nat
  BY LineAssumption DEF Gen3TypeOK
<1>3. QED
  BY <1>1, <1>2, AppendProperties DEF Gen3TypeOK, Putchar, TxFree

LEMMA TakeAnswerType ==
    ASSUME Gen3TypeOK, TakeAnswer PROVE rx' \in Seq(Replies)
BY DEF Gen3TypeOK, TakeAnswer

\* A state a tick moves to is one of the states.
LEMMA StateType ==
    ASSUME Gen3TypeOK
    PROVE  /\ SameState \/ Failed \/ (gstate # "FAILURE" /\ gstate # "SUCCESS" /\ NextState) =>
                 /\ gstate' \in {Stages[i] : i \in 1 .. Len(Stages)}
                 /\ elapsed' \in 0 .. 3
           /\ {"SUCCESS", "FAILURE", "SEND_PAGE"} \subseteq {Stages[i] : i \in 1 .. Len(Stages)}
<1>1. {Stages[i] : i \in 1 .. Len(Stages)} =
         {"INIT", "ENTER_BOOTLOADER", "GET_BL_VERSION", "BL_VERSION", "BL_PROTOCOL",
          "BAUD_RATE", "EXT_VERSION", "START_TRANSFER", "SEND_PAGE", "LOAD_PAGE", "VERIFY",
          "SUCCESS", "FAILURE"}
  BY DEF Stages
<1>2. gstate \in {"INIT", "ENTER_BOOTLOADER", "GET_BL_VERSION", "BL_VERSION", "BL_PROTOCOL",
                 "BAUD_RATE", "EXT_VERSION", "START_TRANSFER", "SEND_PAGE", "LOAD_PAGE",
                 "VERIFY", "SUCCESS", "FAILURE"} /\ elapsed \in 0 .. 3
  BY <1>1 DEF Gen3TypeOK
<1>3. SameState \/ Failed => gstate' \in {gstate, "FAILURE"} /\ elapsed' \in 0 .. 3
  BY <1>2 DEF SameState, Failed
<1>4. gstate # "FAILURE" /\ gstate # "SUCCESS" /\ NextState =>
         /\ gstate' \in {"ENTER_BOOTLOADER", "GET_BL_VERSION", "BL_VERSION", "BL_PROTOCOL",
                        "BAUD_RATE", "EXT_VERSION", "START_TRANSFER", "SEND_PAGE",
                        "LOAD_PAGE", "VERIFY", "SUCCESS"}
         /\ elapsed' \in 0 .. 3
  BY <1>2, Order DEF NextState
<1>5. QED
  BY <1>1, <1>2, <1>3, <1>4

LEMMA LoadPageType ==
    ASSUME Gen3TypeOK, NEW first \in Nat, LoadPage(first, NextData)
    PROVE  pageNum' \in Nat /\ fileRead' \in 0 .. Len(Image) /\ eof' \in BOOLEAN
<1>1. Len(Image) \in Nat /\ NextData \in fileRead + 1 .. Len(Image) + 1
  BY ImageAssumption, NextDataFound DEF Gen3TypeOK
<1>2. pageNum' \in Nat
  <2>1. first + (NextData - (fileRead + 1)) \in Nat
    BY <1>1 DEF Gen3TypeOK
  <2>2. QED
    BY <2>1, NumberBytes DEF LoadPage, Numbered
<1>3. fileRead' \in 0 .. Len(Image)
  BY <1>1 DEF LoadPage, Gen3TypeOK
<1>4. eof' \in BOOLEAN
  BY ZenonT(30) DEF LoadPage, Gen3TypeOK
<1>5. QED
  BY <1>2, <1>3, <1>4

\* Part of a page goes out: as much as there is room for, and not past its end.
LEMMA SendArm ==
    ASSUME Gen3TypeOK, SendBytes
    PROVE  \E send \in Nat : /\ send >= 1 /\ send <= TxFree /\ offset + send <= PageBytes
                             /\ tx' = tx \o Bytes(offset, offset + send)
                             /\ offset' = offset + send
<1>0. PageBytes \in Nat /\ TxFree \in Nat /\ offset \in Int
  BY Numbers
<1> DEFINE send == IF PageBytes - offset < TxFree THEN PageBytes - offset ELSE TxFree
<1>1. tx' = tx \o Bytes(offset, offset + send) /\ offset' = offset + send
  BY DEF SendBytes
<1>2. send \in Nat /\ send >= 1 /\ send <= TxFree /\ offset + send <= PageBytes
  BY <1>0 DEF SendBytes
<1> HIDE DEF send
<1>3. QED
  BY <1>1, <1>2

\* Every variable keeps its type (xbee_bl_gen3.c:206-498).
LEMMA TypeStep == Gen3TypeOK /\ [Gen3Next]_gvars => Gen3TypeOK'
<1> SUFFICES ASSUME Gen3TypeOK, [Gen3Next]_gvars PROVE Gen3TypeOK'
  OBVIOUS
<1> USE DEF page, line
<1>1. CASE StartBreak
  BY <1>1, StateType DEF StartBreak, Gen3TypeOK
<1>2. CASE EnterBootloader
  BY <1>2, StateType DEF EnterBootloader, Gen3TypeOK
<1>3. CASE AskVersion
  <2>1. tx' \in Seq(LineByte) /\ Len(tx') <= TxRoom
    BY <1>3, PutcharType DEF AskVersion, Tags
  <2>2. rx' \in Seq(Replies) /\ gstate' \in {Stages[i] : i \in 1 .. Len(Stages)} /\ elapsed' \in 0 .. 3
    BY <1>3, StateType DEF AskVersion
  <2>3. QED
    BY <1>3, <2>1, <2>2 DEF AskVersion, Gen3TypeOK
<1>4. CASE AskProtocol
  <2>1. tx' \in Seq(LineByte) /\ Len(tx') <= TxRoom /\ rx' \in Seq(Replies)
    BY <1>4, PutcharType, TakeAnswerType DEF AskProtocol, Tags, Gen3TypeOK
  <2>2. QED
    BY <1>4, <2>1, StateType DEF AskProtocol, Gen3TypeOK
<1>5. CASE AskBaudRate
  <2>1. tx' \in Seq(LineByte) /\ Len(tx') <= TxRoom /\ rx' \in Seq(Replies)
    BY <1>5, PutcharType, TakeAnswerType DEF AskBaudRate, Tags, Gen3TypeOK
  <2>2. proto1' \in BOOLEAN
    BY <1>5 DEF AskBaudRate
  <2>3. offset' \in -1 .. PageBytes
    <3>1. 0 \in -1 .. PageBytes /\ offset \in -1 .. PageBytes
      BY LineAssumption DEF Gen3TypeOK
    <3>2. offset' \in {0, offset}
      BY <1>5 DEF AskBaudRate
    <3>3. QED
      BY <3>1, <3>2
  <2>4. QED
    BY <1>5, <2>1, <2>2, <2>3, StateType DEF AskBaudRate, Gen3TypeOK
<1>6. CASE AskExtendedVersion
  <2>1. tx' \in Seq(LineByte) /\ Len(tx') <= TxRoom /\ rx' \in Seq(Replies)
    BY <1>6, PutcharType, TakeAnswerType DEF AskExtendedVersion, Tags, Gen3TypeOK
  <2>2. QED
    BY <1>6, <2>1, StateType DEF AskExtendedVersion, Gen3TypeOK
<1>7. CASE AskErase
  <2>1. tx' \in Seq(LineByte) /\ Len(tx') <= TxRoom /\ rx' \in Seq(Replies)
    BY <1>7, PutcharType, TakeAnswerType DEF AskErase, Tags, Gen3TypeOK
  <2>2. gstate' \in {Stages[i] : i \in 1 .. Len(Stages)} /\ elapsed' \in 0 .. 3
    BY <1>7, StateType DEF AskErase, Gen3TypeOK
  <2>3. QED
    BY <1>7, <2>1, <2>2 DEF AskErase, Gen3TypeOK
<1>8. CASE StartTransfer
  <2>1. rx' \in Seq(Replies)
    BY <1>8, TakeAnswerType DEF StartTransfer
  <2>2. gstate' \in {Stages[i] : i \in 1 .. Len(Stages)} /\ elapsed' \in 0 .. 3
    BY <1>8, StateType DEF StartTransfer
  <2>3. pageNum' \in Nat /\ fileRead' \in 0 .. Len(Image) /\ eof' \in BOOLEAN
    BY <1>8, LoadPageType DEF StartTransfer, Gen3TypeOK
  <2>4. offset' \in -1 .. PageBytes /\ retries' \in Nat
    <3>1. PageBytes \in Nat /\ offset \in -1 .. PageBytes /\ retries \in Nat /\ -1 \in -1 .. PageBytes
      BY LineAssumption DEF Gen3TypeOK
    <3>2. offset' \in {offset, -1} /\ retries' = retries
      BY <1>8 DEF StartTransfer
    <3>3. QED
      BY <3>1, <3>2
  <2>5. QED
    BY <1>8, <2>1, <2>2, <2>3, <2>4 DEF StartTransfer, Gen3TypeOK
<1>9. CASE SendPage
  <2>0. /\ PageBytes \in Nat /\ TxFree \in Nat /\ TxFree = TxRoom - Len(tx) /\ TxRoom \in Nat
        /\ tx \in Seq(LineByte) /\ Len(tx) \in Nat /\ rx \in Seq(Replies)
        /\ offset \in -1 .. PageBytes /\ offset \in Int /\ offset >= -1
    BY Numbers DEF Gen3TypeOK
  <2>1. gstate' \in {Stages[i] : i \in 1 .. Len(Stages)} /\ elapsed' \in 0 .. 3
    BY <1>9, StateType DEF SendPage, SendHeader, SendBytes, SendChecksum, NoRoom
  <2>2. rx' \in Seq(Replies)
    BY <1>9, <2>0, EmptySeq DEF SendPage, SendHeader, SendBytes, SendChecksum, NoRoom
  <2>3. CASE SendHeader
    <3>1. Cmd("U") \in LineByte
      BY LineBytes DEF Tags
    <3>2. PICK low, high \in LineByte : /\ low = <<"page", pageNum % PageMod, 0>>
                                        /\ high = <<"high", pageNum \div PageMod, 0>>
      BY NumberLine
    <3>3. OfProto1(high) \in Seq(LineByte) /\ Len(OfProto1(high)) \in 0 .. 1
      BY LineBytes
    <3>4. <<Cmd("U"), low>> \in Seq(LineByte) /\ Len(<<Cmd("U"), low>>) = 2
      BY <3>1
    <3>5. tx' \in Seq(LineByte) /\ Len(tx') = Len(tx) + 2 + Len(OfProto1(high))
      <4>1. tx' = (tx \o <<Cmd("U"), low>>) \o OfProto1(high)
        BY <2>3, <3>2 DEF SendHeader
      <4>2. tx \o <<Cmd("U"), low>> \in Seq(LineByte) /\ Len(tx \o <<Cmd("U"), low>>) = Len(tx) + 2
        BY <2>0, <3>4, ConcatProperties
      <4>3. QED
        BY <3>3, <4>1, <4>2, ConcatProperties
    <3>6. Len(tx') <= TxRoom /\ offset' \in -1 .. PageBytes
      <4>1. TxFree >= 3 /\ offset' = 0
        BY <2>3 DEF SendHeader
      <4>2. PICK more \in 0 .. 1 : Len(tx') = Len(tx) + 2 + more
        BY <3>3, <3>5
      <4>3. QED
        BY <2>0, <4>1, <4>2
    <3>7. QED
      BY <1>9, <2>1, <2>2, <3>5, <3>6 DEF SendPage, Gen3TypeOK
  <2>4. CASE SendBytes
    <3>1. PICK send \in Nat : /\ send <= TxFree /\ offset + send <= PageBytes
                              /\ tx' = tx \o Bytes(offset, offset + send)
                              /\ offset' = offset + send
      BY <2>0, <2>4, SendArm
    <3>2. Bytes(offset, offset + send) \in Seq(LineByte) /\ Len(Bytes(offset, offset + send)) = send
      BY <2>0, LineBytes
    <3>3. tx' \in Seq(LineByte) /\ Len(tx') = Len(tx) + send
      BY <2>0, <3>1, <3>2, ConcatProperties
    <3>4. Len(tx') <= TxRoom /\ offset' \in -1 .. PageBytes
      BY <2>0, <3>1, <3>3
    <3>5. QED
      BY <1>9, <2>1, <2>2, <3>3, <3>4 DEF SendPage, Gen3TypeOK
  <2>5. CASE SendChecksum
    <3>1. Cmd("crc") \in LineByte
      BY LineBytes DEF Tags
    <3>2. <<Cmd("crc")>> \in Seq(LineByte) /\ Len(<<Cmd("crc")>>) = 1
      BY <3>1
    <3>3. OfProto1(Cmd("crc")) \in Seq(LineByte) /\ Len(OfProto1(Cmd("crc"))) \in 0 .. 1
      BY <3>1, LineBytes
    <3>4. tx' \in Seq(LineByte) /\ Len(tx') = Len(tx) + 1 + Len(OfProto1(Cmd("crc")))
      BY <2>0, <2>5, <3>2, <3>3, ConcatProperties DEF SendChecksum
    <3>5. Len(tx') <= TxRoom /\ offset' \in -1 .. PageBytes
      <4>1. TxFree >= 2 /\ UNCHANGED offset
        BY <2>5 DEF SendChecksum
      <4>2. PICK more \in 0 .. 1 : Len(tx') = Len(tx) + 1 + more
        BY <3>3, <3>4
      <4>3. QED
        BY <2>0, <4>1, <4>2
    <3>6. QED
      BY <1>9, <2>1, <2>2, <3>4, <3>5 DEF SendPage, Gen3TypeOK
  <2>6. CASE NoRoom
    BY <1>9, <2>1, <2>2, <2>6 DEF SendPage, NoRoom, Gen3TypeOK
  <2>7. QED
    BY <1>9, <2>3, <2>4, <2>5, <2>6 DEF SendPage
<1>10. CASE PageAnswer
  <2>1. rx' \in Seq(Replies)
    BY <1>10, TakeAnswerType DEF PageAnswer
  <2>0. /\ 0 \in Nat /\ retries \in Nat /\ pageNum + 1 \in Nat /\ Wrapped(pageNum + 1) \in Nat
        /\ offset \in -1 .. PageBytes /\ tx \in Seq(LineByte) /\ Len(tx) <= TxRoom
    <3>1. pageNum + 1 \in Nat
      BY DEF Gen3TypeOK
    <3>2. QED
      BY <3>1, NumberBytes DEF Gen3TypeOK
  <2>2. tx' \in Seq(LineByte) /\ Len(tx') <= TxRoom
    BY <1>10, <2>0, PutcharType DEF PageAnswer, NextPage, LastPage, ReadFails, Tags
  <2>3. /\ retries' \in Nat /\ offset' \in -1 .. PageBytes
        /\ gstate' \in {Stages[i] : i \in 1 .. Len(Stages)} /\ elapsed' \in 0 .. 3
    <3>1. ASSUME NEW count \in Nat, SendLoaded(count)
          PROVE  /\ retries' \in Nat /\ offset' \in -1 .. PageBytes
                 /\ gstate' \in {"FAILURE", "SEND_PAGE"} /\ elapsed' \in 0 .. 3
      <4>1. -1 \in -1 .. PageBytes /\ offset \in -1 .. PageBytes /\ elapsed \in 0 .. 3 /\ count + 1 \in Nat
        BY LineAssumption DEF Gen3TypeOK
      <4>2. QED
        BY <3>1, <4>1 DEF SendLoaded
    <3>2. CASE SendLoaded(0) \/ SendLoaded(retries)
      BY <2>0, <3>1, <3>2, StateType
    <3>3. CASE ~SendLoaded(0) /\ ~SendLoaded(retries)
      BY <1>10, <2>0, <3>3, StateType DEF PageAnswer, NextPage, LastPage, ReadFails, page
    <3>4. QED
      BY <3>2, <3>3
  <2>4. pageNum' \in Nat /\ fileRead' \in 0 .. Len(Image) /\ eof' \in BOOLEAN
    <3>1. CASE LoadPage(pageNum + 1, NextData)
      BY <2>0, <3>1, LoadPageType
    <3>2. CASE ~LoadPage(pageNum + 1, NextData)
      BY <1>10, <2>0, <3>2 DEF PageAnswer, NextPage, LastPage, ReadFails, Gen3TypeOK
    <3>3. QED
      BY <3>1, <3>2
  <2>5. QED
    BY <1>10, <2>1, <2>2, <2>3, <2>4 DEF PageAnswer, Gen3TypeOK
<1>11. CASE Verify
  <2>1. rx' \in Seq(Replies)
    BY <1>11, TakeAnswerType DEF Verify
  <2>2. gstate' \in {Stages[i] : i \in 1 .. Len(Stages)} /\ elapsed' \in 0 .. 3
    BY <1>11, StateType DEF Verify, Gen3TypeOK
  <2>3. QED
    BY <1>11, <2>1, <2>2 DEF Verify, Gen3TypeOK
<1>12. CASE Time
  BY <1>12 DEF Time, Gen3TypeOK
<1>13. CASE Lose
  <2>0. /\ tx \in Seq(LineByte) /\ Len(tx) <= TxRoom /\ TxRoom \in Nat
        /\ rx \in Seq(Replies)
    BY LineAssumption DEF Gen3TypeOK
  <2>1. tx' \in Seq(LineByte) /\ Len(tx') <= TxRoom
    <3>1. tx # <<>> => /\ Tail(tx) \in Seq(LineByte) /\ Len(Tail(tx)) = Len(tx) - 1
                       /\ Len(tx) \in Nat
      BY <2>0, HeadTailProperties
    <3>2. tx' = tx \/ (tx # <<>> /\ tx' = Tail(tx))
      BY <1>13 DEF Lose, Loses
    <3>3. QED
      BY <2>0, <3>1, <3>2
  <2>2. rx' \in Seq(Replies)
    BY <1>13, <2>0, HeadTailProperties DEF Lose, Loses
  <2>3. QED
    BY <1>13, <2>1, <2>2 DEF Lose, Gen3TypeOK
<1>14. CASE Noise
  <2>1. rx' \in Seq(Replies)
    BY <1>14 DEF Noise, Replies, Gen3TypeOK
  <2>2. QED
    BY <1>14, <2>1 DEF Noise, Gen3TypeOK
<1>15. CASE BreakSeen
  BY <1>15 DEF BreakSeen, Gen3TypeOK
<1>16. CASE Bootloader
  <2> DEFINE bytes == Append(command, Head(tx))
  <2>1. /\ tx # <<>> /\ tx \in Seq(LineByte) /\ command \in Seq(LineByte) /\ rx \in Seq(Replies)
        /\ Len(tx) <= TxRoom /\ TxRoom \in Nat /\ tx' = Tail(tx)
    BY <1>16, LineAssumption DEF Bootloader, Gen3TypeOK
  <2>2. bytes \in Seq(LineByte) /\ Len(bytes) \in Nat
    BY <2>1
  <2>3. tx' \in Seq(LineByte) /\ Len(tx') <= TxRoom
    BY <2>1, HeadTailProperties
  <2>4. ShortCommand(bytes) \/ KeepByte(bytes) \/ WholePage(bytes) \/ IgnoreByte(bytes)
    BY <1>16 DEF Bootloader
  <2> HIDE DEF bytes
  <2>5. rx' \in Seq(Replies)
    <3>1. \A answers \in Seq(Replies) : Respond(answers) => rx' \in Seq(Replies)
      BY <2>1 DEF Respond
    <3>2. /\ <<"U">> \in Seq(Replies) /\ <<"1", "U">> \in Seq(Replies)
          /\ <<"crcErr">> \in Seq(Replies) /\ <<"verifyErr">> \in Seq(Replies)
          /\ <<"failure">> \in Seq(Replies)
      BY DEF Replies
    <3>3. ShortAnswers(bytes) \subseteq Seq(Replies)
      BY <3>2 DEF ShortAnswers
    <3>4. CASE ShortCommand(bytes)
      BY <3>1, <3>3, <3>4 DEF ShortCommand
    <3>5. CASE WholePage(bytes)
      BY <3>1, <3>2, <3>5 DEF WholePage
    <3>6. QED
      BY <2>1, <2>4, <3>4, <3>5 DEF KeepByte, IgnoreByte
  <2>6. command' \in Seq(LineByte)
    <3>1. command' = command \/ command' = bytes \/ command' = <<>>
      BY <2>4 DEF ShortCommand, KeepByte, WholePage, IgnoreByte
    <3>2. QED
      BY <2>1, <2>2, <3>1, EmptySeq
  <2>7. flash' \subseteq Nat \X Nat
    <3>1. CASE WholePage(bytes)
      <4>1. Len(bytes) = PageCommand /\ HeaderBytes + 1 \in 3 .. Len(bytes)
        <5>1. speaks \in 0 .. 1 /\ Len(bytes) = PageCommand
          BY <3>1 DEF WholePage, Gen3TypeOK
        <5>2. QED
          BY <2>2, <5>1, Lengths
      <4>2. 2 \in 1 .. Len(bytes) /\ 3 \in 1 .. Len(bytes) /\ HeaderBytes + 1 \in 1 .. Len(bytes)
        BY <2>2, <4>1
      <4>3. bytes[2][2] \in Nat /\ bytes[3][2] \in Nat /\ bytes[HeaderBytes + 1][2] \in Nat
        BY <2>2, <4>2 DEF LineByte
      <4>4. NumberIn(bytes) \in Nat /\ PageIn(bytes) \in Nat
        <5>1. \A m, a, b \in Nat : a + m * b \in Nat /\ a + 0 \in Nat
          OBVIOUS
        <5>2. QED
          BY <4>3, <5>1, NumberBytes DEF NumberIn, PageIn
      <4>5. QED
        BY <3>1, <4>4 DEF WholePage, Store, Gen3TypeOK
    <3>2. CASE ~WholePage(bytes)
      BY <2>4, <3>2 DEF ShortCommand, KeepByte, IgnoreByte, Gen3TypeOK
    <3>3. QED
      BY <3>1, <3>2
  <2>8. QED
    BY <1>16, <2>3, <2>5, <2>6, <2>7 DEF Bootloader, Gen3TypeOK
<1>17. CASE UNCHANGED gvars
  BY <1>17 DEF gvars, Gen3TypeOK
<1>18. QED
  BY <1>1, <1>2, <1>3, <1>4, <1>5, <1>6, <1>7, <1>8, <1>9, <1>10, <1>11, <1>12, <1>13, <1>14,
     <1>15, <1>16, <1>17 DEF Gen3Next, Tick

\* What the host knows of the protocol comes from the bootloader's answer to "L".
LEMMA KnownStep == Gen3TypeOK /\ Known /\ [Gen3Next]_gvars => Known'
<1> SUFFICES ASSUME Gen3TypeOK, Known, [Gen3Next]_gvars PROVE Known'
  OBVIOUS
<1> USE DEF page, line
<1>1. rx \in Seq(Replies)
  BY DEF Gen3TypeOK
\* Answers taken, lost or thrown away are not new ones.
<1>2. ASSUME rx' = rx \/ rx' = <<>> \/ (rx # <<>> /\ rx' = Tail(rx)), speaks' = speaks,
             proto1' => proto1 \/ (rx # <<>> /\ Head(rx) = "1")
      PROVE  Known'
  <2>1. \A i \in 1 .. Len(rx') : \E j \in 1 .. Len(rx) : rx'[i] = rx[j]
    <3>1. CASE rx # <<>> /\ rx' = Tail(rx)
      <4>1. \A i \in 1 .. Len(rx') : i + 1 \in 1 .. Len(rx) /\ rx'[i] = rx[i + 1]
        BY <1>1, <3>1, HeadTailProperties
      <4>2. QED
        BY <4>1
    <3>2. CASE rx' = rx \/ rx' = <<>>
      BY <3>2
    <3>3. QED
      BY <1>2, <3>1, <3>2
  <2>2. rx # <<>> => 1 \in 1 .. Len(rx) /\ Head(rx) = rx[1]
    BY <1>1
  <2>3. QED
    BY <1>2, <2>1, <2>2 DEF Known
<1>3. ASSUME NEW reply \in Seq(Replies), rx' = rx \o reply, UNCHANGED <<proto1, speaks>>,
             \A i \in 1 .. Len(reply) : reply[i] = "1" => speaks = 1
      PROVE  Known'
  <2>1. ASSUME NEW i \in 1 .. Len(rx') PROVE rx'[i] = "1" => speaks = 1
    <3>1. CASE i <= Len(rx)
      <4>1. i \in 1 .. Len(rx) /\ rx'[i] = rx[i]
        BY <1>1, <1>3, <3>1
      <4>2. QED
        BY <4>1 DEF Known
    <3>2. CASE ~(i <= Len(rx))
      <4>1. i - Len(rx) \in 1 .. Len(reply) /\ rx'[i] = reply[i - Len(rx)]
        BY <1>1, <1>3, <3>2
      <4>2. QED
        BY <1>3, <4>1
    <3>3. QED
      BY <3>1, <3>2
  <2>2. QED
    BY <1>3, <2>1 DEF Known
<1>4. CASE Tick
  <2>1. speaks' = speaks
    BY <1>4 DEF Tick, StartBreak, EnterBootloader, AskVersion, AskProtocol, AskBaudRate,
       AskExtendedVersion, AskErase, StartTransfer, SendPage, PageAnswer, Verify
  <2>2. TakeAnswer => rx' = rx \/ (rx # <<>> /\ rx' = Tail(rx))
    BY DEF TakeAnswer
  <2>3. rx' = rx \/ rx' = <<>> \/ (rx # <<>> /\ rx' = Tail(rx))
    BY <1>4, <2>2 DEF Tick, StartBreak, EnterBootloader, AskVersion, AskProtocol, AskBaudRate,
       AskExtendedVersion, AskErase, StartTransfer, SendPage, SendHeader, SendBytes, SendChecksum,
       NoRoom, PageAnswer, Verify
  <2>4. proto1' => proto1 \/ (rx # <<>> /\ Head(rx) = "1")
    <3>1. Answer = "1" => rx # <<>> /\ Head(rx) = "1"
      BY DEF Answer
    <3>2. CASE AskBaudRate
      BY <3>1, <3>2 DEF AskBaudRate
    <3>3. CASE ~AskBaudRate
      BY <1>4, <3>3 DEF Tick, StartBreak, EnterBootloader, AskVersion, AskProtocol,
         AskExtendedVersion, AskErase, StartTransfer, SendPage, PageAnswer, Verify
    <3>4. QED
      BY <3>2, <3>3
  <2>5. QED
    BY <1>2, <2>1, <2>3, <2>4
<1>5. CASE Bootloader
  <2>1. PICK bytes : ShortCommand(bytes) \/ KeepByte(bytes) \/ WholePage(bytes) \/ IgnoreByte(bytes)
    BY <1>5 DEF Bootloader
  <2>2. UNCHANGED <<proto1, speaks>>
    BY <1>5 DEF Bootloader
  <2>3. ASSUME NEW reply \in Seq(Replies), Respond(reply),
               \A i \in 1 .. Len(reply) : reply[i] = "1" => speaks = 1
        PROVE  Known'
    BY <1>2, <1>3, <2>2, <2>3 DEF Respond
  <2>4. ASSUME NEW c \in Replies \ {"1"}, Respond(<<c>>) PROVE Known'
    <3>1. <<c>> \in Seq(Replies) /\ \A i \in 1 .. Len(<<c>>) : <<c>>[i] # "1"
      OBVIOUS
    <3>2. QED
      BY <2>3, <2>4, <3>1
  <2>5. CASE ShortCommand(bytes)
    <3>1. PICK answers \in ShortAnswers(bytes) : Respond(answers)
      BY <2>5 DEF ShortCommand
    <3>2. CASE answers = <<"U">> \/ answers = <<"failure">>
      BY <2>4, <3>1, <3>2 DEF Replies
    <3>3. CASE answers = <<"1", "U">> /\ speaks = 1
      <4>1. <<"1", "U">> \in Seq(Replies)
        BY DEF Replies
      <4>2. QED
        BY <2>3, <3>1, <3>3, <4>1
    <3>4. QED
      BY <3>1, <3>2, <3>3 DEF ShortAnswers
  <2>6. CASE WholePage(bytes)
    <3>1. Respond(<<"U">>) \/ Respond(<<"crcErr">>) \/ Respond(<<"verifyErr">>)
      BY <2>6 DEF WholePage
    <3>2. QED
      BY <2>4, <3>1 DEF Replies
  <2>7. CASE KeepByte(bytes) \/ IgnoreByte(bytes)
    BY <1>2, <2>2, <2>7 DEF KeepByte, IgnoreByte
  <2>8. QED
    BY <2>1, <2>5, <2>6, <2>7
<1>6. CASE Noise
  <2>1. rx' = rx \o <<"noise">> /\ UNCHANGED <<proto1, speaks>>
    BY <1>1, <1>6 DEF Noise
  <2>2. <<"noise">> \in Seq(Replies) /\ \A i \in 1 .. Len(<<"noise">>) : <<"noise">>[i] # "1"
    BY DEF Replies
  <2>3. QED
    BY <1>3, <2>1, <2>2
<1>7. CASE Time \/ Lose \/ BreakSeen \/ UNCHANGED gvars
  BY <1>2, <1>7 DEF Time, Lose, Loses, BreakSeen, gvars
<1>8. QED
  BY <1>4, <1>5, <1>6, <1>7 DEF Gen3Next

-----------------------------------------------------------------------------
\* The line, as one sequence: its type, what sending, losing and taking a byte do.
LEMMA WireType ==
    ASSUME Gen3TypeOK
    PROVE  /\ Wire \in Seq(LineByte) /\ Len(Wire) \in Nat
           /\ Len(Wire) = Len(command) + Len(tx)
           /\ Len(command) \in Nat /\ Len(tx) \in Nat
           /\ Wire = <<>> => command = <<>> /\ tx = <<>>
<1>1. command \in Seq(LineByte) /\ tx \in Seq(LineByte)
  BY DEF Gen3TypeOK
<1>2. /\ Wire \in Seq(LineByte) /\ Len(Wire) = Len(command) + Len(tx)
      /\ Len(command) \in Nat /\ Len(tx) \in Nat
  BY <1>1, ConcatProperties, LenProperties DEF Wire
<1>3. Wire = <<>> => Len(command) = 0 /\ Len(tx) = 0
  BY <1>2
<1>4. QED
  BY <1>1, <1>2, <1>3

LEMMA WireSends ==
    ASSUME Gen3TypeOK, NEW more \in Seq(LineByte), tx' = tx \o more, command' = command
    PROVE  /\ Len(Wire') = Len(Wire) + Len(more)
           /\ \A i \in 1 .. Len(Wire) : Wire'[i] = Wire[i]
           /\ \A i \in 1 .. Len(more) : Wire'[Len(Wire) + i] = more[i]
<1>1. command \in Seq(LineByte) /\ tx \in Seq(LineByte)
  BY DEF Gen3TypeOK
<1>2. Wire' = command \o (tx \o more)
  BY DEF Wire
<1>3. /\ Len(tx \o more) = Len(tx) + Len(more) /\ tx \o more \in Seq(LineByte)
      /\ \A i \in 1 .. Len(tx) : (tx \o more)[i] = tx[i]
      /\ \A i \in 1 .. Len(more) : (tx \o more)[Len(tx) + i] = more[i]
  BY <1>1
<1>4. /\ Len(Wire) = Len(command) + Len(tx)
      /\ Len(Wire') = Len(command) + Len(tx) + Len(more)
  BY <1>1, <1>2, <1>3, ConcatProperties DEF Wire
<1>5. ASSUME NEW i \in 1 .. Len(Wire) PROVE Wire'[i] = Wire[i]
  BY <1>1, <1>2, <1>3, <1>4 DEF Wire
<1>6. ASSUME NEW i \in 1 .. Len(more) PROVE Wire'[Len(Wire) + i] = more[i]
  <2>1. Len(command) \in Nat /\ Len(tx) \in Nat /\ Len(more) \in Nat
    BY <1>1
  <2>2. Len(command) + Len(tx) + i \in 1 .. Len(command) + Len(tx \o more)
    BY <1>3, <1>6, <2>1
  <2>3. Wire'[Len(command) + Len(tx) + i] = (tx \o more)[Len(tx) + i]
    BY <1>1, <1>2, <1>3, <1>6, <2>1, <2>2, ConcatProperties
  <2>4. QED
    BY <1>3, <1>4, <2>3
<1>7. QED
  BY <1>1, <1>4, <1>5, <1>6

LEMMA WireDrops ==
    ASSUME Gen3TypeOK, tx # <<>>, tx' = Tail(tx), command' = command
    PROVE  Len(Wire') = Len(Wire) - 1
<1>1. command \in Seq(LineByte) /\ tx \in Seq(LineByte)
  BY DEF Gen3TypeOK
<1>2. Tail(tx) \in Seq(LineByte) /\ Len(Tail(tx)) = Len(tx) - 1
  BY <1>1, HeadTailProperties
<1>3. QED
  BY <1>1, <1>2, ConcatProperties DEF Wire

LEMMA WireMoves ==
    ASSUME Gen3TypeOK, tx # <<>>, tx' = Tail(tx), command' = Append(command, Head(tx))
    PROVE  Wire' = Wire
<1>1. command \in Seq(LineByte) /\ tx \in Seq(LineByte)
  BY DEF Gen3TypeOK
<1>2. QED
  BY <1>1 DEF Wire

\* One byte is no page command.
LEMMA ShortIsNoPage ==
    ASSUME Gen3TypeOK, UNCHANGED speaks, Len(Wire') <= 1, Len(Wire') \in Nat
    PROVE  WholeCommand'
<1>1. PageCommand' = PageCommand
  BY DEF PageCommand, HeaderBytes
<1>2. PageCommand \in Nat /\ PageCommand >= 4
  BY Lengths DEF Gen3TypeOK
<1>3. QED
  BY <1>1, <1>2 DEF WholeCommand

\* A step that fails leaves the line and the flash as they are.
LEMMA FailureKeeps ==
    ASSUME Gen3Inv, gstate' = "FAILURE", UNCHANGED <<command, tx, flash, speaks>>
    PROVE  Gen3Inv'
<1>1. Wire' = Wire
  BY DEF Wire
<1>2. WholeCommand' /\ PagesInPlace'
  BY <1>1 DEF Gen3Inv, WholeCommand, PagesInPlace, PageCommand, HeaderBytes, NumberIn, PageIn, Slot, PageNumbers
<1>3. QED
  BY <1>2 DEF Gen3Inv, OneAtATime, Shaking, PageInBuffer, Paging, SentSoFar, Answered, AllStored

\* One that stays in the handshake has only that to keep up.
LEMMA ShakingKeeps ==
    ASSUME Gen3Inv, Gen3TypeOK, Gen3TypeOK', Shaking', OneAtATime', UNCHANGED <<flash, speaks>>
    PROVE  Gen3Inv'
<1>1. command' = <<>> /\ tx' \in Seq(LineByte) /\ (tx' # <<>> => Len(tx') = 1)
  BY DEF OneAtATime, Gen3TypeOK
<1>2. Len(Wire') <= 1 /\ Len(Wire') \in Nat
  <2>1. Wire' = tx'
    BY <1>1, ConcatEmptySeq DEF Wire
  <2>2. CASE tx' = <<>>
    BY <2>1, <2>2
  <2>3. CASE tx' # <<>>
    <3>1. Len(tx') = 1
      BY <1>1, <2>3
    <3>2. Len(Wire') = 1
      BY <2>1, <3>1
    <3>3. QED
      BY <3>2
  <2>4. QED
    BY <2>2, <2>3
<1>3. WholeCommand'
  BY <1>2, ShortIsNoPage
<1>4. QED
  BY <1>3 DEF Gen3Inv, Shaking, PageInBuffer, Paging, SentSoFar, Answered, AllStored, PagesInPlace,
     Slot, PageNumbers

\* Into an empty buffer a character always goes.
LEMMA PutcharFirst ==
    ASSUME Gen3TypeOK, tx = <<>>, NEW c, Putchar(c)
    PROVE  tx' = <<c>>
BY Numbers DEF Putchar

\* The handshake (xbee_bl_gen3.c:239-382): each stage waits for the whole answer to
\* the last before it sends.
LEMMA HandshakeStep ==
    ASSUME Gen3TypeOK, Gen3TypeOK', Gen3Inv,
           \/ StartBreak \/ EnterBootloader \/ AskVersion \/ AskProtocol \/ AskBaudRate
           \/ AskExtendedVersion
    PROVE  Gen3Inv'
<1> USE DEF page, line
<1>1. OneAtATime
  BY DEF Gen3Inv
<1>2. /\ TakeAnswer /\ rx \in {<<>>, <<"U">>} => rx' = <<>>
      /\ TakeAnswer /\ rx = <<"1", "U">> => rx' = <<"U">> /\ Answer = "1"
      /\ rx = <<>> => Answer = "none"
      /\ rx = <<"U">> => Answer = "U"
  <2>1. CASE rx = <<>>
    BY <2>1 DEF TakeAnswer, Answer
  <2>2. CASE rx = <<"U">>
    BY <2>2 DEF TakeAnswer, Answer
  <2>3. CASE rx = <<"1", "U">>
    BY <2>3 DEF TakeAnswer, Answer
  <2>4. QED
    BY <2>1, <2>2, <2>3
<1>3. \A c : Putchar(c) /\ tx = <<>> => tx' = <<c>> /\ Len(tx') = 1 /\ tx'[1] = c
  BY PutcharFirst
<1>4. \A c, d \in Tags : Cmd(c) = Cmd(d) => c = d
  BY DEF Cmd
<1>5. CASE gstate' = "FAILURE" /\ tx' = tx
  BY <1>5, FailureKeeps DEF StartBreak, EnterBootloader, AskVersion, AskProtocol,
     AskBaudRate, AskExtendedVersion
<1>6. CASE StartBreak
  <2>1. gstate = "INIT" /\ gstate' = "ENTER_BOOTLOADER" /\ UNCHANGED <<page, line, tx, rx>>
    BY <1>6, Order DEF StartBreak, NextState
  <2>2. QED
    BY <1>1, <2>1, ShakingKeeps DEF OneAtATime, Shaking
<1>7. CASE EnterBootloader /\ gstate' # "FAILURE"
  <2>1. gstate = "ENTER_BOOTLOADER" /\ UNCHANGED <<page, line, tx, rx>>
    BY <1>7 DEF EnterBootloader
  <2>2. gstate' \in {"ENTER_BOOTLOADER", "GET_BL_VERSION"}
    BY <1>7, Order DEF EnterBootloader, NextState, SameState
  <2>3. QED
    BY <1>1, <2>1, <2>2, ShakingKeeps DEF OneAtATime, Shaking
<1>8. CASE AskVersion
  <2>1. gstate = "GET_BL_VERSION" /\ gstate' = "BL_VERSION" /\ UNCHANGED <<page, line>>
    BY <1>8, Order DEF AskVersion, NextState
  <2>2. rx' = <<>> /\ tx' = <<Cmd("B")>> /\ command = <<>>
    BY <1>1, <1>3, <1>8, <2>1 DEF AskVersion, OneAtATime, Shaking
  <2>3. OneAtATime'
    BY <1>1, <1>4, <2>1, <2>2 DEF OneAtATime, Shaking, Tags
  <2>4. QED
    BY <2>1, <2>3, ShakingKeeps DEF Shaking
<1>9. CASE AskProtocol /\ gstate' # "FAILURE"
  <2>1. gstate = "BL_VERSION" /\ UNCHANGED <<page, line>>
    BY <1>9 DEF AskProtocol
  <2>2. CASE rx = <<>>
    <3>1. gstate' = "BL_VERSION" /\ UNCHANGED <<tx, rx>>
      BY <1>9, <2>2 DEF AskProtocol, SameState
    <3>2. QED
      BY <1>1, <2>1, <3>1, ShakingKeeps DEF OneAtATime, Shaking
  <2>3. CASE rx # <<>>
    <3>1. gstate' = "BL_PROTOCOL" /\ TakeAnswer /\ Putchar(Cmd("L"))
      BY <1>9, <2>1, <2>3, Order DEF AskProtocol, NextState
    <3>2. rx = <<"U">> /\ tx = <<>> /\ command = <<>>
      BY <1>1, <2>1, <2>3 DEF OneAtATime, Shaking
    <3>3. rx' = <<>> /\ tx' = <<Cmd("L")>>
      BY <1>2, <1>3, <3>1, <3>2
    <3>4. OneAtATime'
      BY <1>1, <2>1, <3>1, <3>2, <3>3 DEF OneAtATime, Shaking
    <3>5. QED
      BY <2>1, <3>1, <3>4, ShakingKeeps DEF Shaking
  <2>4. QED
    BY <2>2, <2>3
<1>10. CASE AskBaudRate /\ gstate' # "FAILURE"
  <2>1. gstate = "BL_PROTOCOL" /\ UNCHANGED <<pageNum, fileRead, eof, command, flash, speaks>> /\ TakeAnswer
    BY <1>10 DEF AskBaudRate
  <2>2. CASE Answer # "U"
    <3>1. gstate' = "BL_PROTOCOL" /\ UNCHANGED tx
      BY <1>10, <2>1, <2>2 DEF AskBaudRate, SameState
    <3>2. rx \in {<<>>, <<"1", "U">>} /\ rx' \in {<<>>, <<"U">>}
      BY <1>1, <1>2, <2>1, <2>2 DEF OneAtATime, Shaking
    <3>3. tx # <<>> => rx = <<>> /\ rx' = <<>>
      BY <1>1, <1>2, <2>1 DEF OneAtATime, Shaking
    <3>4. OneAtATime'
      BY <1>1, <2>1, <3>1, <3>2, <3>3 DEF OneAtATime, Shaking
    <3>5. QED
      BY <2>1, <3>1, <3>4, ShakingKeeps DEF Shaking
  <2>3. CASE Answer = "U"
    <3>1. gstate' = "BAUD_RATE" /\ Putchar(Cmd("R"))
      BY <1>10, <2>1, <2>3, Order DEF AskBaudRate, NextState
    <3>2. rx = <<"U">> /\ tx = <<>> /\ command = <<>>
      BY <1>1, <1>2, <2>1, <2>3 DEF OneAtATime, Shaking, Answer
    <3>3. rx' = <<>> /\ tx' = <<Cmd("R")>>
      BY <1>2, <1>3, <2>1, <3>1, <3>2
    <3>4. OneAtATime'
      BY <1>1, <1>4, <2>1, <3>1, <3>2, <3>3 DEF OneAtATime, Shaking, Tags
    <3>5. QED
      BY <2>1, <3>1, <3>4, ShakingKeeps DEF Shaking
  <2>4. QED
    BY <2>2, <2>3
<1>11. CASE AskExtendedVersion /\ gstate' # "FAILURE"
  <2>1. gstate = "BAUD_RATE" /\ UNCHANGED <<page, line>> /\ TakeAnswer
    BY <1>11 DEF AskExtendedVersion
  <2>2. rx \in {<<>>, <<"U">>} /\ rx' = <<>> /\ command = <<>>
    BY <1>1, <1>2, <2>1 DEF OneAtATime, Shaking
  <2>3. CASE Answer # "U"
    <3>1. gstate' = "BAUD_RATE" /\ UNCHANGED tx
      BY <1>11, <2>1, <2>3 DEF AskExtendedVersion, SameState
    <3>2. OneAtATime'
      BY <1>1, <2>1, <2>2, <3>1 DEF OneAtATime, Shaking
    <3>3. QED
      BY <2>1, <3>1, <3>2, ShakingKeeps DEF Shaking
  <2>4. CASE Answer = "U"
    <3>1. gstate' = "EXT_VERSION" /\ Putchar(Cmd("V"))
      BY <1>11, <2>1, <2>4, Order DEF AskExtendedVersion, NextState
    <3>2. tx = <<>>
      BY <1>1, <1>2, <2>1, <2>4 DEF OneAtATime, Shaking
    <3>3. tx' = <<Cmd("V")>>
      BY <1>3, <3>1, <3>2
    <3>4. OneAtATime'
      BY <1>1, <1>4, <2>1, <2>2, <3>1, <3>3 DEF OneAtATime, Shaking, Tags
    <3>5. QED
      BY <2>1, <3>1, <3>4, ShakingKeeps DEF Shaking
  <2>5. QED
    BY <2>3, <2>4
<1>12. QED
  <2>1. (AskProtocol \/ AskBaudRate \/ AskExtendedVersion \/ EnterBootloader) /\ gstate' = "FAILURE" => tx' = tx
    BY Order DEF AskProtocol, AskBaudRate, AskExtendedVersion, EnterBootloader, NextState
  <2>2. QED
    BY <1>5, <1>6, <1>7, <1>8, <1>9, <1>10, <1>11, <2>1

\* The erase command or, for a query, the end (xbee_bl_gen3.c:360-382).
LEMMA EraseStep ==
    ASSUME Gen3TypeOK, Gen3TypeOK', Gen3Inv, AskErase
    PROVE  Gen3Inv'
<1> USE DEF page, line
<1>1. OneAtATime /\ PagesInPlace /\ gstate = "EXT_VERSION" /\ UNCHANGED <<queryOnly, page, line>>
  BY DEF Gen3Inv, AskErase
<1>2. CASE rx = <<>>
  <2>1. SameState /\ UNCHANGED <<tx, rx>>
    BY <1>2 DEF AskErase
  <2>2. CASE gstate' = "FAILURE"
    BY <1>1, <2>1, <2>2, FailureKeeps
  <2>3. CASE gstate' = "EXT_VERSION"
    BY <1>1, <2>1, <2>3, ShakingKeeps DEF OneAtATime, Shaking
  <2>4. QED
    BY <1>1, <2>1, <2>2, <2>3 DEF SameState
<1>3. CASE rx # <<>>
  <2>1. rx = <<"U">> /\ tx = <<>> /\ command = <<>> /\ TakeAnswer /\ rx' = <<>>
    BY <1>1, <1>3 DEF OneAtATime, Shaking, AskErase, TakeAnswer
  <2>2. CASE ~queryOnly
    <3>1. gstate' = "START_TRANSFER" /\ Putchar(Cmd("I"))
      BY <1>1, <1>3, <2>2, Order DEF AskErase, NextState
    <3>2. tx' = <<Cmd("I")>>
      BY <2>1, <3>1, PutcharFirst
    <3>3. Cmd("I") # Cmd("L")
      BY DEF Cmd
    <3>4. OneAtATime'
      BY <1>1, <2>1, <3>1, <3>2, <3>3 DEF OneAtATime, Shaking
    <3>5. QED
      BY <1>1, <3>1, <3>4, ShakingKeeps DEF Shaking
  <2>3. CASE queryOnly
    <3>1. gstate' = "SUCCESS" /\ Putchar(Cmd("C"))
      BY <1>1, <1>3, <2>3 DEF AskErase
    <3>2. tx' = <<Cmd("C")>>
      BY <2>1, <3>1, PutcharFirst
    <3>3. Wire' = <<Cmd("C")>>
      BY <1>1, <2>1, <3>2 DEF Wire
    <3>4. WholeCommand' /\ Len(Wire') <= 1
      BY <1>1, <3>3, ShortIsNoPage
    <3>5. QED
      BY <1>1, <2>3, <3>1, <3>4 DEF Gen3Inv, OneAtATime, Shaking, PageInBuffer, Paging, SentSoFar,
         Answered, AllStored, PagesInPlace, Slot, PageNumbers
  <2>4. QED
    BY <2>2, <2>3 DEF Gen3TypeOK
<1>4. QED
  BY <1>2, <1>3

\* The first page goes into the buffer (xbee_bl_gen3.c:384-394, 129-170): the one
\* found, with its number, since all before it are blank.
LEMMA StartTransferStep ==
    ASSUME Gen3TypeOK, Gen3TypeOK', Gen3Inv, StartTransfer
    PROVE  Gen3Inv'
<1> USE DEF line
<1>1. OneAtATime /\ PagesInPlace /\ gstate = "START_TRANSFER" /\ UNCHANGED <<line, tx>> /\ TakeAnswer
  BY DEF Gen3Inv, StartTransfer
<1>2. command = <<>> /\ pageNum = 0 /\ fileRead = 0 /\ eof = FALSE /\ rx \in {<<>>, <<"U">>}
  BY <1>1 DEF OneAtATime, Shaking
<1>3. CASE gstate' = "FAILURE"
  BY <1>1, <1>3, FailureKeeps
<1>4. CASE Answer # "U" /\ gstate' # "FAILURE"
  <2>1. gstate' = "START_TRANSFER" /\ UNCHANGED page
    BY <1>1, <1>4 DEF StartTransfer, SameState
  <2>2. rx = <<>> /\ rx' = <<>>
    BY <1>1, <1>2, <1>4 DEF Answer, TakeAnswer
  <2>3. QED
    BY <1>1, <2>1, <2>2, ShakingKeeps DEF OneAtATime, Shaking, page
<1>5. CASE Answer = "U" /\ gstate' # "FAILURE"
  <2>1. LoadPage(0, NextData) /\ offset' = -1 /\ gstate' = "SEND_PAGE"
    BY <1>1, <1>2, <1>5, Order DEF StartTransfer, NextState, Failed
  <2>2. rx = <<"U">> /\ tx = <<>>
    BY <1>1, <1>2, <1>5 DEF Answer, OneAtATime, Shaking
  <2>3. Len(Image) \in Nat /\ \E n \in 1 .. Len(Image) : Image[n] = "data"
    BY ImageAssumption
  <2>4. /\ NextData \in 1 .. Len(Image) + 1
        /\ \A m \in 1 .. NextData - 1 : Image[m] = "blank"
    BY <1>2, <2>3, NextDataFound
  <2>5. NextData <= Len(Image)
    BY <2>3, <2>4
  <2>6. pageNum' = Wrapped(NextData - 1) /\ fileRead' = NextData /\ (eof' => NextData = Len(Image))
    <3>1. ~(NextData > Len(Image))
      BY <2>3, <2>4, <2>5
    <3>2. fileRead' = NextData /\ pageNum' = Wrapped(NextData - 1)
      <4>1. 0 + (NextData - (0 + 1)) = NextData - 1
        BY <2>3, <2>4
      <4>2. QED
        BY <1>2, <2>1, <3>1, <4>1 DEF LoadPage, Numbered
    <3>3. eof' \in {eof, NextData = Len(Image)}
      BY <2>1, <3>1 DEF LoadPage
    <3>4. eof' => NextData = Len(Image)
      BY <1>2, <3>3, Zenon
    <3>5. QED
      BY <2>4, <3>2, <3>4
  <2>7. Wire' = <<>>
    BY <1>1, <1>2, <2>2 DEF Wire
  <2>8. PageInBuffer'
    <3>1. /\ fileRead' >= 1 /\ Image[fileRead'] = "data" /\ pageNum' = Wrapped(fileRead' - 1)
          /\ eof' => fileRead' = Len(Image)
      <4>1. Image[NextData] = "data"
        BY <1>2, <2>3, <2>5, NextDataFound
      <4>2. QED
        BY <2>3, <2>4, <2>6, <4>1
    <3>2. StoredBelow(fileRead)'
      BY <2>4, <2>6 DEF StoredBelow
    <3>3. tx' = <<>>
      BY <1>1, <2>2
    <3>4. QED
      BY <3>1, <3>2, <3>3 DEF PageInBuffer
  <2>9. SentSoFar' /\ WholeCommand'
    BY <1>1, <2>1, <2>7, ShortIsNoPage DEF SentSoFar
  <2>10. QED
    BY <1>1, <2>1, <2>8, <2>9 DEF Gen3Inv, OneAtATime, Shaking, Answered, AllStored, PagesInPlace,
       Slot, PageNumbers
<1>6. QED
  BY <1>3, <1>4, <1>5

\* What follows the header does not change the number in it.
LEMMA HeaderKept ==
    ASSUME speaks \in {0, 1}, UNCHANGED speaks, Len(Wire) \in Nat, Len(Wire) >= HeaderBytes,
           \A i \in 1 .. Len(Wire) : Wire'[i] = Wire[i]
    PROVE  NumberIn(Wire)' = NumberIn(Wire)
<1>1. CASE speaks = 0
  <2>1. Wire'[2] = Wire[2]
    BY <1>1 DEF HeaderBytes
  <2>2. QED
    BY <1>1, <2>1 DEF NumberIn
<1>2. CASE speaks = 1
  <2>1. Wire'[2] = Wire[2] /\ Wire'[3] = Wire[3]
    BY <1>2 DEF HeaderBytes
  <2>2. QED
    BY <1>2, <2>1 DEF NumberIn
<1>3. QED
  BY <1>1, <1>2

\* A page goes out in pieces (xbee_bl_gen3.c:173-221).
LEMMA SendPageStep ==
    ASSUME Gen3TypeOK, Gen3TypeOK', Known, Gen3Inv, SendPage
    PROVE  Gen3Inv'
<1> USE DEF line
<1>1. /\ gstate = "SEND_PAGE"
      /\ UNCHANGED <<queryOnly, proto1, eof, retries, pageNum, fileRead, line>>
      /\ gstate' \in {"SEND_PAGE", "LOAD_PAGE", "FAILURE"}
  BY Order DEF SendPage, SendHeader, SendBytes, SendChecksum, NoRoom, SameState, NextState
<1>2. /\ fileRead >= 1 /\ Image[fileRead] = "data" /\ pageNum = Wrapped(fileRead - 1)
      /\ (eof => fileRead = Len(Image)) /\ StoredBelow(fileRead)
      /\ \A i \in 1 .. Len(tx) : tx[i][1] \in {"U", "page", "high", "byte", "crc"}
      /\ SentSoFar /\ PagesInPlace
  BY <1>1 DEF Gen3Inv, PageInBuffer, Paging
<1>3. /\ command \in Seq(LineByte) /\ tx \in Seq(LineByte)
      /\ pageNum \in Nat /\ fileRead \in Nat /\ proto1 \in BOOLEAN /\ speaks \in {0, 1}
  BY ImageAssumption DEF Gen3TypeOK
<1>4. Len(Wire) \in Nat
  BY WireType
<1>0. /\ HeaderBytes = 2 + speaks /\ PageCommand = 3 + 2 * speaks + PageBytes
      /\ PageBytes \in Nat /\ PageBytes >= 1 /\ speaks' = speaks
      /\ HeaderBytes' = HeaderBytes /\ PageCommand' = PageCommand /\ PageNumbers' = PageNumbers
      /\ Slot(fileRead)' = Slot(fileRead)
  BY <1>1, <1>3, Lengths DEF PageCommand, HeaderBytes, PageNumbers, Slot
\* What is left to show when more bytes, all of a page, are sent.
<1>5. ASSUME NEW more \in Seq(LineByte), tx' = tx \o more,
             \A i \in 1 .. Len(more) : more[i][1] \in {"U", "page", "high", "byte", "crc"},
             SentSoFar', Answered', WholeCommand'
      PROVE  Gen3Inv'
  <2>1. ASSUME NEW i \in 1 .. Len(tx')
        PROVE  tx'[i][1] \in {"U", "page", "high", "byte", "crc"}
    <3>1. CASE i <= Len(tx)
      <4>1. tx'[i] = tx[i] /\ i \in 1 .. Len(tx)
        BY <1>3, <1>5, <2>1, <3>1
      <4>2. QED
        BY <1>2, <4>1
    <3>2. CASE ~(i <= Len(tx))
      <4>1. tx'[i] = more[i - Len(tx)] /\ i - Len(tx) \in 1 .. Len(more)
        BY <1>3, <1>5, <2>1, <3>2
      <4>2. QED
        BY <1>5, <4>1
    <3>3. QED
      BY <3>1, <3>2
  <2>2. PageInBuffer'
    BY <1>1, <1>2, <2>1 DEF PageInBuffer, StoredBelow, Kept, Slot, PageNumbers
  <2>3. QED
    BY <1>1, <1>2, <1>5, <2>2 DEF Gen3Inv, OneAtATime, Shaking, AllStored, PagesInPlace,
       Slot, PageNumbers
<1>6. CASE SendHeader
  <2>1. offset < 0 /\ offset' = 0 /\ gstate' \in {"SEND_PAGE", "FAILURE"}
    BY <1>1, <1>6 DEF SendHeader, SameState
  <2>2. Wire = <<>> /\ Len(Wire) = 0
    BY <1>1, <1>2, <2>1 DEF SentSoFar
  <2>3. Cmd("U") \in LineByte /\ Cmd("U")[1] = "U"
    BY LineBytes DEF Tags, Cmd
  <2>4. PICK low, high \in LineByte : /\ low = <<"page", pageNum % PageMod, 0>>
                                      /\ high = <<"high", pageNum \div PageMod, 0>>
    BY NumberLine
  <2> DEFINE more == <<Cmd("U"), low>> \o OfProto1(high)
  <2>5. /\ proto1 => OfProto1(high) = <<high>>
        /\ ~proto1 => OfProto1(high) = <<>>
    BY DEF OfProto1
  <2>6. /\ more \in Seq(LineByte)
        /\ Len(more) = IF proto1 THEN 3 ELSE 2
        /\ more[1] = Cmd("U") /\ more[2] = low
        /\ proto1 => more[3] = high
    <3>1. CASE proto1
      <4>1. more = <<Cmd("U"), low>> \o <<high>>
        BY <2>5, <3>1
      <4> HIDE DEF more
      <4>2. QED
        BY <2>3, <3>1, <4>1
    <3>2. CASE ~proto1
      <4>1. more = <<Cmd("U"), low>> \o <<>>
        BY <2>5, <3>2
      <4> HIDE DEF more
      <4>2. QED
        BY <2>3, <3>2, <4>1
    <3>3. QED
      BY <3>1, <3>2
  <2>7. tx' = tx \o more
    <3>1. OfProto1(high) \in Seq(LineByte)
      BY LineBytes
    <3>2. <<Cmd("U"), low>> \in Seq(LineByte)
      BY <2>3
    <3>3. tx' = (tx \o <<Cmd("U"), low>>) \o OfProto1(high)
      BY <1>6, <2>4 DEF SendHeader
    <3>4. (tx \o <<Cmd("U"), low>>) \o OfProto1(high) = tx \o (<<Cmd("U"), low>> \o OfProto1(high))
      <4>1. \A s, t, u \in Seq(LineByte) : (s \o t) \o u = s \o (t \o u)
        BY ConcatAssociative
      <4>2. QED
        BY <1>3, <3>1, <3>2, <4>1, Zenon
    <3>5. QED
      BY <3>3, <3>4, Zenon
  <2>8. low[1] = "page" /\ high[1] = "high"
    BY <2>4
  <2>9. \A i \in 1 .. Len(more) : more[i][1] \in {"U", "page", "high", "byte", "crc"}
    <3> HIDE DEF more
    <3>1. \A i \in 1 .. Len(more) : i = 1 \/ i = 2 \/ (i = 3 /\ proto1)
      BY <1>3, <2>6
    <3>2. QED
      BY <2>3, <2>6, <2>8, <3>1
  <2> HIDE DEF more
  <2>10. /\ Len(Wire') = Len(more) /\ Wire'[2] = low
         /\ proto1 => Wire'[3] = high
    <3>1. 2 \in 1 .. Len(more) /\ (proto1 => 3 \in 1 .. Len(more)) /\ command' = command
      BY <1>1, <2>6
    <3>2. /\ Len(Wire') = 0 + Len(more)
          /\ \A i \in 1 .. Len(more) : Wire'[0 + i] = more[i]
      BY <2>2, <2>6, <2>7, <3>1, WireSends
    <3>3. QED
      BY <2>6, <3>1, <3>2
\* As many bytes of the number arrive as the bootloader's protocol has.
  <2>11. Len(Wire') = HeaderBytes => NumberIn(Wire)' = Slot(fileRead)
    <3> SUFFICES ASSUME Len(Wire') = HeaderBytes PROVE NumberIn(Wire)' = Slot(fileRead)
      OBVIOUS
    <3>1. PICK a \in Nat : a = fileRead - 1 /\ pageNum = Wrapped(a)
      BY <1>2, <1>3
    <3>2. low[2] = pageNum % PageMod /\ high[2] = pageNum \div PageMod
      BY <2>4
    <3>3. CASE speaks = 1
      <4>1. proto1
        <5> SUFFICES ASSUME ~proto1 PROVE FALSE
          OBVIOUS
        <5>1. Len(Wire') = 2
          BY <2>6, <2>10
        <5>2. QED
          BY <1>0, <3>3, <5>1
      <4>2. NumberIn(Wire)' = low[2] + PageMod * high[2]
        BY <1>0, <2>10, <3>3, <4>1 DEF NumberIn
      <4>3. (pageNum % PageMod) + PageMod * (pageNum \div PageMod) = Wrapped(a)
        BY <3>1, NumberBytes
      <4>4. Slot(fileRead) = Wrapped(a)
        BY <3>1, <3>3 DEF Slot, PageNumbers, Wrapped
      <4>5. QED
        BY <3>2, <4>2, <4>3, <4>4, Zenon
    <3>4. CASE speaks = 0
      <4>1. NumberIn(Wire)' = low[2] + 0
        BY <1>0, <2>10, <3>4 DEF NumberIn
      <4>2. pageNum % PageMod = a % PageMod /\ pageNum % PageMod \in Nat
        BY <3>1, NumberBytes
      <4>3. Slot(fileRead) = a % PageMod
        BY <3>1, <3>4 DEF Slot, PageNumbers
      <4>4. low[2] = a % PageMod /\ low[2] + 0 = low[2]
        BY <3>2, <4>2
      <4>5. QED
        BY <4>1, <4>3, <4>4, Zenon
    <3>5. QED
      BY <1>3, <3>3, <3>4
  <2>12. Len(Wire') <= HeaderBytes
    BY <1>3, <1>0, <2>6, <2>10 DEF Known
  <2>13. SentSoFar'
    <3>1. HeaderBytes + 0 = HeaderBytes /\ HeaderBytes \in Nat /\ Len(Wire') \in Nat
      BY <1>3, <1>0, <2>6, <2>10
    <3>2. QED
      BY <1>1, <1>0, <2>1, <2>11, <2>12, <3>1 DEF SentSoFar
  <2>14. WholeCommand' /\ Answered'
    BY <1>3, <1>0, <2>1, <2>6, <2>10, <2>12 DEF WholeCommand, Answered
  <2>15. QED
    BY <1>5, <2>6, <2>7, <2>9, <2>13, <2>14
<1>7. CASE SendBytes
  <2>1. offset >= 0
    <3>1. offset < 0 => Wire = <<>> /\ tx = <<>>
      BY <1>1, <1>2, WireType DEF SentSoFar
    <3>2. offset < 0 => TxFree >= 3
      BY <3>1, Numbers
    <3>3. offset \in Int /\ TxFree \in Nat
      BY Numbers
    <3>4. offset >= 0 \/ TxFree \in 1 .. 2
      BY <1>7 DEF SendBytes
    <3>5. QED
      BY <3>2, <3>3, <3>4
  <2>2. PICK send \in Nat : /\ send >= 1 /\ send <= TxFree /\ offset + send <= PageBytes
                            /\ tx' = tx \o Bytes(offset, offset + send)
                            /\ offset' = offset + send
    BY <1>7, SendArm
  <2>3. gstate' \in {"SEND_PAGE", "FAILURE"}
    BY <1>1, <1>7 DEF SendBytes, SameState
  <2> DEFINE more == Bytes(offset, offset + send)
  <2>4. more \in Seq(LineByte) /\ Len(more) = send
    BY <2>2, LineBytes, Numbers
  <2>5. \A i \in 1 .. send : more[i] = <<"byte", fileRead, offset + i - 1>>
    <3>1. offset \in Int
      BY Numbers
    <3>2. \A i \in 1 .. (offset + send) - offset :
             more[i] = <<"byte", fileRead, offset + i - 1>>
      BY DEF Bytes
    <3>3. (offset + send) - offset = send
      BY <2>2, <3>1
    <3>4. QED
      BY <3>2, <3>3
  <2>6. \A i \in 1 .. Len(more) : more[i][1] \in {"U", "page", "high", "byte", "crc"}
    BY <2>4, <2>5
  <2>7. more[1][2] = fileRead
    BY <2>2, <2>5
  <2> HIDE DEF more
  <2>8. /\ Len(Wire') = Len(Wire) + send
        /\ \A i \in 1 .. Len(Wire) : Wire'[i] = Wire[i]
        /\ Wire'[Len(Wire) + 1] = more[1]
    <3>1. tx' = tx \o more /\ command' = command
      BY <1>1, <2>2 DEF more
    <3>2. 1 \in 1 .. Len(more)
      BY <2>2, <2>4
    <3>3. QED
      BY <2>4, <3>1, <3>2, WireSends
  <2>9. /\ Len(Wire) <= HeaderBytes + offset
        /\ Len(Wire) = HeaderBytes + offset => /\ NumberIn(Wire) = Slot(fileRead)
                                               /\ offset > 0 => PageIn(Wire) = fileRead
    BY <1>1, <1>2, <2>1 DEF SentSoFar
  <2>10. offset \in Nat /\ PageBytes \in Nat
    BY <2>1, Numbers
  <2>11. Len(Wire') <= HeaderBytes + offset'
    BY <1>3, <1>4, <1>0, <2>2, <2>8, <2>9, <2>10
  <2>12. ASSUME Len(Wire') = HeaderBytes + offset'
         PROVE  NumberIn(Wire)' = Slot(fileRead) /\ PageIn(Wire)' = fileRead
    <3>1. Len(Wire) = HeaderBytes + offset
      BY <1>3, <1>4, <1>0, <2>2, <2>8, <2>10, <2>12
    <3>2. NumberIn(Wire)' = NumberIn(Wire)
      BY <1>3, <1>0, <2>8, <2>10, <3>1, HeaderKept
    <3>3. CASE offset > 0
      <4>1. HeaderBytes + 1 \in 1 .. Len(Wire)
        BY <1>3, <1>0, <2>10, <3>1, <3>3
      <4>2. PageIn(Wire)' = PageIn(Wire)
        BY <1>0, <2>8, <4>1 DEF PageIn
      <4>3. QED
        BY <2>9, <3>1, <3>2, <3>3, <4>2
    <3>4. CASE offset = 0
      <4>1. HeaderBytes + 1 = Len(Wire) + 1
        BY <1>3, <1>0, <3>1, <3>4
      <4>2. PageIn(Wire)' = fileRead
        BY <1>0, <2>7, <2>8, <4>1 DEF PageIn
      <4>3. QED
        BY <2>9, <3>1, <3>2, <4>2
    <3>5. QED
      BY <2>10, <3>3, <3>4
  <2>13. SentSoFar'
    BY <1>1, <1>0, <2>2, <2>10, <2>11, <2>12 DEF SentSoFar
  <2>14. WholeCommand'
    <3>1. Len(Wire') < PageCommand /\ Len(Wire') \in Nat
      BY <1>3, <1>4, <1>0, <2>2, <2>8, <2>9, <2>10
    <3>2. QED
      BY <1>3, <1>0, <3>1 DEF WholeCommand
  <2>15. Answered'
    BY <2>3 DEF Answered
  <2>16. QED
    BY <1>5, <2>2, <2>4, <2>6, <2>13, <2>14, <2>15 DEF more
<1>8. CASE SendChecksum
  <2>1. offset = PageBytes /\ gstate' = "LOAD_PAGE" /\ rx' = <<>>
    BY <1>1, <1>8, Order DEF SendChecksum, NextState
  <2> DEFINE more == <<Cmd("crc")>> \o OfProto1(Cmd("crc"))
  <2>2. Cmd("crc") \in LineByte /\ Cmd("crc")[1] = "crc"
    BY LineBytes DEF Tags, Cmd
  <2>3. /\ proto1 => OfProto1(Cmd("crc")) = <<Cmd("crc")>>
        /\ ~proto1 => OfProto1(Cmd("crc")) = <<>>
    BY DEF OfProto1
  <2>4. /\ more \in Seq(LineByte)
        /\ Len(more) = IF proto1 THEN 2 ELSE 1
        /\ \A i \in 1 .. Len(more) : more[i] = Cmd("crc")
    <3>1. CASE proto1
      <4>1. more = <<Cmd("crc")>> \o <<Cmd("crc")>>
        BY <2>3, <3>1
      <4> HIDE DEF more
      <4>2. QED
        BY <2>2, <3>1, <4>1
    <3>2. CASE ~proto1
      <4>1. more = <<Cmd("crc")>> \o <<>>
        BY <2>3, <3>2
      <4> HIDE DEF more
      <4>2. QED
        BY <2>2, <3>2, <4>1
    <3>3. QED
      BY <3>1, <3>2
  <2>5. tx' = tx \o more
    <3>1. OfProto1(Cmd("crc")) \in Seq(LineByte)
      BY <2>2, LineBytes
    <3>2. <<Cmd("crc")>> \in Seq(LineByte)
      BY <2>2
    <3>3. tx' = (tx \o <<Cmd("crc")>>) \o OfProto1(Cmd("crc"))
      BY <1>8 DEF SendChecksum
    <3>4. QED
      BY <1>3, <3>1, <3>2, <3>3, ConcatAssociative
  <2> HIDE DEF more
  <2>6. /\ Len(Wire') = Len(Wire) + Len(more)
        /\ \A i \in 1 .. Len(Wire) : Wire'[i] = Wire[i]
    BY <1>1, <2>4, <2>5, WireSends
  <2>7. PageBytes \in Nat /\ PageBytes >= 1 /\ offset = PageBytes
    BY <2>1, Numbers
  <2>8. /\ Len(Wire) <= HeaderBytes + PageBytes
        /\ Len(Wire) = HeaderBytes + PageBytes =>
              NumberIn(Wire) = Slot(fileRead) /\ PageIn(Wire) = fileRead
    BY <1>1, <1>2, <2>7 DEF SentSoFar
  <2>9. /\ Len(Wire') <= PageCommand
        /\ Len(Wire') = PageCommand => Len(Wire) = HeaderBytes + PageBytes
    <3>1. PICK m \in Nat : m = Len(more) /\ m <= 1 + speaks
      BY <1>3, <2>4 DEF Known
    <3>2. Len(Wire') = Len(Wire) + m
      BY <2>6, <3>1
    <3>3. QED
      BY <1>3, <1>4, <1>0, <2>7, <2>8, <3>1, <3>2
  <2>10. Len(Wire') = PageCommand => NumberIn(Wire)' = Slot(fileRead) /\ PageIn(Wire)' = fileRead
    <3> SUFFICES ASSUME Len(Wire') = PageCommand
                 PROVE  NumberIn(Wire)' = Slot(fileRead) /\ PageIn(Wire)' = fileRead
      OBVIOUS
    <3>1. Len(Wire) = HeaderBytes + PageBytes
      BY <2>9
    <3>2. NumberIn(Wire)' = NumberIn(Wire)
      <4>1. Len(Wire) >= HeaderBytes
        BY <1>3, <1>0, <3>1
      <4>2. QED
        BY <1>3, <1>4, <1>0, <2>6, <4>1, HeaderKept
    <3>3. HeaderBytes + 1 \in 1 .. Len(Wire)
      BY <1>3, <1>0, <3>1
    <3>4. PageIn(Wire)' = PageIn(Wire)
      BY <1>0, <2>6, <3>3 DEF PageIn
    <3>5. QED
      BY <2>8, <3>1, <3>2, <3>4
  <2>11. Answered'
    BY <1>1, <1>0, <2>1, <2>10 DEF Answered
  <2>12. WholeCommand'
    <3>1. Len(Wire') = PageCommand => NumberIn(Wire)' = Slot(PageIn(Wire))'
      BY <1>1, <1>0, <2>10 DEF Slot
    <3>2. QED
      BY <1>0, <2>9, <3>1 DEF WholeCommand
  <2>13. SentSoFar'
    BY <2>1 DEF SentSoFar
  <2>14. QED
    BY <1>5, <2>2, <2>4, <2>5, <2>11, <2>12, <2>13
<1>9. CASE NoRoom
  <2>1. gstate' \in {"SEND_PAGE", "FAILURE"} /\ UNCHANGED <<tx, rx, offset>>
    BY <1>1, <1>9 DEF NoRoom, SameState
  <2>2. CASE gstate' = "FAILURE"
    BY <1>1, <2>1, <2>2, FailureKeeps
  <2>3. CASE gstate' = "SEND_PAGE"
    BY <1>1, <2>1, <2>3 DEF Gen3Inv, OneAtATime, Shaking, PageInBuffer, Paging, StoredBelow, Kept,
       SentSoFar, Answered, WholeCommand, AllStored, PagesInPlace, Wire, PageCommand, HeaderBytes,
       NumberIn, PageIn, Slot, PageNumbers
  <2>4. QED
    BY <2>1, <2>2, <2>3
<1>10. QED
  BY <1>6, <1>7, <1>8, <1>9 DEF SendPage

\* The answer to a page (xbee_bl_gen3.c:400-446): the next page, the same again, the
\* end of the image or a failure.
LEMMA PageAnswerStep ==
    ASSUME Gen3TypeOK, Gen3TypeOK', Gen3Inv, PageAnswer
    PROVE  Gen3Inv'
<1> USE DEF line
<1>1. gstate = "LOAD_PAGE" /\ TakeAnswer /\ UNCHANGED <<queryOnly, proto1, speaks, command, flash>>
  BY DEF PageAnswer
<1>2. /\ fileRead >= 1 /\ Image[fileRead] = "data" /\ pageNum = Wrapped(fileRead - 1)
      /\ (eof => fileRead = Len(Image)) /\ StoredBelow(fileRead)
      /\ \A i \in 1 .. Len(tx) : tx[i][1] \in {"U", "page", "high", "byte", "crc"}
      /\ Answered /\ PagesInPlace /\ WholeCommand
  BY <1>1 DEF Gen3Inv, PageInBuffer, Paging
<1>3. /\ pageNum \in Nat /\ fileRead \in 0 .. Len(Image) /\ eof \in BOOLEAN /\ rx \in Seq(Replies)
      /\ Len(Image) \in Nat /\ fileRead \in Nat
  BY ImageAssumption DEF Gen3TypeOK
<1>4. \A i \in 1 .. Len(rx') : \E j \in 1 .. Len(rx) : rx'[i] = rx[j]
  <2>1. CASE rx = <<>>
    BY <1>1, <2>1 DEF TakeAnswer
  <2>2. CASE rx # <<>>
    <3>1. rx' = Tail(rx) /\ Len(Tail(rx)) = Len(rx) - 1 /\ Len(rx) \in Nat
      BY <1>1, <1>3, <2>2 DEF TakeAnswer
    <3>2. \A i \in 1 .. Len(rx') : i + 1 \in 1 .. Len(rx) /\ rx'[i] = rx[i + 1]
      BY <1>3, <2>2, <3>1, HeadTailProperties
    <3>3. QED
      BY <3>2
  <2>3. QED
    BY <2>1, <2>2
<1>5. CASE gstate' = "FAILURE"
  <2>1. tx' = tx
    BY <1>1, <1>5, Order DEF PageAnswer, NextPage, LastPage, ReadFails, NextState, page
  <2>2. QED
    BY <1>1, <1>5, <2>1, FailureKeeps
\* An answer that is not noise came when all of the page had arrived.
<1>6. ASSUME Answer \in {"U", "crcErr"}
      PROVE  /\ Wire = <<>> /\ command = <<>> /\ tx = <<>>
             /\ Answer = "U" => <<Slot(fileRead), fileRead>> \in flash
  <2>1. rx # <<>> /\ Answer = rx[1] /\ 1 \in 1 .. Len(rx)
    BY <1>3, <1>6 DEF Answer
  <2>2. Wire = <<>> /\ (Answer = "U" => <<Slot(fileRead), fileRead>> \in flash)
    BY <1>1, <1>2, <1>6, <2>1 DEF Answered
  <2>3. QED
    BY <2>2, WireType
\* What is left to show when the page in the buffer is to be sent from its start.
<1>7. ASSUME Wire = <<>>, command = <<>>, tx = <<>>, UNCHANGED tx, offset' = -1,
             gstate' = "SEND_PAGE",
             fileRead' >= 1, Image[fileRead'] = "data", pageNum' = Wrapped(fileRead' - 1),
             eof' => fileRead' = Len(Image), StoredBelow(fileRead)'
      PROVE  Gen3Inv'
  <2>1. Wire' = <<>> /\ tx' = <<>>
    BY <1>1, <1>7 DEF Wire
  <2>2. PageInBuffer'
    BY <1>7, <2>1 DEF PageInBuffer
  <2>3. SentSoFar' /\ WholeCommand'
    BY <1>1, <1>7, <2>1, ShortIsNoPage DEF SentSoFar
  <2>4. QED
    BY <1>1, <1>2, <1>7, <2>2, <2>3 DEF Gen3Inv, OneAtATime, Shaking, Answered, AllStored,
       PagesInPlace, Slot, PageNumbers
<1>8. ASSUME Answer = "U", <<Slot(fileRead), fileRead>> \in flash,
             NEW n \in Nat, n > fileRead, \A m \in fileRead + 1 .. n - 1 : Image[m] = "blank"
      PROVE  StoredBelow(n)
  <2> SUFFICES ASSUME NEW m \in 1 .. n - 1, Image[m] = "data", Kept(m)
               PROVE  <<Slot(m), m>> \in flash
    BY DEF StoredBelow
  <2>1. CASE m < fileRead
    BY <1>2, <1>3, <2>1 DEF StoredBelow
  <2>2. CASE m = fileRead
    BY <1>2, <1>3, <1>8, <2>2
  <2>3. CASE m > fileRead
    BY <1>3, <1>8, <2>3
  <2>4. QED
    BY <1>3, <2>1, <2>2, <2>3
<1>9. CASE Answer = "U" /\ NextPage /\ gstate' # "FAILURE"
  <2>1. gstate' = "SEND_PAGE" /\ offset' = -1 /\ UNCHANGED tx
    BY <1>9 DEF NextPage, SendLoaded
  <2>2. NextData \in fileRead + 1 .. Len(Image) + 1 /\ NextData <= Len(Image)
    BY <1>3, <1>9, NextDataFound DEF NextPage
  <2>3. ~(NextData > Len(Image))
    BY <1>3, <2>2
  <2>4. fileRead' = NextData /\ pageNum' = Wrapped(pageNum + 1 + (NextData - (fileRead + 1)))
    BY <1>9, <2>3 DEF NextPage, LoadPage, Numbered
  <2>5. fileRead' >= 1 /\ Image[fileRead'] = "data" /\ pageNum' = Wrapped(fileRead' - 1)
    <3>1. PICK n \in Nat : n = NextData /\ n > fileRead
      BY <1>3, <2>2
    <3>2. Image[n] = "data"
      BY <1>3, <2>2, <3>1, NextDataFound
    <3>3. PICK a, d \in Nat : a = fileRead - 1 /\ d = n - fileRead
      BY <1>2, <1>3, <3>1
    <3>4. pageNum = Wrapped(a) /\ Wrapped(a) \in Nat
      BY <1>2, <3>3, NumberBytes
    <3>5. pageNum + 1 + (n - (fileRead + 1)) = Wrapped(a) + d /\ a + d = n - 1
      BY <1>3, <3>3, <3>4
    <3>6. Wrapped(Wrapped(a) + d) = Wrapped(a + d)
      BY <3>3, NumberBytes
    <3>7. pageNum' = Wrapped(n - 1)
      BY <2>4, <3>1, <3>5, <3>6
    <3>8. QED
      BY <1>3, <2>4, <3>1, <3>2, <3>7
  <2>6. eof' => fileRead' = Len(Image)
    <3>1. ~eof /\ eof' \in {eof, NextData = Len(Image)}
      BY <1>9, <2>3 DEF NextPage, LoadPage
    <3>2. eof' => NextData = Len(Image)
      BY <3>1, Zenon
    <3>3. QED
      BY <2>4, <3>2
  <2>7. StoredBelow(fileRead)'
    <3>1. StoredBelow(NextData)
      <4>1. NextData \in Nat /\ NextData > fileRead
        BY <1>3, <2>2
      <4>2. \A m \in fileRead + 1 .. NextData - 1 : Image[m] = "blank"
        BY <1>3, NextDataFound
      <4>3. QED
        BY <1>6, <1>8, <1>9, <4>1, <4>2
    <3>2. QED
      BY <1>1, <2>4, <3>1 DEF StoredBelow, Kept, Slot, PageNumbers
  <2>8. QED
    BY <1>6, <1>7, <1>9, <2>1, <2>5, <2>6, <2>7
<1>10. CASE Answer = "U" /\ LastPage /\ gstate' # "FAILURE"
  <2>1. gstate' = "VERIFY" /\ Putchar(Cmd("C"))
    BY <1>1, <1>10, Order DEF LastPage, NextState
  <2>2. tx' = <<Cmd("C")>> /\ command' = <<>>
    BY <1>1, <1>6, <1>10, <2>1, PutcharFirst
  <2>3. WholeCommand' /\ Len(Wire') <= 1
    <3>1. Wire' = <<Cmd("C")>>
      BY <2>2 DEF Wire
    <3>2. QED
      BY <1>1, <3>1, ShortIsNoPage
  <2>4. \A m \in fileRead + 1 .. Len(Image) : Image[m] = "blank"
    <3>1. CASE eof
      BY <1>2, <1>3, <3>1
    <3>2. CASE NextData > Len(Image)
      <4>1. NextData = Len(Image) + 1
        BY <1>3, <3>2, NextDataFound
      <4>2. QED
        BY <1>3, <4>1, NextDataFound
    <3>3. QED
      BY <1>10, <3>1, <3>2 DEF LastPage
  <2>5. StoredBelow(Len(Image) + 1)
    <3>1. Len(Image) + 1 \in Nat /\ Len(Image) + 1 > fileRead /\ (Len(Image) + 1) - 1 = Len(Image)
      BY <1>3
    <3>2. \A m \in fileRead + 1 .. (Len(Image) + 1) - 1 : Image[m] = "blank"
      BY <2>4, <3>1
    <3>3. QED
      BY <1>6, <1>8, <1>10, <3>1, <3>2
  <2>6. AllStored'
    BY <1>1, <2>3, <2>5 DEF AllStored, StoredBelow, Kept, Slot, PageNumbers
  <2>7. QED
    BY <1>1, <1>2, <2>1, <2>3, <2>6 DEF Gen3Inv, OneAtATime, Shaking, PageInBuffer, Paging, SentSoFar,
       Answered, PagesInPlace, Slot, PageNumbers
<1>11. CASE Answer = "crcErr" /\ SendLoaded(retries) /\ UNCHANGED <<eof, pageNum, fileRead, tx>>
            /\ gstate' # "FAILURE"
  <2>1. gstate' = "SEND_PAGE" /\ offset' = -1
    BY <1>11 DEF SendLoaded
  <2>2. StoredBelow(fileRead)'
    BY <1>1, <1>2, <1>11 DEF StoredBelow, Kept, Slot, PageNumbers
  <2>3. QED
    BY <1>2, <1>6, <1>7, <1>11, <2>1, <2>2
<1>12. CASE SameState /\ UNCHANGED <<page, tx>> /\ gstate' # "FAILURE"
  <2>1. gstate' = "LOAD_PAGE" /\ UNCHANGED <<page, tx, command, flash>> /\ Wire' = Wire
    BY <1>1, <1>12 DEF SameState, Wire
  <2>2. Answered'
    BY <1>1, <1>2, <1>4, <2>1 DEF Answered, PageCommand, HeaderBytes, NumberIn, PageIn, Slot,
       PageNumbers, page
  <2>3. QED
    BY <1>1, <1>2, <2>1, <2>2 DEF Gen3Inv, OneAtATime, Shaking, PageInBuffer, Paging, StoredBelow, Kept,
       SentSoFar, WholeCommand, AllStored, PagesInPlace, PageCommand, HeaderBytes, NumberIn, PageIn,
       Slot, PageNumbers, page
<1>13. QED
  BY <1>5, <1>9, <1>10, <1>11, <1>12 DEF PageAnswer, ReadFails, Failed, IsCrcErr

\* The verification, the clock, the edge of CTS: the line and the flash stay.
LEMMA QuietStep ==
    ASSUME Gen3TypeOK, Gen3TypeOK', Gen3Inv, Verify \/ Time \/ BreakSeen \/ UNCHANGED gvars
    PROVE  Gen3Inv'
<1> USE DEF line, page
<1>1. CASE Verify
  <2>1. /\ gstate = "VERIFY" /\ gstate' \in {"VERIFY", "SUCCESS", "FAILURE"}
        /\ UNCHANGED <<queryOnly, speaks, command, flash, tx>>
    BY <1>1 DEF Verify, SameState, Failed
  <2>2. Wire' = Wire
    BY <2>1 DEF Wire
  <2>3. QED
    BY <2>1, <2>2 DEF Gen3Inv, OneAtATime, Shaking, PageInBuffer, Paging, SentSoFar, Answered,
       WholeCommand, PageCommand, HeaderBytes, NumberIn, PageIn, Slot, PageNumbers, AllStored,
       StoredBelow, Kept, PagesInPlace
<1>2. CASE Time \/ BreakSeen \/ UNCHANGED gvars
  <2>1. UNCHANGED <<gstate, queryOnly, proto1, page, speaks, tx, rx, command, flash>>
    BY <1>2 DEF Time, BreakSeen, gvars
  <2>2. Wire' = Wire
    BY <2>1 DEF Wire
  <2>3. QED
    BY <2>1, <2>2 DEF Gen3Inv, OneAtATime, Shaking, PageInBuffer, Paging, SentSoFar, Answered,
       WholeCommand, PageCommand, HeaderBytes, NumberIn, PageIn, Slot, PageNumbers, AllStored,
       StoredBelow, Kept, PagesInPlace
<1>3. QED
  BY <1>1, <1>2

\* A byte lost on the way to the bootloader, or one it ignores: what is left of the
\* command is shorter than it should be, and never makes a whole one.
LEMMA ShorterWire ==
    ASSUME Gen3TypeOK, Gen3TypeOK', Gen3Inv, tx # <<>>, tx' = Tail(tx),
           UNCHANGED <<gstate, queryOnly, proto1, page, speaks, rx, command, flash>>
    PROVE  Gen3Inv'
<1>0. /\ HeaderBytes \in Nat /\ PageCommand \in Nat
      /\ HeaderBytes' = HeaderBytes /\ PageCommand' = PageCommand /\ PageNumbers' = PageNumbers
  BY Lengths DEF Gen3TypeOK, HeaderBytes, PageCommand, PageNumbers
<1>1. Len(Wire') = Len(Wire) - 1 /\ Len(Wire) \in Nat
  BY WireDrops, WireType
<1>2. tx \in Seq(LineByte) /\ PageBytes \in Nat
  BY LineAssumption DEF Gen3TypeOK
<1>3. /\ Len(tx') = Len(tx) - 1
      /\ \A i \in 1 .. Len(tx') : i + 1 \in 1 .. Len(tx) /\ tx'[i] = tx[i + 1]
  BY <1>2, HeadTailProperties
<1>4. Wire # <<>>
  BY WireType
<1>5. OneAtATime'
  <2>1. Shaking => Len(tx) = 1 /\ Len(tx') = 0
    BY <1>3 DEF Gen3Inv, OneAtATime, Shaking
  <2>2. Shaking => tx' = <<>>
    BY <1>2, <2>1, EmptySeq DEF Gen3TypeOK
  <2>3. QED
    BY <2>2 DEF Gen3Inv, OneAtATime, Shaking, page
<1>6. PageInBuffer'
  BY <1>3 DEF Gen3Inv, PageInBuffer, Paging, StoredBelow, Kept, Slot, PageNumbers, page
<1>7. SentSoFar'
  <2>1. CASE gstate = "SEND_PAGE"
    <3>1. offset \in Int /\ ~(offset < 0)
      BY <1>4, <2>1, Numbers DEF Gen3Inv, SentSoFar
    <3>2. Len(Wire) <= HeaderBytes + offset
      BY <2>1, <3>1 DEF Gen3Inv, SentSoFar
    <3>3. Len(Wire') < HeaderBytes + offset
      BY <1>0, <1>1, <3>1, <3>2
    <3>4. QED
      BY <1>0, <1>1, <3>1, <3>3 DEF SentSoFar, page
  <2>2. CASE gstate # "SEND_PAGE"
    BY <2>2 DEF SentSoFar
  <2>3. QED
    BY <2>1, <2>2
<1>8. WholeCommand' /\ Len(Wire') # PageCommand
  BY <1>0, <1>1, <1>2 DEF Gen3Inv, WholeCommand
<1>9. Answered'
  BY <1>0, <1>4, <1>8 DEF Gen3Inv, Answered
<1>10. AllStored'
  <2>1. Len(Wire) <= 1 => Len(Wire') <= 1
    BY <1>1
  <2>2. QED
    BY <2>1 DEF Gen3Inv, AllStored, StoredBelow, Kept, Slot, PageNumbers
<1>11. PagesInPlace'
  BY DEF Gen3Inv, PagesInPlace, Slot, PageNumbers
<1>12. QED
  BY <1>5, <1>6, <1>7, <1>8, <1>9, <1>10, <1>11 DEF Gen3Inv

\* Bytes lost on the line, and stray ones.
LEMMA LineStep ==
    ASSUME Gen3TypeOK, Gen3TypeOK', Gen3Inv, Lose \/ Noise
    PROVE  Gen3Inv'
<1> USE DEF line, page
<1>1. CASE Lose /\ tx # <<>> /\ tx' = Tail(tx) /\ rx' = rx
  BY <1>1, ShorterWire DEF Lose
<1>2. ASSUME UNCHANGED <<gstate, queryOnly, proto1, page, speaks, tx, command, flash>>,
             \A i \in 1 .. Len(rx') : rx'[i] = "noise" \/ \E j \in 1 .. Len(rx) : rx'[i] = rx[j],
             OneAtATime'
      PROVE  Gen3Inv'
  <2>1. Wire' = Wire
    BY <1>2 DEF Wire
  <2>2. Answered'
    BY <1>2, <2>1 DEF Gen3Inv, Answered, PageCommand, HeaderBytes, NumberIn, PageIn, Slot, PageNumbers
  <2>3. QED
    BY <1>2, <2>1, <2>2 DEF Gen3Inv, PageInBuffer, Paging, SentSoFar, WholeCommand, PageCommand,
       HeaderBytes, NumberIn, PageIn, Slot, PageNumbers, AllStored, StoredBelow, Kept, PagesInPlace
<1>3. rx \in Seq(Replies)
  BY DEF Gen3TypeOK
<1>4. CASE Lose /\ rx # <<>> /\ rx' = Tail(rx) /\ tx' = tx
  <2>1. \A i \in 1 .. Len(rx') : i + 1 \in 1 .. Len(rx) /\ rx'[i] = rx[i + 1]
    BY <1>3, <1>4, HeadTailProperties
  <2>2. (rx = <<"U">> => rx' = <<>>) /\ (rx = <<"1", "U">> => rx' = <<"U">>)
    <3>1. rx' = Tail(rx)
      BY <1>4
    <3>2. rx = <<"U">> => Tail(rx) = <<>>
      OBVIOUS
    <3>3. rx = <<"1", "U">> => Tail(rx) = <<"U">>
      OBVIOUS
    <3>4. QED
      BY <3>1, <3>2, <3>3
  <2>3. OneAtATime'
    <3>1. Shaking => /\ command = <<>> /\ pageNum = 0 /\ fileRead = 0 /\ eof = FALSE /\ tx = <<>>
                     /\ rx' \in {<<>>, <<"U">>}
      BY <1>4, <2>2 DEF Gen3Inv, OneAtATime
    <3>2. UNCHANGED <<gstate, command, page, tx>>
      BY <1>4 DEF Lose
    <3>3. <<"U">> # <<"1", "U">> /\ <<>> # <<"1", "U">>
      OBVIOUS
    <3>4. QED
      BY <3>1, <3>2, <3>3 DEF OneAtATime, Shaking
  <2>4. QED
    BY <1>2, <1>4, <2>1, <2>3 DEF Lose
<1>5. CASE Noise
  <2>1. \A i \in 1 .. Len(rx') : rx'[i] = "noise" \/ (i \in 1 .. Len(rx) /\ rx'[i] = rx[i])
    BY <1>3, <1>5 DEF Noise
  <2>2. OneAtATime'
    BY <1>5 DEF OneAtATime, Shaking, Noise
  <2>3. QED
    BY <1>2, <1>5, <2>1, <2>2 DEF Noise
<1>6. QED
  BY <1>1, <1>4, <1>5 DEF Lose, Loses

\* The bootloader takes a byte: one that completes a page finds the line empty, so
\* what it stores and answers is about the page in the buffer.
LEMMA BootloaderStep ==
    ASSUME Gen3TypeOK, Gen3TypeOK', Gen3Inv, Bootloader
    PROVE  Gen3Inv'
<1> DEFINE bytes == Append(command, Head(tx))
<1>1. /\ tx # <<>> /\ tx' = Tail(tx)
      /\ UNCHANGED <<gstate, queryOnly, proto1, page, speaks>>
      /\ ShortCommand(bytes) \/ KeepByte(bytes) \/ WholePage(bytes) \/ IgnoreByte(bytes)
  BY DEF Bootloader
<1>2. command \in Seq(LineByte) /\ tx \in Seq(LineByte) /\ rx \in Seq(Replies) /\ Head(tx) = tx[1]
  BY <1>1 DEF Gen3TypeOK
<1>3. /\ Len(bytes) = Len(command) + 1 /\ Len(command) \in Nat /\ Len(tx) \in Nat /\ Len(tx) >= 1
      /\ Len(tx') = Len(tx) - 1
      /\ \A i \in 1 .. Len(tx') : i + 1 \in 1 .. Len(tx) /\ tx'[i] = tx[i + 1]
  BY <1>1, <1>2, HeadTailProperties
<1>4. Wire = bytes \o tx'
  <2>1. Append(command, Head(tx)) \o Tail(tx) = command \o tx
    BY <1>1, <1>2
  <2>2. QED
    BY <1>1, <2>1 DEF Wire
<1>5. Len(Wire) = Len(bytes) + Len(tx') /\ Len(Wire) \in Nat /\ Wire # <<>>
  BY <1>1, <1>3, WireType
<1>6. Len(bytes) = 1 => bytes = <<Head(tx)>> /\ command = <<>>
  <2>1. Len(bytes) = 1 => command = <<>>
    BY <1>2, <1>3, EmptySeq
  <2>2. command = <<>> => bytes = <<Head(tx)>>
    BY <1>2
  <2>3. QED
    BY <2>1, <2>2
\* In the handshake the byte is the whole command.
<1>7. Shaking => /\ Len(tx) = 1 /\ rx = <<>> /\ command = <<>> /\ tx' = <<>>
                 /\ \E c \in {"B", "L", "R", "V", "I"} : Head(tx) = Cmd(c)
                 /\ Head(tx) = Cmd("L") => gstate = "BL_PROTOCOL"
  <2>1. Shaking => /\ Len(tx) = 1 /\ rx = <<>> /\ command = <<>>
                   /\ \E c \in {"B", "L", "R", "V", "I"} : tx[1] = Cmd(c)
                   /\ tx[1] = Cmd("L") => gstate = "BL_PROTOCOL"
    BY <1>1 DEF Gen3Inv, OneAtATime
  <2>2. Len(tx') = 0 => tx' = <<>>
    BY EmptySeq DEF Gen3TypeOK
  <2>3. QED
    BY <1>2, <1>3, <2>1, <2>2
<1>8. \A c \in {"B", "L", "R", "V", "I", "C"} : Cmd(c) # Cmd("U") /\ Cmd(c)[1] = c
  BY DEF Cmd
<1>9. PageInBuffer /\ Paging =>
         \A i \in 1 .. Len(tx') : tx'[i][1] \in {"U", "page", "high", "byte", "crc"}
  BY <1>3 DEF PageInBuffer
<1>10. CASE IgnoreByte(bytes)
  BY <1>1, <1>10, ShorterWire DEF IgnoreByte
<1>11. CASE KeepByte(bytes)
  <2>1. ~Shaking
    <3>1. Shaking => Head(bytes) = Head(tx)
      BY <1>3, <1>6, <1>7
    <3>2. QED
      BY <1>7, <1>8, <1>11, <3>1 DEF KeepByte
  <2>2. Wire' = Wire /\ UNCHANGED <<rx, flash>>
    BY <1>1, <1>11, WireMoves DEF KeepByte
  <2>3. QED
    BY <1>1, <1>9, <2>1, <2>2 DEF Gen3Inv, OneAtATime, Shaking, PageInBuffer, Paging, SentSoFar,
       Answered, WholeCommand, PageCommand, HeaderBytes, NumberIn, PageIn, Slot, PageNumbers,
       AllStored, StoredBelow, Kept, PagesInPlace, page
<1>12. CASE ShortCommand(bytes)
  <2>1. PICK answers \in ShortAnswers(bytes) : Respond(answers) /\ UNCHANGED <<command, flash>>
    BY <1>12 DEF ShortCommand
  <2>2. \E c \in {"B", "L", "R", "V", "I", "C"} : bytes = <<Cmd(c)>>
    BY <2>1 DEF ShortAnswers
  <2>3. command = <<>> /\ \E c \in {"B", "L", "R", "V", "I", "C"} : Head(tx) = Cmd(c)
    BY <1>6, <2>2
  <2>4. ~Paging
    <3>1. Paging => tx[1][1] \in {"U", "page", "high", "byte", "crc"}
      BY <1>3 DEF Gen3Inv, PageInBuffer
    <3>2. QED
      BY <1>2, <1>8, <2>3, <3>1
  <2>5. WholeCommand' /\ AllStored'
    <3>1. Len(Wire') = Len(Wire) - 1
      BY <1>1, <2>1, WireDrops
    <3>2. PageCommand \in Nat /\ PageCommand' = PageCommand
      BY <1>1, Lengths DEF Gen3TypeOK, PageCommand, HeaderBytes
    <3>3. WholeCommand'
      BY <1>5, <3>1, <3>2 DEF Gen3Inv, WholeCommand
    <3>4. Len(Wire) <= 1 => Len(Wire') <= 1
      BY <1>5, <3>1
    <3>5. QED
      BY <1>1, <2>1, <3>3, <3>4 DEF Gen3Inv, AllStored, StoredBelow, Kept, Slot, PageNumbers
  <2>6. OneAtATime'
    <3>1. CASE Shaking
      <4>1. answers = <<"U">> \/ (answers = <<"1", "U">> /\ Head(tx) = Cmd("L"))
        <5>1. \E c \in {"B", "L", "R", "V", "I"} : bytes = <<Cmd(c)>> /\ Head(tx) = Cmd(c)
          BY <1>3, <1>6, <1>7, <3>1
        <5>2. Cmd("C") # Cmd("L") /\ \A c \in {"B", "V", "I", "R"} : Cmd(c) # Cmd("C")
          BY DEF Cmd
        <5>3. bytes # <<Cmd("C")>>
          BY <5>1, <5>2
        <5>4. QED
          BY <2>1, <5>1, <5>3 DEF ShortAnswers
      <4>2. rx' = <<>> \/ rx' = answers
        BY <1>2, <1>7, <2>1, <3>1, <4>1 DEF Respond
      <4>3. rx' \in {<<>>, <<"U">>, <<"1", "U">>} /\ (rx' = <<"1", "U">> => gstate = "BL_PROTOCOL")
        BY <1>7, <3>1, <4>1, <4>2
      <4>4. QED
        BY <1>1, <1>7, <2>1, <3>1, <4>3 DEF Gen3Inv, OneAtATime, Shaking, page
    <3>2. CASE ~Shaking
      BY <1>1, <3>2 DEF OneAtATime, Shaking
    <3>3. QED
      BY <3>1, <3>2
  <2>7. QED
    BY <1>1, <2>1, <2>4, <2>5, <2>6 DEF Gen3Inv, PageInBuffer, Paging, SentSoFar, Answered,
       PagesInPlace, Slot, PageNumbers
<1>13. CASE WholePage(bytes)
  <2>1. Len(bytes) = PageCommand /\ command' = <<>> /\ Head(bytes) = Cmd("U")
    BY <1>13 DEF WholePage
  <2>2. /\ PageCommand \in Nat /\ PageCommand >= 4 /\ PageCommand > HeaderBytes + PageBytes
        /\ HeaderBytes \in Nat /\ PageBytes \in Nat
        /\ PageCommand' = PageCommand /\ PageNumbers' = PageNumbers
    BY <1>1, Lengths DEF Gen3TypeOK, PageCommand, HeaderBytes, PageNumbers
  <2>3. Len(tx') = 0 /\ Len(Wire) = PageCommand
    BY <1>3, <1>5, <2>1, <2>2 DEF Gen3Inv, WholeCommand
  <2>4. tx' = <<>> /\ bytes = Wire
    <3>1. tx' = <<>>
      BY <2>3, EmptySeq DEF Gen3TypeOK
    <3>2. bytes \in Seq(LineByte)
      BY <1>1, <1>2
    <3>3. bytes = Wire
      BY <1>4, <3>1, <3>2, ConcatEmptySeq
    <3>4. QED
      BY <3>1, <3>3
  <2>5. Wire' = <<>>
    BY <2>1, <2>4 DEF Wire
  <2>6. ~Shaking /\ gstate # "SEND_PAGE"
    <3>1. Shaking => Len(bytes) = 1
      BY <1>3, <1>7
    <3>2. ASSUME gstate = "SEND_PAGE" PROVE FALSE
      <4>1. Len(Wire) <= HeaderBytes + PageBytes
        <5>1. offset \in Int /\ offset <= PageBytes
          BY Numbers
        <5>2. offset >= 0 /\ Len(Wire) <= HeaderBytes + offset
          BY <1>5, <3>2, <5>1 DEF Gen3Inv, SentSoFar
        <5>3. QED
          BY <1>5, <2>2, <5>1, <5>2
      <4>2. QED
        BY <2>2, <2>3, <4>1
    <3>3. QED
      BY <2>1, <2>2, <3>1, <3>2
  <2>7. \/ Respond(<<"U">>) /\ Store(NumberIn(Wire), PageIn(Wire))
        \/ Respond(<<"crcErr">>) /\ UNCHANGED flash
        \/ Respond(<<"verifyErr">>) /\ UNCHANGED flash
    BY <1>13, <2>4 DEF WholePage
  <2>8. PagesInPlace'
    <3>1. flash' \subseteq flash \cup {<<NumberIn(Wire), PageIn(Wire)>>}
      BY <2>7 DEF Store
    <3>2. NumberIn(Wire) = Slot(PageIn(Wire))
      BY <2>3 DEF Gen3Inv, WholeCommand
    <3>3. \A n : Slot(n)' = (n - 1) % PageNumbers /\ Slot(n) = (n - 1) % PageNumbers
      BY <2>2 DEF Slot
    <3>4. \A stored \in flash : stored[1] = Slot(stored[2])
      BY DEF Gen3Inv, PagesInPlace
    <3>5. \A stored \in flash' : stored[1] = (stored[2] - 1) % PageNumbers
      BY <3>1, <3>2, <3>4 DEF Slot
    <3>6. QED
      BY <2>2, <3>5 DEF PagesInPlace, Slot
  <2>9. WholeCommand'
    BY <1>1, <2>5, ShortIsNoPage
\* The page in the buffer is not blank, so it takes the place of none that is kept.
  <2>10. ASSUME gstate = "LOAD_PAGE" PROVE Answered' /\ PageInBuffer'
    <3>1. NumberIn(Wire) = Slot(fileRead) /\ PageIn(Wire) = fileRead /\ Answered
      BY <2>3, <2>10 DEF Gen3Inv, Answered
    <3>2. \/ Respond(<<"U">>) /\ Store(Slot(fileRead), fileRead)
          \/ Respond(<<"crcErr">>) /\ UNCHANGED flash
          \/ Respond(<<"verifyErr">>) /\ UNCHANGED flash
      BY <2>7, <3>1
    <3>3. \A reply : Respond(<<reply>>) =>
             \A i \in 1 .. Len(rx') : rx'[i] = reply \/ (i \in 1 .. Len(rx) /\ rx'[i] = rx[i])
      <4> SUFFICES ASSUME NEW reply, Respond(<<reply>>), NEW i \in 1 .. Len(rx')
                   PROVE  rx'[i] = reply \/ (i \in 1 .. Len(rx) /\ rx'[i] = rx[i])
        OBVIOUS
      <4>1. rx' = rx \/ rx' = rx \o <<reply>>
        BY DEF Respond
      <4>2. rx \in Seq(Replies \cup {reply}) /\ <<reply>> \in Seq(Replies \cup {reply})
        BY <1>2
      <4>3. QED
        BY <4>1, <4>2
    <3>4. \A i \in 1 .. Len(rx') : rx'[i] \in {"U", "crcErr", "verifyErr", "noise"}
      BY <2>10, <3>1, <3>2, <3>3 DEF Answered
    <3>5. /\ Slot(fileRead)' = Slot(fileRead) /\ fileRead' = fileRead
      BY <1>1, <2>2 DEF Slot, page
    <3>6. ASSUME NEW i \in 1 .. Len(rx'), rx'[i] = "U" PROVE <<Slot(fileRead), fileRead>> \in flash'
      <4>1. CASE Respond(<<"U">>) /\ Store(Slot(fileRead), fileRead)
        BY <4>1 DEF Store
      <4>2. CASE (Respond(<<"crcErr">>) \/ Respond(<<"verifyErr">>)) /\ UNCHANGED flash
        <5>1. i \in 1 .. Len(rx) /\ rx'[i] = rx[i]
          BY <3>3, <3>6, <4>2
        <5>2. QED
          BY <2>10, <3>1, <3>6, <4>2, <5>1 DEF Answered
      <4>3. QED
        BY <3>2, <4>1, <4>2
    <3>7. Answered'
      BY <1>1, <2>2, <2>5, <3>4, <3>5, <3>6 DEF Answered
    <3>8. /\ fileRead >= 1 /\ Image[fileRead] = "data" /\ pageNum = Wrapped(fileRead - 1)
          /\ (eof => fileRead = Len(Image)) /\ StoredBelow(fileRead)
      BY <2>10 DEF Gen3Inv, PageInBuffer, Paging
    <3>9. ASSUME NEW m \in 1 .. fileRead - 1, Image[m] = "data", Kept(m)
          PROVE  <<Slot(m), m>> \in flash'
      <4>1. <<Slot(m), m>> \in flash
        BY <3>8, <3>9 DEF StoredBelow
      <4>2. fileRead \in m + 1 .. Len(Image)
        BY <3>8, <3>9, ImageAssumption DEF Gen3TypeOK
      <4>3. Slot(m) # Slot(fileRead)
        BY <3>8, <3>9, <4>2 DEF Kept
      <4>4. QED
        BY <3>2, <4>1, <4>3 DEF Store
    <3>10. StoredBelow(fileRead)'
      <4> SUFFICES ASSUME NEW m \in 1 .. fileRead' - 1, Image[m] = "data", Kept(m)'
                   PROVE  <<Slot(m)', m>> \in flash'
        BY DEF StoredBelow
      <4>1. Kept(m) /\ Slot(m)' = Slot(m)
        BY <2>2 DEF Kept, Slot
      <4>2. QED
        BY <3>5, <3>9, <4>1
    <3>11. PageInBuffer'
      BY <1>1, <2>4, <3>8, <3>10 DEF PageInBuffer, page
    <3>12. QED
      BY <3>7, <3>11
  <2>11. ~(gstate \in {"VERIFY", "SUCCESS"})
    BY <2>2, <2>3 DEF Gen3Inv, AllStored
  <2>12. gstate # "LOAD_PAGE" => PageInBuffer' /\ Answered'
    BY <1>1, <2>6 DEF PageInBuffer, Paging, Answered
  <2>13. QED
    BY <1>1, <2>6, <2>8, <2>9, <2>10, <2>11, <2>12 DEF Gen3Inv, OneAtATime, Shaking, SentSoFar, AllStored
<1>14. QED
  BY <1>1, <1>10, <1>11, <1>12, <1>13

-----------------------------------------------------------------------------
LEMMA InitInv == Gen3Init => Gen3TypeOK /\ Known /\ Gen3Inv
<1> SUFFICES ASSUME Gen3Init PROVE Gen3TypeOK /\ Known /\ Gen3Inv
  OBVIOUS
<1>1. Len(Image) \in Nat /\ PageBytes \in Nat /\ TxRoom \in Nat
  BY ImageAssumption, LineAssumption
<1>2. "INIT" \in {Stages[i] : i \in 1 .. Len(Stages)}
  BY DEF Stages
<1>3. Gen3TypeOK
  <2>1. <<>> \in Seq(LineByte) /\ <<>> \in Seq(Replies) /\ Len(<<>>) = 0
    BY EmptySeq
  <2>2. gstate \in {Stages[i] : i \in 1 .. Len(Stages)} /\ elapsed \in 0 .. 3
    BY <1>2 DEF Gen3Init
  <2>3. /\ tx \in Seq(LineByte) /\ Len(tx) <= TxRoom /\ rx \in Seq(Replies)
        /\ command \in Seq(LineByte)
    BY <1>1, <2>1 DEF Gen3Init
  <2>4. /\ retries \in Nat /\ pageNum \in Nat /\ offset \in -1 .. PageBytes
        /\ fileRead \in 0 .. Len(Image) /\ flash \subseteq Nat \X Nat
    BY <1>1 DEF Gen3Init
  <2>5. QED
    BY <2>2, <2>3, <2>4 DEF Gen3Init, Gen3TypeOK
<1>4. Wire = <<>>
  BY DEF Gen3Init, Wire
<1>5. WholeCommand
  BY <1>3, <1>4, Lengths DEF WholeCommand, Gen3TypeOK
<1>6. Gen3Inv
  BY <1>1, <1>5 DEF Gen3Init, Gen3Inv, OneAtATime, Shaking, PageInBuffer, Paging, SentSoFar, Answered,
     AllStored, PagesInPlace
<1>7. Known
  BY DEF Gen3Init, Known
<1>8. QED
  BY <1>3, <1>6, <1>7

LEMMA NextInv ==
    Gen3TypeOK /\ Known /\ Gen3Inv /\ [Gen3Next]_gvars => Gen3TypeOK' /\ Known' /\ Gen3Inv'
BY TypeStep, KnownStep, HandshakeStep, EraseStep, StartTransferStep, SendPageStep, PageAnswerStep, QuietStep,
   LineStep, BootloaderStep DEF Gen3Next, Tick

LEMMA InvHolds == Gen3Spec => [](Gen3TypeOK /\ Known /\ Gen3Inv)
BY InitInv, NextInv, PTL DEF Gen3Spec

\* Each page the bootloader stores is stored under its own number, as much of it as
\* the protocol carries, whatever is skipped, lost or sent again
\* (xbee_bl_gen3.c:129-170, 181-191).
THEOREM StoredInPlace == Gen3Spec => []PagesInPlace
<1>1. Gen3Inv => PagesInPlace
  BY DEF Gen3Inv
<1>2. QED
  BY <1>1, InvHolds, PTL

\* An install that reports success has every page that is not blank in flash, but
\* for those whose number came again (xbee_bl_gen3.c:405-426, 448-466).
THEOREM InstalledWhole == Gen3Spec => []Installed
<1>1. Gen3TypeOK /\ Gen3Inv => Installed
  <2>1. Len(Image) \in Nat
    BY ImageAssumption
  <2>2. QED
    BY <2>1 DEF Gen3Inv, AllStored, StoredBelow, Installed
<1>2. QED
  BY <1>1, InvHolds, PTL

\* A successful install of an image no longer than the bootloader's protocol can
\* number, 256 pages or 65536: every page that is not blank is where it belongs.
Placed == gstate = "SUCCESS" /\ ~queryOnly /\ Len(Image) <= PageNumbers =>
             \A n \in 1 .. Len(Image) : Image[n] = "data" => <<n - 1, n>> \in flash

\* An image the protocol can number arrives whole, each page under its number in the
\* image: none is exempt then (xbee_bl_gen3.c:63-80, 181-191).
THEOREM NumberedImageWhole == Gen3Spec => []Placed
<1>1. Gen3TypeOK /\ Installed => Placed
  <2> SUFFICES ASSUME Gen3TypeOK, Installed, gstate = "SUCCESS", ~queryOnly,
                      Len(Image) <= PageNumbers, NEW n \in 1 .. Len(Image), Image[n] = "data"
               PROVE  <<n - 1, n>> \in flash
    BY DEF Placed
  <2>1. PICK p \in Nat : p = PageNumbers
    BY NumberBytes DEF PageNumbers
  <2>2. Len(Image) \in Nat
    BY ImageAssumption
  <2>3. ASSUME NEW m \in 1 .. Len(Image) PROVE Slot(m) = m - 1
    <3>1. PICK a \in Nat : a = m - 1
      BY <2>2
    <3>2. a < p
      BY <2>1, <2>2, <3>1
    <3>3. a % p = a
      BY <3>2
    <3>4. QED
      BY <2>1, <3>1, <3>3 DEF Slot
  <2>4. Kept(n)
    <3> SUFFICES ASSUME NEW m \in n + 1 .. Len(Image) PROVE Slot(m) # Slot(n)
      BY DEF Kept
    <3>1. m \in 1 .. Len(Image) /\ m - 1 # n - 1
      BY <2>2
    <3>2. QED
      BY <2>3, <3>1
  <2>5. <<Slot(n), n>> \in flash
    BY <2>4 DEF Installed
  <2>6. QED
    BY <2>3, <2>5
<1>2. Gen3Spec => []Gen3TypeOK
  BY InvHolds, PTL
<1>3. QED
  BY <1>1, <1>2, InstalledWhole, PTL

\* A page goes out header first: the byte before the buffer is never sent
\* (xbee_bl_gen3.c:181-200).
THEOREM HeaderAlwaysFirst == Gen3Spec => HeaderFirst
<1>1. Gen3TypeOK /\ Gen3Inv /\ gstate = "SEND_PAGE" /\ offset < 0 => TxFree >= 3
  <2> SUFFICES ASSUME Gen3TypeOK, Gen3Inv, gstate = "SEND_PAGE", offset < 0 PROVE TxFree >= 3
    OBVIOUS
  <2>1. tx = <<>>
    BY WireType DEF Gen3Inv, SentSoFar
  <2>2. QED
    BY <2>1, Numbers
<1>2. Gen3TypeOK /\ Gen3Inv => (gstate = "SEND_PAGE" /\ offset < 0 /\ Len(tx') > Len(tx) => TxFree >= 3)
  BY <1>1
<1>3. QED
  BY <1>2, InvHolds, PTL DEF HeaderFirst
=============================================================================
