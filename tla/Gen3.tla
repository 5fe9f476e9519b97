-------------------------------- MODULE Gen3 --------------------------------
(* Installing firmware through the bootloader of a third-generation module     *)
(* (xbee_bl_gen3.c): xbee_bl_gen3_install_tick, one whole call a step, against *)
(* a serial line whose transmit buffer is finite and a bootloader (external)   *)
(* that answers each command when the last of its bytes has arrived.  Of its   *)
(* two protocols, 1 numbers pages with two bytes and ends them with two more   *)
(* of CRC, 0 with one byte each; the host goes by what the bootloader answers. *)
EXTENDS Integers, Sequences

CONSTANTS Image,      \* the pages of the image: "data" or "blank" (all 0xFF)
          PageBytes,  \* bytes in a page (512 in the code)
          PageMod,    \* values of a byte of the page number (256 in the code)
          TxRoom,     \* bytes the transmit buffer holds
          MaxRx       \* bound: answers waiting to be read

\* The first page that is not blank is sent whatever it holds, so an image has one.
ASSUME ImageAssumption == /\ Image \in Seq({"data", "blank"})
                          /\ \E n \in 1 .. Len(Image) : Image[n] = "data"

ASSUME LineAssumption == /\ {PageBytes, PageMod, TxRoom, MaxRx} \subseteq Nat
                         /\ PageBytes >= 1
                         /\ PageMod >= 2
                         /\ TxRoom >= 3

VARIABLES gstate,     \* source->state
          elapsed,    \* source->timer: 0, over 100 ms (1), 6 s (2), 10 s (3) ago
          queryOnly,  \* XBEE_GEN3_BL_FLAG_QUERY_ONLY
          proto1,     \* XBEE_GEN3_BL_FLAG_PROTO1
          eof,        \* XBEE_GEN3_BL_FLAG_EOF
          retries,    \* source->flags & XBEE_GEN3_BL_FLAG_RETRY_MASK
          pageNum,    \* source->page_num
          offset,     \* source->page_offset
          fileRead,   \* pages read from the image; source->buffer holds the last
          speaks,     \* the bootloader's protocol, 0 or 1
          cts,        \* CTS as the host reads it: low in the bootloader
          tx, rx,     \* the serial line: bytes to the module, answers from it
          command,    \* the bytes of a command the bootloader has so far
          flash       \* what the bootloader holds: each number with the page stored under it

gvars == <<gstate, elapsed, queryOnly, proto1, eof, retries, pageNum, offset, fileRead,
           speaks, cts, tx, rx, command, flash>>
line == <<speaks, cts, command, flash>>
page == <<eof, retries, pageNum, offset, fileRead>>

Stages == <<"INIT", "ENTER_BOOTLOADER", "GET_BL_VERSION", "BL_VERSION", "BL_PROTOCOL",
            "BAUD_RATE", "EXT_VERSION", "START_TRANSFER", "SEND_PAGE", "LOAD_PAGE", "VERIFY",
            "SUCCESS", "FAILURE">>

Running == gstate \notin {"SUCCESS", "FAILURE"}

\* No page in the buffer yet: it holds the baud rate the bootloader named.
Gen3Init == /\ gstate = "INIT"
            /\ elapsed = 0
            /\ queryOnly \in BOOLEAN
            /\ proto1 = FALSE
            /\ eof = FALSE
            /\ retries = 0
            /\ pageNum = 0
            /\ offset = 0
            /\ fileRead = 0
            /\ speaks \in 0 .. 1
            /\ cts = TRUE
            /\ tx = <<>>
            /\ rx = <<>>
            /\ command = <<>>
            /\ flash = {}

TxFree == TxRoom - Len(tx)
Answer == IF rx = <<>> THEN "none" ELSE Head(rx)

\* The state after this one, as enum xbee_gen3_state numbers them.
After(s) == Stages[1 + CHOOSE i \in 1 .. Len(Stages) : Stages[i] = s]

NextState == gstate' = After(gstate) /\ elapsed' = 0

\* A tick that ends in the same state fails once ten seconds have passed.
SameState == /\ gstate' = IF elapsed = 3 THEN "FAILURE" ELSE gstate
             /\ UNCHANGED elapsed

Failed == gstate' = "FAILURE" /\ UNCHANGED elapsed

TakeAnswer == rx' = IF rx = <<>> THEN rx ELSE Tail(rx)

\* A byte of the line: what it is and the page and place it stands for.
Cmd(c) == <<c, 0, 0>>

Putchar(c) == tx' = IF TxFree > 0 THEN Append(tx, c) ELSE tx

(* Into the bootloader.                                                        *)

StartBreak == /\ gstate = "INIT"
              /\ NextState
              /\ UNCHANGED <<queryOnly, proto1, page, line, tx, rx>>

EnterBootloader == /\ gstate = "ENTER_BOOTLOADER"
                   /\ IF elapsed >= 2 \/ ~cts THEN NextState ELSE SameState
                   /\ UNCHANGED <<queryOnly, proto1, page, line, tx, rx>>

AskVersion == /\ gstate = "GET_BL_VERSION"
              /\ elapsed >= 1
              /\ Putchar(Cmd("B"))
              /\ rx' = <<>>
              /\ NextState
              /\ UNCHANGED <<queryOnly, proto1, page, line>>

AskProtocol == /\ gstate = "BL_VERSION"
               /\ IF rx # <<>> THEN TakeAnswer /\ Putchar(Cmd("L")) /\ NextState
                               ELSE SameState /\ UNCHANGED <<tx, rx>>
               /\ UNCHANGED <<queryOnly, proto1, page, line>>

\* "R", or "X" in protocol 1 where the port allows 921600 baud: answered alike.
AskBaudRate == /\ gstate = "BL_PROTOCOL"
               /\ TakeAnswer
               /\ proto1' = (proto1 \/ Answer = "1")
               /\ IF Answer = "U" THEN Putchar(Cmd("R")) /\ offset' = 0 /\ NextState
                                  ELSE SameState /\ UNCHANGED <<tx, offset>>
               /\ UNCHANGED <<queryOnly, eof, retries, pageNum, fileRead, line>>

AskExtendedVersion == /\ gstate = "BAUD_RATE"
                      /\ TakeAnswer
                      /\ IF Answer = "U" THEN Putchar(Cmd("V")) /\ NextState
                                         ELSE SameState /\ UNCHANGED tx
                      /\ UNCHANGED <<queryOnly, proto1, page, line>>

AskErase == /\ gstate = "EXT_VERSION"
            /\ IF rx = <<>>
               THEN SameState /\ UNCHANGED <<tx, rx>>
               ELSE /\ TakeAnswer
                    /\ IF queryOnly
                       THEN Putchar(Cmd("C")) /\ gstate' = "SUCCESS" /\ UNCHANGED elapsed
                       ELSE Putchar(Cmd("I")) /\ NextState
            /\ UNCHANGED <<queryOnly, proto1, page, line>>

(* The pages.                                                                  *)

\* The page a read starting after the pages read so far ends at: the first that is
\* not blank, or one past the last.
NextData == CHOOSE n \in fileRead + 1 .. Len(Image) + 1 :
               /\ n <= Len(Image) => Image[n] = "data"
               /\ \A m \in fileRead + 1 .. n - 1 : Image[m] = "blank"

\* source->page_num is two bytes wide.
Wrapped(number) == number % (PageMod * PageMod)

\* Mutant: a blank page is skipped in the file and not in the numbering.
NumberedSent(first, found) == pageNum' = Wrapped(first)

\* _load_page numbers every page it reads past.
Numbered(first, found) == pageNum' = Wrapped(first + (found - (fileRead + 1)))

\* Mutant: a read may end short anywhere in the file.
LoadPageShort(first, found) ==
    /\ Numbered(first, found)
    /\ IF found > Len(Image)
       THEN fileRead' = Len(Image) /\ eof' = TRUE
       ELSE fileRead' = found /\ eof' \in {eof, TRUE}

\* The last page may end short, which the code notices at once; a whole one shows
\* the end of the file at the read after it.
LoadPage(first, found) ==
    /\ Numbered(first, found)
    /\ IF found > Len(Image)
       THEN fileRead' = Len(Image) /\ eof' = TRUE
       ELSE fileRead' = found /\ eof' \in {eof, found = Len(Image)}

StartTransfer ==
    /\ gstate = "START_TRANSFER"
    /\ TakeAnswer
    /\ IF Answer = "U"
       THEN \/ /\ LoadPage(pageNum, NextData)
               /\ offset' = -1
               /\ NextState
               /\ UNCHANGED retries
            \/ Failed /\ eof' = TRUE /\ UNCHANGED <<retries, pageNum, offset, fileRead>>
       ELSE SameState /\ UNCHANGED page
    /\ UNCHANGED <<queryOnly, proto1, line, tx>>

Bytes(from, to) == [i \in 1 .. to - from |-> <<"byte", fileRead, from + i - 1>>]

\* The second byte of page number and checksum, which protocol version 1 has.
OfProto1(byte) == IF proto1 THEN <<byte>> ELSE <<>>

\* A header when three bytes fit, with as much of the page's number as the protocol
\* carries, then as much of the page as fits, then the checksum when two bytes do.
\* With the header unsent and one or two bytes free the second branch is taken,
\* from the byte before the buffer on.
SendHeader == /\ offset < 0 /\ TxFree >= 3
              /\ tx' = (tx \o <<Cmd("U"), <<"page", pageNum % PageMod, 0>>>>)
                          \o OfProto1(<<"high", pageNum \div PageMod, 0>>)
              /\ offset' = 0
              /\ SameState
              /\ UNCHANGED rx

SendBytes == /\ offset >= 0 \/ TxFree \in 1 .. 2
             /\ offset < PageBytes /\ TxFree > 0
             /\ LET send == IF PageBytes - offset < TxFree THEN PageBytes - offset ELSE TxFree
                IN /\ tx' = tx \o Bytes(offset, offset + send)
                   /\ offset' = offset + send
             /\ SameState
             /\ UNCHANGED rx

SendChecksum == /\ offset = PageBytes /\ TxFree >= 2
                /\ tx' = (tx \o <<Cmd("crc")>>) \o OfProto1(Cmd("crc"))
                /\ rx' = <<>>
                /\ NextState
                /\ UNCHANGED offset

NoRoom == /\ TxFree = 0 \/ (offset = PageBytes /\ TxFree = 1)
          /\ SameState
          /\ UNCHANGED <<tx, rx, offset>>

SendPage == /\ gstate = "SEND_PAGE"
            /\ (SendHeader \/ SendBytes \/ SendChecksum \/ NoRoom)
            /\ UNCHANGED <<queryOnly, proto1, eof, retries, pageNum, fileRead, line>>

\* Mutant: pages sent again are not counted.
SendLoadedUncounted(count) ==
    /\ retries' = count
    /\ gstate' = "SEND_PAGE"
    /\ offset' = -1
    /\ elapsed' = 0

\* Send the page in the buffer, for the first time or again: counted alike.
SendLoaded(count) ==
    /\ retries' = count + 1
    /\ IF count + 1 > 3
       THEN gstate' = "FAILURE" /\ UNCHANGED <<offset, elapsed>>
       ELSE gstate' = "SEND_PAGE" /\ offset' = -1 /\ elapsed' = 0

\* Mutant: any other answer is taken for a checksum error.
IsCrcErrUnlessKnown(ch) == ch \notin {"none", "U", "verifyErr"}

IsCrcErr(ch) == ch = "crcErr"

\* What follows a page that was stored: the next one, the end of the image, or a
\* read that fails.
NextPage == /\ ~eof /\ NextData <= Len(Image)
            /\ LoadPage(pageNum + 1, NextData)
            /\ SendLoaded(0)
            /\ UNCHANGED tx

LastPage == /\ eof \/ NextData > Len(Image)
            /\ IF eof THEN pageNum' = Wrapped(pageNum + 1) /\ UNCHANGED <<fileRead, eof>>
                      ELSE LoadPage(pageNum + 1, NextData)
            /\ retries' = 0
            /\ Putchar(Cmd("C"))
            /\ NextState
            /\ UNCHANGED offset

ReadFails == /\ ~eof
             /\ Failed
             /\ eof' = TRUE
             /\ retries' = 0
             /\ pageNum' = Wrapped(pageNum + 1)
             /\ UNCHANGED <<offset, fileRead, tx>>

PageAnswer ==
    /\ gstate = "LOAD_PAGE"
    /\ TakeAnswer
    /\ \/ Answer = "U" /\ (NextPage \/ LastPage \/ ReadFails)
       \/ IsCrcErr(Answer) /\ SendLoaded(retries) /\ UNCHANGED <<eof, pageNum, fileRead, tx>>
       \/ Answer = "verifyErr" /\ Failed /\ UNCHANGED <<page, tx>>
       \/ Answer \notin {"U", "verifyErr"} /\ ~IsCrcErr(Answer) /\ SameState /\ UNCHANGED <<page, tx>>
    /\ UNCHANGED <<queryOnly, proto1, line>>

Verify == /\ gstate = "VERIFY"
          /\ TakeAnswer
          /\ \/ Answer = "failure" /\ Failed
             \/ Answer = "U" /\ gstate' = "SUCCESS" /\ UNCHANGED elapsed
             \/ Answer \notin {"failure", "U"} /\ SameState
          /\ UNCHANGED <<queryOnly, proto1, page, line, tx>>

Tick == \/ StartBreak \/ EnterBootloader
        \/ AskVersion \/ AskProtocol \/ AskBaudRate \/ AskExtendedVersion \/ AskErase
        \/ StartTransfer \/ SendPage \/ PageAnswer \/ Verify

Time == /\ Running
        /\ elapsed < 3
        /\ elapsed' = elapsed + 1
        /\ UNCHANGED <<gstate, queryOnly, proto1, page, line, tx, rx>>

(* The line and the bootloader.                                                *)

Loses == \/ /\ tx # <<>>
            /\ tx' = Tail(tx)
            /\ UNCHANGED rx
         \/ /\ rx # <<>>
            /\ rx' = Tail(rx)
            /\ UNCHANGED tx

Lose == Loses /\ UNCHANGED <<gstate, elapsed, queryOnly, proto1, page, line>>

\* A stray character; one during the handshake would count as a byte of the answers
\* of fixed length, which are whole here.
Noise == /\ gstate \in {"SEND_PAGE", "LOAD_PAGE", "VERIFY"}
         /\ Len(rx) < MaxRx
         /\ rx' = Append(rx, "noise")
         /\ UNCHANGED <<gstate, elapsed, queryOnly, proto1, page, line, tx>>

BreakSeen == /\ gstate \in {"ENTER_BOOTLOADER", "GET_BL_VERSION"}
             /\ cts
             /\ cts' = FALSE
             /\ UNCHANGED <<gstate, elapsed, queryOnly, proto1, page, speaks, tx, rx, command, flash>>

Respond(answers) == rx' = IF Len(rx) + Len(answers) <= MaxRx THEN rx \o answers ELSE rx

\* A page command: 'P' and the number, the data, the checksum.
HeaderBytes == 2 + speaks
PageCommand == HeaderBytes + PageBytes + 1 + speaks

\* The bytes of a page command, if that is what they are: its number, its page.
WellFormed(bytes) ==
    /\ \A i \in 1 .. PageBytes :
          bytes[HeaderBytes + i] = <<"byte", bytes[HeaderBytes + 1][2], i - 1>>
    /\ bytes[PageCommand] = Cmd("crc")

NumberIn(bytes) == bytes[2][2] + (IF speaks = 1 THEN PageMod * bytes[3][2] ELSE 0)
PageIn(bytes) == bytes[HeaderBytes + 1][2]

\* How a command that is not a page may be answered.
ShortAnswers(bytes) == IF bytes \in {<<Cmd(c)>> : c \in {"B", "V", "I", "R"}} THEN {<<"U">>}
                       ELSE IF bytes = <<Cmd("L")>>
                            THEN IF speaks = 1 THEN {<<"1", "U">>} ELSE {<<"U">>}
                       ELSE IF bytes = <<Cmd("C")>> THEN {<<"U">>, <<"failure">>}
                       ELSE {}

ShortCommand(bytes) == /\ \E answers \in ShortAnswers(bytes) : Respond(answers)
                       /\ UNCHANGED <<command, flash>>

KeepByte(bytes) == /\ Head(bytes) = Cmd("U") /\ Len(bytes) < PageCommand
                   /\ command' = bytes
                   /\ UNCHANGED <<rx, flash>>

\* What was stored under a number before is gone.
Store(number, n) == flash' = {stored \in flash : stored[1] # number} \cup {<<number, n>>}

\* A whole page is answered with success, a checksum error or a flash error.
WholePage(bytes) ==
    /\ Head(bytes) = Cmd("U") /\ Len(bytes) = PageCommand
    /\ command' = <<>>
    /\ \/ /\ WellFormed(bytes)
          /\ Respond(<<"U">>)
          /\ Store(NumberIn(bytes), PageIn(bytes))
       \/ Respond(<<"crcErr">>) /\ UNCHANGED flash
       \/ Respond(<<"verifyErr">>) /\ UNCHANGED flash

IgnoreByte(bytes) == /\ ShortAnswers(bytes) = {} /\ Head(bytes) # Cmd("U")
                     /\ UNCHANGED <<rx, command, flash>>

\* The bootloader takes one byte.
Bootloader ==
    /\ tx # <<>>
    /\ tx' = Tail(tx)
    /\ LET bytes == Append(command, Head(tx)) IN
         ShortCommand(bytes) \/ KeepByte(bytes) \/ WholePage(bytes) \/ IgnoreByte(bytes)
    /\ UNCHANGED <<gstate, elapsed, queryOnly, proto1, page, speaks, cts>>

Gen3Next == Tick \/ Time \/ Lose \/ Noise \/ BreakSeen \/ Bootloader

Gen3Spec == Gen3Init /\ [][Gen3Next]_gvars

\* The program keeps calling tick, and the millisecond timer runs.
Gen3Fairness == WF_gvars(Tick) /\ WF_gvars(Time)
-----------------------------------------------------------------------------
\* How many pages the bootloader's protocol can tell apart, the number that page n
\* of the image (the first is 0) goes under, and whether no later page does too.
PageNumbers == IF speaks = 1 THEN PageMod * PageMod ELSE PageMod
Slot(n) == (n - 1) % PageNumbers
Kept(n) == \A m \in n + 1 .. Len(Image) : Image[m] = "data" => Slot(m) # Slot(n)

\* Each stored page is under its own number: blank pages, retries and lost bytes
\* never shift one (xbee_bl_gen3.c:129-170, 181-191).
PagesInPlace == \A stored \in flash : stored[1] = Slot(stored[2])

\* An install that reports success has every page that is not blank in flash, as
\* far as the bootloader confirmed it (xbee_bl_gen3.c:405-426, 448-466), except one
\* whose number came again, in an image longer than its protocol can number.
Installed == gstate = "SUCCESS" /\ ~queryOnly =>
                \A n \in 1 .. Len(Image) :
                    Image[n] = "data" /\ Kept(n) => <<Slot(n), n>> \in flash

\* A page goes out from the start of its buffer, never from the byte before it:
\* its header always finds room (xbee_bl_gen3.c:181-200).
HeaderFirst == [][gstate = "SEND_PAGE" /\ offset < 0 /\ Len(tx') > Len(tx) => TxFree >= 3]_gvars

\* Every install ends, whatever the line and the bootloader do
\* (xbee_bl_gen3.c:427-434, 478-486).
InstallEnds == gstate # "INIT" ~> gstate \in {"SUCCESS", "FAILURE"}
=============================================================================
