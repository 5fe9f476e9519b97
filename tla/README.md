# A TLA+ model of the XBee driver and its bench programs

The repository holds small programs that make two XBee radios exchange
messages (`testBidirectional`, `testConfigureXbee`, `testUnidirectional*`) and,
under `libraries/xbee_ansic_library`, the C driver they stand on. The driver is
single threaded and re-entrant: the main loop calls tick functions, these call
handlers, and handlers call back into the driver. What can go wrong in it is
mostly of that kind, together with lost or late answers, short reads and
writes, tables that are full and timers that run out. This directory models
those parts in TLA+, checks them with TLC and proves part of them with TLAPS.

Paths below are relative to `libraries/xbee_ansic_library` unless they begin
with `test`.

## The system

| component | state | operations | what is hard | what makes it correct |
|---|---|---|---|---|
| `src/xbee/xbee_device.c`, receiving | `rx` (state, lengths, `frame_data[]`), `IN_TICK`, join flags | `xbee_dev_tick`, `_xbee_frame_load`, `_xbee_frame_dispatch`, `_xbee_dev_modem_status` | reads of any size, damage, handlers that call tick | handlers get exactly the intact frames, once and in order; the buffer is neither overrun nor changed under a handler |
| the same, sending | the port's transmit buffer, `/CTS` | `xbee_frame_write` | four unchecked writes per frame, a buffer that drains meanwhile | a frame is sent whole or refused |
| `src/xbee/xbee_atcmd.c` | two request slots, frame ID, query list context, query flags | create, set, send, release, response, tick, query, modem status | handles and slots reused, late answers, queries started inside callbacks, a full table | an answer reaches its own request; handles do not alias; the flags are true; the query ends |
| `ports/posix` | a file descriptor | read, write, room, `/CTS` | non-blocking, unknown room | the contract of `include/xbee/serial.h` |
| bench programs | count of messages, configuration list | loops around `xbee_dev_tick` | they wait on `-EBUSY` | the loops end |
| `src/xbee/xbee_socket.c` | table of sockets | create, connect, bind, send, close, seven handlers | asynchronous answers matched by small IDs, callbacks that close | a response changes the socket that asked |
| `src/wpan/wpan_aps.c`, with its users ZDO and ZCL | conversation tables, transaction IDs, the envelope in dispatch | register, response, expire, dispatch | 8-bit IDs, 16-bit deadlines, handlers that start new requests, one envelope shown to many endpoints | a response goes to its conversation, which ends once and in time; an error draws one report |
| `src/xbee/xbee_xmodem.c` | sender state, tries, timer, packet number | `xbee_xmodem_tx_tick` | lost or late ACKs, 16-bit timers | the receiver gets the file, or the sender gives up |
| `src/xbee/xbee_cbuf.c` | head, tail, data | put, get, putch, getch, flush | wrapping | it is a bounded queue |
| `src/xbee/pxbee_ota_client.c` | target, receive buffer, the sender | init, received data, the stream functions | joins XMODEM, the ring buffer and a network that loses frames | the target's image is the file |
| `src/xbee/xbee_bl_gen3.c` | dialogue state, page number, offset, retries | init, install tick | a transmit buffer smaller than a page, resent and blank pages, noise | each page is stored in its place, success means all are, it ends |
| `src/xbee/xbee_sxa.c` | node table, update queue, cache status | `sxa_tick`, launch, status | invalidation while a list runs | every pending group is updated |
| older boot loaders, OTA server, AT mode | protocol states | tick functions | timers | they end |
| ZDO, ZCL, discovery, I/O, cellular frames, `util`, `mbedtls`, samples | little or none | parsing and building of frames | data conversion | left to unit tests |

How they interact. `xbee_dev_tick` is called by the main loop; it reads the
serial port, assembles frames and calls the handlers of the table given to
`xbee_dev_init`. Two of these handlers are the AT layer's (responses and modem
status); the others belong to sockets, wpan and the application. The AT layer
sends through `xbee_frame_write`, and is polled by `xbee_cmd_tick`.
`_xbee_dev_modem_status` changes the join flags before the handlers run, and
the AT layer reads and writes the same flags while it queries the module.
Sockets are another user of frames: calls send one, what came of it arrives
later and is matched to a table entry by a small number. `wpan_tick` calls
`xbee_dev_tick` and then expires conversations; frames it reads become
envelopes and go to the ZDO and ZCL handlers of an endpoint, which answer,
end conversations or start new ones. The OTA client is a loop of `wpan_tick`
and `xbee_xmodem_tx_tick`: the first fills the ring buffer the second reads
its acknowledgements from.

## Modules

| module | what it is |
|---|---|
| `FrameFormat` | bytes, lengths, checksum of an API frame |
| `FrameDecode` | reference: the frames in a byte stream, by position; `FrameDecode_proof` the lemmas about it that `FrameRx_proof` and `FrameTx_proof` share |
| `FrameRx` | receiving and dispatching; `MCFrameRx` its instance, `FrameRx_proof` its proofs |
| `FrameTx` | `xbee_frame_write` and the port; `MCFrameTx` its instances, `FrameTx_proof` its proofs |
| `WpanStatus` | what a modem status does to the join state, used by `FrameRx` and `AtCmd` |
| `AtCmd` | the AT command layer; `MCAtCmd` its instances, `AtCmd_proof` its proofs |
| `Socket` | the socket table against a cellular module; `MCSocket` its instance, `Socket_proof` its proofs |
| `Envelope` | endpoint and cluster search, routing of one envelope |
| `Conversations` | the conversation tables and `wpan_tick`, with ZDO and ZCL as users; extends `Envelope`; `MCConversations` its instance, `Conversations_proof` its proofs |
| `BoundedQueue` | abstract: what a circular buffer promises |
| `CBuf` | the circular buffer; its lemmas are in `Ota_proof` |
| `Ota` | the OTA client: XMODEM sender, its buffer (extends `CBuf`), network and receiver; refines `BoundedQueue`; `Ota_proof` its proofs |
| `Gen3` | the boot loader dialogue on the serial port; `Gen3_proof` its proofs |
| `MCLoaders` | `Ota` and `Gen3`, one or the other |

### FrameRx

One step is one `xbee_ser_read`, one entry of the handler table, or one call
or return of `xbee_dev_tick`. `rx` is `xbee->rx`; `calls` is the C stack of
`xbee_dev_tick` activations with the locals of `_xbee_frame_load` and
`_xbee_frame_dispatch`, so that a nested call is a second element and not a
thing ruled out from the start. `LoadStart`, `LoadLengthMSB`, `LoadLengthLSB`,
`LoadPart` and `LoadFrame` are the reads of the four receive states that get
something, `LoadNothing` the read that gets nothing or an error, which may
come at any time. `CallHandler`, `HandlerReturn`, `SkipEntry` and
`DispatchDone` walk the table; while a handler runs, `TickEnter` or `TickBusy`
may follow. `handled` records the handler calls.

### FrameTx

`FrameWrite`, `ReadFree`, `ReadUsed`, `WritePrefix`, `WriteHeader`,
`WriteData` and `WriteChecksum` are the steps of `xbee_frame_write` between
which `Drain` (the UART) and `MoveCTS` (the module) may act. `ReportsRoom`
chooses the kind of port.

### AtCmd

The functions of the AT layer call each other recursively (an expiry ends a
query, which starts one, which creates a request, which in a full table
expires others), always within one call from outside. They are therefore
operators from driver state to driver state with the names of the code, and an
action is one such call: `AppInit`, `AppTick`, `Respond`, `Modem` and the
`User...` actions. What the code stops with its static `initialized` flag and
with the clock check at the top of `xbee_cmd_tick` shows in where room is made
in the table: `MakeRoom` may expire requests, `QueryInTick` does not use it,
and `QueryDevice` is given the state that resulted. Time is `Second`; timers
count down. `radio` holds the commands the module may still answer, each with
the handle of the request that sent it (`from`, history only), and `shared`
remembers whether a frame ID was ever given out while another request carried
it. `Respond` answers any of them, in any order; an answer that is lost is one
that never comes.

### Socket

An action is an API call, one frame handled, or one step of the module, which
is external: it works on what it was asked in any order, but what it sends
arrives in order and complete, as `FrameRx` has it. A callback runs inside the
handler; `act` is what it does there (nothing, or close its socket; accept or
reject a client). `ok` is whether `xbee_frame_write` takes the frame. `inc`
and `tag` number sockets so that properties can tell two with the same numbers
apart; `held` are the handles the application has not been told are closed.

### Envelope and Conversations

`Arrives` is the frame becoming an envelope, `Dispatch` one turn of the loop
in `wpan_envelope_dispatch` with the handler it leads to (`Route`, `Handle`,
then `ZdoHandler` or `ZclGeneralCommand`), `ExpireEntry` one entry of
`_wpan_endpoint_expire_conversations`. `Asked` is a request, whose send may
fail and leave the entry, by the program or by a response handler. Response
handlers are of three styles taken from the tree: those that end with the
first answer, those that go on and send an untracked request (the
find-and-read chain of `zcl_client.c`), and those that may do anything
documented, a new request included. `Reactions` is what they do besides
returning. `issued` counts transaction IDs unwrapped, and `IdOf` is the byte
in the frame; `age` and `limit` are history for the two properties about time.

### CBuf, BoundedQueue and Ota

`CBuf` has the buffer as a record and its operations as functions of it. The
cells a get has read are marked `Erased`, so that a wrong index shows. `Ota`
takes whole calls of `xbee_xmodem_tx_tick` as steps, one action for each state
and way out of it; `Deliver` is a received frame handed to
`_pxbee_ota_transparent_rx`. `Outcomes` is whether a send was refused,
`WideInt` whether `int` is wider than the timer. `Queue!Spec` is the promise
the buffer is held to, with `Contents` as the refinement mapping. A payload's
length is cast to a byte on its way into the buffer (`Cast`, `LengthMod`): of
one of 256 characters or more only the first `length % 256` are put.

### Gen3

One action for each case of `xbee_bl_gen3_install_tick`. `tx` is the transmit
buffer with room `TxRoom`; the boot loader takes a byte at a time and answers
a command when it is whole. `elapsed` counts the limits the code compares the
timer with, not milliseconds. The boot loader speaks one of two protocols
(`speaks`, free at the start): 0 answers `L` with `U` and takes page commands
with one byte of page number and one of checksum, 1 answers `1U` and takes two
of each. The host goes by the answer (`proto1`), which on a lossy line may come
out wrong: a host that missed the `1` sends commands a protocol 1 boot loader
never takes for whole, and the install fails. A page goes out under as much of
its number as the host's protocol carries (`SendHeader`, with `PageMod` values a
byte), and `page_num` itself wraps at two bytes (`Wrapped`). A page stored under
a number overwrites the one before it (`Store`). `R` stands for `X` too, which
asks for 921600 baud and is answered in the same way.

## Runs

| run | question | size |
|---|---|---|
| `frame_rx` | all ways to cut, delay and fail the reads of every sequence of three pieces (whole, damaged, torn, ambiguous frames) and of every garbage of up to 3 bytes before silence and a good frame | 455 000 states |
| `frame_tx` | three frames of several shapes, the buffer too small for all of them, the UART and `/CTS` moving between any two steps | 369 000 states |
| `frame_tx_posix` | the same on the POSIX port: **violated** | stops at the violation |
| `atcmd_users` | two users and the driver, whose query is one command, two slots: create, set a callback or a target, send, send again from the callback, release, expire, answers in any order and too late | 373 000 states |
| `atcmd_query` | the query alone, with every answer, an error, silence, blocked `/CTS` and two modem statuses at any time; time without bound | 781 000 states |
| `atcmd_busy` | the query with one user: **violated** | stops at the violation |
| `atcmd_inprogress` | the query alone, an answer after its deadline: **violated** | stops at the violation |
| `socket` | two entries, two module sockets: everything in any order, frames refused, connections lost, callbacks that close, clients accepted, rejected and closed | 1 401 000 states |
| `aps` | three endpoints, three requests, answers late, repeated and lost, broadcasts and secret clusters, a timer that wraps | 877 000 states |
| `loaders` | a two-block image over the air, five pages on the serial port, two of them blank, in both protocols of the boot loader | 334 000 states |
| `ota_skips` | as `loaders`, but first sends may be refused: **violated** | stops at the violation |
| `ota_wide_int` | as `loaders`, on a build with a wide `int`: **violated** | stops at the violation |

Bounds. Bytes are 0..3 with start byte 3, so that lengths and data look like
start bytes and a length of two bytes is reached; the longest frame is 5, the
dispatch cap 2. None of the code's decisions depends on more than equality of
bytes, the order of lengths and arithmetic modulo the byte size. The request
table has its two slots; frame IDs and sequence numbers have their full 255
and 256 where they only need to be fresh, and wrap within a few requests in
`atcmd_query`, where wrapping matters. The query list is shortened by entries
that only store a value. `atcmd_query` and `atcmd_inprogress` have `AI`, `NP`,
`MY`, the refresh starting at `NP` as in the code: it has to have two entries,
because with one an answer can never be out of turn in a refresh. `atcmd_busy`
has `EO`, `AI`, `MY`, all whose answers the driver looks at. `Bounds` limits
how often the environment may act on its own; the driver's own steps are never
limited. In `atcmd_users` the users are a symmetry set, `/CTS` stays up and
the module answers no command with an error: what these do to the query is the
question of `atcmd_query`, and a user's callback does the same for either
answer.

`socket`: `Bounds` limits the environment and the calls, five in all, so that
any mixture of creates, attaches, closes, refusals, data and clients is tried;
`LineMax` 2 lets frames cross. Two entries are enough for a slot to be reused
beside another, and for a client to find the table full. Module IDs are a
symmetry set. `aps`: two entries a table and two transaction IDs, so that IDs
wrap at once; the timer has 8 values and every second is a step, at most one
between ticks (`PauseMax`); one answerable request at a time (`SentMax`),
answered any number of times. `loaders`: a buffer of three bytes, which is the
least `xbee_cbuf_init` allows and wraps with nearly every put; packet numbers
modulo 4; two messages to the target and three characters back, which may all
come in one payload, and a length byte of three values, so that a cast cuts
one; a timer that wraps and waits of one tick, since only being over or not
matters; three tries and three retries as in the code; pages of two bytes and
a transmit buffer of four, so that a page is cut and a header may not fit; a
byte of page number with two values, so that five pages are more than one byte
numbers and more than two do. One update per behaviour; two were also tried.

Two assumptions are made about wrap-around in `AtCmd`, where the code has no
protection of its own: the module does not answer a command whose frame ID has
been given out again (`Send`), and no user keeps a handle over 256 further
uses of its slot (`Release`).

Fairness. `FrameRx`: the main loop keeps calling `xbee_dev_tick`, handlers
return (weak fairness), and a port that holds bytes does not answer nothing
or fail for ever (strong fairness of the reads, because a failed read may come
in between any number of times). `AtCmd`: seconds pass and the program calls
the tick in infinitely many of them, as all the programs' loops do; nothing is
assumed of the module, the line or `/CTS`, and a property that needs `/CTS`
says so. `Ota`: the program's loop keeps calling both ticks (weak fairness of
`TxTick` and `Deliver`) and time goes on; a tick that would find the wait over
is called while it is over (strong fairness of `TxTimeout`), which in the code
is because the loop is far faster than the timer wraps. Nothing is assumed of
the network or the receiver. A refused send changes nothing, so that the
fairness of `TxTick` includes one assumption of the frame layer: a send that
is tried for ever goes out at last (`/CTS` comes back). `Gen3`:
the tick is called and time goes on, nothing of the line. `Socket` and
`Conversations` state safety only; that a request ends in time is there the
invariant `Timely`.

Each property was also run against the code with a plausible mistake in it,
and found it: the operators marked `Mutant:` beside the ones they replace.

### What the runs show

Receiving does what it should: `HandledAsDecoded` says that which handlers run
with what depends on the bytes alone. The AT layer keeps handles and answers
apart. With the table to itself a query that reports `-EBUSY` is under way, and
the waiting loop of the programs ends except for a device that needs an
address or a module that holds `/CTS`. The query's flag is true and a lost
address is asked for again except after an answer out of turn
(`OutOfTurn`), of which `xbee_cmd_query_status` says `-EIO`; how that comes
about is told under `atcmd_inprogress` below.

Sockets: handles, callbacks and the module's view agree, except where the code
lets them part. The properties name these cases (`orphans`), and the reader of
the code should know them:

* connect, bind and listen are allowed while the socket ID is unknown (the
  table entry is `PENDING`); the frame then carries ID 0, and the entry leaves
  the state in which its Create Response would be matched. The comments on the
  states describe another order;
* closing a `PENDING` socket sends a close for ID 0, and the module's socket
  stays;
* a callback that closes its socket in an attach response leaves a freed entry
  with a type, which is never allocated again (`HandleAttachResp`);
* a client rejected while the transmit buffer is full stays open on the module;
* a callback for a closed socket that closes it once more is called again, and
  so on without end: users of the model do not.

Conversations: an entry is never lost, shared or called after its end, answers
go to their own request as long as fewer than 256 IDs lie between, deadlines
hold across the wrap of the timer for timeouts below half its range
(`TimeAssumption`; a longer one expires at once), and flags and error reports
stay with their frame. A request whose send fails stays registered until its
timeout, or for ever if it has none. A late ZCL response is answered with
"unsupported command". `OpenHeld` is for handlers like those of the tree: one
that deletes its own conversation and starts a request in the freed entry
would lose it when it returns.

Loaders: over the air the image arrives in order, and serially each page in
its place. `SuccessMeansWhole` excepts transfers in which a packet was sent
again while an answer was under way (`crossed`): XMODEM's acknowledgements
carry no number, the late one counts for the next packet, and success may then
be reported for an image that is cut off. The sender waits for the start
character without a limit (`Ends` begins after it). In `Gen3` an image needs a
page that is not blank, because the first read's 0 is not looked at
(`ImageAssumption`), and an image of more pages than the boot loader's
protocol has numbers (256, or 65536 in protocol 1) loses pages without any
error: two go under the same number and the later one stays. `Installed` says
of such an image that every page whose number does not come again is there
(`Kept`). `HeaderFirst` shows that the branch which would send from before the
buffer is not reached: a page starts only when the one before was answered,
and so has left the transmit buffer. Noise is a character that means nothing
there; one that looks like an answer would be taken for it.

Five places where the code does not do what its comments say:

* `frame_tx_posix`: `xbee_frame_write` answers 0 for a frame of which the
  serial port took only a part. The results of `xbee_ser_write` are ignored
  and the POSIX port cannot report its room.
* `atcmd_busy`: a refresh started by the end of a query needs a slot before
  the old query gives up its own. If the application holds the other one, the
  status becomes `RUNNING`, nothing is sent, and `xbee_cmd_query_status`
  answers `-EBUSY` until some request expires.
* `atcmd_inprogress`: a modem status that comes before `xbee_cmd_init_device`
  starts two requests of the query, which share one list context. If one of
  them has expired when its answer comes and ends the list, and a refresh is
  due, the refresh finds the table full, `xbee_cmd_create` expires that very
  slot and gives it to the refresh, and `_xbee_cmd_handle_response` then
  releases it. The answer to the other request no longer fits the list, which
  is given up: `_xbee_cmd_list_callback` calls the callback of the current entry
  there, not that of the end. `XBEE_DEV_FLAG_QUERY_INPROGRESS` stays set with
  nothing outstanding, and `xbee_cmd_query_device` never starts a query again.
  With a request of the application in the other slot the same can happen
  without a second request of the query.
* `ota_skips`: a packet whose first send is refused is not sent again: its
  block is gone, because `XBEE_XMODEM_STATE_SENDING` is never set and the next
  tick reads another block under the same number.
* `ota_wide_int`: the time since the packet is computed in `int`. Where that
  has more than 16 bits it goes negative when the timer wraps, and a lost
  acknowledgement is then waited for without end.

## Proofs

Each `*_proof` module proves its theorems for every value of the constants that
satisfies the module's `ASSUME`s. A run checks each stated property on a small
instance as well. An invariant that a theorem states is seldom inductive; the
invariant that is, and why it is needed, is named for each module.

**`FrameRx_proof`** (`ByteAssumption`, `RxAssumption`): `TypeCorrect`,
`BufferSafe` (`NoOverrun`), `NotReentered` (`OneTick`), `LoanedFrameStable`
(`FrameStable`, an action property). The invariant joins the types with the
bounds on `bytes_in_frame` and `bytes_read` in the receive state and with the
fact that ties the guard to the stack: `IN_TICK` is set exactly when an
activation of `xbee_dev_tick` is on the stack, and then there is just one.
A nested call therefore finds the flag set and can only be refused; this is
also why no read can happen while a frame is on loan.

`HandledIsDecoded` (`HandledAsDecoded`) and `WpanIsDecoded` (`WpanAsDecoded`)
compare the receiver, which sees one chunk after another, with `FrameDecode`,
which sees the whole stream. The invariant `FInv` adds to the above where the
decoder has got to (`DecodeInv`): a position `p` from which the bytes read so
far can still become a frame, because the receiver waits for a start byte
there, for one of the two length bytes or for the rest (`Pending`), and before
which nothing is left open, in that what the decoder finds in *any* longer part
of the input is what it found so far followed by what it finds from `p` on
(`Following`). It must speak of every longer part, since a later byte may
not change what an earlier one settled. A read moves `p` only when it settles
something: a byte that is no start byte, a length out of range (where a second
start byte may be the start itself), or a whole frame, and then the sum
over the buffer is zero exactly when the decoder calls the frame intact
(`GoodIsIntact`). Beside it `DispatchInv` says how far the last frame found is
through the handler table: `handled` is what the frames before it caused and
what the entries already passed add. The expected calls and the join state are
recursive functions of the frames found; `ExpectedAppend` and `JoinStateAppend`
are the one step of each that a new frame takes.

`QuietResyncs` follows from these by a fact about the decoder alone
(`Resynchronised`): from any position before the end of `MaxFrameLen + 2`
bytes of silence, the search moves on by one frame, one bad length or one byte,
and lands no later than on the byte behind the silence (`OneHop`), because
whatever it began to collect there has at most `MaxFrameLen` bytes and a
checksum. So an intact frame behind the silence is found, and last, whatever
came before; the start byte must not be the byte the silence is made of.
`ResyncHolds` (`ResyncAfterQuiet`) is the same of the frame and the handler
table of `frame_rx`.

**`FrameTx_proof`** (`ByteAssumption`, `TxAssumption`): `TxTyped` for either
kind of port; `QueuedEndToEnd`, `RoomKept` and `QueuedIsDecoded`
(`QueuedWhole`) for a port that reports its room, which `frame_tx_posix` shows
to be needed. The invariant `TxInv` has three parts: the fields of the call
have their types; what is left of the frame fits the room (`Fitting`, true
because the room is compared before the first write and the buffer only drains
until the last); and the bytes on the wire are the accepted frames laid end to
end, followed by what was written of the one under way (`OnWire`). That the
decoder finds the accepted frames in such bytes is a fact about `FrameDecode`:
its walk satisfies its equation and steps over one frame at a time, and the
sum it takes is undone modulo `ByteMod` by the checksum written. It needs
`DecoderAssumption`, that frames have at least 2 bytes, at most as many as the
receiver takes, and that no length begins with a start byte (0x7E00 in the
code, where frames have a few hundred bytes).

`FrameDecode_proof` holds what both sides of the frame layer need of the
checksum and the decoder. Recursive functions are reasoned about by the least
number at which a claim fails: the library's `NatLessThanWellFounded` and
`WFMin` need no operator parameter, and the lemmas `Least`, `Stepwise` and
`Recursion` follow from them.

**`Ota_proof`** (`MaskAssumption`, `ErasedAssumption`,
`OtaAssumption`, `CharsAssumption`):

* `TypeCorrect`: `Spec => []TypeOK`.
* `BufferImplementsQueue`: `Spec => BufferIsQueue`, that is `Queue!Spec` and
  the step property that a delivered frame is put at the back. It rests on two
  lemmas about `CBuf`, which say what `Contents` is after a put and after a
  get for any head and tail, `PutContents` and `GetContents`; both split on
  where the copy and the contents pass the end of the array.
* `BlocksInOrder`: `Spec => []InOrder` under two more assumptions: no first
  send of a packet is refused, which the run `ota_skips` shows to be needed,
  and the image has fewer blocks than there are packet numbers (255 in the
  code, 16 kB).
* `LongImageInOrder`: `Spec /\ [][CleanStart]_vars => []InOrder` for an image of
  any length, with two assumptions in place of the second: `MaxOut + MaxIn + 2 <
  NumMod` (at most 253 messages and characters on the air at a time, in the
  code), and `CleanStart`, that no update begins while the receiver has another
  open or messages of one are on their way to it.

`InOrder` is not inductive: nothing in it says that what is on the air belongs
there. The invariant `OrderInv` adds the types and number ranges, that packet
number and blocks read go together (`Lockstep`), that each block on the air
has the number of its place in the file, and the types of `out` and `got`.
Each action then either leaves `got` alone or appends the block whose number
is the one expected. That it is then the block expected (`Told`) is all that the
length of the image matters for: in a short image only one block has the
number (`ToldShort`).

In a long image every number is that of several blocks, and the receiver takes
the right one because sender and receiver cannot be far apart (`ToldNear`).
`NearInv` says why. The air to the target keeps the order of sending
(`Ascending`), so no block on it is older than the last one stored (`Near`). And
for every block `j` from there on, once the sender is past `j + 1` it goes on
only with acknowledgements that are on their way already or that a copy of a
block up to `j + 1` still draws: `Within(j)` counts both, and their sum never
grows, for new blocks are later than `j + 1`. The buffer may hold many
acknowledgements and counts for one (`Pending`), for it is flushed before each
first send. The lemmas on `Count` say how many places of a queue hold something
of a kind after one more at its end or some fewer at its front. `CleanStart` is
needed: without it TLC finds an update, begun while the receiver still has the
one before it open and has all its blocks, whose block 1 the receiver takes for
the block after them.

`SuccessIsWhole` (`SuccessMeansWhole`) holds under the assumptions of
`BlocksInOrder`. Its invariant `WholeInv` says, state by state, what can be on
its way while no packet has been sent again with an answer under way
(`Transfer`): while a packet waits, either the packet is on the air (perhaps
behind the start message) and no acknowledgement is, or one acknowledgement is
and the receiver holds every block read, or neither; when the next block is to
be sent nothing is left of the last; from the end of the file on, nothing the
receiver gets can change what it stored, and an acknowledgement on its way
means that it has closed the image. "One acknowledgement on its way" covers
the circular buffer and the air (`OneAck`), so most of the proof is that every
way characters move, are dropped by a full buffer or a flush, are lost or are
joined by those of a receiver that asks again (`TakenIs`, `EmptiedIs`,
`DeliveredIs`, `LostIs`, `RepliedIs`) makes no second one. TLC checked
`WholeInv` first, with two updates in a row, where a second start meets a
receiver the first left open. `LongImageWhole` is the same for images of any
length, from `NearInv` and `WholeInv` together.

**`AtCmd_proof`** (`AtAssumption`, `StatusAssumption`): `AtTyped` (`TypeOK`),
`HandlesSafe` (`HandleSafe`) and `ResponsesOwn` (`OwnResponse`). As the
functions of the code are operators from driver state to driver state, each
has a lemma that says it leads from a sound state to a sound one, whatever
called it: `SendSound`, `AllocSound`, `ExpireSound`, `TickSound`,
`ListResponseSound` and so on up to the actions. So the nesting (an expiry
that ends a query, which starts one, which expires others) needs no argument
of its own. `Sound` has three parts: the types of the driver state; `Owned`,
which is `HandleSafe` of any such state; and `Traced`, that a command still
out was sent by whichever request carries its frame ID, which is stronger than
`OwnResponse` because it does not depend on which request the search finds
first. `OwnResponse` excepts states in which `shared` holds:
`xbee_next_frame_id` counts to 255 and starts again without looking for a
request that still carries the number, and an answer would then be found by
number and command alone.

`BusyIsUnderway` (`BusyMeansUnderway`), `StuckReported` (`StuckIsReported`) and
`AddressIsSought` (`AddressSought`) are about a table without users
(`Users = {}`); `atcmd_busy` shows for the first that this is needed. `QueryInv`
adds two parts to `Sound`: every request is one of the query's (`Alone`), and
either one is out, or the query rests (`Idle`): its status is not `RUNNING`,
and the flag is reset and no address is missing unless the status is `ERROR`
(`Truthful`). A query may end at three places: its answer, its expiry in a tick,
its expiry while another is given a slot. At each it lets its slot go, and what
has to be shown is that whatever it started meanwhile has another. A full table
that is ticked with a refresh due keeps slot 0 taken, since what expires there
goes to the refresh at once (`Ticked`). So when a query ends in the response
handler and a refresh is due, either slot 0 was free and the refresh gets it,
or both slots are taken afterwards (`EndIs`); the release of the one that was
answered leaves the other. When an answer is out of turn the status is
`ERROR` until a query is started again.

**`Gen3_proof`** (`ImageAssumption`, `LineAssumption`), for both protocols of
the boot loader and images of any length: `StoredInPlace` (`PagesInPlace`),
`InstalledWhole` (`Installed`), `HeaderAlwaysFirst` (`HeaderFirst`, an action
property), and `NumberedImageWhole`: of an image with no more pages than the
protocol has numbers, page `n` is under number `n - 1` when the install
reports success, without exception. That the host uses protocol 1 only with a
boot loader that speaks it is an invariant of its own (`Known`): the other way
round, no page command is ever whole, and none is stored. `Gen3Inv` follows a
command from the source's buffer over the line into the boot loader: `Wire` is
what the boot loader has of it and what is still on its way. During the
handshake a command or its answer is on the line, never both (`OneAtATime`);
while pages are sent the wire is what `offset` says was sent (`SentSoFar`), a
whole page command names the page it carries (`WholeCommand`), and an answer
that is still to come is about the page the source waits for (`Answered`).
`AllStored` carries this to the end: every page below the next, and not
overwritten by one of the same number, is in flash.

**`Conversations_proof`** (`TimeAssumption`, `RequestAssumption`,
`TrafficAssumption` and those of `Envelope`): `TablesTyped`, `OneEntryEach`
(`OpenHeld`), `AnswersOwn` (`OwnAnswer`), `ClusterOwn` (`OwnCluster`),
`OneReport` (`NoStorm`), `NeverLate` (`Timely`) and `NeverEarly` (`NotEarly`,
an action property): every property of the module, from one invariant
(`Invariance`). It speaks of *worlds*, the part of the state a handler may
change, so that one lemma for each thing a handler can do serves the program's
own requests, responses and expiries alike; `Grows` and `Keeps` say what such
a change leaves as it was. An open request holds one entry and no other; an
entry's ID is that of a number taken when it was registered, so that two IDs
are equal only when `TransMod` numbers lie between; a deadline is so many
seconds ahead of the timer, modulo `TimeMod`, and the walk of an expiry has
passed only entries that are not due. The walk visits each entry once because
position and entry are in bijection (`WalkPlaces`, `WalkComplete`).

**`Socket_proof`** (`SocketAssumption`): `SocketsTyped`, `HandlesSafe`
(`HandleSafe`) and the table's part of the invariant (`TableInvariance`)
without further assumption; `NoticesOwn` (`OwnNotice`), `CallbacksFit`
(`CallbackFits`), `HostKnows` (`HostViewTrue`) and `NothingLeftBehind`
(`NoneForgotten`) under `[][FreshIds]_vars`: no frame ID is given out again
before its answer was read. The code does nothing to ensure that; it has 255
IDs, and with two TLC finds a late Create Response taken by a socket that
waits for another, so that the four are false without it. The run has 255
and asks for fewer. `SockInv` adds to the table what ties it to the
other side: which entry a frame ID answers (`ByFid`), which socket of the module
an entry serves (`Serving`), that every socket of the module has its place or
is one of the excepted ones (`Placed`), that each side's idea of the other is
what it was plus what is on the line (`Agreed`), and that nothing forgotten is
left unmentioned (`Remembered`).

Assumptions about the environment that the proofs and the runs share: each
endpoint and profile occurs once in the endpoint table and the ZDO endpoint
has its own; timeouts lie below half the timer's range and a tick comes at
least every `PauseMax` seconds; the cellular module does not reuse the ID of a
socket about which it owes an answer (`handle_option_resp` goes by the ID
alone).

Only model-checked: liveness (`AllHandled` and its like, `RefreshServed`,
`BusyEnds`, `Ends`), because fairness and `ENABLED` are out of the prover's
reach. Every safety property of a passing run has a theorem.

## Not modelled

In `xbee_device.c`: `xbee_dev_reset`, dumps, AT mode. In `xbee_atcmd.c`:
parameters, `xbee_cmd_set_flags`, `XBEE_CLT_SET` entries and lists of the
application, `xbee_cmd_execute` and `xbee_cmd_simple` (create, set and send in
a row), several devices sharing the table. In `xbee_socket.c`: callbacks that
do more than close, and states that are no error, which only call the
callback. In `wpan_aps.c`: sending, endpoints without `ep_state`, which the
response search would dereference, and a handler that deletes its own entry
(`wpan_conversation_delete`, which `include/wpan/aps.h` allows). In
`zigbee_zdo.c`, `zigbee_zcl.c` and `zcl_client.c`: message contents. In
`xbee_xmodem.c`: the FLUSH state and the serial stream. In `xbee_cbuf.c`:
`putch`, `getch`, `flush`; `getch` would read past the array when the head
rests one past it, but nothing mixes it with `get`. In `xbee_bl_gen3.c`: noise
during the handshake, which misaligns answers of fixed length, and a damaged
page whose checksum fits. In the serial port of `FrameTx`: errors of
`xbee_ser_write` other than a full buffer, as of a port that is gone
(`xbee_serial_posix.c:92-99`); `xbee_frame_write` looks at no result, and
`-EAGAIN` of the non-blocking descriptor is a write of 0 bytes. Components
without a module are listed in `PROJECT.json` with the reason: most translate
one frame into another, and `mbedtls` is vendored.

## Plan

1. `SxaQueue`: the update queue of `xbee_sxa.c` on top of `AtCmd`'s lists.
2. The bench receiver's array filled by `FrameRx`'s handler calls, which may
   be five in one tick, and the configuration loop on `AtCmd`.
3. A composition of `AtCmd` and `Socket` over one frame ID counter, which both
   take IDs from.
