------------------------------- MODULE AtCmd -------------------------------
(***************************************************************************)
(* The AT command layer (src/xbee/xbee_atcmd.c): a table of outstanding    *)
(* requests named by (slot, sequence) handles, the list of commands with   *)
(* which the driver queries the module at start-up and again whenever the  *)
(* module joins a network, and the expiry of requests.                     *)
(*                                                                         *)
(* The layer is single threaded but re-entrant: the end of a query, or an  *)
(* expiry, starts the next query from inside a callback, and creating a    *)
(* request when the table is full expires old ones on the spot.  So the    *)
(* functions of the code are operators from driver state to driver state,  *)
(* nested as the calls nest, and one action is one call from the main      *)
(* loop, from the frame dispatcher or from the application.                *)
(*                                                                         *)
(* External: the XBee module, which answers in any order, late or not at   *)
(* all; /CTS, which an action sees up or down from start to end; and the   *)
(* application's callbacks, which return what Outcomes allows.             *)
(***************************************************************************)
EXTENDS Integers, Sequences, WpanStatus

CONSTANTS
  Users,          \* parts of the application with requests of their own
  Outcomes,       \* what their callbacks do: subset of {"done", "keep", "resend"}
  Regs,           \* the commands of _xbee_atcmd_query_regs, in order
  RefreshIdx,     \* XBEE_ATCMD_REG_REFRESH_IDX: entries a refresh skips
  SeqMod,         \* 256: request sequence numbers are bytes
  MaxFrameId,     \* 255: frame IDs run from 1 to here
  LocalTimeout,   \* XBEE_CMD_LOCAL_TIMEOUT, also the time to build a request
  ReuseTimeout,   \* 5 seconds for a request kept by its callback
  RemoteTimeout,  \* XBEE_CMD_REMOTE_TIMEOUT
  Unlimited,      \* no bound
  Bounds          \* how often the environment may act, by the kind of its act

ASSUME AtAssumption ==
  /\ Outcomes \subseteq {"done", "keep", "resend"}
  /\ "done" \in Outcomes
  /\ Regs \in Seq(STRING)
  /\ RefreshIdx \in 0 .. Len(Regs) - 1
  /\ SeqMod \in Nat \ {0, 1, 2}
  /\ MaxFrameId \in Nat \ {0}
  /\ LocalTimeout \in Nat
  /\ ReuseTimeout \in Nat
  /\ RemoteTimeout \in Nat
  /\ Bounds \in [{"modem", "create", "send", "cts", "error", "second"} ->
                   Nat \union {Unlimited}]
  /\ Unlimited \notin Nat

VARIABLES drv,   \* the driver, the commands out at the module, the users
          used   \* how much of Bounds is used up

vars == <<drv, used>>

Slots == {0, 1}     \* XBEE_CMD_REQUEST_TABLESIZE is 2

\* The code's negative handles: none, or an error.
NoSlot == -1
NoHandle == <<NoSlot, 0>>

None == "none"      \* no callback, no command, no owner
Query == "query"    \* the driver itself, as the owner of a request

\* A value in a response, as far as the driver looks at it: zero, an address
\* (for EO: without XBEE_CMD_ATEO_USE_AUTHENTICATION), or the undefined
\* address (for EO: with it).
Value == {"0", "1", "FFFE"}

QueryFlag == {"CMD_INIT", "BEGIN", "INPROGRESS", "DONE", "ERROR", "REFRESH"}

\* Seconds left until a timer expires; 0 is expired.
Seconds == Nat

Free(seq) == [used |-> FALSE, sequence |-> seq, left |-> 0, callback |-> None,
              frame_id |-> 0, command |-> None, remote |-> FALSE, owner |-> None]

-----------------------------------------------------------------------------
(* Requests and handles.                                                   *)

Handle(s, i) == <<i, s.table[i].sequence>>

\* _xbee_cmd_handle_to_address finds the request of a handle.
Valid(s, h) == h # NoHandle /\ s.table[h[1]].sequence = h[2]

\* Mutant: the sequence number stays.
ReleaseSameSequence(s, i) == [s EXCEPT !.table[i] = Free(s.table[i].sequence)]

\* _xbee_cmd_release_request.  (What a free slot still holds is never read.)
\* Bound: no user keeps a dead handle while its slot is reused SeqMod times.
Release(s, i) ==
  LET seq == (s.table[i].sequence + 1) % SeqMod
  IN  [s EXCEPT !.table[i] = Free(seq),
                !.user = [u \in Users |-> IF s.user[u] = <<i, seq>> THEN NoHandle
                                          ELSE s.user[u]]]

\* Mutant: wider than the byte in a frame.
NextFrameIdWide(id) == id + 1

NextFrameId(id) == IF id = MaxFrameId THEN 1 ELSE id + 1

\* The module gets the command of slot i.
Emit(s, i) ==
  LET r == s.table[i]
  IN  [s EXCEPT !.radio = @ \union {[frame_id |-> r.frame_id, command |-> r.command,
                                    remote |-> r.remote, from |-> Handle(s, i)]}]

\* Another request than that of slot i was sent with this frame ID.
Carried(s, fid, i) == \E j \in Slots \ {i} : s.table[j].used /\ s.table[j].frame_id = fid

\* xbee_cmd_send: without a callback the frame ID is 0 and nobody answers.
\* Bound: the module never answers a frame once its ID is given out again.
Send(s, h) ==
  IF ~Valid(s, h) THEN s
  ELSE LET i   == h[1]
           r   == s.table[i]
           fid == IF r.callback = None THEN 0 ELSE NextFrameId(s.frame_id)
           t   == [s EXCEPT !.table[i].frame_id = fid,
                            !.frame_id = IF fid = 0 THEN @ ELSE fid,
                            !.radio = {x \in @ : x.frame_id # fid},
                            !.shared = @ \/ (fid # 0 /\ Carried(s, fid, i))]
       IN  IF ~s.cts THEN t
           ELSE IF fid = 0 THEN Release(t, i)
           ELSE Emit([t EXCEPT !.table[i].left =
                                 IF r.remote THEN RemoteTimeout ELSE LocalTimeout], i)

\* Mutant: a table of one request.
FirstFreeOfOne(s) == IF ~s.table[0].used THEN 0 ELSE NoSlot

\* The allocation in xbee_cmd_create: the first free slot, if any.
FirstFree(s) == IF ~s.table[0].used THEN 0 ELSE IF ~s.table[1].used THEN 1 ELSE NoSlot

Alloc(s, command, owner) ==
  LET i == FirstFree(s)
  IN  IF i = NoSlot THEN [drv |-> s, slot |-> NoSlot]
      ELSE [drv  |-> [s EXCEPT !.table[i] =
                        [Free(@.sequence) EXCEPT !.used = TRUE, !.left = LocalTimeout,
                                                 !.command = command, !.owner = owner]],
            slot |-> i]

-----------------------------------------------------------------------------
(* Querying the module.  xbee_cmd_create is called in the middle of         *)
(* xbee_cmd_query_device and first makes room in a full table, except       *)
(* inside xbee_cmd_tick: room is what that made of the state in which it    *)
(* was called.                                                              *)

\* Where a query starts in Regs.
Start(refresh) == IF refresh THEN RefreshIdx ELSE 0

\* xbee_cmd_list_execute with the query list from entry start on, before
\* and after it is known whether there is a slot.
ListBegin(s, start) ==
  [s EXCEPT !.clc = [status |-> "RUNNING", start |-> start, index |-> 0]]

ListExecute(room, start) ==
  LET c == Alloc(room, Regs[start + 1], Query)
      t == [c.drv EXCEPT !.table[c.slot].callback = Query]
  IN  IF c.slot = NoSlot THEN [drv |-> c.drv, ok |-> FALSE]
      ELSE [drv |-> Send(t, Handle(t, c.slot)), ok |-> room.cts]

\* xbee_cmd_query_device, up to xbee_cmd_create and as a whole.
QueryBegin(s, refresh) ==
  LET asked == IF refresh THEN [s EXCEPT !.flags = @ \union {"REFRESH"}] ELSE s
  IN  IF "INPROGRESS" \in s.flags THEN asked ELSE ListBegin(asked, Start(refresh))

QueryDevice(s, refresh, room) ==
  LET r == ListExecute(room, Start(refresh))
  IN  IF "INPROGRESS" \in s.flags THEN QueryBegin(s, refresh)
      ELSE IF r.ok
           THEN [r.drv EXCEPT !.flags = (@ \union {"BEGIN", "INPROGRESS"})
                                          \ {"ERROR", "DONE", "REFRESH"}]
           ELSE r.drv

QueryInTick(s, refresh) == QueryDevice(s, refresh, QueryBegin(s, refresh))

EndFlag(result) == IF result = "done" THEN "DONE" ELSE "ERROR"

\* Mutants: the flag stays; an error asks for no refresh.
QueryOverInProgress(s, result) == [s EXCEPT !.flags = @ \union {EndFlag(result)}]

QueryOverNoRetry(s, result) ==
  [s EXCEPT !.flags = (@ \ {"INPROGRESS"}) \union {EndFlag(result)}]

\* _xbee_cmd_query_handle_end, up to the refresh; result is how the query
\* ended.  The error of an earlier query may still be set.
QueryOver(s, result) ==
  LET over  == (s.flags \ {"INPROGRESS"}) \union {EndFlag(result)}
      retry == /\ "ERROR" \in over
               /\ s.wpan.joined
               /\ s.wpan.network = "undefined"
  IN  [s EXCEPT !.flags = IF retry THEN over \union {"REFRESH"} ELSE over]

RefreshBegin(s, result) == QueryBegin(QueryOver(s, result), TRUE)

\* Mutant: a refresh that is asked for is left to somebody else.
QueryEndNoRefresh(s, result, room) == QueryOver(s, result)

\* All of it.
QueryEnd(s, result, room) ==
  LET t == QueryOver(s, result)
  IN  IF "REFRESH" \in t.flags THEN QueryDevice(t, TRUE, room) ELSE t

\* The registers whose value the driver acts on: a copy into the device
\* structure (MY), or a callback (EO, AI).
NetworkOf(value) ==
  IF value = "0" THEN "coordinator" ELSE IF value = "1" THEN "assigned" ELSE "undefined"

RegCopy(s, command, value) ==
  IF command = "MY" THEN [s EXCEPT !.wpan.network = NetworkOf(value)] ELSE s

RegCallback(s, command, value) ==
  IF command = "EO" THEN [s EXCEPT !.auth_enabled = (value = "FFFE")]
  ELSE IF command = "AI" /\ value = "0"
       THEN [s EXCEPT !.wpan.joined = TRUE,
                      !.wpan.authenticated = @ \/ s.auth_enabled]
  ELSE s

-----------------------------------------------------------------------------
(* Expiry.                                                                 *)

\* A user's callback on slot i, for a response or a timeout.
UserCallback(s, i, outcome) ==
  IF outcome = "done" THEN [s EXCEPT !.user[s.table[i].owner] = NoHandle]
  ELSE IF outcome = "resend" THEN Send(s, Handle(s, i))
  ELSE s

\* One round of the loop in xbee_cmd_tick.
Expire(s, i, outcome) ==
  LET r     == s.table[i]
      late  == [s EXCEPT !.clc.status = "TIMEOUT"]
      after == IF r.callback = None THEN s
               ELSE IF r.callback = Query
                    THEN QueryEnd(late, "timeout", RefreshBegin(late, "timeout"))
               ELSE UserCallback(s, i, outcome[i])
      freed == Release(after, i)
  IN  IF ~(r.used /\ r.left = 0) THEN s
      ELSE IF r.callback \in Users /\ outcome[i] # "done" THEN after
      ELSE IF "REFRESH" \in freed.flags THEN QueryInTick(freed, TRUE)
      ELSE freed

\* Mutant: starts with the second slot.
TickFromOne(s, outcome) ==
  IF s.ticked THEN s ELSE Expire([s EXCEPT !.ticked = TRUE], 1, outcome)

\* xbee_cmd_tick: once per second.
Tick(s, outcome) ==
  IF s.ticked THEN s
  ELSE Expire(Expire([s EXCEPT !.ticked = TRUE], 0, outcome), 1, outcome)

\* xbee_cmd_create looks for a slot: a full table is expired first.
MakeRoom(s, outcome) == IF FirstFree(s) = NoSlot THEN Tick(s, outcome) ELSE s

\* xbee_cmd_init_device.
InitDevice(s, outcome) ==
  LET t == [s EXCEPT !.flags = @ \union {"CMD_INIT"}]
  IN  IF "CMD_INIT" \in s.flags THEN s
      ELSE IF "BEGIN" \in s.flags THEN t
      ELSE QueryDevice(t, FALSE, MakeRoom(QueryBegin(t, FALSE), outcome))

\* The same from a layer that may not be initialised.
InitAndMakeRoom(s, outcome) == MakeRoom(InitDevice(s, outcome), outcome)

-----------------------------------------------------------------------------
(* Responses.                                                              *)

\* _xbee_cmd_list_callback for a response in slot i, the only request it
\* expects being the one of list entry e.  Whether to keep the request is
\* part of the result.
ListResponse(s, i, ok, value, outcome) ==
  LET command == s.table[i].command
      e       == s.clc.start + s.clc.index + 1
      stored  == IF ok THEN RegCallback(RegCopy(s, command, value), command, value) ELSE s
      next    == [stored EXCEPT !.clc.index = @ + 1, !.table[i].command = Regs[e + 1]]
      done    == [stored EXCEPT !.clc.index = @ + 1, !.clc.status = "DONE"]
      failed  == [s EXCEPT !.clc.status = "ERROR"]
      End(t, result) == QueryEnd(t, result, MakeRoom(RefreshBegin(t, result), outcome))
  IN  IF e > Len(Regs) THEN [drv |-> End(failed, "error"), reuse |-> FALSE]
      ELSE IF Regs[e] # command
           THEN [drv   |-> IF ok THEN RegCallback(failed, Regs[e], value) ELSE failed,
                 reuse |-> FALSE]
      ELSE IF e = Len(Regs) THEN [drv |-> End(done, "done"), reuse |-> FALSE]
      ELSE [drv |-> Send(next, Handle(next, i)), reuse |-> TRUE]

\* Mutant: does not look at the frame ID.
MatchesAnyFrame(s, i, x) ==
  LET r == s.table[i]
  IN  r.used /\ r.remote = x.remote /\ r.command = x.command

\* The search of _xbee_cmd_handle_response.
Matches(s, i, x) ==
  LET r == s.table[i]
  IN  r.used /\ r.frame_id = x.frame_id /\ r.remote = x.remote /\ r.command = x.command

Matching(s, x) ==
  IF Matches(s, 0, x) THEN 0 ELSE IF Matches(s, 1, x) THEN 1 ELSE NoSlot

\* _xbee_cmd_handle_response for the answer to x.  The slot is released by
\* its number, whatever the callback did to it.
HandleResponse(s, x, ok, value, outcome) ==
  LET i == Matching(s, x)
      r == IF s.table[i].callback = Query THEN ListResponse(s, i, ok, value, outcome)
           ELSE [drv   |-> UserCallback(s, i, outcome[i]),
                 reuse |-> outcome[i] # "done"]
  IN  IF i = NoSlot THEN s
      ELSE IF s.table[i].callback = None THEN Release(s, i)
      ELSE IF r.reuse THEN [r.drv EXCEPT !.table[i].left = ReuseTimeout]
      ELSE Release(r.drv, i)

-----------------------------------------------------------------------------
(* The calls.                                                              *)

Init ==
  /\ drv = [flags  |-> {}, auth_enabled |-> FALSE, wpan |-> WpanAfterDevInit,
            frame_id |-> MaxFrameId,
            clc    |-> [status |-> "DONE", start |-> 0, index |-> 0],
            table  |-> [i \in Slots |-> Free(0)],
            ticked |-> FALSE, radio |-> {}, user |-> [u \in Users |-> NoHandle],
            shared |-> FALSE, cts |-> TRUE]
  /\ used = [k \in DOMAIN Bounds |-> 0]

\* The environment acts on its own a bounded number of times; it has acted
\* used[kind] times.
More(kind) == Bounds[kind] = Unlimited \/ used[kind] < Bounds[kind]

Spend(kinds) ==
  used' = [k \in DOMAIN used |->
             IF k \in kinds /\ Bounds[k] # Unlimited THEN used[k] + 1 ELSE used[k]]

\* What the callbacks of the application will return, if called.
Decisions ==
  [{i \in Slots : drv.table[i].callback \in Users} ->
     IF More("send") THEN Outcomes ELSE Outcomes \ {"resend"}]

Resends(outcome) ==
  IF \E i \in DOMAIN outcome : outcome[i] = "resend" THEN {"send"} ELSE {}

\* The application starts the layer: xbee_cmd_init_device.
AppInit ==
  \E outcome \in Decisions :
    /\ drv' = InitDevice(drv, outcome)
    /\ Spend(Resends(outcome))

\* The main loop: xbee_cmd_tick, also from xbee_cmd_query_status.
AppTick ==
  \E outcome \in Decisions :
    /\ drv' = Tick(drv, outcome)
    /\ Spend(Resends(outcome))

\* xbee_seconds_timer() moves on.
Second ==
  /\ More("second")
  /\ drv' = [drv EXCEPT !.ticked = FALSE,
                        !.table = [i \in Slots |->
                          [drv.table[i] EXCEPT !.left = IF @ = 0 THEN 0 ELSE @ - 1]]]
  /\ Spend({"second"})

\* A response arrives, or never does.  Several modules may answer a remote
\* command.  A response that matches no request changes nothing.
Values(command) == IF command \in {"EO", "AI", "MY"} THEN Value ELSE {"0"}

Respond ==
  \E x \in drv.radio :
    /\ Matching(drv, x) # NoSlot
    /\ \E ok \in BOOLEAN, more \in {FALSE, x.remote}, outcome \in Decisions :
         \E value \in IF ok THEN Values(x.command) ELSE {"0"} :
           LET s == IF more THEN drv ELSE [drv EXCEPT !.radio = @ \ {x}]
           IN  /\ ~ok => More("error")
               /\ drv' = HandleResponse(s, x, ok, value, outcome)
               /\ Spend(Resends(outcome) \union IF ok THEN {} ELSE {"error"})

\* A modem status frame: _xbee_dev_modem_status, then _xbee_cmd_modem_status.
Modem ==
  \E status \in Left \union {KeyEstablished, Joined, CoordStart}, outcome \in Decisions :
    LET s == [drv EXCEPT !.wpan = ModemStatus(@, status)]
    IN  /\ More("modem")
        /\ drv' = IF status \in Left THEN s
                ELSE QueryDevice(s, TRUE, InitAndMakeRoom(QueryBegin(s, TRUE), outcome))
        /\ Spend({"modem"} \union Resends(outcome))

MoveCTS ==
  /\ More("cts")
  /\ drv' = [drv EXCEPT !.cts = ~@]
  /\ Spend({"cts"})

\* Requests of the application: xbee_cmd_create, xbee_cmd_set_callback,
\* xbee_cmd_set_target, xbee_cmd_send, xbee_cmd_release_handle.
UserCreate(u) ==
  /\ drv.user[u] = NoHandle
  /\ More("create")
  /\ \E outcome \in Decisions :
       LET c == Alloc(InitAndMakeRoom(drv, outcome), "ID", u)
       IN  /\ drv' = IF c.slot = NoSlot THEN c.drv
                     ELSE [c.drv EXCEPT !.user[u] = Handle(c.drv, c.slot)]
           /\ Spend({"create"} \union Resends(outcome))

UserSetCallback(u) ==
  /\ Valid(drv, drv.user[u])
  /\ \E callback \in {u, None} :
       drv' = [drv EXCEPT !.table[drv.user[u][1]].callback = callback]
  /\ UNCHANGED used

UserSetTarget(u) ==
  /\ Valid(drv, drv.user[u])
  /\ \E remote \in BOOLEAN :
       drv' = [drv EXCEPT !.table[drv.user[u][1]].remote = remote]
  /\ UNCHANGED used

\* The application forgets a handle that is not valid (-EINVAL), and one that needs no answer.
UserSend(u) ==
  LET h == drv.user[u]
      s == Send(drv, h)
  IN  /\ h # NoHandle
      /\ More("send")
      /\ drv' = IF Valid(s, h) THEN s ELSE [s EXCEPT !.user[u] = NoHandle]
      /\ Spend({"send"})

UserRelease(u) ==
  LET h == drv.user[u]
      s == [drv EXCEPT !.user[u] = NoHandle]
  IN  /\ h # NoHandle
      /\ drv' = IF Valid(drv, h) THEN Release(s, h[1]) ELSE s
      /\ UNCHANGED used

UserCall(u) ==
  \/ UserCreate(u)
  \/ UserSetCallback(u)
  \/ UserSetTarget(u)
  \/ UserSend(u)
  \/ UserRelease(u)

Next ==
  \/ AppInit
  \/ AppTick
  \/ Second
  \/ Respond
  \/ Modem
  \/ MoveCTS
  \/ \E u \in Users : UserCall(u)

Spec == Init /\ [][Next]_vars

\* Time passes, and the application calls xbee_cmd_tick, or creates requests
\* in a full table, in infinitely many seconds.  Nothing is assumed of the
\* module or of the serial line.
FairSpec == Spec /\ []<>drv.ticked /\ []<>~drv.ticked

-----------------------------------------------------------------------------
(* Properties.                                                             *)

Sequence == 0 .. SeqMod - 1

HandleSpace == (Slots \X Sequence) \union {NoHandle}

CommandName == {Regs[n] : n \in 1 .. Len(Regs)} \union {"ID", None}

Request == [used : BOOLEAN, sequence : Sequence, left : Nat,
            callback : Users \union {Query, None}, frame_id : 0 .. MaxFrameId,
            command : CommandName, remote : BOOLEAN,
            owner : Users \union {Query, None}]

Driver ==
  [flags : SUBSET QueryFlag, auth_enabled : BOOLEAN, wpan : Wpan,
   frame_id : 1 .. MaxFrameId,
   clc : [status : {"RUNNING", "DONE", "TIMEOUT", "ERROR"},
          start : 0 .. Len(Regs) - 1, index : 0 .. Len(Regs)],
   table : [Slots -> Request], ticked : BOOLEAN,
   radio : SUBSET [frame_id : 1 .. MaxFrameId, command : CommandName,
                   remote : BOOLEAN, from : Slots \X Sequence],
   user : [Users -> HandleSpace], shared : BOOLEAN, cts : BOOLEAN]

\* Types.
TypeOK ==
  /\ drv \in Driver
  /\ used \in [DOMAIN Bounds -> Nat]

\* A handle the application holds finds its own request or no request at all:
\* never a free slot, nor the request the driver or another user has built
\* there since ("Rolling identifier used to prevent use of stale request
\* indicies", include/xbee/atcmd.h).
HandleSafe ==
  \A u \in Users :
    Valid(drv, drv.user[u]) =>
      LET r == drv.table[drv.user[u][1]]
      IN  r.used /\ r.owner = u

\* The search by frame ID, command and kind gives an answer to the request
\* that asked for it, or to none (_xbee_cmd_handle_response), unless the 255
\* frame IDs came round while a request still waited for its answer.
OwnResponse ==
  ~drv.shared =>
    \A x \in drv.radio :
      LET i == Matching(drv, x)
      IN  i # NoSlot => x.from = Handle(drv, i)

\* The driver has a request out for the query list.
Underway == \E i \in Slots : drv.table[i].used /\ drv.table[i].callback = Query

\* While xbee_cmd_query_status answers -EBUSY, "query underway"
\* (src/xbee/xbee_atcmd.c), a request of the query is out: its answer or its
\* timeout will change the answer.
BusyMeansUnderway == drv.clc.status = "RUNNING" => Underway

\* XBEE_DEV_FLAG_QUERY_INPROGRESS, "query is in progress" (include/xbee/device.h),
\* is set only while that is so; xbee_cmd_query_device starts nothing until
\* it is reset.
InProgressMeansUnderway == "INPROGRESS" \in drv.flags => Underway

\* Where that fails, with the table to itself, an answer came out of turn:
\* _xbee_cmd_list_callback gave the query up without its end handler, and
\* xbee_cmd_query_status answers -EIO.
OutOfTurn == drv.clc.status = "ERROR"

StuckIsReported == "INPROGRESS" \in drv.flags => Underway \/ OutOfTurn

\* A device that joined and lost or never got its address is asking for it, or
\* its last query ran to the end or to an answer out of turn: "a timeout/error
\* occured and we need to try again" (_xbee_cmd_query_handle_end), "need to kick
\* off discovery of my address" (_xbee_cmd_modem_status).
NeedsAddress == drv.wpan.joined /\ drv.wpan.network = "undefined"

AddressSought ==
  NeedsAddress /\ "DONE" \notin drv.flags => Underway \/ OutOfTurn

\* A refresh that had to wait is started, if only /CTS is up and no answer out
\* of turn has left a query that never ends.
RefreshServed ==
  "REFRESH" \in drv.flags ~> "REFRESH" \notin drv.flags \/ ~drv.cts \/ OutOfTurn

\* The loop that waits in the bench programs for the first query,
\* "while (status == -EBUSY)", ends even if the module never answers.  Only a
\* device that needs its address, or a module that holds /CTS, keeps it waiting.
BusyEnds ==
  drv.clc.status = "RUNNING" ~>
    drv.clc.status # "RUNNING" \/ NeedsAddress \/ ~drv.cts

=============================================================================
