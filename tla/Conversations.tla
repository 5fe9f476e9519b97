---------------------------- MODULE Conversations ----------------------------
(* Outstanding requests of the endpoints of one wpan_dev_t (wpan_aps.c), as    *)
(* ZDO and ZCL use them: wpan_conversation_register before a request is sent,  *)
(* wpan_conversation_response when the dispatcher has handed a response to the *)
(* endpoint, and _wpan_endpoint_expire_conversations at the end of wpan_tick.  *)
EXTENDS Envelope, FiniteSets

CONSTANTS
    Requests,      \* context pointers: what a caller asks for
    Style,         \* Requests -> "once" | "many" | "any": its wpan_response_fn
    Slots,         \* WPAN_MAX_CONVERSATIONS
    TransMod,      \* 256: last_transaction is a uint8_t
    TimeMod,       \* 65536: deadlines are uint16_t
    Timeouts,      \* Requests -> seconds its caller may ask for, 0 for never
    RowsOf,        \* Requests -> rows of the endpoints it may be sent from
    Traffic,       \* [cluster, kind, options] of the frames that may arrive
    PauseMax,      \* bound: seconds between two calls of wpan_tick
    SentMax,       \* bound: requests the network still remembers
    IssueMax       \* bound: transaction IDs taken, per endpoint

NoRequest == "none"
Keeping == UNION {RowsOf[q] : q \in Requests}   \* endpoints that make requests
Half == TimeMod \div 2
(* A deadline is at most half the range away, and a tick comes before it is a  *)
(* half range old.                                                             *)
ASSUME TimeAssumption ==
    /\ TimeMod \in Nat \ {0} /\ PauseMax \in Nat
    /\ Timeouts \in [Requests -> SUBSET Nat]
    /\ \A q \in Requests : \A t \in Timeouts[q] : t + PauseMax + 1 < Half

ASSUME RequestAssumption ==
    /\ NoRequest \notin Requests
    /\ {Slots, TransMod} \subseteq Nat \ {0}
    /\ Style \in [Requests -> {"once", "many", "any"}]
    /\ RowsOf \in [Requests -> SUBSET Rows]
    /\ IssueMax \in [Rows -> Nat]

\* The radio sets the options; the broadcast endpoint's is the dispatcher's.
ASSUME TrafficAssumption ==
    Traffic \subseteq [cluster : {t.cluster : t \in Traffic},
                      kind : {"zdoResponse", "zdoRequest", "zclResponse", "zclDefault", "zclRequest"},
                      options : SUBSET {"broadcastAddr", "apsEncrypt"}]

VARIABLES
    conversations,     \* wpan_ep_state_t.conversations, per row
    issued,            \* transaction IDs taken per row, last_transaction unwrapped
    seconds,           \* xbee_seconds_timer, its low 16 bits
    phase,             \* "idle" | "dispatch" | "expire": inside wpan_tick
    env,               \* the envelope being dispatched
    ep,                \* the row it was last dispatched to
    at, now,           \* where the expiry walk is, and the time it goes by
    sent,              \* requests a node may still answer
    state,             \* per request: "idle", "open" until its handler's last call, "done"
    strayed,           \* requests whose handler was given another's answer
    complaints,        \* Default Responses sent for this envelope
    pause              \* seconds since the last wpan_tick

table == <<conversations, issued, sent, state, strayed>>
walk == <<phase, env, ep, at, now>>
vars == <<table, seconds, walk, complaints, pause>>

Free == [req |-> NoRequest, timeout |-> 0, id |-> 0, limit |-> 0, age |-> 0, serial |-> 0]
NoEnv == [kind |-> "none"]
Unasked == {"zdoRequest", "zclRequest"}

Aged(e) == [e EXCEPT !.age = IF e.limit > 0 /\ @ < e.limit + PauseMax + 2 THEN @ + 1 ELSE @]

(* The part of the state a handler may change.                                 *)
World == [conv |-> conversations, issued |-> issued, sent |-> sent,
          state |-> state, strayed |-> strayed]
Become(w) == /\ conversations' = w.conv /\ issued' = w.issued
             /\ sent' = w.sent /\ state' = w.state /\ strayed' = w.strayed

(* wpan_endpoint_next_trans: ++last_transaction, and the ID it wraps to.       *)
NextTrans(w, r) == [w EXCEPT !.issued[r] = @ + 1]
IdOf(serial) == serial % TransMod

\* Mutant: the sum of timeout and timer is not cut to 16 bits.
DeadlineWide(t) == IF t = 0 THEN 0 ELSE t + seconds

\* Mutant: a deadline that comes out as 0 is kept.
DeadlineZero(t) == IF t = 0 THEN 0 ELSE (t + seconds) % TimeMod

(* wpan_conversation_register: the deadline.                                   *)
Deadline(t) == IF t = 0 THEN 0
               ELSE LET d == (t + seconds) % TimeMod IN IF d = 0 THEN 1 ELSE d

\* Mutant: a full table loses its first entry.
FreeSlotAny(w, r) == LET i == SelectInSeq(w.conv[r], LAMBDA e : e.req = NoRequest)
                     IN  IF i = 0 THEN 1 ELSE i

(* wpan_conversation_register: the first free entry, 0 when the table is full. *)
FreeSlot(w, r) == SelectInSeq(w.conv[r], LAMBDA e : e.req = NoRequest)

Registered(w, r, q, t) ==
    [NextTrans(w, r) EXCEPT !.conv[r][FreeSlot(w, r)] =
        [req |-> q, timeout |-> Deadline(t), id |-> IdOf(w.issued[r] + 1),
         limit |-> t, age |-> 0, serial |-> w.issued[r] + 1]]

Transmitted(w, r, q) ==
    IF Cardinality(w.sent) < SentMax
    THEN [w EXCEPT !.sent = @ \cup {[row |-> r, serial |-> w.issued[r], req |-> q]}]
    ELSE w

(* zdo_send_descriptor_req, zdo_send_nwk_addr_req, zdo_send_match_desc and the *)
(* ZCL requests: register, or -ENOSPC; then send.  When the send fails the     *)
(* caller is told so and the entry stays.                                      *)
Asked(w, r, q, t) ==
    IF FreeSlot(w, r) = 0 THEN {w}
    ELSE LET n == [Registered(w, r, q, t) EXCEPT !.state[q] = "open"]
         IN  {n, Transmitted(n, r, q)}

(* An untracked request that takes its ID from wpan_endpoint_next_trans.       *)
Untracked(w, r) == Transmitted(NextTrans(w, r), r, NoRequest)

(* wpan_conversation_delete.                                                   *)
Deleted(w, r, i) == [w EXCEPT !.conv[r][i] = Free]

(* What a response handler may do besides returning: nothing, send an untracked*)
(* request (_zcl_send_read_from_zdo_match), or start another request.          *)
Followed(w) == {Untracked(w, r) : r \in {s \in Keeping : w.issued[s] < IssueMax[s]}}
Started(w, q) == UNION {Asked(w, r, q, t) :
                           r \in {s \in RowsOf[q] : w.issued[s] < IssueMax[s]}, t \in Timeouts[q]}

Reactions(w, q, answered) ==
    {w} \cup (IF Style[q] = "many" /\ answered THEN Followed(w) ELSE {})
        \cup (IF Style[q] = "any"
               THEN UNION {Started(w, p) : p \in {p \in Requests : w.state[p] = "idle"}} ELSE {})

\* Mutant: the ID is not compared.
LookupFirst(r, id) == SelectInSeq(conversations[r], LAMBDA e : e.req # NoRequest)

(* wpan_conversation_response: the first entry in use with the frame's ID.     *)
Lookup(r, id) == SelectInSeq(conversations[r],
                             LAMBDA e : e.id = id /\ e.req # NoRequest)

Returns(q) == [once |-> {"end"}, many |-> {"continue"}, any |-> {"end", "continue", "error"}][Style[q]]

(* Another's answer, with fewer IDs taken between the two than there are.      *)
Stray(e) == /\ env.req # e.req
            /\ e.serial - env.serial \in (1 - TransMod)..(TransMod - 1)

(* The worlds after a response is given to entry i, with the value returned.   *)
Responded(r, i) ==
    LET e == conversations[r][i]
        w0 == IF Stray(e) THEN [World EXCEPT !.strayed = @ \cup {e.req}] ELSE World
    IN  UNION {{[world |-> IF ret = "end"
                           THEN [Deleted(w, r, i) EXCEPT !.state[e.req] = "done"]
                           ELSE w,
                 ret |-> ret] : ret \in Returns(e.req)} : w \in Reactions(w0, e.req, TRUE)}

Complain(v) == complaints' = IF DefaultResponseSent(v)
                             THEN complaints + 1 ELSE complaints

(* zdo_handler: a response goes to its conversation and is ignored without     *)
(* one; an unsupported request is answered unless it was broadcast.            *)
ZdoHandler(r, v) ==
    \/ /\ v.kind = "zdoResponse"
       /\ LET i == Lookup(r, IdOf(v.serial))
          IN  IF i = 0 THEN UNCHANGED table
              ELSE \E o \in Responded(r, i) : Become(o.world)
       /\ UNCHANGED complaints
    \/ /\ v.kind # "zdoResponse"
       /\ complaints' = IF "broadcastAddr" \in v.options THEN complaints ELSE complaints + 1
       /\ UNCHANGED table

(* zcl_general_command: responses go to the conversation of the endpoint the   *)
(* envelope names; anything not taken is an invalid command.                   *)
ZclGeneralCommand(v) ==
    LET r == EndpointMatch(v.dest, v.profile)
        i == IF v.kind \in {"zclResponse", "zclDefault"} /\ r # 0 THEN Lookup(r, IdOf(v.serial)) ELSE 0
    IN  \/ /\ i = 0
           /\ Complain(v)
           /\ UNCHANGED table
        \/ /\ i # 0
           /\ \E o \in Responded(r, i) :
                 /\ Become(o.world)
                 /\ IF o.ret = "error" THEN Complain(v) ELSE UNCHANGED complaints

Handle(h, r, v) ==
    \/ h = "zdo_handler" /\ ZdoHandler(r, v)
    \/ h = "zcl_general_command" /\ ZclGeneralCommand(v)
    \/ h = "zcl_invalid_cluster" /\ Complain(v) /\ UNCHANGED table
    \/ h = NoHandler /\ UNCHANGED <<table, complaints>>

Init ==
    /\ conversations = [r \in Rows |-> [i \in 1..Slots |-> Free]]
    /\ issued = [r \in Rows |-> 0]
    /\ seconds = 0
    /\ phase = "idle" /\ env = NoEnv /\ ep = 0 /\ at = 0 /\ now = 0
    /\ sent = {}
    /\ state = [q \in Requests |-> "idle"]
    /\ strayed = {}
    /\ complaints = 0 /\ pause = 0

(* The program starts a request, or takes the next transaction ID.             *)
Ask == /\ phase = "idle"
       /\ \E q \in Requests : \E r \in RowsOf[q], t \in Timeouts[q] :
             /\ state[q] = "idle"
             /\ issued[r] < IssueMax[r]
             /\ \E w \in Asked(World, r, q, t) : Become(w)
       /\ UNCHANGED <<seconds, walk, complaints, pause>>

TakeTrans == /\ phase = "idle"
             /\ \E r \in Keeping : issued[r] < IssueMax[r] /\ Become(Untracked(World, r))
             /\ UNCHANGED <<seconds, walk, complaints, pause>>

(* The network forgets a request: it, or every answer to it, is lost.          *)
Lose == /\ \E f \in sent : sent' = sent \ {f}
        /\ UNCHANGED <<conversations, issued, state, strayed, seconds, walk,
                       complaints, pause>>

(* _xbee_handle_receive_explicit fills in the envelope and wpan_envelope_dispatch*)
(* starts: with the broadcast endpoint it marks the envelope.                  *)
Arrives(row, t, f, bcast) ==
    /\ phase = "idle" /\ phase' = "dispatch"
    /\ (t.kind \in {"zdoResponse", "zdoRequest"}) <=> (EndpointTable[row].handler = "zdo_handler")
    /\ env' = [dest |-> IF bcast THEN BroadcastEp ELSE EndpointTable[row].endpoint,
               profile |-> EndpointTable[row].profile, cluster |-> t.cluster, kind |-> t.kind,
               options |-> t.options \cup IF bcast THEN {"broadcastEp"} ELSE {},
               serial |-> f.serial, req |-> f.req]
    /\ ep' = 0 /\ complaints' = 0
    /\ UNCHANGED <<table, seconds, at, now, pause>>

(* A node answers a request: in time, late, or once more.                      *)
ReceiveAnswer == \E f \in sent, t \in Traffic :
    t.kind \notin Unasked /\ Arrives(f.row, t, f, FALSE)

(* A node makes a request of its own, of one endpoint or of all of a profile.  *)
ReceiveRequest == \E row \in Rows, t \in Traffic, bcast \in BOOLEAN :
    t.kind \in Unasked /\ Arrives(row, t, [serial |-> 0, req |-> NoRequest], bcast)

(* wpan_envelope_dispatch: the row it hands the envelope to next.              *)
NextRow == IF "broadcastEp" \in env.options THEN NextOfProfile(ep, env.profile)
           ELSE IF ep = 0 THEN EndpointMatch(env.dest, env.profile) ELSE 0

Dispatch ==
    /\ phase = "dispatch"
    /\ NextRow # 0
    /\ LET to == Route(Addressed(env, NextRow), NextRow)
       IN  /\ env' = to.env
           /\ Handle(to.handler, NextRow, to.env)
    /\ ep' = NextRow
    /\ UNCHANGED <<seconds, phase, at, now, pause>>

DispatchDone ==
    /\ phase = "dispatch"
    /\ NextRow = 0
    /\ phase' = "idle" /\ env' = NoEnv /\ ep' = 0 /\ complaints' = 0
    /\ UNCHANGED <<table, seconds, at, now, pause>>

(* wpan_tick, after the frames: walk every endpoint's conversations in turn.   *)
(* `at` counts the entries passed.                                             *)
ExpireStart ==
    /\ phase = "idle"
    /\ phase' = "expire" /\ at' = 0 /\ now' = seconds /\ pause' = 0
    /\ UNCHANGED <<table, seconds, env, ep, complaints>>

RowAt(n) == ((n - 1) \div Slots) + 1
SlotAt(n) == ((n - 1) % Slots) + 1

\* Mutant: deadline and time are compared without a sign.
DueUnsigned(e) == e.req # NoRequest /\ e.timeout # 0 /\ now >= e.timeout

(* (int16_t)(now - timeout) >= 0 of an entry in use with a deadline.           *)
Due(e) == /\ e.req # NoRequest
          /\ e.timeout # 0
          /\ (now - e.timeout) % TimeMod < Half

DueEntries == {n \in (at + 1)..(Len(EndpointTable) * Slots) :
                  Due(conversations[RowAt(n)][SlotAt(n)])}

(* The handler is told of the timeout, its return value is ignored, and the    *)
(* entry is deleted.                                                           *)
Expired(r, i) ==
    LET q == conversations[r][i].req
    IN  {[Deleted(w, r, i) EXCEPT !.state[q] = "done"] : w \in Reactions(World, q, FALSE)}

(* _wpan_endpoint_expire_conversations, up to the next entry that is due.      *)
ExpireEntry ==
    /\ phase = "expire"
    /\ DueEntries # {}
    /\ at' = CHOOSE n \in DueEntries : \A m \in DueEntries : n <= m
    /\ \E w \in Expired(RowAt(at'), SlotAt(at')) : Become(w)
    /\ UNCHANGED <<phase, env, ep, now, seconds, complaints, pause>>

ExpireDone ==
    /\ phase = "expire"
    /\ DueEntries = {}
    /\ phase' = "idle" /\ at' = 0 /\ now' = 0
    /\ UNCHANGED <<table, seconds, env, ep, complaints, pause>>

(* The seconds timer runs on; handlers take no time, and the program calls     *)
(* wpan_tick at least every PauseMax seconds.                                  *)
Second ==
    /\ pause < PauseMax
    /\ phase = "idle"
    /\ seconds' = (seconds + 1) % TimeMod
    /\ pause' = pause + 1
    /\ conversations' = [r \in Rows |-> [i \in 1..Slots |-> Aged(conversations[r][i])]]
    /\ UNCHANGED <<issued, sent, state, strayed, walk, complaints>>

Next == \/ Ask \/ TakeTrans \/ Lose \/ ReceiveAnswer \/ ReceiveRequest \/ Dispatch \/ DispatchDone
        \/ ExpireStart \/ ExpireEntry \/ ExpireDone \/ Second

Spec == Init /\ [][Next]_vars

-----------------------------------------------------------------------------
Entries == {<<r, i>> : r \in Rows, i \in 1..Slots}
Entry(x) == conversations[x[1]][x[2]]
Held(q) == {x \in Entries : Entry(x).req = q}

(* The type of the conversation tables and of the two walks over them.         *)
TypeOK ==
    /\ \A x \in Entries :
          /\ Entry(x).req \in Requests \cup {NoRequest}
          /\ Entry(x).timeout \in 0..(TimeMod - 1)
          /\ Entry(x).id \in 0..(TransMod - 1)
    /\ \A r \in Rows : issued[r] \in 0..IssueMax[r]
    /\ seconds \in 0..(TimeMod - 1) /\ now \in 0..(TimeMod - 1)
    /\ phase \in {"idle", "dispatch", "expire"}
    /\ ep \in 0..Len(EndpointTable) /\ at \in 0..(Len(EndpointTable) * Slots)
    /\ state \in [Requests -> {"idle", "open", "done"}]

(* A request that was registered holds exactly one entry until its handler has *)
(* had the last call, and no other request holds one: none is overwritten,     *)
(* forgotten or called after its end, whatever its handler started meanwhile.  *)
OpenHeld ==
    \A q \in Requests : Cardinality(Held(q)) = IF state[q] = "open" THEN 1 ELSE 0

(* A handler is given answers to its own request only, as long as fewer than   *)
(* TransMod transaction IDs were taken since either request was sent.          *)
OwnAnswer == strayed = {}

(* A timeout is reported only to a request that asked for one, and not before  *)
(* that many seconds have passed, wherever the 16-bit timer wraps.             *)
NotEarly ==
    [][\A q \in Requests :
          phase = "expire" /\ state[q] = "open" /\ state'[q] = "done" =>
             \E x \in Held(q) : Entry(x).limit > 0 /\ Entry(x).age >= Entry(x).limit]_vars

(* A handler sees the flags of the cluster it was found through and none of the*)
(* endpoints the broadcast loop served before; a frame for an encrypted cluster*)
(* reaches its ZCL handler only encrypted, unless the cluster lets a broadcast *)
(* by.                                                                         *)
OwnCluster ==
    phase = "dispatch" /\ ep # 0 =>
        LET c == ClusterMatch(env.cluster, Inout, EndpointTable[ep].clusters)
            flags == IF c = 0 THEN {} ELSE EndpointTable[ep].clusters[c].flags
            secret == IF "broadcastAddr" \in env.options
                      THEN {"encrypt"} ELSE {"encrypt", "encryptUnicast"}
            barred == /\ flags \cap secret # {}
                      /\ {"apsEncrypt", "notZcl"} \cap (flags \cup env.options) = {}
        IN  env.options \ FrameOptions = IF barred THEN {} ELSE flags

(* A frame draws at most one error report, and none when it was broadcast to   *)
(* every ZCL endpoint or is itself an error report.                            *)
NoStorm ==
    /\ complaints <= 1
    /\ complaints = 1 => env.kind # "zclDefault" /\ "broadcastAddr" \notin env.options
    /\ complaints = 1 /\ "broadcastEp" \in env.options => env.kind = "zdoRequest"

(* A request with a timeout is over PauseMax seconds after it at the latest,   *)
(* the second that a deadline of 0 is moved by included: no deadline is taken  *)
(* for "never", and none hides behind the wrap of the timer.                   *)
Timely == \A x \in Entries :
    Entry(x).limit > 0 => Entry(x).age <= Entry(x).limit + PauseMax
=============================================================================
