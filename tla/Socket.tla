------------------------------- MODULE Socket -------------------------------
(***************************************************************************)
(* The socket layer (src/xbee/xbee_socket.c): a table of sockets on the    *)
(* host for the sockets of a cellular module.  A call of the application   *)
(* sends a frame; what came of it arrives later as a frame of its own and  *)
(* is matched to a table entry by a small number.                          *)
(*                                                                         *)
(* An action is one API call, one frame handled, or one step of the        *)
(* module.  The notification callback runs inside the handler and may      *)
(* close its socket there: act.  A call's frame is written (ok) or         *)
(* refused because the transmit buffer is full or /CTS is down.            *)
(*                                                                         *)
(* External: the module.  It works on the host's frames in any order but   *)
(* its own frames arrive in order and complete (FrameRx).  A frame of the  *)
(* host reaches it at once: what it sends before it has read one is        *)
(* already on line.                                                        *)
(*                                                                         *)
(* Incarnations (inc, tag) number the sockets; the code has no such thing, *)
(* the properties use them to tell sockets with the same numbers apart.    *)
(***************************************************************************)
EXTENDS Integers, Sequences, FiniteSets

CONSTANTS
  SocketCount,   \* XBEE_SOCK_SOCKET_COUNT
  MaxFrameId,    \* 255: frame IDs run from 1 to here
  ModuleIds,     \* the socket IDs the module gives out
  Bounds,        \* how often each kind of thing happens, and all together
  LineMax        \* bound on the frames the host has not read

\* 0 is what an entry holds before it knows its ID, and 0xFF means all.
ASSUME SocketAssumption ==
  /\ SocketCount \in Nat \ {0}
  /\ MaxFrameId \in Nat \ {0, 1}
  /\ 0 \notin ModuleIds
  /\ 255 \notin ModuleIds
  /\ Bounds \in [{"create", "attach", "data", "client", "close", "busy",
                  "all"} -> Nat]
  /\ LineMax \in Nat

VARIABLES
  table,      \* socket_table
  frame_id,   \* last frame ID used by the device
  asked,      \* create frames the module has not worked on
  mod,        \* the module's sockets, by ID
  line,       \* frames from the module, oldest first
  held,       \* the sockets the application has and has not been told are closed
  orphans,    \* sockets given up on the host while the module had or would make them
  misled,     \* a handler ran for a frame about another socket
  incs,       \* sockets made so far
  used        \* how much of Bounds is used up

vars == <<table, frame_id, asked, mod, line, held, orphans, misled, incs, used>>

Slots == 0 .. SocketCount - 1
NoSlot == -1

Protocol == {"UDP", "TCP"}

\* What the union in an entry holds: the callback for data, for datagrams
\* with their sender, or for new clients.
Callback == {"none", "receive", "receive_from", "ipv4_client"}

Type == {"AVAILABLE", "PENDING", "CREATED", "ATTACH", "CONNECT", "BIND", "LISTEN"}

\* _socket_free
Free == [type |-> "AVAILABLE", create_frame_id |-> 0, tx_frame_id |-> 0,
         socket_id |-> 0, protocol |-> "UDP", xbee |-> FALSE, option |-> FALSE,
         handler |-> "none", inc |-> 0]

Phase == {"idle", "connecting", "opening", "connected", "open"}

-----------------------------------------------------------------------------
(* Lookups and helpers.                                                     *)

LowestSlot(S) == IF S = {} THEN NoSlot ELSE CHOOSE i \in S : \A j \in S : i <= j

\* xbee_next_frame_id
NextFrameId == IF frame_id = MaxFrameId THEN 1 ELSE frame_id + 1

\* _xbee_sock_t
Handle(i) == <<i, table[i].create_frame_id>>

\* _lookup_sock_t does not ask whether the entry is in use; a freed one has 0.
Lookup(h) == IF table[h[1]].create_frame_id = h[2] THEN h[1] ELSE NoSlot

\* Mutant: an entry that waits for its ID matches any.
LookupIdPending(id) ==
  LowestSlot({i \in Slots : table[i].xbee /\ table[i].socket_id \in {0, id}})

\* _lookup_socket_id
LookupId(id) ==
  LowestSlot({i \in Slots : /\ table[i].type # "AVAILABLE"
                            /\ table[i].xbee
                            /\ table[i].socket_id = id})

\* _socket_alloc: the fields it does not set are those of Free.
FreeSlot == LowestSlot({i \in Slots : table[i].type = "AVAILABLE"})

Within(kind) == used[kind] < Bounds[kind] /\ used["all"] < Bounds["all"]

Use(kind) == used' = [used EXCEPT ![kind] = @ + 1, !["all"] = @ + 1]

\* The application is told, or knows, that the socket in slot i is gone.
Drop(i) == {x \in held : x.inc # table[i].inc}

\* The module without the sockets in ids.
Without(ids) == [id \in DOMAIN mod \ ids |-> mod[id]]

\* The sockets the module has or is about to make.
AtModule == {mod[id].tag : id \in DOMAIN mod} \union {a.tag : a \in {b \in asked : b.kind = "create"}}

-----------------------------------------------------------------------------
(* The application's calls.  A call that finds nothing to do returns an     *)
(* error and changes nothing; such calls are not actions.                   *)

\* A frame written or refused.
Written(ok) == IF ok THEN UNCHANGED used ELSE Within("busy") /\ Use("busy")

\* xbee_sock_create
Create(p, ok) ==
  LET i == FreeSlot
      s == [table[i] EXCEPT !.type = "PENDING", !.xbee = TRUE, !.protocol = p,
                            !.create_frame_id = NextFrameId, !.inc = incs + 1]
  IN  /\ i # NoSlot
      /\ frame_id' = NextFrameId
      /\ IF ok
         THEN /\ Within("create")
              /\ Use("create")
              /\ table' = [table EXCEPT ![i] = s]
              /\ asked' = asked \union {[kind |-> "create", fid |-> NextFrameId,
                                         id |-> 0, tag |-> incs + 1]}
              /\ held' = held \union {[h |-> <<i, NextFrameId>>, inc |-> incs + 1]}
              /\ incs' = incs + 1
         ELSE /\ Written(FALSE)
              /\ table' = [table EXCEPT ![i] = Free]
              /\ UNCHANGED <<asked, held, incs>>
      /\ UNCHANGED <<mod, line, orphans, misled>>

CallbackOf(how) == IF how = "connect" THEN "receive"
                   ELSE IF how = "bind" THEN "receive_from" ELSE "ipv4_client"

\* Mutant: listening is not refused for UDP.
MayAttachAny(s, how) ==
  /\ s.type \in {"AVAILABLE", "PENDING", "CREATED"}
  /\ how = "bind" => s.protocol = "UDP"

\* The refusals of xbee_sock_connect and _common_bind_listen: a socket that
\* is still PENDING, with socket_id 0, is let through.
MayAttach(s, how) ==
  /\ s.type \in {"AVAILABLE", "PENDING", "CREATED"}
  /\ how # "connect" => (how = "bind") = (s.protocol = "UDP")

\* xbee_sock_connect, xbee_sock_bind, xbee_sock_listen
Attach(x, how, ok) ==
  LET i == Lookup(x.h)
      s == table[i]
  IN  /\ i # NoSlot
      /\ MayAttach(s, how)
      /\ frame_id' = NextFrameId
      /\ IF ok
         THEN /\ Within("attach")
              /\ Use("attach")
              /\ table' = [table EXCEPT ![i].type = "ATTACH",
                                        ![i].handler = CallbackOf(how)]
              /\ orphans' = IF s.type = "PENDING" THEN orphans \union {s.inc} ELSE orphans
              /\ IF s.socket_id \in DOMAIN mod
                 THEN /\ mod' = [mod EXCEPT ![s.socket_id].phase =
                                   IF how = "connect" THEN "connecting" ELSE "opening"]
                      /\ UNCHANGED line
                 ELSE /\ line' = Append(line, [t |-> "ATTACH_RESP", id |-> s.socket_id,
                                               connect |-> how = "connect", good |-> FALSE,
                                               tag |-> s.inc])
                      /\ UNCHANGED mod
         ELSE /\ Written(FALSE)
              /\ UNCHANGED <<table, mod, line, orphans>>
      /\ UNCHANGED <<asked, held, misled, incs>>

\* xbee_sock_send and xbee_sock_sendto
Send(x, ok) ==
  LET i == Lookup(x.h)
  IN  /\ i # NoSlot
      /\ table[i].type \in {"CONNECT", "BIND"}
      /\ frame_id' = NextFrameId
      /\ IF ok
         THEN /\ Within("data")
              /\ Use("data")
              /\ table' = [table EXCEPT ![i].tx_frame_id = NextFrameId]
              /\ asked' = asked \union {[kind |-> "send", fid |-> NextFrameId,
                                         id |-> table[i].socket_id, tag |-> table[i].inc]}
         ELSE Written(FALSE) /\ UNCHANGED <<table, asked>>
      /\ UNCHANGED <<mod, line, held, orphans, misled, incs>>

\* xbee_sock_option, with a callback or without.
Option(x, callback, ok) ==
  LET i == Lookup(x.h)
  IN  /\ i # NoSlot
      /\ table[i].type \notin {"AVAILABLE", "PENDING"}
      /\ frame_id' = IF callback THEN NextFrameId ELSE frame_id
      /\ IF ok
         THEN /\ Within("data")
              /\ Use("data")
              /\ table' = [table EXCEPT ![i].option = callback]
              /\ asked' = IF callback
                          THEN asked \union {[kind |-> "option", fid |-> NextFrameId,
                                              id |-> table[i].socket_id, tag |-> table[i].inc]}
                          ELSE asked
         ELSE Written(FALSE) /\ UNCHANGED <<table, asked>>
      /\ UNCHANGED <<mod, line, held, orphans, misled, incs>>

\* xbee_sock_close.  A PENDING socket is closed with socket ID 0, and the
\* module makes it all the same.
Close(x, ok) ==
  LET i == Lookup(x.h)
      s == table[i]
  IN  /\ i # NoSlot
      /\ IF ok
         THEN /\ Within("close")
              /\ Use("close")
              /\ mod' = Without({s.socket_id})
              /\ table' = [table EXCEPT ![i] = Free]
              /\ held' = Drop(i)
              /\ orphans' = IF s.type = "PENDING" THEN orphans \union {s.inc} ELSE orphans
         ELSE Written(FALSE) /\ UNCHANGED <<table, mod, held, orphans>>
      /\ UNCHANGED <<frame_id, asked, line, misled, incs>>

\* xbee_sock_close_all, of one device or (all) of every one: in the order
\* of the table, until a frame is refused at slot k.  An entry without a
\* device refuses its frame too.
CloseAll(all, k) ==
  LET open == {i \in Slots : /\ table[i].type \notin {"AVAILABLE", "PENDING"}
                             /\ all \/ table[i].xbee}
      gone == {i \in open : i < k}
  IN  /\ Within("close")
      /\ open # {}
      /\ \A i \in gone : table[i].xbee
      /\ k \in Slots => /\ k \in open
                        /\ table[k].xbee => Within("busy")
      /\ used' = [used EXCEPT !["close"] = @ + 1, !["all"] = @ + 1,
                              !["busy"] = IF k \in Slots /\ table[k].xbee THEN @ + 1 ELSE @]
      /\ mod' = Without({table[i].socket_id : i \in gone})
      /\ table' = [i \in Slots |-> IF i \in gone THEN Free ELSE table[i]]
      /\ held' = {x \in held : \A i \in gone : x.inc # table[i].inc}
      /\ UNCHANGED <<frame_id, asked, line, orphans, misled, incs>>

\* xbee_sock_reset forgets the host's sockets whether or not the module hears
\* of it, without telling anybody.
Reset(ok) ==
  /\ Within("close")
  /\ ok \/ Within("busy")
  /\ used' = [used EXCEPT !["close"] = @ + 1, !["all"] = @ + 1,
                          !["busy"] = IF ok THEN @ ELSE @ + 1]
  /\ table' = [i \in Slots |-> IF table[i].xbee THEN Free ELSE table[i]]
  /\ held' = {}
  /\ mod' = IF ok THEN Without(DOMAIN mod) ELSE mod
  /\ orphans' = orphans \union
                  (IF ok THEN {a.tag : a \in {b \in asked : b.kind = "create"}} ELSE AtModule)
  /\ UNCHANGED <<frame_id, asked, line, misled, incs>>

-----------------------------------------------------------------------------
(* The module (external).                                                   *)

\* The module does not give out the ID of a socket it closed by itself until
\* the host has read that it did, nor one it still owes an answer about: the
\* host would take the answer for the new socket's.
FreshId(id) ==
  /\ id \in ModuleIds \ DOMAIN mod
  /\ \A a \in asked : ~(a.kind = "option" /\ a.id = id)
  /\ \A k \in 1 .. Len(line) : ~(line[k].t = "STATE" /\ line[k].id = id)

WithSocket(id, tag, phase) ==
  [j \in DOMAIN mod \union {id} |-> IF j = id THEN [tag |-> tag, phase |-> phase]
                                    ELSE mod[j]]

Says(m) == Len(line) < LineMax /\ line' = Append(line, m)

ModCreate(a, id) ==
  /\ a.kind = "create"
  /\ asked' = asked \ {a}
  /\ \/ /\ FreshId(id)
        /\ mod' = WithSocket(id, a.tag, "idle")
        /\ Says([t |-> "CREATE_RESP", fid |-> a.fid, id |-> id, good |-> TRUE, tag |-> a.tag])
     \/ /\ Says([t |-> "CREATE_RESP", fid |-> a.fid, id |-> 0, good |-> FALSE, tag |-> a.tag])
        /\ UNCHANGED mod
  /\ UNCHANGED <<table, frame_id, held, orphans, misled, incs, used>>

ModAttach(id, good) ==
  /\ mod[id].phase \in {"connecting", "opening"}
  /\ mod' = [mod EXCEPT ![id].phase =
               IF ~good THEN "idle" ELSE IF @ = "connecting" THEN "connected" ELSE "open"]
  /\ Says([t |-> "ATTACH_RESP", id |-> id, connect |-> mod[id].phase = "connecting",
           good |-> good, tag |-> mod[id].tag])
  /\ UNCHANGED <<table, frame_id, asked, held, orphans, misled, incs, used>>

ModAnswer(a) ==
  /\ a.kind \in {"send", "option"}
  /\ asked' = asked \ {a}
  /\ Says([t |-> IF a.kind = "send" THEN "TX_STATUS" ELSE "OPTION_RESP",
           fid |-> a.fid, id |-> a.id, tag |-> a.tag])
  /\ UNCHANGED <<table, frame_id, mod, held, orphans, misled, incs, used>>

\* The connection is lost, refused or closed by the other side.
ModState(id) ==
  /\ mod' = Without({id})
  /\ Says([t |-> "STATE", id |-> id, tag |-> mod[id].tag])
  /\ UNCHANGED <<table, frame_id, asked, held, orphans, misled, incs, used>>

ModClient(id, client) ==
  /\ Within("client")
  /\ Use("client")
  /\ mod[id].phase = "open"
  /\ FreshId(client)
  /\ mod' = WithSocket(client, incs + 1, "connected")
  /\ incs' = incs + 1
  /\ Says([t |-> "CLIENT", id |-> id, tag |-> mod[id].tag,
           client |-> client, clientTag |-> incs + 1])
  /\ UNCHANGED <<table, frame_id, asked, held, orphans, misled>>

ModReceive(id) ==
  /\ Within("data")
  /\ Use("data")
  /\ mod[id].phase \in {"connected", "open"}
  /\ Says([t |-> IF mod[id].phase = "open" THEN "RECEIVE_FROM" ELSE "RECEIVE",
           id |-> id, tag |-> mod[id].tag])
  /\ UNCHANGED <<table, frame_id, asked, mod, held, orphans, misled, incs>>

-----------------------------------------------------------------------------
(* xbee_sock_frame_handler, one action for each kind of frame.              *)

\* What the callback does with its socket.
Acts == {"none", "close"}

Frame(t) == line # <<>> /\ Head(line).t = t

\* A callback is told of m for slot i.  The ID in an answer to a hasty
\* attach, or to an option after one, is 0.
Tell(m, i) ==
  misled' = (misled \/ /\ m.tag # table[i].inc
                       /\ m.t \in {"ATTACH_RESP", "OPTION_RESP"} => m.id # 0)

Ignored == UNCHANGED <<table, mod, held, misled>>

\* handle_tx_status
HandleTxStatus(act) ==
  LET m == Head(line)
      i == LowestSlot({j \in Slots : table[j].xbee /\ table[j].tx_frame_id = m.fid})
  IN  /\ Frame("TX_STATUS")
      /\ line' = Tail(line)
      /\ IF i = NoSlot THEN Ignored
         ELSE /\ Tell(m, i)
              /\ IF act = "close"
                 THEN /\ table' = [table EXCEPT ![i] = Free]
                      /\ mod' = Without({table[i].socket_id})
                      /\ held' = Drop(i)
                 ELSE /\ table' = [table EXCEPT ![i].tx_frame_id = 0]
                      /\ UNCHANGED <<mod, held>>
      /\ UNCHANGED <<frame_id, asked, orphans, incs, used>>

\* Mutant: a failed socket is kept.
KeepFailed(m, i, act) ==
  IF m.good /\ act = "none"
  THEN [table[i] EXCEPT !.type = "CREATED", !.socket_id = m.id]
  ELSE IF m.good THEN Free ELSE [table[i] EXCEPT !.type = "CREATED"]

\* Mutant: the ID is taken from the byte before it.
CreatedWithFrameId(m, i, act) ==
  IF m.good /\ act = "none"
  THEN [table[i] EXCEPT !.type = "CREATED", !.socket_id = m.fid]
  ELSE Free

\* Mutant: the status is tested the wrong way round.
CreatedIfFailed(m, i, act) ==
  IF ~m.good /\ act = "none"
  THEN [table[i] EXCEPT !.type = "CREATED", !.socket_id = m.id]
  ELSE Free

\* The entry after a Create Response and its callback.
Created(m, i, act) ==
  IF m.good /\ act = "none"
  THEN [table[i] EXCEPT !.type = "CREATED", !.socket_id = m.id]
  ELSE Free

\* handle_create_resp: one that matches no PENDING entry is dropped.
HandleCreateResp(act) ==
  LET m == Head(line)
      i == LowestSlot({j \in Slots : /\ table[j].type = "PENDING"
                                     /\ table[j].xbee
                                     /\ table[j].create_frame_id = m.fid})
  IN  /\ Frame("CREATE_RESP")
      /\ line' = Tail(line)
      /\ IF i = NoSlot THEN Ignored
         ELSE /\ Tell(m, i)
              /\ table' = [table EXCEPT ![i] = Created(m, i, act)]
              /\ mod' = IF act = "close" THEN Without({m.id}) ELSE mod
              /\ held' = IF m.good /\ act = "none" THEN held ELSE Drop(i)
      /\ UNCHANGED <<frame_id, asked, orphans, incs, used>>

\* Mutant: a refusal counts as well.
AttachedAnyway(m, i) ==
  IF m.connect THEN "CONNECT"
  ELSE IF table[i].protocol = "UDP" THEN "BIND" ELSE "LISTEN"

\* The type an entry gets with an answer to its attach.
Attached(m, i) ==
  IF ~m.good THEN "CREATED"
  ELSE IF m.connect THEN "CONNECT"
  ELSE IF table[i].protocol = "UDP" THEN "BIND" ELSE "LISTEN"

\* handle_attach_resp: the type is written after the callback, into a freed
\* entry if the callback closed the socket.
HandleAttachResp(act) ==
  LET m == Head(line)
      i == LookupId(m.id)
  IN  /\ Frame("ATTACH_RESP")
      /\ line' = Tail(line)
      /\ IF i = NoSlot \/ table[i].type # "ATTACH" THEN Ignored
         ELSE /\ Tell(m, i)
              /\ table' = [table EXCEPT
                             ![i] = [(IF act = "close" THEN Free ELSE @)
                                       EXCEPT !.type = Attached(m, i)]]
              /\ mod' = IF act = "close" THEN Without({m.id}) ELSE mod
              /\ held' = IF act = "close" THEN Drop(i) ELSE held
      /\ UNCHANGED <<frame_id, asked, orphans, incs, used>>

\* handle_option_resp, handle_receive and handle_receive_from: a callback
\* that closes its socket is a call of xbee_sock_close right after.
HandleData(t) ==
  LET m == Head(line)
      i == LookupId(m.id)
      called == \/ t = "OPTION_RESP"  /\ table[i].option
                \/ t = "RECEIVE"      /\ table[i].type = "CONNECT"
                \/ t = "RECEIVE_FROM" /\ table[i].type = "BIND"
  IN  /\ Frame(t)
      /\ line' = Tail(line)
      /\ IF i # NoSlot /\ called THEN Tell(m, i) ELSE UNCHANGED misled
      /\ UNCHANGED <<table, frame_id, asked, mod, held, orphans, incs, used>>

\* handle_sock_state, for a state that is an error.  The module no longer has
\* the socket: a callback that closes it once more changes nothing.
HandleState ==
  LET m == Head(line)
      i == LookupId(m.id)
  IN  /\ Frame("STATE")
      /\ line' = Tail(line)
      /\ IF i = NoSlot THEN Ignored
         ELSE /\ Tell(m, i)
              /\ table' = [table EXCEPT ![i] = Free]
              /\ held' = Drop(i)
              /\ UNCHANGED mod
      /\ UNCHANGED <<frame_id, asked, orphans, incs, used>>

\* handle_ipv4_client.  The callback accepts the client, rejects it, or
\* closes it and accepts it all the same; the handler is then written into
\* the freed entry.  Without a free entry there is only rejecting.
HandleClient(act, ok) ==
  LET m == Head(line)
      l == LookupId(m.id)
      c == FreeSlot
      s == [table[c] EXCEPT !.type = "CONNECT", !.xbee = TRUE, !.inc = m.clientTag,
                            !.socket_id = m.client, !.protocol = table[l].protocol,
                            !.create_frame_id = table[l].create_frame_id,
                            !.handler = "receive"]
  IN  /\ Frame("CLIENT")
      /\ line' = Tail(line)
      /\ IF l = NoSlot \/ table[l].type # "LISTEN"
         THEN /\ orphans' = orphans \union {m.clientTag}
              /\ Ignored
              /\ UNCHANGED used
         ELSE /\ Tell(m, l)
              /\ \/ /\ act = "accept" /\ c # NoSlot
                    /\ table' = [table EXCEPT ![c] = s]
                    /\ held' = held \union {[h |-> <<c, s.create_frame_id>>,
                                             inc |-> m.clientTag]}
                    /\ UNCHANGED <<mod, orphans, used>>
                 \/ /\ act = "close" /\ c # NoSlot
                    /\ table' = [table EXCEPT ![c] = [Free EXCEPT !.handler = "receive"]]
                    /\ mod' = Without({m.client})
                    /\ UNCHANGED <<held, orphans, used>>
                 \/ /\ act = "reject" \/ c = NoSlot
                    /\ table' = IF c = NoSlot THEN table ELSE [table EXCEPT ![c] = Free]
                    /\ Written(ok)
                    /\ mod' = IF ok THEN Without({m.client}) ELSE mod
                    /\ orphans' = IF ok THEN orphans ELSE orphans \union {m.clientTag}
                    /\ UNCHANGED held
      /\ UNCHANGED <<frame_id, asked, incs>>

-----------------------------------------------------------------------------
Init ==
  /\ table = [i \in Slots |-> Free]
  /\ frame_id = 0
  /\ asked = {}
  /\ mod = [id \in {} |-> 0]
  /\ line = <<>>
  /\ held = {}
  /\ orphans = {}
  /\ misled = FALSE
  /\ incs = 0
  /\ used = [k \in DOMAIN Bounds |-> 0]

Application ==
  \E ok \in BOOLEAN :
    \/ \E p \in Protocol : Create(p, ok)
    \/ Reset(ok)
    \/ \E x \in held :
         \/ \E how \in {"connect", "bind", "listen"} : Attach(x, how, ok)
         \/ Send(x, ok)
         \/ \E callback \in BOOLEAN : Option(x, callback, ok)
         \/ Close(x, ok)

Module ==
  \/ \E a \in asked : (\E id \in ModuleIds : ModCreate(a, id)) \/ ModAnswer(a)
  \/ \E id \in DOMAIN mod :
       \/ \E good \in BOOLEAN : ModAttach(id, good)
       \/ ModState(id)
       \/ \E client \in ModuleIds : ModClient(id, client)
       \/ ModReceive(id)

Handler ==
  \/ \E act \in Acts : \/ HandleTxStatus(act)
                       \/ HandleCreateResp(act)
                       \/ HandleAttachResp(act)
  \/ \E t \in {"OPTION_RESP", "RECEIVE", "RECEIVE_FROM"} : HandleData(t)
  \/ HandleState
  \/ \E act \in {"accept", "reject", "close"}, ok \in BOOLEAN : HandleClient(act, ok)

Next ==
  \/ Application
  \/ \E all \in BOOLEAN, k \in 0 .. SocketCount : CloseAll(all, k)
  \/ Module
  \/ Handler

Spec == Init /\ [][Next]_vars

-----------------------------------------------------------------------------
(* Properties.                                                              *)

Entry == [type : Type, create_frame_id : 0 .. MaxFrameId, tx_frame_id : 0 .. MaxFrameId,
          socket_id : {0} \union ModuleIds, protocol : Protocol, xbee : BOOLEAN,
          option : BOOLEAN, handler : Callback, inc : Nat]

\* The variables keep to their types.
TypeOK ==
  /\ table \in [Slots -> Entry]
  /\ frame_id \in 0 .. MaxFrameId
  /\ DOMAIN mod \subseteq ModuleIds
  /\ \A id \in DOMAIN mod : mod[id] \in [tag : Nat, phase : Phase]
  /\ misled \in BOOLEAN
  /\ incs \in Nat

\* A handle the application has, and has not been told is closed, leads to the
\* socket it was given for, through clients accepted, slots reused and
\* sockets closed from callbacks; and no entry of the device is in use that
\* the application was not given.
HandleSafe ==
  /\ \A x \in held : Lookup(x.h) # NoSlot /\ table[Lookup(x.h)].inc = x.inc
  /\ \A i \in Slots : table[i].xbee => \E x \in held : x.inc = table[i].inc

\* A callback is never told what happened to another socket, although frames
\* are matched by numbers that are given out again.
OwnNotice == ~misled

\* The callback in an entry's union is of the kind its type calls: an
\* established socket never calls a function of another signature.
CallbackFits ==
  \A i \in Slots : table[i].xbee =>
    /\ table[i].type = "CONNECT" => table[i].handler = "receive"
    /\ table[i].type = "BIND"    => table[i].handler = "receive_from"
    /\ table[i].type = "LISTEN"  => table[i].handler = "ipv4_client"

NoNews(inc) == \A k \in 1 .. Len(line) : line[k].tag # inc

\* When nothing about a socket is on its way, the host's idea of it is the
\* module's: unless it was attached or closed before it was created, or reset.
HostViewTrue ==
  \A i \in Slots :
    LET s == table[i]
        Is(phase) == s.socket_id \in DOMAIN mod
                     /\ mod[s.socket_id] = [tag |-> s.inc, phase |-> phase]
    IN  s.xbee /\ s.inc \notin orphans /\ NoNews(s.inc) =>
          /\ s.type = "PENDING" => \E a \in asked : a.kind = "create" /\ a.tag = s.inc
          /\ s.type = "CREATED" => Is("idle")
          /\ s.type = "ATTACH"  => Is("connecting") \/ Is("opening")
          /\ s.type = "CONNECT" => Is("connected")
          /\ s.type \in {"BIND", "LISTEN"} => Is("open")

\* The module keeps no socket the host has forgotten: unless it was attached or closed
\* before it was created, rejected without room for the frame, or reset.
NoneForgotten ==
  \A tag \in AtModule \ orphans :
    \/ \E i \in Slots : table[i].xbee /\ table[i].inc = tag
    \/ \E k \in 1 .. Len(line) : line[k].t = "CLIENT" /\ line[k].clientTag = tag

=============================================================================
