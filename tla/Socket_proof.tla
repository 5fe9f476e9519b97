---------------------------- MODULE Socket_proof ----------------------------
(* The socket layer for any table, any set of socket IDs and any bounds: each *)
(* property of Socket that the run checks is proved of Spec.  The handles are *)
(* safe whatever the frame IDs do.  The rest holds as long as FreshIds does:  *)
(* a frame ID given out again while its answer is awaited or unread may bring *)
(* the answer to the wrong socket, here as in the code.                       *)
(*                                                                            *)
(* The invariant speaks of a table T, requests A, module sockets M and a line *)
(* L, so that one lemma serves every step that gives sockets up.              *)
EXTENDS Socket, SequenceTheorems, WellFoundedInduction, TLAPS

-----------------------------------------------------------------------------
(* What is on its way.                                                        *)

Fid == 1 .. MaxFrameId
AnyId == {0} \union ModuleIds

Request == [kind : {"create", "send", "option"}, fid : Fid, id : AnyId, tag : Nat]

CreateResp == [t : {"CREATE_RESP"}, fid : Fid, id : AnyId, good : BOOLEAN, tag : Nat]
AttachResp == [t : {"ATTACH_RESP"}, id : AnyId, connect : BOOLEAN, good : BOOLEAN, tag : Nat]
Answered   == [t : {"TX_STATUS", "OPTION_RESP"}, fid : Fid, id : AnyId, tag : Nat]
News       == [t : {"STATE", "RECEIVE", "RECEIVE_FROM"}, id : ModuleIds, tag : Nat]
NewClient  == [t : {"CLIENT"}, id : ModuleIds, tag : Nat, client : ModuleIds, clientTag : Nat]

FrameType == CreateResp \union AttachResp \union Answered \union News \union NewClient

Typed ==
  /\ TypeOK
  /\ asked \subseteq Request
  /\ line \in Seq(FrameType)
  /\ held \subseteq [h : Slots \X Fid, inc : Nat]
  /\ orphans \subseteq Nat
  /\ used \in [DOMAIN Bounds -> Nat]

Live(T) == {i \in Slots : T[i].xbee}

Blank(T) == \A i \in Slots : T[i].type = "AVAILABLE" =>
  ~T[i].xbee /\ T[i].tx_frame_id = 0 /\ T[i].socket_id = 0

-----------------------------------------------------------------------------
(* Sockets and their numbers, whatever the frame IDs do.                      *)

(* The handles are those of the device's entries.                             *)
Kept(T, H) ==
  /\ \A x \in H : /\ T[x.h[1]].xbee
                  /\ T[x.h[1]].create_frame_id = x.h[2]
                  /\ T[x.h[1]].inc = x.inc
  /\ \A i \in Live(T) : \E x \in H : x.inc = T[i].inc

(* No number is above c.                                                      *)
Below(T, A, M, L, c) ==
  /\ \A i \in Slots : T[i].inc <= c
  /\ \A a \in A : a.tag <= c
  /\ \A id \in DOMAIN M : M[id].tag <= c
  /\ \A k \in 1 .. Len(L) : L[k].tag <= c /\ (L[k].t = "CLIENT" => L[k].clientTag <= c)

(* Entries and clients not yet accepted are different sockets.                *)
Apart(T, L) ==
  /\ \A i, j \in Live(T) : T[i].inc = T[j].inc => i = j
  /\ \A k \in 1 .. Len(L) : L[k].t = "CLIENT" =>
       /\ \A i \in Live(T) : T[i].inc # L[k].clientTag
       /\ \A j \in 1 .. Len(L) : L[j].t = "CLIENT" /\ L[j].clientTag = L[k].clientTag => j = k

(* A socket is asked for, made and gone once.                                 *)
Once(A, M, L) ==
  /\ \A a, b \in A : a.kind = "create" /\ b.kind = "create" /\ a.tag = b.tag => a = b
  /\ \A id, jd \in DOMAIN M : M[id].tag = M[jd].tag => id = jd
  /\ \A a \in A : a.kind = "create" => \A id \in DOMAIN M : M[id].tag # a.tag
  /\ \A k \in 1 .. Len(L) :
       /\ L[k].t \in {"CREATE_RESP", "STATE"} =>
            \A a \in A : a.kind = "create" => a.tag # L[k].tag
       /\ L[k].t = "CLIENT" => \A a \in A : a.kind = "create" => a.tag # L[k].clientTag
       /\ L[k].t = "STATE" => \A id \in DOMAIN M : M[id].tag # L[k].tag
       /\ L[k].t = "CREATE_RESP" =>
            \A id \in DOMAIN M : M[id].tag = L[k].tag => L[k].good /\ id = L[k].id
       /\ L[k].t = "CLIENT" =>
            \A id \in DOMAIN M : M[id].tag = L[k].clientTag => id = L[k].client
       /\ \A j \in 1 .. Len(L) : L[k].t = "CREATE_RESP" =>
            /\ L[j].t = "CREATE_RESP" /\ L[j].tag = L[k].tag => j = k
            /\ L[j].t = "CLIENT" => L[j].clientTag # L[k].tag

-----------------------------------------------------------------------------
(* Frame IDs.                                                                 *)

(* Those of frames whose answer, which brings the frame ID back, is to come.  *)
Outstanding(A, L) ==
  {a.fid : a \in {b \in A : b.kind \in {"create", "send"}}} \union
  {L[k].fid : k \in {j \in 1 .. Len(L) : L[j].t \in {"CREATE_RESP", "TX_STATUS"}}}

(* A frame ID is not given out again before its answer was read.              *)
FreshIds == frame_id' # frame_id => frame_id' \notin Outstanding(asked, line)

CreateOwn(A, L, fid, tag) ==
  /\ \A a \in A : a.kind = "create" => (a.fid = fid <=> a.tag = tag)
  /\ \A k \in 1 .. Len(L) : L[k].t = "CREATE_RESP" => (L[k].fid = fid <=> L[k].tag = tag)
  /\ \/ \E a \in A : a.kind = "create" /\ a.tag = tag
     \/ \E k \in 1 .. Len(L) : L[k].t = "CREATE_RESP" /\ L[k].tag = tag

SendOwn(A, L, fid, tag) ==
  /\ \A a \in A : a.kind = "send" /\ a.fid = fid => a.tag = tag
  /\ \A k \in 1 .. Len(L) : L[k].t = "TX_STATUS" /\ L[k].fid = fid => L[k].tag = tag
  /\ \/ \E a \in A : a.kind = "send" /\ a.fid = fid
     \/ \E k \in 1 .. Len(L) : L[k].t = "TX_STATUS" /\ L[k].fid = fid

(* The frame ID in an entry finds what is about its socket, and no other.     *)
ByFid(T, A, L) == \A i \in Live(T) :
  /\ T[i].type = "PENDING" => CreateOwn(A, L, T[i].create_frame_id, T[i].inc)
  /\ T[i].tx_frame_id # 0 => SendOwn(A, L, T[i].tx_frame_id, T[i].inc)

-----------------------------------------------------------------------------
(* Socket IDs.                                                                *)

About(m, id) == m.t \notin {"CREATE_RESP", "TX_STATUS"} /\ m.id = id

(* Past position j of the line, id is the ID of the socket tag until          *)
(* the host is told otherwise.                                                *)
Serves(A, M, L, j, id, tag) ==
  /\ \A k \in j + 1 .. Len(L) : About(L[k], id) => L[k].tag = tag
  /\ \A a \in A : a.kind = "option" /\ a.id = id => a.tag = tag
  /\ id \in DOMAIN M => M[id].tag = tag
  /\ id \in DOMAIN M \/ \E k \in j + 1 .. Len(L) : L[k].t = "STATE" /\ L[k].id = id

(* So it is for an entry that has its ID, from the answer that brings it for  *)
(* one that waits, and for a client whose listener is still there.            *)
Serving(T, A, M, L) == \A i \in Live(T) :
  /\ T[i].socket_id # 0 => Serves(A, M, L, 0, T[i].socket_id, T[i].inc)
  /\ \A k \in 1 .. Len(L) :
       /\ /\ L[k].t = "CREATE_RESP" /\ L[k].good /\ L[k].tag = T[i].inc
          /\ T[i].type = "PENDING"
          => Serves(A, M, L, k, L[k].id, T[i].inc)
       /\ L[k].t = "CLIENT" /\ L[k].tag = T[i].inc =>
            Serves(A, M, L, k, L[k].client, L[k].clientTag)

(* Where the socket of an entry is: only a hasty one has no ID.               *)
Placed(T, A, M, O) == \A i \in Live(T) :
  /\ T[i].type = "PENDING" => T[i].socket_id = 0 /\ T[i].tx_frame_id = 0
  /\ T[i].socket_id = 0 => /\ T[i].type \in {"PENDING", "CREATED", "ATTACH"}
                           /\ T[i].type = "PENDING" \/ T[i].inc \in O
  /\ T[i].socket_id # 0 =>
       /\ \A a \in A : a.kind = "create" => a.tag # T[i].inc
       /\ \A id \in DOMAIN M : M[id].tag = T[i].inc => id = T[i].socket_id

-----------------------------------------------------------------------------
(* What the entry and the module make of a socket.                            *)

Opener(s) == IF s.protocol = "UDP" THEN "receive_from" ELSE "ipv4_client"

Fits(s) ==
  /\ s.type = "ATTACH"  => s.handler \in {"receive", Opener(s)}
  /\ s.type = "CONNECT" => s.handler = "receive"
  /\ s.type = "BIND"    => s.handler = "receive_from"
  /\ s.type = "LISTEN"  => s.handler = "ipv4_client"

(* The answer to an attach of the socket tag, but not to a hasty one.         *)
Answers(m, tag) == m.t = "ATTACH_RESP" /\ m.id # 0 /\ m.tag = tag

Unanswered(L, tag) == \A k \in 1 .. Len(L) : ~Answers(L[k], tag)

(* The phase at the module once every answer was read...                      *)
Settled(s) == IF s.type = "CONNECT" THEN "connected"
              ELSE IF s.type \in {"BIND", "LISTEN"} THEN "open"
              ELSE IF s.type # "ATTACH" \/ s.socket_id = 0 THEN "idle"
              ELSE IF s.handler = "receive" THEN "connecting" ELSE "opening"

(* ... and before.                                                            *)
Outcome(m) == IF ~m.good THEN "idle" ELSE IF m.connect THEN "connected" ELSE "open"

Awaited(s, m) == /\ s.type = "ATTACH"
                 /\ s.socket_id = m.id
                 /\ m.good => (m.connect <=> s.handler = "receive")

AgreedOn(s, M, L) ==
  /\ Fits(s)
  /\ \A id \in DOMAIN M : M[id].tag = s.inc /\ Unanswered(L, s.inc) => M[id].phase = Settled(s)
  /\ \A k \in 1 .. Len(L) : Answers(L[k], s.inc) =>
       /\ Awaited(s, L[k])
       /\ \A id \in DOMAIN M : M[id].tag = s.inc => M[id].phase = Outcome(L[k])
       /\ \A j \in 1 .. Len(L) : Answers(L[j], s.inc) => j = k

(* What the frames on the line say is so.                                     *)
Said(M, L) == \A k \in 1 .. Len(L) :
  /\ L[k].t = "CREATE_RESP" => (L[k].good <=> L[k].id # 0)
  /\ L[k].t = "ATTACH_RESP" /\ L[k].id = 0 => ~L[k].good
  /\ L[k].t = "CLIENT" =>
       /\ Unanswered(L, L[k].clientTag)
       /\ \A id \in DOMAIN M : M[id].tag = L[k].clientTag => M[id].phase = "connected"
       /\ \A j \in 1 .. Len(L) : L[j].t = "CLIENT" => L[j].tag # L[k].clientTag

Agreed(T, M, L) == Said(M, L) /\ \A i \in Live(T) : AgreedOn(T[i], M, L)

Remembered(T, A, M, L, O) ==
  \A tag \in ({M[id].tag : id \in DOMAIN M} \union {a.tag : a \in {b \in A : b.kind = "create"}}) \ O :
    \/ \E i \in Live(T) : T[i].inc = tag
    \/ \E k \in 1 .. Len(L) : L[k].t = "CLIENT" /\ L[k].clientTag = tag

-----------------------------------------------------------------------------
Numbered(T, A, M, L, H, c) ==
  Blank(T) /\ Kept(T, H) /\ Below(T, A, M, L, c) /\ Apart(T, L) /\ Once(A, M, L)

Matched(T, A, M, L, O) ==
  ByFid(T, A, L) /\ Serving(T, A, M, L) /\ Placed(T, A, M, O) /\ Agreed(T, M, L)
    /\ Remembered(T, A, M, L, O)

TableInv == Typed /\ Numbered(table, asked, mod, line, held, incs)

SockInv == TableInv /\ Matched(table, asked, mod, line, orphans) /\ ~misled

(* Slots and numbers.                                                         *)

LEMMA LowestFound == ASSUME NEW S \in SUBSET Slots
                     PROVE  /\ S = {} => LowestSlot(S) = NoSlot
                            /\ S # {} => LowestSlot(S) \in S /\ \A j \in S : LowestSlot(S) <= j
<1> DEFINE Less == {pair \in Nat \X Nat : pair[1] < pair[2]}
<1>1. IsWellFoundedOn(Less, Nat)
  BY NatLessThanWellFounded DEF OpToRel
<1>2. S \in SUBSET Nat
  BY SocketAssumption DEF Slots
<1>3. S # {} => \E n \in S : \A m \in S : ~(<<m, n>> \in Less)
  <2> HIDE DEF Less
  <2> QED BY <1>1, <1>2, WFMin
<1>4. \A m, n \in S : <<m, n>> \in Less <=> m < n
  BY <1>2
<1> HIDE DEF Less
<1>5. \A m, n \in S : ~(m < n) <=> n <= m
  BY <1>2
<1>6. S # {} => \E n \in S : \A m \in S : n <= m
  BY <1>3, <1>4, <1>5
<1>7. QED
  BY <1>6 DEF LowestSlot

LEMMA SlotIsNotNone == \A i \in Slots : i \in Nat /\ i # NoSlot
  BY SocketAssumption DEF Slots, NoSlot

LEMMA NextIsFid == ASSUME frame_id \in 0 .. MaxFrameId
                   PROVE  /\ NextFrameId \in Fid /\ NextFrameId \in 0 .. MaxFrameId
                          /\ NextFrameId # frame_id
  BY SocketAssumption DEF NextFrameId, Fid

LEMMA FreeIsEntry == Free \in Entry
  BY SocketAssumption DEF Free, Entry, Type, Protocol, Callback

(* A frame said by the module, and one read by the host.                      *)

Appended(L, L2, m) == /\ Len(L2) = Len(L) + 1
                      /\ \A k \in 1 .. Len(L) : L2[k] = L[k]
                      /\ L2[Len(L) + 1] = m

Read(L, L2) == /\ Len(L2) = Len(L) - 1
               /\ \A k \in 1 .. Len(L2) : L2[k] = L[k + 1]

LEMMA LineType == ASSUME NEW L \in Seq(FrameType)
                  PROVE  Len(L) \in Nat /\ \A k \in 1 .. Len(L) : L[k] \in FrameType
  OBVIOUS

LEMMA LineGrows == ASSUME NEW L \in Seq(FrameType), NEW m \in FrameType
                   PROVE  Append(L, m) \in Seq(FrameType) /\ Appended(L, Append(L, m), m)
  BY DEF Appended

LEMMA LineRead == ASSUME NEW L \in Seq(FrameType), L # <<>>
                  PROVE  /\ Tail(L) \in Seq(FrameType) /\ Read(L, Tail(L))
                         /\ Head(L) = L[1] /\ Head(L) \in FrameType /\ Len(L) >= 1
  BY DEF Read

-----------------------------------------------------------------------------
(* The types.                                                                 *)

LEMMA TypedInit == Init => Typed
<1> SUFFICES ASSUME Init PROVE Typed
  OBVIOUS
<1>1. table \in [Slots -> Entry]
  BY FreeIsEntry DEF Init
<1>2. used \in [DOMAIN Bounds -> Nat]
  BY SocketAssumption DEF Init
<1>3. line \in Seq(FrameType)
  BY DEF Init
<1>4. frame_id = 0 /\ frame_id \in 0 .. MaxFrameId
  BY SocketAssumption DEF Init
<1>5. DOMAIN mod = {} /\ asked = {} /\ held = {} /\ orphans = {} /\ misled = FALSE /\ incs = 0
  BY DEF Init
<1>6. TypeOK
  BY <1>1, <1>4, <1>5 DEF TypeOK
<1>7. QED
  BY <1>2, <1>3, <1>4, <1>5, <1>6 DEF Typed

LEMMA Used == ASSUME Typed, NEW kind \in {"create", "attach", "data", "client", "close", "busy"},
                     Use(kind)
              PROVE  used' \in [DOMAIN Bounds -> Nat]
<1>1. {kind, "all"} \subseteq DOMAIN Bounds /\ kind # "all"
  BY SocketAssumption
<1>2. QED
  BY <1>1 DEF Typed, Use

LEMMA TypedCreate == ASSUME Typed, NEW p \in Protocol, NEW ok \in BOOLEAN, Create(p, ok)
                     PROVE  Typed'
<1> DEFINE i == FreeSlot
           s == [table[i] EXCEPT !.type = "PENDING", !.xbee = TRUE, !.protocol = p,
                                 !.create_frame_id = NextFrameId, !.inc = incs + 1]
           a == [kind |-> "create", fid |-> NextFrameId, id |-> 0, tag |-> incs + 1]
           x == [h |-> <<i, NextFrameId>>, inc |-> incs + 1]
<1>1. i \in Slots
  BY LowestFound DEF Create, FreeSlot
<1>2. /\ NextFrameId \in 0 .. MaxFrameId /\ NextFrameId \in Fid
      /\ frame_id' = NextFrameId
  BY NextIsFid DEF Typed, TypeOK, Create
<1>3. s \in Entry /\ a \in Request /\ x \in [h : Slots \X Fid, inc : Nat]
  <2>1. table[i] \in Entry /\ incs + 1 \in Nat
    BY <1>1 DEF Typed, TypeOK
  <2>2. s \in Entry
    BY <1>2, <2>1 DEF Entry, Type
  <2>3. QED
    BY <1>1, <1>2, <2>1, <2>2 DEF Request, AnyId
<1>4. /\ table' \in [Slots -> Entry]
      /\ asked' \subseteq Request /\ held' \subseteq [h : Slots \X Fid, inc : Nat] /\ incs' \in Nat
  BY <1>1, <1>3, FreeIsEntry DEF Typed, TypeOK, Create
<1>5. used' \in [DOMAIN Bounds -> Nat]
  BY Used DEF Create, Written
<1>6. UNCHANGED <<mod, line, orphans, misled>>
  BY DEF Create
<1>7. QED
  BY <1>2, <1>4, <1>5, <1>6 DEF Typed, TypeOK

LEMMA WithoutLess == \A ids : /\ DOMAIN Without(ids) = DOMAIN mod \ ids
                             /\ \A id \in DOMAIN mod \ ids : Without(ids)[id] = mod[id]
  BY DEF Without

LEMMA NowWithout == ASSUME NEW R, mod' = Without(R)
  PROVE  DOMAIN mod' = DOMAIN mod \ R /\ \A id \in DOMAIN mod' : mod'[id] = mod[id]
  BY DEF Without

ModType(M) == DOMAIN M \subseteq ModuleIds /\ \A id \in DOMAIN M : M[id] \in [tag : Nat, phase : Phase]

LEMMA WithoutTyped == ASSUME ModType(mod), NEW ids PROVE ModType(Without(ids))
  BY WithoutLess DEF ModType

LEMMA TypedAttach == ASSUME Typed, NEW x \in held, NEW how \in {"connect", "bind", "listen"},
                            NEW ok \in BOOLEAN, Attach(x, how, ok)
                     PROVE  Typed'
<1> DEFINE i == Lookup(x.h)
           s == table[i]
           m == [t |-> "ATTACH_RESP", id |-> s.socket_id, connect |-> how = "connect",
                 good |-> FALSE, tag |-> s.inc]
<1>1. i \in Slots /\ s \in Entry
  BY DEF Attach, Lookup, Typed, TypeOK
<1>2. NextFrameId \in 0 .. MaxFrameId /\ frame_id' = NextFrameId
  BY NextIsFid DEF Typed, TypeOK, Attach
<1>3. [s EXCEPT !.type = "ATTACH", !.handler = CallbackOf(how)] \in Entry
  BY <1>1 DEF Entry, Type, Callback, CallbackOf
<1>4. m \in FrameType
  <2>1. (how = "connect") \in BOOLEAN
    OBVIOUS
  <2> QED BY <1>1, <2>1 DEF FrameType, AttachResp, AnyId, Entry
<1>5. CASE ok
  <2>1. table' \in [Slots -> Entry]
    BY <1>1, <1>3, <1>5 DEF Attach, Typed, TypeOK
  <2>2. orphans' \subseteq Nat
    BY <1>1, <1>5 DEF Attach, Typed, Entry
  <2>3. line' \in Seq(FrameType)
    <3>1. line' = Append(line, m) \/ line' = line
      BY <1>5 DEF Attach
    <3> HIDE DEF m
    <3> QED BY <1>4, <3>1, LineGrows DEF Typed
  <2>4. ModType(mod')
    <3>1. \/ mod' = mod
          \/ /\ s.socket_id \in DOMAIN mod
             /\ mod' = [mod EXCEPT ![s.socket_id].phase = IF how = "connect" THEN "connecting" ELSE "opening"]
      BY <1>5 DEF Attach
    <3>2. ASSUME s.socket_id \in DOMAIN mod, NEW p \in Phase
          PROVE  ModType([mod EXCEPT ![s.socket_id].phase = p])
      BY <3>2 DEF ModType, Typed, TypeOK
    <3>3. "connecting" \in Phase /\ "opening" \in Phase
      BY DEF Phase
    <3>4. QED
      BY <3>1, <3>2, <3>3 DEF ModType, Typed, TypeOK
  <2>5. used' \in [DOMAIN Bounds -> Nat]
    BY <1>5, Used DEF Attach
  <2>6. UNCHANGED <<asked, held, misled, incs>>
    BY DEF Attach
  <2>7. QED
    BY <1>2, <2>1, <2>2, <2>3, <2>4, <2>5, <2>6 DEF Typed, TypeOK, ModType
<1>6. CASE ~ok
  <2>1. used' \in [DOMAIN Bounds -> Nat]
    BY <1>6, Used DEF Attach, Written
  <2>2. UNCHANGED <<asked, held, misled, incs, table, mod, line, orphans>>
    BY <1>6 DEF Attach
  <2>3. QED
    BY <1>2, <2>1, <2>2 DEF Typed, TypeOK
<1>7. QED
  BY <1>5, <1>6

LEMMA TypedSend == ASSUME Typed, NEW x \in held, NEW ok \in BOOLEAN, Send(x, ok)
                   PROVE  Typed'
<1> DEFINE i == Lookup(x.h)
           a == [kind |-> "send", fid |-> NextFrameId, id |-> table[i].socket_id, tag |-> table[i].inc]
<1>1. i \in Slots /\ table[i] \in Entry
  BY DEF Send, Lookup, Typed, TypeOK
<1>2. /\ NextFrameId \in 0 .. MaxFrameId /\ NextFrameId \in Fid
      /\ frame_id' = NextFrameId
  BY NextIsFid DEF Typed, TypeOK, Send
<1>3. [table[i] EXCEPT !.tx_frame_id = NextFrameId] \in Entry /\ a \in Request
  BY <1>1, <1>2 DEF Entry, Request, AnyId
<1>4. table' \in [Slots -> Entry] /\ asked' \subseteq Request
  BY <1>1, <1>3 DEF Send, Typed, TypeOK
<1>5. used' \in [DOMAIN Bounds -> Nat]
  BY Used DEF Send, Written
<1>6. UNCHANGED <<mod, line, held, orphans, misled, incs>>
  BY DEF Send
<1>7. QED
  BY <1>2, <1>4, <1>5, <1>6 DEF Typed, TypeOK

LEMMA TypedOption == ASSUME Typed, NEW x \in held, NEW callback \in BOOLEAN, NEW ok \in BOOLEAN,
                            Option(x, callback, ok)
                     PROVE  Typed'
<1> DEFINE i == Lookup(x.h)
           a == [kind |-> "option", fid |-> NextFrameId, id |-> table[i].socket_id, tag |-> table[i].inc]
<1>1. i \in Slots /\ table[i] \in Entry
  BY DEF Option, Lookup, Typed, TypeOK
<1>2. /\ NextFrameId \in 0 .. MaxFrameId /\ NextFrameId \in Fid
      /\ frame_id' \in {frame_id, NextFrameId}
  BY NextIsFid DEF Typed, TypeOK, Option
<1>3. [table[i] EXCEPT !.option = callback] \in Entry /\ a \in Request
  BY <1>1, <1>2 DEF Entry, Request, AnyId
<1>4. table' \in [Slots -> Entry] /\ asked' \subseteq Request
  BY <1>1, <1>3 DEF Option, Typed, TypeOK
<1>5. used' \in [DOMAIN Bounds -> Nat]
  BY Used DEF Option, Written
<1>6. UNCHANGED <<mod, line, held, orphans, misled, incs>>
  BY DEF Option
<1>7. QED
  BY <1>2, <1>4, <1>5, <1>6 DEF Typed, TypeOK

LEMMA TypedClose == ASSUME Typed, NEW x \in held, NEW ok \in BOOLEAN, Close(x, ok)
                    PROVE  Typed'
<1> DEFINE i == Lookup(x.h)
<1>1. i \in Slots /\ table[i] \in Entry
  BY DEF Close, Lookup, Typed, TypeOK
<1>2. table' \in [Slots -> Entry]
  BY <1>1, FreeIsEntry DEF Close, Typed, TypeOK
<1>3. held' \subseteq held /\ orphans' \subseteq Nat
  BY <1>1 DEF Close, Drop, Typed, Entry
<1>4. mod' = mod \/ mod' = Without({table[i].socket_id})
  BY DEF Close
<1>5. ModType(mod')
  BY <1>4, WithoutTyped DEF Typed, TypeOK, ModType
<1>6. used' \in [DOMAIN Bounds -> Nat]
  BY Used DEF Close, Written
<1>7. UNCHANGED <<frame_id, asked, line, misled, incs>>
  BY DEF Close
<1>8. QED
  BY <1>2, <1>3, <1>5, <1>6, <1>7 DEF Typed, TypeOK, ModType

LEMMA TypedCloseAll == ASSUME Typed, NEW all \in BOOLEAN, NEW k \in 0 .. SocketCount, CloseAll(all, k)
                       PROVE  Typed'
<1>1. table' \in [Slots -> Entry]
  BY FreeIsEntry DEF CloseAll, Typed, TypeOK
<1>2. held' \subseteq held
  BY DEF CloseAll
<1>3. \E ids : mod' = Without(ids)
  BY DEF CloseAll
<1>4. ModType(mod')
  BY <1>3, WithoutTyped DEF Typed, TypeOK, ModType
<1>5. used' \in [DOMAIN Bounds -> Nat]
  <2>1. {"close", "busy", "all"} \subseteq DOMAIN Bounds
    BY SocketAssumption
  <2>2. used \in [DOMAIN Bounds -> Nat]
    BY DEF Typed
  <2>3. \E n : used' = [used EXCEPT !["close"] = @ + 1, !["all"] = @ + 1, !["busy"] = n]
               /\ n \in {used["busy"], used["busy"] + 1}
    BY DEF CloseAll
  <2>4. QED
    BY <2>1, <2>2, <2>3
<1>6. UNCHANGED <<frame_id, asked, line, orphans, misled, incs>>
  BY DEF CloseAll
<1>7. QED
  BY <1>1, <1>2, <1>4, <1>5, <1>6 DEF Typed, TypeOK, ModType

LEMMA AtModuleTyped == Typed => AtModule \subseteq Nat
  BY DEF Typed, TypeOK, AtModule, Request

LEMMA TypedReset == ASSUME Typed, NEW ok \in BOOLEAN, Reset(ok)
                    PROVE  Typed'
<1>1. table' \in [Slots -> Entry]
  BY FreeIsEntry DEF Reset, Typed, TypeOK
<1>2. orphans' \subseteq Nat
  BY AtModuleTyped DEF Reset, Typed, Request
<1>3. mod' = mod \/ mod' = Without(DOMAIN mod)
  BY DEF Reset
<1>4. ModType(mod')
  BY <1>3, WithoutTyped DEF Typed, TypeOK, ModType
<1>5. used' \in [DOMAIN Bounds -> Nat]
  <2>1. {"close", "busy", "all"} \subseteq DOMAIN Bounds
    BY SocketAssumption
  <2>2. used \in [DOMAIN Bounds -> Nat]
    BY DEF Typed
  <2>3. \E n \in {used["busy"], used["busy"] + 1} :
          used' = [used EXCEPT !["close"] = @ + 1, !["all"] = @ + 1, !["busy"] = n]
    BY <2>1, <2>2 DEF Reset
  <2>4. QED
    BY <2>1, <2>2, <2>3
<1>6. held' = {} /\ UNCHANGED <<frame_id, asked, line, misled, incs>>
  BY DEF Reset
<1>7. QED
  BY <1>1, <1>2, <1>4, <1>5, <1>6 DEF Typed, TypeOK, ModType

(* The module.                                                                *)

LEMMA TypedSays == ASSUME Typed, NEW m \in FrameType, Says(m)
                   PROVE  line' \in Seq(FrameType) /\ Appended(line, line', m)
  BY LineGrows DEF Says, Typed

LEMMA WithSocketTyped == ASSUME ModType(mod), NEW id \in ModuleIds, NEW tag \in Nat, NEW phase \in Phase
                         PROVE  ModType(WithSocket(id, tag, phase))
<1> DEFINE W == WithSocket(id, tag, phase)
<1>1. /\ DOMAIN W = DOMAIN mod \union {id}
      /\ W[id] = [tag |-> tag, phase |-> phase]
      /\ \A j \in DOMAIN mod : j # id => W[j] = mod[j]
  BY DEF WithSocket
<1>2. [tag |-> tag, phase |-> phase] \in [tag : Nat, phase : Phase]
  OBVIOUS
<1> HIDE DEF W
<1>3. ModType(W)
  BY <1>1, <1>2 DEF ModType
<1>4. QED
  BY <1>3 DEF W

CreateAnswer(a, id, good) ==
  [t |-> "CREATE_RESP", fid |-> a.fid, id |-> id, good |-> good, tag |-> a.tag]

LEMMA TypedModCreate == ASSUME Typed, NEW a \in asked, NEW id \in ModuleIds, ModCreate(a, id)
                        PROVE  Typed'
<1>1. a \in Request
  BY DEF Typed
<1>2. CreateAnswer(a, id, TRUE) \in FrameType /\ CreateAnswer(a, 0, FALSE) \in FrameType
  <2>1. CreateAnswer(a, id, TRUE) \in CreateResp
    BY <1>1 DEF CreateResp, CreateAnswer, AnyId, Request
  <2>2. CreateAnswer(a, 0, FALSE) \in CreateResp
    BY <1>1 DEF CreateResp, CreateAnswer, AnyId, Request
  <2>3. QED
    BY <2>1, <2>2 DEF FrameType
<1>3. Says(CreateAnswer(a, id, TRUE)) \/ Says(CreateAnswer(a, 0, FALSE))
  BY DEF ModCreate, CreateAnswer
<1>4. line' \in Seq(FrameType)
  BY <1>2, <1>3, TypedSays
<1>5. mod' = WithSocket(id, a.tag, "idle") \/ mod' = mod
  BY DEF ModCreate
<1>6. ModType(mod')
  BY <1>1, <1>5, WithSocketTyped DEF Typed, TypeOK, ModType, Request, Phase
<1>7. asked' \subseteq asked /\ UNCHANGED <<table, frame_id, held, orphans, misled, incs, used>>
  BY DEF ModCreate
<1>8. QED
  BY <1>4, <1>6, <1>7 DEF Typed, TypeOK, ModType

AttachAnswer(id, good) ==
  [t |-> "ATTACH_RESP", id |-> id, connect |-> mod[id].phase = "connecting",
   good |-> good, tag |-> mod[id].tag]

LEMMA TypedModAttach == ASSUME Typed, NEW id \in DOMAIN mod, NEW good \in BOOLEAN, ModAttach(id, good)
                        PROVE  Typed' /\ Appended(line, line', AttachAnswer(id, good))
<1>1. id \in ModuleIds /\ mod[id] \in [tag : Nat, phase : Phase]
  BY DEF Typed, TypeOK
<1>2. AttachAnswer(id, good) \in FrameType
  <2>1. (mod[id].phase = "connecting") \in BOOLEAN
    OBVIOUS
  <2> QED BY <1>1, <2>1 DEF FrameType, AttachResp, AttachAnswer, AnyId
<1>3. Says(AttachAnswer(id, good))
  BY DEF ModAttach, AttachAnswer
<1>4. line' \in Seq(FrameType) /\ Appended(line, line', AttachAnswer(id, good))
  BY <1>2, <1>3, TypedSays
<1>5. \E p \in Phase : mod' = [mod EXCEPT ![id].phase = p]
  BY DEF ModAttach, Phase
<1>6. ModType(mod')
  BY <1>1, <1>5 DEF ModType, Typed, TypeOK
<1>7. UNCHANGED <<table, frame_id, asked, held, orphans, misled, incs, used>>
  BY DEF ModAttach
<1>8. QED
  BY <1>4, <1>6, <1>7 DEF Typed, TypeOK, ModType

ModAnswerFrame(a) == [t |-> IF a.kind = "send" THEN "TX_STATUS" ELSE "OPTION_RESP",
                      fid |-> a.fid, id |-> a.id, tag |-> a.tag]

LEMMA TypedModAnswer == ASSUME Typed, NEW a \in asked, ModAnswer(a)
                        PROVE  Typed' /\ Appended(line, line', ModAnswerFrame(a))
<1>1. a \in Request
  BY DEF Typed
<1>2. ModAnswerFrame(a) \in FrameType
  BY <1>1 DEF FrameType, Answered, ModAnswerFrame, Request
<1>3. Says(ModAnswerFrame(a))
  BY DEF ModAnswer, ModAnswerFrame
<1>4. line' \in Seq(FrameType) /\ Appended(line, line', ModAnswerFrame(a))
  BY <1>2, <1>3, TypedSays
<1>5. asked' \subseteq asked /\ UNCHANGED <<table, frame_id, mod, held, orphans, misled, incs, used>>
  BY DEF ModAnswer
<1>6. QED
  BY <1>4, <1>5 DEF Typed, TypeOK

StateNews(id) == [t |-> "STATE", id |-> id, tag |-> mod[id].tag]

LEMMA TypedModState == ASSUME Typed, NEW id \in DOMAIN mod, ModState(id)
                       PROVE  Typed' /\ Appended(line, line', StateNews(id))
<1>1. id \in ModuleIds /\ mod[id] \in [tag : Nat, phase : Phase]
  BY DEF Typed, TypeOK
<1>2. StateNews(id) \in FrameType
  BY <1>1 DEF FrameType, News, StateNews
<1>3. Says(StateNews(id))
  BY DEF ModState, StateNews
<1>4. line' \in Seq(FrameType) /\ Appended(line, line', StateNews(id))
  BY <1>2, <1>3, TypedSays
<1>5. mod' = Without({id})
  BY DEF ModState
<1>6. ModType(mod')
  BY <1>5, WithoutTyped DEF ModType, Typed, TypeOK
<1>7. UNCHANGED <<table, frame_id, asked, held, orphans, misled, incs, used>>
  BY DEF ModState
<1>8. QED
  BY <1>4, <1>6, <1>7 DEF Typed, TypeOK, ModType

ClientNews(id, client) == [t |-> "CLIENT", id |-> id, tag |-> mod[id].tag,
                           client |-> client, clientTag |-> incs + 1]

LEMMA TypedModClient == ASSUME Typed, NEW id \in DOMAIN mod, NEW client \in ModuleIds, ModClient(id, client)
                        PROVE  Typed' /\ Appended(line, line', ClientNews(id, client))
<1>1. id \in ModuleIds /\ mod[id] \in [tag : Nat, phase : Phase] /\ incs + 1 \in Nat
  BY DEF Typed, TypeOK
<1>2. ClientNews(id, client) \in FrameType
  BY <1>1 DEF FrameType, NewClient, ClientNews
<1>3. Says(ClientNews(id, client))
  BY DEF ModClient, ClientNews
<1>4. line' \in Seq(FrameType) /\ Appended(line, line', ClientNews(id, client))
  BY <1>2, <1>3, TypedSays
<1>5. mod' = WithSocket(client, incs + 1, "connected")
  BY DEF ModClient
<1>6. ModType(mod')
  BY <1>1, <1>5, WithSocketTyped DEF ModType, Typed, TypeOK, Phase
<1>7. used' \in [DOMAIN Bounds -> Nat]
  BY Used DEF ModClient
<1>8. incs' = incs + 1 /\ UNCHANGED <<table, frame_id, asked, held, orphans, misled>>
  BY DEF ModClient
<1>9. QED
  BY <1>1, <1>4, <1>6, <1>7, <1>8 DEF Typed, TypeOK, ModType

DataNews(id) == [t |-> IF mod[id].phase = "open" THEN "RECEIVE_FROM" ELSE "RECEIVE",
                 id |-> id, tag |-> mod[id].tag]

LEMMA TypedModReceive == ASSUME Typed, NEW id \in DOMAIN mod, ModReceive(id)
                         PROVE  Typed' /\ Appended(line, line', DataNews(id))
<1>1. id \in ModuleIds /\ mod[id] \in [tag : Nat, phase : Phase]
  BY DEF Typed, TypeOK
<1>2. DataNews(id) \in FrameType
  BY <1>1 DEF FrameType, News, DataNews
<1>3. Says(DataNews(id))
  BY DEF ModReceive, DataNews
<1>4. line' \in Seq(FrameType) /\ Appended(line, line', DataNews(id))
  BY <1>2, <1>3, TypedSays
<1>5. used' \in [DOMAIN Bounds -> Nat]
  BY Used DEF ModReceive
<1>6. UNCHANGED <<table, frame_id, asked, mod, held, orphans, misled, incs>>
  BY DEF ModReceive
<1>7. QED
  BY <1>4, <1>5, <1>6 DEF Typed, TypeOK

(* The handlers.                                                              *)

LEMMA FrameFields == ASSUME NEW m \in FrameType
  PROVE /\ m.tag \in Nat /\ m.id \in AnyId
        /\ m.t \in {"CREATE_RESP", "TX_STATUS", "OPTION_RESP"} => m.fid \in Fid
        /\ m.t = "CREATE_RESP" => m.good \in BOOLEAN
        /\ m.t = "ATTACH_RESP" => m.good \in BOOLEAN /\ m.connect \in BOOLEAN
        /\ m.t \in {"STATE", "RECEIVE", "RECEIVE_FROM", "CLIENT"} => m.id \in ModuleIds
        /\ m.t = "CLIENT" => m.client \in ModuleIds /\ m.clientTag \in Nat
  BY DEF FrameType, CreateResp, AttachResp, Answered, News, NewClient, AnyId

LEMMA FrameRead == ASSUME Typed, NEW t, Frame(t)
  PROVE  /\ Tail(line) \in Seq(FrameType) /\ Read(line, Tail(line))
         /\ Head(line) = line[1] /\ Head(line) \in FrameType /\ Len(line) \in Nat /\ Len(line) >= 1
         /\ line[1].t = t
<1>1. line \in Seq(FrameType) /\ line # <<>> /\ Head(line).t = t
  BY DEF Typed, Frame
<1>2. QED
  BY <1>1, LineRead

(* What a handler does, without the searches.                                 *)
TxStatusDone(act) == LET m == line[1] IN
  \/ /\ \A j \in Slots : ~(table[j].xbee /\ table[j].tx_frame_id = m.fid)
     /\ Ignored
  \/ \E i \in Slots :
       /\ table[i].xbee /\ table[i].tx_frame_id = m.fid
       /\ Tell(m, i)
       /\ \/ /\ act = "close"
             /\ table' = [table EXCEPT ![i] = Free]
             /\ mod' = Without({table[i].socket_id})
             /\ held' = Drop(i)
          \/ /\ act # "close"
             /\ table' = [table EXCEPT ![i].tx_frame_id = 0]
             /\ UNCHANGED <<mod, held>>

LEMMA TxStatusDoes == ASSUME Typed, NEW act \in Acts, HandleTxStatus(act)
  PROVE  /\ line' \in Seq(FrameType) /\ Read(line, line') /\ line[1] \in FrameType
         /\ Len(line) \in Nat /\ Len(line) >= 1 /\ line[1].t = "TX_STATUS"
         /\ UNCHANGED <<frame_id, asked, orphans, incs, used>>
         /\ TxStatusDone(act)
<1> DEFINE S == {j \in Slots : table[j].xbee /\ table[j].tx_frame_id = Head(line).fid}
<1>1. Frame("TX_STATUS") /\ line' = Tail(line) /\ UNCHANGED <<frame_id, asked, orphans, incs, used>>
  BY DEF HandleTxStatus
<1>2. /\ line' \in Seq(FrameType) /\ Read(line, line') /\ line[1] \in FrameType
      /\ Len(line) \in Nat /\ Len(line) >= 1 /\ line[1].t = "TX_STATUS" /\ Head(line) = line[1]
  BY <1>1, FrameRead
<1>3. PICK i : i = LowestSlot(S)
  OBVIOUS
<1>4. (S = {} /\ i = NoSlot) \/ (i \in S /\ i # NoSlot)
  <2>1. S \in SUBSET Slots
    OBVIOUS
  <2>2. (S = {} => LowestSlot(S) = NoSlot) /\ (S # {} => LowestSlot(S) \in S)
    BY <2>1, LowestFound
  <2>3. QED
    BY <1>3, <2>2, SlotIsNotNone
<1>5. IF i = NoSlot THEN Ignored
      ELSE /\ Tell(Head(line), i)
           /\ IF act = "close"
              THEN /\ table' = [table EXCEPT ![i] = Free]
                   /\ mod' = Without({table[i].socket_id})
                   /\ held' = Drop(i)
              ELSE /\ table' = [table EXCEPT ![i].tx_frame_id = 0]
                   /\ UNCHANGED <<mod, held>>
  BY <1>3 DEF HandleTxStatus
<1>6. TxStatusDone(act)
  BY <1>2, <1>4, <1>5 DEF TxStatusDone
<1>7. QED
  BY <1>1, <1>2, <1>6

CreateRespDone(act) == LET m == line[1] IN
  \/ /\ \A j \in Slots : ~(/\ table[j].type = "PENDING" /\ table[j].xbee
                            /\ table[j].create_frame_id = m.fid)
     /\ Ignored
  \/ \E i \in Slots :
       /\ table[i].type = "PENDING" /\ table[i].xbee /\ table[i].create_frame_id = m.fid
       /\ Tell(m, i)
       /\ table' = [table EXCEPT ![i] = Created(m, i, act)]
       /\ mod' = IF act = "close" THEN Without({m.id}) ELSE mod
       /\ held' = IF m.good /\ act = "none" THEN held ELSE Drop(i)

LEMMA CreateRespDoes == ASSUME Typed, NEW act \in Acts, HandleCreateResp(act)
  PROVE  /\ line' \in Seq(FrameType) /\ Read(line, line') /\ line[1] \in FrameType
         /\ Len(line) \in Nat /\ Len(line) >= 1 /\ line[1].t = "CREATE_RESP"
         /\ UNCHANGED <<frame_id, asked, orphans, incs, used>>
         /\ CreateRespDone(act)
<1> DEFINE S == {j \in Slots : /\ table[j].type = "PENDING"
                               /\ table[j].xbee
                               /\ table[j].create_frame_id = Head(line).fid}
<1>1. Frame("CREATE_RESP") /\ line' = Tail(line) /\ UNCHANGED <<frame_id, asked, orphans, incs, used>>
  BY DEF HandleCreateResp
<1>2. /\ line' \in Seq(FrameType) /\ Read(line, line') /\ line[1] \in FrameType
      /\ Len(line) \in Nat /\ Len(line) >= 1 /\ line[1].t = "CREATE_RESP" /\ Head(line) = line[1]
  BY <1>1, FrameRead
<1>3. PICK i : i = LowestSlot(S)
  OBVIOUS
<1>4. (S = {} /\ i = NoSlot) \/ (i \in S /\ i # NoSlot)
  <2>1. S \in SUBSET Slots
    OBVIOUS
  <2>2. (S = {} => LowestSlot(S) = NoSlot) /\ (S # {} => LowestSlot(S) \in S)
    BY <2>1, LowestFound
  <2>3. QED
    BY <1>3, <2>2, SlotIsNotNone
<1>5. IF i = NoSlot THEN Ignored
      ELSE /\ Tell(Head(line), i)
           /\ table' = [table EXCEPT ![i] = Created(Head(line), i, act)]
           /\ mod' = IF act = "close" THEN Without({Head(line).id}) ELSE mod
           /\ held' = IF Head(line).good /\ act = "none" THEN held ELSE Drop(i)
  BY <1>3 DEF HandleCreateResp
<1>6. CreateRespDone(act)
  BY <1>2, <1>4, <1>5 DEF CreateRespDone
<1>7. QED
  BY <1>1, <1>2, <1>6

LEMMA IdFound == ASSUME Typed, NEW id
  PROVE  \/ /\ LookupId(id) = NoSlot
            /\ \A i \in Slots : ~(table[i].type # "AVAILABLE" /\ table[i].xbee /\ table[i].socket_id = id)
         \/ /\ LookupId(id) \in Slots /\ LookupId(id) # NoSlot
            /\ table[LookupId(id)].type # "AVAILABLE" /\ table[LookupId(id)].xbee
            /\ table[LookupId(id)].socket_id = id
<1> DEFINE S == {i \in Slots : table[i].type # "AVAILABLE" /\ table[i].xbee /\ table[i].socket_id = id}
<1>1. LookupId(id) = LowestSlot(S)
  BY DEF LookupId
<1>2. S \in SUBSET Slots
  OBVIOUS
<1>3. (S = {} => LowestSlot(S) = NoSlot) /\ (S # {} => LowestSlot(S) \in S)
  BY <1>2, LowestFound
<1>4. QED
  BY <1>1, <1>3, SlotIsNotNone

Owns(i, id) == table[i].type # "AVAILABLE" /\ table[i].xbee /\ table[i].socket_id = id

AttachRespDone(act) == LET m == line[1] IN
  \/ /\ \/ \A j \in Slots : ~Owns(j, m.id)
        \/ \E i \in Slots : Owns(i, m.id) /\ LookupId(m.id) = i /\ table[i].type # "ATTACH"
     /\ Ignored
  \/ \E i \in Slots :
       /\ Owns(i, m.id) /\ table[i].type = "ATTACH"
       /\ Tell(m, i)
       /\ \/ /\ act = "close"
             /\ table' = [table EXCEPT ![i] = [Free EXCEPT !.type = Attached(m, i)]]
             /\ mod' = Without({m.id})
             /\ held' = Drop(i)
          \/ /\ act # "close"
             /\ table' = [table EXCEPT ![i].type = Attached(m, i)]
             /\ UNCHANGED <<mod, held>>

LEMMA AttachRespDoes == ASSUME Typed, NEW act \in Acts, HandleAttachResp(act)
  PROVE  /\ line' \in Seq(FrameType) /\ Read(line, line') /\ line[1] \in FrameType
         /\ Len(line) \in Nat /\ Len(line) >= 1 /\ line[1].t = "ATTACH_RESP"
         /\ UNCHANGED <<frame_id, asked, orphans, incs, used>>
         /\ AttachRespDone(act)
<1>1. Frame("ATTACH_RESP") /\ line' = Tail(line) /\ UNCHANGED <<frame_id, asked, orphans, incs, used>>
  BY DEF HandleAttachResp
<1>2. /\ line' \in Seq(FrameType) /\ Read(line, line') /\ line[1] \in FrameType
      /\ Len(line) \in Nat /\ Len(line) >= 1 /\ line[1].t = "ATTACH_RESP" /\ Head(line) = line[1]
  BY <1>1, FrameRead
<1>3. PICK i : i = LookupId(line[1].id)
  OBVIOUS
<1>4. \/ i = NoSlot /\ \A j \in Slots : ~Owns(j, line[1].id)
      \/ i \in Slots /\ i # NoSlot /\ Owns(i, line[1].id)
  BY <1>3, IdFound DEF Owns
<1>5. ASSUME i = NoSlot \/ table[i].type # "ATTACH" PROVE AttachRespDone(act)
  <2>1. Ignored
    BY <1>2, <1>3, <1>5 DEF HandleAttachResp
  <2>2. QED
    BY <1>3, <1>4, <1>5, <2>1 DEF AttachRespDone
<1>6. ASSUME ~(i = NoSlot \/ table[i].type # "ATTACH") PROVE AttachRespDone(act)
  <2>1. i \in Slots /\ Owns(i, line[1].id) /\ table[i].type = "ATTACH"
    BY <1>4, <1>6
  <2>2. Tell(line[1], i)
    BY <1>2, <1>3, <1>6 DEF HandleAttachResp
  <2>3. \/ /\ act = "close"
           /\ table' = [table EXCEPT ![i] = [Free EXCEPT !.type = Attached(line[1], i)]]
           /\ mod' = Without({line[1].id})
           /\ held' = Drop(i)
        \/ /\ act # "close"
           /\ table' = [table EXCEPT ![i].type = Attached(line[1], i)]
           /\ UNCHANGED <<mod, held>>
    <3>1. CASE act = "close"
      BY <1>2, <1>3, <1>6, <3>1 DEF HandleAttachResp
    <3>2. CASE act # "close"
      BY <1>2, <1>3, <1>6, <3>2 DEF HandleAttachResp
    <3>3. QED
      BY <3>1, <3>2
  <2>4. QED
    BY <2>1, <2>2, <2>3, Zenon DEF AttachRespDone
<1>7. QED
  BY <1>1, <1>2, <1>5, <1>6

Called(t, i) == \/ t = "OPTION_RESP"  /\ table[i].option
                \/ t = "RECEIVE"      /\ table[i].type = "CONNECT"
                \/ t = "RECEIVE_FROM" /\ table[i].type = "BIND"

DataDone(t) == LET m == line[1] IN
  \/ UNCHANGED misled
  \/ \E i \in Slots : Owns(i, m.id) /\ Called(t, i) /\ Tell(m, i)

LEMMA DataDoes == ASSUME Typed, NEW t \in {"OPTION_RESP", "RECEIVE", "RECEIVE_FROM"}, HandleData(t)
  PROVE  /\ line' \in Seq(FrameType) /\ Read(line, line') /\ line[1] \in FrameType
         /\ Len(line) \in Nat /\ Len(line) >= 1 /\ line[1].t = t
         /\ UNCHANGED <<table, frame_id, asked, mod, held, orphans, incs, used>>
         /\ DataDone(t)
<1>1. Frame(t) /\ line' = Tail(line) /\ UNCHANGED <<table, frame_id, asked, mod, held, orphans, incs, used>>
  BY DEF HandleData
<1>2. /\ line' \in Seq(FrameType) /\ Read(line, line') /\ line[1] \in FrameType
      /\ Len(line) \in Nat /\ Len(line) >= 1 /\ line[1].t = t /\ Head(line) = line[1]
  BY <1>1, FrameRead
<1>3. PICK i : i = LookupId(line[1].id)
  OBVIOUS
<1>4. \/ i = NoSlot
      \/ i \in Slots /\ i # NoSlot /\ Owns(i, line[1].id)
  BY <1>3, IdFound DEF Owns
<1>5. IF i # NoSlot /\ Called(t, i) THEN Tell(line[1], i) ELSE UNCHANGED misled
  BY <1>2, <1>3 DEF HandleData, Called
<1>6. DataDone(t)
  BY <1>4, <1>5 DEF DataDone
<1>7. QED
  BY <1>1, <1>2, <1>6

StateDone == LET m == line[1] IN
  \/ /\ \A j \in Slots : ~Owns(j, m.id)
     /\ Ignored
  \/ \E i \in Slots :
       /\ Owns(i, m.id)
       /\ Tell(m, i)
       /\ table' = [table EXCEPT ![i] = Free]
       /\ held' = Drop(i)
       /\ UNCHANGED mod

LEMMA StateDoes == ASSUME Typed, HandleState
  PROVE  /\ line' \in Seq(FrameType) /\ Read(line, line') /\ line[1] \in FrameType
         /\ Len(line) \in Nat /\ Len(line) >= 1 /\ line[1].t = "STATE"
         /\ UNCHANGED <<frame_id, asked, orphans, incs, used>>
         /\ StateDone
<1>1. Frame("STATE") /\ line' = Tail(line) /\ UNCHANGED <<frame_id, asked, orphans, incs, used>>
  BY DEF HandleState
<1>2. /\ line' \in Seq(FrameType) /\ Read(line, line') /\ line[1] \in FrameType
      /\ Len(line) \in Nat /\ Len(line) >= 1 /\ line[1].t = "STATE" /\ Head(line) = line[1]
  BY <1>1, FrameRead
<1>3. PICK i : i = LookupId(line[1].id)
  OBVIOUS
<1>4. \/ i = NoSlot /\ \A j \in Slots : ~Owns(j, line[1].id)
      \/ i \in Slots /\ i # NoSlot /\ Owns(i, line[1].id)
  BY <1>3, IdFound DEF Owns
<1>5. IF i = NoSlot THEN Ignored
      ELSE /\ Tell(line[1], i)
           /\ table' = [table EXCEPT ![i] = Free]
           /\ held' = Drop(i)
           /\ UNCHANGED mod
  BY <1>2, <1>3 DEF HandleState
<1>6. StateDone
  BY <1>4, <1>5 DEF StateDone
<1>7. QED
  BY <1>1, <1>2, <1>6

Accepted(c, l, m) == [table[c] EXCEPT !.type = "CONNECT", !.xbee = TRUE, !.inc = m.clientTag,
                                      !.socket_id = m.client, !.protocol = table[l].protocol,
                                      !.create_frame_id = table[l].create_frame_id,
                                      !.handler = "receive"]

ClientDone(act, ok) == LET m == line[1] IN
  \/ /\ \/ \A j \in Slots : ~Owns(j, m.id)
        \/ \E l \in Slots : Owns(l, m.id) /\ table[l].type # "LISTEN"
     /\ orphans' = orphans \union {m.clientTag}
     /\ Ignored
     /\ UNCHANGED used
  \/ \E l \in Slots :
       /\ Owns(l, m.id) /\ table[l].type = "LISTEN"
       /\ Tell(m, l)
       /\ \/ \E c \in Slots :
               /\ table[c].type = "AVAILABLE"
               /\ table' = [table EXCEPT ![c] = Accepted(c, l, m)]
               /\ held' = held \union {[h |-> <<c, table[l].create_frame_id>>, inc |-> m.clientTag]}
               /\ UNCHANGED <<mod, orphans, used>>
          \/ /\ \E c \in Slots :
                  /\ table[c].type = "AVAILABLE"
                  /\ table' = [table EXCEPT ![c] = [Free EXCEPT !.handler = "receive"]]
             /\ mod' = Without({m.client})
             /\ UNCHANGED <<held, orphans, used>>
          \/ /\ \/ table' = table
                \/ \E c \in Slots : /\ table[c].type = "AVAILABLE"
                                     /\ table' = [table EXCEPT ![c] = Free]
             /\ Written(ok)
             /\ mod' = IF ok THEN Without({m.client}) ELSE mod
             /\ orphans' = IF ok THEN orphans ELSE orphans \union {m.clientTag}
             /\ UNCHANGED held

LEMMA FreeFound ==
  \/ FreeSlot = NoSlot
  \/ FreeSlot \in Slots /\ FreeSlot # NoSlot /\ table[FreeSlot].type = "AVAILABLE"
<1> DEFINE S == {i \in Slots : table[i].type = "AVAILABLE"}
<1>1. S \in SUBSET Slots
  OBVIOUS
<1>2. (S = {} => LowestSlot(S) = NoSlot) /\ (S # {} => LowestSlot(S) \in S)
  BY <1>1, LowestFound
<1>3. FreeSlot = LowestSlot(S)
  BY DEF FreeSlot
<1>4. QED
  BY <1>2, <1>3, SlotIsNotNone

LEMMA ClientDoes == ASSUME Typed, NEW act \in {"accept", "reject", "close"}, NEW ok \in BOOLEAN,
                           HandleClient(act, ok)
  PROVE  /\ line' \in Seq(FrameType) /\ Read(line, line') /\ line[1] \in FrameType
         /\ Len(line) \in Nat /\ Len(line) >= 1 /\ line[1].t = "CLIENT"
         /\ UNCHANGED <<frame_id, asked, incs>>
         /\ ClientDone(act, ok)
<1>1. Frame("CLIENT") /\ line' = Tail(line) /\ UNCHANGED <<frame_id, asked, incs>>
  BY DEF HandleClient
<1>2. /\ line' \in Seq(FrameType) /\ Read(line, line') /\ line[1] \in FrameType
      /\ Len(line) \in Nat /\ Len(line) >= 1 /\ line[1].t = "CLIENT" /\ Head(line) = line[1]
  BY <1>1, FrameRead
<1>3. PICK l : l = LookupId(line[1].id)
  OBVIOUS
<1>4. PICK c : c = FreeSlot
  OBVIOUS
<1>5. \/ l = NoSlot /\ \A j \in Slots : ~Owns(j, line[1].id)
      \/ l \in Slots /\ l # NoSlot /\ Owns(l, line[1].id)
  BY <1>3, IdFound DEF Owns
<1>6. c = NoSlot \/ (c \in Slots /\ c # NoSlot /\ table[c].type = "AVAILABLE")
  BY <1>4, FreeFound
<1>7. ASSUME l = NoSlot \/ table[l].type # "LISTEN" PROVE ClientDone(act, ok)
  <2>1. orphans' = orphans \union {line[1].clientTag} /\ Ignored /\ UNCHANGED used
    BY <1>2, <1>3, <1>7 DEF HandleClient
  <2>2. QED
    BY <1>5, <1>7, <2>1, Zenon DEF ClientDone
<1>8. ASSUME ~(l = NoSlot \/ table[l].type # "LISTEN") PROVE ClientDone(act, ok)
  <2>1. l \in Slots /\ Owns(l, line[1].id) /\ table[l].type = "LISTEN"
    BY <1>5, <1>8
  <2>2. Tell(line[1], l)
    BY <1>2, <1>3, <1>8 DEF HandleClient
  <2>3. \/ /\ c # NoSlot
           /\ table' = [table EXCEPT ![c] = Accepted(c, l, line[1])]
           /\ held' = held \union {[h |-> <<c, Accepted(c, l, line[1]).create_frame_id>>,
                                    inc |-> line[1].clientTag]}
           /\ UNCHANGED <<mod, orphans, used>>
        \/ /\ c # NoSlot
           /\ table' = [table EXCEPT ![c] = [Free EXCEPT !.handler = "receive"]]
           /\ mod' = Without({line[1].client})
           /\ UNCHANGED <<held, orphans, used>>
        \/ /\ table' = IF c = NoSlot THEN table ELSE [table EXCEPT ![c] = Free]
           /\ Written(ok)
           /\ mod' = IF ok THEN Without({line[1].client}) ELSE mod
           /\ orphans' = IF ok THEN orphans ELSE orphans \union {line[1].clientTag}
           /\ UNCHANGED held
    BY <1>2, <1>3, <1>4, <1>8 DEF HandleClient, Accepted
  <2>4. c \in Slots => Accepted(c, l, line[1]).create_frame_id = table[l].create_frame_id
    BY DEF Accepted, Typed, TypeOK, Entry
  <2>5. \/ \E d \in Slots :
             /\ table[d].type = "AVAILABLE"
             /\ table' = [table EXCEPT ![d] = Accepted(d, l, line[1])]
             /\ held' = held \union {[h |-> <<d, table[l].create_frame_id>>, inc |-> line[1].clientTag]}
             /\ UNCHANGED <<mod, orphans, used>>
        \/ /\ \E d \in Slots :
                /\ table[d].type = "AVAILABLE"
                /\ table' = [table EXCEPT ![d] = [Free EXCEPT !.handler = "receive"]]
           /\ mod' = Without({line[1].client})
           /\ UNCHANGED <<held, orphans, used>>
        \/ /\ \/ table' = table
              \/ \E d \in Slots : /\ table[d].type = "AVAILABLE"
                                   /\ table' = [table EXCEPT ![d] = Free]
           /\ Written(ok)
           /\ mod' = IF ok THEN Without({line[1].client}) ELSE mod
           /\ orphans' = IF ok THEN orphans ELSE orphans \union {line[1].clientTag}
           /\ UNCHANGED held
    BY <1>6, <2>3, <2>4
  <2>6. QED
    BY <2>1, <2>2, <2>5, Zenon DEF ClientDone
<1>9. QED
  BY <1>1, <1>2, <1>7, <1>8

LEMMA TypedHandleTxStatus == ASSUME Typed, NEW act \in Acts, HandleTxStatus(act)
                             PROVE  Typed'
<1>1. /\ line' \in Seq(FrameType)
      /\ UNCHANGED <<frame_id, asked, orphans, incs, used>>
      /\ TxStatusDone(act)
  BY TxStatusDoes
<1>2. \A i \in Slots : [table EXCEPT ![i].tx_frame_id = 0] \in [Slots -> Entry]
  <2>1. 0 \in 0 .. MaxFrameId
    BY SocketAssumption
  <2>2. \A e \in Entry : [e EXCEPT !.tx_frame_id = 0] \in Entry
    BY <2>1 DEF Entry
  <2>3. QED
    BY <2>2 DEF Typed, TypeOK
<1>3. table' \in [Slots -> Entry]
  BY <1>1, <1>2, FreeIsEntry DEF TxStatusDone, Ignored, Typed, TypeOK
<1>4. mod' = mod \/ \E ids : mod' = Without(ids)
  BY <1>1 DEF TxStatusDone, Ignored
<1>5. ModType(mod')
  BY <1>4, WithoutTyped DEF ModType, Typed, TypeOK
<1>6. held' \subseteq held /\ misled' \in BOOLEAN
  BY <1>1 DEF TxStatusDone, Ignored, Drop, Tell, Typed, TypeOK
<1>7. QED
  BY <1>1, <1>3, <1>5, <1>6 DEF Typed, TypeOK, ModType

LEMMA TypedHandleCreateResp == ASSUME Typed, NEW act \in Acts, HandleCreateResp(act)
                               PROVE  Typed'
<1>1. /\ line' \in Seq(FrameType) /\ line[1] \in FrameType
      /\ UNCHANGED <<frame_id, asked, orphans, incs, used>>
      /\ CreateRespDone(act)
  BY CreateRespDoes
<1>2. \A i \in Slots : Created(line[1], i, act) \in Entry
  <2> SUFFICES ASSUME NEW i \in Slots PROVE Created(line[1], i, act) \in Entry
    OBVIOUS
  <2>1. line[1].id \in {0} \union ModuleIds /\ table[i] \in Entry
    BY <1>1, FrameFields DEF AnyId, Typed, TypeOK
  <2>2. [table[i] EXCEPT !.type = "CREATED", !.socket_id = line[1].id] \in Entry
    BY <2>1 DEF Entry, Type
  <2>3. QED
    BY <2>2, FreeIsEntry DEF Created
<1>3. table' = table \/ \E i \in Slots : table' = [table EXCEPT ![i] = Created(line[1], i, act)]
  BY <1>1 DEF CreateRespDone, Ignored
<1>4. table' \in [Slots -> Entry]
  BY <1>2, <1>3 DEF Typed, TypeOK
<1>5. mod' = mod \/ \E ids : mod' = Without(ids)
  BY <1>1 DEF CreateRespDone, Ignored
<1>6. ModType(mod')
  BY <1>5, WithoutTyped DEF ModType, Typed, TypeOK
<1>7. held' \subseteq held /\ misled' \in BOOLEAN
  BY <1>1 DEF CreateRespDone, Ignored, Drop, Tell, Typed, TypeOK
<1>8. QED
  BY <1>1, <1>4, <1>6, <1>7 DEF Typed, TypeOK, ModType

LEMMA AttachedType == \A m, i : Attached(m, i) \in Type \ {"AVAILABLE", "PENDING", "ATTACH"}
  BY DEF Attached, Type

LEMMA TypedHandleAttachResp == ASSUME Typed, NEW act \in Acts, HandleAttachResp(act)
                               PROVE  Typed'
<1>1. /\ line' \in Seq(FrameType)
      /\ UNCHANGED <<frame_id, asked, orphans, incs, used>>
      /\ AttachRespDone(act)
  BY AttachRespDoes
<1>2. \A e \in Entry : \A y \in Type : [e EXCEPT !.type = y] \in Entry
  BY DEF Entry
<1>3. \/ table' = table
      \/ \E i \in Slots, e \in Entry, y \in Type : table' = [table EXCEPT ![i] = [e EXCEPT !.type = y]]
  <2>1. \A i \in Slots : table[i] \in Entry /\ Attached(line[1], i) \in Type
    BY AttachedType DEF Typed, TypeOK
  <2>2. \/ table' = table
        \/ \E i \in Slots : table' = [table EXCEPT ![i] = [Free EXCEPT !.type = Attached(line[1], i)]]
        \/ \E i \in Slots : table' = [table EXCEPT ![i] = [table[i] EXCEPT !.type = Attached(line[1], i)]]
    BY <1>1 DEF AttachRespDone, Ignored
  <2>3. QED
    BY <2>1, <2>2, FreeIsEntry
<1>4. table' \in [Slots -> Entry]
  BY <1>2, <1>3 DEF Typed, TypeOK
<1>5. mod' = mod \/ \E ids : mod' = Without(ids)
  BY <1>1 DEF AttachRespDone, Ignored
<1>6. ModType(mod')
  BY <1>5, WithoutTyped DEF ModType, Typed, TypeOK
<1>7. held' \subseteq held /\ misled' \in BOOLEAN
  BY <1>1 DEF AttachRespDone, Ignored, Drop, Tell, Typed, TypeOK
<1>8. QED
  BY <1>1, <1>4, <1>6, <1>7 DEF Typed, TypeOK, ModType

LEMMA TypedHandleData == ASSUME Typed, NEW t \in {"OPTION_RESP", "RECEIVE", "RECEIVE_FROM"}, HandleData(t)
                         PROVE  Typed'
<1>1. /\ line' \in Seq(FrameType)
      /\ UNCHANGED <<table, frame_id, asked, mod, held, orphans, incs, used>>
      /\ DataDone(t)
  BY DataDoes
<1>2. misled' \in BOOLEAN
  BY <1>1 DEF DataDone, Tell, Typed, TypeOK
<1>3. QED
  BY <1>1, <1>2 DEF Typed, TypeOK

LEMMA TypedHandleState == ASSUME Typed, HandleState
                          PROVE  Typed'
<1>1. /\ line' \in Seq(FrameType)
      /\ UNCHANGED <<frame_id, asked, orphans, incs, used>>
      /\ StateDone
  BY StateDoes
<1>2. table' \in [Slots -> Entry]
  BY <1>1, FreeIsEntry DEF StateDone, Ignored, Typed, TypeOK
<1>3. mod' = mod /\ held' \subseteq held /\ misled' \in BOOLEAN
  BY <1>1 DEF StateDone, Ignored, Drop, Tell, Typed, TypeOK
<1>4. QED
  BY <1>1, <1>2, <1>3 DEF Typed, TypeOK

LEMMA TypedHandleClient == ASSUME Typed, NEW act \in {"accept", "reject", "close"}, NEW ok \in BOOLEAN,
                                  HandleClient(act, ok),
                                  \A l \in Slots : table[l].type = "LISTEN" /\ table[l].xbee =>
                                                     table[l].create_frame_id \in Fid
                           PROVE  Typed'
<1>1. /\ line' \in Seq(FrameType) /\ line[1] \in FrameType /\ line[1].t = "CLIENT"
      /\ UNCHANGED <<frame_id, asked, incs>>
      /\ ClientDone(act, ok)
  BY ClientDoes
<1>2. line[1].clientTag \in Nat /\ line[1].client \in ModuleIds
  BY <1>1, FrameFields
<1>3. \A c, l \in Slots : Accepted(c, l, line[1]) \in Entry
  <2> SUFFICES ASSUME NEW c \in Slots, NEW l \in Slots PROVE Accepted(c, l, line[1]) \in Entry
    OBVIOUS
  <2>1. /\ table[c] \in Entry /\ table[l].protocol \in Protocol
        /\ table[l].create_frame_id \in 0 .. MaxFrameId
    BY DEF Typed, TypeOK, Entry
  <2>2. QED
    BY <1>2, <2>1 DEF Accepted, Entry, Type, Callback
<1>4. [Free EXCEPT !.handler = "receive"] \in Entry
  BY FreeIsEntry DEF Entry, Callback
<1>5. /\ \/ table' = table
         \/ \E c \in Slots, e \in Entry : table' = [table EXCEPT ![c] = e]
  BY <1>1, <1>3, <1>4, FreeIsEntry DEF ClientDone, Ignored
<1>6. table' \in [Slots -> Entry]
  BY <1>5 DEF Typed, TypeOK
<1>7. mod' = mod \/ \E ids : mod' = Without(ids)
  BY <1>1 DEF ClientDone, Ignored
<1>8. ModType(mod')
  BY <1>7, WithoutTyped DEF ModType, Typed, TypeOK
<1>9. orphans' \subseteq Nat /\ misled' \in BOOLEAN
  BY <1>1, <1>2 DEF ClientDone, Ignored, Tell, Typed, TypeOK
<1>10. held' \subseteq [h : Slots \X Fid, inc : Nat]
  <2>1. \/ held' = held
        \/ \E l, c \in Slots : /\ table[l].type = "LISTEN" /\ table[l].xbee
             /\ held' = held \union {[h |-> <<c, table[l].create_frame_id>>, inc |-> line[1].clientTag]}
    BY <1>1 DEF ClientDone, Ignored, Owns
  <2>2. QED
    BY <1>2, <2>1 DEF Typed
<1>11. used' \in [DOMAIN Bounds -> Nat]
  <2>1. used' = used \/ Use("busy")
    BY <1>1 DEF ClientDone, Written
  <2>2. QED
    BY <2>1, Used DEF Typed
<1>12. QED
  BY <1>1, <1>6, <1>8, <1>9, <1>10, <1>11 DEF Typed, TypeOK, ModType

-----------------------------------------------------------------------------
(* Sockets and their numbers.                                                 *)

Harmless(m, c) == m.tag <= c /\ m.t \notin {"CREATE_RESP", "STATE", "CLIENT"}

LineStep(L, L2, c) == \/ L2 = L
                      \/ Read(L, L2)
                      \/ \E m : Harmless(m, c) /\ Appended(L, L2, m)

(* Every frame of the new line is harmless or one of the old line's.          *)
From(L, L2, c, d) == \A k \in 1 .. Len(L2) :
  Harmless(L2[k], c) \/ (k + d \in 1 .. Len(L) /\ L2[k] = L[k + d])

LEMMA LineFrom == ASSUME NEW L \in Seq(FrameType), NEW L2 \in Seq(FrameType), NEW c, LineStep(L, L2, c)
                  PROVE  \E d \in {0, 1} : From(L, L2, c, d)
<1>1. Len(L) \in Nat /\ Len(L2) \in Nat
  OBVIOUS
<1>2. ASSUME L2 = L PROVE From(L, L2, c, 0)
  BY <1>1, <1>2 DEF From
<1>3. ASSUME Read(L, L2) PROVE From(L, L2, c, 1)
  BY <1>1, <1>3 DEF Read, From
<1>4. ASSUME NEW m, Harmless(m, c), Appended(L, L2, m)
      PROVE From(L, L2, c, 0)
  BY <1>1, <1>4 DEF Appended, From
<1>5. QED
  BY <1>2, <1>3, <1>4 DEF LineStep

(* A step that makes no socket: entries are given up or keep their handles,   *)
(* no create is asked for, the module's sockets keep their numbers.           *)
NumStep(T, T2, A, A2, M, M2, L, L2, H, H2, c) ==
  /\ Blank(T2)
  /\ \A i \in Slots : /\ T2[i].inc <= c
                      /\ T2[i].xbee => /\ T[i].xbee /\ T2[i].inc = T[i].inc
                                       /\ T2[i].create_frame_id = T[i].create_frame_id
  /\ H2 = {x \in H : \A i \in Slots : T[i].xbee /\ ~T2[i].xbee => x.inc # T[i].inc}
  /\ \A a \in A2 : a \in A \/ (a.kind # "create" /\ a.tag <= c)
  /\ DOMAIN M2 \subseteq DOMAIN M
  /\ \A id \in DOMAIN M2 : M2[id].tag = M[id].tag
  /\ LineStep(L, L2, c)

LEMMA NumberedStep ==
  ASSUME NEW T \in [Slots -> Entry], NEW T2 \in [Slots -> Entry], NEW A, NEW A2, NEW M, NEW M2,
         NEW L \in Seq(FrameType), NEW L2 \in Seq(FrameType), NEW H, NEW H2, NEW c \in Nat,
         H \subseteq [h : Slots \X Fid, inc : Nat],
         Numbered(T, A, M, L, H, c),
         NumStep(T, T2, A, A2, M, M2, L, L2, H, H2, c)
  PROVE  Numbered(T2, A2, M2, L2, H2, c)
<1>0. PICK d \in {0, 1} : From(L, L2, c, d)
  BY LineFrom DEF NumStep
<1>1. \A k \in 1 .. Len(L2) : Harmless(L2[k], c) \/ (k + d \in 1 .. Len(L) /\ L2[k] = L[k + d])
  BY <1>0 DEF From
<1>2. Len(L) \in Nat /\ Len(L2) \in Nat
  OBVIOUS
<1>3. Kept(T2, H2)
  <2> USE DEF NumStep
  <2>1. Kept(T, H) /\ Apart(T, L)
    BY DEF Numbered
  <2>2. ASSUME NEW x \in H2 PROVE T2[x.h[1]].xbee /\ T2[x.h[1]].create_frame_id = x.h[2] /\ T2[x.h[1]].inc = x.inc
    <3>1. x \in H /\ x.h[1] \in Slots
      OBVIOUS
    <3>2. T[x.h[1]].xbee /\ T[x.h[1]].create_frame_id = x.h[2] /\ T[x.h[1]].inc = x.inc
      BY <2>1, <3>1 DEF Kept
    <3>3. T2[x.h[1]].xbee
      BY <3>1, <3>2
    <3>4. QED
      BY <3>1, <3>2, <3>3
  <2>3. ASSUME NEW i \in Live(T2) PROVE \E x \in H2 : x.inc = T2[i].inc
    <3>1. i \in Live(T) /\ i \in Slots /\ T2[i].xbee /\ T2[i].inc = T[i].inc
      BY <2>3 DEF Live
    <3>2. PICK x \in H : x.inc = T[i].inc
      BY <2>1, <3>1 DEF Kept
    <3>3. \A j \in Slots : T[j].xbee /\ ~T2[j].xbee => x.inc # T[j].inc
      BY <2>1, <3>1, <3>2 DEF Apart, Live
    <3>4. QED
      BY <3>1, <3>2, <3>3
  <2>4. QED
    BY <2>2, <2>3 DEF Kept
<1>4. Below(T2, A2, M2, L2, c)
  <2> USE DEF NumStep
  <2>1. Below(T, A, M, L, c)
    BY DEF Numbered
  <2>2. ASSUME NEW k \in 1 .. Len(L2)
        PROVE  L2[k].tag <= c /\ (L2[k].t = "CLIENT" => L2[k].clientTag <= c)
    BY <1>1, <2>1 DEF Below, Harmless
  <2>3. \A a \in A2 : a.tag <= c
    BY <2>1 DEF Below
  <2>4. \A id \in DOMAIN M2 : M2[id].tag <= c
    BY <2>1 DEF Below
  <2>5. QED
    BY <2>2, <2>3, <2>4 DEF Below
<1>5. Apart(T2, L2)
  <2> USE DEF NumStep
  <2>1. Apart(T, L)
    BY DEF Numbered
  <2>2. \A i, j \in Live(T2) : T2[i].inc = T2[j].inc => i = j
    BY <2>1 DEF Apart, Live
  <2>3. ASSUME NEW k \in 1 .. Len(L2), L2[k].t = "CLIENT"
        PROVE  /\ \A i \in Live(T2) : T2[i].inc # L2[k].clientTag
               /\ \A j \in 1 .. Len(L2) : L2[j].t = "CLIENT" /\ L2[j].clientTag = L2[k].clientTag => j = k
    <3>1. k + d \in 1 .. Len(L) /\ L2[k] = L[k + d]
      BY <1>1, <2>3 DEF Harmless
    <3>2. \A i \in Live(T2) : T2[i].inc # L2[k].clientTag
      BY <2>1, <2>3, <3>1 DEF Apart, Live
    <3>3. ASSUME NEW j \in 1 .. Len(L2), L2[j].t = "CLIENT", L2[j].clientTag = L2[k].clientTag PROVE j = k
      <4>1. j + d \in 1 .. Len(L) /\ L2[j] = L[j + d]
        BY <1>1, <3>3 DEF Harmless
      <4>2. j + d = k + d
        BY <2>1, <2>3, <3>1, <3>3, <4>1 DEF Apart
      <4>3. QED
        BY <1>2, <4>2
    <3>4. QED
      BY <3>2, <3>3
  <2>4. QED
    BY <2>2, <2>3 DEF Apart
<1>6. Once(A2, M2, L2)
  <2> USE DEF NumStep
  <2>1. Once(A, M, L)
    BY DEF Numbered
  <2>2. \A a, b \in A2 : a.kind = "create" /\ b.kind = "create" /\ a.tag = b.tag => a = b
    BY <2>1 DEF Once
  <2>3. \A id, jd \in DOMAIN M2 : M2[id].tag = M2[jd].tag => id = jd
    BY <2>1 DEF Once
  <2>4. \A a \in A2 : a.kind = "create" => \A id \in DOMAIN M2 : M2[id].tag # a.tag
    BY <2>1 DEF Once
  <2>5. ASSUME NEW k \in 1 .. Len(L2)
        PROVE  /\ L2[k].t \in {"CREATE_RESP", "STATE"} =>
                    \A a \in A2 : a.kind = "create" => a.tag # L2[k].tag
               /\ L2[k].t = "CLIENT" => \A a \in A2 : a.kind = "create" => a.tag # L2[k].clientTag
               /\ L2[k].t = "STATE" => \A id \in DOMAIN M2 : M2[id].tag # L2[k].tag
               /\ L2[k].t = "CREATE_RESP" =>
                    \A id \in DOMAIN M2 : M2[id].tag = L2[k].tag => L2[k].good /\ id = L2[k].id
               /\ L2[k].t = "CLIENT" =>
                    \A id \in DOMAIN M2 : M2[id].tag = L2[k].clientTag => id = L2[k].client
    <3>1. CASE Harmless(L2[k], c)
      BY <3>1 DEF Harmless
    <3>2. CASE k + d \in 1 .. Len(L) /\ L2[k] = L[k + d]
      BY <2>1, <3>2 DEF Once
    <3>3. QED
      BY <1>1, <3>1, <3>2
  <2>6. ASSUME NEW k \in 1 .. Len(L2), NEW j \in 1 .. Len(L2), L2[k].t = "CREATE_RESP"
        PROVE  /\ L2[j].t = "CREATE_RESP" /\ L2[j].tag = L2[k].tag => j = k
               /\ L2[j].t = "CLIENT" => L2[j].clientTag # L2[k].tag
    <3>1. k + d \in 1 .. Len(L) /\ L2[k] = L[k + d]
      BY <1>1, <2>6 DEF Harmless
    <3>2. CASE Harmless(L2[j], c)
      BY <3>2 DEF Harmless
    <3>3. CASE j + d \in 1 .. Len(L) /\ L2[j] = L[j + d]
      <4>1. /\ L2[j].t = "CREATE_RESP" /\ L2[j].tag = L2[k].tag => j + d = k + d
            /\ L2[j].t = "CLIENT" => L2[j].clientTag # L2[k].tag
        BY <2>1, <2>6, <3>1, <3>3 DEF Once
      <4>2. QED
        BY <1>2, <4>1
    <3>4. QED
      BY <1>1, <3>2, <3>3
  <2>7. QED
    BY <2>2, <2>3, <2>4, <2>5, <2>6 DEF Once
<1>7. QED
  BY <1>3, <1>4, <1>5, <1>6 DEF Numbered, NumStep

LEMMA BelowNext == ASSUME NEW T \in [Slots -> Entry], NEW A \in SUBSET Request, NEW M, ModType(M),
                          NEW L \in Seq(FrameType), NEW c \in Nat, Below(T, A, M, L, c)
                   PROVE  Below(T, A, M, L, c + 1)
<1>1. \A i \in Slots : T[i].inc <= c + 1
  BY DEF Below, Entry
<1>2. \A a \in A : a.tag <= c + 1
  BY DEF Below, Request
<1>3. \A id \in DOMAIN M : M[id].tag <= c + 1
  BY DEF Below, ModType
<1>4. \A k \in 1 .. Len(L) : L[k].tag <= c + 1 /\ (L[k].t = "CLIENT" => L[k].clientTag <= c + 1)
  <2> SUFFICES ASSUME NEW k \in 1 .. Len(L)
               PROVE  L[k].tag <= c + 1 /\ (L[k].t = "CLIENT" => L[k].clientTag <= c + 1)
    OBVIOUS
  <2>1. L[k] \in FrameType
    BY LineType
  <2>2. L[k].tag \in Nat /\ (L[k].t = "CLIENT" => L[k].clientTag \in Nat)
    BY <2>1, FrameFields
  <2>3. QED
    BY <2>2 DEF Below
<1>5. QED
  BY <1>1, <1>2, <1>3, <1>4 DEF Below

LEMMA NumberedCreate == ASSUME TableInv, NEW p \in Protocol, NEW ok \in BOOLEAN, Create(p, ok), Typed'
                        PROVE  Numbered(table', asked', mod', line', held', incs')
<1> DEFINE i == FreeSlot
           s == [table[i] EXCEPT !.type = "PENDING", !.xbee = TRUE, !.protocol = p,
                                 !.create_frame_id = NextFrameId, !.inc = incs + 1]
           a == [kind |-> "create", fid |-> NextFrameId, id |-> 0, tag |-> incs + 1]
           x == [h |-> <<i, NextFrameId>>, inc |-> incs + 1]
<1>1. i \in Slots /\ table[i].type = "AVAILABLE" /\ table[i] \in Entry
  BY FreeFound DEF Create, TableInv, Typed, TypeOK
<1>2. /\ table \in [Slots -> Entry] /\ line \in Seq(FrameType) /\ incs \in Nat
      /\ Numbered(table, asked, mod, line, held, incs)
      /\ held \subseteq [h : Slots \X Fid, inc : Nat] /\ asked \in SUBSET Request /\ ModType(mod)
  BY DEF TableInv, Typed, TypeOK, ModType
<1>3. Blank(table) /\ Kept(table, held) /\ Below(table, asked, mod, line, incs) /\ Apart(table, line)
      /\ Once(asked, mod, line)
  BY <1>2 DEF Numbered
<1>4. ~table[i].xbee
  BY <1>1, <1>3 DEF Blank
<1>5. CASE ok
  <2>1. /\ table' = [table EXCEPT ![i] = s] /\ asked' = asked \union {a} /\ mod' = mod /\ line' = line
        /\ held' = held \union {x} /\ incs' = incs + 1
    BY <1>5 DEF Create
  <2>2. /\ s.type = "PENDING" /\ s.xbee = TRUE /\ s.inc = incs + 1 /\ s.create_frame_id = NextFrameId
    BY <1>1 DEF Entry
  <2> HIDE DEF s, a, x
  <2>3. /\ table'[i] = s
        /\ \A j \in Slots : j # i => table'[j] = table[j]
    BY <1>1, <1>2, <2>1
  <2>4. Blank(table')
    BY <1>3, <2>2, <2>3 DEF Blank
  <2>5. Kept(table', held')
    <3>1. \A y \in held : y.h[1] \in Slots /\ y.h[1] # i
      BY <1>2, <1>3, <1>4 DEF Kept
    <3>2. x.h[1] = i /\ x.h[2] = NextFrameId /\ x.inc = incs + 1
      BY DEF x
    <3>3. \A y \in held' : table'[y.h[1]].xbee /\ table'[y.h[1]].create_frame_id = y.h[2] /\ table'[y.h[1]].inc = y.inc
      BY <1>3, <2>1, <2>2, <2>3, <3>1, <3>2 DEF Kept
    <3>4. \A j \in Live(table') : \E y \in held' : y.inc = table'[j].inc
      BY <1>3, <2>1, <2>2, <2>3, <3>2 DEF Kept, Live
    <3>5. QED
      BY <3>3, <3>4 DEF Kept
  <2>6. a.kind = "create" /\ a.tag = incs + 1
    BY DEF a
  <2>7. Below(table', asked', mod', line', incs')
    <3>1. Below(table, asked, mod, line, incs + 1)
      BY <1>2, <1>3, BelowNext
    <3>2. QED
      BY <1>2, <2>1, <2>2, <2>3, <2>6, <3>1 DEF Below
  <2>8. Apart(table', line')
    <3>1. /\ \A j \in Slots : table[j].inc # incs + 1
          /\ \A k \in 1 .. Len(line) : line[k].t = "CLIENT" => line[k].clientTag # incs + 1
      BY <1>2, <1>3 DEF Below
    <3>2. \A j \in Live(table') : (j = i /\ table'[j].inc = incs + 1)
                                  \/ (j \in Live(table) /\ table'[j].inc = table[j].inc)
      BY <1>1, <2>2, <2>3 DEF Live
    <3>3. Live(table') \subseteq Slots /\ Live(table) \subseteq Slots
      BY DEF Live
    <3>4. Apart(table, line) /\ line' = line
      BY <1>3, <2>1
    <3>5. \A j, k \in Live(table') : table'[j].inc = table'[k].inc => j = k
      BY <3>1, <3>2, <3>3, <3>4 DEF Apart
    <3>6. \A k \in 1 .. Len(line) : line[k].t = "CLIENT" =>
            \A j \in Live(table') : table'[j].inc # line[k].clientTag
      BY <3>1, <3>2, <3>4 DEF Apart
    <3>7. QED
      BY <3>4, <3>5, <3>6 DEF Apart
  <2>9. Once(asked', mod', line')
    BY <1>2, <1>3, <2>1, <2>6 DEF Once, Below
  <2>10. QED
    BY <2>4, <2>5, <2>7, <2>8, <2>9 DEF Numbered
<1>6. CASE ~ok
  <2>1. /\ table' = [table EXCEPT ![i] = Free] /\ UNCHANGED <<asked, mod, line, held, incs>>
    BY <1>6 DEF Create
  <2>2. /\ table' \in [Slots -> Entry] /\ table'[i] = Free /\ \A j \in Slots : j # i => table'[j] = table[j]
    BY <1>1, <1>2, <2>1, FreeIsEntry
  <2>3. ~Free.xbee /\ Free.inc = 0 /\ Free.tx_frame_id = 0 /\ Free.socket_id = 0
    BY DEF Free
  <2>4. Blank(table')
    BY <1>3, <2>2, <2>3 DEF Blank
  <2>5. \A j \in Slots : table'[j].xbee = table[j].xbee
    BY <1>4, <2>2, <2>3, <1>1 DEF Entry
  <2>6. held' = {y \in held : \A j \in Slots : table[j].xbee /\ ~table'[j].xbee => y.inc # table[j].inc}
    BY <2>1, <2>5
  <2>7. \A j \in Slots : /\ table'[j].inc <= incs
                         /\ table'[j].xbee => /\ table[j].xbee /\ table'[j].inc = table[j].inc
                                              /\ table'[j].create_frame_id = table[j].create_frame_id
    BY <1>2, <1>3, <2>2, <2>3 DEF Below
  <2>8. LineStep(line, line', incs)
    BY <2>1 DEF LineStep
  <2>9. NumStep(table, table', asked, asked', mod, mod', line, line', held, held', incs)
    BY <2>1, <2>4, <2>6, <2>7, <2>8 DEF NumStep
  <2>10. QED
    BY <1>2, <2>1, <2>2, <2>9, NumberedStep
<1>7. QED
  BY <1>5, <1>6

(* The entry of a handle.                                                     *)
LEMMA HeldEntry == ASSUME TableInv, NEW x \in held
  PROVE  /\ Lookup(x.h) \in Slots /\ Lookup(x.h) # NoSlot /\ Lookup(x.h) = x.h[1]
         /\ table[Lookup(x.h)].xbee /\ table[Lookup(x.h)].inc = x.inc
         /\ table[Lookup(x.h)].create_frame_id = x.h[2]
         /\ table[Lookup(x.h)].type # "AVAILABLE" /\ table[Lookup(x.h)] \in Entry
<1>1. Kept(table, held) /\ Blank(table)
  BY DEF TableInv, Numbered
<1>2. x.h[1] \in Slots
  BY DEF TableInv, Typed
<1>3. /\ table[x.h[1]].xbee /\ table[x.h[1]].create_frame_id = x.h[2] /\ table[x.h[1]].inc = x.inc
  BY <1>1 DEF Kept
<1>4. Lookup(x.h) = x.h[1]
  BY <1>3 DEF Lookup
<1>5. QED
  BY <1>1, <1>2, <1>3, <1>4, SlotIsNotNone DEF Blank, TableInv, Typed, TypeOK

LEMMA InvFacts == ASSUME TableInv
  PROVE  /\ table \in [Slots -> Entry] /\ line \in Seq(FrameType) /\ incs \in Nat
         /\ held \subseteq [h : Slots \X Fid, inc : Nat] /\ asked \in SUBSET Request /\ ModType(mod)
         /\ Numbered(table, asked, mod, line, held, incs)
         /\ Blank(table) /\ Kept(table, held) /\ Below(table, asked, mod, line, incs)
         /\ Apart(table, line) /\ Once(asked, mod, line)
  BY DEF TableInv, Typed, TypeOK, Numbered, ModType

(* Entry i is given up, for what stays AVAILABLE or is lost.                  *)
Gone(e) == e \in Entry /\ ~e.xbee /\ e.inc = 0 /\ e.tx_frame_id = 0 /\ e.socket_id = 0

LEMMA FreeIsGone == Gone(Free) /\ Gone([Free EXCEPT !.handler = "receive"])
                      /\ \A y \in Type : Gone([Free EXCEPT !.type = y])
<1>1. Free \in Entry /\ ~Free.xbee /\ Free.inc = 0 /\ Free.tx_frame_id = 0 /\ Free.socket_id = 0
  BY FreeIsEntry DEF Free
<1>2. "receive" \in Callback
  BY DEF Callback
<1>3. QED
  BY <1>1, <1>2 DEF Gone, Entry

Calm == /\ \A a \in asked' : a \in asked \/ (a.kind # "create" /\ a.tag <= incs)
        /\ DOMAIN mod' \subseteq DOMAIN mod
        /\ \A id \in DOMAIN mod' : mod'[id].tag = mod[id].tag
        /\ LineStep(line, line', incs)
        /\ incs' = incs

LEMMA NumberedDrop == ASSUME TableInv, Typed', NEW i \in Slots, NEW e, Gone(e), table[i].xbee,
                             table' = [table EXCEPT ![i] = e], held' = Drop(i), Calm
                      PROVE  Numbered(table', asked', mod', line', held', incs')
<1>1. table' \in [Slots -> Entry] /\ line' \in Seq(FrameType)
  BY DEF Typed, TypeOK
<1>2. table'[i] = e /\ \A j \in Slots : j # i => table'[j] = table[j]
  BY InvFacts
<1>3. Blank(table')
  BY <1>2, InvFacts DEF Blank, Gone
<1>4. \A j \in Slots : /\ table'[j].inc <= incs
                       /\ table'[j].xbee => /\ table[j].xbee /\ table'[j].inc = table[j].inc
                                            /\ table'[j].create_frame_id = table[j].create_frame_id
  BY <1>2, InvFacts DEF Below, Gone
<1>5. \A j \in Slots : (table[j].xbee /\ ~table'[j].xbee) <=> j = i
  BY <1>2 DEF Gone
<1>6. held' = {x \in held : \A j \in Slots : table[j].xbee /\ ~table'[j].xbee => x.inc # table[j].inc}
  BY <1>5 DEF Drop
<1>7. NumStep(table, table', asked, asked', mod, mod', line, line', held, held', incs)
  BY <1>3, <1>4, <1>6 DEF NumStep, Calm
<1>8. QED
  BY <1>1, <1>7, InvFacts, NumberedStep DEF Calm

LEMMA NumberedKeep == ASSUME TableInv, Typed', Blank(table'), Calm, held' = held,
                             \A j \in Slots : /\ table'[j].xbee = table[j].xbee
                                              /\ table'[j].inc \in {0, table[j].inc}
                                              /\ table[j].xbee =>
                                                   /\ table'[j].inc = table[j].inc
                                                   /\ table'[j].create_frame_id = table[j].create_frame_id
                      PROVE  Numbered(table', asked', mod', line', held', incs')
<1>1. table' \in [Slots -> Entry] /\ line' \in Seq(FrameType)
  BY DEF Typed, TypeOK
<1>2. \A j \in Slots : /\ table'[j].inc <= incs
                       /\ table'[j].xbee => /\ table[j].xbee /\ table'[j].inc = table[j].inc
                                            /\ table'[j].create_frame_id = table[j].create_frame_id
  BY InvFacts DEF Below
<1>3. held' = {x \in held : \A j \in Slots : table[j].xbee /\ ~table'[j].xbee => x.inc # table[j].inc}
  OBVIOUS
<1>4. NumStep(table, table', asked, asked', mod, mod', line, line', held, held', incs)
  BY <1>2, <1>3 DEF NumStep, Calm
<1>5. QED
  BY <1>1, <1>4, InvFacts, NumberedStep DEF Calm

LEMMA NumberedAttach == ASSUME TableInv, NEW x \in held, NEW how \in {"connect", "bind", "listen"},
                               NEW ok \in BOOLEAN, Attach(x, how, ok), Typed'
                        PROVE  Numbered(table', asked', mod', line', held', incs')
<1>1. PICK i : i = Lookup(x.h)
  OBVIOUS
<1>2. i \in Slots /\ table[i].xbee /\ table[i].type # "AVAILABLE" /\ table[i] \in Entry
  BY <1>1, HeldEntry
<1>3. UNCHANGED <<asked, held, incs>>
  BY DEF Attach
<1>4. /\ DOMAIN mod' \subseteq DOMAIN mod
      /\ \A id \in DOMAIN mod' : mod'[id].tag = mod[id].tag
  <2>1. ModType(mod)
    BY InvFacts
  <2>2. mod' = mod \/ \E j \in DOMAIN mod : \E p : mod' = [mod EXCEPT ![j].phase = p]
    BY <1>1 DEF Attach
  <2>3. QED
    BY <2>1, <2>2 DEF ModType
<1>5. LineStep(line, line', incs)
  <2>1. CASE line' = line
    BY <2>1 DEF LineStep
  <2>2. CASE line' # line
    <3> DEFINE m == [t |-> "ATTACH_RESP", id |-> table[i].socket_id, connect |-> how = "connect",
                     good |-> FALSE, tag |-> table[i].inc]
    <3>1. line' = Append(line, m)
      BY <1>1, <2>2 DEF Attach
    <3>2. Harmless(m, incs)
      BY <1>2, InvFacts DEF Harmless, Below
    <3> HIDE DEF m
    <3>3. Appended(line, line', m)
      BY <3>1, InvFacts DEF Appended
    <3>4. QED
      BY <3>2, <3>3 DEF LineStep
  <2>3. QED
    BY <2>1, <2>2
<1>6. /\ \A j \in Slots : j # i => table'[j] = table[j]
      /\ table'[i].xbee = table[i].xbee /\ table'[i].inc = table[i].inc
      /\ table'[i].create_frame_id = table[i].create_frame_id
      /\ table'[i].type # "AVAILABLE"
  <2>1. table' = table \/ table' = [table EXCEPT ![i].type = "ATTACH", ![i].handler = CallbackOf(how)]
    BY <1>1 DEF Attach
  <2>2. PICK h : h = CallbackOf(how)
    OBVIOUS
  <2>3. [table EXCEPT ![i].type = "ATTACH", ![i].handler = h]
          = [table EXCEPT ![i] = [table[i] EXCEPT !.type = "ATTACH", !.handler = h]]
    BY <1>2, InvFacts
  <2>4. PICK e : e = [table[i] EXCEPT !.type = "ATTACH", !.handler = h]
    OBVIOUS
  <2>5. e.xbee = table[i].xbee /\ e.inc = table[i].inc /\ e.create_frame_id = table[i].create_frame_id
          /\ e.type = "ATTACH"
    BY <1>2, <2>4 DEF Entry
  <2>6. table' = table \/ table' = [table EXCEPT ![i] = e]
    BY <2>1, <2>2, <2>3, <2>4
  <2>7. QED
    BY <1>2, <2>5, <2>6, InvFacts
<1>7. Blank(table')
  BY <1>6, InvFacts DEF Blank
<1>8. QED
  BY <1>3, <1>4, <1>5, <1>6, <1>7, NumberedKeep DEF Calm

LEMMA NumberedSend == ASSUME TableInv, NEW x \in held, NEW ok \in BOOLEAN, Send(x, ok), Typed'
                      PROVE  Numbered(table', asked', mod', line', held', incs')
<1>1. PICK i : i = Lookup(x.h)
  OBVIOUS
<1>2. i \in Slots /\ table[i].xbee /\ table[i].type # "AVAILABLE" /\ table[i] \in Entry
  BY <1>1, HeldEntry
<1>3. UNCHANGED <<mod, line, held, incs>>
  BY DEF Send
<1>4. \A a \in asked' : a \in asked \/ (a.kind # "create" /\ a.tag <= incs)
  <2>1. table[i].inc <= incs
    BY <1>2, InvFacts DEF Below
  <2>2. \/ asked' = asked
        \/ asked' = asked \union {[kind |-> "send", fid |-> NextFrameId,
                                   id |-> table[i].socket_id, tag |-> table[i].inc]}
    BY <1>1 DEF Send
  <2>3. QED
    BY <2>1, <2>2
<1>5. LineStep(line, line', incs)
  BY <1>3 DEF LineStep
<1>6. /\ \A j \in Slots : j # i => table'[j] = table[j]
      /\ table'[i].xbee = table[i].xbee /\ table'[i].inc = table[i].inc
      /\ table'[i].create_frame_id = table[i].create_frame_id
      /\ table'[i].type # "AVAILABLE"
  <2>1. \/ table' = table
        \/ \E h : table' = [table EXCEPT ![i].tx_frame_id = h]
    BY <1>1 DEF Send
  <2>2. CASE table' = table
    BY <1>2, <2>2
  <2>3. CASE \E h : table' = [table EXCEPT ![i].tx_frame_id = h]
    <3>1. PICK h : table' = [table EXCEPT ![i].tx_frame_id = h]
      BY <2>3
    <3>2. PICK e : e = [table[i] EXCEPT !.tx_frame_id = h]
      OBVIOUS
    <3>3. e.xbee = table[i].xbee /\ e.inc = table[i].inc /\ e.type = table[i].type
          /\ e.create_frame_id = table[i].create_frame_id
      BY <1>2, <3>2 DEF Entry
    <3>4. table \in [Slots -> Entry] /\ table' = [table EXCEPT ![i] = e]
      BY <3>1, <3>2, InvFacts
    <3>5. QED
      BY <1>2, <3>3, <3>4
  <2>4. QED
    BY <2>1, <2>2, <2>3
<1>7. Blank(table')
  BY <1>6, InvFacts DEF Blank
<1>8. QED
  BY <1>3, <1>4, <1>5, <1>6, <1>7, NumberedKeep DEF Calm

LEMMA NumberedOption == ASSUME TableInv, NEW x \in held, NEW callback \in BOOLEAN, NEW ok \in BOOLEAN,
                               Option(x, callback, ok), Typed'
                        PROVE  Numbered(table', asked', mod', line', held', incs')
<1>1. PICK i : i = Lookup(x.h)
  OBVIOUS
<1>2. i \in Slots /\ table[i].xbee /\ table[i].type # "AVAILABLE" /\ table[i] \in Entry
  BY <1>1, HeldEntry
<1>3. UNCHANGED <<mod, line, held, incs>>
  BY DEF Option
<1>4. \A a \in asked' : a \in asked \/ (a.kind # "create" /\ a.tag <= incs)
  <2>1. table[i].inc <= incs
    BY <1>2, InvFacts DEF Below
  <2>2. \/ asked' = asked
        \/ asked' = asked \union {[kind |-> "option", fid |-> NextFrameId,
                                   id |-> table[i].socket_id, tag |-> table[i].inc]}
    BY <1>1 DEF Option
  <2>3. QED
    BY <2>1, <2>2
<1>5. LineStep(line, line', incs)
  BY <1>3 DEF LineStep
<1>6. /\ \A j \in Slots : j # i => table'[j] = table[j]
      /\ table'[i].xbee = table[i].xbee /\ table'[i].inc = table[i].inc
      /\ table'[i].create_frame_id = table[i].create_frame_id
      /\ table'[i].type # "AVAILABLE"
  <2>1. PICK e : e = [table[i] EXCEPT !.option = callback]
    OBVIOUS
  <2>2. /\ e.xbee = table[i].xbee /\ e.inc = table[i].inc
        /\ e.create_frame_id = table[i].create_frame_id /\ e.type = table[i].type
    BY <1>2, <2>1 DEF Entry
  <2>3. table' = table \/ table' = [table EXCEPT ![i].option = callback]
    BY <1>1 DEF Option
  <2>4. table' = table \/ table' = [table EXCEPT ![i] = e]
    BY <1>2, <2>1, <2>3, InvFacts
  <2>5. QED
    BY <1>2, <2>2, <2>4, InvFacts
<1>7. Blank(table')
  BY <1>6, InvFacts DEF Blank
<1>8. QED
  BY <1>3, <1>4, <1>5, <1>6, <1>7, NumberedKeep DEF Calm

LEMMA NumberedClose == ASSUME TableInv, NEW x \in held, NEW ok \in BOOLEAN, Close(x, ok), Typed'
                       PROVE  Numbered(table', asked', mod', line', held', incs')
<1>1. PICK i : i = Lookup(x.h)
  OBVIOUS
<1>2. i \in Slots /\ table[i].xbee
  BY <1>1, HeldEntry
<1>3. UNCHANGED <<asked, line, incs>>
  BY DEF Close
<1>4. Calm
  <2>1. mod' = mod \/ mod' = Without({table[i].socket_id})
    BY <1>1 DEF Close
  <2>2. /\ DOMAIN mod' \subseteq DOMAIN mod
        /\ \A id \in DOMAIN mod' : mod'[id] = mod[id]
    BY <2>1 DEF Without
  <2>3. QED
    BY <1>3, <2>2 DEF Calm, LineStep
<1>5. CASE ok
  <2>1. table' = [table EXCEPT ![i] = Free] /\ held' = Drop(i)
    BY <1>1, <1>5 DEF Close
  <2>2. QED
    BY <1>2, <1>4, <2>1, NumberedDrop, FreeIsGone
<1>6. CASE ~ok
  <2>1. table' = table /\ held' = held
    BY <1>6 DEF Close
  <2>2. Blank(table')
    BY <2>1, InvFacts
  <2>3. QED
    BY <1>4, <2>1, <2>2, NumberedKeep
<1>7. QED
  BY <1>5, <1>6

LEMMA NumberedCloseAll == ASSUME TableInv, NEW all \in BOOLEAN, NEW k \in 0 .. SocketCount, CloseAll(all, k), Typed'
                          PROVE  Numbered(table', asked', mod', line', held', incs')
<1> DEFINE open == {i \in Slots : /\ table[i].type \notin {"AVAILABLE", "PENDING"}
                                  /\ all \/ table[i].xbee}
           gone == {i \in open : i < k}
<1>1. /\ table' = [i \in Slots |-> IF i \in gone THEN Free ELSE table[i]]
      /\ held' = {x \in held : \A i \in gone : x.inc # table[i].inc}
      /\ \A i \in gone : table[i].xbee
      /\ mod' = Without({table[i].socket_id : i \in gone})
      /\ UNCHANGED <<asked, line, incs>>
  BY DEF CloseAll
<1>2. PICK G \in SUBSET Slots : G = gone
  OBVIOUS
<1> HIDE DEF gone, open
<1>3. table' \in [Slots -> Entry] /\ line' \in Seq(FrameType)
  BY DEF Typed, TypeOK
<1>4. \A i \in Slots : table'[i] = IF i \in G THEN Free ELSE table[i]
  BY <1>1, <1>2
<1>5. Blank(table')
  BY <1>4, InvFacts, FreeIsGone DEF Blank, Gone
<1>6. \A j \in Slots : /\ table'[j].inc <= incs
                       /\ table'[j].xbee => /\ table[j].xbee /\ table'[j].inc = table[j].inc
                                            /\ table'[j].create_frame_id = table[j].create_frame_id
  BY <1>4, InvFacts, FreeIsGone DEF Below, Gone
<1>7. \A j \in Slots : (table[j].xbee /\ ~table'[j].xbee) <=> j \in G
  BY <1>1, <1>2, <1>4, FreeIsGone DEF Gone
<1>8. held' = {x \in held : \A j \in Slots : table[j].xbee /\ ~table'[j].xbee => x.inc # table[j].inc}
  BY <1>1, <1>2, <1>7
<1>9. /\ DOMAIN mod' \subseteq DOMAIN mod
      /\ \A id \in DOMAIN mod' : mod'[id].tag = mod[id].tag
  <2>1. PICK R : R = {table[i].socket_id : i \in gone}
    OBVIOUS
  <2>2. mod' = Without(R)
    BY <1>1, <2>1
  <2>3. QED
    BY <2>2, NowWithout
<1>10. NumStep(table, table', asked, asked', mod, mod', line, line', held, held', incs)
  BY <1>1, <1>5, <1>6, <1>8, <1>9 DEF NumStep, LineStep
<1>11. QED
  BY <1>1, <1>3, <1>10, InvFacts, NumberedStep

LEMMA NumberedReset == ASSUME TableInv, NEW ok \in BOOLEAN, Reset(ok), Typed'
                       PROVE  Numbered(table', asked', mod', line', held', incs')
<1>1. /\ table' = [i \in Slots |-> IF table[i].xbee THEN Free ELSE table[i]]
      /\ held' = {}
      /\ mod' = IF ok THEN Without(DOMAIN mod) ELSE mod
      /\ UNCHANGED <<asked, line, incs>>
  BY DEF Reset
<1>2. table' \in [Slots -> Entry] /\ line' \in Seq(FrameType)
  BY DEF Typed, TypeOK
<1>3. \A i \in Slots : table'[i] = (IF table[i].xbee THEN Free ELSE table[i]) /\ ~table'[i].xbee
  BY <1>1, FreeIsGone DEF Gone
<1>4. Blank(table')
  BY <1>3, InvFacts, FreeIsGone DEF Blank, Gone
<1>5. \A j \in Slots : table'[j].inc <= incs
  BY <1>3, InvFacts, FreeIsGone DEF Below, Gone
<1>6. held' = {x \in held : \A j \in Slots : table[j].xbee /\ ~table'[j].xbee => x.inc # table[j].inc}
  BY <1>1, <1>3, InvFacts DEF Kept
<1>7. /\ DOMAIN mod' \subseteq DOMAIN mod
      /\ \A id \in DOMAIN mod' : mod'[id].tag = mod[id].tag
  BY <1>1, WithoutLess
<1>8. NumStep(table, table', asked, asked', mod, mod', line, line', held, held', incs)
  BY <1>1, <1>3, <1>4, <1>5, <1>6, <1>7 DEF NumStep, LineStep
<1>9. QED
  BY <1>1, <1>2, <1>8, InvFacts, NumberedStep

LEMMA CalmSays == ASSUME TableInv, NEW m, Harmless(m, incs), Appended(line, line', m)
                  PROVE  LineStep(line, line', incs)
  BY DEF LineStep

LEMMA NumberedModAttach == ASSUME TableInv, NEW id \in DOMAIN mod, NEW good \in BOOLEAN, ModAttach(id, good), Typed'
                           PROVE  Numbered(table', asked', mod', line', held', incs')
<1>1. Appended(line, line', AttachAnswer(id, good))
  BY TypedModAttach DEF TableInv
<1>2. Harmless(AttachAnswer(id, good), incs)
  BY InvFacts DEF Harmless, AttachAnswer, Below
<1>3. LineStep(line, line', incs)
  BY <1>1, <1>2, CalmSays
<1>4. UNCHANGED <<table, asked, held, incs>>
  BY DEF ModAttach
<1>5. \E p : mod' = [mod EXCEPT ![id].phase = p]
  BY DEF ModAttach
<1>6. DOMAIN mod' = DOMAIN mod /\ \A jd \in DOMAIN mod' : mod'[jd].tag = mod[jd].tag
  BY <1>5, InvFacts DEF ModType
<1>7. QED
  BY <1>3, <1>4, <1>6, InvFacts, NumberedKeep DEF Calm

LEMMA NumberedModAnswer == ASSUME TableInv, NEW a \in asked, ModAnswer(a), Typed'
                           PROVE  Numbered(table', asked', mod', line', held', incs')
<1>1. Appended(line, line', ModAnswerFrame(a))
  BY TypedModAnswer DEF TableInv
<1>2. Harmless(ModAnswerFrame(a), incs)
  BY InvFacts DEF Harmless, ModAnswerFrame, Below
<1>3. LineStep(line, line', incs)
  BY <1>1, <1>2, CalmSays
<1>4. asked' \subseteq asked /\ UNCHANGED <<table, mod, held, incs>>
  BY DEF ModAnswer
<1>5. QED
  BY <1>3, <1>4, InvFacts, NumberedKeep DEF Calm

LEMMA NumberedModReceive == ASSUME TableInv, NEW id \in DOMAIN mod, ModReceive(id), Typed'
                            PROVE  Numbered(table', asked', mod', line', held', incs')
<1>1. Appended(line, line', DataNews(id))
  BY TypedModReceive DEF TableInv
<1>2. Harmless(DataNews(id), incs)
  BY InvFacts DEF Harmless, DataNews, Below
<1>3. LineStep(line, line', incs)
  BY <1>1, <1>2, CalmSays
<1>4. UNCHANGED <<table, asked, mod, held, incs>>
  BY DEF ModReceive
<1>5. QED
  BY <1>3, <1>4, InvFacts, NumberedKeep DEF Calm

LEMMA NumberedModState == ASSUME TableInv, NEW id \in DOMAIN mod, ModState(id), Typed'
                          PROVE  Numbered(table', asked', mod', line', held', incs')
<1>1. Appended(line, line', StateNews(id))
  BY TypedModState DEF TableInv
<1>2. UNCHANGED <<table, asked, held, incs>> /\ mod' = Without({id})
  BY DEF ModState
<1>3. DOMAIN mod' = DOMAIN mod \ {id} /\ \A jd \in DOMAIN mod' : mod'[jd] = mod[jd]
  BY <1>2, WithoutLess
<1>4. PICK m : m = StateNews(id)
  OBVIOUS
<1>5. m.t = "STATE" /\ m.tag = mod[id].tag
  BY <1>4 DEF StateNews
<1>6. Len(line) \in Nat /\ Len(line') \in Nat
  BY InvFacts, LineType DEF Typed
<1>7. /\ \A k \in 1 .. Len(line) : line'[k] = line[k]
      /\ \A k \in 1 .. Len(line') : k \in 1 .. Len(line) \/ line'[k] = m
      /\ Len(line') = Len(line) + 1 /\ line'[Len(line) + 1] = m
  BY <1>1, <1>4, <1>6 DEF Appended
<1>8. Below(table', asked', mod', line', incs')
  BY <1>2, <1>3, <1>5, <1>7, InvFacts DEF Below
<1>9. Apart(table', line')
  BY <1>2, <1>5, <1>7, InvFacts DEF Apart, Live
<1>10. Once(asked', mod', line')
  <2>1. /\ \A a, b \in asked' : a.kind = "create" /\ b.kind = "create" /\ a.tag = b.tag => a = b
        /\ \A jd, kd \in DOMAIN mod' : mod'[jd].tag = mod'[kd].tag => jd = kd
        /\ \A a \in asked' : a.kind = "create" => \A jd \in DOMAIN mod' : mod'[jd].tag # a.tag
    <3>1. Once(asked, mod, line)
      BY InvFacts
    <3>2. asked' = asked /\ DOMAIN mod' \subseteq DOMAIN mod
      BY <1>2, <1>3
    <3>3. QED
      BY <1>3, <3>1, <3>2 DEF Once
  <2>2. /\ \A a \in asked : a.kind = "create" => a.tag # m.tag
        /\ \A jd \in DOMAIN mod' : mod'[jd].tag # m.tag
    BY <1>3, <1>5, InvFacts DEF Once
  <2>3. ASSUME NEW k \in 1 .. Len(line')
        PROVE  /\ line'[k].t \in {"CREATE_RESP", "STATE"} =>
                    \A a \in asked' : a.kind = "create" => a.tag # line'[k].tag
               /\ line'[k].t = "CLIENT" => \A a \in asked' : a.kind = "create" => a.tag # line'[k].clientTag
               /\ line'[k].t = "STATE" => \A jd \in DOMAIN mod' : mod'[jd].tag # line'[k].tag
               /\ line'[k].t = "CREATE_RESP" =>
                    \A jd \in DOMAIN mod' : mod'[jd].tag = line'[k].tag => line'[k].good /\ jd = line'[k].id
               /\ line'[k].t = "CLIENT" =>
                    \A jd \in DOMAIN mod' : mod'[jd].tag = line'[k].clientTag => jd = line'[k].client
    <3>1. CASE k \in 1 .. Len(line)
      <4>1. Once(asked, mod, line) /\ line'[k] = line[k] /\ asked' = asked
        BY <1>2, <1>7, <3>1, InvFacts
      <4>2. QED
        BY <1>3, <3>1, <4>1 DEF Once
    <3>2. CASE line'[k] = m
      BY <1>2, <1>5, <2>2, <3>2
    <3>3. QED
      BY <1>7, <3>1, <3>2
  <2>4. \A k, j \in 1 .. Len(line') : line'[k].t = "CREATE_RESP" =>
          /\ line'[j].t = "CREATE_RESP" /\ line'[j].tag = line'[k].tag => j = k
          /\ line'[j].t = "CLIENT" => line'[j].clientTag # line'[k].tag
    BY <1>5, <1>7, InvFacts DEF Once
  <2>5. QED
    BY <2>1, <2>3, <2>4 DEF Once
<1>11. QED
  BY <1>2, <1>8, <1>9, <1>10, InvFacts DEF Numbered

LEMMA ModCreateDoes == ASSUME Typed, NEW a \in asked, NEW id \in ModuleIds, ModCreate(a, id)
  PROVE  /\ a.kind = "create" /\ asked' = asked \ {a}
         /\ UNCHANGED <<table, frame_id, held, orphans, misled, incs, used>>
         /\ \E m \in CreateResp :
              /\ m.t = "CREATE_RESP" /\ m.fid = a.fid /\ m.tag = a.tag /\ Appended(line, line', m)
              /\ \/ /\ m.good /\ m.id = id /\ FreshId(id)
                    /\ mod' = WithSocket(id, a.tag, "idle")
                 \/ ~m.good /\ m.id = 0 /\ mod' = mod
<1>1. a \in Request
  BY DEF Typed
<1>2. CreateAnswer(a, id, TRUE) \in CreateResp /\ CreateAnswer(a, 0, FALSE) \in CreateResp
  BY <1>1 DEF CreateResp, CreateAnswer, AnyId, Request
<1>3. CreateResp \subseteq FrameType
  BY DEF FrameType
<1>4. \/ /\ FreshId(id)
         /\ mod' = WithSocket(id, a.tag, "idle")
         /\ Says(CreateAnswer(a, id, TRUE))
      \/ Says(CreateAnswer(a, 0, FALSE)) /\ UNCHANGED mod
  BY DEF ModCreate, CreateAnswer
<1>5. ASSUME NEW m \in CreateResp, Says(m) PROVE Appended(line, line', m)
  BY <1>3, <1>5, TypedSays
<1>6. /\ CreateAnswer(a, id, TRUE).t = "CREATE_RESP" /\ CreateAnswer(a, id, TRUE).fid = a.fid
      /\ CreateAnswer(a, id, TRUE).tag = a.tag /\ CreateAnswer(a, id, TRUE).good = TRUE
      /\ CreateAnswer(a, id, TRUE).id = id
  BY DEF CreateAnswer
<1>7. /\ CreateAnswer(a, 0, FALSE).t = "CREATE_RESP" /\ CreateAnswer(a, 0, FALSE).fid = a.fid
      /\ CreateAnswer(a, 0, FALSE).tag = a.tag /\ CreateAnswer(a, 0, FALSE).good = FALSE
      /\ CreateAnswer(a, 0, FALSE).id = 0
  BY DEF CreateAnswer
<1>8. PICK m1, m2 : m1 = CreateAnswer(a, id, TRUE) /\ m2 = CreateAnswer(a, 0, FALSE)
  OBVIOUS
<1>9. \E m \in CreateResp :
        /\ m.t = "CREATE_RESP" /\ m.fid = a.fid /\ m.tag = a.tag /\ Appended(line, line', m)
        /\ \/ /\ m.good /\ m.id = id /\ FreshId(id)
              /\ mod' = WithSocket(id, a.tag, "idle")
           \/ ~m.good /\ m.id = 0 /\ mod' = mod
  <2>1. CASE FreshId(id) /\ mod' = WithSocket(id, a.tag, "idle") /\ Says(m1)
    BY <1>2, <1>5, <1>6, <1>8, <2>1
  <2>2. CASE Says(m2) /\ mod' = mod
    BY <1>2, <1>5, <1>7, <1>8, <2>2
  <2>3. QED
    BY <1>4, <1>8, <2>1, <2>2
<1>10. QED
  BY <1>9 DEF ModCreate

LEMMA NowWithSocket == ASSUME NEW id, NEW tag, NEW phase, mod' = WithSocket(id, tag, phase)
  PROVE  /\ DOMAIN mod' = DOMAIN mod \union {id}
         /\ mod'[id].tag = tag /\ mod'[id].phase = phase
         /\ \A j \in DOMAIN mod : j # id => mod'[j] = mod[j]
<1>1. /\ DOMAIN mod' = DOMAIN mod \union {id}
      /\ mod'[id] = [tag |-> tag, phase |-> phase]
      /\ \A j \in DOMAIN mod : j # id => mod'[j] = mod[j]
  BY DEF WithSocket
<1>2. QED
  BY <1>1

LEMMA NumberedModCreate == ASSUME TableInv, NEW a \in asked, NEW id \in ModuleIds, ModCreate(a, id), Typed'
                           PROVE  Numbered(table', asked', mod', line', held', incs')
<1>1. /\ a.kind = "create" /\ asked' = asked \ {a}
      /\ UNCHANGED <<table, frame_id, held, orphans, misled, incs, used>>
  BY ModCreateDoes DEF TableInv
<1>2. PICK m \in CreateResp :
        /\ m.t = "CREATE_RESP" /\ m.fid = a.fid /\ m.tag = a.tag /\ Appended(line, line', m)
        /\ \/ /\ m.good /\ m.id = id /\ FreshId(id)
              /\ mod' = WithSocket(id, a.tag, "idle")
           \/ ~m.good /\ mod' = mod
  BY ModCreateDoes DEF TableInv
<1>3. Len(line) \in Nat /\ Len(line') \in Nat
  BY InvFacts, LineType DEF Typed
<1>4. /\ \A k \in 1 .. Len(line) : line'[k] = line[k]
      /\ \A k \in 1 .. Len(line') : k \in 1 .. Len(line) \/ line'[k] = m
      /\ \A k \in 1 .. Len(line') : k \in 1 .. Len(line) \/ k = Len(line) + 1
  BY <1>2, <1>3 DEF Appended
<1>5. a.tag <= incs
  BY InvFacts DEF Below
<1>6. \A jd \in DOMAIN mod' : \/ jd \in DOMAIN mod /\ mod'[jd] = mod[jd]
                              \/ jd = id /\ mod'[jd].tag = a.tag /\ m.good /\ m.id = id
  <2>1. CASE m.good /\ m.id = id /\ mod' = WithSocket(id, a.tag, "idle")
    <3>1. PICK tag, phase : tag = a.tag /\ phase = "idle"
      OBVIOUS
    <3>2. mod' = WithSocket(id, tag, phase)
      BY <2>1, <3>1
    <3>3. /\ DOMAIN mod' = DOMAIN mod \union {id} /\ mod'[id].tag = tag
          /\ \A j \in DOMAIN mod : j # id => mod'[j] = mod[j]
      BY <3>2, NowWithSocket
    <3>4. QED
      BY <2>1, <3>1, <3>3
  <2>2. CASE mod' = mod
    BY <2>2
  <2>3. QED
    BY <1>2, <2>1, <2>2
<1>7. Below(table', asked', mod', line', incs')
  BY <1>1, <1>2, <1>4, <1>5, <1>6, InvFacts DEF Below
<1>8. Apart(table', line')
  BY <1>1, <1>2, <1>4, InvFacts DEF Apart, Live
<1>9. Once(asked', mod', line')
  <2>1. Once(asked, mod, line)
    BY InvFacts
  <2>2. /\ \A b \in asked' : b.kind = "create" => b.tag # a.tag
        /\ \A jd \in DOMAIN mod : mod[jd].tag # a.tag
        /\ \A k \in 1 .. Len(line) : line[k].t \in {"CREATE_RESP", "STATE"} => a.tag # line[k].tag
        /\ \A k \in 1 .. Len(line) : line[k].t = "CLIENT" => a.tag # line[k].clientTag
    BY <1>1, <2>1 DEF Once
  <2>3. \A b, e \in asked' : b.kind = "create" /\ e.kind = "create" /\ b.tag = e.tag => b = e
    BY <1>1, <2>1 DEF Once
  <2>4. \A jd, kd \in DOMAIN mod' : mod'[jd].tag = mod'[kd].tag => jd = kd
    BY <1>6, <2>1, <2>2 DEF Once
  <2>5. \A b \in asked' : b.kind = "create" => \A jd \in DOMAIN mod' : mod'[jd].tag # b.tag
    BY <1>1, <1>6, <2>1, <2>2 DEF Once
  <2>6. ASSUME NEW k \in 1 .. Len(line')
        PROVE  /\ line'[k].t \in {"CREATE_RESP", "STATE"} =>
                    \A b \in asked' : b.kind = "create" => b.tag # line'[k].tag
               /\ line'[k].t = "CLIENT" => \A b \in asked' : b.kind = "create" => b.tag # line'[k].clientTag
               /\ line'[k].t = "STATE" => \A jd \in DOMAIN mod' : mod'[jd].tag # line'[k].tag
               /\ line'[k].t = "CREATE_RESP" =>
                    \A jd \in DOMAIN mod' : mod'[jd].tag = line'[k].tag => line'[k].good /\ jd = line'[k].id
               /\ line'[k].t = "CLIENT" =>
                    \A jd \in DOMAIN mod' : mod'[jd].tag = line'[k].clientTag => jd = line'[k].client
    <3>1. CASE k \in 1 .. Len(line)
      <4>1. line'[k] = line[k] /\ asked' \subseteq asked
        BY <1>1, <1>4, <3>1
      <4>2. QED
        BY <1>6, <2>1, <2>2, <3>1, <4>1 DEF Once
    <3>2. CASE line'[k] = m
      BY <1>2, <1>6, <2>2, <3>2
    <3>3. QED
      BY <1>4, <3>1, <3>2
  <2>7. ASSUME NEW k \in 1 .. Len(line'), NEW j \in 1 .. Len(line'), line'[k].t = "CREATE_RESP"
        PROVE  /\ line'[j].t = "CREATE_RESP" /\ line'[j].tag = line'[k].tag => j = k
               /\ line'[j].t = "CLIENT" => line'[j].clientTag # line'[k].tag
    <3>1. CASE k \in 1 .. Len(line) /\ j \in 1 .. Len(line)
      BY <1>4, <2>1, <2>7, <3>1 DEF Once
    <3>2. CASE ~(k \in 1 .. Len(line)) /\ j \in 1 .. Len(line)
      BY <1>2, <1>4, <2>2, <2>7, <3>2
    <3>3. CASE k \in 1 .. Len(line) /\ ~(j \in 1 .. Len(line))
      BY <1>2, <1>4, <2>2, <2>7, <3>3
    <3>4. CASE ~(k \in 1 .. Len(line)) /\ ~(j \in 1 .. Len(line))
      <4>1. j = k /\ line'[j].t = "CREATE_RESP"
        BY <1>2, <1>4, <3>4
      <4>2. QED
        BY <4>1
    <3>5. QED
      BY <3>1, <3>2, <3>3, <3>4
  <2>8. QED
    BY <2>3, <2>4, <2>5, <2>6, <2>7 DEF Once
<1>10. QED
  BY <1>1, <1>7, <1>8, <1>9, InvFacts DEF Numbered

LEMMA NumberedModClient == ASSUME TableInv, NEW id \in DOMAIN mod, NEW client \in ModuleIds,
                                  ModClient(id, client), Typed'
                           PROVE  Numbered(table', asked', mod', line', held', incs')
<1>1. Appended(line, line', ClientNews(id, client))
  BY TypedModClient DEF TableInv
<1>2. PICK m : m = ClientNews(id, client)
  OBVIOUS
<1>3. m.t = "CLIENT" /\ m.tag = mod[id].tag /\ m.client = client /\ m.clientTag = incs + 1
  BY <1>2 DEF ClientNews
<1>4. /\ UNCHANGED <<table, frame_id, asked, held, orphans, misled>>
      /\ mod' = WithSocket(client, incs + 1, "connected") /\ incs' = incs + 1
  BY DEF ModClient
<1>5. \A jd \in DOMAIN mod' : \/ jd \in DOMAIN mod /\ mod'[jd] = mod[jd]
                              \/ jd = client /\ mod'[jd].tag = incs + 1
  <2>1. PICK tag, phase : tag = incs + 1 /\ phase = "connected"
    OBVIOUS
  <2>2. /\ DOMAIN mod' = DOMAIN mod \union {client} /\ mod'[client].tag = tag
        /\ \A j \in DOMAIN mod : j # client => mod'[j] = mod[j]
    BY <1>4, <2>1, NowWithSocket
  <2>3. QED
    BY <2>1, <2>2
<1>6. Len(line) \in Nat /\ Len(line') \in Nat /\ incs \in Nat
  BY InvFacts, LineType DEF Typed
<1>7. /\ \A k \in 1 .. Len(line) : line'[k] = line[k]
      /\ \A k \in 1 .. Len(line') : k \in 1 .. Len(line) \/ line'[k] = m
      /\ \A k \in 1 .. Len(line') : k \in 1 .. Len(line) \/ k = Len(line) + 1
  BY <1>1, <1>2, <1>6 DEF Appended
<1>8. Below(table, asked, mod, line, incs + 1)
  BY InvFacts, BelowNext
<1>9. Below(table', asked', mod', line', incs')
  <2>1. \A jd \in DOMAIN mod' : mod'[jd].tag <= incs'
    BY <1>4, <1>5, <1>6, <1>8 DEF Below
  <2>2. ASSUME NEW k \in 1 .. Len(line')
        PROVE  line'[k].tag <= incs' /\ (line'[k].t = "CLIENT" => line'[k].clientTag <= incs')
    BY <1>3, <1>4, <1>6, <1>7, <1>8 DEF Below
  <2>3. QED
    BY <1>4, <1>8, <2>1, <2>2 DEF Below
<1>10. Apart(table', line')
  <2>1. /\ \A i \in Slots : table[i].inc # incs + 1
        /\ \A k \in 1 .. Len(line) : line[k].t = "CLIENT" => line[k].clientTag # incs + 1
    BY <1>6, InvFacts DEF Below
  <2>2. QED
    <3>1. Apart(table, line) /\ Live(table) \subseteq Slots
      BY InvFacts DEF Live
    <3>2. \A k \in 1 .. Len(line') : \/ k \in 1 .. Len(line) /\ line'[k] = line[k]
                                     \/ k = Len(line) + 1 /\ line'[k] = m
      BY <1>7
    <3>3. \A i \in Live(table) : \A k \in 1 .. Len(line') :
            line'[k].t = "CLIENT" => table[i].inc # line'[k].clientTag
      BY <1>3, <2>1, <3>1, <3>2 DEF Apart
    <3>4. \A j, k \in 1 .. Len(line') :
            line'[k].t = "CLIENT" /\ line'[j].t = "CLIENT" /\ line'[j].clientTag = line'[k].clientTag => j = k
      BY <1>3, <2>1, <3>1, <3>2 DEF Apart
    <3>5. QED
      BY <1>4, <3>1, <3>3, <3>4 DEF Apart
<1>11. Once(asked', mod', line')
  <2>1. Once(asked, mod, line)
    BY InvFacts
  <2>2. /\ \A b \in asked : b.tag # incs + 1
        /\ \A jd \in DOMAIN mod : mod[jd].tag # incs + 1
        /\ \A k \in 1 .. Len(line) : line[k].tag # incs + 1
        /\ \A k \in 1 .. Len(line) : line[k].t = "CLIENT" => line[k].clientTag # incs + 1
    BY <1>6, InvFacts DEF Below
  <2>3. asked' = asked
    BY <1>4
  <2>4. \A jd, kd \in DOMAIN mod' : mod'[jd].tag = mod'[kd].tag => jd = kd
    BY <1>5, <2>1, <2>2 DEF Once
  <2>5. \A b \in asked' : b.kind = "create" => \A jd \in DOMAIN mod' : mod'[jd].tag # b.tag
    BY <1>5, <2>1, <2>2, <2>3 DEF Once
  <2>6. ASSUME NEW k \in 1 .. Len(line')
        PROVE  /\ line'[k].t \in {"CREATE_RESP", "STATE"} =>
                    \A b \in asked' : b.kind = "create" => b.tag # line'[k].tag
               /\ line'[k].t = "CLIENT" => \A b \in asked' : b.kind = "create" => b.tag # line'[k].clientTag
               /\ line'[k].t = "STATE" => \A jd \in DOMAIN mod' : mod'[jd].tag # line'[k].tag
               /\ line'[k].t = "CREATE_RESP" =>
                    \A jd \in DOMAIN mod' : mod'[jd].tag = line'[k].tag => line'[k].good /\ jd = line'[k].id
               /\ line'[k].t = "CLIENT" =>
                    \A jd \in DOMAIN mod' : mod'[jd].tag = line'[k].clientTag => jd = line'[k].client
    <3>1. CASE k \in 1 .. Len(line)
      <4>1. line'[k] = line[k]
        BY <1>7, <3>1
      <4>2. QED
        BY <1>5, <2>1, <2>2, <2>3, <3>1, <4>1 DEF Once
    <3>2. CASE line'[k] = m
      BY <1>3, <1>5, <2>2, <2>3, <3>2
    <3>3. QED
      BY <1>7, <3>1, <3>2
  <2>7. \A k, j \in 1 .. Len(line') : line'[k].t = "CREATE_RESP" =>
          /\ line'[j].t = "CREATE_RESP" /\ line'[j].tag = line'[k].tag => j = k
          /\ line'[j].t = "CLIENT" => line'[j].clientTag # line'[k].tag
    BY <1>3, <1>7, <2>1, <2>2 DEF Once
  <2>8. \A a, b \in asked' : a.kind = "create" /\ b.kind = "create" /\ a.tag = b.tag => a = b
    BY <2>1, <2>3 DEF Once
  <2>9. QED
    BY <2>4, <2>5, <2>6, <2>7, <2>8 DEF Once
<1>12. QED
  BY <1>4, <1>9, <1>10, <1>11, InvFacts DEF Numbered

(* The handlers.                                                              *)

LEMMA CalmRead == ASSUME TableInv, Read(line, line'), UNCHANGED <<asked, incs>>,
                         mod' = mod \/ \E ids : mod' = Without(ids)
                  PROVE  Calm
<1>1. /\ DOMAIN mod' \subseteq DOMAIN mod
      /\ \A id \in DOMAIN mod' : mod'[id] = mod[id]
  BY DEF Without
<1>2. QED
  BY <1>1 DEF Calm, LineStep

LEMMA NumberedChange == ASSUME TableInv, Typed', Calm, held' = held, NEW i \in Slots, NEW e \in Entry,
                               table' = [table EXCEPT ![i] = e],
                               e.xbee = table[i].xbee, e.type # "AVAILABLE",
                               e.inc = table[i].inc, e.create_frame_id = table[i].create_frame_id
                        PROVE  Numbered(table', asked', mod', line', held', incs')
<1>1. table'[i] = e /\ \A j \in Slots : j # i => table'[j] = table[j]
  BY InvFacts
<1>2. Blank(table')
  BY <1>1, InvFacts DEF Blank
<1>3. QED
  BY <1>1, <1>2, NumberedKeep

LEMMA NumberedHandleTxStatus == ASSUME TableInv, NEW act \in Acts, HandleTxStatus(act), Typed'
                                PROVE  Numbered(table', asked', mod', line', held', incs')
<1>1. Read(line, line') /\ UNCHANGED <<asked, incs>> /\ TxStatusDone(act)
  BY TxStatusDoes DEF TableInv
<1>2. mod' = mod \/ \E ids : mod' = Without(ids)
  BY <1>1 DEF TxStatusDone, Ignored
<1>3. Calm
  BY <1>1, <1>2, CalmRead
<1>4. CASE Ignored
  BY <1>3, <1>4, InvFacts, NumberedKeep DEF Ignored
<1>5. CASE \E i \in Slots : /\ table[i].xbee
                            /\ \/ table' = [table EXCEPT ![i] = Free] /\ held' = Drop(i)
                               \/ table' = [table EXCEPT ![i].tx_frame_id = 0] /\ held' = held
  <2>1. PICK i \in Slots : /\ table[i].xbee
                           /\ \/ table' = [table EXCEPT ![i] = Free] /\ held' = Drop(i)
                              \/ table' = [table EXCEPT ![i].tx_frame_id = 0] /\ held' = held
    BY <1>5
  <2>2. CASE table' = [table EXCEPT ![i] = Free] /\ held' = Drop(i)
    BY <1>3, <2>1, <2>2, FreeIsGone, NumberedDrop
  <2>3. CASE table' = [table EXCEPT ![i].tx_frame_id = 0] /\ held' = held
    <3>1. PICK e : e = [table[i] EXCEPT !.tx_frame_id = 0]
      OBVIOUS
    <3>2. table[i] \in Entry /\ table[i].type # "AVAILABLE"
      BY <2>1, InvFacts DEF Blank
    <3>3. /\ e.xbee = table[i].xbee /\ e.type = table[i].type /\ e.inc = table[i].inc
          /\ e.create_frame_id = table[i].create_frame_id
      BY <3>1, <3>2 DEF Entry
    <3>4. table' = [table EXCEPT ![i] = e]
      BY <2>3, <3>1, InvFacts
    <3>5. e \in Entry
      BY <3>4, InvFacts DEF Typed, TypeOK
    <3>6. QED
      BY <1>3, <2>3, <3>2, <3>3, <3>4, <3>5, NumberedChange
  <2>4. QED
    BY <2>1, <2>2, <2>3
<1>6. QED
  BY <1>1, <1>4, <1>5 DEF TxStatusDone

LEMMA NumberedHandleCreateResp == ASSUME TableInv, NEW act \in Acts, HandleCreateResp(act), Typed'
                                  PROVE  Numbered(table', asked', mod', line', held', incs')
<1>1. Read(line, line') /\ UNCHANGED <<asked, incs>> /\ CreateRespDone(act)
  BY CreateRespDoes DEF TableInv
<1>2. mod' = mod \/ \E ids : mod' = Without(ids)
  BY <1>1 DEF CreateRespDone, Ignored
<1>3. Calm
  BY <1>1, <1>2, CalmRead
<1>4. CASE Ignored
  BY <1>3, <1>4, InvFacts, NumberedKeep DEF Ignored
<1>5. ASSUME NEW i \in Slots, table[i].xbee, table[i].type = "PENDING",
             table' = [table EXCEPT ![i] = Created(line[1], i, act)],
             held' = IF line[1].good /\ act = "none" THEN held ELSE Drop(i)
      PROVE  Numbered(table', asked', mod', line', held', incs')
  <2>1. CASE line[1].good /\ act = "none"
    <3>1. PICK e : e = [table[i] EXCEPT !.type = "CREATED", !.socket_id = line[1].id]
      OBVIOUS
    <3>2. table[i] \in Entry
      BY InvFacts
    <3>3. /\ e.xbee = table[i].xbee /\ e.type = "CREATED" /\ e.inc = table[i].inc
          /\ e.create_frame_id = table[i].create_frame_id
      BY <3>1, <3>2 DEF Entry
    <3>4. table' = [table EXCEPT ![i] = e]
      BY <1>5, <2>1, <3>1, InvFacts DEF Created
    <3>5. e \in Entry
      BY <3>4, InvFacts DEF Typed, TypeOK
    <3>6. QED
      BY <1>3, <1>5, <2>1, <3>3, <3>4, <3>5, NumberedChange
  <2>2. CASE ~(line[1].good /\ act = "none")
    BY <1>3, <1>5, <2>2, FreeIsGone, NumberedDrop DEF Created
  <2>3. QED
    BY <2>1, <2>2
<1>6. QED
  BY <1>1, <1>4, <1>5 DEF CreateRespDone

LEMMA NumberedHandleAttachResp == ASSUME TableInv, NEW act \in Acts, HandleAttachResp(act), Typed'
                                  PROVE  Numbered(table', asked', mod', line', held', incs')
<1>1. Read(line, line') /\ UNCHANGED <<asked, incs>> /\ AttachRespDone(act)
  BY AttachRespDoes DEF TableInv
<1>2. mod' = mod \/ \E ids : mod' = Without(ids)
  BY <1>1 DEF AttachRespDone, Ignored
<1>3. Calm
  BY <1>1, <1>2, CalmRead
<1>4. CASE Ignored
  BY <1>3, <1>4, InvFacts, NumberedKeep DEF Ignored
<1>5. ASSUME NEW i \in Slots, table[i].xbee,
             \/ table' = [table EXCEPT ![i] = [Free EXCEPT !.type = Attached(line[1], i)]] /\ held' = Drop(i)
             \/ table' = [table EXCEPT ![i].type = Attached(line[1], i)] /\ held' = held
      PROVE  Numbered(table', asked', mod', line', held', incs')
  <2>1. PICK y : y = Attached(line[1], i)
    OBVIOUS
  <2>2. y \in Type /\ y # "AVAILABLE"
    BY <2>1, AttachedType
  <2>3. CASE table' = [table EXCEPT ![i] = [Free EXCEPT !.type = y]] /\ held' = Drop(i)
    <3>1. Gone([Free EXCEPT !.type = y])
      BY <2>2, FreeIsGone
    <3>2. QED
      BY <1>3, <1>5, <2>3, <3>1, NumberedDrop
  <2>4. CASE table' = [table EXCEPT ![i].type = y] /\ held' = held
    <3>1. PICK e : e = [table[i] EXCEPT !.type = y]
      OBVIOUS
    <3>2. table[i] \in Entry
      BY InvFacts
    <3>3. /\ e.xbee = table[i].xbee /\ e.type = y /\ e.inc = table[i].inc
          /\ e.create_frame_id = table[i].create_frame_id
      BY <3>1, <3>2 DEF Entry
    <3>4. table' = [table EXCEPT ![i] = e]
      BY <2>4, <3>1, InvFacts
    <3>5. e \in Entry
      BY <3>4, InvFacts DEF Typed, TypeOK
    <3>6. QED
      BY <1>3, <2>2, <2>4, <3>3, <3>4, <3>5, NumberedChange
  <2>5. QED
    BY <1>5, <2>1, <2>3, <2>4
<1>6. QED
  BY <1>1, <1>4, <1>5 DEF AttachRespDone, Owns

LEMMA NumberedHandleData == ASSUME TableInv, NEW t \in {"OPTION_RESP", "RECEIVE", "RECEIVE_FROM"}, HandleData(t), Typed'
                            PROVE  Numbered(table', asked', mod', line', held', incs')
<1>1. Read(line, line') /\ UNCHANGED <<table, asked, mod, held, incs>>
  BY DataDoes DEF TableInv
<1>2. Calm
  BY <1>1, CalmRead
<1>3. QED
  BY <1>1, <1>2, InvFacts, NumberedKeep

LEMMA NumberedHandleState == ASSUME TableInv, HandleState, Typed'
                             PROVE  Numbered(table', asked', mod', line', held', incs')
<1>1. Read(line, line') /\ UNCHANGED <<asked, incs>> /\ StateDone
  BY StateDoes DEF TableInv
<1>2. mod' = mod
  BY <1>1 DEF StateDone, Ignored
<1>3. Calm
  BY <1>1, <1>2, CalmRead
<1>4. CASE Ignored
  BY <1>3, <1>4, InvFacts, NumberedKeep DEF Ignored
<1>5. ASSUME NEW i \in Slots, table[i].xbee, table' = [table EXCEPT ![i] = Free], held' = Drop(i)
      PROVE  Numbered(table', asked', mod', line', held', incs')
  BY <1>3, <1>5, FreeIsGone, NumberedDrop
<1>6. QED
  BY <1>1, <1>4, <1>5 DEF StateDone, Owns

LEMMA LiveHandle == ASSUME TableInv, NEW i \in Slots, table[i].xbee
                    PROVE  \E x \in held : x.h[1] = i /\ x.h[2] = table[i].create_frame_id /\ x.inc = table[i].inc
<1>1. PICK x \in held : x.inc = table[i].inc
  BY InvFacts DEF Kept, Live
<1>2. x.h[1] \in Slots /\ table[x.h[1]].xbee /\ table[x.h[1]].inc = x.inc /\ table[x.h[1]].create_frame_id = x.h[2]
  BY InvFacts DEF Kept
<1>3. x.h[1] = i
  BY <1>1, <1>2, InvFacts DEF Apart, Live
<1>4. QED
  BY <1>1, <1>2, <1>3

LEMMA LiveFid == TableInv => \A i \in Slots : table[i].xbee => table[i].create_frame_id \in Fid
<1> SUFFICES ASSUME TableInv, NEW i \in Slots, table[i].xbee PROVE table[i].create_frame_id \in Fid
  OBVIOUS
<1>1. PICK x \in held : x.h[2] = table[i].create_frame_id
  BY LiveHandle
<1>2. QED
  BY <1>1, InvFacts

LEMMA NumberedHandleClient == ASSUME TableInv, NEW act \in {"accept", "reject", "close"}, NEW ok \in BOOLEAN,
                                     HandleClient(act, ok), Typed'
                              PROVE  Numbered(table', asked', mod', line', held', incs')
<1>1. /\ Read(line, line') /\ UNCHANGED <<asked, incs>> /\ ClientDone(act, ok)
      /\ line[1] \in FrameType /\ Len(line) \in Nat /\ Len(line) >= 1 /\ line[1].t = "CLIENT"
  BY ClientDoes DEF TableInv
<1>2. mod' = mod \/ \E ids : mod' = Without(ids)
  BY <1>1 DEF ClientDone, Ignored
<1>3. Calm
  BY <1>1, <1>2, CalmRead
<1>4. CASE table' = table /\ held' = held
  BY <1>3, <1>4, InvFacts, NumberedKeep
<1>5. ASSUME NEW c \in Slots, table[c].type = "AVAILABLE", NEW e, Gone(e),
             table' = [table EXCEPT ![c] = e], held' = held
      PROVE  Numbered(table', asked', mod', line', held', incs')
  <2>1. ~table[c].xbee
    BY <1>5, InvFacts DEF Blank
  <2>2. table'[c] = e /\ \A j \in Slots : j # c => table'[j] = table[j]
    BY <1>5, InvFacts
  <2>3. \A j \in Slots : /\ table'[j].xbee = table[j].xbee
                         /\ table'[j].inc \in {0, table[j].inc}
                         /\ table[j].xbee => /\ table'[j].inc = table[j].inc
                                             /\ table'[j].create_frame_id = table[j].create_frame_id
    BY <1>5, <2>1, <2>2, InvFacts DEF Gone, Entry
  <2>4. Blank(table')
    BY <1>5, <2>2, InvFacts DEF Blank, Gone
  <2>5. QED
    BY <1>3, <1>5, <2>3, <2>4, NumberedKeep
<1>6. ASSUME NEW c \in Slots, NEW l \in Slots, table[c].type = "AVAILABLE", table[l].xbee,
             table' = [table EXCEPT ![c] = Accepted(c, l, line[1])],
             held' = held \union {[h |-> <<c, table[l].create_frame_id>>, inc |-> line[1].clientTag]},
             mod' = mod
      PROVE  Numbered(table', asked', mod', line', held', incs')
  <2>1. NumStep(table, table, asked, asked, mod, mod, line, line', held, held, incs)
    <3>1. \A i \in Slots : table[i].inc <= incs
      BY InvFacts DEF Below
    <3>2. held = {x \in held : \A i \in Slots : table[i].xbee /\ ~table[i].xbee => x.inc # table[i].inc}
      OBVIOUS
    <3>3. LineStep(line, line', incs)
      BY <1>1 DEF LineStep
    <3>4. QED
      BY <3>1, <3>2, <3>3, InvFacts DEF NumStep
  <2>2. Numbered(table, asked, mod, line', held, incs)
    <3>1. line' \in Seq(FrameType)
      BY DEF Typed
    <3>2. QED
      BY <2>1, <3>1, InvFacts, NumberedStep
  <2>3. /\ Kept(table, held) /\ Below(table, asked, mod, line', incs) /\ Apart(table, line')
        /\ Once(asked, mod, line')
    BY <2>2 DEF Numbered
  <2>4. PICK e : e = Accepted(c, l, line[1])
    OBVIOUS
  <2>5. /\ e.type = "CONNECT" /\ e.xbee = TRUE /\ e.inc = line[1].clientTag
        /\ e.create_frame_id = table[l].create_frame_id
    <3>1. PICK m : m = line[1]
      OBVIOUS
    <3>2. e = Accepted(c, l, m) /\ Typed
      BY <2>4, <3>1 DEF TableInv
    <3>3. table[c] \in Entry
      BY InvFacts
    <3>4. /\ e.type = "CONNECT" /\ e.xbee = TRUE /\ e.inc = m.clientTag
          /\ e.create_frame_id = table[l].create_frame_id
      BY <3>2, <3>3 DEF Accepted, Entry
    <3>5. QED
      BY <3>1, <3>4
  <2>6. table'[c] = e /\ \A j \in Slots : j # c => table'[j] = table[j]
    BY <1>6, <2>4, InvFacts
  <2>7. ~table[c].xbee
    BY <1>6, InvFacts DEF Blank
  <2>8. Blank(table')
    BY <2>5, <2>6, InvFacts DEF Blank
  <2>9. Kept(table', held')
    <3>1. PICK x : x = [h |-> <<c, table[l].create_frame_id>>, inc |-> line[1].clientTag]
      OBVIOUS
    <3>2. x.h[1] = c /\ x.h[2] = table[l].create_frame_id /\ x.inc = line[1].clientTag
      BY <3>1
    <3>3. held' = held \union {x}
      BY <1>6, <3>1
    <3>4. \A y \in held : y.h[1] \in Slots /\ y.h[1] # c
      BY <2>3, <2>7, InvFacts DEF Kept
    <3>5. \A y \in held' : table'[y.h[1]].xbee /\ table'[y.h[1]].create_frame_id = y.h[2] /\ table'[y.h[1]].inc = y.inc
      BY <2>3, <2>5, <2>6, <3>2, <3>3, <3>4 DEF Kept
    <3>6. \A j \in Live(table') : \E y \in held' : y.inc = table'[j].inc
      BY <2>3, <2>5, <2>6, <3>2, <3>3 DEF Kept, Live
    <3>7. QED
      BY <3>5, <3>6 DEF Kept
  <2>10. line[1].clientTag <= incs /\ \A i \in Live(table) : table[i].inc # line[1].clientTag
    <3>1. 1 \in 1 .. Len(line)
      BY <1>1
    <3>2. QED
      BY <1>1, <3>1, InvFacts DEF Below, Apart
  <2>11. Below(table', asked', mod', line', incs')
    BY <1>1, <1>6, <2>3, <2>5, <2>6, <2>10 DEF Below
  <2>12. \A k \in 1 .. Len(line') : line'[k].t = "CLIENT" => line'[k].clientTag # line[1].clientTag
    <3> SUFFICES ASSUME NEW k \in 1 .. Len(line'), line'[k].t = "CLIENT"
                 PROVE  line'[k].clientTag # line[1].clientTag
      OBVIOUS
    <3>1. k + 1 \in 1 .. Len(line) /\ line'[k] = line[k + 1] /\ 1 \in 1 .. Len(line) /\ k + 1 # 1
      BY <1>1 DEF Read
    <3>2. QED
      BY <1>1, <3>1, InvFacts DEF Apart
  <2>13. Apart(table', line')
    BY <2>3, <2>5, <2>6, <2>10, <2>12 DEF Apart, Live
  <2>14. QED
    BY <1>1, <1>6, <2>3, <2>8, <2>9, <2>11, <2>13 DEF Numbered
<1>7. QED
  <2>1. Gone(Free) /\ Gone([Free EXCEPT !.handler = "receive"])
    BY FreeIsGone
  <2>2. \/ table' = table /\ held' = held
        \/ \E c \in Slots : table[c].type = "AVAILABLE" /\ table' = [table EXCEPT ![c] = Free] /\ held' = held
        \/ \E c \in Slots : /\ table[c].type = "AVAILABLE"
                            /\ table' = [table EXCEPT ![c] = [Free EXCEPT !.handler = "receive"]]
                            /\ held' = held
        \/ \E c, l \in Slots : /\ table[c].type = "AVAILABLE" /\ table[l].xbee /\ mod' = mod
                               /\ table' = [table EXCEPT ![c] = Accepted(c, l, line[1])]
                               /\ held' = held \union {[h |-> <<c, table[l].create_frame_id>>, inc |-> line[1].clientTag]}
    BY <1>1 DEF ClientDone, Ignored, Owns
  <2>3. QED
    BY <1>4, <1>5, <1>6, <2>1, <2>2

LEMMA NumberedInit == Init => Numbered(table, asked, mod, line, held, incs)
<1> SUFFICES ASSUME Init PROVE Numbered(table, asked, mod, line, held, incs)
  OBVIOUS
<1>1. /\ \A i \in Slots : table[i] = Free
      /\ asked = {} /\ DOMAIN mod = {} /\ line = <<>> /\ held = {} /\ incs = 0
  BY DEF Init
<1>2. ~Free.xbee /\ Free.inc = 0 /\ Free.tx_frame_id = 0 /\ Free.socket_id = 0
  BY DEF Free
<1>3. Len(line) = 0
  BY <1>1
<1>4. Blank(table) /\ Kept(table, held) /\ Below(table, asked, mod, line, incs)
  BY <1>1, <1>2, <1>3 DEF Blank, Kept, Below, Live
<1>5. Apart(table, line) /\ Once(asked, mod, line)
  BY <1>1, <1>2, <1>3 DEF Apart, Once, Live
<1>6. QED
  BY <1>4, <1>5 DEF Numbered

LEMMA TableStep == TableInv /\ [Next]_vars => TableInv'
<1> SUFFICES ASSUME TableInv, [Next]_vars PROVE TableInv'
  OBVIOUS
<1> USE DEF TableInv
<1>0. \A l \in Slots : table[l].type = "LISTEN" /\ table[l].xbee => table[l].create_frame_id \in Fid
  BY LiveFid
<1>1. CASE \E p \in Protocol, ok \in BOOLEAN : Create(p, ok)
  BY <1>1, TypedCreate, NumberedCreate
<1>2. CASE \E x \in held, how \in {"connect", "bind", "listen"}, ok \in BOOLEAN : Attach(x, how, ok)
  BY <1>2, TypedAttach, NumberedAttach
<1>3. CASE \E x \in held, ok \in BOOLEAN : Send(x, ok)
  BY <1>3, TypedSend, NumberedSend
<1>4. CASE \E x \in held, callback \in BOOLEAN, ok \in BOOLEAN : Option(x, callback, ok)
  BY <1>4, TypedOption, NumberedOption
<1>5. CASE \E x \in held, ok \in BOOLEAN : Close(x, ok)
  BY <1>5, TypedClose, NumberedClose
<1>6. CASE \E all \in BOOLEAN, k \in 0 .. SocketCount : CloseAll(all, k)
  BY <1>6, TypedCloseAll, NumberedCloseAll
<1>7. CASE \E ok \in BOOLEAN : Reset(ok)
  BY <1>7, TypedReset, NumberedReset
<1>8. CASE \E a \in asked, id \in ModuleIds : ModCreate(a, id)
  BY <1>8, TypedModCreate, NumberedModCreate
<1>9. CASE \E a \in asked : ModAnswer(a)
  BY <1>9, TypedModAnswer, NumberedModAnswer
<1>10. CASE \E id \in DOMAIN mod, good \in BOOLEAN : ModAttach(id, good)
  BY <1>10, TypedModAttach, NumberedModAttach
<1>11. CASE \E id \in DOMAIN mod : ModState(id)
  BY <1>11, TypedModState, NumberedModState
<1>12. CASE \E id \in DOMAIN mod, client \in ModuleIds : ModClient(id, client)
  BY <1>12, TypedModClient, NumberedModClient
<1>13. CASE \E id \in DOMAIN mod : ModReceive(id)
  BY <1>13, TypedModReceive, NumberedModReceive
<1>14. CASE \E act \in Acts : HandleTxStatus(act)
  BY <1>14, TypedHandleTxStatus, NumberedHandleTxStatus
<1>15. CASE \E act \in Acts : HandleCreateResp(act)
  BY <1>15, TypedHandleCreateResp, NumberedHandleCreateResp
<1>16. CASE \E act \in Acts : HandleAttachResp(act)
  BY <1>16, TypedHandleAttachResp, NumberedHandleAttachResp
<1>17. CASE \E t \in {"OPTION_RESP", "RECEIVE", "RECEIVE_FROM"} : HandleData(t)
  BY <1>17, TypedHandleData, NumberedHandleData
<1>18. CASE HandleState
  BY <1>18, TypedHandleState, NumberedHandleState
<1>19. CASE \E act \in {"accept", "reject", "close"}, ok \in BOOLEAN : HandleClient(act, ok)
  BY <1>0, <1>19, TypedHandleClient, NumberedHandleClient
<1>20. CASE UNCHANGED vars
  BY <1>20 DEF vars, Typed, TypeOK, Numbered, Blank, Kept, Below, Apart, Once, Live
<1>21. QED
  BY <1>1, <1>2, <1>3, <1>4, <1>5, <1>6, <1>7, <1>8, <1>9, <1>10, <1>11, <1>12, <1>13, <1>14,
     <1>15, <1>16, <1>17, <1>18, <1>19, <1>20
     DEF Next, Application, Module, Handler

(* Whatever the frame IDs do, the numbers of sockets are told apart.          *)
THEOREM TableInvariance == Spec => []TableInv
<1>1. Init => TableInv
  BY TypedInit, NumberedInit DEF TableInv
<1>2. QED
  BY <1>1, TableStep, PTL DEF Spec

(* The variables keep to their types.                                         *)
THEOREM SocketsTyped == Spec => []TypeOK
<1>1. TableInv => TypeOK
  BY DEF TableInv, Typed
<1>2. QED
  BY <1>1, TableInvariance, PTL

(* A handle the application has, and has not been told is closed, leads to    *)
(* the socket it was given for, and the device's entries all have one: for    *)
(* any interleaving of calls, frames and callbacks, frame IDs given out again *)
(* or not.                                                                    *)
THEOREM HandlesSafe == Spec => []HandleSafe
<1>1. ASSUME TableInv PROVE HandleSafe
  <2>1. \A x \in held : Lookup(x.h) # NoSlot /\ table[Lookup(x.h)].inc = x.inc
    BY <1>1, HeldEntry
  <2>2. \A i \in Slots : table[i].xbee => \E x \in held : x.inc = table[i].inc
    BY <1>1, LiveHandle
  <2>3. QED
    BY <2>1, <2>2 DEF HandleSafe
<1>2. QED
  BY <1>1, TableInvariance, PTL

-----------------------------------------------------------------------------
(* Answers and their sockets.                                                 *)

LEMMA MatchFacts == ASSUME SockInv
  PROVE  /\ TableInv /\ misled = FALSE
         /\ ByFid(table, asked, line) /\ Serving(table, asked, mod, line)
         /\ Placed(table, asked, mod, orphans) /\ Agreed(table, mod, line)
         /\ Remembered(table, asked, mod, line, orphans)
  BY DEF SockInv, Matched, TableInv, Typed, TypeOK

LEMMA StateIsAbout == \A m, id : m.t = "STATE" /\ m.id = id => About(m, id)
  BY DEF About

(* An ID serves one socket, from whichever position on.                       *)
LEMMA ServesOne ==
  ASSUME NEW A, NEW M, NEW L \in Seq(FrameType), NEW id, NEW j \in Nat, NEW k \in Nat, NEW t, NEW u,
         Serves(A, M, L, j, id, t), Serves(A, M, L, k, id, u)
  PROVE  t = u
<1>1. CASE id \in DOMAIN M
  BY <1>1 DEF Serves
<1>2. CASE id \notin DOMAIN M
  <2>1. PICK n \in j + 1 .. Len(L) : L[n].t = "STATE" /\ L[n].id = id
    BY <1>2 DEF Serves
  <2>2. PICK o \in k + 1 .. Len(L) : L[o].t = "STATE" /\ L[o].id = id
    BY <1>2 DEF Serves
  <2>3. About(L[n], id) /\ About(L[o], id)
    BY <2>1, <2>2, StateIsAbout
  <2>4. L[n].tag = t /\ L[o].tag = u
    BY <2>3 DEF Serves
  <2>5. Len(L) \in Nat
    OBVIOUS
  <2>6. n \in k + 1 .. Len(L) \/ o \in j + 1 .. Len(L)
    BY <2>5
  <2>7. QED
    BY <2>3, <2>4, <2>6 DEF Serves
<1>3. QED
  BY <1>1, <1>2

(* A frame is read, and sockets of other IDs are given up.                    *)
LEMMA ServesRead ==
  ASSUME NEW A, NEW M, NEW M2, NEW L \in Seq(FrameType), NEW L2 \in Seq(FrameType), NEW id, NEW t,
         NEW j \in Nat, NEW i \in Nat, Read(L, L2), Serves(A, M, L, j, id, t),
         i = j - 1 \/ (i = 0 /\ j = 0 /\ ~(L[1].t = "STATE" /\ L[1].id = id)),
         DOMAIN M2 \subseteq DOMAIN M, \A n \in DOMAIN M2 : M2[n].tag = M[n].tag,
         id \in DOMAIN M => id \in DOMAIN M2
  PROVE  Serves(A, M2, L2, i, id, t)
<1>1. Len(L) \in Nat /\ Len(L2) \in Nat /\ Len(L2) = Len(L) - 1 /\ \A k \in 1 .. Len(L2) : L2[k] = L[k + 1]
  BY DEF Read
<1>2. \A k \in i + 1 .. Len(L2) : k + 1 \in j + 1 .. Len(L) /\ L2[k] = L[k + 1]
  BY <1>1
<1>3. \A k \in i + 1 .. Len(L2) : About(L2[k], id) => L2[k].tag = t
  BY <1>2 DEF Serves
<1>4. id \in DOMAIN M2 \/ \E k \in i + 1 .. Len(L2) : L2[k].t = "STATE" /\ L2[k].id = id
  <2> SUFFICES ASSUME id \notin DOMAIN M2
               PROVE  \E k \in i + 1 .. Len(L2) : L2[k].t = "STATE" /\ L2[k].id = id
    OBVIOUS
  <2>1. PICK k \in j + 1 .. Len(L) : L[k].t = "STATE" /\ L[k].id = id
    BY DEF Serves
  <2>2. k - 1 \in i + 1 .. Len(L2) /\ L2[k - 1] = L[k]
    BY <1>1, <2>1
  <2>3. QED
    BY <2>1, <2>2
<1>5. QED
  BY <1>3, <1>4 DEF Serves

(* A frame is said.                                                           *)
LEMMA ServesAppended ==
  ASSUME NEW A, NEW A2, NEW M, NEW M2, NEW L \in Seq(FrameType), NEW L2 \in Seq(FrameType), NEW id, NEW t,
         NEW j \in 0 .. Len(L), NEW m, L2 = L \/ Appended(L, L2, m), Serves(A, M, L, j, id, t),
         L2 # L /\ About(m, id) => m.tag = t,
         \A a \in A2 : a.kind = "option" /\ a.id = id => a.tag = t,
         id \in DOMAIN M2 => M2[id].tag = t,
         id \in DOMAIN M => id \in DOMAIN M2 \/ (L2 # L /\ m.t = "STATE" /\ m.id = id)
  PROVE  Serves(A2, M2, L2, j, id, t)
<1>1. Len(L) \in Nat /\ Len(L2) \in Nat
  OBVIOUS
<1>2. CASE L2 = L
  BY <1>2 DEF Serves
<1>3. CASE L2 # L
  <2>1. Len(L2) = Len(L) + 1 /\ L2[Len(L) + 1] = m /\ \A k \in 1 .. Len(L) : L2[k] = L[k]
    BY <1>3 DEF Appended
  <2>2. \A k \in j + 1 .. Len(L2) : (k \in j + 1 .. Len(L) /\ L2[k] = L[k]) \/ L2[k] = m
    BY <1>1, <2>1
  <2>3. \A k \in j + 1 .. Len(L2) : About(L2[k], id) => L2[k].tag = t
    BY <1>3, <2>2 DEF Serves
  <2>4. id \in DOMAIN M2 \/ \E k \in j + 1 .. Len(L2) : L2[k].t = "STATE" /\ L2[k].id = id
    <3>1. CASE id \in DOMAIN M
      <4>1. Len(L) + 1 \in j + 1 .. Len(L2)
        BY <1>1, <2>1
      <4>2. QED
        BY <2>1, <3>1, <4>1
    <3>2. CASE id \notin DOMAIN M
      <4>1. PICK k \in j + 1 .. Len(L) : L[k].t = "STATE" /\ L[k].id = id
        BY <3>2 DEF Serves
      <4>2. k \in j + 1 .. Len(L2) /\ L2[k] = L[k]
        BY <1>1, <2>1
      <4>3. QED
        BY <4>1, <4>2
    <3>3. QED
      BY <3>1, <3>2
  <2>5. QED
    BY <2>3, <2>4 DEF Serves
<1>4. QED
  BY <1>2, <1>3

(* Sockets are given up: what is kept is as it was, nothing of it was at the  *)
(* module's sockets that went, and the frame read, if any, is not missed.     *)

Lost(T, A, M, O, m) ==
  \/ \E i \in Live(T) : \/ m.t = "CREATE_RESP" /\ T[i].type = "PENDING" /\ m.tag = T[i].inc
                        \/ m.t = "TX_STATUS" /\ m.fid = T[i].tx_frame_id
                        \/ m.t = "STATE" /\ m.id = T[i].socket_id
  \/ /\ m.t = "CLIENT" /\ m.clientTag \notin O
     /\ \/ \E a \in A : a.kind = "create" /\ a.tag = m.clientTag
        \/ \E id \in DOMAIN M : M[id].tag = m.clientTag

Missed(T, A, M, O, m) == Lost(T, A, M, O, m) \/ \E i \in Live(T) : Answers(m, T[i].inc)

GaveUp(T, T2, A, M, M2, L, L2, O, O2) ==
  /\ \A i \in Live(T2) : i \in Live(T) /\ T2[i] = T[i]
  /\ DOMAIN M2 \subseteq DOMAIN M /\ \A id \in DOMAIN M2 : M2[id] = M[id]
  /\ O \subseteq O2
  /\ \A id \in DOMAIN M \ DOMAIN M2 :
       /\ \A i \in Live(T2) : M[id].tag # T2[i].inc
       /\ \A k \in 1 .. Len(L2) : \A i \in Live(T2) :
            L2[k].t = "CLIENT" /\ L2[k].tag = T2[i].inc => M[id].tag # L2[k].clientTag
  /\ \A i \in Live(T) : \/ i \in Live(T2)
                        \/ T[i].inc \in O2
                        \/ /\ \A a \in A : a.kind = "create" => a.tag # T[i].inc
                           /\ \A id \in DOMAIN M2 : M2[id].tag # T[i].inc
  /\ L2 = L \/ (Read(L, L2) /\ ~Lost(T2, A, M2, O2, L[1]))

GivesUp(T, T2, A, M, M2, L, L2, O, O2) ==
  GaveUp(T, T2, A, M, M2, L, L2, O, O2) /\ (L2 = L \/ ~Missed(T2, A, M2, O2, L[1]))

Shift(L, L2, d) ==
  /\ \A k \in 1 .. Len(L2) : k + d \in 1 .. Len(L) /\ L2[k] = L[k + d]
  /\ \A k \in 1 .. Len(L) : (d = 1 /\ k = 1) \/ (k - d \in 1 .. Len(L2) /\ L2[k - d] = L[k])

LEMMA Shifted ==
  ASSUME NEW L \in Seq(FrameType), NEW L2 \in Seq(FrameType), L2 = L \/ Read(L, L2)
  PROVE  \E d \in {0, 1} : Shift(L, L2, d) /\ (d = 0 => L2 = L) /\ (d = 1 => Read(L, L2) /\ L2 # L)
<1>1. Len(L) \in Nat /\ Len(L2) \in Nat
  OBVIOUS
<1>2. CASE L2 = L
  <2>1. Shift(L, L2, 0)
    BY <1>1, <1>2 DEF Shift
  <2>2. QED
    BY <1>2, <2>1
<1>3. CASE Read(L, L2) /\ L2 # L
  <2>1. Shift(L, L2, 1)
    BY <1>1, <1>3 DEF Shift, Read
  <2>2. QED
    BY <1>3, <2>1
<1>4. QED
  BY <1>2, <1>3

LEMMA GiveUpRest ==
  ASSUME NEW T \in [Slots -> Entry], NEW T2 \in [Slots -> Entry], NEW A, NEW M, NEW M2,
         NEW L \in Seq(FrameType), NEW L2 \in Seq(FrameType), NEW O, NEW O2,
         ByFid(T, A, L), Serving(T, A, M, L), Placed(T, A, M, O), Remembered(T, A, M, L, O),
         GaveUp(T, T2, A, M, M2, L, L2, O, O2)
  PROVE  ByFid(T2, A, L2) /\ Serving(T2, A, M2, L2) /\ Placed(T2, A, M2, O2) /\ Remembered(T2, A, M2, L2, O2)
<1>1. ByFid(T, A, L) /\ Serving(T, A, M, L) /\ Placed(T, A, M, O) /\ Remembered(T, A, M, L, O)
  OBVIOUS
<1>2. Len(L) \in Nat /\ Len(L2) \in Nat
  OBVIOUS
<1>3. PICK d \in {0, 1} :
        Shift(L, L2, d) /\ (d = 0 => L2 = L) /\ (d = 1 => Read(L, L2) /\ ~Lost(T2, A, M2, O2, L[1]))
  <2>1. L2 = L \/ (Read(L, L2) /\ ~Lost(T2, A, M2, O2, L[1]))
    BY DEF GaveUp
  <2>2. PICK d \in {0, 1} : Shift(L, L2, d) /\ (d = 0 => L2 = L) /\ (d = 1 => Read(L, L2) /\ L2 # L)
    BY <2>1, Shifted
  <2>3. QED
    BY <2>1, <2>2
<1>4. /\ \A k \in 1 .. Len(L2) : k + d \in 1 .. Len(L) /\ L2[k] = L[k + d]
      /\ \A k \in 1 .. Len(L) : (d = 1 /\ k = 1) \/ (k - d \in 1 .. Len(L2) /\ L2[k - d] = L[k])
  BY <1>3 DEF Shift
<1>5. \A i \in Live(T2) : i \in Live(T) /\ T2[i] = T[i] /\ i \in Slots
  BY DEF GaveUp, Live
<1>6. DOMAIN M2 \subseteq DOMAIN M /\ \A id \in DOMAIN M2 : M2[id] = M[id]
  BY DEF GaveUp
<1>7. ByFid(T2, A, L2)
  <2>1. ASSUME NEW i \in Live(T2), T2[i].type = "PENDING"
        PROVE  CreateOwn(A, L2, T2[i].create_frame_id, T2[i].inc)
    <3>1. CreateOwn(A, L, T2[i].create_frame_id, T2[i].inc)
      BY <1>1, <1>5, <2>1 DEF ByFid
    <3>2. \A k \in 1 .. Len(L2) : L2[k].t = "CREATE_RESP" =>
            (L2[k].fid = T2[i].create_frame_id <=> L2[k].tag = T2[i].inc)
      BY <1>4, <3>1 DEF CreateOwn
    <3>3. ASSUME NEW k \in 1 .. Len(L), L[k].t = "CREATE_RESP", L[k].tag = T2[i].inc
          PROVE  \E n \in 1 .. Len(L2) : L2[n].t = "CREATE_RESP" /\ L2[n].tag = T2[i].inc
      <4>1. ~(d = 1 /\ k = 1)
        BY <1>3, <2>1, <3>3 DEF Lost
      <4>2. k - d \in 1 .. Len(L2) /\ L2[k - d] = L[k]
        BY <1>4, <4>1
      <4>3. QED
        BY <3>3, <4>2
    <3>4. QED
      BY <3>1, <3>2, <3>3 DEF CreateOwn
  <2>2. ASSUME NEW i \in Live(T2), T2[i].tx_frame_id # 0
        PROVE  SendOwn(A, L2, T2[i].tx_frame_id, T2[i].inc)
    <3>1. SendOwn(A, L, T2[i].tx_frame_id, T2[i].inc)
      BY <1>1, <1>5, <2>2 DEF ByFid
    <3>2. ASSUME NEW k \in 1 .. Len(L2), L2[k].t = "TX_STATUS", L2[k].fid = T2[i].tx_frame_id
          PROVE  L2[k].tag = T2[i].inc
      <4>1. k + d \in 1 .. Len(L) /\ L2[k] = L[k + d]
        BY <1>4
      <4>2. QED
        BY <3>1, <3>2, <4>1 DEF SendOwn
    <3>3. ASSUME NEW k \in 1 .. Len(L), L[k].t = "TX_STATUS", L[k].fid = T2[i].tx_frame_id
          PROVE  \E n \in 1 .. Len(L2) : L2[n].t = "TX_STATUS" /\ L2[n].fid = T2[i].tx_frame_id
      <4>1. ~(d = 1 /\ k = 1)
        BY <1>3, <3>3 DEF Lost
      <4>2. k - d \in 1 .. Len(L2) /\ L2[k - d] = L[k]
        BY <1>4, <4>1
      <4>3. QED
        BY <3>3, <4>2
    <3>4. QED
      BY <3>1, <3>2, <3>3 DEF SendOwn
  <2>3. QED
    BY <2>1, <2>2 DEF ByFid
<1>8. Serving(T2, A, M2, L2)
  <2>1. ASSUME NEW j \in 0 .. Len(L), NEW i \in Nat, NEW id, NEW t, Serves(A, M, L, j, id, t),
               i = j - d \/ (i = 0 /\ j = 0 /\ ~(d = 1 /\ L[1].t = "STATE" /\ L[1].id = id)),
               id \in DOMAIN M => id \in DOMAIN M2
        PROVE  Serves(A, M2, L2, i, id, t)
    <3>1. CASE d = 0
      <4>1. PICK m : TRUE
        OBVIOUS
      <4>2. i = j /\ L2 = L
        BY <1>3, <2>1, <3>1
      <4>3. /\ \A a \in A : a.kind = "option" /\ a.id = id => a.tag = t
            /\ id \in DOMAIN M2 => M2[id].tag = t
        BY <1>6, <2>1 DEF Serves
      <4>4. Serves(A, M2, L2, j, id, t)
        BY <2>1, <4>2, <4>3, ServesAppended
      <4>5. QED
        BY <4>2, <4>4
    <3>2. CASE d = 1
      <4>1. Read(L, L2) /\ j \in Nat
        BY <1>2, <1>3, <3>2
      <4>2. i = j - 1 \/ (i = 0 /\ j = 0 /\ ~(L[1].t = "STATE" /\ L[1].id = id))
        BY <2>1, <3>2
      <4>3. \A n \in DOMAIN M2 : M2[n].tag = M[n].tag
        BY <1>6
      <4>4. QED
        BY <1>6, <2>1, <4>1, <4>2, <4>3, ServesRead
    <3>3. QED
      BY <3>1, <3>2
  <2>2. ASSUME NEW i \in Live(T2), T2[i].socket_id # 0
        PROVE  Serves(A, M2, L2, 0, T2[i].socket_id, T2[i].inc)
    <3>1. i \in Live(T) /\ T2[i] = T[i]
      BY <1>5
    <3>2. Serves(A, M, L, 0, T2[i].socket_id, T2[i].inc)
      BY <1>1, <2>2, <3>1 DEF Serving
    <3>3. ~(d = 1 /\ L[1].t = "STATE" /\ L[1].id = T2[i].socket_id)
      BY <1>3 DEF Lost
    <3>4. T2[i].socket_id \in DOMAIN M => T2[i].socket_id \in DOMAIN M2
      <4>1. T2[i].socket_id \in DOMAIN M => M[T2[i].socket_id].tag = T2[i].inc
        BY <3>2 DEF Serves
      <4>2. QED
        BY <4>1 DEF GaveUp
    <3>5. 0 \in 0 .. Len(L) /\ 0 \in Nat
      BY <1>2
    <3>6. QED
      BY <2>1, <3>2, <3>3, <3>4, <3>5
  <2>3. ASSUME NEW i \in Live(T2), NEW k \in 1 .. Len(L2),
               L2[k].t = "CREATE_RESP", L2[k].good, L2[k].tag = T2[i].inc, T2[i].type = "PENDING"
        PROVE  Serves(A, M2, L2, k, L2[k].id, T2[i].inc)
    <3>1. i \in Live(T) /\ T2[i] = T[i]
      BY <1>5
    <3>2. k + d \in 1 .. Len(L) /\ L2[k] = L[k + d]
      BY <1>4
    <3>3. Serves(A, M, L, k + d, L2[k].id, T2[i].inc)
      BY <1>1, <2>3, <3>1, <3>2 DEF Serving
    <3>4. L2[k].id \in DOMAIN M => L2[k].id \in DOMAIN M2
      <4>1. L2[k].id \in DOMAIN M => M[L2[k].id].tag = T2[i].inc
        BY <3>3 DEF Serves
      <4>2. QED
        BY <4>1 DEF GaveUp
    <3>5. k + d \in 0 .. Len(L) /\ k \in Nat /\ k = k + d - d
      BY <1>2, <3>2
    <3>6. QED
      BY <2>1, <3>3, <3>4, <3>5
  <2>4. ASSUME NEW i \in Live(T2), NEW k \in 1 .. Len(L2), L2[k].t = "CLIENT", L2[k].tag = T2[i].inc
        PROVE  Serves(A, M2, L2, k, L2[k].client, L2[k].clientTag)
    <3>1. i \in Live(T) /\ T2[i] = T[i]
      BY <1>5
    <3>2. k + d \in 1 .. Len(L) /\ L2[k] = L[k + d]
      BY <1>4
    <3>3. Serves(A, M, L, k + d, L2[k].client, L2[k].clientTag)
      BY <1>1, <2>4, <3>1, <3>2 DEF Serving
    <3>4. L2[k].client \in DOMAIN M => L2[k].client \in DOMAIN M2
      <4>1. L2[k].client \in DOMAIN M => M[L2[k].client].tag = L2[k].clientTag
        BY <3>3 DEF Serves
      <4>2. QED
        BY <2>4, <4>1 DEF GaveUp
    <3>5. k + d \in 0 .. Len(L) /\ k \in Nat /\ k = k + d - d
      BY <1>2, <3>2
    <3>6. QED
      BY <2>1, <3>3, <3>4, <3>5
  <2>5. QED
    BY <2>2, <2>3, <2>4 DEF Serving
<1>9. Placed(T2, A, M2, O2)
  <2>1. O \subseteq O2
    BY DEF GaveUp
  <2>2. QED
    BY <1>1, <1>5, <1>6, <2>1 DEF Placed
<1>10. Remembered(T2, A, M2, L2, O2)
  <2> SUFFICES ASSUME NEW tag, tag \notin O2,
                      \/ \E id \in DOMAIN M2 : M2[id].tag = tag
                      \/ \E a \in A : a.kind = "create" /\ a.tag = tag
               PROVE  \/ \E i \in Live(T2) : T2[i].inc = tag
                      \/ \E k \in 1 .. Len(L2) : L2[k].t = "CLIENT" /\ L2[k].clientTag = tag
    BY DEF Remembered
  <2>1. tag \notin O
    BY DEF GaveUp
  <2>2. \/ \E id \in DOMAIN M : M[id].tag = tag
        \/ \E a \in A : a.kind = "create" /\ a.tag = tag
    BY <1>6
  <2>3. \/ \E i \in Live(T) : T[i].inc = tag
        \/ \E k \in 1 .. Len(L) : L[k].t = "CLIENT" /\ L[k].clientTag = tag
    BY <1>1, <2>1, <2>2 DEF Remembered
  <2>4. ASSUME NEW i \in Live(T), T[i].inc = tag PROVE \E j \in Live(T2) : T2[j].inc = tag
    <3>1. i \in Live(T2)
      BY <2>4 DEF GaveUp
    <3>2. QED
      BY <1>5, <2>4, <3>1
  <2>5. ASSUME NEW k \in 1 .. Len(L), L[k].t = "CLIENT", L[k].clientTag = tag
        PROVE  \E n \in 1 .. Len(L2) : L2[n].t = "CLIENT" /\ L2[n].clientTag = tag
    <3>1. ~(d = 1 /\ k = 1)
      BY <1>3, <2>5 DEF Lost
    <3>2. QED
      BY <1>4, <2>5, <3>1
  <2>6. QED
    BY <2>3, <2>4, <2>5
<1>11. QED
  BY <1>7, <1>8, <1>9, <1>10

LEMMA AgreedRead ==
  ASSUME NEW s, NEW M, NEW L \in Seq(FrameType), NEW L2 \in Seq(FrameType), Read(L, L2),
         AgreedOn(s, M, L), ~Answers(L[1], s.inc)
  PROVE  AgreedOn(s, M, L2)
<1>1. /\ Len(L) \in Nat /\ Len(L2) \in Nat
      /\ \A k \in 1 .. Len(L2) : k + 1 \in 1 .. Len(L) /\ L2[k] = L[k + 1]
      /\ \A k \in 1 .. Len(L) : k = 1 \/ (k - 1 \in 1 .. Len(L2) /\ L2[k - 1] = L[k])
  BY DEF Read
<1>2. Unanswered(L2, s.inc) => Unanswered(L, s.inc)
  BY <1>1 DEF Unanswered
<1>3. ASSUME NEW k \in 1 .. Len(L2), Answers(L2[k], s.inc)
      PROVE  /\ Awaited(s, L2[k])
             /\ \A id \in DOMAIN M : M[id].tag = s.inc => M[id].phase = Outcome(L2[k])
             /\ \A j \in 1 .. Len(L2) : Answers(L2[j], s.inc) => j = k
  <2>1. k + 1 \in 1 .. Len(L) /\ L2[k] = L[k + 1]
    BY <1>1
  <2>2. /\ Awaited(s, L2[k])
        /\ \A id \in DOMAIN M : M[id].tag = s.inc => M[id].phase = Outcome(L2[k])
        /\ \A j \in 1 .. Len(L) : Answers(L[j], s.inc) => j = k + 1
    BY <1>3, <2>1 DEF AgreedOn
  <2>3. ASSUME NEW j \in 1 .. Len(L2), Answers(L2[j], s.inc) PROVE j = k
    <3>1. j + 1 \in 1 .. Len(L) /\ L2[j] = L[j + 1]
      BY <1>1
    <3>2. j + 1 = k + 1
      BY <2>2, <2>3, <3>1
    <3>3. QED
      BY <1>1, <3>2
  <2>4. QED
    BY <2>2, <2>3
<1>4. QED
  BY <1>2, <1>3 DEF AgreedOn

LEMMA SaidRead ==
  ASSUME NEW M, NEW L \in Seq(FrameType), NEW L2 \in Seq(FrameType), Read(L, L2), Said(M, L)
  PROVE  Said(M, L2)
<1>1. \A k \in 1 .. Len(L2) : k + 1 \in 1 .. Len(L) /\ L2[k] = L[k + 1]
  BY DEF Read
<1>2. \A tag : Unanswered(L, tag) => Unanswered(L2, tag)
  BY <1>1 DEF Unanswered
<1>3. ASSUME NEW k \in 1 .. Len(L2), L2[k].t = "CLIENT", NEW j \in 1 .. Len(L2), L2[j].t = "CLIENT"
      PROVE  L2[j].tag # L2[k].clientTag
  <2>1. k + 1 \in 1 .. Len(L) /\ j + 1 \in 1 .. Len(L) /\ L2[k] = L[k + 1] /\ L2[j] = L[j + 1]
    BY <1>1
  <2>2. QED
    BY <1>3, <2>1 DEF Said
<1>4. ASSUME NEW k \in 1 .. Len(L2)
      PROVE  /\ L2[k].t = "CREATE_RESP" => (L2[k].good <=> L2[k].id # 0)
             /\ L2[k].t = "ATTACH_RESP" /\ L2[k].id = 0 => ~L2[k].good
             /\ L2[k].t = "CLIENT" =>
                  /\ Unanswered(L2, L2[k].clientTag)
                  /\ \A id \in DOMAIN M : M[id].tag = L2[k].clientTag => M[id].phase = "connected"
  <2>1. k + 1 \in 1 .. Len(L) /\ L2[k] = L[k + 1]
    BY <1>1
  <2>2. QED
    BY <1>2, <2>1 DEF Said
<1>5. QED
  BY <1>3, <1>4 DEF Said

LEMMA GiveUpAgreed ==
  ASSUME NEW T \in [Slots -> Entry], NEW T2 \in [Slots -> Entry], NEW A, NEW M, NEW M2,
         NEW L \in Seq(FrameType), NEW L2 \in Seq(FrameType), NEW O, NEW O2,
         Agreed(T, M, L), GivesUp(T, T2, A, M, M2, L, L2, O, O2)
  PROVE  Agreed(T2, M2, L2)
<1>1. /\ \A i \in Live(T2) : i \in Live(T) /\ T2[i] = T[i]
      /\ DOMAIN M2 \subseteq DOMAIN M /\ \A id \in DOMAIN M2 : M2[id] = M[id]
      /\ L2 = L \/ (Read(L, L2) /\ ~Missed(T2, A, M2, O2, L[1]))
  BY DEF GivesUp, GaveUp
<1>2. Said(M2, L)
  BY <1>1 DEF Agreed, Said
<1>3. \A i \in Live(T2) : AgreedOn(T2[i], M2, L)
  BY <1>1 DEF Agreed, AgreedOn
<1>4. \A i \in Live(T2) : L2 # L => ~Answers(L[1], T2[i].inc)
  BY <1>1 DEF Missed
<1>5. Said(M2, L2)
  BY <1>1, <1>2, SaidRead
<1>6. \A i \in Live(T2) : AgreedOn(T2[i], M2, L2)
  BY <1>1, <1>3, <1>4, AgreedRead
<1>7. QED
  BY <1>5, <1>6 DEF Agreed

LEMMA GiveUpMatched ==
  ASSUME NEW T \in [Slots -> Entry], NEW T2 \in [Slots -> Entry], NEW A, NEW M, NEW M2,
         NEW L \in Seq(FrameType), NEW L2 \in Seq(FrameType), NEW O, NEW O2,
         Matched(T, A, M, L, O), GivesUp(T, T2, A, M, M2, L, L2, O, O2)
  PROVE  Matched(T2, A, M2, L2, O2)
<1>1. /\ ByFid(T, A, L) /\ Serving(T, A, M, L) /\ Placed(T, A, M, O) /\ Agreed(T, M, L)
      /\ Remembered(T, A, M, L, O)
  BY DEF Matched
<1>2. GaveUp(T, T2, A, M, M2, L, L2, O, O2)
  BY DEF GivesUp
<1>3. ByFid(T2, A, L2) /\ Serving(T2, A, M2, L2) /\ Placed(T2, A, M2, O2) /\ Remembered(T2, A, M2, L2, O2)
  BY <1>1, <1>2, GiveUpRest
<1>4. Agreed(T2, M2, L2)
  BY <1>1, GiveUpAgreed
<1>5. QED
  BY <1>3, <1>4 DEF Matched

LEMMA OneInc == ASSUME SockInv, NEW i \in Live(table), NEW j \in Live(table), table[i].inc = table[j].inc
                PROVE  i = j
  BY InvFacts, MatchFacts DEF Apart

LEMMA OwnerServes == ASSUME SockInv, NEW i \in Live(table), table[i].socket_id # 0
                     PROVE  Serves(asked, mod, line, 0, table[i].socket_id, table[i].inc)
  BY MatchFacts DEF Serving

(* Sockets of the device are closed, at the module too.                       *)
LEMMA ClosedMatched ==
  ASSUME SockInv, Typed', NEW G \in SUBSET Live(table),
         \A i \in G : ~table'[i].xbee, \A i \in Slots \ G : table'[i] = table[i],
         mod' = Without({table[i].socket_id : i \in G}), asked' = asked,
         orphans \subseteq orphans', \A i \in G : table[i].type = "PENDING" => table[i].inc \in orphans',
         line' = line \/ (Read(line, line') /\ ~Missed(table', asked, mod', orphans', line[1]))
  PROVE  Matched(table', asked', mod', line', orphans')
<1>1. /\ table \in [Slots -> Entry] /\ table' \in [Slots -> Entry]
      /\ line \in Seq(FrameType) /\ line' \in Seq(FrameType) /\ ModType(mod)
  BY DEF SockInv, TableInv, Typed, TypeOK, ModType
<1>2. Matched(table, asked, mod, line, orphans)
  BY DEF SockInv
<1>3. \A i \in Live(table') : i \in Live(table) /\ i \notin G /\ table'[i] = table[i]
  BY DEF Live
<1>4. PICK R : R = {table[i].socket_id : i \in G}
  OBVIOUS
<1>5. DOMAIN mod' = DOMAIN mod \ R /\ \A id \in DOMAIN mod' : mod'[id] = mod[id]
  <2>1. mod' = Without(R)
    BY <1>4
  <2>2. QED
    BY <2>1, NowWithout
<1>6. \A id \in DOMAIN mod \ DOMAIN mod' : \E g \in G : table[g].socket_id = id /\ mod[id].tag = table[g].inc
  <2> SUFFICES ASSUME NEW id \in DOMAIN mod \ DOMAIN mod'
               PROVE  \E g \in G : table[g].socket_id = id /\ mod[id].tag = table[g].inc
    OBVIOUS
  <2>1. PICK g \in G : table[g].socket_id = id
    BY <1>4, <1>5
  <2>2. id # 0
    BY <1>1, SocketAssumption DEF ModType
  <2>3. Serves(asked, mod, line, 0, id, table[g].inc)
    BY <2>1, <2>2, OwnerServes
  <2>4. QED
    BY <2>1, <2>3 DEF Serves
<1>7. \A id \in DOMAIN mod \ DOMAIN mod' :
        /\ \A i \in Live(table') : mod[id].tag # table'[i].inc
        /\ \A k \in 1 .. Len(line') : \A i \in Live(table') :
             line'[k].t = "CLIENT" /\ line'[k].tag = table'[i].inc => mod[id].tag # line'[k].clientTag
  <2> SUFFICES ASSUME NEW id \in DOMAIN mod \ DOMAIN mod'
               PROVE  /\ \A i \in Live(table') : mod[id].tag # table'[i].inc
                      /\ \A k \in 1 .. Len(line') : line'[k].t = "CLIENT" => mod[id].tag # line'[k].clientTag
    OBVIOUS
  <2>1. PICK g \in G : mod[id].tag = table[g].inc
    BY <1>6
  <2>2. \A i \in Live(table') : mod[id].tag # table'[i].inc
    BY <1>3, <2>1, OneInc
  <2>3. ASSUME NEW k \in 1 .. Len(line'), line'[k].t = "CLIENT" PROVE mod[id].tag # line'[k].clientTag
    <3>1. \E n \in 1 .. Len(line) : line'[k] = line[n]
      BY <1>1 DEF Read
    <3>2. g \in Live(table) /\ Apart(table, line)
      BY InvFacts, MatchFacts
    <3>3. QED
      BY <2>1, <2>3, <3>1, <3>2 DEF Apart
  <2>4. QED
    BY <2>2, <2>3
<1>8. \A i \in Live(table) : \/ i \in Live(table')
                             \/ table[i].inc \in orphans'
                             \/ /\ \A a \in asked : a.kind = "create" => a.tag # table[i].inc
                                /\ \A id \in DOMAIN mod' : mod'[id].tag # table[i].inc
  <2> SUFFICES ASSUME NEW i \in Live(table), i \notin Live(table'), table[i].inc \notin orphans'
               PROVE  /\ \A a \in asked : a.kind = "create" => a.tag # table[i].inc
                      /\ \A id \in DOMAIN mod' : mod'[id].tag # table[i].inc
    OBVIOUS
  <2>1. i \in G /\ table[i].type # "PENDING"
    BY DEF Live
  <2>2. table[i].socket_id # 0
    BY <2>1, MatchFacts DEF Placed
  <2>3. table[i].socket_id \in R
    BY <1>4, <2>1
  <2>4. QED
    BY <1>5, <2>2, <2>3, MatchFacts DEF Placed
<1>9. GivesUp(table, table', asked, mod, mod', line, line', orphans, orphans')
  BY <1>3, <1>5, <1>7, <1>8 DEF GivesUp, GaveUp, Missed
<1>10. QED
  BY <1>1, <1>2, <1>9, GiveUpMatched

LEMMA OneClosedMatched ==
  ASSUME SockInv, Typed', NEW i \in Slots, table[i].xbee, NEW e, ~e.xbee,
         table' = [table EXCEPT ![i] = e],
         mod' = Without({table[i].socket_id}), asked' = asked,
         orphans \subseteq orphans', table[i].type = "PENDING" => table[i].inc \in orphans',
         line' = line \/ (Read(line, line') /\ ~Missed(table', asked, mod', orphans', line[1]))
  PROVE  Matched(table', asked', mod', line', orphans')
<1>1. table \in [Slots -> Entry]
  BY InvFacts, MatchFacts
<1>2. PICK G : G = {i}
  OBVIOUS
<1>3. G \in SUBSET Live(table) /\ \A j \in G : ~table'[j].xbee
  BY <1>1, <1>2 DEF Live
<1>4. \A j \in Slots \ G : table'[j] = table[j]
  BY <1>1, <1>2
<1>5. {table[j].socket_id : j \in G} = {table[i].socket_id}
  BY <1>2
<1>6. \A j \in G : table[j].type = "PENDING" => table[j].inc \in orphans'
  BY <1>2
<1>7. QED
  BY <1>3, <1>4, <1>5, <1>6, ClosedMatched

LEMMA MatchedSame == ASSUME SockInv, UNCHANGED <<table, asked, mod, line, orphans>>
                     PROVE  Matched(table', asked', mod', line', orphans')
  BY DEF SockInv

LEMMA MatchedClose == ASSUME SockInv, NEW x \in held, NEW ok \in BOOLEAN, Close(x, ok), Typed'
                      PROVE  Matched(table', asked', mod', line', orphans')
<1>1. PICK i : i = Lookup(x.h)
  OBVIOUS
<1>2. i \in Slots /\ table[i].xbee
  BY <1>1, HeldEntry, MatchFacts
<1>3. asked' = asked /\ line' = line
  BY DEF Close
<1>4. CASE ok
  <2>1. /\ table' = [table EXCEPT ![i] = Free] /\ mod' = Without({table[i].socket_id})
        /\ orphans' = IF table[i].type = "PENDING" THEN orphans \union {table[i].inc} ELSE orphans
    BY <1>1, <1>4 DEF Close
  <2>2. ~Free.xbee
    BY FreeIsGone DEF Gone
  <2>3. orphans \subseteq orphans' /\ (table[i].type = "PENDING" => table[i].inc \in orphans')
    BY <2>1
  <2>4. QED
    BY <1>2, <1>3, <2>1, <2>2, <2>3, OneClosedMatched
<1>5. CASE ~ok
  BY <1>3, <1>5, MatchedSame DEF Close
<1>6. QED
  BY <1>4, <1>5

LEMMA MatchedCloseAll == ASSUME SockInv, NEW all \in BOOLEAN, NEW k \in 0 .. SocketCount, CloseAll(all, k), Typed'
                         PROVE  Matched(table', asked', mod', line', orphans')
<1> DEFINE open == {i \in Slots : /\ table[i].type \notin {"AVAILABLE", "PENDING"}
                                  /\ all \/ table[i].xbee}
           gone == {i \in open : i < k}
<1>1. /\ table' = [i \in Slots |-> IF i \in gone THEN Free ELSE table[i]]
      /\ \A i \in gone : table[i].xbee
      /\ mod' = Without({table[i].socket_id : i \in gone})
      /\ UNCHANGED <<asked, line, orphans>>
  BY DEF CloseAll
<1>2. PICK G \in SUBSET Slots : G = gone
  OBVIOUS
<1>3. \A i \in G : table[i].type # "PENDING"
  BY <1>2
<1> HIDE DEF gone, open
<1>4. G \in SUBSET Live(table)
  BY <1>1, <1>2 DEF Live
<1>5. (\A i \in G : ~table'[i].xbee) /\ (\A i \in Slots \ G : table'[i] = table[i])
  BY <1>1, <1>2, FreeIsGone DEF Gone
<1>6. mod' = Without({table[i].socket_id : i \in G})
  BY <1>1, <1>2
<1>7. QED
  BY <1>1, <1>3, <1>4, <1>5, <1>6, ClosedMatched

LEMMA MatchedReset == ASSUME SockInv, NEW ok \in BOOLEAN, Reset(ok), Typed'
                      PROVE  Matched(table', asked', mod', line', orphans')
<1>1. /\ table' = [i \in Slots |-> IF table[i].xbee THEN Free ELSE table[i]]
      /\ mod' = IF ok THEN Without(DOMAIN mod) ELSE mod
      /\ orphans' = orphans \union
                      (IF ok THEN {a.tag : a \in {b \in asked : b.kind = "create"}} ELSE AtModule)
      /\ UNCHANGED <<asked, line>>
  BY DEF Reset
<1>2. /\ table \in [Slots -> Entry] /\ table' \in [Slots -> Entry]
      /\ line \in Seq(FrameType) /\ line' \in Seq(FrameType)
  BY DEF SockInv, TableInv, Typed, TypeOK
<1>3. Live(table') = {}
  BY <1>1, FreeIsGone DEF Live, Gone
<1>4. /\ DOMAIN mod' \subseteq DOMAIN mod
      /\ \A id \in DOMAIN mod' : mod'[id] = mod[id]
      /\ ok => DOMAIN mod' = {}
  BY <1>1, WithoutLess
<1>5. orphans \subseteq orphans'
  BY <1>1
<1>6. \A i \in Live(table) : \/ table[i].inc \in orphans'
                             \/ /\ \A a \in asked : a.kind = "create" => a.tag # table[i].inc
                                /\ \A id \in DOMAIN mod' : mod'[id].tag # table[i].inc
  <2>1. CASE ok
    BY <1>1, <1>4, <2>1
  <2>2. CASE ~ok
    <3>1. AtModule \subseteq orphans' /\ mod' = mod
      BY <1>1, <2>2
    <3>2. QED
      BY <3>1 DEF AtModule
  <2>3. QED
    BY <2>1, <2>2
<1>7. GivesUp(table, table', asked, mod, mod', line, line', orphans, orphans')
  BY <1>1, <1>3, <1>4, <1>5, <1>6 DEF GivesUp, GaveUp, Missed
<1>8. QED
  BY <1>1, <1>2, <1>7, GiveUpMatched DEF SockInv

(* Only a frame ID for a send changes, or what no answer is found by.         *)
SameView(T, T2, A, L) ==
  /\ \A i \in Slots : T2[i].xbee = T[i].xbee
  /\ \A i \in Live(T) :
       /\ T2[i].type = T[i].type /\ T2[i].inc = T[i].inc /\ T2[i].socket_id = T[i].socket_id
       /\ T2[i].handler = T[i].handler /\ T2[i].protocol = T[i].protocol
       /\ T2[i].create_frame_id = T[i].create_frame_id
       /\ \/ T2[i].tx_frame_id \in {0, T[i].tx_frame_id}
          \/ T[i].type # "PENDING" /\ SendOwn(A, L, T2[i].tx_frame_id, T2[i].inc)

LEMMA ViewMatched ==
  ASSUME NEW T \in [Slots -> Entry], NEW T2 \in [Slots -> Entry], NEW A, NEW M,
         NEW L \in Seq(FrameType), NEW O, Matched(T, A, M, L, O), SameView(T, T2, A, L)
  PROVE  Matched(T2, A, M, L, O)
<1>1. Live(T2) = Live(T)
  BY DEF SameView, Live
<1>2. \A i \in Live(T) :
        /\ T2[i].type = T[i].type /\ T2[i].inc = T[i].inc /\ T2[i].socket_id = T[i].socket_id
        /\ T2[i].handler = T[i].handler /\ T2[i].protocol = T[i].protocol
        /\ T2[i].create_frame_id = T[i].create_frame_id
        /\ \/ T2[i].tx_frame_id \in {0, T[i].tx_frame_id}
           \/ T[i].type # "PENDING" /\ SendOwn(A, L, T2[i].tx_frame_id, T2[i].inc)
  BY DEF SameView
<1>3. /\ ByFid(T, A, L) /\ Serving(T, A, M, L) /\ Placed(T, A, M, O) /\ Agreed(T, M, L)
      /\ Remembered(T, A, M, L, O)
  BY DEF Matched
<1>4. ByFid(T2, A, L)
  BY <1>1, <1>2, <1>3 DEF ByFid
<1>5. Serving(T2, A, M, L)
  BY <1>1, <1>2, <1>3 DEF Serving
<1>6. Placed(T2, A, M, O)
  BY <1>1, <1>2, <1>3 DEF Placed
<1>7. Agreed(T2, M, L)
  <2>1. \A i \in Live(T) : /\ Fits(T2[i]) <=> Fits(T[i])
                           /\ Settled(T2[i]) = Settled(T[i])
                           /\ \A m : Awaited(T2[i], m) <=> Awaited(T[i], m)
    BY <1>2 DEF Fits, Settled, Awaited, Opener
  <2>2. ASSUME NEW i \in Live(T) PROVE AgreedOn(T2[i], M, L)
    <3>1. AgreedOn(T[i], M, L)
      BY <1>3 DEF Agreed
    <3>2. T2[i].inc = T[i].inc
      BY <1>2
    <3>3. QED
      BY <2>1, <3>1, <3>2 DEF AgreedOn
  <2>3. QED
    BY <1>1, <1>3, <2>2 DEF Agreed
<1>8. Remembered(T2, A, M, L, O)
  BY <1>1, <1>2, <1>3 DEF Remembered
<1>9. QED
  BY <1>4, <1>5, <1>6, <1>7, <1>8 DEF Matched

(* A frame is read that no socket waits for.                                  *)
LEMMA ReadMatched ==
  ASSUME SockInv, Typed', UNCHANGED <<table, asked>>, Read(line, line'), orphans \subseteq orphans',
         mod' = mod, ~Missed(table, asked, mod, orphans', line[1])
  PROVE  Matched(table', asked', mod', line', orphans')
<1>1. table \in [Slots -> Entry] /\ line \in Seq(FrameType) /\ line' \in Seq(FrameType)
  BY DEF SockInv, TableInv, Typed, TypeOK
<1>2. GivesUp(table, table, asked, mod, mod, line, line', orphans, orphans')
  BY DEF GivesUp, GaveUp, Missed
<1>3. QED
  BY <1>1, <1>2, GiveUpMatched DEF SockInv

(* What a handler reads is for the socket it finds.                           *)
LEMMA OwnFrame ==
  ASSUME SockInv, NEW i \in Slots, NEW id, Owns(i, id), id # 0, NEW k \in 1 .. Len(line), About(line[k], id)
  PROVE  line[k].tag = table[i].inc
<1>1. Serves(asked, mod, line, 0, id, table[i].inc)
  BY OwnerServes DEF Owns, Live
<1>2. 0 + 1 = 1
  OBVIOUS
<1>3. QED
  BY <1>1, <1>2 DEF Serves

LEMMA OneOwner ==
  ASSUME SockInv, NEW i \in Slots, NEW j \in Slots, NEW id, Owns(i, id), Owns(j, id), id # 0
  PROVE  i = j
<1>1. i \in Live(table) /\ j \in Live(table) /\ table[i].socket_id = id /\ table[j].socket_id = id
  BY DEF Owns, Live
<1>2. Serves(asked, mod, line, 0, id, table[i].inc) /\ Serves(asked, mod, line, 0, id, table[j].inc)
  BY <1>1, OwnerServes
<1>3. table[i].inc = table[j].inc
  BY <1>2, ServesOne, InvFacts, MatchFacts
<1>4. QED
  BY <1>1, <1>3, OneInc

LEMMA LiveOwns == ASSUME SockInv, NEW i \in Live(table)
                  PROVE  i \in Slots /\ Owns(i, table[i].socket_id) /\ table[i].type # "AVAILABLE"
  BY InvFacts, MatchFacts DEF Live, Blank, Owns

LEMMA MatchedHandleTxStatus ==
  ASSUME SockInv, NEW act \in Acts, HandleTxStatus(act), Typed'
  PROVE  Matched(table', asked', mod', line', orphans') /\ ~misled'
<1> DEFINE m == line[1]
<1>1. /\ Read(line, line') /\ UNCHANGED <<asked, orphans>> /\ TxStatusDone(act)
      /\ m \in FrameType /\ m.t = "TX_STATUS" /\ 1 \in 1 .. Len(line)
  BY TxStatusDoes DEF SockInv, TableInv
<1>2. m.fid \in Fid /\ m.fid # 0
  BY <1>1, FrameFields DEF Fid
<1>3. \A i \in Live(table) : m.fid = table[i].tx_frame_id => m.tag = table[i].inc
  BY <1>1, <1>2, MatchFacts DEF ByFid, SendOwn
<1>4. CASE Ignored /\ \A j \in Slots : ~(table[j].xbee /\ table[j].tx_frame_id = m.fid)
  <2>1. ~Missed(table, asked, mod, orphans', m)
    BY <1>1, <1>4 DEF Missed, Lost, Live, Answers
  <2>2. QED
    BY <1>1, <1>4, <2>1, ReadMatched, MatchFacts DEF Ignored
<1>5. ASSUME NEW i \in Slots, table[i].xbee, table[i].tx_frame_id = m.fid, Tell(m, i),
             \/ /\ table' = [table EXCEPT ![i] = Free]
                /\ mod' = Without({table[i].socket_id})
             \/ /\ table' = [table EXCEPT ![i].tx_frame_id = 0]
                /\ mod' = mod
      PROVE  Matched(table', asked', mod', line', orphans') /\ ~misled'
  <2>1. i \in Live(table)
    BY <1>5 DEF Live
  <2>2. ~misled'
    BY <1>3, <1>5, <2>1, MatchFacts DEF Tell
  <2>3. \A j \in Live(table) : m.fid = table[j].tx_frame_id => j = i
    BY <1>3, <1>5, <2>1, OneInc
  <2>4. table \in [Slots -> Entry] /\ line \in Seq(FrameType)
    BY InvFacts, MatchFacts
  <2>5. CASE table' = [table EXCEPT ![i] = Free] /\ mod' = Without({table[i].socket_id})
    <3>1. ~Free.xbee
      BY FreeIsGone DEF Gone
    <3>2. ~Missed(table', asked, mod', orphans', m)
      <4>1. \A j \in Live(table') : j \in Live(table) /\ j # i /\ table'[j] = table[j]
        BY <2>4, <2>5, <3>1 DEF Live
      <4>2. QED
        BY <1>1, <2>3, <4>1 DEF Missed, Lost, Answers
    <3>3. table[i].type # "PENDING"
      BY <1>2, <1>5, <2>1, MatchFacts DEF Placed
    <3>4. QED
      BY <1>1, <1>5, <2>2, <2>5, <3>1, <3>2, <3>3, OneClosedMatched
  <2>6. CASE table' = [table EXCEPT ![i].tx_frame_id = 0] /\ mod' = mod
    <3>1. PICK e : e = [table[i] EXCEPT !.tx_frame_id = 0]
      OBVIOUS
    <3>2. /\ e.type = table[i].type /\ e.inc = table[i].inc /\ e.socket_id = table[i].socket_id
          /\ e.handler = table[i].handler /\ e.protocol = table[i].protocol
          /\ e.create_frame_id = table[i].create_frame_id /\ e.xbee = table[i].xbee
          /\ e.tx_frame_id = 0
      BY <2>4, <3>1 DEF Entry
    <3>3. table' = [table EXCEPT ![i] = e]
      BY <2>4, <2>6, <3>1
    <3>4. table'[i] = e /\ \A j \in Slots : j # i => table'[j] = table[j]
      BY <2>4, <3>3
    <3>5. SameView(table, table', asked, line)
      BY <3>2, <3>4 DEF SameView, Live
    <3>6. table' \in [Slots -> Entry] /\ line' \in Seq(FrameType)
      BY DEF Typed, TypeOK
    <3>7. Matched(table', asked, mod, line, orphans)
      BY <2>4, <3>5, <3>6, ViewMatched DEF SockInv
    <3>8. \A j \in Live(table') : table'[j].tx_frame_id # m.fid
      BY <1>2, <2>3, <3>2, <3>4 DEF Live
    <3>9. ~Missed(table', asked, mod, orphans, m)
      BY <1>1, <3>8 DEF Missed, Lost, Answers
    <3>10. GivesUp(table', table', asked, mod, mod, line, line', orphans, orphans)
      BY <1>1, <3>9 DEF GivesUp, GaveUp, Missed
    <3>11. Matched(table', asked, mod, line', orphans)
      BY <2>4, <3>6, <3>7, <3>10, GiveUpMatched
    <3>12. QED
      BY <1>1, <2>2, <2>6, <3>11
  <2>7. QED
    BY <1>5, <2>5, <2>6
<1>6. QED
  BY <1>1, <1>4, <1>5 DEF TxStatusDone

LEMMA MatchedHandleData ==
  ASSUME SockInv, NEW t \in {"OPTION_RESP", "RECEIVE", "RECEIVE_FROM"}, HandleData(t), Typed'
  PROVE  Matched(table', asked', mod', line', orphans') /\ ~misled'
<1> DEFINE m == line[1]
<1>1. /\ Read(line, line') /\ UNCHANGED <<table, asked, mod, orphans>> /\ DataDone(t)
      /\ m \in FrameType /\ m.t = t /\ 1 \in 1 .. Len(line)
  BY DataDoes DEF SockInv, TableInv
<1>2. ~Missed(table, asked, mod, orphans', m)
  BY <1>1 DEF Missed, Lost, Answers
<1>3. Matched(table', asked', mod', line', orphans')
  BY <1>1, <1>2, ReadMatched
<1>4. ASSUME NEW i \in Slots, Owns(i, m.id), Tell(m, i) PROVE ~misled'
  <2>1. CASE m.id # 0
    <3>1. About(m, m.id)
      BY <1>1 DEF About
    <3>2. m.tag = table[i].inc
      BY <1>1, <1>4, <2>1, <3>1, OwnFrame
    <3>3. QED
      BY <1>4, <3>2, MatchFacts DEF Tell
  <2>2. CASE m.id = 0
    <3>1. m.t = "OPTION_RESP"
      BY <1>1, <2>2, FrameFields, SocketAssumption
    <3>2. QED
      BY <1>4, <2>2, <3>1, MatchFacts DEF Tell
  <2>3. QED
    BY <2>1, <2>2
<1>5. (\E i \in Slots : Owns(i, m.id) /\ Tell(m, i)) \/ UNCHANGED misled
  BY <1>1 DEF DataDone
<1>6. ~misled'
  <2>1. CASE UNCHANGED misled
    BY <2>1, MatchFacts
  <2>2. CASE \E i \in Slots : Owns(i, m.id) /\ Tell(m, i)
    BY <1>4, <2>2
  <2>3. QED
    BY <1>5, <2>1, <2>2
<1>7. QED
  BY <1>3, <1>6

LEMMA MatchedHandleState ==
  ASSUME SockInv, HandleState, Typed'
  PROVE  Matched(table', asked', mod', line', orphans') /\ ~misled'
<1> DEFINE m == line[1]
<1>1. /\ Read(line, line') /\ UNCHANGED <<asked, orphans>> /\ StateDone
      /\ m \in FrameType /\ m.t = "STATE" /\ 1 \in 1 .. Len(line)
  BY StateDoes DEF SockInv, TableInv
<1>2. m.id # 0 /\ About(m, m.id)
  BY <1>1, FrameFields, SocketAssumption DEF About
<1>3. table \in [Slots -> Entry] /\ line \in Seq(FrameType) /\ table' \in [Slots -> Entry] /\ line' \in Seq(FrameType)
  BY DEF SockInv, TableInv, Typed, TypeOK
<1>4. CASE Ignored /\ \A j \in Slots : ~Owns(j, m.id)
  <2>1. ~Missed(table, asked, mod, orphans', m)
    BY <1>1, <1>4, LiveOwns DEF Missed, Lost, Answers
  <2>2. QED
    BY <1>1, <1>4, <2>1, ReadMatched, MatchFacts DEF Ignored
<1>5. ASSUME NEW i \in Slots, Owns(i, m.id), Tell(m, i), table' = [table EXCEPT ![i] = Free], mod' = mod
      PROVE  Matched(table', asked', mod', line', orphans') /\ ~misled'
  <2>1. m.tag = table[i].inc
    BY <1>1, <1>2, <1>5, OwnFrame
  <2>2. ~misled'
    BY <1>5, <2>1, MatchFacts DEF Tell
  <2>3. \A j \in Live(table') : j \in Live(table) /\ j # i /\ table'[j] = table[j]
    BY <1>3, <1>5, FreeIsGone DEF Live, Gone
  <2>4. \A j \in Live(table) : table[j].socket_id = m.id => j = i
    BY <1>2, <1>5, LiveOwns, OneOwner
  <2>5. ~Missed(table', asked, mod, orphans', m)
    BY <1>1, <2>3, <2>4 DEF Missed, Lost, Answers
  <2>6. /\ \A a \in asked : a.kind = "create" => a.tag # table[i].inc
        /\ \A id \in DOMAIN mod : mod[id].tag # table[i].inc
    BY <1>1, <2>1, InvFacts, MatchFacts DEF Once
  <2>7. \A j \in Live(table) : j = i \/ j \in Live(table')
    BY <1>3, <1>5 DEF Live
  <2>8. GivesUp(table, table', asked, mod, mod, line, line', orphans, orphans')
    BY <1>1, <2>3, <2>5, <2>6, <2>7 DEF GivesUp, GaveUp, Missed
  <2>9. QED
    BY <1>1, <1>3, <1>5, <2>2, <2>8, GiveUpMatched DEF SockInv
<1>6. QED
  BY <1>1, <1>4, <1>5 DEF StateDone

(* A PENDING entry gets its ID: from then on it is served under it.           *)
LEMMA CreatedMatched ==
  ASSUME SockInv, NEW i \in Live(table), table[i].type = "PENDING", line # <<>>,
         line[1].t = "CREATE_RESP", line[1].good, line[1].tag = table[i].inc,
         NEW T2 \in [Slots -> Entry], \A j \in Slots : j # i => T2[j] = table[j],
         NEW e, T2[i] = e, e.type = "CREATED", e.socket_id = line[1].id, e.inc = table[i].inc,
         e.handler = table[i].handler, e.protocol = table[i].protocol,
         e.tx_frame_id = table[i].tx_frame_id, e.xbee
  PROVE  Matched(T2, asked, mod, line, orphans)
<1> DEFINE m == line[1]
<1>1. /\ e.type = "CREATED" /\ e.socket_id = m.id /\ e.inc = table[i].inc /\ e.handler = table[i].handler
      /\ e.protocol = table[i].protocol /\ e.tx_frame_id = table[i].tx_frame_id /\ e.xbee
  OBVIOUS
<1>2. T2[i] = e /\ \A j \in Live(T2) : j = i \/ (j # i /\ j \in Live(table) /\ T2[j] = table[j])
  BY DEF Live
<1>3. 1 \in 1 .. Len(line) /\ m.id # 0 /\ i \in Slots /\ i \in Live(T2)
  <2>1. 1 \in 1 .. Len(line) /\ i \in Slots
    BY InvFacts, MatchFacts DEF Live
  <2>2. m.id # 0
    BY <2>1, MatchFacts DEF Agreed, AgreedOn, Said
  <2>3. QED
    BY <1>1, <2>1, <2>2 DEF Live
<1>4. Live(T2) = Live(table)
  BY <1>2, <1>3 DEF Live
<1>5. ByFid(T2, asked, line)
  BY <1>1, <1>2, MatchFacts DEF ByFid
<1>6. Serves(asked, mod, line, 0, m.id, e.inc)
  <2>1. Serves(asked, mod, line, 1, m.id, e.inc)
    BY <1>1, <1>3, MatchFacts DEF Serving
  <2>2. \A k \in 0 + 1 .. Len(line) : k = 1 \/ k \in 1 + 1 .. Len(line)
    BY InvFacts, MatchFacts
  <2>3. ~About(line[1], m.id)
    BY DEF About
  <2>4. \A k \in 1 + 1 .. Len(line) : k \in 0 + 1 .. Len(line)
    BY InvFacts, MatchFacts
  <2>5. QED
    BY <2>1, <2>2, <2>3, <2>4 DEF Serves
<1>7. Serving(T2, asked, mod, line)
  BY <1>1, <1>2, <1>3, <1>6, MatchFacts DEF Serving
<1>8. Placed(T2, asked, mod, orphans)
  <2>1. /\ \A a \in asked : a.kind = "create" => a.tag # e.inc
        /\ \A id \in DOMAIN mod : mod[id].tag = e.inc => id = m.id
    BY <1>1, <1>3, InvFacts, MatchFacts DEF Once
  <2>2. QED
    BY <1>1, <1>2, <1>3, <2>1, MatchFacts DEF Placed
<1>9. Agreed(T2, mod, line)
  <2>1. \A k \in 1 .. Len(line) : ~Answers(line[k], e.inc)
    BY <1>1, MatchFacts DEF Agreed, AgreedOn, Said, Awaited
  <2>2. Fits(e) /\ Settled(e) = Settled(table[i])
    BY <1>1 DEF Fits, Settled
  <2>3. \A id \in DOMAIN mod : mod[id].tag = e.inc => mod[id].phase = Settled(e)
    BY <1>1, <2>1, <2>2, MatchFacts DEF Agreed, AgreedOn, Said, Unanswered
  <2>4. QED
    BY <1>2, <2>1, <2>2, <2>3, MatchFacts DEF Agreed, AgreedOn, Said
<1>10. Remembered(T2, asked, mod, line, orphans)
  BY <1>1, <1>2, <1>4, MatchFacts DEF Remembered
<1>11. QED
  BY <1>5, <1>7, <1>8, <1>9, <1>10 DEF Matched

LEMMA MatchedHandleCreateResp ==
  ASSUME SockInv, NEW act \in Acts, HandleCreateResp(act), Typed'
  PROVE  Matched(table', asked', mod', line', orphans') /\ ~misled'
<1> DEFINE m == line[1]
<1>1. /\ Read(line, line') /\ UNCHANGED <<asked, orphans>> /\ CreateRespDone(act)
      /\ m \in FrameType /\ m.t = "CREATE_RESP" /\ 1 \in 1 .. Len(line) /\ line # <<>>
  BY CreateRespDoes DEF SockInv, TableInv
<1>2. \A i \in Live(table) : table[i].type = "PENDING" =>
        (m.fid = table[i].create_frame_id <=> m.tag = table[i].inc)
  BY <1>1, MatchFacts DEF ByFid, CreateOwn
<1>3. /\ table \in [Slots -> Entry] /\ table' \in [Slots -> Entry] /\ ModType(mod)
      /\ line \in Seq(FrameType) /\ line' \in Seq(FrameType) /\ m.good \in BOOLEAN
  BY <1>1, FrameFields DEF SockInv, TableInv, Typed, TypeOK, ModType
<1>4. CASE /\ \A j \in Slots : ~(/\ table[j].type = "PENDING" /\ table[j].xbee
                                 /\ table[j].create_frame_id = m.fid)
           /\ Ignored
  <2>1. ~Missed(table, asked, mod, orphans', m)
    BY <1>1, <1>2, <1>4 DEF Missed, Lost, Live, Answers
  <2>2. QED
    BY <1>1, <1>4, <2>1, ReadMatched, MatchFacts DEF Ignored
<1>5. ASSUME NEW i \in Slots, table[i].type = "PENDING", table[i].xbee, table[i].create_frame_id = m.fid,
             Tell(m, i), table' = [table EXCEPT ![i] = Created(m, i, act)],
             mod' = IF act = "close" THEN Without({m.id}) ELSE mod
      PROVE  Matched(table', asked', mod', line', orphans') /\ ~misled'
  <2>1. i \in Live(table)
    BY <1>5 DEF Live
  <2>2. m.tag = table[i].inc
    BY <1>2, <1>5, <2>1
  <2>3. ~misled'
    BY <1>5, <2>2, MatchFacts DEF Tell
  <2>4. \A j \in Live(table) : table[j].inc = m.tag => j = i
    BY <2>1, <2>2, OneInc
  <2>5. \A j \in Slots : j # i => table'[j] = table[j]
    BY <1>3, <1>5
  <2>6. CASE m.good /\ act = "none"
    <3>1. mod' = mod /\ table'[i] = [table[i] EXCEPT !.type = "CREATED", !.socket_id = m.id]
      BY <1>3, <1>5, <2>6 DEF Created
    <3>2. Matched(table', asked, mod, line, orphans)
      <4>1. PICK e : e = [table[i] EXCEPT !.type = "CREATED", !.socket_id = line[1].id]
        OBVIOUS
      <4>2. table'[i] = e
        BY <3>1, <4>1
      <4>3. /\ e.type = "CREATED" /\ e.socket_id = line[1].id /\ e.inc = table[i].inc
            /\ e.handler = table[i].handler /\ e.protocol = table[i].protocol
            /\ e.tx_frame_id = table[i].tx_frame_id /\ e.xbee
        BY <1>3, <1>5, <4>1 DEF Entry
      <4>4. line[1].t = "CREATE_RESP" /\ line[1].good /\ line[1].tag = table[i].inc
        BY <1>1, <2>2, <2>6
      <4>5. QED
        BY <1>1, <1>3, <1>5, <2>1, <2>5, <4>2, <4>4, <4>3, CreatedMatched
    <3>3. table'[i].type = "CREATED"
      BY <1>3, <3>1 DEF Entry
    <3>4. \A j \in Live(table') : table'[j].type = "PENDING" => m.tag # table'[j].inc
      BY <2>4, <2>5, <3>3 DEF Live
    <3>5. ~Missed(table', asked, mod, orphans, m)
      BY <1>1, <3>4 DEF Missed, Lost, Answers
    <3>6. GivesUp(table', table', asked, mod, mod, line, line', orphans, orphans)
      BY <1>1, <3>5 DEF GivesUp, GaveUp, Missed
    <3>7. Matched(table', asked, mod, line', orphans)
      BY <1>3, <3>2, <3>6, GiveUpMatched
    <3>8. QED
      BY <1>1, <2>3, <3>1, <3>7
  <2>7. CASE ~(m.good /\ act = "none")
    <3>1. table'[i] = Free
      BY <1>3, <1>5, <2>7 DEF Created
    <3>2. \A j \in Live(table') : j \in Live(table) /\ j # i /\ table'[j] = table[j]
      BY <2>5, <3>1, FreeIsGone DEF Live, Gone
    <3>3. ~Missed(table', asked, mod', orphans, m)
      BY <1>1, <2>4, <3>2 DEF Missed, Lost, Answers
    <3>4. /\ DOMAIN mod' \subseteq DOMAIN mod /\ \A id \in DOMAIN mod' : mod'[id] = mod[id]
          /\ \A id \in DOMAIN mod \ DOMAIN mod' : id = m.id
          /\ act = "close" => m.id \notin DOMAIN mod'
      <4>1. CASE act = "close"
        <5>1. PICK R : R = {m.id}
          OBVIOUS
        <5>2. mod' = Without(R)
          BY <1>5, <4>1, <5>1
        <5>3. DOMAIN mod' = DOMAIN mod \ R /\ \A id \in DOMAIN mod' : mod'[id] = mod[id]
          BY <5>2, WithoutLess
        <5>4. QED
          BY <4>1, <5>1, <5>3
      <4>2. CASE act # "close"
        BY <1>5, <4>2
      <4>3. QED
        BY <4>1, <4>2
    <3>5. /\ \A a \in asked : a.kind = "create" => a.tag # m.tag
          /\ \A id \in DOMAIN mod : mod[id].tag = m.tag => m.good /\ id = m.id
      BY <1>1, InvFacts, MatchFacts DEF Once
    <3>6. \A id \in DOMAIN mod \ DOMAIN mod' : mod[id].tag = table[i].inc
      <4> SUFFICES ASSUME NEW id \in DOMAIN mod \ DOMAIN mod' PROVE mod[id].tag = table[i].inc
        OBVIOUS
      <4>1. id = m.id /\ m.id # 0
        BY <1>3, <3>4, SocketAssumption DEF ModType
      <4>2. m.good
        BY <1>1, <4>1, MatchFacts DEF Agreed, AgreedOn, Said
      <4>3. Serves(asked, mod, line, 1, m.id, table[i].inc)
        BY <1>1, <1>5, <2>1, <2>2, <4>2, MatchFacts DEF Serving
      <4>4. QED
        BY <4>1, <4>3 DEF Serves
    <3>7. \A id \in DOMAIN mod' : mod'[id].tag # table[i].inc
      BY <2>2, <2>7, <3>4, <3>5 DEF Acts
    <3>8. \A k \in 1 .. Len(line') : line'[k].t = "CLIENT" => line'[k].clientTag # table[i].inc
      <4>1. \A k \in 1 .. Len(line') : k + 1 \in 1 .. Len(line) /\ line'[k] = line[k + 1]
        BY <1>1, <1>3 DEF Read
      <4>2. QED
        BY <2>1, <4>1, InvFacts, MatchFacts DEF Apart
    <3>9. \A id \in DOMAIN mod \ DOMAIN mod' :
            /\ \A j \in Live(table') : mod[id].tag # table'[j].inc
            /\ \A k \in 1 .. Len(line') : \A j \in Live(table') :
                 line'[k].t = "CLIENT" /\ line'[k].tag = table'[j].inc => mod[id].tag # line'[k].clientTag
      BY <2>2, <2>4, <3>2, <3>6, <3>8
    <3>10. \A j \in Live(table) : j = i \/ j \in Live(table')
      BY <2>5 DEF Live
    <3>11. GivesUp(table, table', asked, mod, mod', line, line', orphans, orphans)
      BY <1>1, <2>2, <3>2, <3>3, <3>4, <3>5, <3>7, <3>9, <3>10 DEF GivesUp, GaveUp, Missed
    <3>12. QED
      BY <1>1, <1>3, <2>3, <3>11, GiveUpMatched DEF SockInv
  <2>8. QED
    BY <2>6, <2>7
<1>6. QED
  BY <1>1, <1>4, <1>5 DEF CreateRespDone

LEMMA MatchedHandleAttachResp ==
  ASSUME SockInv, NEW act \in Acts, HandleAttachResp(act), Typed'
  PROVE  Matched(table', asked', mod', line', orphans') /\ ~misled'
<1> DEFINE m == line[1]
<1>1. /\ Read(line, line') /\ UNCHANGED <<asked, orphans>> /\ AttachRespDone(act)
      /\ m \in FrameType /\ m.t = "ATTACH_RESP" /\ 1 \in 1 .. Len(line) /\ Len(line) \in Nat
  BY AttachRespDoes DEF SockInv, TableInv
<1>2. /\ table \in [Slots -> Entry] /\ table' \in [Slots -> Entry]
      /\ line \in Seq(FrameType) /\ line' \in Seq(FrameType)
  BY DEF SockInv, TableInv, Typed, TypeOK
<1>3. \A i \in Live(table) : Answers(m, table[i].inc) =>
        /\ m.id # 0 /\ table[i].type = "ATTACH" /\ table[i].socket_id = m.id /\ Awaited(table[i], m)
        /\ i \in Slots /\ Owns(i, m.id)
  <2> SUFFICES ASSUME NEW i \in Live(table), Answers(m, table[i].inc)
               PROVE  /\ m.id # 0 /\ table[i].type = "ATTACH" /\ table[i].socket_id = m.id
                      /\ Awaited(table[i], m)
                      /\ i \in Slots /\ Owns(i, m.id)
    OBVIOUS
  <2>1. Awaited(table[i], m) /\ m.id # 0
    BY <1>1, MatchFacts DEF Agreed, AgreedOn, Said, Answers
  <2>2. QED
    BY <2>1, LiveOwns DEF Awaited
<1>4. CASE /\ \/ \A j \in Slots : ~Owns(j, m.id)
              \/ \E i \in Slots : Owns(i, m.id) /\ table[i].type # "ATTACH"
           /\ Ignored
  <2>1. \A i \in Live(table) : ~Answers(m, table[i].inc)
    BY <1>3, <1>4, OneOwner
  <2>2. ~Missed(table, asked, mod, orphans', m)
    BY <1>1, <2>1 DEF Missed, Lost
  <2>3. QED
    BY <1>1, <1>4, <2>2, ReadMatched, MatchFacts DEF Ignored
<1>5. ASSUME NEW i \in Slots, Owns(i, m.id), table[i].type = "ATTACH", Tell(m, i)
      PROVE  ~misled'
  <2>1. CASE m.id = 0
    BY <1>1, <1>5, <2>1, MatchFacts DEF Tell
  <2>2. CASE m.id # 0
    <3>1. About(m, m.id)
      BY <1>1 DEF About
    <3>2. m.tag = table[i].inc
      BY <1>1, <1>5, <2>2, <3>1, OwnFrame
    <3>3. QED
      BY <1>5, <3>2, MatchFacts DEF Tell
  <2>3. QED
    BY <2>1, <2>2
<1>6. ASSUME NEW i \in Slots, Owns(i, m.id), table[i].type = "ATTACH",
             table' = [table EXCEPT ![i] = [Free EXCEPT !.type = Attached(m, i)]], mod' = Without({m.id})
      PROVE  Matched(table', asked', mod', line', orphans')
  <2>1. PICK e : e = [Free EXCEPT !.type = Attached(m, i)]
    OBVIOUS
  <2>2. ~e.xbee
    BY <2>1, FreeIsGone, AttachedType DEF Gone
  <2>3. table' = [table EXCEPT ![i] = e] /\ mod' = Without({table[i].socket_id}) /\ table[i].xbee
    BY <1>6, <2>1 DEF Owns
  <2>4. \A j \in Live(table') : j \in Live(table) /\ j # i /\ table'[j] = table[j]
    BY <1>2, <2>2, <2>3 DEF Live
  <2>5. \A j \in Live(table') : ~Answers(m, table'[j].inc)
    BY <1>3, <1>6, <2>4, OneOwner
  <2>6. ~Missed(table', asked, mod', orphans', m)
    BY <1>1, <2>5 DEF Missed, Lost
  <2>7. QED
    BY <1>1, <1>6, <2>2, <2>3, <2>6, OneClosedMatched
<1>7. ASSUME NEW i \in Slots, Owns(i, m.id), table[i].type = "ATTACH",
             table' = [table EXCEPT ![i].type = Attached(m, i)], mod' = mod
      PROVE  Matched(table', asked', mod', line', orphans')
  <2>1. PICK y : y = Attached(m, i)
    OBVIOUS
  <2>2. y \notin {"AVAILABLE", "PENDING", "ATTACH"} /\ (~m.good => y = "CREATED")
    BY <2>1, AttachedType DEF Attached
  <2>3. PICK e : e = [table[i] EXCEPT !.type = y]
    OBVIOUS
  <2>4. table' = [table EXCEPT ![i] = e]
    BY <1>2, <1>7, <2>1, <2>3
  <2>5. /\ e.type = y /\ e.inc = table[i].inc /\ e.socket_id = table[i].socket_id
        /\ e.handler = table[i].handler /\ e.protocol = table[i].protocol
        /\ e.tx_frame_id = table[i].tx_frame_id /\ e.xbee = table[i].xbee
    BY <1>2, <2>3 DEF Entry
  <2>6. i \in Live(table) /\ table[i].xbee /\ table[i].socket_id = m.id
    BY <1>7 DEF Owns, Live
  <2>7. /\ Live(table') = Live(table)
        /\ table'[i] = e /\ \A j \in Slots : j # i => table'[j] = table[j]
    BY <1>2, <2>4, <2>5, <2>6 DEF Live
  <2>8. \A j \in Live(table') : (table'[j] = e /\ j = i) \/ (j # i /\ j \in Live(table) /\ table'[j] = table[j])
    BY <2>7 DEF Live
  <2>9. m.id = 0 => ~m.good
    BY <1>1, MatchFacts DEF Agreed, AgreedOn, Said
  <2>10. ByFid(table', asked, line)
    BY <2>2, <2>5, <2>6, <2>8, MatchFacts DEF ByFid
  <2>11. Serving(table', asked, mod, line)
    BY <2>2, <2>5, <2>6, <2>8, MatchFacts DEF Serving
  <2>12. Placed(table', asked, mod, orphans)
    <3>1. e.socket_id = 0 => e.type = "CREATED" /\ e.inc \in orphans
      <4>1. table[i].socket_id = 0 => table[i].inc \in orphans
        BY <1>7, <2>6, MatchFacts DEF Placed
      <4>2. QED
        BY <2>2, <2>5, <2>6, <2>9, <4>1
    <3>2. e.socket_id # 0 => /\ \A a \in asked : a.kind = "create" => a.tag # e.inc
                             /\ \A id \in DOMAIN mod : mod[id].tag = e.inc => id = e.socket_id
      BY <2>5, <2>6, MatchFacts DEF Placed
    <3>3. e.type # "PENDING"
      BY <2>2, <2>5
    <3>4. QED
      BY <2>8, <3>1, <3>2, <3>3, MatchFacts DEF Placed
  <2>13. Remembered(table', asked, mod, line, orphans)
    BY <2>5, <2>7, <2>8, MatchFacts DEF Remembered
  <2>14. ~Lost(table', asked, mod, orphans, m)
    BY <1>1 DEF Lost
  <2>15. GaveUp(table', table', asked, mod, mod, line, line', orphans, orphans)
    BY <1>1, <2>14 DEF GaveUp
  <2>16. /\ ByFid(table', asked, line') /\ Serving(table', asked, mod, line')
         /\ Placed(table', asked, mod, orphans) /\ Remembered(table', asked, mod, line', orphans)
    BY <1>2, <2>10, <2>11, <2>12, <2>13, <2>15, GiveUpRest
  <2>17. \A k \in 1 .. Len(line') : k + 1 \in 1 .. Len(line) /\ k \in Nat /\ line'[k] = line[k + 1]
    BY <1>1, <1>2 DEF Read
  <2>18. \A j \in Live(table) : j # i => ~Answers(m, table[j].inc)
    BY <1>3, <1>7, OneOwner
  <2>19. /\ Fits(e)
         /\ \A id \in DOMAIN mod : mod[id].tag = e.inc => mod[id].phase = Settled(e)
         /\ Unanswered(line', e.inc)
    <3>1. CASE m.id = 0
      <4>1. y = "CREATED" /\ Settled(e) = "idle" /\ Settled(table[i]) = "idle" /\ Fits(e)
        BY <1>7, <2>2, <2>5, <2>6, <2>9, <3>1 DEF Settled, Fits
      <4>2. \A k \in 1 .. Len(line) : ~Answers(line[k], table[i].inc)
        BY <2>6, <3>1, MatchFacts DEF Agreed, AgreedOn, Said, Awaited, Answers
      <4>3. \A id \in DOMAIN mod : mod[id].tag = table[i].inc => mod[id].phase = "idle"
        BY <2>6, <4>1, <4>2, MatchFacts DEF Agreed, AgreedOn, Said, Unanswered
      <4>4. QED
        BY <2>5, <2>17, <4>1, <4>2, <4>3 DEF Unanswered
    <3>2. CASE m.id # 0
      <4>1. About(m, m.id)
        BY <1>1 DEF About
      <4>2. m.tag = table[i].inc
        BY <1>1, <1>7, <3>2, <4>1, OwnFrame
      <4>3. Answers(m, table[i].inc)
        BY <1>1, <3>2, <4>2 DEF Answers
      <4>4. /\ Awaited(table[i], m)
            /\ \A id \in DOMAIN mod : mod[id].tag = table[i].inc => mod[id].phase = Outcome(m)
            /\ \A j \in 1 .. Len(line) : Answers(line[j], table[i].inc) => j = 1
        BY <1>1, <2>6, <4>3, MatchFacts DEF Agreed, AgreedOn, Said
      <4>5. table[i].handler \in {"receive", Opener(table[i])}
        BY <1>7, <2>6, MatchFacts DEF Agreed, AgreedOn, Said, Fits
      <4>6. Settled(e) = Outcome(m) /\ Fits(e)
        BY <2>1, <2>5, <4>4, <4>5 DEF Settled, Outcome, Fits, Attached, Awaited, Opener
      <4>7. Unanswered(line', e.inc)
        BY <1>2, <2>5, <2>17, <4>4 DEF Unanswered
      <4>8. QED
        BY <2>5, <4>4, <4>6, <4>7
    <3>3. QED
      BY <3>1, <3>2
  <2>20. Agreed(table', mod, line')
    <3>1. Said(mod, line')
      BY <1>1, <1>2, SaidRead, MatchFacts DEF Agreed
    <3>2. ASSUME NEW j \in Live(table'), j # i PROVE AgreedOn(table'[j], mod, line')
      <4>1. j \in Live(table) /\ table'[j] = table[j]
        BY <2>8, <3>2
      <4>2. AgreedOn(table[j], mod, line) /\ ~Answers(m, table[j].inc)
        BY <2>18, <3>2, <4>1, MatchFacts DEF Agreed
      <4>3. QED
        BY <1>1, <1>2, <4>1, <4>2, AgreedRead
    <3>3. AgreedOn(e, mod, line')
      BY <2>19 DEF AgreedOn, Unanswered
    <3>4. QED
      BY <2>7, <3>1, <3>2, <3>3 DEF Agreed
  <2>21. QED
    BY <1>1, <1>7, <2>16, <2>20 DEF Matched
<1>8. QED
  BY <1>1, <1>4, <1>5, <1>6, <1>7 DEF AttachRespDone

(* A client that was announced is closed again, or given up.                  *)
LEMMA RejectMatched ==
  ASSUME SockInv, Typed', line[1].t = "CLIENT", line # <<>>, Read(line, line'), asked' = asked,
         NEW l \in Live(table), table[l].inc = line[1].tag,
         Live(table') = Live(table), \A i \in Live(table) : table'[i] = table[i],
         orphans \subseteq orphans',
         \/ mod' = Without({line[1].client})
         \/ mod' = mod /\ line[1].clientTag \in orphans'
  PROVE  Matched(table', asked', mod', line', orphans')
<1> DEFINE m == line[1]
<1>1. /\ table \in [Slots -> Entry] /\ table' \in [Slots -> Entry]
      /\ line \in Seq(FrameType) /\ line' \in Seq(FrameType)
      /\ 1 \in 1 .. Len(line) /\ Len(line) \in Nat
  BY DEF SockInv, TableInv, Typed, TypeOK
<1>2. PICK R : R = {m.client}
  OBVIOUS
<1>3. /\ DOMAIN mod' \subseteq DOMAIN mod /\ \A id \in DOMAIN mod' : mod'[id] = mod[id]
      /\ \A id \in DOMAIN mod \ DOMAIN mod' : id = m.client
      /\ m.client \notin DOMAIN mod' \/ m.clientTag \in orphans'
  <2>1. CASE mod' = Without(R)
    <3>1. DOMAIN mod' = DOMAIN mod \ R /\ \A id \in DOMAIN mod' : mod'[id] = mod[id]
      BY <2>1, WithoutLess
    <3>2. QED
      BY <1>2, <3>1
  <2>2. CASE mod' = mod /\ m.clientTag \in orphans'
    BY <2>2
  <2>3. QED
    BY <1>2, <2>1, <2>2
<1>4. Serves(asked, mod, line, 1, m.client, m.clientTag)
  BY <1>1, MatchFacts DEF Serving
<1>5. \A id \in DOMAIN mod \ DOMAIN mod' : mod[id].tag = m.clientTag
  BY <1>3, <1>4 DEF Serves
<1>6. \A i \in Live(table) : table[i].inc # m.clientTag
  BY <1>1, InvFacts, MatchFacts DEF Apart
<1>7. \A k \in 1 .. Len(line') : line'[k].t = "CLIENT" => line'[k].clientTag # m.clientTag
  <2> SUFFICES ASSUME NEW k \in 1 .. Len(line'), line'[k].t = "CLIENT", line'[k].clientTag = m.clientTag
               PROVE  FALSE
    OBVIOUS
  <2>1. k + 1 \in 1 .. Len(line) /\ line'[k] = line[k + 1] /\ k \in Nat /\ k >= 1
    BY <1>1 DEF Read
  <2>2. k + 1 = 1
    BY <1>1, <2>1, InvFacts, MatchFacts DEF Apart
  <2>3. QED
    BY <2>1, <2>2
<1>8. /\ \A a \in asked : a.kind = "create" => a.tag # m.clientTag
      /\ \A id \in DOMAIN mod : mod[id].tag = m.clientTag => id = m.client
  BY <1>1, InvFacts, MatchFacts DEF Once
<1>9. ~Missed(table', asked, mod', orphans', m)
  BY <1>3, <1>8 DEF Missed, Lost, Answers
<1>10. GivesUp(table, table', asked, mod, mod', line, line', orphans, orphans')
  BY <1>3, <1>5, <1>6, <1>7, <1>9 DEF GivesUp, GaveUp, Missed
<1>11. QED
  BY <1>1, <1>10, GiveUpMatched DEF SockInv

(* A client that was announced is taken into slot c.                          *)
LEMMA AcceptMatched ==
  ASSUME SockInv, Typed', line[1].t = "CLIENT", line # <<>>, Read(line, line'),
         UNCHANGED <<asked, mod, orphans>>,
         NEW l \in Live(table), table[l].inc = line[1].tag,
         NEW c \in Slots, c \notin Live(table), \A i \in Live(table) : table'[i] = table[i],
         Live(table') = Live(table) \union {c}, NEW e, table'[c] = e,
         e.type = "CONNECT", e.inc = line[1].clientTag, e.socket_id = line[1].client,
         line[1].client # 0, e.handler = "receive", e.tx_frame_id = 0
  PROVE  Matched(table', asked', mod', line', orphans')
<1> DEFINE m == line[1]
<1>1. /\ table \in [Slots -> Entry] /\ table' \in [Slots -> Entry]
      /\ line \in Seq(FrameType) /\ line' \in Seq(FrameType)
      /\ 1 \in 1 .. Len(line) /\ Len(line) \in Nat
  BY DEF SockInv, TableInv, Typed, TypeOK
<1>2. PICK O : O = orphans \union {m.clientTag}
  OBVIOUS
<1>3. Matched(table, asked, mod, line', O)
  <2>1. ~Missed(table, asked, mod, O, m)
    BY <1>2 DEF Missed, Lost, Answers
  <2>2. GivesUp(table, table, asked, mod, mod, line, line', orphans, O)
    BY <1>2, <2>1 DEF GivesUp, GaveUp, Missed
  <2>3. QED
    BY <1>1, <2>2, GiveUpMatched DEF SockInv
<1>4. /\ ByFid(table, asked, line') /\ Serving(table, asked, mod, line')
      /\ Agreed(table, mod, line') /\ Remembered(table, asked, mod, line', O)
  BY <1>3 DEF Matched
<1>5. \A i \in Live(table') : (i = c /\ table'[i] = e) \/ (i \in Live(table) /\ table'[i] = table[i])
  OBVIOUS
<1>6. \A k \in 1 .. Len(line') : k + 1 \in 1 .. Len(line) /\ line'[k] = line[k + 1]
  BY <1>1 DEF Read
<1>7. ByFid(table', asked, line')
  BY <1>4, <1>5 DEF ByFid
<1>8. Serves(asked, mod, line', 0, m.client, m.clientTag)
  <2>1. Serves(asked, mod, line, 1, m.client, m.clientTag)
    BY <1>1, MatchFacts DEF Serving
  <2>2. 0 = 1 - 1
    OBVIOUS
  <2>3. QED
    BY <1>1, <2>1, <2>2, ServesRead
<1>9. \A k \in 1 .. Len(line') : line'[k].t = "CLIENT" => line'[k].tag # m.clientTag
  BY <1>1, <1>6, MatchFacts DEF Agreed, Said
<1>10. Serving(table', asked, mod, line')
  BY <1>4, <1>5, <1>8, <1>9 DEF Serving
<1>11. /\ \A a \in asked : a.kind = "create" => a.tag # m.clientTag
       /\ \A id \in DOMAIN mod : mod[id].tag = m.clientTag => id = m.client
  BY <1>1, InvFacts, MatchFacts DEF Once
<1>12. Placed(table', asked, mod, orphans)
  BY <1>5, <1>11, MatchFacts DEF Placed
<1>13. AgreedOn(e, mod, line')
  <2>1. Unanswered(line, m.clientTag) /\ \A id \in DOMAIN mod : mod[id].tag = m.clientTag => mod[id].phase = "connected"
    BY <1>1, MatchFacts DEF Agreed, Said
  <2>2. Unanswered(line', m.clientTag)
    BY <1>6, <2>1 DEF Unanswered
  <2>3. Fits(e) /\ Settled(e) = "connected"
    BY DEF Fits, Settled
  <2>4. QED
    BY <2>1, <2>2, <2>3 DEF AgreedOn, Unanswered
<1>14. Agreed(table', mod, line')
  BY <1>4, <1>5, <1>13 DEF Agreed
<1>15. Remembered(table', asked, mod, line', orphans)
  <2> SUFFICES ASSUME NEW tag, tag \notin orphans,
                      \/ \E id \in DOMAIN mod : mod[id].tag = tag
                      \/ \E a \in asked : a.kind = "create" /\ a.tag = tag
               PROVE  \/ \E i \in Live(table') : table'[i].inc = tag
                      \/ \E k \in 1 .. Len(line') : line'[k].t = "CLIENT" /\ line'[k].clientTag = tag
    BY DEF Remembered
  <2>1. CASE tag = m.clientTag
    BY <2>1
  <2>2. CASE tag # m.clientTag
    <3>1. \/ \E i \in Live(table) : table[i].inc = tag
          \/ \E k \in 1 .. Len(line') : line'[k].t = "CLIENT" /\ line'[k].clientTag = tag
      BY <1>2, <1>4, <2>2 DEF Remembered
    <3>2. QED
      BY <3>1
  <2>3. QED
    BY <2>1, <2>2
<1>16. QED
  BY <1>7, <1>10, <1>12, <1>14, <1>15 DEF Matched

LEMMA MatchedHandleClient ==
  ASSUME SockInv, NEW act \in {"accept", "reject", "close"}, NEW ok \in BOOLEAN, HandleClient(act, ok), Typed'
  PROVE  Matched(table', asked', mod', line', orphans') /\ ~misled'
<1> DEFINE m == line[1]
<1>1. /\ Read(line, line') /\ asked' = asked /\ ClientDone(act, ok)
      /\ m \in FrameType /\ m.t = "CLIENT" /\ 1 \in 1 .. Len(line) /\ line # <<>>
  BY ClientDoes DEF SockInv, TableInv
<1>2. m.id # 0 /\ m.client # 0 /\ About(m, m.id)
  <2>1. m \in NewClient
    BY <1>1 DEF FrameType, CreateResp, AttachResp, Answered, News
  <2>2. QED
    BY <1>1, <2>1, SocketAssumption DEF NewClient, About
<1>3. /\ table \in [Slots -> Entry] /\ table' \in [Slots -> Entry]
  BY DEF SockInv, TableInv, Typed, TypeOK
<1>4. CASE orphans' = orphans \union {m.clientTag} /\ Ignored
  <2>1. ~Missed(table, asked, mod, orphans', m)
    BY <1>1, <1>4 DEF Missed, Lost, Answers
  <2>2. QED
    BY <1>1, <1>4, <2>1, ReadMatched, MatchFacts DEF Ignored
<1>5. ASSUME NEW l \in Slots, Owns(l, m.id), Tell(m, l)
      PROVE  ~misled' /\ l \in Live(table) /\ table[l].inc = m.tag
  <2>1. m.tag = table[l].inc
    BY <1>1, <1>2, <1>5, OwnFrame
  <2>2. QED
    BY <1>5, <2>1, MatchFacts DEF Tell, Live, Owns
<1>6. ASSUME NEW c \in Slots, table[c].type = "AVAILABLE"
      PROVE  ~table[c].xbee /\ c \notin Live(table) /\ table[c].tx_frame_id = 0
  BY <1>6, InvFacts, MatchFacts DEF Blank, Live
<1>7. ASSUME NEW l \in Slots, Owns(l, m.id), Tell(m, l),
             NEW c \in Slots, table[c].type = "AVAILABLE", table' = [table EXCEPT ![c] = Accepted(c, l, m)],
             UNCHANGED <<mod, orphans>>
      PROVE  Matched(table', asked', mod', line', orphans') /\ ~misled'
  <2>1. PICK tag, client : tag = m.clientTag /\ client = m.client
    OBVIOUS
  <2>2. PICK e : e = Accepted(c, l, m)
    OBVIOUS
  <2>3. /\ e.type = "CONNECT" /\ e.xbee /\ e.inc = tag /\ e.socket_id = client
        /\ e.handler = "receive" /\ e.tx_frame_id = table[c].tx_frame_id
    BY <1>3, <2>1, <2>2 DEF Accepted, Entry
  <2>4. table'[c] = e /\ \A j \in Slots : j # c => table'[j] = table[j]
    BY <1>3, <1>7, <2>2
  <2>5. c \notin Live(table) /\ e.tx_frame_id = 0
    BY <1>6, <1>7, <2>3
  <2>6. \A i \in Live(table) : table'[i] = table[i]
    BY <2>4, <2>5 DEF Live
  <2>7. Live(table') = Live(table) \union {c}
    BY <2>3, <2>4 DEF Live
  <2>8. l \in Live(table) /\ table[l].inc = m.tag /\ ~misled'
    BY <1>5, <1>7
  <2>9. /\ line[1].t = "CLIENT" /\ line # <<>> /\ Read(line, line') /\ UNCHANGED <<asked, mod, orphans>>
        /\ table[l].inc = line[1].tag /\ table'[c] = e
        /\ e.type = "CONNECT" /\ e.inc = line[1].clientTag /\ e.socket_id = line[1].client
        /\ line[1].client # 0 /\ e.handler = "receive" /\ e.tx_frame_id = 0
    BY <1>1, <1>2, <1>7, <2>1, <2>3, <2>4, <2>5, <2>8
  <2>10. Matched(table', asked', mod', line', orphans')
    BY <2>5, <2>6, <2>7, <2>8, <2>9, AcceptMatched
  <2>11. QED
    BY <2>8, <2>10
<1>8. ASSUME NEW l \in Slots, Owns(l, m.id), Tell(m, l),
             \/ table' = table
             \/ \E c \in Slots : \E e : /\ table[c].type = "AVAILABLE" /\ ~e.xbee
                                        /\ table' = [table EXCEPT ![c] = e],
             \/ mod' = Without({m.client}) /\ orphans' = orphans
             \/ mod' = mod /\ orphans' = orphans \union {m.clientTag}
      PROVE  Matched(table', asked', mod', line', orphans') /\ ~misled'
  <2>1. Live(table') = Live(table) /\ \A i \in Live(table) : table'[i] = table[i]
    <3>1. CASE table' = table
      BY <3>1
    <3>2. ASSUME NEW c \in Slots, NEW e, table[c].type = "AVAILABLE", ~e.xbee, table' = [table EXCEPT ![c] = e]
          PROVE  Live(table') = Live(table) /\ \A i \in Live(table) : table'[i] = table[i]
      <4>1. table'[c] = e /\ \A j \in Slots : j # c => table'[j] = table[j]
        BY <1>3, <3>2
      <4>2. QED
        BY <1>6, <3>2, <4>1 DEF Live
    <3>3. QED
      BY <1>8, <3>1, <3>2
  <2>2. l \in Live(table) /\ table[l].inc = m.tag /\ ~misled'
    BY <1>5, <1>8
  <2>3. /\ orphans \subseteq orphans'
        /\ mod' = Without({m.client}) \/ (mod' = mod /\ m.clientTag \in orphans')
    BY <1>8
  <2>4. QED
    BY <1>1, <2>1, <2>2, <2>3, RejectMatched
<1>9. QED
  <2>1. ~Free.xbee /\ ~[Free EXCEPT !.handler = "receive"].xbee
    BY FreeIsGone DEF Gone
  <2>2. CASE orphans' = orphans \union {m.clientTag} /\ Ignored
    BY <1>4, <2>2
  <2>3. CASE \E l \in Slots :
               /\ Owns(l, m.id) /\ Tell(m, l)
               /\ \E c \in Slots :
                    /\ table[c].type = "AVAILABLE"
                    /\ table' = [table EXCEPT ![c] = Accepted(c, l, m)]
                    /\ UNCHANGED <<mod, orphans>>
    BY <1>7, <2>3
  <2>4. CASE \E l \in Slots :
               /\ Owns(l, m.id) /\ Tell(m, l)
               /\ \/ table' = table
                  \/ \E c \in Slots, e \in {Free, [Free EXCEPT !.handler = "receive"]} :
                       /\ table[c].type = "AVAILABLE" /\ table' = [table EXCEPT ![c] = e]
               /\ \/ mod' = Without({m.client}) /\ orphans' = orphans
                  \/ mod' = mod /\ orphans' = orphans \union {m.clientTag}
    BY <1>8, <2>1, <2>4
  <2>5. QED
    BY <1>1, <2>2, <2>3, <2>4 DEF ClientDone

-----------------------------------------------------------------------------
(* Calls, and what the module says.                                           *)

Grows(L, L2, m) == L2 = L \/ Appended(L, L2, m)

LEMMA GrowsBy == ASSUME NEW L \in Seq(FrameType), NEW L2 \in Seq(FrameType), NEW m, Grows(L, L2, m)
  PROVE  /\ Len(L) \in Nat /\ Len(L2) \in Nat /\ Len(L) <= Len(L2)
         /\ \A k \in 1 .. Len(L) : k \in 1 .. Len(L2) /\ L2[k] = L[k]
         /\ \A k \in 1 .. Len(L2) : k \in 1 .. Len(L) \/ (L2 # L /\ k = Len(L) + 1 /\ L2[k] = m)
<1>1. Len(L) \in Nat /\ Len(L2) \in Nat
  OBVIOUS
<1>2. CASE L2 = L
  BY <1>1, <1>2
<1>3. CASE Appended(L, L2, m)
  BY <1>1, <1>3 DEF Appended
<1>4. QED
  BY <1>2, <1>3 DEF Grows

(* What served goes on serving, and the frame said finds who serves it.       *)
LEMMA ServingGrows ==
  ASSUME NEW T \in [Slots -> Entry], NEW A, NEW A2, NEW M, NEW M2,
         NEW L \in Seq(FrameType), NEW L2 \in Seq(FrameType), NEW m, Grows(L, L2, m),
         Serving(T, A, M, L), Said(M, L),
         \A j \in 0 .. Len(L) : \A id, t : id # 0 /\ Serves(A, M, L, j, id, t) => Serves(A2, M2, L2, j, id, t),
         L2 # L => \A i \in Live(T) :
           /\ m.t = "CREATE_RESP" /\ m.good /\ m.tag = T[i].inc /\ T[i].type = "PENDING" =>
                Serves(A2, M2, L2, Len(L) + 1, m.id, T[i].inc)
           /\ m.t = "CLIENT" /\ m.tag = T[i].inc => Serves(A2, M2, L2, Len(L) + 1, m.client, m.clientTag)
  PROVE  Serving(T, A2, M2, L2)
<1>1. /\ Len(L) \in Nat /\ Len(L2) \in Nat /\ Len(L) <= Len(L2)
      /\ \A k \in 1 .. Len(L2) : (k \in 1 .. Len(L) /\ L2[k] = L[k]) \/ (L2 # L /\ k = Len(L) + 1 /\ L2[k] = m)
  BY GrowsBy
<1>2. \A k \in 1 .. Len(L) : k \in 0 .. Len(L)
  BY <1>1
<1>3. ASSUME NEW i \in Live(T), T[i].socket_id # 0
      PROVE  Serves(A2, M2, L2, 0, T[i].socket_id, T[i].inc)
  <2>1. Serves(A, M, L, 0, T[i].socket_id, T[i].inc) /\ 0 \in 0 .. Len(L)
    BY <1>1, <1>3 DEF Serving
  <2>2. QED
    BY <1>3, <2>1
<1>4. ASSUME NEW i \in Live(T), NEW k \in 1 .. Len(L2),
             L2[k].t = "CREATE_RESP", L2[k].good, L2[k].tag = T[i].inc, T[i].type = "PENDING"
      PROVE  Serves(A2, M2, L2, k, L2[k].id, T[i].inc)
  <2>1. CASE k \in 1 .. Len(L) /\ L2[k] = L[k]
    <3>1. Serves(A, M, L, k, L[k].id, T[i].inc)
      BY <1>4, <2>1 DEF Serving
    <3>2. L[k].id # 0
      BY <1>4, <2>1 DEF Said
    <3>3. QED
      BY <1>2, <2>1, <3>1, <3>2
  <2>2. CASE L2 # L /\ k = Len(L) + 1 /\ L2[k] = m
    BY <1>4, <2>2
  <2>3. QED
    BY <1>1, <2>1, <2>2
<1>5. ASSUME NEW i \in Live(T), NEW k \in 1 .. Len(L2), L2[k].t = "CLIENT", L2[k].tag = T[i].inc
      PROVE  Serves(A2, M2, L2, k, L2[k].client, L2[k].clientTag)
  <2>1. CASE k \in 1 .. Len(L) /\ L2[k] = L[k]
    <3>1. Serves(A, M, L, k, L[k].client, L[k].clientTag)
      BY <1>5, <2>1 DEF Serving
    <3>2. L[k].client # 0
      <4>1. L[k] \in FrameType /\ L[k].t = "CLIENT"
        BY <1>5, <2>1
      <4>2. L[k] \in NewClient
        BY <4>1 DEF FrameType, CreateResp, AttachResp, Answered, News
      <4>3. QED
        BY <4>2, SocketAssumption DEF NewClient
    <3>3. QED
      BY <1>2, <2>1, <3>1, <3>2
  <2>2. CASE L2 # L /\ k = Len(L) + 1 /\ L2[k] = m
    BY <1>5, <2>2
  <2>3. QED
    BY <1>1, <2>1, <2>2
<1>6. QED
  BY <1>3, <1>4, <1>5 DEF Serving

LEMMA AgreedGrows ==
  ASSUME NEW s, NEW M, NEW M2, NEW L \in Seq(FrameType), NEW L2 \in Seq(FrameType), NEW m,
         Grows(L, L2, m), AgreedOn(s, M, L), ~Answers(m, s.inc),
         \A id \in DOMAIN M2 : M2[id].tag = s.inc =>
           id \in DOMAIN M /\ M[id].tag = s.inc /\ M2[id].phase = M[id].phase
  PROVE  AgreedOn(s, M2, L2)
<1>1. /\ \A k \in 1 .. Len(L) : k \in 1 .. Len(L2) /\ L2[k] = L[k]
      /\ \A k \in 1 .. Len(L2) : (k \in 1 .. Len(L) /\ L2[k] = L[k]) \/ L2[k] = m
  BY GrowsBy
<1>2. Unanswered(L2, s.inc) => Unanswered(L, s.inc)
  BY <1>1 DEF Unanswered
<1>3. ASSUME NEW k \in 1 .. Len(L2), Answers(L2[k], s.inc)
      PROVE  /\ Awaited(s, L2[k])
             /\ \A id \in DOMAIN M2 : M2[id].tag = s.inc => M2[id].phase = Outcome(L2[k])
             /\ \A j \in 1 .. Len(L2) : Answers(L2[j], s.inc) => j = k
  <2>1. k \in 1 .. Len(L) /\ L2[k] = L[k]
    BY <1>1, <1>3
  <2>2. /\ Awaited(s, L[k])
        /\ \A id \in DOMAIN M : M[id].tag = s.inc => M[id].phase = Outcome(L[k])
        /\ \A j \in 1 .. Len(L) : Answers(L[j], s.inc) => j = k
    BY <1>3, <2>1 DEF AgreedOn
  <2>3. \A j \in 1 .. Len(L2) : Answers(L2[j], s.inc) => j \in 1 .. Len(L) /\ Answers(L[j], s.inc)
    BY <1>1
  <2>4. QED
    BY <2>1, <2>2, <2>3
<1>4. QED
  BY <1>2, <1>3 DEF AgreedOn

LEMMA SaidGrows ==
  ASSUME NEW M, NEW M2, NEW L \in Seq(FrameType), NEW L2 \in Seq(FrameType), NEW m,
         Grows(L, L2, m), Said(M, L),
         m.t = "CREATE_RESP" => (m.good <=> m.id # 0),
         m.t = "ATTACH_RESP" /\ m.id = 0 => ~m.good,
         \A k \in 1 .. Len(L) : L[k].t = "CLIENT" =>
           /\ ~Answers(m, L[k].clientTag)
           /\ m.t = "CLIENT" => m.tag # L[k].clientTag /\ L[k].tag # m.clientTag
           /\ \A id \in DOMAIN M2 : M2[id].tag = L[k].clientTag =>
                id \in DOMAIN M /\ M[id].tag = L[k].clientTag /\ M2[id].phase = M[id].phase,
         m.t = "CLIENT" => /\ Unanswered(L, m.clientTag) /\ m.tag # m.clientTag
                           /\ \A id \in DOMAIN M2 : M2[id].tag = m.clientTag => M2[id].phase = "connected"
  PROVE  Said(M2, L2)
<1>1. \A k \in 1 .. Len(L2) : (k \in 1 .. Len(L) /\ L2[k] = L[k]) \/ L2[k] = m
  BY GrowsBy
<1>2. \A tag : Unanswered(L, tag) /\ ~Answers(m, tag) => Unanswered(L2, tag)
  BY <1>1 DEF Unanswered
<1>3. ASSUME NEW k \in 1 .. Len(L2)
      PROVE  /\ L2[k].t = "CREATE_RESP" => (L2[k].good <=> L2[k].id # 0)
             /\ L2[k].t = "ATTACH_RESP" /\ L2[k].id = 0 => ~L2[k].good
  BY <1>1 DEF Said
<1>4. ASSUME NEW k \in 1 .. Len(L2), L2[k].t = "CLIENT"
      PROVE  /\ Unanswered(L2, L2[k].clientTag)
             /\ \A id \in DOMAIN M2 : M2[id].tag = L2[k].clientTag => M2[id].phase = "connected"
             /\ \A j \in 1 .. Len(L2) : L2[j].t = "CLIENT" => L2[j].tag # L2[k].clientTag
  <2>1. CASE k \in 1 .. Len(L) /\ L2[k] = L[k]
    <3>1. Unanswered(L2, L[k].clientTag)
      BY <1>2, <1>4, <2>1 DEF Said
    <3>2. \A id \in DOMAIN M2 : M2[id].tag = L[k].clientTag => M2[id].phase = "connected"
      BY <1>4, <2>1 DEF Said
    <3>3. \A j \in 1 .. Len(L2) : L2[j].t = "CLIENT" => L2[j].tag # L[k].clientTag
      BY <1>1, <1>4, <2>1 DEF Said
    <3>4. QED
      BY <2>1, <3>1, <3>2, <3>3
  <2>2. CASE L2[k] = m
    <3>1. Unanswered(L2, m.clientTag)
      BY <1>2, <1>4, <2>2 DEF Answers
    <3>2. \A j \in 1 .. Len(L2) : L2[j].t = "CLIENT" => L2[j].tag # m.clientTag
      BY <1>1, <1>4, <2>2
    <3>3. QED
      BY <1>4, <2>2, <3>1, <3>2
  <2>3. QED
    BY <1>1, <2>1, <2>2
<1>5. QED
  BY <1>3, <1>4 DEF Said

LEMMA NextIsNew == ASSUME Typed, frame_id' = NextFrameId, FreshIds
                   PROVE  NextFrameId \in Fid /\ NextFrameId # 0 /\ NextFrameId \notin Outstanding(asked, line)
<1>1. NextFrameId # frame_id
  BY SocketAssumption DEF NextFrameId, Typed, TypeOK
<1>2. NextFrameId \in Fid
  BY NextIsFid DEF Typed, TypeOK
<1>3. QED
  BY <1>1, <1>2 DEF FreshIds, Fid

LEMMA NotOutstanding == ASSUME NEW A, NEW L, NEW n, n \notin Outstanding(A, L)
  PROVE  /\ \A a \in A : a.kind \in {"create", "send"} => a.fid # n
         /\ \A k \in 1 .. Len(L) : L[k].t \in {"CREATE_RESP", "TX_STATUS"} => L[k].fid # n
  BY DEF Outstanding

(* Frame IDs of another frame of the host.                                    *)
LEMMA ByFidAsks ==
  ASSUME NEW T \in [Slots -> Entry], NEW A, NEW L, NEW b, ByFid(T, A, L),
         b.kind \in {"create", "send"} => b.fid \notin Outstanding(A, L),
         b.kind = "create" => \A i \in Live(T) : b.tag # T[i].inc
  PROVE  ByFid(T, A \union {b}, L)
<1>1. ASSUME NEW i \in Live(T), T[i].type = "PENDING"
      PROVE  CreateOwn(A \union {b}, L, T[i].create_frame_id, T[i].inc)
  <2>1. CreateOwn(A, L, T[i].create_frame_id, T[i].inc)
    BY <1>1 DEF ByFid
  <2>2. b.kind = "create" => b.fid # T[i].create_frame_id
    BY <2>1, NotOutstanding DEF CreateOwn
  <2>3. QED
    BY <2>1, <2>2 DEF CreateOwn
<1>2. ASSUME NEW i \in Live(T), T[i].tx_frame_id # 0
      PROVE  SendOwn(A \union {b}, L, T[i].tx_frame_id, T[i].inc)
  <2>1. SendOwn(A, L, T[i].tx_frame_id, T[i].inc)
    BY <1>2 DEF ByFid
  <2>2. b.kind = "send" => b.fid # T[i].tx_frame_id
    BY <2>1, NotOutstanding DEF SendOwn
  <2>3. QED
    BY <2>1, <2>2 DEF SendOwn
<1>3. QED
  BY <1>1, <1>2 DEF ByFid

LEMMA SameLive ==
  ASSUME SockInv, Typed', UNCHANGED <<asked, mod, line, orphans>>,
         Live(table') = Live(table), \A i \in Live(table) : table'[i] = table[i]
  PROVE  Matched(table', asked', mod', line', orphans')
<1>1. /\ table \in [Slots -> Entry] /\ table' \in [Slots -> Entry] /\ line \in Seq(FrameType)
  BY DEF SockInv, TableInv, Typed, TypeOK
<1>2. GivesUp(table, table', asked, mod, mod, line, line, orphans, orphans)
  BY DEF GivesUp, GaveUp
<1>3. QED
  BY <1>1, <1>2, GiveUpMatched DEF SockInv

LEMMA MatchedCreate ==
  ASSUME SockInv, NEW p \in Protocol, NEW ok \in BOOLEAN, Create(p, ok), Typed', FreshIds
  PROVE  Matched(table', asked', mod', line', orphans')
<1>1. PICK i : i = FreeSlot
  OBVIOUS
<1>2. i \in Slots /\ table[i].type = "AVAILABLE"
  BY <1>1, FreeFound DEF Create
<1>3. /\ table[i].type = "AVAILABLE" /\ ~table[i].xbee /\ table[i].tx_frame_id = 0 /\ table[i].socket_id = 0
      /\ i \notin Live(table)
  BY <1>2, InvFacts, MatchFacts DEF Blank, Live
<1>4. UNCHANGED <<mod, line, orphans>> /\ frame_id' = NextFrameId
  BY DEF Create
<1>5. table \in [Slots -> Entry] /\ table' \in [Slots -> Entry] /\ line \in Seq(FrameType) /\ incs \in Nat
  BY DEF SockInv, TableInv, Typed, TypeOK
<1>6. CASE ~ok
  <2>1. table' = [table EXCEPT ![i] = Free] /\ asked' = asked
    BY <1>1, <1>6 DEF Create
  <2>2. Live(table') = Live(table) /\ \A j \in Live(table) : table'[j] = table[j]
    BY <1>2, <1>3, <1>5, <2>1, FreeIsGone DEF Live, Gone
  <2>3. QED
    BY <1>4, <2>1, <2>2, SameLive
<1>7. CASE ok
  <2>1. PICK n, c : n = NextFrameId /\ c = incs + 1
    OBVIOUS
  <2>2. n \notin Outstanding(asked, line)
    BY <1>4, <2>1, NextIsNew, InvFacts, MatchFacts DEF TableInv
  <2>3. PICK e : e = [table[i] EXCEPT !.type = "PENDING", !.xbee = TRUE, !.protocol = p,
                                      !.create_frame_id = n, !.inc = c]
    OBVIOUS
  <2>4. /\ e.type = "PENDING" /\ e.xbee /\ e.create_frame_id = n /\ e.inc = c
        /\ e.tx_frame_id = 0 /\ e.socket_id = 0
    BY <1>2, <1>3, <1>5, <2>3 DEF Entry
  <2>5. PICK b : b = [kind |-> "create", fid |-> n, id |-> 0, tag |-> c]
    OBVIOUS
  <2>6. b.kind = "create" /\ b.fid = n /\ b.tag = c
    BY <2>5
  <2>7. table' = [table EXCEPT ![i] = e]
    BY <1>1, <1>7, <2>1, <2>3 DEF Create
  <2>8. asked' = asked \union {b}
    BY <1>7, <2>1, <2>5 DEF Create
  <2>9. \A j \in Live(table') : (j = i /\ table'[j] = e) \/ (j # i /\ j \in Live(table) /\ table'[j] = table[j])
    BY <1>5, <2>7 DEF Live
  <2>10. table'[i] = e /\ i \in Live(table') /\ \A j \in Live(table) : j \in Live(table') /\ table'[j] = table[j]
    BY <1>2, <1>3, <1>5, <2>4, <2>7 DEF Live
  <2>11. /\ \A j \in Live(table) : table[j].inc # c
         /\ \A a \in asked : a.tag # c
         /\ \A id \in DOMAIN mod : mod[id].tag # c
         /\ \A k \in 1 .. Len(line) : line[k].tag # c
    <3>1. Below(table, asked, mod, line, incs)
      BY InvFacts, MatchFacts
    <3>2. \A x \in Nat : x <= incs => x # c
      BY <1>5, <2>1
    <3>3. /\ \A j \in Slots : table[j].inc \in Nat
          /\ \A a \in asked : a.tag \in Nat
          /\ \A id \in DOMAIN mod : mod[id].tag \in Nat
          /\ \A k \in 1 .. Len(line) : line[k].tag \in Nat
      BY LineType, FrameFields DEF SockInv, TableInv, Typed, TypeOK, Request, Entry
    <3>4. QED
      BY <3>1, <3>2, <3>3 DEF Below, Live
  <2>12. ByFid(table', asked', line)
    <3>1. ByFid(table, asked', line)
      BY <1>5, <2>2, <2>6, <2>8, <2>11, ByFidAsks, MatchFacts
    <3>2. CreateOwn(asked', line, n, c)
      <4>1. \A a \in asked' : a.kind = "create" => (a.fid = n <=> a.tag = c)
        BY <2>2, <2>6, <2>8, <2>11, NotOutstanding
      <4>2. \A k \in 1 .. Len(line) : line[k].t = "CREATE_RESP" => (line[k].fid = n <=> line[k].tag = c)
        BY <2>2, <2>11, NotOutstanding
      <4>3. QED
        BY <2>6, <2>8, <4>1, <4>2 DEF CreateOwn
    <3>3. QED
      BY <2>4, <2>9, <3>1, <3>2 DEF ByFid
  <2>13. Serving(table', asked', mod, line)
    <3>1. \A j, id, t : Serves(asked, mod, line, j, id, t) => Serves(asked', mod, line, j, id, t)
      BY <2>6, <2>8 DEF Serves
    <3>2. QED
      BY <2>4, <2>9, <2>11, <3>1, MatchFacts DEF Serving
  <2>14. Placed(table', asked', mod, orphans)
    BY <2>4, <2>6, <2>8, <2>9, <2>11, MatchFacts DEF Placed
  <2>15. Agreed(table', mod, line)
    <3>1. AgreedOn(e, mod, line)
      BY <2>4, <2>11 DEF AgreedOn, Fits, Answers
    <3>2. QED
      BY <2>9, <3>1, MatchFacts DEF Agreed
  <2>16. Remembered(table', asked', mod, line, orphans)
    BY <2>4, <2>6, <2>8, <2>10, MatchFacts DEF Remembered
  <2>17. QED
    BY <1>4, <2>12, <2>13, <2>14, <2>15, <2>16 DEF Matched
<1>8. QED
  BY <1>6, <1>7

LEMMA MatchedSend ==
  ASSUME SockInv, NEW x \in held, NEW ok \in BOOLEAN, Send(x, ok), Typed', FreshIds
  PROVE  Matched(table', asked', mod', line', orphans')
<1>1. PICK i : i = Lookup(x.h)
  OBVIOUS
<1>2. i \in Slots /\ table[i].xbee /\ table[i].type \in {"CONNECT", "BIND"}
  BY <1>1, HeldEntry, MatchFacts DEF Send
<1>3. UNCHANGED <<mod, line, orphans>> /\ frame_id' = NextFrameId
  BY DEF Send
<1>4. table \in [Slots -> Entry] /\ table' \in [Slots -> Entry] /\ line \in Seq(FrameType)
  BY DEF SockInv, TableInv, Typed, TypeOK
<1>5. CASE ~ok
  BY <1>3, <1>5, MatchedSame DEF Send
<1>6. CASE ok
  <2>1. PICK n : n = NextFrameId
    OBVIOUS
  <2>2. n # 0 /\ n \notin Outstanding(asked, line)
    BY <1>3, <2>1, NextIsNew, InvFacts, MatchFacts DEF TableInv
  <2>3. PICK b : b = [kind |-> "send", fid |-> n, id |-> table[i].socket_id, tag |-> table[i].inc]
    OBVIOUS
  <2>4. b.kind = "send" /\ b.fid = n /\ b.tag = table[i].inc
    BY <2>3
  <2>5. asked' = asked \union {b}
    BY <1>1, <1>6, <2>1, <2>3 DEF Send
  <2>6. PICK e : e = [table[i] EXCEPT !.tx_frame_id = n]
    OBVIOUS
  <2>7. /\ e.type = table[i].type /\ e.inc = table[i].inc /\ e.socket_id = table[i].socket_id
        /\ e.handler = table[i].handler /\ e.protocol = table[i].protocol
        /\ e.create_frame_id = table[i].create_frame_id /\ e.xbee = table[i].xbee
        /\ e.tx_frame_id = n
    BY <1>2, <1>4, <2>6 DEF Entry
  <2>8. table' = [table EXCEPT ![i] = e]
    BY <1>1, <1>2, <1>4, <1>6, <2>1, <2>6 DEF Send
  <2>9. table'[i] = e /\ \A j \in Slots : j # i => table'[j] = table[j]
    BY <1>2, <1>4, <2>8
  <2>10. Matched(table, asked', mod, line, orphans)
    <3>1. ByFid(table, asked', line)
      BY <1>4, <2>2, <2>4, <2>5, ByFidAsks, MatchFacts
    <3>2. \A j, id, t : Serves(asked, mod, line, j, id, t) => Serves(asked', mod, line, j, id, t)
      BY <2>4, <2>5 DEF Serves
    <3>3. Serving(table, asked', mod, line)
      BY <3>2, MatchFacts DEF Serving
    <3>4. Placed(table, asked', mod, orphans)
      BY <2>4, <2>5, MatchFacts DEF Placed
    <3>5. Remembered(table, asked', mod, line, orphans)
      BY <2>4, <2>5, MatchFacts DEF Remembered
    <3>6. QED
      BY <3>1, <3>3, <3>4, <3>5, MatchFacts DEF Matched
  <2>11. SendOwn(asked', line, n, table[i].inc)
    BY <2>2, <2>4, <2>5, NotOutstanding DEF SendOwn
  <2>12. SameView(table, table', asked', line)
    BY <1>2, <2>7, <2>9, <2>11 DEF SameView, Live
  <2>13. QED
    BY <1>3, <1>4, <2>10, <2>12, ViewMatched
<1>7. QED
  BY <1>5, <1>6

LEMMA MatchedOption ==
  ASSUME SockInv, NEW x \in held, NEW callback \in BOOLEAN, NEW ok \in BOOLEAN, Option(x, callback, ok), Typed'
  PROVE  Matched(table', asked', mod', line', orphans')
<1>1. PICK i : i = Lookup(x.h)
  OBVIOUS
<1>2. i \in Slots /\ table[i].xbee /\ i \in Live(table)
  BY <1>1, HeldEntry, MatchFacts DEF Live
<1>3. UNCHANGED <<mod, line, orphans>>
  BY DEF Option
<1>4. table \in [Slots -> Entry] /\ table' \in [Slots -> Entry] /\ line \in Seq(FrameType)
  BY DEF SockInv, TableInv, Typed, TypeOK
<1>5. CASE ~ok
  BY <1>3, <1>5, MatchedSame DEF Option
<1>6. CASE ok
  <2>1. PICK b : b = [kind |-> "option", fid |-> NextFrameId, id |-> table[i].socket_id, tag |-> table[i].inc]
    OBVIOUS
  <2>2. b.kind = "option" /\ b.id = table[i].socket_id /\ b.tag = table[i].inc
    BY <2>1
  <2>3. asked' = asked \/ asked' = asked \union {b}
    BY <1>1, <1>6, <2>1 DEF Option
  <2>4. PICK e : e = [table[i] EXCEPT !.option = callback]
    OBVIOUS
  <2>5. /\ e.type = table[i].type /\ e.inc = table[i].inc /\ e.socket_id = table[i].socket_id
        /\ e.handler = table[i].handler /\ e.protocol = table[i].protocol
        /\ e.create_frame_id = table[i].create_frame_id /\ e.xbee = table[i].xbee
        /\ e.tx_frame_id = table[i].tx_frame_id
    BY <1>2, <1>4, <2>4 DEF Entry
  <2>6. table' = [table EXCEPT ![i] = e]
    BY <1>1, <1>2, <1>4, <1>6, <2>4 DEF Option
  <2>7. table'[i] = e /\ \A j \in Slots : j # i => table'[j] = table[j]
    BY <1>2, <1>4, <2>6
  <2>8. Matched(table, asked', mod, line, orphans)
    <3>1. CASE asked' = asked
      BY <3>1 DEF SockInv
    <3>2. CASE asked' = asked \union {b}
      <4>1. ByFid(table, asked', line)
        BY <1>4, <2>2, <3>2, ByFidAsks, MatchFacts
      <4>2. ASSUME NEW j \in 0 .. Len(line), NEW id, NEW t, id # 0, Serves(asked, mod, line, j, id, t)
            PROVE  Serves(asked', mod, line, j, id, t)
        <5>1. id = table[i].socket_id => table[i].inc = t
          <6> SUFFICES ASSUME id = table[i].socket_id PROVE table[i].inc = t
            OBVIOUS
          <6>1. Serves(asked, mod, line, 0, id, table[i].inc)
            BY <1>2, <4>2, OwnerServes
          <6>2. j \in Nat /\ 0 \in Nat
            BY <1>4
          <6>3. QED
            BY <1>4, <4>2, <6>1, <6>2, ServesOne
        <5>2. \A a \in asked' : a.kind = "option" /\ a.id = id => a.tag = t
          BY <2>2, <3>2, <4>2, <5>1 DEF Serves
        <5>3. QED
          BY <4>2, <5>2 DEF Serves
      <4>3. Serving(table, asked', mod, line)
        <5>1. PICK m : TRUE
          OBVIOUS
        <5>2. Grows(line, line, m) /\ Said(mod, line)
          BY MatchFacts DEF Grows, Agreed
        <5>3. QED
          BY <1>4, <4>2, <5>2, ServingGrows, MatchFacts
      <4>4. Placed(table, asked', mod, orphans)
        BY <2>2, <3>2, MatchFacts DEF Placed
      <4>5. Remembered(table, asked', mod, line, orphans)
        BY <2>2, <3>2, MatchFacts DEF Remembered
      <4>6. QED
        BY <4>1, <4>3, <4>4, <4>5, MatchFacts DEF Matched
    <3>3. QED
      BY <2>3, <3>1, <3>2
  <2>9. SameView(table, table', asked', line)
    BY <2>5, <2>7 DEF SameView, Live
  <2>10. QED
    BY <1>3, <1>4, <2>8, <2>9, ViewMatched
<1>7. QED
  BY <1>5, <1>6

(* A frame that brings back no frame ID is said.                              *)
LEMMA ByFidSays ==
  ASSUME NEW T \in [Slots -> Entry], NEW A, NEW L \in Seq(FrameType), NEW L2 \in Seq(FrameType), NEW m,
         Appended(L, L2, m), m.t \notin {"CREATE_RESP", "TX_STATUS"}, ByFid(T, A, L)
  PROVE  ByFid(T, A, L2)
<1>1. /\ \A k \in 1 .. Len(L) : k \in 1 .. Len(L2) /\ L2[k] = L[k]
      /\ \A k \in 1 .. Len(L2) : (k \in 1 .. Len(L) /\ L2[k] = L[k]) \/ L2[k] = m
  BY GrowsBy DEF Grows
<1>2. \A fid, tag : CreateOwn(A, L, fid, tag) => CreateOwn(A, L2, fid, tag)
  BY <1>1 DEF CreateOwn
<1>3. \A fid, tag : SendOwn(A, L, fid, tag) => SendOwn(A, L2, fid, tag)
  BY <1>1 DEF SendOwn
<1>4. QED
  BY <1>2, <1>3 DEF ByFid

(* The module says what becomes of a socket.                                  *)
LEMMA SaysRest ==
  ASSUME SockInv, Typed', NEW m, Appended(line, line', m), m.t \notin {"CREATE_RESP", "CLIENT"},
         UNCHANGED <<table, orphans>>, ByFid(table, asked', line'),
         asked' \subseteq asked, \A a \in asked \ asked' : a.kind # "create",
         DOMAIN mod' \subseteq DOMAIN mod, \A id \in DOMAIN mod' : mod'[id].tag = mod[id].tag,
         \A id \in DOMAIN mod \ DOMAIN mod' : m.t = "STATE" /\ m.id = id,
         \A j \in 0 .. Len(line) : \A id, t :
           id # 0 /\ Serves(asked, mod, line, j, id, t) /\ About(m, id) => m.tag = t,
         Agreed(table, mod', line')
  PROVE  Matched(table', asked', mod', line', orphans')
<1>1. table \in [Slots -> Entry] /\ line \in Seq(FrameType) /\ line' \in Seq(FrameType)
  BY DEF SockInv, TableInv, Typed, TypeOK
<1>2. /\ line' # line /\ Grows(line, line', m)
      /\ \A k \in 1 .. Len(line) : k \in 1 .. Len(line') /\ line'[k] = line[k]
  BY <1>1, GrowsBy DEF Grows, Appended
<1>3. ASSUME NEW j \in 0 .. Len(line), NEW id, NEW t, id # 0, Serves(asked, mod, line, j, id, t)
      PROVE  Serves(asked', mod', line', j, id, t)
  <2>1. About(m, id) => m.tag = t
    BY <1>3
  <2>2. \A a \in asked' : a.kind = "option" /\ a.id = id => a.tag = t
    BY <1>3 DEF Serves
  <2>3. id \in DOMAIN mod' => mod'[id].tag = t
    BY <1>3 DEF Serves
  <2>4. id \in DOMAIN mod => id \in DOMAIN mod' \/ (m.t = "STATE" /\ m.id = id)
    OBVIOUS
  <2>5. QED
    BY <1>1, <1>2, <1>3, <2>1, <2>2, <2>3, <2>4, ServesAppended
<1>4. Serving(table, asked', mod', line')
  BY <1>1, <1>2, <1>3, ServingGrows, MatchFacts DEF Agreed
<1>5. Placed(table, asked', mod', orphans)
  BY MatchFacts DEF Placed
<1>6. Remembered(table, asked', mod', line', orphans)
  <2>1. \A id \in DOMAIN mod' : id \in DOMAIN mod /\ mod'[id].tag = mod[id].tag
    OBVIOUS
  <2>2. QED
    BY <1>2, <2>1, MatchFacts DEF Remembered
<1>7. QED
  BY <1>4, <1>5, <1>6 DEF Matched

(* ... and nothing of what entry and module make of it changes.               *)
LEMMA SaysMatched ==
  ASSUME SockInv, Typed', NEW m, Appended(line, line', m),
         m.t \notin {"CREATE_RESP", "CLIENT", "ATTACH_RESP"},
         UNCHANGED <<table, orphans>>, ByFid(table, asked', line'),
         asked' \subseteq asked, \A a \in asked \ asked' : a.kind # "create",
         DOMAIN mod' \subseteq DOMAIN mod, \A id \in DOMAIN mod' : mod'[id] = mod[id],
         \A id \in DOMAIN mod \ DOMAIN mod' : m.t = "STATE" /\ m.id = id,
         \A j \in 0 .. Len(line) : \A id, t :
           id # 0 /\ Serves(asked, mod, line, j, id, t) /\ About(m, id) => m.tag = t
  PROVE  Matched(table', asked', mod', line', orphans')
<1>1. line \in Seq(FrameType) /\ line' \in Seq(FrameType) /\ Grows(line, line', m)
  BY DEF SockInv, TableInv, Typed, TypeOK, Grows
<1>2. \A tag : ~Answers(m, tag)
  BY DEF Answers
<1>3. Said(mod', line')
  <2>1. \A id \in DOMAIN mod' : \A tag : mod'[id].tag = tag =>
          id \in DOMAIN mod /\ mod[id].tag = tag /\ mod'[id].phase = mod[id].phase
    OBVIOUS
  <2>2. Said(mod, line)
    BY MatchFacts DEF Agreed
  <2>3. \A k \in 1 .. Len(line) : line[k].t = "CLIENT" =>
          /\ ~Answers(m, line[k].clientTag)
          /\ m.t = "CLIENT" => m.tag # line[k].clientTag /\ line[k].tag # m.clientTag
          /\ \A id \in DOMAIN mod' : mod'[id].tag = line[k].clientTag =>
               id \in DOMAIN mod /\ mod[id].tag = line[k].clientTag /\ mod'[id].phase = mod[id].phase
    BY <1>2, <2>1
  <2>4. m.t # "CREATE_RESP" /\ m.t # "ATTACH_RESP" /\ m.t # "CLIENT"
    OBVIOUS
  <2>5. QED
    BY <1>1, <2>2, <2>3, <2>4, SaidGrows
<1>4. ASSUME NEW i \in Live(table) PROVE AgreedOn(table[i], mod', line')
  <2>1. AgreedOn(table[i], mod, line)
    BY MatchFacts DEF Agreed
  <2>2. QED
    BY <1>1, <1>2, <2>1, AgreedGrows
<1>5. Agreed(table, mod', line')
  BY <1>3, <1>4 DEF Agreed
<1>6. QED
  BY <1>5, SaysRest

LEMMA MatchedModState ==
  ASSUME SockInv, NEW id \in DOMAIN mod, ModState(id), Typed'
  PROVE  Matched(table', asked', mod', line', orphans')
<1>1. PICK m : m = StateNews(id)
  OBVIOUS
<1>2. m.t = "STATE" /\ m.id = id /\ m.tag = mod[id].tag
  BY <1>1 DEF StateNews
<1>3. Appended(line, line', m) /\ UNCHANGED <<table, asked, orphans>> /\ mod' = Without({id})
  BY <1>1, TypedModState DEF ModState, SockInv, TableInv
<1>4. PICK R : R = {id}
  OBVIOUS
<1>5. /\ DOMAIN mod' \subseteq DOMAIN mod /\ \A j \in DOMAIN mod' : mod'[j] = mod[j]
      /\ \A j \in DOMAIN mod \ DOMAIN mod' : m.t = "STATE" /\ m.id = j
  <2>1. mod' = Without(R)
    BY <1>3, <1>4
  <2>2. DOMAIN mod' = DOMAIN mod \ R /\ \A j \in DOMAIN mod' : mod'[j] = mod[j]
    BY <2>1, NowWithout
  <2>3. QED
    BY <1>2, <1>4, <2>2
<1>6. ByFid(table, asked', line')
  BY <1>2, <1>3, ByFidSays, MatchFacts DEF SockInv, TableInv, Typed, TypeOK
<1>7. \A j \in 0 .. Len(line) : \A n, t : n # 0 /\ Serves(asked, mod, line, j, n, t) /\ About(m, n) => m.tag = t
  BY <1>2 DEF Serves, About
<1>8. QED
  BY <1>2, <1>3, <1>5, <1>6, <1>7, SaysMatched

LEMMA MatchedModReceive ==
  ASSUME SockInv, NEW id \in DOMAIN mod, ModReceive(id), Typed'
  PROVE  Matched(table', asked', mod', line', orphans')
<1>1. PICK m : m = DataNews(id)
  OBVIOUS
<1>2. m.t \in {"RECEIVE", "RECEIVE_FROM"} /\ m.id = id /\ m.tag = mod[id].tag
  BY <1>1 DEF DataNews
<1>3. Appended(line, line', m) /\ UNCHANGED <<table, asked, mod, orphans>>
  BY <1>1, TypedModReceive DEF ModReceive, SockInv, TableInv
<1>4. ByFid(table, asked', line')
  BY <1>2, <1>3, ByFidSays, MatchFacts DEF SockInv, TableInv, Typed, TypeOK
<1>5. \A j \in 0 .. Len(line) : \A n, t : n # 0 /\ Serves(asked, mod, line, j, n, t) /\ About(m, n) => m.tag = t
  BY <1>2 DEF Serves, About
<1>6. QED
  BY <1>2, <1>3, <1>4, <1>5, SaysMatched

LEMMA MatchedModAnswer ==
  ASSUME SockInv, NEW a \in asked, ModAnswer(a), Typed'
  PROVE  Matched(table', asked', mod', line', orphans')
<1>1. PICK m : m = ModAnswerFrame(a)
  OBVIOUS
<1>2. /\ a.kind \in {"send", "option"}
      /\ m.t = IF a.kind = "send" THEN "TX_STATUS" ELSE "OPTION_RESP"
      /\ m.fid = a.fid /\ m.id = a.id /\ m.tag = a.tag
  BY <1>1 DEF ModAnswerFrame, ModAnswer
<1>3. Appended(line, line', m) /\ UNCHANGED <<table, mod, orphans>> /\ asked' = asked \ {a}
  BY <1>1, TypedModAnswer DEF ModAnswer, SockInv, TableInv
<1>4. /\ line \in Seq(FrameType) /\ line' \in Seq(FrameType) /\ table \in [Slots -> Entry]
  BY DEF SockInv, TableInv, Typed, TypeOK
<1>5. /\ \A k \in 1 .. Len(line) : k \in 1 .. Len(line') /\ line'[k] = line[k]
      /\ \A k \in 1 .. Len(line') : (k \in 1 .. Len(line) /\ line'[k] = line[k]) \/ line'[k] = m
      /\ Len(line) + 1 \in 1 .. Len(line') /\ line'[Len(line) + 1] = m
  BY <1>3, <1>4, GrowsBy DEF Grows, Appended
<1>6. ByFid(table, asked', line')
  <2>1. ASSUME NEW i \in Live(table), table[i].type = "PENDING"
        PROVE  CreateOwn(asked', line', table[i].create_frame_id, table[i].inc)
    <3>1. CreateOwn(asked, line, table[i].create_frame_id, table[i].inc)
      BY <2>1, MatchFacts DEF ByFid
    <3>2. QED
      BY <1>2, <1>3, <1>5, <3>1 DEF CreateOwn
  <2>2. ASSUME NEW i \in Live(table), table[i].tx_frame_id # 0
        PROVE  SendOwn(asked', line', table[i].tx_frame_id, table[i].inc)
    <3>1. SendOwn(asked, line, table[i].tx_frame_id, table[i].inc)
      BY <2>2, MatchFacts DEF ByFid
    <3>2. \A k \in 1 .. Len(line') : line'[k].t = "TX_STATUS" /\ line'[k].fid = table[i].tx_frame_id =>
            line'[k].tag = table[i].inc
      BY <1>2, <1>5, <3>1 DEF SendOwn
    <3>3. \/ \E b \in asked' : b.kind = "send" /\ b.fid = table[i].tx_frame_id
          \/ \E k \in 1 .. Len(line') : line'[k].t = "TX_STATUS" /\ line'[k].fid = table[i].tx_frame_id
      <4>1. CASE \E k \in 1 .. Len(line) : line[k].t = "TX_STATUS" /\ line[k].fid = table[i].tx_frame_id
        BY <1>5, <4>1
      <4>2. ASSUME NEW b \in asked, b.kind = "send", b.fid = table[i].tx_frame_id
            PROVE  \/ \E c \in asked' : c.kind = "send" /\ c.fid = table[i].tx_frame_id
                   \/ \E k \in 1 .. Len(line') : line'[k].t = "TX_STATUS" /\ line'[k].fid = table[i].tx_frame_id
        <5>1. CASE b = a
          BY <1>2, <1>5, <4>2, <5>1
        <5>2. CASE b # a
          BY <1>3, <4>2, <5>2
        <5>3. QED
          BY <5>1, <5>2
      <4>3. QED
        BY <3>1, <4>1, <4>2 DEF SendOwn
    <3>4. \A b \in asked' : b.kind = "send" /\ b.fid = table[i].tx_frame_id => b.tag = table[i].inc
      BY <1>3, <3>1 DEF SendOwn
    <3>5. QED
      BY <3>2, <3>3, <3>4 DEF SendOwn
  <2>3. QED
    BY <2>1, <2>2 DEF ByFid
<1>7. \A j \in 0 .. Len(line) : \A n, t : n # 0 /\ Serves(asked, mod, line, j, n, t) /\ About(m, n) => m.tag = t
  BY <1>2 DEF Serves, About
<1>8. asked' \subseteq asked /\ \A b \in asked \ asked' : b.kind # "create"
  BY <1>2, <1>3
<1>9. m.t \notin {"CREATE_RESP", "CLIENT", "ATTACH_RESP"}
  BY <1>2
<1>10. QED
  BY <1>3, <1>6, <1>7, <1>8, <1>9, SaysMatched

LEMMA MatchedModAttach ==
  ASSUME SockInv, NEW id \in DOMAIN mod, NEW good \in BOOLEAN, ModAttach(id, good), Typed'
  PROVE  Matched(table', asked', mod', line', orphans')
<1>1. PICK m, tag, phase : m = AttachAnswer(id, good) /\ tag = mod[id].tag /\ phase = mod[id].phase
  OBVIOUS
<1>2. /\ m.t = "ATTACH_RESP" /\ m.id = id /\ m.tag = tag /\ m.good = good
      /\ m.connect <=> phase = "connecting"
  BY <1>1 DEF AttachAnswer
<1>3. /\ Appended(line, line', m) /\ UNCHANGED <<table, asked, orphans>> /\ phase \in {"connecting", "opening"}
      /\ id \in ModuleIds /\ id # 0
  <2>1. Typed
    BY DEF SockInv, TableInv
  <2>2. Appended(line, line', m)
    BY <1>1, <2>1, TypedModAttach
  <2>3. UNCHANGED <<table, asked, orphans>> /\ phase \in {"connecting", "opening"}
    BY <1>1 DEF ModAttach
  <2>4. id \in ModuleIds /\ id # 0
    BY <2>1, SocketAssumption DEF Typed, TypeOK
  <2>5. QED
    BY <2>2, <2>3, <2>4
<1>4. /\ table \in [Slots -> Entry] /\ line \in Seq(FrameType) /\ line' \in Seq(FrameType)
      /\ Grows(line, line', m)
  BY <1>3 DEF SockInv, TableInv, Typed, TypeOK, Grows
<1>5. /\ \A k \in 1 .. Len(line) : k \in 1 .. Len(line') /\ line'[k] = line[k]
      /\ \A k \in 1 .. Len(line') : (k \in 1 .. Len(line) /\ line'[k] = line[k]) \/ (k = Len(line) + 1 /\ line'[k] = m)
  BY <1>4, GrowsBy
<1>6. /\ DOMAIN mod' = DOMAIN mod
      /\ \A j \in DOMAIN mod : mod'[j].tag = mod[j].tag /\ (j # id => mod'[j] = mod[j])
      /\ mod'[id].phase = Outcome(m)
  <2>1. PICK p : p = IF ~good THEN "idle" ELSE IF phase = "connecting" THEN "connected" ELSE "open"
    OBVIOUS
  <2>2. mod' = [mod EXCEPT ![id].phase = p]
    BY <1>1, <2>1 DEF ModAttach
  <2>3. p = Outcome(m)
    BY <1>2, <2>1 DEF Outcome
  <2>4. ModType(mod)
    BY InvFacts, MatchFacts
  <2>5. QED
    BY <2>2, <2>3, <2>4 DEF ModType
<1>7. ByFid(table, asked', line')
  BY <1>2, <1>3, <1>4, ByFidSays, MatchFacts
<1>8. \A j \in 0 .. Len(line) : \A n, t : n # 0 /\ Serves(asked, mod, line, j, n, t) /\ About(m, n) => m.tag = t
  BY <1>1, <1>2 DEF Serves, About
<1>9. \A j \in DOMAIN mod : mod[j].tag = tag => j = id
  BY <1>1, InvFacts, MatchFacts DEF Once
<1>10. Said(mod', line')
  <2>1. \A k \in 1 .. Len(line) : line[k].t = "CLIENT" => line[k].clientTag # tag
    BY <1>1, <1>3, MatchFacts DEF Agreed, Said
  <2>2. \A k \in 1 .. Len(line) : line[k].t = "CLIENT" =>
          /\ ~Answers(m, line[k].clientTag)
          /\ m.t = "CLIENT" => m.tag # line[k].clientTag /\ line[k].tag # m.clientTag
          /\ \A j \in DOMAIN mod' : mod'[j].tag = line[k].clientTag =>
               j \in DOMAIN mod /\ mod[j].tag = line[k].clientTag /\ mod'[j].phase = mod[j].phase
    BY <1>1, <1>2, <1>6, <2>1 DEF Answers
  <2>3. Said(mod, line) /\ m.t # "CREATE_RESP" /\ m.t # "CLIENT" /\ (m.t = "ATTACH_RESP" /\ m.id = 0 => ~m.good)
    BY <1>2, <1>3, MatchFacts DEF Agreed
  <2>4. QED
    BY <1>4, <2>2, <2>3, SaidGrows
<1>11. ASSUME NEW i \in Live(table) PROVE AgreedOn(table[i], mod', line')
  <2> DEFINE s == table[i]
  <2>1. AgreedOn(s, mod, line)
    BY MatchFacts DEF Agreed
  <2>2. CASE s.inc # tag
    <3>1. ~Answers(m, s.inc)
      BY <1>2, <2>2 DEF Answers
    <3>2. \A j \in DOMAIN mod' : mod'[j].tag = s.inc =>
            j \in DOMAIN mod /\ mod[j].tag = s.inc /\ mod'[j].phase = mod[j].phase
      BY <1>1, <1>6, <2>2
    <3>3. QED
      BY <1>4, <2>1, <3>1, <3>2, AgreedGrows
  <2>3. CASE s.inc = tag
    <3>1. \A k \in 1 .. Len(line) : ~Answers(line[k], s.inc)
      BY <1>1, <1>3, <2>1, <2>3 DEF AgreedOn, Outcome
    <3>2. phase = Settled(s)
      BY <1>1, <2>1, <2>3, <3>1 DEF AgreedOn, Unanswered
    <3>3. s.type = "ATTACH" /\ s.socket_id # 0 /\ (phase = "connecting" <=> s.handler = "receive")
      BY <1>3, <3>2 DEF Settled
    <3>4. s.socket_id = id
      BY <1>1, <2>3, <3>3, MatchFacts DEF Placed
    <3>5. Awaited(s, m)
      BY <1>2, <3>3, <3>4 DEF Awaited
    <3>6. \A k \in 1 .. Len(line') : Answers(line'[k], s.inc) => k = Len(line) + 1 /\ line'[k] = m
      BY <1>5, <3>1
    <3>7. \A j \in DOMAIN mod' : mod'[j].tag = s.inc => mod'[j].phase = Outcome(m)
      BY <1>6, <1>9, <2>3
    <3>8. ~Unanswered(line', s.inc)
      <4>1. Len(line) + 1 \in 1 .. Len(line') /\ line'[Len(line) + 1] = m
        BY <1>3, <1>4 DEF Appended
      <4>2. Answers(m, s.inc)
        BY <1>2, <1>3, <2>3 DEF Answers
      <4>3. QED
        BY <4>1, <4>2 DEF Unanswered
    <3>9. Fits(s)
      BY <2>1 DEF AgreedOn
    <3>10. QED
      BY <3>5, <3>6, <3>7, <3>8, <3>9 DEF AgreedOn
  <2>4. QED
    BY <2>2, <2>3
<1>12. Agreed(table, mod', line')
  BY <1>10, <1>11 DEF Agreed
<1>13. QED
  BY <1>2, <1>3, <1>6, <1>7, <1>8, <1>12, SaysRest

LEMMA MatchedModCreate ==
  ASSUME SockInv, NEW a \in asked, NEW id \in ModuleIds, ModCreate(a, id), Typed'
  PROVE  Matched(table', asked', mod', line', orphans')
<1>1. /\ a.kind = "create" /\ asked' = asked \ {a}
      /\ UNCHANGED <<table, frame_id, held, orphans, misled, incs, used>>
  BY ModCreateDoes, MatchFacts DEF TableInv
<1>2. PICK m \in CreateResp :
        /\ m.t = "CREATE_RESP" /\ m.fid = a.fid /\ m.tag = a.tag /\ Appended(line, line', m)
        /\ \/ /\ m.good /\ m.id = id /\ FreshId(id)
              /\ mod' = WithSocket(id, a.tag, "idle")
           \/ ~m.good /\ m.id = 0 /\ mod' = mod
  BY ModCreateDoes, MatchFacts DEF TableInv
<1>3. /\ table \in [Slots -> Entry] /\ line \in Seq(FrameType) /\ line' \in Seq(FrameType)
      /\ Grows(line, line', m) /\ line' # line /\ Len(line) \in Nat
  BY <1>2 DEF SockInv, TableInv, Typed, TypeOK, Grows, Appended
<1>4. /\ \A k \in 1 .. Len(line) : k \in 1 .. Len(line') /\ line'[k] = line[k]
      /\ \A k \in 1 .. Len(line') : (k \in 1 .. Len(line) /\ line'[k] = line[k]) \/ line'[k] = m
      /\ Len(line) + 1 \in 1 .. Len(line') /\ line'[Len(line) + 1] = m
  BY <1>2, <1>3, GrowsBy DEF Appended
<1>5. /\ \A j \in DOMAIN mod : j \in DOMAIN mod' /\ mod'[j] = mod[j]
      /\ \A j \in DOMAIN mod' : \/ j \in DOMAIN mod
                                \/ /\ j = id /\ m.good /\ m.id = id /\ FreshId(id)
                                   /\ mod'[j].tag = a.tag /\ mod'[j].phase = "idle"
      /\ m.good => id \in DOMAIN mod' /\ mod'[id].tag = a.tag /\ m.id = id /\ FreshId(id)
  <2>1. CASE ~m.good /\ m.id = 0 /\ mod' = mod
    BY <2>1
  <2>2. CASE m.good /\ m.id = id /\ FreshId(id) /\ mod' = WithSocket(id, a.tag, "idle")
    <3>1. PICK tag, phase : tag = a.tag /\ phase = "idle"
      OBVIOUS
    <3>2. /\ DOMAIN mod' = DOMAIN mod \union {id}
          /\ mod'[id].tag = tag /\ mod'[id].phase = phase
          /\ \A j \in DOMAIN mod : j # id => mod'[j] = mod[j]
      <4>1. mod' = WithSocket(id, tag, phase)
        BY <2>2, <3>1
      <4>2. QED
        BY <4>1, NowWithSocket
    <3>3. id \notin DOMAIN mod
      BY <2>2 DEF FreshId
    <3>4. QED
      BY <2>2, <3>1, <3>2, <3>3
  <2>3. QED
    BY <1>2, <2>1, <2>2
<1>6. ByFid(table, asked', line')
  <2>1. ASSUME NEW i \in Live(table), table[i].type = "PENDING"
        PROVE  CreateOwn(asked', line', table[i].create_frame_id, table[i].inc)
    <3>1. CreateOwn(asked, line, table[i].create_frame_id, table[i].inc)
      BY <2>1, MatchFacts DEF ByFid
    <3>2. \A k \in 1 .. Len(line') : line'[k].t = "CREATE_RESP" =>
            (line'[k].fid = table[i].create_frame_id <=> line'[k].tag = table[i].inc)
      BY <1>1, <1>2, <1>4, <3>1 DEF CreateOwn
    <3>3. \/ \E b \in asked' : b.kind = "create" /\ b.tag = table[i].inc
          \/ \E k \in 1 .. Len(line') : line'[k].t = "CREATE_RESP" /\ line'[k].tag = table[i].inc
      <4>1. CASE \E k \in 1 .. Len(line) : line[k].t = "CREATE_RESP" /\ line[k].tag = table[i].inc
        BY <1>4, <4>1
      <4>2. ASSUME NEW b \in asked, b.kind = "create", b.tag = table[i].inc
            PROVE  \/ \E c \in asked' : c.kind = "create" /\ c.tag = table[i].inc
                   \/ \E k \in 1 .. Len(line') : line'[k].t = "CREATE_RESP" /\ line'[k].tag = table[i].inc
        <5>1. CASE b = a
          BY <1>2, <1>4, <4>2, <5>1
        <5>2. CASE b # a
          BY <1>1, <4>2, <5>2
        <5>3. QED
          BY <5>1, <5>2
      <4>3. QED
        BY <3>1, <4>1, <4>2 DEF CreateOwn
    <3>4. \A b \in asked' : b.kind = "create" =>
            (b.fid = table[i].create_frame_id <=> b.tag = table[i].inc)
      BY <1>1, <3>1 DEF CreateOwn
    <3>5. QED
      BY <3>2, <3>3, <3>4 DEF CreateOwn
  <2>2. ASSUME NEW i \in Live(table), table[i].tx_frame_id # 0
        PROVE  SendOwn(asked', line', table[i].tx_frame_id, table[i].inc)
    <3>1. SendOwn(asked, line, table[i].tx_frame_id, table[i].inc)
      BY <2>2, MatchFacts DEF ByFid
    <3>2. QED
      BY <1>1, <1>2, <1>4, <3>1 DEF SendOwn
  <2>3. QED
    BY <2>1, <2>2 DEF ByFid
<1>7. \A j \in 0 .. Len(line) : \A n, t : Serves(asked, mod, line, j, n, t) /\ FreshId(id) => n # id
  BY <1>3 DEF Serves, FreshId
<1>8. ASSUME NEW j \in 0 .. Len(line), NEW n, NEW t, n # 0, Serves(asked, mod, line, j, n, t)
      PROVE  Serves(asked', mod', line', j, n, t)
  <2>1. ~About(m, n)
    BY <1>2 DEF About
  <2>2. \A b \in asked' : b.kind = "option" /\ b.id = n => b.tag = t
    BY <1>1, <1>8 DEF Serves
  <2>3. n \in DOMAIN mod' => mod'[n].tag = t
    <3>1. n \in DOMAIN mod' => n \in DOMAIN mod /\ mod'[n] = mod[n]
      BY <1>5, <1>7, <1>8
    <3>2. n \in DOMAIN mod => mod[n].tag = t
      BY <1>8 DEF Serves
    <3>3. QED
      BY <3>1, <3>2
  <2>4. n \in DOMAIN mod => n \in DOMAIN mod'
    BY <1>5
  <2>5. QED
    BY <1>2, <1>3, <1>8, <2>1, <2>2, <2>3, <2>4, ServesAppended
<1>9. m.good => Serves(asked', mod', line', Len(line) + 1, m.id, a.tag)
  <2>1. \A k \in Len(line) + 1 + 1 .. Len(line') : FALSE
    BY <1>2, <1>3 DEF Appended
  <2>2. m.good => \A b \in asked' : b.kind = "option" => b.id # m.id
    BY <1>1, <1>5 DEF FreshId
  <2>3. QED
    BY <1>5, <2>1, <2>2 DEF Serves
<1>10. Serving(table, asked', mod', line')
  BY <1>2, <1>3, <1>8, <1>9, ServingGrows, MatchFacts DEF Agreed
<1>11. Placed(table, asked', mod', orphans)
  BY <1>1, <1>5, MatchFacts DEF Placed
<1>12. Said(mod', line')
  <2>1. \A k \in 1 .. Len(line) : line[k].t = "CLIENT" => line[k].clientTag # a.tag
    BY <1>1, InvFacts, MatchFacts DEF Once
  <2>2. \A k \in 1 .. Len(line) : line[k].t = "CLIENT" =>
          /\ ~Answers(m, line[k].clientTag)
          /\ m.t = "CLIENT" => m.tag # line[k].clientTag /\ line[k].tag # m.clientTag
          /\ \A j \in DOMAIN mod' : mod'[j].tag = line[k].clientTag =>
               j \in DOMAIN mod /\ mod[j].tag = line[k].clientTag /\ mod'[j].phase = mod[j].phase
    BY <1>2, <1>5, <2>1 DEF Answers
  <2>3. Said(mod, line) /\ m.t # "ATTACH_RESP" /\ m.t # "CLIENT" /\ (m.good <=> m.id # 0)
    BY <1>2, SocketAssumption, MatchFacts DEF Agreed, CreateResp
  <2>4. QED
    BY <1>3, <2>2, <2>3, SaidGrows
<1>13. ASSUME NEW i \in Live(table) PROVE AgreedOn(table[i], mod', line')
  <2> DEFINE s == table[i]
  <2>1. AgreedOn(s, mod, line) /\ ~Answers(m, s.inc)
    BY <1>2, MatchFacts DEF Agreed, Answers
  <2>2. CASE s.inc # a.tag
    <3>1. \A j \in DOMAIN mod' : mod'[j].tag = s.inc =>
            j \in DOMAIN mod /\ mod[j].tag = s.inc /\ mod'[j].phase = mod[j].phase
      BY <1>5, <2>2
    <3>2. QED
      BY <1>3, <2>1, <3>1, AgreedGrows
  <2>3. CASE s.inc = a.tag
    <3>1. s.socket_id = 0 /\ s.type \in {"PENDING", "CREATED", "ATTACH"}
      BY <1>1, <2>3, MatchFacts DEF Placed
    <3>2. Settled(s) = "idle" /\ Fits(s)
      BY <2>1, <3>1 DEF Settled, AgreedOn
    <3>3. \A k \in 1 .. Len(line') : ~Answers(line'[k], s.inc)
      BY <1>4, <2>1, <3>1 DEF AgreedOn, Awaited, Answers
    <3>4. \A j \in DOMAIN mod : mod[j].tag # a.tag
      BY <1>1, InvFacts, MatchFacts DEF Once
    <3>5. \A j \in DOMAIN mod' : mod'[j].tag = s.inc => mod'[j].phase = "idle"
      BY <1>5, <2>3, <3>4
    <3>6. QED
      BY <3>2, <3>3, <3>5 DEF AgreedOn
  <2>4. QED
    BY <2>2, <2>3
<1>14. Agreed(table, mod', line')
  BY <1>12, <1>13 DEF Agreed
<1>15. Remembered(table, asked', mod', line', orphans)
  <2> SUFFICES ASSUME NEW tag, tag \notin orphans,
                      \/ \E j \in DOMAIN mod' : mod'[j].tag = tag
                      \/ \E b \in asked' : b.kind = "create" /\ b.tag = tag
               PROVE  \/ \E i \in Live(table) : table[i].inc = tag
                      \/ \E k \in 1 .. Len(line') : line'[k].t = "CLIENT" /\ line'[k].clientTag = tag
    BY DEF Remembered
  <2>1. \/ \E j \in DOMAIN mod : mod[j].tag = tag
        \/ \E b \in asked : b.kind = "create" /\ b.tag = tag
    BY <1>1, <1>5
  <2>2. \/ \E i \in Live(table) : table[i].inc = tag
        \/ \E k \in 1 .. Len(line) : line[k].t = "CLIENT" /\ line[k].clientTag = tag
    BY <2>1, MatchFacts DEF Remembered
  <2>3. QED
    BY <1>4, <2>2
<1>16. QED
  BY <1>1, <1>6, <1>10, <1>11, <1>14, <1>15 DEF Matched
LEMMA MatchedAttach ==
  ASSUME SockInv, NEW x \in held, NEW how \in {"connect", "bind", "listen"}, NEW ok \in BOOLEAN,
         Attach(x, how, ok), Typed'
  PROVE  Matched(table', asked', mod', line', orphans')
<1>1. CASE ~ok
  <2>1. UNCHANGED <<table, asked, mod, line, orphans>>
    BY <1>1 DEF Attach
  <2>2. QED
    BY <2>1, MatchedSame
<1>2. CASE ok
  <2>1. PICK i : i = Lookup(x.h)
    OBVIOUS
  <2>2. PICK id : id = table[i].socket_id
    OBVIOUS
  <2>3. /\ i \in Live(table) /\ table[i].type \in {"PENDING", "CREATED"} /\ UNCHANGED asked
        /\ \E e \in Entry :
             /\ table' = [table EXCEPT ![i] = e]
             /\ e.type = "ATTACH" /\ e.xbee /\ e.handler = CallbackOf(how) /\ e.inc = table[i].inc
             /\ e.socket_id = id /\ e.protocol = table[i].protocol /\ e.tx_frame_id = table[i].tx_frame_id
             /\ Fits(e)
        /\ orphans \subseteq orphans' /\ (table[i].type = "PENDING" => table[i].inc \in orphans')
        /\ \E m \in FrameType :
             /\ m.t = "ATTACH_RESP" /\ m.id = id /\ m.tag = table[i].inc /\ ~m.good
             /\ \/ /\ id \in DOMAIN mod /\ line' = line
                   /\ mod' = [mod EXCEPT ![id].phase =
                                IF how = "connect" THEN "connecting" ELSE "opening"]
                \/ id \notin DOMAIN mod /\ mod' = mod /\ Appended(line, line', m)
    <3>1. /\ i \in Slots /\ table[i].xbee /\ table[i].type # "AVAILABLE" /\ table[i] \in Entry
          /\ i \in Live(table) /\ table \in [Slots -> Entry] /\ line \in Seq(FrameType)
      BY <2>1, HeldEntry, InvFacts, MatchFacts DEF Live
    <3>2. MayAttach(table[i], how) /\ UNCHANGED asked
      BY <1>2, <2>1, <2>2 DEF Attach
    <3>3. table[i].type \in {"PENDING", "CREATED"}
      BY <3>1, <3>2 DEF MayAttach
    <3>4. PICK e : e = [table[i] EXCEPT !.type = "ATTACH", !.handler = CallbackOf(how)]
      OBVIOUS
    <3>5. e \in Entry
      BY <3>1, <3>4 DEF Entry, Type, Callback, CallbackOf
    <3>6. /\ e.type = "ATTACH" /\ e.xbee /\ e.handler = CallbackOf(how) /\ e.inc = table[i].inc
          /\ e.socket_id = table[i].socket_id /\ e.protocol = table[i].protocol
          /\ e.tx_frame_id = table[i].tx_frame_id
      BY <3>1, <3>4 DEF Entry
    <3>7. Fits(e)
      BY <3>2, <3>6 DEF Fits, MayAttach, CallbackOf, Opener
    <3>8. table' = [table EXCEPT ![i] = e]
      BY <1>2, <2>1, <3>1, <3>4 DEF Attach
    <3>9. orphans' = IF table[i].type = "PENDING" THEN orphans \union {table[i].inc} ELSE orphans
      BY <1>2, <2>1, <2>2 DEF Attach
    <3>10. PICK m : m = [t |-> "ATTACH_RESP", id |-> table[i].socket_id, connect |-> how = "connect",
                         good |-> FALSE, tag |-> table[i].inc]
      OBVIOUS
    <3>11. /\ m.t = "ATTACH_RESP" /\ m.id = table[i].socket_id /\ m.tag = table[i].inc /\ m.good = FALSE
           /\ m \in FrameType
      <4>1. (how = "connect") \in BOOLEAN
        OBVIOUS
      <4>2. m \in AttachResp
        BY <3>1, <3>10, <4>1 DEF AttachResp, AnyId, Entry
      <4>3. QED
        BY <3>10, <4>2 DEF FrameType
    <3>12. \/ /\ id \in DOMAIN mod /\ line' = line
              /\ mod' = [mod EXCEPT ![id].phase = IF how = "connect" THEN "connecting" ELSE "opening"]
           \/ id \notin DOMAIN mod /\ mod' = mod /\ line' = Append(line, m)
      BY <1>2, <2>1, <2>2, <3>10 DEF Attach
    <3>13. ASSUME line' = Append(line, m) PROVE Appended(line, line', m)
      BY <3>1, <3>11, <3>13, LineGrows
    <3>14. QED
      BY <2>2, <3>1, <3>2, <3>3, <3>5, <3>6, <3>7, <3>8, <3>9, <3>11, <3>12, <3>13
  <2>4. /\ i \in Live(table) /\ table[i].type \in {"PENDING", "CREATED"} /\ UNCHANGED asked
        /\ orphans \subseteq orphans' /\ (table[i].type = "PENDING" => table[i].inc \in orphans')
    BY <2>3
  <2>5. PICK e \in Entry :
          /\ table' = [table EXCEPT ![i] = e]
          /\ e.type = "ATTACH" /\ e.xbee /\ e.handler = CallbackOf(how) /\ e.inc = table[i].inc
          /\ e.socket_id = id /\ e.protocol = table[i].protocol /\ e.tx_frame_id = table[i].tx_frame_id
          /\ Fits(e)
    BY <2>3
  <2>6. PICK m \in FrameType :
          /\ m.t = "ATTACH_RESP" /\ m.id = id /\ m.tag = table[i].inc /\ ~m.good
          /\ \/ /\ id \in DOMAIN mod /\ line' = line
                /\ mod' = [mod EXCEPT ![id].phase = IF how = "connect" THEN "connecting" ELSE "opening"]
             \/ id \notin DOMAIN mod /\ mod' = mod /\ Appended(line, line', m)
    BY <2>3
  <2>7. /\ table \in [Slots -> Entry] /\ table' \in [Slots -> Entry] /\ ModType(mod)
        /\ line \in Seq(FrameType) /\ line' \in Seq(FrameType) /\ Grows(line, line', m) /\ i \in Slots
    BY <2>4, <2>6 DEF SockInv, TableInv, Typed, TypeOK, ModType, Grows, Live
  <2>8. /\ Live(table') = Live(table) /\ table'[i] = e /\ i \in Live(table')
        /\ \A j \in Live(table') : (j = i /\ table'[j] = e) \/ (j # i /\ j \in Live(table) /\ table'[j] = table[j])
    BY <2>4, <2>5, <2>7 DEF Live
  <2>9. /\ DOMAIN mod' = DOMAIN mod
        /\ \A j \in DOMAIN mod : mod'[j].tag = mod[j].tag /\ (j # id => mod'[j] = mod[j])
        /\ id \in DOMAIN mod => mod'[id].phase = IF how = "connect" THEN "connecting" ELSE "opening"
    <3>1. CASE mod' = mod /\ id \notin DOMAIN mod
      BY <3>1
    <3>2. PICK p : p = IF how = "connect" THEN "connecting" ELSE "opening"
      OBVIOUS
    <3>3. CASE mod' = [mod EXCEPT ![id].phase = p] /\ id \in DOMAIN mod
      BY <2>7, <3>2, <3>3 DEF ModType
    <3>4. QED
      BY <2>6, <3>1, <3>2, <3>3
  <2>10. /\ \A k \in 1 .. Len(line) : k \in 1 .. Len(line') /\ line'[k] = line[k]
         /\ \A k \in 1 .. Len(line') : (k \in 1 .. Len(line) /\ line'[k] = line[k]) \/ (line' # line /\ line'[k] = m /\ k = Len(line) + 1)
    BY <2>7, GrowsBy
  <2>11. ByFid(table', asked', line')
    <3>1. ByFid(table', asked, line)
      BY <2>5, <2>8, MatchFacts DEF ByFid
    <3>2. QED
      BY <2>4, <2>6, <2>7, <3>1, ByFidSays DEF Grows
  <2>12. Serving(table', asked', mod', line')
    <3>1. Serving(table', asked, mod, line)
      BY <2>2, <2>5, <2>8, MatchFacts DEF Serving
    <3>2. ASSUME NEW j \in 0 .. Len(line), NEW n, NEW t, n # 0, Serves(asked, mod, line, j, n, t)
          PROVE  Serves(asked, mod', line', j, n, t)
      <4>1. About(m, n) => m.tag = t
        <5> SUFFICES ASSUME n = id PROVE m.tag = t
          BY <2>6 DEF About
        <5>1. Serves(asked, mod, line, 0, id, table[i].inc)
          BY <2>2, <2>4, <3>2, OwnerServes
        <5>2. j \in Nat /\ 0 \in Nat
          BY <2>7
        <5>3. QED
          BY <2>6, <2>7, <3>2, <5>1, <5>2, ServesOne
      <4>2. \A a \in asked : a.kind = "option" /\ a.id = n => a.tag = t
        BY <3>2 DEF Serves
      <4>3. n \in DOMAIN mod' => mod'[n].tag = t
        BY <2>9, <3>2 DEF Serves
      <4>4. QED
        BY <2>6, <2>7, <2>9, <3>2, <4>1, <4>2, <4>3, ServesAppended
    <3>3. m.t # "CREATE_RESP" /\ m.t # "CLIENT" /\ Said(mod, line)
      BY <2>6, MatchFacts DEF Agreed
    <3>4. QED
      BY <2>4, <2>7, <3>1, <3>2, <3>3, ServingGrows
  <2>13. Placed(table', asked', mod', orphans')
    <3>1. id = 0 => e.inc \in orphans'
      BY <2>2, <2>4, <2>5, MatchFacts DEF Placed
    <3>2. id # 0 => /\ \A a \in asked : a.kind = "create" => a.tag # e.inc
                    /\ \A j \in DOMAIN mod : mod[j].tag = e.inc => j = id
      BY <2>2, <2>4, <2>5, MatchFacts DEF Placed
    <3>3. ASSUME NEW j \in Live(table'), j # i
          PROVE  /\ table'[j].type = "PENDING" => table'[j].socket_id = 0 /\ table'[j].tx_frame_id = 0
                 /\ table'[j].socket_id = 0 => /\ table'[j].type \in {"PENDING", "CREATED", "ATTACH"}
                                               /\ table'[j].type = "PENDING" \/ table'[j].inc \in orphans'
                 /\ table'[j].socket_id # 0 =>
                      /\ \A a \in asked : a.kind = "create" => a.tag # table'[j].inc
                      /\ \A n \in DOMAIN mod' : mod'[n].tag = table'[j].inc => n = table'[j].socket_id
      BY <2>4, <2>8, <2>9, <3>3, MatchFacts DEF Placed
    <3>4. /\ table'[i].type = "ATTACH" /\ table'[i].inc = e.inc /\ table'[i].socket_id = id
          /\ \A n \in DOMAIN mod' : mod'[n].tag = e.inc => n \in DOMAIN mod /\ mod[n].tag = e.inc
      BY <2>5, <2>8, <2>9
    <3>5. /\ table'[i].type = "PENDING" => table'[i].socket_id = 0 /\ table'[i].tx_frame_id = 0
          /\ table'[i].socket_id = 0 => /\ table'[i].type \in {"PENDING", "CREATED", "ATTACH"}
                                        /\ table'[i].type = "PENDING" \/ table'[i].inc \in orphans'
          /\ table'[i].socket_id # 0 =>
               /\ \A a \in asked : a.kind = "create" => a.tag # table'[i].inc
               /\ \A n \in DOMAIN mod' : mod'[n].tag = table'[i].inc => n = table'[i].socket_id
      BY <3>1, <3>2, <3>4
    <3>6. QED
      BY <2>4, <3>3, <3>5 DEF Placed
  <2>14. Remembered(table', asked', mod', line', orphans')
    <3>1. \A j \in Live(table) : j \in Live(table') /\ table'[j].inc = table[j].inc
      BY <2>5, <2>8
    <3>2. QED
      BY <2>4, <2>9, <2>10, <3>1, MatchFacts DEF Remembered
  <2>15. \A j \in DOMAIN mod : mod[j].tag # table[i].inc => mod'[j] = mod[j]
    <3>1. id \in DOMAIN mod => mod[id].tag = table[i].inc
      <4>1. id \in DOMAIN mod => id # 0
        BY <2>7, SocketAssumption DEF ModType
      <4>2. id # 0 => Serves(asked, mod, line, 0, id, table[i].inc)
        BY <2>2, <2>4, OwnerServes
      <4>3. QED
        BY <4>1, <4>2 DEF Serves
    <3>2. QED
      BY <2>9, <3>1
  <2>16. Said(mod', line')
    <3>1. \A k \in 1 .. Len(line) : line[k].t = "CLIENT" => line[k].clientTag # table[i].inc
      BY <2>4, InvFacts, MatchFacts DEF Apart
    <3>2. \A k \in 1 .. Len(line) : line[k].t = "CLIENT" =>
            /\ ~Answers(m, line[k].clientTag)
            /\ m.t = "CLIENT" => m.tag # line[k].clientTag /\ line[k].tag # m.clientTag
            /\ \A j \in DOMAIN mod' : mod'[j].tag = line[k].clientTag =>
                 j \in DOMAIN mod /\ mod[j].tag = line[k].clientTag /\ mod'[j].phase = mod[j].phase
      BY <2>6, <2>9, <2>15, <3>1 DEF Answers
    <3>3. Said(mod, line) /\ m.t # "CREATE_RESP" /\ m.t # "CLIENT" /\ (m.t = "ATTACH_RESP" /\ m.id = 0 => ~m.good)
      BY <2>6, MatchFacts DEF Agreed
    <3>4. QED
      BY <2>7, <3>2, <3>3, SaidGrows
  <2>17. AgreedOn(e, mod', line')
    <3>1. AgreedOn(table[i], mod, line)
      BY <2>4, MatchFacts DEF Agreed
    <3>2. \A k \in 1 .. Len(line) : ~Answers(line[k], e.inc)
      BY <2>4, <2>5, <3>1 DEF AgreedOn, Awaited
    <3>3. \A j \in DOMAIN mod : mod[j].tag = e.inc => mod[j].phase = "idle"
      BY <2>4, <2>5, <3>1, <3>2 DEF AgreedOn, Unanswered, Settled
    <3>4. CASE id = 0
      <4>1. Settled(e) = "idle" /\ ~Answers(m, e.inc)
        BY <2>5, <2>6, <3>4 DEF Settled, Answers
      <4>2. \A k \in 1 .. Len(line') : ~Answers(line'[k], e.inc)
        BY <2>10, <3>2, <4>1
      <4>3. id \notin DOMAIN mod
        BY <2>7, <3>4, SocketAssumption DEF ModType
      <4>4. \A j \in DOMAIN mod' : mod'[j].tag = e.inc => mod'[j].phase = "idle"
        BY <2>9, <3>3, <4>3
      <4>5. QED
        BY <2>5, <4>1, <4>2, <4>4 DEF AgreedOn
    <3>5. CASE id # 0
      <4>1. \A j \in DOMAIN mod' : mod'[j].tag = e.inc => j = id
        BY <2>2, <2>4, <2>5, <2>9, <3>5, MatchFacts DEF Placed
      <4>2. CASE id \in DOMAIN mod
        <5>1. Settled(e) = IF how = "connect" THEN "connecting" ELSE "opening"
          BY <2>5, <3>5 DEF Settled, CallbackOf
        <5>2. \A k \in 1 .. Len(line') : ~Answers(line'[k], e.inc)
          BY <2>6, <3>2, <4>2
        <5>3. QED
          BY <2>5, <2>9, <4>1, <4>2, <5>1, <5>2 DEF AgreedOn
      <4>3. CASE id \notin DOMAIN mod
        <5>1. \A j \in DOMAIN mod' : mod'[j].tag # e.inc
          BY <2>9, <4>1, <4>3
        <5>2. Awaited(e, m)
          BY <2>5, <2>6 DEF Awaited
        <5>3. \A k \in 1 .. Len(line') : Answers(line'[k], e.inc) => line'[k] = m /\ k = Len(line) + 1
          BY <2>10, <3>2
        <5>4. QED
          BY <2>5, <5>1, <5>2, <5>3 DEF AgreedOn
      <4>4. QED
        BY <4>2, <4>3
    <3>6. QED
      BY <3>4, <3>5
  <2>18. ASSUME NEW j \in Live(table'), j # i PROVE AgreedOn(table'[j], mod', line')
    <3>1. j \in Live(table) /\ table'[j] = table[j] /\ table[j].inc # table[i].inc
      BY <2>4, <2>8, <2>18, OneInc
    <3>2. AgreedOn(table[j], mod, line) /\ ~Answers(m, table[j].inc)
      BY <2>6, <3>1, MatchFacts DEF Agreed, Answers
    <3>3. \A n \in DOMAIN mod' : mod'[n].tag = table[j].inc =>
            n \in DOMAIN mod /\ mod[n].tag = table[j].inc /\ mod'[n].phase = mod[n].phase
      BY <2>9, <2>15, <3>1
    <3>4. QED
      BY <2>7, <3>1, <3>2, <3>3, AgreedGrows
  <2>19. Agreed(table', mod', line')
    BY <2>8, <2>16, <2>17, <2>18 DEF Agreed
  <2>20. QED
    BY <2>11, <2>12, <2>13, <2>14, <2>19 DEF Matched
<1>3. QED
  BY <1>1, <1>2

LEMMA MatchedModClient ==
  ASSUME SockInv, NEW id \in DOMAIN mod, NEW client \in ModuleIds, ModClient(id, client), Typed'
  PROVE  Matched(table', asked', mod', line', orphans')
<1>1. PICK m : m = ClientNews(id, client)
  OBVIOUS
<1>2. PICK tag : tag = incs + 1
  OBVIOUS
<1>3. /\ m.t = "CLIENT" /\ m.id = id /\ m.tag = mod[id].tag /\ m.client = client /\ m.clientTag = tag
      /\ Appended(line, line', m)
  BY <1>1, <1>2, TypedModClient, MatchFacts DEF TableInv, ClientNews
<1>4. /\ UNCHANGED <<table, asked, orphans>> /\ FreshId(client) /\ mod[id].phase = "open"
  BY DEF ModClient
<1>5. /\ DOMAIN mod' = DOMAIN mod \union {client}
      /\ mod'[client].tag = tag /\ mod'[client].phase = "connected"
      /\ \A j \in DOMAIN mod : j # client => mod'[j] = mod[j]
  <2>1. PICK phase : phase = "connected"
    OBVIOUS
  <2>2. mod' = WithSocket(client, tag, phase)
    BY <1>2, <2>1 DEF ModClient
  <2>3. /\ DOMAIN mod' = DOMAIN mod \union {client}
        /\ mod'[client].tag = tag /\ mod'[client].phase = phase
        /\ \A j \in DOMAIN mod : j # client => mod'[j] = mod[j]
    BY <2>2, NowWithSocket
  <2>4. QED
    BY <2>1, <2>3
<1>6. /\ table \in [Slots -> Entry] /\ line \in Seq(FrameType) /\ line' \in Seq(FrameType)
      /\ Grows(line, line', m) /\ line' # line /\ Len(line) \in Nat /\ incs \in Nat
  BY <1>3 DEF SockInv, TableInv, Typed, TypeOK, Grows, Appended
<1>7. /\ \A k \in 1 .. Len(line) : k \in 1 .. Len(line') /\ line'[k] = line[k]
      /\ Len(line) + 1 \in 1 .. Len(line') /\ line'[Len(line) + 1] = m
  BY <1>3, <1>6, GrowsBy DEF Appended
<1>8. Below(table, asked, mod, line, incs)
  BY InvFacts, MatchFacts
<1>9. /\ \A i \in Live(table) : table[i].inc # tag
      /\ \A j \in DOMAIN mod : mod[j].tag # tag
      /\ \A k \in 1 .. Len(line) : line[k].tag # tag /\ (line[k].t = "CLIENT" => line[k].clientTag # tag)
  <2>1. /\ \A i \in Live(table) : table[i].inc \in Nat /\ table[i].inc <= incs
        /\ \A j \in DOMAIN mod : mod[j].tag \in Nat /\ mod[j].tag <= incs
    <3>1. /\ \A i \in Slots : table[i] \in Entry
          /\ \A j \in DOMAIN mod : mod[j] \in [tag : Nat, phase : Phase]
      BY DEF SockInv, TableInv, Typed, TypeOK
    <3>2. QED
      BY <1>8, <3>1 DEF Below, Live, Entry
  <2>2. \A k \in 1 .. Len(line) : /\ line[k].tag \in Nat /\ line[k].tag <= incs
                                  /\ line[k].t = "CLIENT" => line[k].clientTag \in Nat /\ line[k].clientTag <= incs
    BY <1>6, <1>8, FrameFields DEF Below
  <2>3. QED
    BY <1>2, <1>6, <2>1, <2>2
<1>10. client \notin DOMAIN mod
  BY <1>4 DEF FreshId
<1>11. \A j \in DOMAIN mod' : \/ j \in DOMAIN mod /\ mod'[j] = mod[j]
                              \/ j = client /\ mod'[j].tag = tag /\ mod'[j].phase = "connected"
  BY <1>5, <1>10
<1>12. ByFid(table, asked', line')
  <2>1. ByFid(table, asked, line) /\ m.t \notin {"CREATE_RESP", "TX_STATUS"}
    BY <1>3, MatchFacts
  <2>2. QED
    BY <1>3, <1>4, <1>6, <2>1, ByFidSays
<1>13. ASSUME NEW j \in 0 .. Len(line), NEW n, NEW t, n # 0, Serves(asked, mod, line, j, n, t)
       PROVE  Serves(asked', mod', line', j, n, t)
  <2>1. n # client
    BY <1>4, <1>6, <1>13 DEF Serves, FreshId
  <2>2. About(m, n) => m.tag = t
    BY <1>3, <1>13 DEF About, Serves
  <2>3. \A b \in asked' : b.kind = "option" /\ b.id = n => b.tag = t
    BY <1>4, <1>13 DEF Serves
  <2>4. n \in DOMAIN mod' => mod'[n].tag = t
    BY <1>11, <1>13, <2>1 DEF Serves
  <2>5. n \in DOMAIN mod => n \in DOMAIN mod'
    BY <1>5
  <2>6. QED
    BY <1>3, <1>6, <1>13, <2>2, <2>3, <2>4, <2>5, ServesAppended
<1>14. Serves(asked', mod', line', Len(line) + 1, m.client, m.clientTag)
  <2>1. \A k \in Len(line) + 1 + 1 .. Len(line') : FALSE
    BY <1>3, <1>6 DEF Appended
  <2>2. \A b \in asked' : ~(b.kind = "option" /\ b.id = client)
    BY <1>4 DEF FreshId
  <2>3. QED
    BY <1>3, <1>5, <2>1, <2>2 DEF Serves
<1>15. Serving(table, asked', mod', line')
  <2>1. m.t # "CREATE_RESP" /\ Serving(table, asked, mod, line) /\ Said(mod, line)
    BY <1>3, MatchFacts DEF Agreed
  <2>2. QED
    BY <1>6, <1>13, <1>14, <2>1, ServingGrows
<1>16. Placed(table, asked', mod', orphans)
  BY <1>4, <1>9, <1>11, MatchFacts DEF Placed
<1>17. Said(mod', line')
  <2>1. Said(mod, line)
    BY MatchFacts DEF Agreed
  <2>2. \A k \in 1 .. Len(line) : line[k].t = "CLIENT" =>
          /\ ~Answers(m, line[k].clientTag)
          /\ m.t = "CLIENT" => m.tag # line[k].clientTag /\ line[k].tag # m.clientTag
          /\ \A j \in DOMAIN mod' : mod'[j].tag = line[k].clientTag =>
               j \in DOMAIN mod /\ mod[j].tag = line[k].clientTag /\ mod'[j].phase = mod[j].phase
    <3> SUFFICES ASSUME NEW k \in 1 .. Len(line), line[k].t = "CLIENT"
                 PROVE  /\ ~Answers(m, line[k].clientTag)
                        /\ m.tag # line[k].clientTag /\ line[k].tag # m.clientTag
                        /\ \A j \in DOMAIN mod' : mod'[j].tag = line[k].clientTag =>
                             j \in DOMAIN mod /\ mod[j].tag = line[k].clientTag /\ mod'[j].phase = mod[j].phase
      OBVIOUS
    <3>1. mod[id].tag # line[k].clientTag
      <4>1. mod[id].tag = line[k].clientTag => mod[id].phase = "connected"
        BY <2>1 DEF Said
      <4>2. QED
        BY <1>4, <4>1
    <3>2. ~Answers(m, line[k].clientTag)
      BY <1>3 DEF Answers
    <3>3. QED
      BY <1>3, <1>9, <1>11, <3>1, <3>2
  <2>3. /\ m.t # "CREATE_RESP" /\ m.t # "ATTACH_RESP"
        /\ Unanswered(line, m.clientTag) /\ m.tag # m.clientTag
        /\ \A j \in DOMAIN mod' : mod'[j].tag = m.clientTag => mod'[j].phase = "connected"
    BY <1>3, <1>9, <1>11 DEF Unanswered, Answers
  <2>4. QED
    BY <1>6, <2>1, <2>2, <2>3, SaidGrows
<1>18. ASSUME NEW i \in Live(table) PROVE AgreedOn(table[i], mod', line')
  <2>1. AgreedOn(table[i], mod, line) /\ ~Answers(m, table[i].inc)
    BY <1>3, MatchFacts DEF Agreed, Answers
  <2>2. \A j \in DOMAIN mod' : mod'[j].tag = table[i].inc =>
          j \in DOMAIN mod /\ mod[j].tag = table[i].inc /\ mod'[j].phase = mod[j].phase
    BY <1>9, <1>11
  <2>3. QED
    BY <1>6, <2>1, <2>2, AgreedGrows
<1>19. Agreed(table, mod', line')
  BY <1>17, <1>18 DEF Agreed
<1>20. Remembered(table, asked', mod', line', orphans)
  <2> SUFFICES ASSUME NEW u, u \notin orphans,
                      \/ \E j \in DOMAIN mod' : mod'[j].tag = u
                      \/ \E b \in asked' : b.kind = "create" /\ b.tag = u
               PROVE  \/ \E i \in Live(table) : table[i].inc = u
                      \/ \E k \in 1 .. Len(line') : line'[k].t = "CLIENT" /\ line'[k].clientTag = u
    BY DEF Remembered
  <2>1. CASE u = tag
    BY <1>3, <1>7, <2>1
  <2>2. CASE u # tag
    <3>1. \/ \E j \in DOMAIN mod : mod[j].tag = u
          \/ \E b \in asked : b.kind = "create" /\ b.tag = u
      BY <1>4, <1>11, <2>2
    <3>2. \/ \E i \in Live(table) : table[i].inc = u
          \/ \E k \in 1 .. Len(line) : line[k].t = "CLIENT" /\ line[k].clientTag = u
      BY <3>1, MatchFacts DEF Remembered
    <3>3. QED
      BY <1>7, <3>2
  <2>3. QED
    BY <2>1, <2>2
<1>21. QED
  BY <1>4, <1>12, <1>15, <1>16, <1>19, <1>20 DEF Matched

-----------------------------------------------------------------------------
(* Every step, and what follows.                                              *)

LEMMA SockInit == Init => SockInv
<1> SUFFICES ASSUME Init PROVE SockInv
  OBVIOUS
<1>1. TableInv /\ ~misled
  BY TypedInit, NumberedInit DEF TableInv, Init
<1>2. Live(table) = {} /\ asked = {} /\ DOMAIN mod = {} /\ Len(line) = 0
  <2>1. ~Free.xbee
    BY DEF Free
  <2>2. QED
    BY <2>1 DEF Init, Live
<1>3. Matched(table, asked, mod, line, orphans)
  BY <1>2 DEF Matched, ByFid, Serving, Placed, Agreed, Said, Remembered
<1>4. QED
  BY <1>1, <1>3 DEF SockInv

LEMMA SockStep == SockInv /\ [Next]_vars /\ [FreshIds]_vars => SockInv'
<1> SUFFICES ASSUME SockInv, [Next]_vars, [FreshIds]_vars PROVE SockInv'
  OBVIOUS
<1>1. TableInv' /\ Typed'
  BY TableStep DEF SockInv, TableInv
<1>2. ~misled /\ Matched(table, asked, mod, line, orphans)
  BY DEF SockInv
<1>3. Matched(table', asked', mod', line', orphans') /\ ~misled'
  <2>1. CASE UNCHANGED vars
    <3>1. UNCHANGED <<table, asked, mod, line, orphans, misled>>
      BY <2>1 DEF vars
    <3>2. QED
      BY <1>2, <3>1
  <2>2. CASE Application
    <3>1. FreshIds \/ UNCHANGED vars
      OBVIOUS
    <3>2. CASE UNCHANGED vars
      BY <2>1, <3>2
    <3>3. CASE FreshIds
      <4>1. CASE \E p \in Protocol, ok \in BOOLEAN : Create(p, ok)
        <5>1. UNCHANGED misled
          BY <4>1 DEF Create
        <5>2. QED
          BY <1>1, <1>2, <3>3, <4>1, <5>1, MatchedCreate
      <4>2. CASE \E ok \in BOOLEAN : Reset(ok)
        <5>1. UNCHANGED misled
          BY <4>2 DEF Reset
        <5>2. QED
          BY <1>1, <1>2, <4>2, <5>1, MatchedReset
      <4>3. CASE \E x \in held, how \in {"connect", "bind", "listen"}, ok \in BOOLEAN : Attach(x, how, ok)
        <5>1. UNCHANGED misled
          BY <4>3 DEF Attach
        <5>2. QED
          BY <1>1, <1>2, <4>3, <5>1, MatchedAttach
      <4>4. CASE \E x \in held, ok \in BOOLEAN : Send(x, ok)
        <5>1. UNCHANGED misled
          BY <4>4 DEF Send
        <5>2. QED
          BY <1>1, <1>2, <3>3, <4>4, <5>1, MatchedSend
      <4>5. CASE \E x \in held, callback \in BOOLEAN, ok \in BOOLEAN : Option(x, callback, ok)
        <5>1. UNCHANGED misled
          BY <4>5 DEF Option
        <5>2. QED
          BY <1>1, <1>2, <4>5, <5>1, MatchedOption
      <4>6. CASE \E x \in held, ok \in BOOLEAN : Close(x, ok)
        <5>1. UNCHANGED misled
          BY <4>6 DEF Close
        <5>2. QED
          BY <1>1, <1>2, <4>6, <5>1, MatchedClose
      <4>7. QED
        BY <2>2, <4>1, <4>2, <4>3, <4>4, <4>5, <4>6 DEF Application
    <3>4. QED
      BY <3>1, <3>2, <3>3
  <2>3. CASE \E all \in BOOLEAN, k \in 0 .. SocketCount : CloseAll(all, k)
    <3>1. UNCHANGED misled
      BY <2>3 DEF CloseAll
    <3>2. QED
      BY <1>1, <1>2, <2>3, <3>1, MatchedCloseAll
  <2>4. CASE Module
    <3>1. CASE \E a \in asked, id \in ModuleIds : ModCreate(a, id)
      <4>1. UNCHANGED misled
        BY <3>1 DEF ModCreate
      <4>2. QED
        BY <1>1, <1>2, <3>1, <4>1, MatchedModCreate
    <3>2. CASE \E a \in asked : ModAnswer(a)
      <4>1. UNCHANGED misled
        BY <3>2 DEF ModAnswer
      <4>2. QED
        BY <1>1, <1>2, <3>2, <4>1, MatchedModAnswer
    <3>3. CASE \E id \in DOMAIN mod, good \in BOOLEAN : ModAttach(id, good)
      <4>1. UNCHANGED misled
        BY <3>3 DEF ModAttach
      <4>2. QED
        BY <1>1, <1>2, <3>3, <4>1, MatchedModAttach
    <3>4. CASE \E id \in DOMAIN mod : ModState(id)
      <4>1. UNCHANGED misled
        BY <3>4 DEF ModState
      <4>2. QED
        BY <1>1, <1>2, <3>4, <4>1, MatchedModState
    <3>5. CASE \E id \in DOMAIN mod, client \in ModuleIds : ModClient(id, client)
      <4>1. UNCHANGED misled
        BY <3>5 DEF ModClient
      <4>2. QED
        BY <1>1, <1>2, <3>5, <4>1, MatchedModClient
    <3>6. CASE \E id \in DOMAIN mod : ModReceive(id)
      <4>1. UNCHANGED misled
        BY <3>6 DEF ModReceive
      <4>2. QED
        BY <1>1, <1>2, <3>6, <4>1, MatchedModReceive
    <3>7. QED
      BY <2>4, <3>1, <3>2, <3>3, <3>4, <3>5, <3>6 DEF Module
  <2>5. CASE Handler
    <3>1. CASE \E act \in Acts : HandleTxStatus(act)
      BY <1>1, <3>1, MatchedHandleTxStatus
    <3>2. CASE \E act \in Acts : HandleCreateResp(act)
      BY <1>1, <3>2, MatchedHandleCreateResp
    <3>3. CASE \E act \in Acts : HandleAttachResp(act)
      BY <1>1, <3>3, MatchedHandleAttachResp
    <3>4. CASE \E t \in {"OPTION_RESP", "RECEIVE", "RECEIVE_FROM"} : HandleData(t)
      BY <1>1, <3>4, MatchedHandleData
    <3>5. CASE HandleState
      BY <1>1, <3>5, MatchedHandleState
    <3>6. CASE \E act \in {"accept", "reject", "close"}, ok \in BOOLEAN : HandleClient(act, ok)
      BY <1>1, <3>6, MatchedHandleClient
    <3>7. QED
      BY <2>5, <3>1, <3>2, <3>3, <3>4, <3>5, <3>6 DEF Handler
  <2>6. QED
    BY <2>1, <2>2, <2>3, <2>4, <2>5 DEF Next
<1>4. QED
  BY <1>1, <1>3 DEF SockInv

(* As long as no frame ID is given out again before its answer was read, the  *)
(* table, what the module was asked and what it says are about the same       *)
(* sockets.                                                                   *)
THEOREM AnswersMatched == Spec /\ [][FreshIds]_vars => []SockInv
<1>1. QED
  BY SockInit, SockStep, PTL DEF Spec

(* Then a callback is never told what happened to another socket.             *)
THEOREM NoticesOwn == Spec /\ [][FreshIds]_vars => []OwnNotice
<1>1. SockInv => OwnNotice
  BY DEF SockInv, OwnNotice
<1>2. QED
  BY <1>1, AnswersMatched, PTL

(* Then the callback of an established socket is of the kind that its type    *)
(* calls, whatever was attached before, refused or attached again.            *)
THEOREM CallbacksFit == Spec /\ [][FreshIds]_vars => []CallbackFits
<1>1. ASSUME SockInv PROVE CallbackFits
  BY <1>1, MatchFacts DEF CallbackFits, Agreed, AgreedOn, Fits, Live
<1>2. QED
  BY <1>1, AnswersMatched, PTL

(* Then the host's idea of a socket is the module's, once it has read what    *)
(* there is to read of it.                                                    *)
THEOREM HostKnows == Spec /\ [][FreshIds]_vars => []HostViewTrue
<1>1. ASSUME SockInv PROVE HostViewTrue
  <2> SUFFICES ASSUME NEW i \in Slots, NEW s, s = table[i],
                      s.xbee, s.inc \notin orphans, NoNews(s.inc)
               PROVE  LET Is(phase) == s.socket_id \in DOMAIN mod
                                       /\ mod[s.socket_id] = [tag |-> s.inc, phase |-> phase]
                      IN  /\ s.type = "PENDING" => \E a \in asked : a.kind = "create" /\ a.tag = s.inc
                          /\ s.type = "CREATED" => Is("idle")
                          /\ s.type = "ATTACH"  => Is("connecting") \/ Is("opening")
                          /\ s.type = "CONNECT" => Is("connected")
                          /\ s.type \in {"BIND", "LISTEN"} => Is("open")
    BY DEF HostViewTrue
  <2>1. i \in Live(table)
    BY DEF Live
  <2>2. ASSUME s.type = "PENDING" PROVE \E a \in asked : a.kind = "create" /\ a.tag = s.inc
    <3>1. CreateOwn(asked, line, table[i].create_frame_id, table[i].inc)
      BY <1>1, <2>1, <2>2, MatchFacts DEF ByFid
    <3>2. QED
      BY <3>1 DEF CreateOwn, NoNews
  <2>3. ASSUME s.type \in {"CREATED", "ATTACH", "CONNECT", "BIND", "LISTEN"}
        PROVE  /\ s.socket_id # 0 /\ s.socket_id \in DOMAIN mod
               /\ mod[s.socket_id] = [tag |-> s.inc, phase |-> Settled(s)]
    <3>1. s.socket_id # 0
      BY <1>1, <2>1, <2>3, MatchFacts DEF Placed
    <3>2. Serves(asked, mod, line, 0, s.socket_id, s.inc)
      BY <1>1, <2>1, <3>1, OwnerServes
    <3>3. line \in Seq(FrameType) /\ \A id \in DOMAIN mod : mod[id] \in [tag : Nat, phase : Phase]
      BY <1>1, MatchFacts DEF TableInv, Typed, TypeOK
    <3>4. ASSUME NEW k \in 0 + 1 .. Len(line), line[k].t = "STATE", line[k].id = s.socket_id
          PROVE  FALSE
      <4>1. About(line[k], s.socket_id)
        BY <3>4, StateIsAbout
      <4>2. line[k].tag = s.inc
        BY <3>2, <4>1 DEF Serves
      <4>3. k \in 1 .. Len(line)
        BY <3>3
      <4>4. QED
        BY <4>2, <4>3 DEF NoNews
    <3>5. s.socket_id \in DOMAIN mod /\ mod[s.socket_id].tag = s.inc
      BY <3>2, <3>4 DEF Serves
    <3>6. Unanswered(line, s.inc)
      BY DEF Unanswered, Answers, NoNews
    <3>7. mod[s.socket_id].phase = Settled(s)
      BY <1>1, <2>1, <3>5, <3>6, MatchFacts DEF Agreed, AgreedOn
    <3>8. QED
      BY <3>1, <3>3, <3>5, <3>7
  <2>4. /\ s.type = "CREATED" => Settled(s) = "idle"
        /\ s.type = "ATTACH" /\ s.socket_id # 0 => Settled(s) \in {"connecting", "opening"}
        /\ s.type = "CONNECT" => Settled(s) = "connected"
        /\ s.type \in {"BIND", "LISTEN"} => Settled(s) = "open"
    BY DEF Settled
  <2>5. QED
    BY <2>2, <2>3, <2>4
<1>2. QED
  BY <1>1, AnswersMatched, PTL

(* Then the module keeps no socket that the host has forgotten, but those it  *)
(* could not name, could not write about, or reset.                           *)
THEOREM NothingLeftBehind == Spec /\ [][FreshIds]_vars => []NoneForgotten
<1>1. ASSUME SockInv PROVE NoneForgotten
  BY <1>1, MatchFacts DEF NoneForgotten, Remembered, AtModule, Live
<1>2. QED
  BY <1>1, AnswersMatched, PTL
=============================================================================
