---------------------------- MODULE AtCmd_proof ----------------------------
(* The AT command layer for any users, query list, timeouts and bounds.  The  *)
(* functions of the code are operators from driver state to driver state, so  *)
(* that each has a lemma: from a sound state it leads to a sound one.  An     *)
(* action is one or two of them.  The second part is about a table without    *)
(* users, in which the driver's query is alone: what each function leaves in  *)
(* the slots, and what the flags then say.                                    *)
EXTENDS AtCmd, TLAPS

(* HandleSafe, of any driver state: between the calls nested in an action.    *)
Owned(s) == \A u \in Users :
  Valid(s, s.user[u]) => /\ s.table[s.user[u][1]].used
                         /\ s.table[s.user[u][1]].owner = u

(* A command that is out was sent by the request that carries its frame ID,   *)
(* if one does; OwnResponse, without regard to which request is found first.  *)
Traced(s) == ~s.shared =>
  \A x \in s.radio, i \in Slots :
    s.table[i].used /\ s.table[i].frame_id = x.frame_id => x.from = Handle(s, i)

Sound(s) == s \in Driver /\ Owned(s) /\ Traced(s)

Command == [frame_id : 1 .. MaxFrameId, command : CommandName,
            remote : BOOLEAN, from : Slots \X Sequence]

Owner == Users \union {Query, None}

-----------------------------------------------------------------------------
(* Fields.                                                                    *)

LEMMA Fields == ASSUME NEW s \in Driver
  PROVE  /\ s.flags \in SUBSET QueryFlag /\ s.auth_enabled \in BOOLEAN /\ s.wpan \in Wpan
         /\ s.frame_id \in 1 .. MaxFrameId
         /\ s.clc \in [status : {"RUNNING", "DONE", "TIMEOUT", "ERROR"},
                       start : 0 .. Len(Regs) - 1, index : 0 .. Len(Regs)]
         /\ s.table \in [Slots -> Request] /\ s.ticked \in BOOLEAN
         /\ s.radio \in SUBSET Command /\ s.user \in [Users -> HandleSpace]
         /\ s.shared \in BOOLEAN /\ s.cts \in BOOLEAN
  BY DEF Driver, Command

LEMMA SlotFields == ASSUME NEW s \in Driver, NEW i \in Slots
  PROVE  /\ s.table[i] \in Request /\ s.table[i].used \in BOOLEAN
         /\ s.table[i].sequence \in Sequence /\ s.table[i].left \in Nat
         /\ s.table[i].callback \in Owner /\ s.table[i].owner \in Owner
         /\ s.table[i].frame_id \in 0 .. MaxFrameId
         /\ s.table[i].command \in CommandName /\ s.table[i].remote \in BOOLEAN
  BY Fields DEF Request, Owner

LEMMA Constants == /\ SeqMod \in Nat /\ SeqMod > 2 /\ 0 \in Sequence
                   /\ Len(Regs) \in Nat /\ Len(Regs) > 0
                   /\ MaxFrameId \in Nat /\ MaxFrameId > 0
                   /\ None \in CommandName /\ None \in Owner /\ Query \in Owner
                   /\ RefreshIdx \in 0 .. Len(Regs) - 1
                   /\ {LocalTimeout, ReuseTimeout, RemoteTimeout} \subseteq Nat
  BY AtAssumption DEF Sequence, CommandName, Owner

LEMMA RegName == ASSUME NEW n \in 1 .. Len(Regs) PROVE Regs[n] \in CommandName
  BY DEF CommandName

LEMMA FreeType == ASSUME NEW seq \in Sequence
  PROVE  Free(seq) \in Request /\ ~Free(seq).used /\ Free(seq).sequence = seq /\ Free(seq).frame_id = 0
  BY Constants DEF Free, Request, Owner

-----------------------------------------------------------------------------
(* One request changes.                                                       *)

With(s, i, r) == [s EXCEPT !.table[i] = r]

LEMMA SetSlot ==
  ASSUME NEW s \in Driver, NEW i \in Slots, NEW r \in Request, NEW t, t = With(s, i, r)
  PROVE  /\ t \in Driver
         /\ t.user = s.user /\ t.radio = s.radio /\ t.shared = s.shared
         /\ \A j \in Slots : t.table[j] = IF j = i THEN r ELSE s.table[j]
<1>1. [s.table EXCEPT ![i] = r] \in [Slots -> Request]
  BY Fields
<1>2. t = [s EXCEPT !.table = [s.table EXCEPT ![i] = r]]
  BY DEF With
<1>3. t \in Driver
  BY <1>1, <1>2 DEF Driver
<1>4. t.table = [s.table EXCEPT ![i] = r] /\ t.user = s.user /\ t.radio = s.radio /\ t.shared = s.shared
  BY <1>2 DEF Driver
<1>5. s.table \in [Slots -> Request]
  BY Fields
<1>6. QED
  BY <1>3, <1>4, <1>5

LEMMA Adjusted ==
  ASSUME NEW s, Sound(s), NEW i \in Slots, NEW r \in Request,
         r.sequence = s.table[i].sequence, r.used = s.table[i].used,
         r.owner = s.table[i].owner, r.frame_id = s.table[i].frame_id,
         NEW t, t = With(s, i, r)
  PROVE  Sound(t)
<1>1. /\ t \in Driver
      /\ t.user = s.user /\ t.radio = s.radio /\ t.shared = s.shared
      /\ \A j \in Slots : t.table[j] = IF j = i THEN r ELSE s.table[j]
  <2>1. s \in Driver
    BY DEF Sound
  <2>2. QED
    BY <2>1, SetSlot
<1>2. \A j \in Slots : /\ t.table[j].sequence = s.table[j].sequence /\ t.table[j].used = s.table[j].used
                       /\ t.table[j].owner = s.table[j].owner /\ t.table[j].frame_id = s.table[j].frame_id
  BY <1>1
<1>3. \A u \in Users : s.user[u] # NoHandle => s.user[u][1] \in Slots
  BY Fields DEF Sound, HandleSpace
<1>4. Owned(t)
  BY <1>1, <1>2, <1>3 DEF Sound, Owned, Valid
<1>5. Traced(t)
  BY <1>1, <1>2 DEF Sound, Traced, Handle
<1>6. QED
  BY <1>1, <1>4, <1>5 DEF Sound

(* xbee_cmd_set_callback, xbee_cmd_set_target and the timeout.                *)
LEMMA Set ==
  ASSUME NEW s, Sound(s), NEW i \in Slots
  PROVE  /\ \A n \in Nat : Sound([s EXCEPT !.table[i].left = n])
         /\ \A c \in Owner : Sound([s EXCEPT !.table[i].callback = c])
         /\ \A b \in BOOLEAN : Sound([s EXCEPT !.table[i].remote = b])
         /\ \A c \in CommandName : Sound([s EXCEPT !.table[i].command = c])
<1>1. s \in Driver /\ s.table[i] \in Request /\ s.table \in [Slots -> Request]
  BY SlotFields, Fields DEF Sound
<1>2. ASSUME NEW n \in Nat PROVE Sound([s EXCEPT !.table[i].left = n])
  <2>1. PICK r : r = [s.table[i] EXCEPT !.left = n]
    OBVIOUS
  <2>2. /\ r \in Request /\ r.sequence = s.table[i].sequence /\ r.used = s.table[i].used
        /\ r.owner = s.table[i].owner /\ r.frame_id = s.table[i].frame_id
    BY <1>1, <2>1 DEF Request
  <2>3. [s EXCEPT !.table[i].left = n] = With(s, i, r)
    BY <2>1 DEF With
  <2>4. QED
    BY <2>2, <2>3, Adjusted
<1>3. ASSUME NEW c \in Owner PROVE Sound([s EXCEPT !.table[i].callback = c])
  <2>1. PICK r : r = [s.table[i] EXCEPT !.callback = c]
    OBVIOUS
  <2>2. /\ r \in Request /\ r.sequence = s.table[i].sequence /\ r.used = s.table[i].used
        /\ r.owner = s.table[i].owner /\ r.frame_id = s.table[i].frame_id
    BY <1>1, <2>1 DEF Request, Owner
  <2>3. [s EXCEPT !.table[i].callback = c] = With(s, i, r)
    BY <2>1 DEF With
  <2>4. QED
    BY <2>2, <2>3, Adjusted
<1>4. ASSUME NEW b \in BOOLEAN PROVE Sound([s EXCEPT !.table[i].remote = b])
  <2>1. PICK r : r = [s.table[i] EXCEPT !.remote = b]
    OBVIOUS
  <2>2. /\ r \in Request /\ r.sequence = s.table[i].sequence /\ r.used = s.table[i].used
        /\ r.owner = s.table[i].owner /\ r.frame_id = s.table[i].frame_id
    BY <1>1, <2>1 DEF Request
  <2>3. [s EXCEPT !.table[i].remote = b] = With(s, i, r)
    BY <2>1 DEF With
  <2>4. QED
    BY <2>2, <2>3, Adjusted
<1>5. ASSUME NEW c \in CommandName PROVE Sound([s EXCEPT !.table[i].command = c])
  <2>1. PICK r : r = [s.table[i] EXCEPT !.command = c]
    OBVIOUS
  <2>2. /\ r \in Request /\ r.sequence = s.table[i].sequence /\ r.used = s.table[i].used
        /\ r.owner = s.table[i].owner /\ r.frame_id = s.table[i].frame_id
    BY <1>1, <2>1 DEF Request
  <2>3. [s EXCEPT !.table[i].command = c] = With(s, i, r)
    BY <2>1 DEF With
  <2>4. QED
    BY <2>2, <2>3, Adjusted
<1>6. QED
  BY <1>2, <1>3, <1>4, <1>5

(* Fields that neither part of Sound reads.                                   *)
LEMMA Other ==
  ASSUME NEW s, Sound(s)
  PROVE  /\ \A f \in SUBSET QueryFlag : Sound([s EXCEPT !.flags = f])
         /\ \A b \in BOOLEAN : Sound([s EXCEPT !.auth_enabled = b])
         /\ \A w \in Wpan : Sound([s EXCEPT !.wpan = w])
         /\ \A c \in [status : {"RUNNING", "DONE", "TIMEOUT", "ERROR"},
                      start : 0 .. Len(Regs) - 1, index : 0 .. Len(Regs)] :
              Sound([s EXCEPT !.clc = c])
         /\ \A b \in BOOLEAN : Sound([s EXCEPT !.ticked = b])
         /\ \A b \in BOOLEAN : Sound([s EXCEPT !.cts = b])
<1>1. ASSUME NEW t \in Driver, t.table = s.table, t.user = s.user, t.radio = s.radio,
             t.shared = s.shared
      PROVE  Sound(t)
  BY <1>1 DEF Sound, Owned, Traced, Valid, Handle
<1>2. s \in Driver
  BY DEF Sound
<1>3. ASSUME NEW f \in SUBSET QueryFlag PROVE Sound([s EXCEPT !.flags = f])
  BY <1>1, <1>2 DEF Driver
<1>4. ASSUME NEW b \in BOOLEAN PROVE Sound([s EXCEPT !.auth_enabled = b])
  BY <1>1, <1>2 DEF Driver
<1>5. ASSUME NEW w \in Wpan PROVE Sound([s EXCEPT !.wpan = w])
  BY <1>1, <1>2 DEF Driver
<1>6. ASSUME NEW c \in [status : {"RUNNING", "DONE", "TIMEOUT", "ERROR"},
                        start : 0 .. Len(Regs) - 1, index : 0 .. Len(Regs)]
      PROVE  Sound([s EXCEPT !.clc = c])
  BY <1>1, <1>2 DEF Driver
<1>7. ASSUME NEW b \in BOOLEAN PROVE Sound([s EXCEPT !.ticked = b])
  BY <1>1, <1>2 DEF Driver
<1>8. ASSUME NEW b \in BOOLEAN PROVE Sound([s EXCEPT !.cts = b])
  BY <1>1, <1>2 DEF Driver
<1>9. QED
  BY <1>3, <1>4, <1>5, <1>6, <1>7, <1>8


LEMMA UserSlot == ASSUME NEW s \in Driver, NEW u \in Users, s.user[u] # NoHandle
                  PROVE  s.user[u][1] \in Slots /\ s.user[u][2] \in Sequence
  BY Fields DEF HandleSpace

(* A handle is given back or forgotten.                                       *)
LEMMA Forgotten ==
  ASSUME NEW s, Sound(s), NEW o
  PROVE  Sound([s EXCEPT !.user[o] = NoHandle])
<1>1. s \in Driver
  BY DEF Sound
<1>2. PICK t : t = [s EXCEPT !.user[o] = NoHandle]
  OBVIOUS
<1>3. NoHandle \in HandleSpace
  BY DEF HandleSpace
<1>4. PICK f \in [Users -> HandleSpace] : f = [s.user EXCEPT ![o] = NoHandle]
  BY <1>1, <1>3, Fields
<1>5. t = [s EXCEPT !.user = f]
  BY <1>2, <1>4
<1>6. t \in Driver
  BY <1>1, <1>5 DEF Driver
<1>7. t.user = f /\ t.table = s.table /\ t.radio = s.radio /\ t.shared = s.shared
  BY <1>1, <1>5 DEF Driver
<1>8. \A u \in Users : f[u] = s.user[u] \/ f[u] = NoHandle
  BY <1>1, <1>4, Fields
<1>9. Owned(t)
  <2> SUFFICES ASSUME NEW u \in Users, Valid(t, t.user[u])
               PROVE  t.table[t.user[u][1]].used /\ t.table[t.user[u][1]].owner = u
    BY DEF Owned
  <2>1. t.user[u] # NoHandle
    BY DEF Valid
  <2>2. t.user[u] = s.user[u]
    BY <1>7, <1>8, <2>1
  <2>3. Valid(s, s.user[u])
    BY <1>7, <2>2 DEF Valid
  <2>4. QED
    BY <1>7, <2>2, <2>3 DEF Sound, Owned
<1>10. Traced(t)
  BY <1>7 DEF Sound, Traced, Handle
<1>11. QED
  BY <1>2, <1>6, <1>9, <1>10 DEF Sound

(* _xbee_cmd_release_request: the next sequence number makes the handles of   *)
(* the request that was there dead.                                           *)
LEMMA ReleaseSound ==
  ASSUME NEW s, Sound(s), NEW i \in Slots
  PROVE  /\ Sound(Release(s, i)) /\ ~Release(s, i).table[i].used
         /\ \A j \in Slots \ {i} : Release(s, i).table[j] = s.table[j]
         /\ Release(s, i).flags = s.flags /\ Release(s, i).cts = s.cts
<1>1. s \in Driver
  BY DEF Sound
<1>2. PICK seq : seq = (s.table[i].sequence + 1) % SeqMod
  OBVIOUS
<1>3. seq \in Sequence /\ seq # s.table[i].sequence
  <2>1. PICK a \in Nat, m \in Nat : a = s.table[i].sequence /\ m = SeqMod /\ a < m /\ m > 2
    BY <1>1, SlotFields, Constants DEF Sequence
  <2>2. CASE a + 1 = m
    <3>1. m % m = 0
      BY <2>1
    <3>2. QED
      BY <1>2, <2>1, <2>2, <3>1 DEF Sequence
  <2>3. CASE a + 1 < m
    <3>1. (a + 1) % m = a + 1
      BY <2>1, <2>3
    <3>2. QED
      BY <1>2, <2>1, <2>3, <3>1 DEF Sequence
  <2>4. QED
    BY <2>1, <2>2, <2>3
<1>4. PICK g : g = [u \in Users |-> IF s.user[u] = <<i, seq>> THEN NoHandle ELSE s.user[u]]
  OBVIOUS
<1>5. NoHandle \in HandleSpace
  BY DEF HandleSpace
<1>6. g \in [Users -> HandleSpace]
  BY <1>1, <1>4, <1>5, Fields
<1>7. PICK r \in Request : r = Free(seq)
  BY <1>3, FreeType
<1>8. ~r.used /\ r.sequence = seq /\ r.frame_id = 0
  BY <1>3, <1>7, FreeType
<1>9. PICK t : t = Release(s, i)
  OBVIOUS
<1>10. t = [s EXCEPT !.table[i] = r, !.user = g]
  BY <1>2, <1>4, <1>7, <1>9 DEF Release
<1>11. PICK m : m = With(s, i, r)
  OBVIOUS
<1>12. /\ m \in Driver /\ \A j \in Slots : m.table[j] = IF j = i THEN r ELSE s.table[j]
       /\ m.radio = s.radio /\ m.shared = s.shared
  BY <1>1, <1>11, SetSlot
<1>13. t = [m EXCEPT !.user = g]
  BY <1>1, <1>10, <1>11 DEF Driver, With
<1>14. t \in Driver
  BY <1>6, <1>12, <1>13 DEF Driver
<1>15. t.user = g /\ t.table = m.table /\ t.radio = s.radio /\ t.shared = s.shared
  BY <1>12, <1>13 DEF Driver
<1>16. t.flags = s.flags /\ t.cts = s.cts
  BY <1>1, <1>10 DEF Driver
<1>17. Owned(t)
  <2> SUFFICES ASSUME NEW u \in Users, Valid(t, t.user[u])
               PROVE  t.table[t.user[u][1]].used /\ t.table[t.user[u][1]].owner = u
    BY DEF Owned
  <2>1. t.user[u] # NoHandle /\ t.user[u] = g[u]
    BY <1>15 DEF Valid
  <2>2. g[u] = s.user[u] /\ s.user[u] # <<i, seq>>
    BY <1>4, <2>1
  <2>3. s.user[u][1] \in Slots /\ s.user[u] = <<s.user[u][1], s.user[u][2]>>
    BY <1>1, <2>1, <2>2, Fields DEF HandleSpace
  <2>4. s.user[u][1] # i
    BY <1>8, <1>12, <1>15, <2>1, <2>2, <2>3 DEF Valid
  <2>5. t.table[s.user[u][1]] = s.table[s.user[u][1]]
    BY <1>12, <1>15, <2>3, <2>4
  <2>6. Valid(s, s.user[u])
    BY <2>1, <2>2, <2>5 DEF Valid
  <2>7. QED
    BY <2>1, <2>2, <2>5, <2>6 DEF Sound, Owned
<1>18. Traced(t)
  BY <1>8, <1>12, <1>15 DEF Sound, Traced, Handle
<1>19. QED
  BY <1>8, <1>9, <1>12, <1>14, <1>15, <1>16, <1>17, <1>18 DEF Sound

(* The command of a request goes out under the frame ID it carries.           *)
LEMMA EmitSound ==
  ASSUME NEW s, Sound(s), NEW i \in Slots, s.table[i].frame_id # 0,
         ~s.shared => \A j \in Slots \ {i} : s.table[j].used => s.table[j].frame_id # s.table[i].frame_id
  PROVE  Sound(Emit(s, i))
<1>1. s \in Driver
  BY DEF Sound
<1>2. PICK x : x = [frame_id |-> s.table[i].frame_id, command |-> s.table[i].command,
                    remote |-> s.table[i].remote, from |-> Handle(s, i)]
  OBVIOUS
<1>3. x \in Command
  <2>1. s.table[i].frame_id \in 1 .. MaxFrameId
    BY <1>1, SlotFields, Constants
  <2>2. QED
    BY <1>1, <1>2, <2>1, SlotFields DEF Command, Handle
<1>4. PICK t : t = Emit(s, i)
  OBVIOUS
<1>5. t = [s EXCEPT !.radio = s.radio \union {x}]
  BY <1>2, <1>4 DEF Emit
<1>6. t \in Driver
  <2>1. s.radio \union {x} \in SUBSET Command
    BY <1>1, <1>3, Fields
  <2>2. QED
    BY <1>1, <1>5, <2>1 DEF Driver, Command
<1>7. t.user = s.user /\ t.table = s.table /\ t.radio = s.radio \union {x} /\ t.shared = s.shared
  BY <1>1, <1>5 DEF Driver
<1>8. Owned(t)
  BY <1>7 DEF Sound, Owned, Valid
<1>9. Traced(t)
  BY <1>2, <1>7 DEF Sound, Traced, Handle
<1>10. QED
  BY <1>4, <1>6, <1>8, <1>9 DEF Sound

LEMMA NextIsId == ASSUME NEW n \in 1 .. MaxFrameId PROVE NextFrameId(n) \in 1 .. MaxFrameId
  BY Constants DEF NextFrameId

(* The part of xbee_cmd_send before the frame is written.                     *)
Numbered(s, i, fid) ==
  [s EXCEPT !.table[i].frame_id = fid,
            !.frame_id = IF fid = 0 THEN @ ELSE fid,
            !.radio = {x \in @ : x.frame_id # fid},
            !.shared = @ \/ (fid # 0 /\ Carried(s, fid, i))]

LEMMA NumberedSound ==
  ASSUME NEW s, Sound(s), NEW i \in Slots, NEW fid \in 0 .. MaxFrameId
  PROVE  /\ Sound(Numbered(s, i, fid))
         /\ Numbered(s, i, fid).shared = (s.shared \/ (fid # 0 /\ Carried(s, fid, i)))
         /\ Numbered(s, i, fid).table[i].frame_id = fid
         /\ \A j \in Slots \ {i} : Numbered(s, i, fid).table[j] = s.table[j]
<1>1. s \in Driver
  BY DEF Sound
<1>2. PICK t : t = Numbered(s, i, fid)
  OBVIOUS
<1>3. PICK r : r = [s.table[i] EXCEPT !.frame_id = fid]
  OBVIOUS
<1>4. /\ r \in Request /\ r.sequence = s.table[i].sequence /\ r.used = s.table[i].used
      /\ r.owner = s.table[i].owner /\ r.frame_id = fid
  <2>1. s.table[i] \in Request
    BY <1>1, SlotFields
  <2>2. QED
    BY <1>3, <2>1 DEF Request
<1>5. PICK m : m = With(s, i, r)
  OBVIOUS
<1>6. /\ m \in Driver /\ \A j \in Slots : m.table[j] = IF j = i THEN r ELSE s.table[j]
      /\ m.user = s.user /\ m.radio = s.radio /\ m.shared = s.shared
  BY <1>1, <1>4, <1>5, SetSlot
<1>7. PICK c \in BOOLEAN : c = (s.shared \/ (fid # 0 /\ Carried(s, fid, i)))
  <2>1. s.shared \in BOOLEAN
    BY <1>1, Fields
  <2>2. QED
    BY <2>1
<1>8. PICK n \in 1 .. MaxFrameId : n = IF fid = 0 THEN s.frame_id ELSE fid
  <2>1. s.frame_id \in 1 .. MaxFrameId
    BY <1>1, Fields
  <2>2. QED
    BY <2>1, Constants
<1>9. PICK R \in SUBSET Command : R = {x \in s.radio : x.frame_id # fid}
  BY <1>1, Fields
<1>10. t = [m EXCEPT !.frame_id = n, !.radio = R, !.shared = c]
  <2>1. m.table = [s.table EXCEPT ![i] = r] /\ m = [s EXCEPT !.table = [s.table EXCEPT ![i] = r]]
    BY <1>1, <1>5 DEF With, Driver
  <2>2. t = [s EXCEPT !.table = [s.table EXCEPT ![i] = r], !.frame_id = n, !.radio = R, !.shared = c]
    BY <1>2, <1>3, <1>7, <1>8, <1>9 DEF Numbered
  <2>3. QED
    BY <1>1, <2>1, <2>2 DEF Driver
<1>11. t \in Driver /\ t.table = m.table /\ t.user = s.user /\ t.radio = R /\ t.shared = c
  BY <1>6, <1>10 DEF Driver, Command
<1>12. \A j \in Slots : t.table[j] = IF j = i THEN r ELSE s.table[j]
  BY <1>6, <1>11
<1>13. Owned(t)
  <2> SUFFICES ASSUME NEW u \in Users, Valid(t, t.user[u])
               PROVE  t.table[t.user[u][1]].used /\ t.table[t.user[u][1]].owner = u
    BY DEF Owned
  <2>1. s.user[u] # NoHandle /\ t.user[u] = s.user[u]
    BY <1>11 DEF Valid
  <2>2. s.user[u][1] \in Slots
    BY <1>1, <2>1, UserSlot
  <2>3. Valid(s, s.user[u])
    BY <1>4, <1>12, <2>1, <2>2 DEF Valid
  <2>4. QED
    BY <1>4, <1>12, <2>1, <2>2, <2>3 DEF Sound, Owned
<1>14. Traced(t)
  <2> SUFFICES ASSUME ~c, NEW x \in R, NEW j \in Slots, t.table[j].used, t.table[j].frame_id = x.frame_id
               PROVE  x.from = Handle(t, j)
    BY <1>11 DEF Traced
  <2>1. x \in s.radio /\ x.frame_id # fid /\ ~s.shared
    BY <1>7, <1>9
  <2>2. j # i
    BY <1>4, <1>12, <2>1
  <2>3. QED
    BY <1>12, <2>1, <2>2 DEF Sound, Traced, Handle
<1>15. QED
  BY <1>2, <1>4, <1>7, <1>11, <1>12, <1>13, <1>14 DEF Sound

(* xbee_cmd_send, of a handle of any age.                                     *)
LEMMA SendSound ==
  ASSUME NEW s, Sound(s), NEW h, h # NoHandle => h[1] \in Slots
  PROVE  Sound(Send(s, h))
<1>1. CASE ~Valid(s, h)
  BY <1>1 DEF Send
<1>2. CASE Valid(s, h)
  <2>1. s \in Driver
    BY DEF Sound
  <2>2. PICK i \in Slots : i = h[1]
    BY <1>2 DEF Valid
  <2>3. PICK fid \in 0 .. MaxFrameId : fid = IF s.table[i].callback = None THEN 0 ELSE NextFrameId(s.frame_id)
    <3>1. s.frame_id \in 1 .. MaxFrameId
      BY <2>1, Fields
    <3>2. NextFrameId(s.frame_id) \in 1 .. MaxFrameId
      BY <3>1, NextIsId
    <3>3. QED
      BY <3>2, Constants
  <2>4. PICK t : t = Numbered(s, i, fid)
    OBVIOUS
  <2>5. /\ Sound(t) /\ t.table[i].frame_id = fid
        /\ t.shared = (s.shared \/ (fid # 0 /\ Carried(s, fid, i)))
        /\ \A j \in Slots \ {i} : t.table[j] = s.table[j]
    BY <2>4, NumberedSound
  <2>6. PICK n \in Nat : n = IF s.table[i].remote THEN RemoteTimeout ELSE LocalTimeout
    BY Constants
  <2>7. Send(s, h) = IF ~s.cts THEN t
                     ELSE IF fid = 0 THEN Release(t, i)
                     ELSE Emit([t EXCEPT !.table[i].left = n], i)
    BY <1>2, <2>2, <2>3, <2>4, <2>6 DEF Send, Numbered
  <2>8. Sound(Release(t, i))
    BY <2>5, ReleaseSound
  <2>9. CASE s.cts /\ fid # 0
    <3>1. PICK v : v = [t EXCEPT !.table[i].left = n]
      OBVIOUS
    <3>2. Sound(v)
      BY <2>5, <3>1, Set
    <3>3. t \in Driver
      BY <2>5 DEF Sound
    <3>4. /\ v.shared = t.shared /\ v.table[i].frame_id = fid
          /\ \A j \in Slots \ {i} : v.table[j] = t.table[j]
      BY <2>5, <3>1, <3>3 DEF Driver, Request
    <3>5. ~v.shared => \A j \in Slots \ {i} : v.table[j].used => v.table[j].frame_id # v.table[i].frame_id
      BY <2>5, <2>9, <3>4 DEF Carried
    <3>6. Sound(Emit(v, i))
      BY <2>9, <3>2, <3>4, <3>5, EmitSound
    <3>7. QED
      BY <2>7, <2>9, <3>1, <3>6
  <2>10. QED
    BY <2>5, <2>7, <2>8, <2>9
<1>3. QED
  BY <1>1, <1>2

-----------------------------------------------------------------------------
(* Creating a request.                                                        *)

LEMMA FirstFreeIs == ASSUME NEW s \in Driver
  PROVE  \/ FirstFree(s) = NoSlot
         \/ FirstFree(s) \in Slots /\ FirstFree(s) # NoSlot /\ ~s.table[FirstFree(s)].used
  BY DEF FirstFree, NoSlot, Slots

(* The new request has the sequence number of the free slot, for which no     *)
(* handle is held.                                                            *)
LEMMA AllocSound ==
  ASSUME NEW s, Sound(s), NEW command \in CommandName, NEW owner \in Owner,
         NEW c, c = Alloc(s, command, owner)
  PROVE  /\ Sound(c.drv)
         /\ c.slot # NoSlot =>
              /\ c.slot \in Slots /\ c.drv.table[c.slot].used /\ c.drv.table[c.slot].owner = owner
              /\ \A u \in Users : ~Valid(c.drv, s.user[u]) \/ s.user[u][1] # c.slot
         /\ c.drv.user = s.user
<1>1. s \in Driver
  BY DEF Sound
<1>2. PICK i : i = FirstFree(s)
  OBVIOUS
<1>3. CASE i = NoSlot
  <2>1. c = [drv |-> s, slot |-> NoSlot]
    BY <1>2, <1>3 DEF Alloc
  <2>2. QED
    BY <2>1
<1>4. CASE i # NoSlot
  <2>1. i \in Slots /\ ~s.table[i].used
    BY <1>1, <1>2, <1>4, FirstFreeIs
  <2>2. PICK r : r = [Free(s.table[i].sequence) EXCEPT !.used = TRUE, !.left = LocalTimeout,
                                                       !.command = command, !.owner = owner]
    OBVIOUS
  <2>3. /\ r \in Request /\ r.used /\ r.owner = owner /\ r.frame_id = 0
        /\ r.sequence = s.table[i].sequence
    <3>1. s.table[i].sequence \in Sequence
      BY <1>1, <2>1, SlotFields
    <3>2. PICK f \in Request : f = Free(s.table[i].sequence)
      BY <3>1, FreeType
    <3>3. f.sequence = s.table[i].sequence /\ f.frame_id = 0
      BY <3>1, <3>2, FreeType
    <3>4. r = [f EXCEPT !.used = TRUE, !.left = LocalTimeout, !.command = command, !.owner = owner]
      BY <2>2, <3>2
    <3>5. LocalTimeout \in Nat
      BY Constants
    <3>6. QED
      BY <3>3, <3>4, <3>5 DEF Request, Owner
  <2>4. PICK t : t = With(s, i, r)
    OBVIOUS
  <2>5. /\ t \in Driver /\ \A j \in Slots : t.table[j] = IF j = i THEN r ELSE s.table[j]
        /\ t.user = s.user /\ t.radio = s.radio /\ t.shared = s.shared
    BY <1>1, <2>1, <2>3, <2>4, SetSlot
  <2>6. c = [drv |-> t, slot |-> i]
    BY <1>2, <1>4, <2>2, <2>4 DEF Alloc, With
  <2>7. ASSUME NEW u \in Users, Valid(t, s.user[u])
        PROVE  s.user[u][1] \in Slots \ {i} /\ Valid(s, s.user[u])
    <3>1. s.user[u] # NoHandle
      BY <2>7 DEF Valid
    <3>2. s.user[u][1] \in Slots
      BY <1>1, <3>1, UserSlot
    <3>3. Valid(s, s.user[u])
      BY <2>3, <2>5, <2>7, <3>1, <3>2 DEF Valid
    <3>4. s.table[s.user[u][1]].used
      BY <3>3 DEF Sound, Owned
    <3>5. QED
      BY <2>1, <3>2, <3>3, <3>4
  <2>8. Owned(t)
    <3> SUFFICES ASSUME NEW u \in Users, Valid(t, s.user[u])
                 PROVE  t.table[s.user[u][1]].used /\ t.table[s.user[u][1]].owner = u
      BY <2>5 DEF Owned
    <3>1. s.user[u][1] \in Slots \ {i} /\ Valid(s, s.user[u])
      BY <2>7
    <3>2. QED
      BY <2>5, <3>1 DEF Sound, Owned
  <2>9. Traced(t)
    <3>1. \A x \in s.radio : x.frame_id # 0
      BY <1>1, Fields, Constants DEF Command
    <3>2. QED
      BY <2>3, <2>5, <3>1 DEF Sound, Traced, Handle
  <2>10. Sound(t)
    BY <2>5, <2>8, <2>9 DEF Sound
  <2>11. c.drv = t /\ c.slot = i
    BY <2>6
  <2>12. QED
    BY <2>1, <2>3, <2>5, <2>7, <2>10, <2>11
<1>5. QED
  BY <1>3, <1>4

-----------------------------------------------------------------------------
(* The query.                                                                 *)

LEMMA ListBeginSound ==
  ASSUME NEW s, Sound(s), NEW start \in 0 .. Len(Regs) - 1
  PROVE  Sound(ListBegin(s, start))
<1>1. [status |-> "RUNNING", start |-> start, index |-> 0]
        \in [status : {"RUNNING", "DONE", "TIMEOUT", "ERROR"},
             start : 0 .. Len(Regs) - 1, index : 0 .. Len(Regs)]
  BY Constants
<1>2. QED
  BY <1>1, Other DEF ListBegin

LEMMA ListExecuteSound ==
  ASSUME NEW s, Sound(s), NEW start \in 0 .. Len(Regs) - 1
  PROVE  Sound(ListExecute(s, start).drv) /\ ListExecute(s, start).ok \in BOOLEAN
<1>1. Regs[start + 1] \in CommandName
  BY RegName, Constants
<1>2. PICK c : c = Alloc(s, Regs[start + 1], Query)
  OBVIOUS
<1>3. Sound(c.drv) /\ (c.slot # NoSlot => c.slot \in Slots)
  BY <1>1, <1>2, AllocSound, Constants
<1>4. PICK t : t = [c.drv EXCEPT !.table[c.slot].callback = Query]
  OBVIOUS
<1>5. PICK e : e = ListExecute(s, start)
  OBVIOUS
<1>6. CASE c.slot = NoSlot
  <2>1. e = [drv |-> c.drv, ok |-> FALSE]
    BY <1>2, <1>5, <1>6 DEF ListExecute
  <2>2. QED
    BY <1>3, <1>5, <2>1
<1>7. CASE c.slot # NoSlot
  <2>1. Sound(t)
    BY <1>3, <1>4, <1>7, Set, Constants
  <2>2. PICK h : h = Handle(t, c.slot)
    OBVIOUS
  <2>3. h[1] \in Slots
    BY <1>3, <1>7, <2>2 DEF Handle
  <2>4. e = [drv |-> Send(t, h), ok |-> s.cts]
    BY <1>2, <1>4, <1>5, <1>7, <2>2 DEF ListExecute
  <2>5. Sound(Send(t, h))
    BY <2>1, <2>3, SendSound
  <2>6. s.cts \in BOOLEAN
    BY Fields DEF Sound
  <2>7. QED
    BY <1>5, <2>4, <2>5, <2>6
<1>8. QED
  BY <1>6, <1>7

LEMMA StartType == ASSUME NEW refresh \in BOOLEAN PROVE Start(refresh) \in 0 .. Len(Regs) - 1
  BY Constants DEF Start

LEMMA QueryBeginSound ==
  ASSUME NEW s, Sound(s), NEW refresh \in BOOLEAN PROVE Sound(QueryBegin(s, refresh))
<1>1. PICK a : a = IF refresh THEN [s EXCEPT !.flags = s.flags \union {"REFRESH"}] ELSE s
  OBVIOUS
<1>2. Sound(a)
  <2>1. s.flags \union {"REFRESH"} \in SUBSET QueryFlag
    BY Fields DEF Sound, QueryFlag
  <2>2. QED
    BY <1>1, <2>1, Other
<1>3. Sound(ListBegin(a, Start(refresh)))
  BY <1>2, StartType, ListBeginSound
<1>4. QED
  BY <1>1, <1>2, <1>3 DEF QueryBegin

LEMMA QueryDeviceSound ==
  ASSUME NEW s, Sound(s), NEW room, Sound(room), NEW refresh \in BOOLEAN
  PROVE  Sound(QueryDevice(s, refresh, room))
<1>1. PICK r : r = ListExecute(room, Start(refresh))
  OBVIOUS
<1>2. Sound(r.drv)
  BY <1>1, StartType, ListExecuteSound
<1>3. PICK n : n = [r.drv EXCEPT !.flags = (r.drv.flags \union {"BEGIN", "INPROGRESS"})
                                             \ {"ERROR", "DONE", "REFRESH"}]
  OBVIOUS
<1>4. Sound(n)
  <2>1. (r.drv.flags \union {"BEGIN", "INPROGRESS"}) \ {"ERROR", "DONE", "REFRESH"} \in SUBSET QueryFlag
    BY <1>2, Fields DEF Sound, QueryFlag
  <2>2. QED
    BY <1>2, <1>3, <2>1, Other
<1>5. QueryDevice(s, refresh, room) \in {QueryBegin(s, refresh), n, r.drv}
  BY <1>1, <1>3 DEF QueryDevice
<1>6. QED
  BY <1>2, <1>4, <1>5, QueryBeginSound

(* The same with the flag given, for the calls that refresh and the one that  *)
(* does not.                                                                  *)
LEMMA QueryFixed ==
  ASSUME NEW s, Sound(s), NEW room, Sound(room)
  PROVE  /\ Sound(QueryBegin(s, TRUE)) /\ Sound(QueryBegin(s, FALSE))
         /\ Sound(QueryDevice(s, TRUE, room)) /\ Sound(QueryDevice(s, FALSE, room))
         /\ Sound(QueryInTick(s, TRUE))
<1>1. \A b \in BOOLEAN : Sound(QueryBegin(s, b)) /\ Sound(QueryDevice(s, b, room)) /\ Sound(QueryInTick(s, b))
  <2> SUFFICES ASSUME NEW b \in BOOLEAN
               PROVE  Sound(QueryBegin(s, b)) /\ Sound(QueryDevice(s, b, room)) /\ Sound(QueryInTick(s, b))
    OBVIOUS
  <2>1. PICK q : q = QueryBegin(s, b)
    OBVIOUS
  <2>2. Sound(q)
    BY <2>1, QueryBeginSound
  <2>3. Sound(QueryDevice(s, b, q))
    BY <2>2, QueryDeviceSound
  <2>4. QED
    BY <2>1, <2>2, <2>3, QueryDeviceSound DEF QueryInTick
<1>2. QED
  BY <1>1, Zenon

LEMMA QueryOverSound == ASSUME NEW s, Sound(s), NEW result PROVE Sound(QueryOver(s, result))
<1>1. PICK f : f = QueryOver(s, result).flags
  OBVIOUS
<1>2. PICK over : over = (s.flags \ {"INPROGRESS"}) \union {EndFlag(result)}
  OBVIOUS
<1>3. PICK g \in SUBSET QueryFlag : QueryOver(s, result) = [s EXCEPT !.flags = g]
  <2>1. over \in SUBSET QueryFlag /\ over \union {"REFRESH"} \in SUBSET QueryFlag
    BY <1>2, Fields DEF Sound, QueryFlag, EndFlag
  <2>2. QueryOver(s, result) \in {[s EXCEPT !.flags = over], [s EXCEPT !.flags = over \union {"REFRESH"}]}
    BY <1>2 DEF QueryOver
  <2>3. QED
    BY <2>1, <2>2
<1>4. QED
  BY <1>3, Other

LEMMA RefreshBeginSound == ASSUME NEW s, Sound(s), NEW result PROVE Sound(RefreshBegin(s, result))
<1>1. PICK t : t = QueryOver(s, result)
  OBVIOUS
<1>2. Sound(t)
  BY <1>1, QueryOverSound
<1>3. Sound(QueryBegin(t, TRUE))
  BY <1>2, QueryFixed
<1>4. QED
  BY <1>1, <1>3, Zenon DEF RefreshBegin

LEMMA QueryEndSound ==
  ASSUME NEW s, Sound(s), NEW room, Sound(room), NEW result PROVE Sound(QueryEnd(s, result, room))
<1>1. PICK t : t = QueryOver(s, result)
  OBVIOUS
<1>2. Sound(t)
  BY <1>1, QueryOverSound
<1>3. Sound(QueryDevice(t, TRUE, room))
  BY <1>2, QueryFixed
<1>4. QueryEnd(s, result, room) = QueryDevice(t, TRUE, room) \/ QueryEnd(s, result, room) = t
  BY <1>1, Zenon DEF QueryEnd
<1>5. QED
  BY <1>2, <1>3, <1>4, Zenon

LEMMA RegCopySound == ASSUME NEW s, Sound(s), NEW command, NEW value PROVE Sound(RegCopy(s, command, value))
<1>1. s \in Driver /\ s.wpan \in Wpan
  BY Fields DEF Sound
<1>2. PICK a \in NetAddr : a = NetworkOf(value)
  BY DEF NetworkOf, NetAddr
<1>3. PICK w : w = [s.wpan EXCEPT !.network = a]
  OBVIOUS
<1>4. w \in Wpan
  BY <1>1, <1>3 DEF Wpan
<1>5. [s EXCEPT !.wpan.network = NetworkOf(value)] = [s EXCEPT !.wpan = w]
  BY <1>2, <1>3
<1>6. QED
  BY <1>4, <1>5, Other DEF RegCopy

LEMMA RegCallbackSound ==
  ASSUME NEW s, Sound(s), NEW command, NEW value PROVE Sound(RegCallback(s, command, value))
<1>1. s \in Driver /\ s.wpan \in Wpan /\ s.auth_enabled \in BOOLEAN
  BY Fields DEF Sound
<1>2. PICK b \in BOOLEAN : b = (value = "FFFE")
  OBVIOUS
<1>3. PICK w : w = [s.wpan EXCEPT !.joined = TRUE, !.authenticated = s.wpan.authenticated \/ s.auth_enabled]
  OBVIOUS
<1>4. w \in Wpan
  BY <1>1, <1>3 DEF Wpan
<1>5. RegCallback(s, command, value) \in {[s EXCEPT !.auth_enabled = b], [s EXCEPT !.wpan = w], s}
  BY <1>1, <1>2, <1>3 DEF RegCallback
<1>6. QED
  BY <1>4, <1>5, Other

-----------------------------------------------------------------------------
(* Expiry.                                                                    *)

LEMMA SendOwn == ASSUME NEW s, Sound(s), NEW i \in Slots PROVE Sound(Send(s, Handle(s, i)))
<1>1. PICK h : h = Handle(s, i)
  OBVIOUS
<1>2. h[1] \in Slots
  BY <1>1 DEF Handle
<1>3. QED
  BY <1>1, <1>2, SendSound

LEMMA UserCallbackSound ==
  ASSUME NEW s, Sound(s), NEW i \in Slots, NEW outcome PROVE Sound(UserCallback(s, i, outcome))
<1>1. PICK d : d = [s EXCEPT !.user[s.table[i].owner] = NoHandle]
  OBVIOUS
<1>2. Sound(d)
  BY <1>1, Forgotten
<1>3. UserCallback(s, i, outcome) \in {d, Send(s, Handle(s, i)), s}
  BY <1>1 DEF UserCallback
<1>4. QED
  BY <1>2, <1>3, SendOwn

LEMMA Ended ==
  ASSUME NEW s, Sound(s), NEW status \in {"RUNNING", "DONE", "TIMEOUT", "ERROR"}
  PROVE  /\ Sound([s EXCEPT !.clc.status = status])
         /\ s.clc.index + 1 \in 0 .. Len(Regs) =>
              /\ Sound([s EXCEPT !.clc.index = s.clc.index + 1])
              /\ Sound([s EXCEPT !.clc.index = s.clc.index + 1, !.clc.status = status])
<1> DEFINE Clc == [status : {"RUNNING", "DONE", "TIMEOUT", "ERROR"},
                   start : 0 .. Len(Regs) - 1, index : 0 .. Len(Regs)]
<1>1. s \in Driver /\ s.clc \in Clc
  BY Fields DEF Sound
<1>2. Sound([s EXCEPT !.clc.status = status])
  <2>1. PICK c : c = [s.clc EXCEPT !.status = status]
    OBVIOUS
  <2>2. c \in Clc
    BY <1>1, <2>1
  <2>3. [s EXCEPT !.clc.status = status] = [s EXCEPT !.clc = c]
    BY <2>1
  <2>4. QED
    BY <2>2, <2>3, Other
<1>3. ASSUME s.clc.index + 1 \in 0 .. Len(Regs)
      PROVE  /\ Sound([s EXCEPT !.clc.index = s.clc.index + 1])
             /\ Sound([s EXCEPT !.clc.index = s.clc.index + 1, !.clc.status = status])
  <2>1. PICK c : c = [s.clc EXCEPT !.index = s.clc.index + 1]
    OBVIOUS
  <2>2. PICK d : d = [s.clc EXCEPT !.index = s.clc.index + 1, !.status = status]
    OBVIOUS
  <2>3. c \in Clc /\ d \in Clc
    BY <1>1, <1>3, <2>1, <2>2
  <2>4. [s EXCEPT !.clc.index = s.clc.index + 1] = [s EXCEPT !.clc = c]
    BY <2>1
  <2>5. [s EXCEPT !.clc.index = s.clc.index + 1, !.clc.status = status] = [s EXCEPT !.clc = d]
    BY <1>1, <2>2 DEF Driver
  <2>6. QED
    BY <2>3, <2>4, <2>5, Other
<1>4. QED
  BY <1>2, <1>3

(* One request, timed out or not.                                             *)
LEMMA ExpireSound ==
  ASSUME NEW s, Sound(s), NEW i \in Slots, NEW outcome PROVE Sound(Expire(s, i, outcome))
<1>1. PICK r : r = s.table[i]
  OBVIOUS
<1>2. PICK late : late = [s EXCEPT !.clc.status = "TIMEOUT"]
  OBVIOUS
<1>3. Sound(late)
  BY <1>2, Ended
<1>4. Sound(QueryEnd(late, "timeout", RefreshBegin(late, "timeout")))
  <2>1. PICK room : room = RefreshBegin(late, "timeout")
    OBVIOUS
  <2>2. Sound(room)
    BY <1>3, <2>1, RefreshBeginSound
  <2>3. QED
    BY <1>3, <2>1, <2>2, QueryEndSound
<1>5. PICK after : after = IF r.callback = None THEN s
                           ELSE IF r.callback = Query
                                THEN QueryEnd(late, "timeout", RefreshBegin(late, "timeout"))
                           ELSE UserCallback(s, i, outcome[i])
  OBVIOUS
<1>6. Sound(after)
  BY <1>4, <1>5, UserCallbackSound
<1>7. PICK freed : freed = Release(after, i)
  OBVIOUS
<1>8. Sound(freed)
  BY <1>6, <1>7, ReleaseSound
<1>9. Sound(QueryInTick(freed, TRUE))
  BY <1>8, QueryFixed
<1>10. \/ Expire(s, i, outcome) = s
       \/ Expire(s, i, outcome) = after
       \/ Expire(s, i, outcome) = QueryInTick(freed, TRUE)
       \/ Expire(s, i, outcome) = freed
  BY <1>1, <1>2, <1>5, <1>7, Zenon DEF Expire
<1>11. QED
  BY <1>6, <1>8, <1>9, <1>10, Zenon

LEMMA TickSound == ASSUME NEW s, Sound(s), NEW outcome PROVE Sound(Tick(s, outcome))
<1>1. PICK t : t = [s EXCEPT !.ticked = TRUE]
  OBVIOUS
<1>2. Sound(t)
  BY <1>1, Other
<1>3. PICK a : a = Expire(t, 0, outcome)
  OBVIOUS
<1>4. Sound(a)
  BY <1>2, <1>3, ExpireSound DEF Slots
<1>5. Sound(Expire(a, 1, outcome))
  BY <1>4, ExpireSound DEF Slots
<1>6. QED
  BY <1>1, <1>3, <1>5 DEF Tick

LEMMA MakeRoomSound == ASSUME NEW s, Sound(s), NEW outcome PROVE Sound(MakeRoom(s, outcome))
  BY TickSound DEF MakeRoom

LEMMA InitDeviceSound == ASSUME NEW s, Sound(s), NEW outcome PROVE Sound(InitDevice(s, outcome))
<1>1. PICK t : t = [s EXCEPT !.flags = s.flags \union {"CMD_INIT"}]
  OBVIOUS
<1>2. Sound(t)
  <2>1. s.flags \union {"CMD_INIT"} \in SUBSET QueryFlag
    BY Fields DEF Sound, QueryFlag
  <2>2. QED
    BY <1>1, <2>1, Other
<1>3. PICK b : b = QueryBegin(t, FALSE)
  OBVIOUS
<1>4. Sound(b)
  BY <1>2, <1>3, QueryFixed, Zenon
<1>5. PICK room : room = MakeRoom(b, outcome)
  OBVIOUS
<1>6. Sound(room)
  BY <1>4, <1>5, MakeRoomSound
<1>7. PICK q : q = QueryDevice(t, FALSE, room)
  OBVIOUS
<1>8. Sound(q)
  BY <1>2, <1>6, <1>7, QueryFixed, Zenon
<1>9. InitDevice(s, outcome) = s \/ InitDevice(s, outcome) = t \/ InitDevice(s, outcome) = q
  BY <1>1, <1>3, <1>5, <1>7, Zenon DEF InitDevice
<1>10. QED
  BY <1>2, <1>8, <1>9

LEMMA InitAndMakeRoomSound == ASSUME NEW s, Sound(s), NEW outcome PROVE Sound(InitAndMakeRoom(s, outcome))
<1>1. PICK t : t = InitDevice(s, outcome)
  OBVIOUS
<1>2. Sound(t)
  BY <1>1, InitDeviceSound
<1>3. QED
  BY <1>1, <1>2, MakeRoomSound DEF InitAndMakeRoom

-----------------------------------------------------------------------------
(* Responses.                                                                 *)

LEMMA EndSound ==
  ASSUME NEW t, Sound(t), NEW result, NEW outcome
  PROVE  Sound(QueryEnd(t, result, MakeRoom(RefreshBegin(t, result), outcome)))
<1>1. PICK b : b = RefreshBegin(t, result)
  OBVIOUS
<1>2. Sound(b)
  BY <1>1, RefreshBeginSound
<1>3. PICK room : room = MakeRoom(b, outcome)
  OBVIOUS
<1>4. Sound(room)
  BY <1>2, <1>3, MakeRoomSound
<1>5. QED
  BY <1>1, <1>3, <1>4, QueryEndSound

LEMMA StoredSound ==
  ASSUME NEW s, Sound(s), NEW command, NEW value
  PROVE  /\ Sound(RegCallback(RegCopy(s, command, value), command, value))
         /\ RegCallback(RegCopy(s, command, value), command, value).clc = s.clc
<1>1. PICK c : c = RegCopy(s, command, value)
  OBVIOUS
<1>2. Sound(c)
  BY <1>1, RegCopySound
<1>3. c.clc = s.clc
  BY <1>1 DEF RegCopy, Sound, Driver
<1>4. RegCallback(c, command, value).clc = c.clc
  BY <1>2 DEF RegCallback, Sound, Driver
<1>5. QED
  BY <1>1, <1>2, <1>3, <1>4, RegCallbackSound

(* An answer to the query: the value is stored and the next command sent, or  *)
(* the query ends.                                                            *)
LEMMA ListResponseSound ==
  ASSUME NEW s, Sound(s), NEW i \in Slots, NEW ok \in BOOLEAN, NEW value, NEW outcome,
         NEW r, r = ListResponse(s, i, ok, value, outcome)
  PROVE  Sound(r.drv) /\ r.reuse \in BOOLEAN
<1>1. PICK command : command = s.table[i].command
  OBVIOUS
<1>2. PICK n \in Nat : n = Len(Regs)
  BY Constants
<1>3. PICK e \in Nat : e = s.clc.start + s.clc.index + 1
  <2>1. s.clc.start \in Nat /\ s.clc.index \in Nat
    BY <1>2, Fields DEF Sound
  <2>2. QED
    BY <2>1
<1>4. PICK stored : stored = IF ok THEN RegCallback(RegCopy(s, command, value), command, value) ELSE s
  OBVIOUS
<1>5. Sound(stored) /\ stored.clc = s.clc
  BY <1>4, StoredSound
<1>6. PICK failed : failed = [s EXCEPT !.clc.status = "ERROR"]
  OBVIOUS
<1>7. Sound(failed)
  BY <1>6, Ended
<1>8. CASE e > n
  <2>1. r = [drv |-> QueryEnd(failed, "error", MakeRoom(RefreshBegin(failed, "error"), outcome)),
             reuse |-> FALSE]
    BY <1>2, <1>3, <1>6, <1>8 DEF ListResponse
  <2>2. QED
    BY <1>7, <2>1, EndSound
<1>9. CASE ~(e > n) /\ Regs[e] # command
  <2>1. PICK d : d = IF ok THEN RegCallback(failed, Regs[e], value) ELSE failed
    OBVIOUS
  <2>2. r = [drv |-> d, reuse |-> FALSE]
    BY <1>1, <1>2, <1>3, <1>6, <1>9, <2>1 DEF ListResponse
  <2>3. Sound(d)
    BY <1>7, <2>1, RegCallbackSound
  <2>4. QED
    BY <2>2, <2>3
<1>10. s.clc.start \in 0 .. n - 1 /\ s.clc.index \in 0 .. n
  BY <1>2, Fields DEF Sound
<1>11. CASE e = n /\ Regs[e] = command
  <2>1. PICK d : d = [stored EXCEPT !.clc.index = stored.clc.index + 1, !.clc.status = "DONE"]
    OBVIOUS
  <2>2. stored.clc.index + 1 \in 0 .. Len(Regs)
    BY <1>2, <1>3, <1>5, <1>10, <1>11
  <2>3. Sound(d)
    BY <1>5, <2>1, <2>2, Ended
  <2>4. r = [drv |-> QueryEnd(d, "done", MakeRoom(RefreshBegin(d, "done"), outcome)), reuse |-> FALSE]
    <3>1. ~(e > Len(Regs)) /\ ~(Regs[e] # command) /\ e = Len(Regs)
      BY <1>2, <1>11
    <3>2. QED
      BY <1>1, <1>3, <1>4, <2>1, <3>1, Zenon DEF ListResponse
  <2>5. QED
    BY <2>3, <2>4, EndSound
<1>12. CASE e < n /\ Regs[e] = command
  <2>1. PICK m : m = [stored EXCEPT !.clc.index = stored.clc.index + 1]
    OBVIOUS
  <2>2. stored.clc.index + 1 \in 0 .. Len(Regs)
    BY <1>2, <1>3, <1>5, <1>10, <1>12
  <2>3. Sound(m)
    BY <1>5, <2>1, <2>2, Ended
  <2>4. Regs[e + 1] \in CommandName
    BY <1>2, <1>3, <1>12, RegName
  <2>5. PICK d : d = [m EXCEPT !.table[i].command = Regs[e + 1]]
    OBVIOUS
  <2>6. Sound(d)
    BY <2>3, <2>4, <2>5, Set
  <2>7. d = [stored EXCEPT !.clc.index = stored.clc.index + 1, !.table[i].command = Regs[e + 1]]
    BY <1>5, <2>1, <2>5 DEF Sound, Driver
  <2>8. r = [drv |-> Send(d, Handle(d, i)), reuse |-> TRUE]
    <3>1. ~(e > Len(Regs)) /\ ~(Regs[e] # command) /\ ~(e = Len(Regs))
      BY <1>2, <1>12
    <3>2. QED
      BY <1>1, <1>3, <1>4, <2>7, <3>1, Zenon DEF ListResponse
  <2>9. QED
    BY <2>6, <2>8, SendOwn
<1>13. QED
  BY <1>2, <1>8, <1>9, <1>11, <1>12

LEMMA MatchingIs ==
  ASSUME NEW s, NEW x PROVE Matching(s, x) = NoSlot \/ Matching(s, x) \in Slots
  BY DEF Matching, Slots

(* _xbee_cmd_handle_response, for whatever the callback does.                 *)
LEMMA HandleResponseSound ==
  ASSUME NEW s, Sound(s), NEW x, NEW ok \in BOOLEAN, NEW value, NEW outcome
  PROVE  Sound(HandleResponse(s, x, ok, value, outcome))
<1>1. PICK i : i = Matching(s, x)
  OBVIOUS
<1>2. CASE i = NoSlot
  BY <1>1, <1>2 DEF HandleResponse
<1>3. CASE i # NoSlot
  <2>1. i \in Slots
    BY <1>1, <1>3, MatchingIs
  <2>2. PICK r : r = IF s.table[i].callback = Query THEN ListResponse(s, i, ok, value, outcome)
                     ELSE [drv |-> UserCallback(s, i, outcome[i]), reuse |-> outcome[i] # "done"]
    OBVIOUS
  <2>3. Sound(r.drv)
    BY <2>1, <2>2, ListResponseSound, UserCallbackSound
  <2>4. Sound(Release(s, i)) /\ Sound(Release(r.drv, i))
    BY <2>1, <2>3, ReleaseSound
  <2>5. PICK k : k = [r.drv EXCEPT !.table[i].left = ReuseTimeout]
    OBVIOUS
  <2>6. Sound(k)
    BY <2>1, <2>3, <2>5, Set, Constants
  <2>7. HandleResponse(s, x, ok, value, outcome) \in {Release(s, i), k, Release(r.drv, i)}
    BY <1>1, <1>3, <2>2, <2>5 DEF HandleResponse
  <2>8. QED
    BY <2>4, <2>6, <2>7
<1>4. QED
  BY <1>2, <1>3

-----------------------------------------------------------------------------
(* The calls.                                                                 *)

LEMMA Spent == ASSUME used \in [DOMAIN Bounds -> Nat], NEW kinds, Spend(kinds)
               PROVE  used' \in [DOMAIN Bounds -> Nat]
  BY DEF Spend

LEMMA SoundInit == Init => Sound(drv) /\ used \in [DOMAIN Bounds -> Nat]
<1> SUFFICES ASSUME Init PROVE Sound(drv) /\ used \in [DOMAIN Bounds -> Nat]
  OBVIOUS
<1>1. used \in [DOMAIN Bounds -> Nat]
  BY DEF Init
<1>2. WpanAfterDevInit \in Wpan
  BY DEF WpanAfterDevInit, Wpan, NetAddr
<1>3. Free(0) \in Request /\ ~Free(0).used
  BY FreeType, Constants
<1>4. PICK T \in [Slots -> Request] : T = [i \in Slots |-> Free(0)]
  BY <1>3
<1>5. PICK U \in [Users -> HandleSpace] : U = [u \in Users |-> NoHandle]
  BY DEF HandleSpace
<1>6. PICK C \in [status : {"RUNNING", "DONE", "TIMEOUT", "ERROR"},
                  start : 0 .. Len(Regs) - 1, index : 0 .. Len(Regs)] :
        C = [status |-> "DONE", start |-> 0, index |-> 0]
  <2>1. 0 \in 0 .. Len(Regs) - 1 /\ 0 \in 0 .. Len(Regs)
    BY Constants
  <2>2. QED
    BY <2>1
<1>7. drv = [flags |-> {}, auth_enabled |-> FALSE, wpan |-> WpanAfterDevInit,
             frame_id |-> MaxFrameId, clc |-> C, table |-> T,
             ticked |-> FALSE, radio |-> {}, user |-> U, shared |-> FALSE, cts |-> TRUE]
  BY <1>4, <1>5, <1>6 DEF Init
<1>8. drv \in Driver
  BY <1>2, <1>7, Constants DEF Driver
<1>9. drv.user = U /\ drv.radio = {}
  BY <1>7
<1>10. Owned(drv)
  BY <1>5, <1>9 DEF Owned, Valid
<1>11. Traced(drv)
  BY <1>9 DEF Traced
<1>12. QED
  BY <1>1, <1>8, <1>10, <1>11 DEF Sound

LEMMA SecondSound == ASSUME Sound(drv), Second PROVE Sound(drv')
<1>1. PICK T : T = [i \in Slots |-> [drv.table[i] EXCEPT !.left = IF @ = 0 THEN 0 ELSE @ - 1]]
  OBVIOUS
<1>2. drv \in Driver
  BY DEF Sound
<1>3. ASSUME NEW i \in Slots
      PROVE  /\ T[i] \in Request /\ T[i].used = drv.table[i].used /\ T[i].owner = drv.table[i].owner
             /\ T[i].sequence = drv.table[i].sequence /\ T[i].frame_id = drv.table[i].frame_id
  <2>1. PICK r \in Request : r = drv.table[i]
    BY <1>2, SlotFields
  <2>2. PICK n \in Nat : n = IF r.left = 0 THEN 0 ELSE r.left - 1
    <3>1. r.left \in Nat
      BY DEF Request
    <3>2. QED
      BY <3>1
  <2>3. T[i] = [r EXCEPT !.left = n]
    BY <1>1, <2>1, <2>2
  <2>4. QED
    BY <2>1, <2>3 DEF Request
<1>4. T \in [Slots -> Request]
  BY <1>1, <1>3
<1>5. drv' = [drv EXCEPT !.ticked = FALSE, !.table = T]
  BY <1>1, Zenon DEF Second
<1>6. /\ drv' \in Driver
      /\ drv'.table = T /\ drv'.user = drv.user /\ drv'.radio = drv.radio /\ drv'.shared = drv.shared
  BY <1>2, <1>4, <1>5 DEF Driver
<1>7. Owned(drv')
  <2> SUFFICES ASSUME NEW u \in Users, Valid(drv', drv'.user[u])
               PROVE  drv'.table[drv'.user[u][1]].used /\ drv'.table[drv'.user[u][1]].owner = u
    BY DEF Owned
  <2>1. drv.user[u] # NoHandle /\ drv'.user[u] = drv.user[u]
    BY <1>6 DEF Valid
  <2>2. drv.user[u][1] \in Slots
    BY <1>2, <2>1, UserSlot
  <2>3. Valid(drv, drv.user[u])
    BY <1>3, <1>6, <2>1, <2>2 DEF Valid
  <2>4. QED
    BY <1>3, <1>6, <2>1, <2>2, <2>3 DEF Sound, Owned
<1>8. Traced(drv')
  BY <1>3, <1>6 DEF Sound, Traced, Handle
<1>9. QED
  BY <1>6, <1>7, <1>8 DEF Sound

LEMMA RespondSound == ASSUME Sound(drv), Respond PROVE Sound(drv')
<1>1. PICK x, value, more, outcome : \E ok \in BOOLEAN :
        drv' = HandleResponse(IF more THEN drv ELSE [drv EXCEPT !.radio = drv.radio \ {x}],
                              x, ok, value, outcome)
  BY Zenon DEF Respond
<1>2. PICK R : R = drv.radio \ {x}
  OBVIOUS
<1>3. PICK t : t = [drv EXCEPT !.radio = R]
  OBVIOUS
<1>4. drv \in Driver
  BY DEF Sound
<1>5. R \in SUBSET Command
  BY <1>2, <1>4, Fields
<1>6. t \in Driver /\ t.table = drv.table /\ t.user = drv.user /\ t.radio = R /\ t.shared = drv.shared
  BY <1>3, <1>4, <1>5 DEF Driver, Command
<1>7. Sound(t)
  BY <1>2, <1>6 DEF Sound, Owned, Traced, Valid, Handle
<1>8. PICK s : s = IF more THEN drv ELSE t
  OBVIOUS
<1>9. Sound(s)
  BY <1>7, <1>8
<1>10. PICK ok \in BOOLEAN : drv' = HandleResponse(s, x, ok, value, outcome)
  BY <1>1, <1>2, <1>3, <1>8
<1>11. QED
  BY <1>9, <1>10, HandleResponseSound

LEMMA StatusType == ASSUME NEW w \in Wpan, NEW status PROVE ModemStatus(w, status) \in Wpan
  BY DEF ModemStatus, Wpan, NetAddr

LEMMA ModemSound == ASSUME Sound(drv), Modem PROVE Sound(drv')
<1>1. PICK status, outcome, s :
        /\ s = [drv EXCEPT !.wpan = ModemStatus(drv.wpan, status)]
        /\ \/ drv' = s
           \/ drv' = QueryDevice(s, TRUE, InitAndMakeRoom(QueryBegin(s, TRUE), outcome))
  BY Zenon DEF Modem
<1>2. Sound(s)
  <2>1. PICK w \in Wpan : w = ModemStatus(drv.wpan, status)
    BY Fields, StatusType DEF Sound
  <2>2. QED
    BY <1>1, <2>1, Other
<1>3. PICK b : b = QueryBegin(s, TRUE)
  OBVIOUS
<1>4. Sound(b)
  BY <1>2, <1>3, QueryFixed, Zenon
<1>5. PICK room : room = InitAndMakeRoom(b, outcome)
  OBVIOUS
<1>6. Sound(room)
  BY <1>4, <1>5, InitAndMakeRoomSound
<1>7. Sound(QueryDevice(s, TRUE, room))
  BY <1>2, <1>6, QueryFixed, Zenon
<1>8. QED
  BY <1>1, <1>2, <1>3, <1>5, <1>7, Zenon

(* xbee_cmd_create of the application: the handle it gets is of its request.  *)
LEMMA CreateSound == ASSUME Sound(drv), NEW u \in Users, UserCreate(u) PROVE Sound(drv')
<1>1. PICK outcome, s, c :
        /\ s = InitAndMakeRoom(drv, outcome) /\ c = Alloc(s, "ID", u)
        /\ drv' = IF c.slot = NoSlot THEN c.drv
                  ELSE [c.drv EXCEPT !.user[u] = Handle(c.drv, c.slot)]
  BY Zenon DEF UserCreate
<1>2. Sound(s)
  BY <1>1, InitAndMakeRoomSound
<1>3. "ID" \in CommandName /\ u \in Owner
  BY DEF CommandName, Owner
<1>4. /\ Sound(c.drv)
      /\ c.slot # NoSlot => c.slot \in Slots /\ c.drv.table[c.slot].used /\ c.drv.table[c.slot].owner = u
                            /\ \A v \in Users : ~Valid(c.drv, s.user[v]) \/ s.user[v][1] # c.slot
      /\ c.drv.user = s.user
  BY <1>1, <1>2, <1>3, AllocSound
<1>5. CASE c.slot # NoSlot
  <2>1. PICK d \in Driver : d = c.drv
    BY <1>4 DEF Sound
  <2>2. PICK i \in Slots : i = c.slot
    BY <1>4, <1>5
  <2>3. PICK h \in HandleSpace : h = Handle(d, i) /\ h[1] = i
    <3>1. PICK q \in Sequence : q = d.table[i].sequence
      BY <2>1, SlotFields
    <3>2. PICK p : p = <<i, q>>
      OBVIOUS
    <3>3. p \in Slots \X Sequence /\ p[1] = i
      BY <3>2
    <3>4. p \in HandleSpace /\ p = Handle(d, i)
      BY <3>1, <3>2, <3>3 DEF Handle, HandleSpace
    <3>5. QED
      BY <3>3, <3>4
  <2>4. PICK f \in [Users -> HandleSpace] : /\ f = [d.user EXCEPT ![u] = h]
                                            /\ \A v \in Users : f[v] = IF v = u THEN h ELSE d.user[v]
    <3>1. d.user \in [Users -> HandleSpace]
      BY <2>1, Fields
    <3>2. [d.user EXCEPT ![u] = h] \in [Users -> HandleSpace]
      BY <3>1
    <3>3. \A v \in Users : [d.user EXCEPT ![u] = h][v] = IF v = u THEN h ELSE d.user[v]
      BY <3>1
    <3>4. QED
      BY <3>2, <3>3
  <2>5. drv' = [d EXCEPT !.user = f]
    BY <1>1, <1>5, <2>1, <2>2, <2>3, <2>4
  <2>6. /\ drv' \in Driver
        /\ drv'.table = d.table /\ drv'.user = f /\ drv'.radio = d.radio /\ drv'.shared = d.shared
    BY <2>1, <2>4, <2>5 DEF Driver
  <2>7. Owned(drv')
    <3> SUFFICES ASSUME NEW v \in Users, Valid(drv', drv'.user[v])
                 PROVE  drv'.table[drv'.user[v][1]].used /\ drv'.table[drv'.user[v][1]].owner = v
      BY DEF Owned
    <3>1. CASE v = u
      BY <1>4, <1>5, <2>1, <2>2, <2>3, <2>4, <2>6, <3>1
    <3>2. CASE v # u
      <4>1. drv'.user[v] = d.user[v]
        BY <2>4, <2>6, <3>2
      <4>2. Valid(d, d.user[v])
        BY <2>6, <4>1 DEF Valid
      <4>3. QED
        <5>1. Owned(d)
          BY <1>4, <2>1 DEF Sound
        <5>2. d.table[d.user[v][1]].used /\ d.table[d.user[v][1]].owner = v
          BY <4>2, <5>1 DEF Owned
        <5>3. QED
          BY <2>6, <4>1, <5>2
    <3>3. QED
      BY <3>1, <3>2
  <2>8. Traced(drv')
    BY <1>4, <2>1, <2>6 DEF Sound, Traced, Handle
  <2>9. QED
    BY <2>6, <2>7, <2>8 DEF Sound
<1>6. QED
  BY <1>1, <1>4, <1>5

LEMMA UserCallSound == ASSUME Sound(drv), NEW u \in Users, UserCall(u) PROVE Sound(drv')
<1>1. drv \in Driver
  BY DEF Sound
<1>2. drv.user[u] # NoHandle => drv.user[u][1] \in Slots
  BY <1>1, UserSlot
<1>3. CASE UserSetCallback(u)
  <2>1. PICK i \in Slots, c \in {u, None} : drv' = [drv EXCEPT !.table[i].callback = c]
    BY <1>2, <1>3 DEF UserSetCallback, Valid
  <2>2. c \in Owner
    BY DEF Owner
  <2>3. QED
    BY <2>1, <2>2, Set
<1>4. CASE UserSetTarget(u)
  <2>1. PICK i \in Slots, b \in BOOLEAN : drv' = [drv EXCEPT !.table[i].remote = b]
    BY <1>2, <1>4 DEF UserSetTarget, Valid
  <2>2. QED
    BY <2>1, Set
<1>5. CASE UserSend(u)
  <2>1. PICK s : s = Send(drv, drv.user[u])
    OBVIOUS
  <2>2. Sound(s)
    BY <1>2, <2>1, SendSound
  <2>3. Sound([s EXCEPT !.user[u] = NoHandle])
    BY <2>2, Forgotten
  <2>4. drv' = s \/ drv' = [s EXCEPT !.user[u] = NoHandle]
    BY <1>5, <2>1 DEF UserSend
  <2>5. QED
    BY <2>2, <2>3, <2>4
<1>6. CASE UserRelease(u)
  <2>1. PICK s : s = [drv EXCEPT !.user[u] = NoHandle]
    OBVIOUS
  <2>2. Sound(s)
    BY <2>1, Forgotten
  <2>3. PICK i \in Slots : i = drv.user[u][1]
    BY <1>2, <1>6 DEF UserRelease
  <2>4. drv' = Release(s, i) \/ drv' = s
    BY <1>6, <2>1, <2>3 DEF UserRelease
  <2>5. QED
    BY <2>2, <2>4, ReleaseSound
<1>7. QED
  BY <1>3, <1>4, <1>5, <1>6, CreateSound DEF UserCall

LEMMA SoundStep == Sound(drv) /\ [Next]_vars => Sound(drv')
<1> SUFFICES ASSUME Sound(drv), [Next]_vars PROVE Sound(drv')
  OBVIOUS
<1>1. CASE AppInit
  BY <1>1, InitDeviceSound DEF AppInit
<1>2. CASE AppTick
  BY <1>2, TickSound DEF AppTick
<1>3. CASE MoveCTS
  <2>1. PICK b \in BOOLEAN : b = ~drv.cts
    OBVIOUS
  <2>2. drv' = [drv EXCEPT !.cts = b]
    BY <1>3, <2>1 DEF MoveCTS
  <2>3. QED
    BY <2>2, Other
<1>4. CASE \E u \in Users : UserCall(u)
  BY <1>4, UserCallSound
<1>5. CASE UNCHANGED vars
  BY <1>5 DEF vars
<1>6. QED
  BY <1>1, <1>2, <1>3, <1>4, <1>5, SecondSound, RespondSound, ModemSound DEF Next

LEMMA SpentStep ==
  used \in [DOMAIN Bounds -> Nat] /\ [Next]_vars => used' \in [DOMAIN Bounds -> Nat]
<1> SUFFICES ASSUME used \in [DOMAIN Bounds -> Nat], [Next]_vars PROVE used' \in [DOMAIN Bounds -> Nat]
  OBVIOUS
<1>1. CASE \E kinds : Spend(kinds)
  BY <1>1, Spent
<1>2. CASE UNCHANGED used
  BY <1>2
<1>3. QED
  BY <1>1, <1>2, Zenon DEF Next, vars, AppInit, AppTick, Second, Respond, Modem, MoveCTS,
     UserCall, UserCreate, UserSetCallback, UserSetTarget, UserSend, UserRelease

-----------------------------------------------------------------------------
AtInv == Sound(drv) /\ used \in [DOMAIN Bounds -> Nat]

LEMMA SoundAlways == Spec => []AtInv
<1>1. Init => AtInv
  BY SoundInit DEF AtInv
<1>2. AtInv /\ [Next]_vars => AtInv'
  BY SoundStep, SpentStep DEF AtInv
<1>3. QED
  BY <1>1, <1>2, PTL DEF Spec

(* Every field of the driver keeps its type, through functions that call one  *)
(* another back: the request table, the query's position in its list, the     *)
(* flags and the bytes that wrap.                                             *)
THEOREM AtTyped == Spec => []TypeOK
<1>1. AtInv => TypeOK
  BY DEF AtInv, Sound, TypeOK
<1>2. QED
  BY <1>1, SoundAlways, PTL

(* A handle that is not stale finds a request of the user that holds it, for  *)
(* every number of users and however the driver's own queries and expiries    *)
(* reuse the two slots between its calls (_xbee_cmd_handle_to_address).       *)
THEOREM HandlesSafe == Spec => []HandleSafe
<1>1. AtInv => HandleSafe
  BY DEF AtInv, Sound, Owned, HandleSafe
<1>2. QED
  BY <1>1, SoundAlways, PTL

(* The answer to a command reaches the request that sent it or none, as long  *)
(* as no frame ID was given out while another request still carried it        *)
(* (_xbee_cmd_handle_response).                                               *)
THEOREM ResponsesOwn == Spec => []OwnResponse
<1>1. AtInv => OwnResponse
  <2> SUFFICES ASSUME Sound(drv), ~drv.shared, NEW x \in drv.radio, NEW i, i = Matching(drv, x), i # NoSlot
               PROVE  x.from = Handle(drv, i)
    BY DEF AtInv, OwnResponse
  <2>1. i \in Slots /\ drv.table[i].used /\ drv.table[i].frame_id = x.frame_id
    BY DEF Matching, Matches, Slots
  <2>2. QED
    BY <2>1 DEF Sound, Traced
<1>2. QED
  BY <1>1, SoundAlways, PTL

-----------------------------------------------------------------------------
(* The query, in a table without users.  A slot holds a request of the query; *)
(* every request in use is one; and where no slot holds one, the flags and    *)
(* the status say so.                                                         *)

Holds(s, i) == s.table[i].used /\ s.table[i].callback = Query

Alone(s) == \A i \in Slots : s.table[i].used => s.table[i].callback = Query

Lacks(s) == s.wpan.joined /\ s.wpan.network = "undefined" /\ "DONE" \notin s.flags

Idle(s) ==
  /\ s.clc.status # "RUNNING"
  /\ "INPROGRESS" \in s.flags => s.clc.status = "ERROR"
  /\ Lacks(s) => s.clc.status = "ERROR"

Truthful(s) == (\E i \in Slots : Holds(s, i)) \/ Idle(s)

Lone(s) == Users = {} /\ Sound(s) /\ Alone(s)

Same(s, t) == t.flags = s.flags /\ t.clc = s.clc /\ t.wpan = s.wpan /\ t.cts = s.cts

Keeps(s, t) == \A i \in Slots : Holds(s, i) => Holds(t, i)

LEMMA TwoSlots == 0 \in Slots /\ 1 \in Slots /\ (\A i \in Slots : i = 0 \/ i = 1) /\ NoSlot \notin Slots
  BY DEF Slots, NoSlot

(* One part of the state changes.                                             *)
LEMMA Changed ==
  ASSUME NEW s \in Driver
  PROVE  /\ \A f : LET t == [s EXCEPT !.flags = f]
                   IN  t.flags = f /\ t.table = s.table /\ t.clc = s.clc /\ t.wpan = s.wpan /\ t.cts = s.cts
         /\ \A c : LET t == [s EXCEPT !.clc = c]
                   IN  t.clc = c /\ t.table = s.table /\ t.flags = s.flags /\ t.wpan = s.wpan /\ t.cts = s.cts
         /\ \A w : LET t == [s EXCEPT !.wpan = w]
                   IN  t.wpan = w /\ t.table = s.table /\ t.flags = s.flags /\ t.clc = s.clc /\ t.cts = s.cts
  BY DEF Driver

LEMMA SameTable ==
  ASSUME NEW s, NEW t, t.table = s.table
  PROVE  Keeps(s, t) /\ (Alone(s) => Alone(t)) /\ \A i \in Slots : Holds(t, i) = Holds(s, i)
  BY DEF Keeps, Alone, Holds

(* The slots of a state whose slot i got the request r.                       *)
LEMMA SlotSet ==
  ASSUME NEW s, Lone(s), NEW i \in Slots, NEW r \in Request, r.used => r.callback = Query,
         NEW t, t = With(s, i, r)
  PROVE  /\ Alone(t) /\ Same(s, t) /\ \A j \in Slots : t.table[j] = IF j = i THEN r ELSE s.table[j]
         /\ \A j \in Slots \ {i} : Holds(t, j) = Holds(s, j)
         /\ Holds(t, i) = r.used
<1>1. s \in Driver
  BY DEF Lone, Sound
<1>2. \A j \in Slots : t.table[j] = IF j = i THEN r ELSE s.table[j]
  BY <1>1, SetSlot
<1>3. Same(s, t)
  BY <1>1 DEF Same, With, Driver
<1>4. QED
  BY <1>2, <1>3 DEF Lone, Alone, Holds, Request

LEMMA Released ==
  ASSUME NEW s, Lone(s), NEW i \in Slots, NEW t, t = Release(s, i)
  PROVE  /\ Alone(t) /\ Same(s, t) /\ ~t.table[i].used
         /\ \A j \in Slots \ {i} : Holds(t, j) = Holds(s, j)
<1>1. s \in Driver /\ Sound(s) /\ Alone(s)
  BY DEF Lone, Sound
<1>2. ~t.table[i].used /\ \A j \in Slots \ {i} : t.table[j] = s.table[j]
  BY <1>1, ReleaseSound
<1>3. Same(s, t)
  BY <1>1 DEF Release, Same, Driver
<1>4. Alone(t)
  BY <1>1, <1>2 DEF Alone
<1>5. QED
  BY <1>2, <1>3, <1>4 DEF Holds

(* The query's own request is numbered and sent, or kept for later.           *)
LEMMA Sent ==
  ASSUME NEW s, Lone(s), NEW i \in Slots, Holds(s, i), NEW t, t = Send(s, Handle(s, i))
  PROVE  Alone(t) /\ Same(s, t) /\ Keeps(s, t)
<1>1. s \in Driver /\ Sound(s) /\ Alone(s)
  BY DEF Lone, Sound
<1>2. s.table[i].callback # None /\ s.table[i].used
  BY DEF Holds, Query, None
<1>3. PICK fid \in 1 .. MaxFrameId : fid = NextFrameId(s.frame_id)
  BY <1>1, Fields, NextIsId
<1>4. fid # 0
  BY <1>3, Constants
<1>5. PICK h : h = Handle(s, i)
  OBVIOUS
<1>6. h[1] = i /\ Valid(s, h)
  <2>1. h # NoHandle
    BY <1>5, TwoSlots DEF Handle, NoHandle
  <2>2. QED
    BY <1>5, <2>1 DEF Handle, Valid
<1>7. PICK m : m = Numbered(s, i, fid)
  OBVIOUS
<1>8. PICK n \in Nat : n = IF s.table[i].remote THEN RemoteTimeout ELSE LocalTimeout
  BY Constants
<1>9. t = IF ~s.cts THEN m ELSE Emit([m EXCEPT !.table[i].left = n], i)
  BY <1>2, <1>3, <1>4, <1>5, <1>6, <1>7, <1>8 DEF Send, Numbered
<1>10. m \in Driver /\ \A j \in Slots \ {i} : m.table[j] = s.table[j]
  BY <1>1, <1>3, <1>7, NumberedSound DEF Sound
<1>11. m.table[i].used /\ m.table[i].callback = s.table[i].callback /\ Same(s, m)
  BY <1>1, <1>2, <1>7 DEF Numbered, Same, Driver, Request
<1>12. PICK v : v = [m EXCEPT !.table[i].left = n]
  OBVIOUS
<1>13. v.table[i].used /\ v.table[i].callback = s.table[i].callback /\ Same(s, v)
       /\ v \in Driver /\ \A j \in Slots \ {i} : v.table[j] = s.table[j]
  <2>1. PICK r \in Request : r = m.table[i]
    BY <1>10, SlotFields
  <2>2. PICK u : u = [r EXCEPT !.left = n]
    OBVIOUS
  <2>3. u \in Request /\ u.used = r.used /\ u.callback = r.callback
    BY <2>1, <2>2 DEF Request
  <2>4. v = With(m, i, u)
    BY <1>12, <2>1, <2>2 DEF With
  <2>5. v \in Driver /\ \A j \in Slots : v.table[j] = IF j = i THEN u ELSE m.table[j]
    BY <1>10, <2>3, <2>4, SetSlot
  <2>6. Same(m, v)
    BY <1>10, <2>4 DEF Same, With, Driver
  <2>7. QED
    BY <1>10, <1>11, <2>1, <2>3, <2>5, <2>6 DEF Same
<1>14. Emit(v, i).table = v.table /\ Same(v, Emit(v, i))
  BY <1>13 DEF Emit, Same, Driver
<1>15. PICK w : t = w /\ Same(s, w) /\ w.table[i].used /\ w.table[i].callback = s.table[i].callback
                /\ \A j \in Slots \ {i} : w.table[j] = s.table[j]
  <2>1. CASE s.cts
    <3>1. t = Emit(v, i)
      BY <1>9, <1>12, <2>1
    <3>2. QED
      BY <1>13, <1>14, <3>1 DEF Same
  <2>2. CASE ~s.cts
    BY <1>9, <1>10, <1>11, <2>2
  <2>3. QED
    BY <2>1, <2>2
<1>16. QED
  BY <1>1, <1>15 DEF Alone, Keeps, Holds

(* A query gets the free slot, or there is none.                              *)
LEMMA Executed ==
  ASSUME NEW s, Lone(s), NEW start \in 0 .. Len(Regs) - 1, NEW e, e = ListExecute(s, start)
  PROVE  /\ Alone(e.drv) /\ Same(s, e.drv) /\ Keeps(s, e.drv)
         /\ Holds(e.drv, 0)
         /\ s.table[0].used => Holds(e.drv, 1)
         /\ s.table[0].used /\ s.table[1].used => e.drv = s /\ e.ok = FALSE
<1>1. s \in Driver /\ Sound(s) /\ Alone(s)
  BY DEF Lone, Sound
<1>2. Regs[start + 1] \in CommandName
  BY RegName, Constants
<1>3. PICK c : c = Alloc(s, Regs[start + 1], Query)
  OBVIOUS
<1>4. CASE s.table[0].used /\ s.table[1].used
  <2>1. c = [drv |-> s, slot |-> NoSlot]
    BY <1>3, <1>4 DEF Alloc, FirstFree
  <2>2. e = [drv |-> s, ok |-> FALSE]
    BY <1>3, <2>1 DEF ListExecute
  <2>3. QED
    BY <1>1, <1>4, <2>2, TwoSlots DEF Alone, Holds, Same, Keeps
<1>5. CASE ~(s.table[0].used /\ s.table[1].used)
  <2>1. PICK i \in Slots : i = FirstFree(s) /\ ~s.table[i].used /\ i # NoSlot
                           /\ i = IF s.table[0].used THEN 1 ELSE 0
    BY <1>5, TwoSlots DEF FirstFree
  <2>2. PICK r : r = [Free(s.table[i].sequence) EXCEPT !.used = TRUE, !.left = LocalTimeout,
                         !.command = Regs[start + 1], !.owner = Query]
    OBVIOUS
  <2>3. c = [drv |-> With(s, i, r), slot |-> i]
    BY <1>3, <2>1, <2>2 DEF Alloc, With
  <2>4. PICK q : q = [r EXCEPT !.callback = Query]
    OBVIOUS
  <2>5. q \in Request /\ q.used /\ q.callback = Query
    <3>1. s.table[i].sequence \in Sequence
      BY <1>1, SlotFields
    <3>2. PICK f \in Request : f = Free(s.table[i].sequence)
      BY <3>1, FreeType
    <3>3. QED
      BY <1>2, <2>2, <2>4, <3>2, Constants DEF Request, Owner
  <2>6. PICK t : t = [c.drv EXCEPT !.table[c.slot].callback = Query]
    OBVIOUS
  <2>7. t = With(s, i, q)
    BY <1>1, <2>3, <2>4, <2>6 DEF With, Driver
  <2>8. /\ Alone(t) /\ Same(s, t) /\ \A j \in Slots \ {i} : Holds(t, j) = Holds(s, j)
        /\ Holds(t, i)
    BY <2>5, <2>7, SlotSet
  <2>9. Sound(t)
    <3>1. Sound(c.drv)
      BY <1>1, <1>2, <1>3, AllocSound, Constants
    <3>2. c.slot \in Slots
      BY <2>1, <2>3
    <3>3. QED
      BY <2>6, <3>1, <3>2, Set, Constants
  <2>10. PICK v : v = Send(t, Handle(t, i))
    OBVIOUS
  <2>11. Alone(v) /\ Same(t, v) /\ Keeps(t, v)
    BY <2>8, <2>9, <2>10, Sent DEF Lone
  <2>12. e.drv = v
    <3>1. c.slot = i /\ i # NoSlot
      BY <2>1, <2>3
    <3>2. e = [drv |-> Send(t, Handle(t, i)), ok |-> s.cts]
      BY <1>3, <2>6, <3>1 DEF ListExecute
    <3>3. QED
      BY <2>10, <3>2
  <2>13. Same(s, v)
    BY <2>8, <2>11 DEF Same
  <2>14. Keeps(s, v) /\ Holds(v, i)
    BY <2>1, <2>8, <2>11 DEF Keeps, Holds
  <2>15. ~s.table[0].used => i = 0
    BY <2>1
  <2>16. s.table[0].used => i = 1 /\ Holds(s, 0)
    BY <1>1, <2>1, TwoSlots DEF Alone, Holds
  <2>17. Holds(v, 0) /\ (s.table[0].used => Holds(v, 1))
    BY <2>14, <2>15, <2>16, TwoSlots DEF Keeps
  <2>18. QED
    BY <1>5, <2>11, <2>12, <2>13, <2>14, <2>17
<1>6. QED
  BY <1>4, <1>5

(* xbee_cmd_query_device, when no query is in progress.                       *)
LEMMA Asked ==
  ASSUME NEW s, Sound(s), "INPROGRESS" \notin s.flags, NEW room, Lone(room),
         NEW refresh \in BOOLEAN, NEW q, q = QueryDevice(s, refresh, room)
  PROVE  /\ Alone(q) /\ Keeps(room, q) /\ Holds(q, 0)
         /\ room.table[0].used => Holds(q, 1)
         /\ room.table[0].used /\ room.table[1].used => q = room
<1>1. PICK r : r = ListExecute(room, Start(refresh))
  OBVIOUS
<1>2. /\ Alone(r.drv) /\ Keeps(room, r.drv) /\ Holds(r.drv, 0)
      /\ room.table[0].used => Holds(r.drv, 1)
      /\ room.table[0].used /\ room.table[1].used => r.drv = room /\ r.ok = FALSE
  <2>1. PICK start \in 0 .. Len(Regs) - 1 : start = Start(refresh)
    BY StartType
  <2>2. r = ListExecute(room, start)
    BY <1>1, <2>1
  <2>3. Alone(r.drv) /\ Keeps(room, r.drv) /\ Holds(r.drv, 0)
    BY <2>2, Executed
  <2>4. room.table[0].used => Holds(r.drv, 1)
    BY <2>2, Executed
  <2>5. room.table[0].used /\ room.table[1].used => r.drv = room /\ r.ok = FALSE
    BY <2>2, Executed, ZenonT(30)
  <2>6. QED
    BY <2>3, <2>4, <2>5
<1>3. PICK f : q = (IF r.ok THEN [r.drv EXCEPT !.flags = f] ELSE r.drv)
  <2>1. q = IF r.ok THEN [r.drv EXCEPT !.flags = (r.drv.flags \union {"BEGIN", "INPROGRESS"})
                                          \ {"ERROR", "DONE", "REFRESH"}]
            ELSE r.drv
    BY <1>1 DEF QueryDevice
  <2>2. QED
    BY <2>1
<1>4. r.drv \in Driver
  BY <1>1, ListExecuteSound, StartType DEF Lone, Sound
<1>5. q.table = r.drv.table
  BY <1>3, <1>4 DEF Driver
<1>6. QED
  BY <1>2, <1>3, <1>5, SameTable, TwoSlots DEF Keeps

(* The end of a query: nothing is in progress, and a device that lacks its    *)
(* address asks for a refresh.                                                *)
LEMMA Over ==
  ASSUME NEW s, Sound(s), NEW result, NEW t, t = QueryOver(s, result)
  PROVE  /\ t.table = s.table /\ t.clc = s.clc /\ "INPROGRESS" \notin t.flags
         /\ "REFRESH" \in s.flags => "REFRESH" \in t.flags
         /\ Lacks(t) => "REFRESH" \in t.flags
<1>1. PICK over : over = (s.flags \ {"INPROGRESS"}) \union {EndFlag(result)}
  OBVIOUS
<1>2. PICK f : /\ t = [s EXCEPT !.flags = f]
               /\ f = IF "ERROR" \in over /\ s.wpan.joined /\ s.wpan.network = "undefined"
                      THEN over \union {"REFRESH"} ELSE over
  BY <1>1 DEF QueryOver
<1>3. t.flags = f /\ t.table = s.table /\ t.clc = s.clc /\ t.wpan = s.wpan
  BY <1>2, Changed DEF Sound
<1>4. "INPROGRESS" \notin f /\ ("REFRESH" \in s.flags => "REFRESH" \in f)
  BY <1>1, <1>2 DEF EndFlag
<1>5. "DONE" \in over \/ "ERROR" \in over
  BY <1>1 DEF EndFlag
<1>6. Lacks(t) => "REFRESH" \in f
  BY <1>2, <1>3, <1>5 DEF Lacks
<1>7. QED
  BY <1>3, <1>4, <1>6

LEMMA Begun ==
  ASSUME NEW s, Sound(s), NEW refresh \in BOOLEAN, NEW b, b = QueryBegin(s, refresh)
  PROVE  /\ b.table = s.table /\ b.wpan = s.wpan
         /\ "INPROGRESS" \in s.flags => b.clc = s.clc
         /\ "INPROGRESS" \in b.flags <=> "INPROGRESS" \in s.flags
         /\ "DONE" \in b.flags <=> "DONE" \in s.flags
         /\ refresh \/ "REFRESH" \in s.flags => "REFRESH" \in b.flags
<1>1. PICK a : a = IF refresh THEN [s EXCEPT !.flags = s.flags \union {"REFRESH"}] ELSE s
  OBVIOUS
<1>2. /\ a.table = s.table /\ a.wpan = s.wpan /\ a.clc = s.clc
      /\ a.flags = IF refresh THEN s.flags \union {"REFRESH"} ELSE s.flags
  BY <1>1, Changed DEF Sound
<1>3. a \in Driver
  BY <1>1, Fields DEF Sound, Driver, QueryFlag
<1>4. PICK c : c = ListBegin(a, Start(refresh))
  OBVIOUS
<1>5. c.table = a.table /\ c.wpan = a.wpan /\ c.flags = a.flags
  BY <1>3, <1>4, Changed DEF ListBegin
<1>6. b = IF "INPROGRESS" \in s.flags THEN a ELSE c
  BY <1>1, <1>4, Zenon DEF QueryBegin
<1>7. QED
  BY <1>2, <1>5, <1>6

LEMMA RefreshBegun ==
  ASSUME NEW s, Lone(s), NEW result, NEW b, b = RefreshBegin(s, result)
  PROVE  Lone(b) /\ b.table = s.table /\ "REFRESH" \in b.flags /\ "INPROGRESS" \notin b.flags
<1>1. PICK t : t = QueryOver(s, result)
  OBVIOUS
<1>2. Sound(t) /\ t.table = s.table /\ "INPROGRESS" \notin t.flags
  BY <1>1, QueryOverSound, Over DEF Lone
<1>3. b = QueryBegin(t, TRUE)
  BY <1>1 DEF RefreshBegin
<1>4. b.table = t.table /\ "REFRESH" \in b.flags /\ "INPROGRESS" \notin b.flags
  BY <1>2, <1>3, Begun, ZenonT(30)
<1>5. Sound(b)
  BY <1>2, <1>3, QueryFixed
<1>6. QED
  BY <1>2, <1>4, <1>5, SameTable DEF Lone

(* A refresh started from xbee_cmd_tick.                                      *)
LEMMA InTick ==
  ASSUME NEW s, Lone(s), NEW q, q = QueryInTick(s, TRUE)
  PROVE  Alone(q) /\ Keeps(s, q) /\ ("INPROGRESS" \notin s.flags => Holds(q, 0))
<1>1. PICK b : b = QueryBegin(s, TRUE)
  BY Zenon
<1>2. b.table = s.table /\ Sound(b)
  BY <1>1, Begun, QueryFixed DEF Lone
<1>3. Alone(b) /\ Keeps(s, b)
  BY <1>2, SameTable DEF Lone
<1>4. q = QueryDevice(s, TRUE, b)
  BY <1>1 DEF QueryInTick
<1>5. CASE "INPROGRESS" \in s.flags
  <2>1. q = b
    BY <1>1, <1>4, <1>5, Zenon DEF QueryDevice
  <2>2. QED
    BY <1>3, <1>5, <2>1
<1>6. CASE "INPROGRESS" \notin s.flags
  <2>1. Alone(q) /\ Keeps(b, q) /\ Holds(q, 0)
    BY <1>2, <1>3, <1>4, <1>6, Asked DEF Lone
  <2>2. QED
    BY <1>3, <2>1 DEF Keeps
<1>7. QED
  BY <1>5, <1>6

(* A query of slot i is over and its refresh, if one is due, started in room. *)
LEMMA EndIs ==
  ASSUME NEW s, Lone(s), NEW result, NEW room, Lone(room), NEW q, q = QueryEnd(s, result, room)
  PROVE  /\ Alone(q)
         /\ "REFRESH" \notin QueryOver(s, result).flags => q = QueryOver(s, result)
         /\ "REFRESH" \in QueryOver(s, result).flags =>
              /\ Keeps(room, q) /\ Holds(q, 0)
              /\ room.table[0].used => Holds(q, 1)
              /\ room.table[0].used /\ room.table[1].used => q = room
<1>1. PICK t : t = QueryOver(s, result)
  OBVIOUS
<1>2. Sound(t) /\ t.table = s.table /\ "INPROGRESS" \notin t.flags
  BY <1>1, QueryOverSound, Over DEF Lone
<1>3. Alone(t)
  BY <1>2, SameTable DEF Lone
<1>4. CASE "REFRESH" \in t.flags
  <2>1. q = QueryDevice(t, TRUE, room)
    BY <1>1, <1>4, Zenon DEF QueryEnd
  <2>2. QED
    BY <1>1, <1>2, <1>4, <2>1, Asked
<1>5. CASE "REFRESH" \notin t.flags
  <2>1. q = t
    BY <1>1, <1>5, Zenon DEF QueryEnd
  <2>2. QED
    BY <1>1, <1>3, <1>5, <2>1
<1>6. QED
  BY <1>4, <1>5

LEMMA Stopped ==
  ASSUME NEW s, Lone(s), NEW status \in {"RUNNING", "DONE", "TIMEOUT", "ERROR"},
         NEW t, t = [s EXCEPT !.clc.status = status]
  PROVE  /\ Lone(t) /\ t.table = s.table /\ t.flags = s.flags /\ t.wpan = s.wpan
         /\ t.clc.status = status
<1>1. s \in Driver /\ Sound(s)
  BY DEF Lone, Sound
<1>2. Sound(t)
  <2>1. PICK c : c = [s.clc EXCEPT !.status = status]
    OBVIOUS
  <2>2. c \in [status : {"RUNNING", "DONE", "TIMEOUT", "ERROR"},
               start : 0 .. Len(Regs) - 1, index : 0 .. Len(Regs)]
    BY <1>1, <2>1, Fields
  <2>3. t = [s EXCEPT !.clc = c]
    BY <2>1
  <2>4. QED
    BY <1>1, <2>2, <2>3, Other
<1>3. t.table = s.table /\ t.flags = s.flags /\ t.wpan = s.wpan /\ t.clc.status = status
  BY <1>1 DEF Driver
<1>4. Alone(t)
  BY <1>3, SameTable DEF Lone
<1>5. QED
  BY <1>2, <1>3, <1>4 DEF Lone

(* One request, expired or not.                                               *)
LEMMA Expired ==
  ASSUME NEW s, Lone(s), NEW i \in Slots, NEW outcome, NEW t, t = Expire(s, i, outcome)
  PROVE  /\ Alone(t)
         /\ \A j \in Slots \ {i} : Holds(s, j) => Holds(t, j)
         /\ Truthful(s) => Truthful(t)
         /\ s.table[0].used /\ s.table[1].used /\ "REFRESH" \in s.flags /\ i = 0 => Holds(t, 0)
<1>1. s \in Driver /\ Sound(s) /\ Alone(s)
  BY DEF Lone, Sound
<1>2. CASE ~(s.table[i].used /\ s.table[i].left = 0)
  <2>1. t = s
    BY <1>2, Zenon DEF Expire
  <2>2. QED
    BY <1>1, <2>1, TwoSlots DEF Alone, Holds
<1>3. CASE s.table[i].used /\ s.table[i].left = 0
  <2>1. s.table[i].callback = Query /\ Query # None /\ Query \notin Users
    BY <1>1, <1>3 DEF Alone, Query, None, Lone
  <2>2. PICK late : late = [s EXCEPT !.clc.status = "TIMEOUT"]
    OBVIOUS
  <2>3. /\ Lone(late) /\ late.table = s.table /\ late.flags = s.flags
        /\ late.clc.status = "TIMEOUT"
    BY <2>2, Stopped
  <2>4. PICK over : over = QueryOver(late, "timeout")
    OBVIOUS
  <2>5. /\ over.table = s.table /\ over.clc.status = "TIMEOUT" /\ "INPROGRESS" \notin over.flags
        /\ "REFRESH" \in s.flags => "REFRESH" \in over.flags
        /\ Lacks(over) => "REFRESH" \in over.flags
    BY <2>3, <2>4, Over DEF Lone
  <2>6. PICK room : room = RefreshBegin(late, "timeout")
    OBVIOUS
  <2>7. Lone(room) /\ room.table = s.table /\ "REFRESH" \in room.flags /\ "INPROGRESS" \notin room.flags
    BY <2>3, <2>6, RefreshBegun
  <2>8. PICK after : after = QueryEnd(late, "timeout", room)
    OBVIOUS
  <2>9. /\ Alone(after)
        /\ "REFRESH" \notin over.flags => after = over
        /\ "REFRESH" \in over.flags =>
              /\ Keeps(room, after) /\ Holds(after, 0)
              /\ room.table[0].used => Holds(after, 1)
              /\ room.table[0].used /\ room.table[1].used => after = room
    BY <2>3, <2>4, <2>7, <2>8, EndIs
  <2>10. Lone(after)
    BY <2>3, <2>7, <2>8, <2>9, QueryEndSound DEF Lone
  <2>11. PICK freed : freed = Release(after, i)
    OBVIOUS
  <2>12. /\ Alone(freed) /\ Same(after, freed) /\ ~freed.table[i].used
         /\ \A j \in Slots \ {i} : Holds(freed, j) = Holds(after, j)
    BY <2>10, <2>11, Released
  <2>13. Lone(freed)
    BY <2>10, <2>11, <2>12, ReleaseSound DEF Lone
  <2>14. t = IF "REFRESH" \in freed.flags THEN QueryInTick(freed, TRUE) ELSE freed
    BY <1>3, <2>1, <2>2, <2>6, <2>8, <2>11, Zenon DEF Expire
  <2>15. Alone(t) /\ Keeps(freed, t)
    BY <2>12, <2>13, <2>14, InTick DEF Keeps
  <2>16. CASE "REFRESH" \notin over.flags
    <3>1. after = over
      BY <2>9, <2>16
    <3>2. t = freed
      BY <2>12, <2>14, <2>16, <3>1 DEF Same
    <3>3. Idle(t)
      BY <2>5, <2>12, <2>16, <3>1, <3>2 DEF Idle, Same, Lacks
    <3>4. \A j \in Slots \ {i} : Holds(s, j) => Holds(t, j)
      BY <2>5, <2>12, <3>1, <3>2 DEF Holds
    <3>5. QED
      BY <2>5, <2>15, <2>16, <3>3, <3>4 DEF Truthful
  <2>17. CASE "REFRESH" \in over.flags
    <3>1. \A j \in Slots \ {i} : Holds(s, j) => Holds(t, j)
      BY <2>7, <2>9, <2>12, <2>15, <2>17 DEF Keeps, Holds
    <3>2. \E j \in Slots \ {i} : Holds(after, j)
      BY <1>3, <2>7, <2>9, <2>17, TwoSlots
    <3>3. Truthful(t)
      BY <2>12, <2>15, <3>2 DEF Truthful, Keeps
    <3>4. ASSUME s.table[0].used, s.table[1].used, i = 0 PROVE Holds(t, 0)
      <4>1. after = room
        BY <2>7, <2>9, <2>17, <3>4
      <4>2. "REFRESH" \in freed.flags /\ "INPROGRESS" \notin freed.flags
        BY <2>7, <2>12, <4>1 DEF Same
      <4>3. QED
        BY <2>13, <2>14, <4>2, InTick
    <3>5. QED
      BY <2>15, <3>1, <3>3, <3>4
  <2>18. QED
    BY <2>16, <2>17
<1>4. QED
  BY <1>2, <1>3

(* Both of them: a full table whose refresh is due keeps slot 0 taken.        *)
LEMMA Ticked ==
  ASSUME NEW s, Lone(s), NEW outcome, NEW t, t = Tick(s, outcome)
  PROVE  /\ Lone(t)
         /\ Truthful(s) => Truthful(t)
         /\ s.table[0].used /\ s.table[1].used /\ "REFRESH" \in s.flags => Holds(t, 0)
<1>1. s \in Driver /\ Sound(s) /\ Alone(s)
  BY DEF Lone, Sound
<1>2. Sound(t)
  BY <1>1, TickSound
<1>3. CASE s.ticked
  <2>1. t = s
    BY <1>3 DEF Tick
  <2>2. QED
    BY <1>1, <2>1, TwoSlots DEF Alone, Holds
<1>4. CASE ~s.ticked
  <2>1. PICK a : a = [s EXCEPT !.ticked = TRUE]
    OBVIOUS
  <2>2. a.table = s.table /\ a.flags = s.flags /\ a.clc = s.clc /\ a.wpan = s.wpan
    BY <1>1, <2>1 DEF Driver
  <2>3. Sound(a)
    BY <1>1, <2>1, Other
  <2>4. Lone(a) /\ (Truthful(s) => Truthful(a))
    BY <2>2, <2>3 DEF Lone, Alone, Truthful, Holds, Idle, Lacks
  <2>5. PICK b : b = Expire(a, 0, outcome)
    OBVIOUS
  <2>6. /\ Alone(b) /\ (Truthful(a) => Truthful(b))
        /\ a.table[0].used /\ a.table[1].used /\ "REFRESH" \in a.flags => Holds(b, 0)
    BY <2>4, <2>5, Expired, TwoSlots
  <2>7. Lone(b)
    BY <2>3, <2>4, <2>5, <2>6, ExpireSound, TwoSlots DEF Lone
  <2>8. t = Expire(b, 1, outcome)
    BY <1>4, <2>1, <2>5 DEF Tick
  <2>9. Alone(t) /\ (Truthful(b) => Truthful(t)) /\ (Holds(b, 0) => Holds(t, 0))
    BY <2>7, <2>8, Expired, TwoSlots
  <2>10. Lone(t)
    BY <1>2, <2>7, <2>9 DEF Lone
  <2>11. QED
    BY <2>2, <2>4, <2>6, <2>9, <2>10
<1>5. QED
  BY <1>3, <1>4

LEMMA RoomMade ==
  ASSUME NEW s, Lone(s), NEW outcome, NEW t, t = MakeRoom(s, outcome)
  PROVE  /\ Lone(t)
         /\ s.table[0].used /\ "REFRESH" \in s.flags => t.table[0].used
<1>1. CASE FirstFree(s) = NoSlot
  <2>1. s.table[0].used /\ s.table[1].used
    BY <1>1 DEF FirstFree, NoSlot
  <2>2. t = Tick(s, outcome)
    BY <1>1 DEF MakeRoom
  <2>3. QED
    BY <2>1, <2>2, Ticked DEF Holds
<1>2. CASE FirstFree(s) # NoSlot
  BY <1>2 DEF MakeRoom
<1>3. QED
  BY <1>1, <1>2

(* xbee_cmd_init_device.                                                      *)
LEMMA Started ==
  ASSUME NEW s, Lone(s), NEW outcome, NEW q, q = InitDevice(s, outcome)
  PROVE  Lone(q) /\ (Truthful(s) => Truthful(q))
<1>1. s \in Driver /\ Sound(s)
  BY DEF Lone, Sound
<1>2. PICK t : t = [s EXCEPT !.flags = s.flags \union {"CMD_INIT"}]
  OBVIOUS
<1>3. /\ t.table = s.table /\ t.clc = s.clc /\ t.wpan = s.wpan
      /\ t.flags = s.flags \union {"CMD_INIT"}
  BY <1>1, <1>2, Changed
<1>4. Sound(t)
  <2>1. s.flags \union {"CMD_INIT"} \in SUBSET QueryFlag
    BY <1>1, Fields DEF QueryFlag
  <2>2. QED
    BY <1>1, <1>2, <2>1, Other
<1>5. Lone(t) /\ (Truthful(s) => Truthful(t))
  BY <1>3, <1>4 DEF Lone, Alone, Truthful, Holds, Idle, Lacks
<1>6. PICK b : b = QueryBegin(t, FALSE)
  BY Zenon
<1>7. Lone(b)
  <2>1. b.table = t.table /\ Sound(b)
    BY <1>4, <1>6, Begun, QueryFixed
  <2>2. QED
    BY <1>5, <2>1, SameTable DEF Lone
<1>8. PICK room : room = MakeRoom(b, outcome)
  OBVIOUS
<1>9. Lone(room)
  BY <1>7, <1>8, RoomMade
<1>10. PICK d : d = QueryDevice(t, FALSE, room)
  BY Zenon
<1>11. q = s \/ q = t \/ q = d
  BY <1>2, <1>6, <1>8, <1>10, Zenon DEF InitDevice
<1>12. Sound(d)
  BY <1>4, <1>9, <1>10, QueryFixed, Zenon DEF Lone
<1>13. Alone(d) /\ (Truthful(t) => Truthful(d))
  <2>1. CASE "INPROGRESS" \in t.flags
    <3>1. d = b
      BY <1>6, <1>10, <2>1, Zenon DEF QueryDevice
    <3>2. b.table = t.table /\ b.clc = t.clc /\ b.wpan = t.wpan /\ ("DONE" \in b.flags <=> "DONE" \in t.flags)
      BY <1>4, <1>6, <2>1, Begun
    <3>3. QED
      BY <1>7, <2>1, <3>1, <3>2 DEF Lone, Truthful, Holds, Idle, Lacks
  <2>2. CASE "INPROGRESS" \notin t.flags
    BY <1>4, <1>9, <1>10, <2>2, Asked, TwoSlots DEF Truthful
  <2>3. QED
    BY <2>1, <2>2
<1>14. Lone(d)
  BY <1>5, <1>12, <1>13 DEF Lone
<1>15. QED
  BY <1>5, <1>11, <1>13, <1>14

LEMMA RoomAfterStart ==
  ASSUME NEW s, Lone(s), NEW outcome PROVE Lone(InitAndMakeRoom(s, outcome))
<1>1. PICK q : q = InitDevice(s, outcome)
  OBVIOUS
<1>2. Lone(q)
  BY <1>1, Started
<1>3. QED
  BY <1>1, <1>2, RoomMade DEF InitAndMakeRoom

(* The query of slot i ends in the response handler, which then releases the  *)
(* slot, whatever has become of it.                                           *)
LEMMA EndedTruthful ==
  ASSUME NEW t, Lone(t), NEW i \in Slots, t.table[i].used, t.clc.status # "RUNNING",
         NEW result, NEW outcome, NEW q,
         q = QueryEnd(t, result, MakeRoom(RefreshBegin(t, result), outcome))
  PROVE  Alone(q) /\ Truthful(Release(q, i))
<1>1. PICK b : b = RefreshBegin(t, result)
  OBVIOUS
<1>2. Lone(b) /\ b.table = t.table /\ "REFRESH" \in b.flags
  BY <1>1, RefreshBegun
<1>3. PICK room : room = MakeRoom(b, outcome)
  OBVIOUS
<1>4. Lone(room) /\ (b.table[0].used => room.table[0].used)
  BY <1>2, <1>3, RoomMade
<1>5. PICK over : over = QueryOver(t, result)
  OBVIOUS
<1>6. /\ over.table = t.table /\ over.clc = t.clc /\ "INPROGRESS" \notin over.flags
      /\ Lacks(over) => "REFRESH" \in over.flags
  BY <1>5, Over DEF Lone
<1>7. q = QueryEnd(t, result, room)
  BY <1>1, <1>3
<1>8. /\ Alone(q)
      /\ "REFRESH" \notin over.flags => q = over
      /\ "REFRESH" \in over.flags => Holds(q, 0) /\ (room.table[0].used => Holds(q, 1))
  BY <1>4, <1>5, <1>7, EndIs
<1>9. Lone(q)
  <2>1. Sound(q)
    BY <1>4, <1>7, QueryEndSound DEF Lone
  <2>2. QED
    BY <1>8, <2>1 DEF Lone
<1>10. PICK r : r = Release(q, i)
  OBVIOUS
<1>11. Same(q, r) /\ \A j \in Slots \ {i} : Holds(r, j) = Holds(q, j)
  BY <1>9, <1>10, Released
<1>12. CASE "REFRESH" \notin over.flags
  BY <1>6, <1>8, <1>10, <1>11, <1>12 DEF Truthful, Idle, Same, Lacks
<1>13. CASE "REFRESH" \in over.flags
  <2>1. \E j \in Slots \ {i} : Holds(q, j)
    BY <1>2, <1>4, <1>8, <1>13, TwoSlots
  <2>2. QED
    BY <1>8, <1>10, <1>11, <2>1 DEF Truthful
<1>14. QED
  BY <1>12, <1>13

(* The query moves on in its list.                                            *)
LEMMA ListPlace ==
  ASSUME NEW s, Sound(s),
         NEW c \in [status : {"RUNNING", "DONE", "TIMEOUT", "ERROR"},
                    start : 0 .. Len(Regs) - 1, index : 0 .. Len(Regs)],
         NEW t, t = [s EXCEPT !.clc = c]
  PROVE  Sound(t) /\ t.table = s.table /\ t.clc = c
<1>1. s \in Driver
  BY DEF Sound
<1>2. QED
  BY <1>1, Other, Changed

LEMMA Advanced ==
  ASSUME NEW s, Sound(s), s.clc.index + 1 \in 0 .. Len(Regs),
         NEW t, t = [s EXCEPT !.clc.index = s.clc.index + 1]
  PROVE  Sound(t) /\ t.table = s.table
<1>1. PICK c : c = [s.clc EXCEPT !.index = s.clc.index + 1]
  OBVIOUS
<1>2. c \in [status : {"RUNNING", "DONE", "TIMEOUT", "ERROR"},
             start : 0 .. Len(Regs) - 1, index : 0 .. Len(Regs)]
  BY <1>1, Fields DEF Sound
<1>3. t = [s EXCEPT !.clc = c]
  BY <1>1
<1>4. QED
  BY <1>2, <1>3, ListPlace

Last(s) == [s EXCEPT !.clc.index = s.clc.index + 1, !.clc.status = "DONE"]

LEMMA Finished ==
  ASSUME NEW s, Sound(s), s.clc.index + 1 \in 0 .. Len(Regs), NEW t, t = Last(s)
  PROVE  Sound(t) /\ t.table = s.table /\ t.clc.status = "DONE"
<1>1. PICK c : c = [s.clc EXCEPT !.index = s.clc.index + 1, !.status = "DONE"]
  OBVIOUS
<1>2. /\ c \in [status : {"RUNNING", "DONE", "TIMEOUT", "ERROR"},
                start : 0 .. Len(Regs) - 1, index : 0 .. Len(Regs)]
      /\ c.status = "DONE"
  BY <1>1, Fields DEF Sound
<1>3. t = [s EXCEPT !.clc = c]
  <2>1. s \in Driver
    BY DEF Sound
  <2>2. QED
    BY <1>1, <2>1 DEF Driver, Last
<1>4. Sound(t) /\ t.table = s.table /\ t.clc = c
  BY <1>2, <1>3, ListPlace
<1>5. QED
  BY <1>2, <1>4

(* One request changes without leaving the query.                             *)
LEMMA StillHeld ==
  ASSUME NEW s, Lone(s), NEW i \in Slots, Holds(s, i), NEW r \in Request,
         r.used = s.table[i].used, r.callback = s.table[i].callback,
         NEW t, t = With(s, i, r)
  PROVE  Alone(t) /\ Holds(t, i)
<1>1. r.used /\ r.callback = Query
  BY DEF Holds
<1>2. QED
  BY <1>1, SlotSet

LEMMA StoredSame ==
  ASSUME NEW s, Sound(s), NEW command, NEW value, NEW t,
         t = RegCallback(RegCopy(s, command, value), command, value)
  PROVE  t.table = s.table
<1>1. PICK c : c = RegCopy(s, command, value)
  OBVIOUS
<1>2. c.table = s.table /\ Sound(c)
  <2>1. s \in Driver
    BY DEF Sound
  <2>2. c.table = s.table
    BY <1>1, <2>1 DEF RegCopy, Driver
  <2>3. QED
    BY <1>1, <2>2, RegCopySound
<1>3. c \in Driver
  BY <1>2 DEF Sound
<1>4. t.table = c.table
  BY <1>1, <1>3 DEF RegCallback, Driver
<1>5. QED
  BY <1>2, <1>4

(* An answer to the query in slot i.  If the request is not kept, slot i is   *)
(* released next.                                                             *)
LEMMA Answered ==
  ASSUME NEW s, Lone(s), NEW i \in Slots, Holds(s, i), NEW ok \in BOOLEAN, NEW value,
         NEW outcome, NEW r, r = ListResponse(s, i, ok, value, outcome)
  PROVE  /\ Alone(r.drv)
         /\ r.reuse => Holds(r.drv, i)
         /\ ~r.reuse => Truthful(Release(r.drv, i))
<1>1. PICK command : command = s.table[i].command
  OBVIOUS
<1>2. PICK n \in Nat : n = Len(Regs)
  BY Constants
<1>3. PICK e \in Nat : e = s.clc.start + s.clc.index + 1
  <2>1. s.clc.start \in Nat /\ s.clc.index \in Nat
    BY <1>2, Fields DEF Lone, Sound
  <2>2. QED
    BY <2>1
<1>4. PICK stored : stored = IF ok THEN RegCallback(RegCopy(s, command, value), command, value) ELSE s
  OBVIOUS
<1>5. Sound(s) /\ s \in Driver /\ Alone(s) /\ s.table[i].used
  BY DEF Lone, Sound, Holds
<1>6. Sound(stored) /\ stored.clc = s.clc /\ stored.table = s.table
  BY <1>4, <1>5, StoredSound, StoredSame
<1>7. PICK failed : failed = [s EXCEPT !.clc.status = "ERROR"]
  OBVIOUS
<1>8. Lone(failed) /\ failed.table = s.table /\ failed.clc.status = "ERROR"
  BY <1>7, Stopped
<1>9. CASE e > n
  <2>1. r = [drv |-> QueryEnd(failed, "error", MakeRoom(RefreshBegin(failed, "error"), outcome)),
             reuse |-> FALSE]
    BY <1>2, <1>3, <1>7, <1>9 DEF ListResponse
  <2>2. PICK q : q = QueryEnd(failed, "error", MakeRoom(RefreshBegin(failed, "error"), outcome))
    OBVIOUS
  <2>3. Alone(q) /\ Truthful(Release(q, i))
    BY <1>5, <1>8, <2>2, EndedTruthful
  <2>4. r.drv = q /\ r.reuse = FALSE
    BY <2>1, <2>2
  <2>5. QED
    BY <2>3, <2>4
<1>10. CASE ~(e > n) /\ Regs[e] # command
  <2>1. PICK d : d = IF ok THEN RegCallback(failed, Regs[e], value) ELSE failed
    OBVIOUS
  <2>2. r = [drv |-> d, reuse |-> FALSE]
    BY <1>1, <1>2, <1>3, <1>7, <1>10, <2>1 DEF ListResponse
  <2>3. Sound(d)
    BY <1>8, <2>1, RegCallbackSound DEF Lone
  <2>4. d.table = s.table /\ d.clc.status = "ERROR"
    BY <1>8, <2>1 DEF RegCallback, Lone, Sound, Driver
  <2>5. Lone(d)
    BY <1>5, <2>3, <2>4, SameTable DEF Lone
  <2>6. PICK v : v = Release(d, i)
    OBVIOUS
  <2>7. Same(d, v)
    BY <2>5, <2>6, Released
  <2>8. Idle(v)
    BY <2>4, <2>7 DEF Idle, Same
  <2>9. QED
    BY <2>2, <2>5, <2>6, <2>8 DEF Lone, Truthful
<1>11. s.clc.start \in 0 .. n - 1 /\ s.clc.index \in 0 .. n
  BY <1>2, <1>5, Fields
<1>12. CASE e = n /\ Regs[e] = command
  <2>1. PICK d : d = [stored EXCEPT !.clc.index = stored.clc.index + 1, !.clc.status = "DONE"]
    OBVIOUS
  <2>2. stored.clc.index + 1 \in 0 .. Len(Regs)
    BY <1>2, <1>3, <1>6, <1>11, <1>12
  <2>3. Sound(d) /\ d.table = stored.table /\ d.clc.status = "DONE"
    <3>1. d = Last(stored)
      BY <2>1 DEF Last
    <3>2. QED
      BY <1>6, <2>2, <3>1, Finished
  <2>4. d.table = s.table /\ d.clc.status = "DONE"
    BY <1>6, <2>3
  <2>5. Lone(d)
    BY <1>5, <2>3, <2>4, SameTable DEF Lone
  <2>6. PICK q : q = QueryEnd(d, "done", MakeRoom(RefreshBegin(d, "done"), outcome))
    OBVIOUS
  <2>7. r = [drv |-> q, reuse |-> FALSE]
    <3>1. ~(e > Len(Regs)) /\ ~(Regs[e] # command) /\ e = Len(Regs)
      BY <1>2, <1>12
    <3>2. QED
      BY <1>1, <1>3, <1>4, <2>1, <2>6, <3>1, Zenon DEF ListResponse
  <2>8. Alone(q) /\ Truthful(Release(q, i))
    BY <1>5, <2>4, <2>5, <2>6, EndedTruthful
  <2>9. QED
    BY <2>7, <2>8
<1>13. CASE e < n /\ Regs[e] = command
  <2>1. PICK m : m = [stored EXCEPT !.clc.index = stored.clc.index + 1]
    OBVIOUS
  <2>2. stored.clc.index + 1 \in 0 .. Len(Regs)
    <3>1. s.clc.index + 1 \in 0 .. n
      BY <1>3, <1>11, <1>13
    <3>2. QED
      BY <1>2, <1>6, <3>1
  <2>3. Sound(m) /\ m.table = stored.table
    BY <1>6, <2>1, <2>2, Advanced
  <2>4. m.table = s.table
    BY <1>6, <2>3
  <2>5. Regs[e + 1] \in CommandName
    BY <1>2, <1>3, <1>13, RegName
  <2>6. PICK d : d = [m EXCEPT !.table[i].command = Regs[e + 1]]
    OBVIOUS
  <2>7. Sound(d)
    BY <2>3, <2>5, <2>6, Set
  <2>8. d = [stored EXCEPT !.clc.index = stored.clc.index + 1, !.table[i].command = Regs[e + 1]]
    BY <1>6, <2>1, <2>6 DEF Sound, Driver
  <2>9. Alone(d) /\ Holds(d, i)
    <3>1. Lone(m)
      BY <1>5, <2>3, <2>4, SameTable DEF Lone
    <3>2. PICK u \in Request : u = m.table[i]
      BY <2>3, SlotFields DEF Sound
    <3>3. PICK w : w = [u EXCEPT !.command = Regs[e + 1]]
      OBVIOUS
    <3>4. w \in Request /\ w.used = u.used /\ w.callback = u.callback
      BY <2>5, <3>2, <3>3 DEF Request
    <3>5. d = With(m, i, w)
      BY <2>6, <3>2, <3>3 DEF With
    <3>6. Holds(m, i)
      BY <2>4 DEF Holds
    <3>7. QED
      BY <3>1, <3>2, <3>4, <3>5, <3>6, StillHeld
  <2>10. PICK v : v = Send(d, Handle(d, i))
    OBVIOUS
  <2>11. r = [drv |-> v, reuse |-> TRUE]
    <3>1. ~(e > Len(Regs)) /\ ~(Regs[e] # command) /\ ~(e = Len(Regs))
      BY <1>2, <1>13
    <3>2. QED
      BY <1>1, <1>3, <1>4, <2>8, <2>10, <3>1, Zenon DEF ListResponse
  <2>12. Lone(d)
    BY <2>7, <2>9 DEF Lone
  <2>13. Alone(v) /\ Holds(v, i)
    BY <2>9, <2>10, <2>12, Sent DEF Keeps
  <2>14. QED
    BY <2>11, <2>13
<1>14. QED
  BY <1>2, <1>9, <1>10, <1>12, <1>13

(* _xbee_cmd_handle_response.                                                 *)
LEMMA Handled ==
  ASSUME NEW s, Lone(s), Truthful(s), NEW x, NEW ok \in BOOLEAN, NEW value, NEW outcome,
         NEW t, t = HandleResponse(s, x, ok, value, outcome)
  PROVE  Alone(t) /\ Truthful(t)
<1>1. PICK i : i = Matching(s, x)
  OBVIOUS
<1>2. CASE i = NoSlot
  BY <1>1, <1>2 DEF HandleResponse, Lone
<1>3. CASE i # NoSlot
  <2>1. i \in Slots /\ s.table[i].used
    BY <1>1, <1>3, TwoSlots DEF Matching, Matches
  <2>2. s.table[i].callback = Query /\ Query # None /\ Holds(s, i)
    BY <2>1 DEF Lone, Alone, Holds, Query, None
  <2>3. PICK r : r = ListResponse(s, i, ok, value, outcome)
    OBVIOUS
  <2>4. /\ Alone(r.drv)
        /\ r.reuse => Holds(r.drv, i)
        /\ ~r.reuse => Truthful(Release(r.drv, i))
    BY <2>1, <2>2, <2>3, Answered
  <2>5. Sound(r.drv) /\ r.reuse \in BOOLEAN
    BY <2>1, <2>3, ListResponseSound DEF Lone
  <2>6. Lone(r.drv)
    BY <2>4, <2>5 DEF Lone
  <2>7. t = IF r.reuse THEN [r.drv EXCEPT !.table[i].left = ReuseTimeout] ELSE Release(r.drv, i)
    BY <1>1, <1>3, <2>2, <2>3 DEF HandleResponse
  <2>8. CASE r.reuse
    <3>1. PICK u \in Request : u = r.drv.table[i]
      BY <2>1, <2>5, SlotFields DEF Sound
    <3>2. PICK w : w = [u EXCEPT !.left = ReuseTimeout]
      OBVIOUS
    <3>3. w \in Request /\ w.used = u.used /\ w.callback = u.callback
      BY <3>1, <3>2, Constants DEF Request
    <3>4. t = With(r.drv, i, w)
      BY <2>7, <2>8, <3>1, <3>2 DEF With
    <3>5. Alone(t) /\ Holds(t, i)
      BY <2>1, <2>4, <2>6, <2>8, <3>1, <3>3, <3>4, StillHeld
    <3>6. QED
      BY <2>1, <3>5 DEF Truthful
  <2>9. CASE ~r.reuse
    BY <2>1, <2>4, <2>6, <2>7, <2>9, Released
  <2>10. QED
    BY <2>8, <2>9
<1>4. QED
  BY <1>2, <1>3

-----------------------------------------------------------------------------
(* The calls, with the table to the query alone.                              *)

QueryInv == Sound(drv) /\ Alone(drv) /\ Truthful(drv)

LEMMA TruthfulInit == Init => Alone(drv) /\ Truthful(drv)
<1> SUFFICES ASSUME Init PROVE Alone(drv) /\ Truthful(drv)
  OBVIOUS
<1>1. \A i \in Slots : drv.table[i] = Free(0)
  BY DEF Init
<1>2. ~Free(0).used
  BY FreeType, Constants
<1>3. Idle(drv)
  BY DEF Init, Idle, Lacks, WpanAfterDevInit
<1>4. QED
  BY <1>1, <1>2, <1>3 DEF Alone, Truthful

LEMMA TruthfulSecond == ASSUME Sound(drv), Alone(drv), Truthful(drv), Second
                        PROVE  Alone(drv') /\ Truthful(drv')
<1>1. PICK T : T = [i \in Slots |-> [drv.table[i] EXCEPT !.left = IF @ = 0 THEN 0 ELSE @ - 1]]
  OBVIOUS
<1>2. ASSUME NEW i \in Slots
      PROVE  T[i].used = drv.table[i].used /\ T[i].callback = drv.table[i].callback
  <2>1. drv.table[i] \in Request
    BY SlotFields DEF Sound
  <2>2. QED
    BY <1>1, <2>1 DEF Request
<1>3. drv' = [drv EXCEPT !.ticked = FALSE, !.table = T]
  BY <1>1, Zenon DEF Second
<1>4. /\ drv'.table = T /\ drv'.flags = drv.flags /\ drv'.clc = drv.clc /\ drv'.wpan = drv.wpan
  BY <1>3 DEF Sound, Driver
<1>5. QED
  BY <1>2, <1>4 DEF Alone, Truthful, Holds, Idle, Lacks

LEMMA TruthfulRespond == ASSUME Lone(drv), Truthful(drv), Respond
                         PROVE  Alone(drv') /\ Truthful(drv')
<1>1. PICK x, value, more, outcome : \E ok \in BOOLEAN :
        drv' = HandleResponse(IF more THEN drv ELSE [drv EXCEPT !.radio = drv.radio \ {x}],
                              x, ok, value, outcome)
  BY Zenon DEF Respond
<1>2. PICK t : t = [drv EXCEPT !.radio = drv.radio \ {x}]
  OBVIOUS
<1>3. drv \in Driver
  BY DEF Lone, Sound
<1>4. drv.radio \ {x} \in SUBSET Command
  BY <1>3, Fields
<1>5. /\ t \in Driver /\ t.table = drv.table /\ t.user = drv.user /\ t.shared = drv.shared
      /\ t.radio = drv.radio \ {x} /\ t.flags = drv.flags /\ t.clc = drv.clc /\ t.wpan = drv.wpan
  BY <1>2, <1>3, <1>4 DEF Driver, Command
<1>6. Sound(t)
  BY <1>5 DEF Lone, Sound, Owned, Traced, Valid, Handle
<1>7. Alone(t) /\ Truthful(t)
  BY <1>5 DEF Lone, Alone, Truthful, Holds, Idle, Lacks
<1>8. Lone(t)
  BY <1>6, <1>7 DEF Lone
<1>9. PICK s : s = IF more THEN drv ELSE t
  OBVIOUS
<1>10. Lone(s) /\ Truthful(s)
  BY <1>7, <1>8, <1>9
<1>11. PICK ok \in BOOLEAN : drv' = HandleResponse(s, x, ok, value, outcome)
  BY <1>1, <1>2, <1>9
<1>12. QED
  BY <1>10, <1>11, Handled

(* A modem status: a device that leaves lacks nothing, any other status asks. *)
LEMMA TruthfulModem == ASSUME Lone(drv), Truthful(drv), Modem
                       PROVE  Alone(drv') /\ Truthful(drv')
<1>1. PICK status, outcome, s :
        /\ s = [drv EXCEPT !.wpan = ModemStatus(drv.wpan, status)]
        /\ IF status \in Left THEN drv' = s
           ELSE drv' = QueryDevice(s, TRUE, InitAndMakeRoom(QueryBegin(s, TRUE), outcome))
  BY Zenon DEF Modem
<1>2. drv \in Driver /\ Sound(drv)
  BY DEF Lone, Sound
<1>3. PICK w \in Wpan : w = ModemStatus(drv.wpan, status)
  BY <1>2, Fields, StatusType
<1>4. s.wpan = w /\ s.table = drv.table /\ s.flags = drv.flags /\ s.clc = drv.clc /\ Sound(s)
  BY <1>1, <1>2, <1>3, Changed, Other
<1>5. Lone(s)
  BY <1>4, SameTable DEF Lone
<1>6. CASE status \in Left
  <2>1. ~w.joined
    BY <1>3, <1>6, StatusAssumption DEF ModemStatus
  <2>2. Truthful(s)
    BY <1>4, <2>1 DEF Truthful, Holds, Idle, Lacks
  <2>3. QED
    BY <1>1, <1>5, <1>6, <2>2 DEF Lone
<1>7. CASE status \notin Left
  <2>1. PICK b : b = QueryBegin(s, TRUE)
    BY Zenon
  <2>2. Sound(b) /\ b.table = s.table
    BY <1>4, <2>1, Begun, QueryFixed
  <2>3. Lone(b)
    BY <1>5, <2>2, SameTable DEF Lone
  <2>4. PICK room : room = InitAndMakeRoom(b, outcome)
    OBVIOUS
  <2>5. Lone(room)
    BY <2>3, <2>4, RoomAfterStart
  <2>6. drv' = QueryDevice(s, TRUE, room)
    BY <1>1, <1>7, <2>1, <2>4, Zenon
  <2>7. CASE "INPROGRESS" \in s.flags
    <3>1. drv' = b
      BY <2>1, <2>6, <2>7, Zenon DEF QueryDevice
    <3>2. b.clc = s.clc
      BY <1>4, <2>1, <2>7, Begun
    <3>3. Truthful(b)
      BY <1>4, <2>2, <2>7, <3>2 DEF Truthful, Holds, Idle
    <3>4. QED
      BY <2>3, <3>1, <3>3 DEF Lone
  <2>8. CASE "INPROGRESS" \notin s.flags
    BY <1>4, <2>5, <2>6, <2>8, Asked, TwoSlots DEF Truthful
  <2>9. QED
    BY <2>7, <2>8
<1>8. QED
  BY <1>6, <1>7

LEMMA TruthfulStep ==
  ASSUME Users = {} PROVE Sound(drv) /\ Alone(drv) /\ Truthful(drv) /\ [Next]_vars => Alone(drv') /\ Truthful(drv')
<1> SUFFICES ASSUME Sound(drv), Alone(drv), Truthful(drv), [Next]_vars PROVE Alone(drv') /\ Truthful(drv')
  OBVIOUS
<1>1. Lone(drv)
  BY DEF Lone
<1>2. CASE AppInit
  BY <1>1, <1>2, Started DEF AppInit, Lone
<1>3. CASE AppTick
  BY <1>1, <1>3, Ticked DEF AppTick, Lone
<1>4. CASE MoveCTS
  <2>1. drv' = [drv EXCEPT !.cts = ~drv.cts]
    BY <1>4 DEF MoveCTS
  <2>2. drv'.table = drv.table /\ drv'.flags = drv.flags /\ drv'.clc = drv.clc /\ drv'.wpan = drv.wpan
    BY <2>1 DEF Sound, Driver
  <2>3. QED
    BY <2>2 DEF Alone, Truthful, Holds, Idle, Lacks
<1>5. CASE UNCHANGED vars
  BY <1>5 DEF vars
<1>6. QED
  BY <1>1, <1>2, <1>3, <1>4, <1>5, TruthfulSecond, TruthfulRespond, TruthfulModem DEF Next

LEMMA TruthfulAlways == ASSUME Users = {} PROVE Spec => []QueryInv
<1>1. Init => QueryInv
  BY SoundInit, TruthfulInit DEF QueryInv
<1>2. QueryInv /\ [Next]_vars => QueryInv'
  BY SoundStep, TruthfulStep DEF QueryInv
<1>3. QED
  BY <1>1, <1>2, PTL DEF Spec

(* While xbee_cmd_query_status answers -EBUSY a request of the query is out,  *)
(* whatever the query list, the timeouts, the module and /CTS do: without     *)
(* users every end of a query that starts a refresh, from an expiry, from the *)
(* response handler or from xbee_cmd_create, leaves it a slot.                *)
THEOREM BusyIsUnderway == ASSUME Users = {} PROVE Spec => []BusyMeansUnderway
<1>1. QueryInv => BusyMeansUnderway
  BY DEF QueryInv, Truthful, Idle, BusyMeansUnderway, Underway, Holds
<1>2. QED
  BY <1>1, TruthfulAlways, PTL

(* The flag that stops every further query is left set without a request only *)
(* by an answer out of turn, which xbee_cmd_query_status reports as -EIO.     *)
THEOREM StuckReported == ASSUME Users = {} PROVE Spec => []StuckIsReported
<1>1. QueryInv => StuckIsReported
  BY DEF QueryInv, Truthful, Idle, StuckIsReported, OutOfTurn, Underway, Holds
<1>2. QED
  BY <1>1, TruthfulAlways, PTL

(* A joined device without an address has a request of a query out, or its    *)
(* last query ran to the end or to an answer out of turn                      *)
(* (_xbee_cmd_query_handle_end, _xbee_cmd_modem_status).                      *)
THEOREM AddressIsSought == ASSUME Users = {} PROVE Spec => []AddressSought
<1>1. QueryInv => AddressSought
  BY DEF QueryInv, Truthful, Idle, Lacks, NeedsAddress, AddressSought, OutOfTurn, Underway, Holds
<1>2. QED
  BY <1>1, TruthfulAlways, PTL

=============================================================================
