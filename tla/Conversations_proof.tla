------------------------- MODULE Conversations_proof -------------------------
(* The conversation tables of wpan_aps.c for any endpoint table, requests,     *)
(* timeouts and sizes: each of the properties of Conversations that a run      *)
(* checks is proved of Spec.  The invariant speaks of worlds, the part of the  *)
(* state a handler may change, so that one lemma per thing a handler can do    *)
(* serves the program's own requests, responses and expiries alike.            *)
EXTENDS Conversations, FiniteSetTheorems, WellFoundedInduction,
        SequenceTheorems, TLAPS

Holders == Requests \cup {NoRequest}
EntryType == [req : Holders, timeout : 0..(TimeMod - 1), id : 0..(TransMod - 1),
              limit : Nat, age : Nat, serial : Nat]
PacketType == [row : Rows, serial : Nat, req : Holders]
WorldType == [conv : [Rows -> [1..Slots -> EntryType]],
              issued : [Rows -> Nat],
              sent : SUBSET PacketType,
              state : [Requests -> {"idle", "open", "done"}],
              strayed : SUBSET Requests]

(* A deadline, seen from the timer: it is left seconds away, which is what is  *)
(* left of the timeout or, when it was moved off 0, one second more.           *)
Left(e, left) ==
    /\ left \in {e.limit - e.age, e.limit - e.age + 1}
    /\ e.timeout # 0
    /\ e.timeout \in {seconds + left, seconds + left - TimeMod, seconds + left + TimeMod}

(* An entry with a timeout has at least `least` seconds left, one without has  *)
(* no deadline, and a free one has neither.                                    *)
OnTime(e, least) ==
    /\ e.req = NoRequest => e.limit = 0
    /\ e.limit = 0 => e.timeout = 0
    /\ e.limit > 0 => /\ e.limit + PauseMax + 1 < Half
                      /\ \E left \in least..(Half - 1) : Left(e, left)

(* No two entries hold one request, and the open ones are those that are held. *)
OneEach(w) == \A r, s \in Rows : \A i, j \in 1..Slots :
    w.conv[r][i].req = w.conv[s][j].req /\ w.conv[r][i].req # NoRequest => r = s /\ i = j
OpenIsHeld(w) == \A q \in Requests :
    w.state[q] = "open" <=> \E r \in Rows : \E i \in 1..Slots : w.conv[r][i].req = q

(* An entry carries the ID of a transaction of its own row.                    *)
Numbered(w) == \A r \in Rows : \A i \in 1..Slots :
    w.conv[r][i].req # NoRequest =>
        /\ w.conv[r][i].serial \in 1..w.issued[r]
        /\ w.conv[r][i].id = IdOf(w.conv[r][i].serial)

(* A transaction was taken, and whoever holds it is the request it was for.    *)
Faithful(w, f) ==
    /\ f.serial \in 1..w.issued[f.row]
    /\ \A i \in 1..Slots :
          w.conv[f.row][i].req # NoRequest /\ w.conv[f.row][i].serial = f.serial =>
              w.conv[f.row][i].req = f.req

WorldOK(w) ==
    /\ w \in WorldType
    /\ \A r \in Rows : w.issued[r] <= IssueMax[r]
    /\ OneEach(w)
    /\ OpenIsHeld(w)
    /\ Numbered(w)
    /\ \A f \in w.sent : Faithful(w, f)

(* Every entry has its seconds left; in the walk, those passed have one more.  *)
InTime(w, least) == \A r \in Rows : \A i \in 1..Slots : OnTime(w.conv[r][i], least)
Passed == \A n \in 1..at : OnTime(conversations[RowAt(n)][SlotAt(n)], 1)

EnvelopeType == [dest : {EndpointTable[r].endpoint : r \in Rows} \cup {BroadcastEp},
                 profile : {EndpointTable[r].profile : r \in Rows},
                 cluster : {t.cluster : t \in Traffic},
                 kind : {"zdoResponse", "zdoRequest", "zclResponse", "zclDefault", "zclRequest"},
                 options : SUBSET (FrameOptions \cup ClusterFlags),
                 serial : Nat, req : Holders]

(* The row the envelope was sent to.                                           *)
Addressee(row) ==
    /\ EndpointTable[row].profile = env.profile
    /\ env.kind \in {"zdoResponse", "zdoRequest"} <=> EndpointTable[row].handler = "zdo_handler"
    /\ "broadcastEp" \notin env.options => /\ env.dest = EndpointTable[row].endpoint
                                           /\ ep \in {0, row}
    /\ env.kind \notin Unasked => Faithful(World, [row |-> row, serial |-> env.serial, req |-> env.req])

(* A report to a broadcast came from the ZDO endpoint, which has been served.  *)
Reported ==
    complaints = 1 =>
        /\ env.kind # "zclDefault" /\ "broadcastAddr" \notin env.options
        /\ "broadcastEp" \in env.options =>
              /\ env.kind = "zdoRequest"
              /\ \E r \in 1..ep : /\ EndpointTable[r].handler = "zdo_handler"
                                  /\ EndpointTable[r].profile = env.profile

Dispatching ==
    /\ env \in EnvelopeType
    /\ "broadcastEp" \in env.options => env.kind \in Unasked
    /\ \E row \in Rows : Addressee(row)
    /\ ep \in 0..Len(EndpointTable)
    /\ ep = 0 => env.options \subseteq FrameOptions /\ complaints = 0
    /\ complaints \in {0, 1} /\ Reported

ConvInv ==
    /\ WorldOK(World)
    /\ strayed = {}
    /\ seconds \in 0..(TimeMod - 1) /\ now \in 0..(TimeMod - 1) /\ pause \in 0..PauseMax
    /\ phase \in {"idle", "dispatch", "expire"}
    /\ at \in 0..(Len(EndpointTable) * Slots)
    /\ phase # "expire" => InTime(World, 1 - pause)
    /\ phase = "expire" => now = seconds /\ InTime(World, 1 - PauseMax) /\ Passed
    /\ phase = "dispatch" => Dispatching
    /\ phase # "dispatch" => env = NoEnv /\ ep = 0 /\ complaints = 0
    /\ OwnCluster

-----------------------------------------------------------------------------
\* Arithmetic of the two wrapping counters, and of the walk over the entries.

LEMMA ModOnce == ASSUME NEW m \in Nat, NEW t \in 0..(m - 1), NEW x \in 0..(m - 1)
                 PROVE  (t + x) % m \in {t + x, t + x - m} \cap (0..(m - 1))
<1>1. CASE t + x < m
  BY <1>1
<1>2. CASE t + x >= m
  BY <1>2
<1>3. QED
  BY <1>1, <1>2
LEMMA ModNegative == \A m \in Nat, x \in Int : x < 0 /\ -m <= x => x % m = x + m
  BY SMT

LEMMA ModNext == ASSUME NEW m \in Nat \ {0}, NEW x \in 0..(m - 1)
                 PROVE  (x + 1) % m = IF x + 1 = m THEN 0 ELSE x + 1
<1>1. CASE x + 1 = m
  <2>1. m % m = 0
    OBVIOUS
  <2>2. QED
    BY <1>1, <2>1
<1>2. CASE x + 1 < m
  BY <1>2
<1>3. QED
  BY <1>1, <1>2

LEMMA ModShift == ASSUME NEW m \in Nat \ {0}, NEW k \in 0..(m - 1)
                  PROVE  k % m = k /\ (k + m) % m = k /\ (k - m) % m = k
  OBVIOUS

\* Fewer than m apart and the same modulo m.
LEMMA ModEqual == ASSUME NEW m \in Nat \ {0}, NEW a \in Nat, NEW b \in Nat,
                         a % m = b % m, a - b < m, b - a < m
                  PROVE  a = b
<1> DEFINE p == a \div m
           q == b \div m
<1>1. p \in Int /\ q \in Int
  OBVIOUS
<1>2. a = m * p + (a % m) /\ b = m * q + (b % m)
  OBVIOUS
<1> HIDE DEF p, q
<1>3. a - b = (m * p) - (m * q)
  BY <1>1, <1>2
<1>4. a - b = m * (p - q)
  BY <1>1, <1>3
<1>5. \A d \in Int : (d >= 1 => m * d >= m) /\ (d <= -1 => m * d <= -m)
  OBVIOUS
<1>6. QED
  BY <1>1, <1>4, <1>5

LEMMA PlaceOf == \A m \in Nat \ {0}, q, k \in Nat : k < m => (q * m + k) \div m = q /\ (q * m + k) % m = k
  BY SMT

\* A non-empty set of numbers has a least one, and Min names it.
LEMMA MinIsLeast == ASSUME NEW S \in SUBSET Nat, S # {}
                    PROVE  Min(S) \in S /\ \A m \in S : Min(S) <= m
<1> DEFINE Less == {pair \in Nat \X Nat : pair[1] < pair[2]}
<1>1. IsWellFoundedOn(Less, Nat)
  BY NatLessThanWellFounded DEF OpToRel
<1>2. \E n \in S : \A m \in S : ~(<<m, n>> \in Less)
  <2> HIDE DEF Less
  <2> QED BY <1>1, WFMin
<1>3. \A m, n \in S : <<m, n>> \in Less <=> m < n
  OBVIOUS
<1> HIDE DEF Less
<1>4. \A m, n \in S : ~(m < n) <=> n <= m
  OBVIOUS
<1>5. \E n \in S : \A m \in S : n <= m
  BY <1>2, <1>3, <1>4
<1>6. QED
  BY <1>5 DEF Min

\* The walk passes every entry, and only entries.
LEMMA WalkPlaces == \A n \in 1..(Len(EndpointTable) * Slots) : RowAt(n) \in Rows /\ SlotAt(n) \in 1..Slots
<1> SUFFICES ASSUME NEW n \in 1..(Len(EndpointTable) * Slots)
             PROVE  RowAt(n) \in Rows /\ SlotAt(n) \in 1..Slots
  OBVIOUS
<1> DEFINE q == (n - 1) \div Slots
           k == (n - 1) % Slots
           l == Len(EndpointTable)
<1>1. Slots \in Nat \ {0}
  BY RequestAssumption
<1>2. l \in Nat /\ Rows = 1..l
  BY TableAssumption, LenProperties DEF Rows
<1>3. l * Slots \in Nat
  BY <1>1, <1>2
<1>4. q \in Nat /\ k \in 0..(Slots - 1) /\ n - 1 = Slots * q + k
  BY <1>1, <1>3
<1> HIDE DEF q, k, l
<1>5. n - 1 < l * Slots
  BY <1>3 DEF l
<1>6. \A d \in Nat : d >= l => d * Slots >= l * Slots
  BY <1>1, <1>2
<1>7. Slots * q = q * Slots /\ Slots * q <= n - 1
  BY <1>1, <1>3, <1>4 DEF l
<1>8. q < l
  <2> SUFFICES ASSUME q >= l PROVE FALSE
    BY <1>2, <1>4
  <2>1. q * Slots >= l * Slots
    BY <1>4, <1>6
  <2>2. n - 1 \in Int /\ q * Slots \in Int
    BY <1>1, <1>4
  <2>3. QED
    BY <1>3, <1>5, <1>7, <2>1, <2>2
<1>9. QED
  BY <1>1, <1>2, <1>4, <1>8 DEF RowAt, SlotAt, q, k

LEMMA WalkComplete == \A r \in Rows, i \in 1..Slots :
                         \E n \in 1..(Len(EndpointTable) * Slots) : RowAt(n) = r /\ SlotAt(n) = i
<1> SUFFICES ASSUME NEW r \in Rows, NEW i \in 1..Slots
             PROVE  \E n \in 1..(Len(EndpointTable) * Slots) : RowAt(n) = r /\ SlotAt(n) = i
  OBVIOUS
<1> DEFINE l == Len(EndpointTable)
           q == r - 1
           k == i - 1
           n == q * Slots + i
<1>1. Slots \in Nat \ {0} /\ i \in Nat /\ i >= 1 /\ i <= Slots
  BY RequestAssumption
<1>2. l \in Nat /\ Rows = 1..l
  BY TableAssumption, LenProperties DEF Rows
<1>3. q \in Nat /\ k \in Nat /\ k < Slots /\ q <= l - 1
  BY <1>1, <1>2
<1>4. (q * Slots + k) \div Slots = q /\ (q * Slots + k) % Slots = k
  <2> HIDE DEF q, k
  <2> QED BY <1>1, <1>3, PlaceOf
<1>5. q * Slots \in Nat /\ q * Slots <= (l - 1) * Slots /\ (l - 1) * Slots = l * Slots - Slots
  BY <1>1, <1>2, <1>3
<1>5a. l * Slots \in Nat
  BY <1>1, <1>2
<1> HIDE DEF q, k, l
<1>6. n \in 1..(l * Slots)
  BY <1>1, <1>5, <1>5a
<1>7. n - 1 = q * Slots + k
  BY <1>1, <1>5 DEF k
<1>8. RowAt(n) = r /\ SlotAt(n) = i
  BY <1>1, <1>2, <1>4, <1>7 DEF RowAt, SlotAt, q, k
<1>9. QED
  BY <1>6, <1>8 DEF l

-----------------------------------------------------------------------------
\* The searches over the tables.

LEMMA Constants ==
    /\ Slots \in Nat \ {0} /\ TransMod \in Nat \ {0} /\ NoRequest \notin Requests
    /\ Len(EndpointTable) \in Nat /\ Rows = 1..Len(EndpointTable)
    /\ TimeMod \in Nat \ {0} /\ PauseMax \in Nat /\ Half \in Nat /\ 2 * Half <= TimeMod
    /\ IssueMax \in [Rows -> Nat]
<1>1. Len(EndpointTable) \in Nat /\ Rows = 1..Len(EndpointTable)
  BY TableAssumption, LenProperties DEF Rows
<1>2. TimeMod \in Nat \ {0} /\ PauseMax \in Nat
  BY TimeAssumption
<1>3. Half \in Nat /\ 2 * Half <= TimeMod
  BY <1>2 DEF Half
<1>4. QED
  BY <1>1, <1>2, <1>3, RequestAssumption

LEMMA TableLength == ASSUME NEW S, NEW T \in [1..Slots -> S]
                     PROVE  Len(T) = Slots
<1>1. Slots \in Nat
  BY Constants
<1>2. \E n \in Nat : T \in [1..n -> S]
  BY <1>1
<1>3. T \in Seq(S)
  BY <1>2, SeqDef, Zenon
<1>4. Len(T) \in Nat /\ 1..Len(T) = DOMAIN T
  BY <1>3, LenProperties
<1>5. DOMAIN T = 1..Slots
  OBVIOUS
<1>6. QED
  BY <1>1, <1>4, <1>5

LEMMA FreeSlotIsFree ==
    ASSUME NEW w \in WorldType, NEW r \in Rows
    PROVE  /\ FreeSlot(w, r) \in 0..Slots
           /\ FreeSlot(w, r) # 0 => w.conv[r][FreeSlot(w, r)].req = NoRequest
<1> DEFINE I == {i \in 1..Len(w.conv[r]) : w.conv[r][i].req = NoRequest}
<1>1. w.conv[r] \in [1..Slots -> EntryType]
  BY DEF WorldType
<1>2. Len(w.conv[r]) = Slots
  BY <1>1, TableLength
<1>3. I \in SUBSET Nat
  OBVIOUS
<1>4. FreeSlot(w, r) = IF I # {} THEN Min(I) ELSE 0
  BY DEF FreeSlot, SelectInSeq
<1>5. I # {} => Min(I) \in I
  <2> HIDE DEF I
  <2> QED BY <1>3, MinIsLeast
<1>6. QED
  BY <1>2, <1>4, <1>5, Constants

LEMMA LookupFinds ==
    ASSUME World \in WorldType, NEW r \in Rows, NEW id
    PROVE  /\ Lookup(r, id) \in 0..Slots
           /\ Lookup(r, id) # 0 => /\ conversations[r][Lookup(r, id)].req # NoRequest
                                   /\ conversations[r][Lookup(r, id)].id = id
<1> DEFINE I == {i \in 1..Len(conversations[r]) : /\ conversations[r][i].id = id
                                                  /\ conversations[r][i].req # NoRequest}
<1>1. conversations[r] \in [1..Slots -> EntryType]
  BY DEF WorldType, World
<1>2. Len(conversations[r]) = Slots
  BY <1>1, TableLength
<1>3. I \in SUBSET Nat
  OBVIOUS
<1>4. Lookup(r, id) = IF I # {} THEN Min(I) ELSE 0
  BY DEF Lookup, SelectInSeq
<1>5. I # {} => Min(I) \in I
  <2> HIDE DEF I
  <2> QED BY <1>3, MinIsLeast
<1>6. QED
  BY <1>2, <1>4, <1>5, Constants

LEMMA EndpointFound ==
    ASSUME NEW endpoint, NEW profile
    PROVE  LET m == EndpointMatch(endpoint, profile)
           IN  /\ m \in 0..Len(EndpointTable)
               /\ m # 0 => EndpointTable[m].endpoint = endpoint /\ profile \in {AnyProfile, EndpointTable[m].profile}
               /\ m = 0 => \A r \in Rows : ~(EndpointTable[r].endpoint = endpoint /\ profile \in {AnyProfile, EndpointTable[r].profile})
<1> DEFINE I == {i \in 1..Len(EndpointTable) : /\ EndpointTable[i].endpoint = endpoint
                                               /\ profile \in {AnyProfile, EndpointTable[i].profile}}
<1>1. I \in SUBSET Nat
  OBVIOUS
<1>2. EndpointMatch(endpoint, profile) = IF I # {} THEN Min(I) ELSE 0
  BY DEF EndpointMatch, SelectInSeq
<1>3. I # {} => Min(I) \in I
  <2> HIDE DEF I
  <2> QED BY <1>1, MinIsLeast
<1>4. QED
  BY <1>2, <1>3, Constants

\* The endpoint and profile of a row are matched by that row alone.
LEMMA EndpointOfRow ==
    \A r \in Rows : EndpointMatch(EndpointTable[r].endpoint, EndpointTable[r].profile) = r
<1> SUFFICES ASSUME NEW r \in Rows
             PROVE  EndpointMatch(EndpointTable[r].endpoint, EndpointTable[r].profile) = r
  OBVIOUS
<1> DEFINE m == EndpointMatch(EndpointTable[r].endpoint, EndpointTable[r].profile)
<1>1. m # 0
  BY EndpointFound
<1>2. /\ m \in Rows /\ EndpointTable[m].endpoint = EndpointTable[r].endpoint
      /\ EndpointTable[r].profile \in {AnyProfile, EndpointTable[m].profile}
  BY <1>1, EndpointFound, Constants
<1> HIDE DEF m
<1>3. m = r
  BY <1>2, TableAssumption
<1>4. QED
  BY <1>3 DEF m

LEMMA NextOfProfileIs ==
    ASSUME NEW row \in 0..Len(EndpointTable), NEW profile
    PROVE  LET m == NextOfProfile(row, profile)
           IN  m # 0 => m \in (row + 1)..Len(EndpointTable) /\ EndpointTable[m].profile = profile
<1> DEFINE I == {i \in (row + 1)..Len(EndpointTable) : EndpointTable[i].profile = profile}
<1>1. I \in SUBSET Nat
  BY Constants
<1>2. NextOfProfile(row, profile) = IF I # {} THEN Min(I) ELSE 0
  BY DEF NextOfProfile, SelectInSubSeq
<1>3. I # {} => Min(I) \in I
  <2> HIDE DEF I
  <2> QED BY <1>1, MinIsLeast
<1> HIDE DEF I
<1>4. NextOfProfile(row, profile) = 0 \/ NextOfProfile(row, profile) \in I
  BY <1>2, <1>3
<1>5. QED
  BY <1>4 DEF I

-----------------------------------------------------------------------------
\* What the parts of a handler make of a world.

EntryOf(w, r, q, t) == [req |-> q, timeout |-> Deadline(t), id |-> IdOf(w.issued[r] + 1),
                        limit |-> t, age |-> 0, serial |-> w.issued[r] + 1]

(* A world that came from w by requests: what was held is held by the same     *)
(* entry, and what was taken is still attributed rightly.                      *)
Grows(w, n) ==
    /\ WorldOK(n)
    /\ n.strayed = w.strayed
    /\ \A q \in Requests : w.state[q] = "open" => n.state[q] = "open"
    /\ \A r \in Rows : \A i \in 1..Slots :
          \/ n.conv[r][i] = w.conv[r][i]
          \/ w.conv[r][i].req = NoRequest /\ OnTime(n.conv[r][i], 1)
    /\ \A f \in PacketType : Faithful(w, f) => Faithful(n, f)

LEMMA DeadlineAhead ==
    ASSUME NEW t \in Nat, t + PauseMax + 1 < Half, seconds \in 0..(TimeMod - 1)
    PROVE  /\ Deadline(t) \in 0..(TimeMod - 1)
           /\ t = 0 => Deadline(t) = 0
           /\ t > 0 => /\ Deadline(t) # 0
                       /\ \E left \in 1..(Half - 1) :
                             /\ left \in {t, t + 1}
                             /\ Deadline(t) \in {seconds + left, seconds + left - TimeMod}
<1> DEFINE d == (t + seconds) % TimeMod
<1>1. TimeMod \in Nat /\ PauseMax \in Nat /\ Half \in Nat /\ 2 * Half <= TimeMod
  BY Constants
<1>2. t \in 0..(TimeMod - 1)
  BY <1>1
<1>3. d \in {t + seconds, t + seconds - TimeMod} \cap (0..(TimeMod - 1))
  BY <1>1, <1>2, ModOnce, Zenon
<1>4. Deadline(t) = IF t = 0 THEN 0 ELSE IF d = 0 THEN 1 ELSE d
  BY DEF Deadline
<1> HIDE DEF d
<1>5. d \in 0..(TimeMod - 1)
  BY <1>1, <1>2, <1>3
<1>6. CASE t > 0 /\ d # 0
  <2>1. t \in 1..(Half - 1) /\ Deadline(t) = d
    BY <1>1, <1>4, <1>6
  <2>2. d \in {seconds + t, seconds + t - TimeMod}
    BY <1>1, <1>3
  <2>3. QED
    BY <1>1, <1>4, <1>5, <1>6, <2>1, <2>2
<1>7. CASE t > 0 /\ d = 0
  <2>1. t + 1 \in 1..(Half - 1) /\ Deadline(t) = 1
    BY <1>1, <1>4, <1>7
  <2>2. 1 \in {seconds + (t + 1), seconds + (t + 1) - TimeMod}
    BY <1>1, <1>3, <1>7
  <2>3. QED
    BY <1>1, <1>4, <1>7, <2>1, <2>2
<1>8. CASE t = 0
  BY <1>1, <1>4, <1>8
<1>9. QED
  BY <1>6, <1>7, <1>8

(* n is w with request q in the free entry of row r, and perhaps transmitted.  *)
Opens(w, r, q, e, n) ==
    /\ n = [conv |-> n.conv, issued |-> n.issued, sent |-> n.sent,
            state |-> n.state, strayed |-> n.strayed]
    /\ n.conv = [w.conv EXCEPT ![r] = [w.conv[r] EXCEPT ![FreeSlot(w, r)] = e]]
    /\ n.issued = [w.issued EXCEPT ![r] = w.issued[r] + 1]
    /\ \/ n.sent = w.sent
       \/ n.sent = w.sent \cup {[row |-> r, serial |-> w.issued[r] + 1, req |-> q]}
    /\ n.state = [w.state EXCEPT ![q] = "open"]
    /\ n.strayed = w.strayed

LEMMA AskedIs ==
    ASSUME NEW w \in WorldType, NEW r \in Rows, NEW q \in Requests, NEW t,
           FreeSlot(w, r) # 0, NEW n \in Asked(w, r, q, t)
    PROVE  Opens(w, r, q, EntryOf(w, r, q, t), n)
<1> DEFINE g == [Registered(w, r, q, t) EXCEPT !.state[q] = "open"]
<1>0. w = [conv |-> w.conv, issued |-> w.issued, sent |-> w.sent, state |-> w.state, strayed |-> w.strayed]
  BY DEF WorldType
<1>0a. NextTrans(w, r) = [conv |-> w.conv, issued |-> [w.issued EXCEPT ![r] = w.issued[r] + 1],
                          sent |-> w.sent, state |-> w.state, strayed |-> w.strayed]
  BY <1>0 DEF NextTrans
<1>0b. Registered(w, r, q, t) =
          [conv |-> [w.conv EXCEPT ![r] = [w.conv[r] EXCEPT ![FreeSlot(w, r)] = EntryOf(w, r, q, t)]],
           issued |-> [w.issued EXCEPT ![r] = w.issued[r] + 1],
           sent |-> w.sent, state |-> w.state, strayed |-> w.strayed]
  BY <1>0a DEF Registered, EntryOf
<1>1. g = [conv |-> [w.conv EXCEPT ![r] = [w.conv[r] EXCEPT ![FreeSlot(w, r)] = EntryOf(w, r, q, t)]],
           issued |-> [w.issued EXCEPT ![r] = w.issued[r] + 1],
           sent |-> w.sent, state |-> [w.state EXCEPT ![q] = "open"], strayed |-> w.strayed]
  BY <1>0b
<1>2. g.issued[r] = w.issued[r] + 1
  BY <1>1 DEF WorldType
<1>3. n \in {g, Transmitted(g, r, q)}
  BY DEF Asked
<1> HIDE DEF g
<1>4. Transmitted(g, r, q) \in {g, [g EXCEPT !.sent = g.sent \cup {[row |-> r, serial |-> w.issued[r] + 1, req |-> q]}]}
  BY <1>2 DEF Transmitted
<1>5. n = g \/ n = [g EXCEPT !.sent = g.sent \cup {[row |-> r, serial |-> w.issued[r] + 1, req |-> q]}]
  BY <1>3, <1>4
<1>6. CASE n = g
  BY <1>1, <1>6 DEF Opens
<1>7. CASE n = [g EXCEPT !.sent = g.sent \cup {[row |-> r, serial |-> w.issued[r] + 1, req |-> q]}]
  BY <1>1, <1>7 DEF Opens
<1>8. QED
  BY <1>5, <1>6, <1>7

LEMMA AskedGrows ==
    ASSUME NEW w, WorldOK(w), seconds \in 0..(TimeMod - 1),
           NEW q \in Requests, NEW r \in RowsOf[q], NEW t \in Timeouts[q],
           w.state[q] = "idle", w.issued[r] < IssueMax[r], NEW n \in Asked(w, r, q, t)
    PROVE  Grows(w, n)
<1> DEFINE k == FreeSlot(w, r)
           e == EntryOf(w, r, q, t)
<1>1. w \in WorldType /\ r \in Rows
  BY RequestAssumption DEF WorldOK
<1>2. t \in Nat /\ t + PauseMax + 1 < Half
  BY TimeAssumption
<1>3. CASE k = 0
  <2>1. n = w
    BY <1>3 DEF Asked
  <2>2. Grows(w, w)
    BY DEF Grows
  <2>3. QED
    BY <2>1, <2>2
<1>4. ASSUME k # 0
      PROVE  Grows(w, n)
  <2>1. k \in 1..Slots /\ w.conv[r][k].req = NoRequest
    BY <1>1, <1>4, FreeSlotIsFree
  <2>2. e \in EntryType /\ OnTime(e, 1) /\ e.req = q /\ e.serial = w.issued[r] + 1
           /\ e.id = IdOf(e.serial)
    <3>1. w.issued[r] \in Nat
      BY <1>1 DEF WorldType
    <3>2. IdOf(w.issued[r] + 1) \in 0..(TransMod - 1)
      BY <3>1, Constants DEF IdOf
    <3>3. e \in EntryType
      BY <1>2, <3>1, <3>2, DeadlineAhead DEF EntryOf, EntryType, Holders
    <3>4. OnTime(e, 1)
      <4>1. e.limit = t /\ e.age = 0 /\ e.timeout = Deadline(t) /\ e.req = q
        BY DEF EntryOf
      <4>2. ASSUME t > 0
            PROVE  \E left \in 1..(Half - 1) : Left(e, left)
        <5>1. PICK left \in 1..(Half - 1) :
                 left \in {t, t + 1} /\ Deadline(t) \in {seconds + left, seconds + left - TimeMod}
          BY <1>2, <4>2, DeadlineAhead
        <5>2. Deadline(t) # 0
          BY <1>2, <4>2, DeadlineAhead
        <5>3. Left(e, left)
          BY <1>2, <4>1, <5>1, <5>2 DEF Left
        <5>4. QED
          BY <5>3
      <4>3. QED
        BY <1>2, <4>1, <4>2, DeadlineAhead, Constants DEF OnTime
    <3>5. QED
      BY <3>3, <3>4 DEF EntryOf
  <2>3. /\ n.conv = [w.conv EXCEPT ![r] = [w.conv[r] EXCEPT ![k] = e]]
        /\ n.issued = [w.issued EXCEPT ![r] = w.issued[r] + 1]
        /\ \/ n.sent = w.sent
           \/ n.sent = w.sent \cup {[row |-> r, serial |-> w.issued[r] + 1, req |-> q]}
        /\ n.state = [w.state EXCEPT ![q] = "open"]
        /\ n.strayed = w.strayed
        /\ n = [conv |-> n.conv, issued |-> n.issued, sent |-> n.sent,
                state |-> n.state, strayed |-> n.strayed]
    <3>1. Opens(w, r, q, e, n)
      BY <1>1, <1>4, AskedIs, Zenon
    <3>2. QED
      BY <3>1, Zenon DEF Opens
  <2> HIDE DEF k, e
  <2>4. \A s \in Rows : \A j \in 1..Slots :
           n.conv[s][j] = IF s = r /\ j = k THEN e ELSE w.conv[s][j]
    <3>1. w.conv \in [Rows -> [1..Slots -> EntryType]] /\ w.conv[r] \in [1..Slots -> EntryType]
      BY <1>1 DEF WorldType
    <3>2. \A s \in Rows : n.conv[s] = IF s = r THEN [w.conv[r] EXCEPT ![k] = e] ELSE w.conv[s]
      BY <1>1, <2>3, <3>1
    <3>3. \A j \in 1..Slots : [w.conv[r] EXCEPT ![k] = e][j] = IF j = k THEN e ELSE w.conv[r][j]
      BY <3>1
    <3>4. QED
      BY <3>2, <3>3
  <2>5. \A s \in Rows : n.issued[s] = IF s = r THEN w.issued[s] + 1 ELSE w.issued[s]
    BY <1>1, <2>3 DEF WorldType
  <2>6. \A s \in Rows : w.issued[s] \in Nat /\ n.issued[s] \in Nat
    BY <1>1, <2>5 DEF WorldType
  <2>7. n \in WorldType
    <3>1. n.conv \in [Rows -> [1..Slots -> EntryType]]
      BY <1>1, <2>1, <2>2, <2>3 DEF WorldType
    <3>2. n.issued \in [Rows -> Nat]
      BY <1>1, <2>3 DEF WorldType
    <3>3. n.sent \in SUBSET PacketType
      BY <1>1, <2>3, <2>6 DEF WorldType, PacketType, Holders
    <3>4. n.state \in [Requests -> {"idle", "open", "done"}] /\ n.strayed \in SUBSET Requests
      BY <1>1, <2>3 DEF WorldType
    <3>5. QED
      BY <2>3, <3>1, <3>2, <3>3, <3>4 DEF WorldType
  <2>8. \A s \in Rows : \A j \in 1..Slots : w.conv[s][j].req # q
    BY DEF WorldOK, OpenIsHeld
  <2>9. OneEach(n)
    BY <2>1, <2>2, <2>4, <2>8 DEF WorldOK, OneEach
  <2>10. OpenIsHeld(n)
    <3>1. \A p \in Requests : n.state[p] = IF p = q THEN "open" ELSE w.state[p]
      BY <1>1, <2>3 DEF WorldType
    <3>2. n.conv[r][k].req = q
      BY <1>1, <2>1, <2>2, <2>4
    <3>3. ASSUME NEW p \in Requests, p # q
          PROVE  (\E s \in Rows : \E j \in 1..Slots : n.conv[s][j].req = p)
                    <=> (\E s \in Rows : \E j \in 1..Slots : w.conv[s][j].req = p)
      <4>1. p # NoRequest
        BY Constants
      <4>2. \A s \in Rows : \A j \in 1..Slots : n.conv[s][j].req = p <=> w.conv[s][j].req = p
        BY <2>1, <2>2, <2>4, <3>3, <4>1
      <4>3. QED
        BY <4>2
    <3>4. QED
      BY <1>1, <2>1, <3>1, <3>2, <3>3 DEF WorldOK, OpenIsHeld
  <2>11. Numbered(n)
    BY <2>1, <2>2, <2>4, <2>5, <2>6 DEF WorldOK, Numbered
  <2>12. \A f \in PacketType : Faithful(w, f) => Faithful(n, f)
    BY <2>1, <2>2, <2>4, <2>5, <2>6 DEF PacketType, Faithful
  <2>13. \A f \in n.sent : Faithful(n, f)
    <3>1. \A f \in w.sent : Faithful(n, f)
      BY <1>1, <2>12 DEF WorldType, WorldOK
    <3>2. Faithful(n, [row |-> r, serial |-> w.issued[r] + 1, req |-> q])
      BY <1>1, <2>1, <2>2, <2>4, <2>5, <2>6 DEF WorldOK, Numbered, Faithful
    <3>3. QED
      BY <2>3, <3>1, <3>2
  <2>14. \A s \in Rows : n.issued[s] <= IssueMax[s]
    <3>1. \A s \in Rows : IssueMax[s] \in Nat /\ w.issued[s] <= IssueMax[s]
      BY Constants DEF WorldOK
    <3>2. QED
      BY <2>5, <2>6, <3>1
  <2>15. \A p \in Requests : w.state[p] = "open" => n.state[p] = "open"
    BY <1>1, <2>3 DEF WorldType
  <2>16. \A s \in Rows : \A j \in 1..Slots :
            \/ n.conv[s][j] = w.conv[s][j]
            \/ w.conv[s][j].req = NoRequest /\ OnTime(n.conv[s][j], 1)
    BY <2>1, <2>2, <2>4
  <2>17. QED
    BY <2>3, <2>7, <2>9, <2>10, <2>11, <2>12, <2>13, <2>14, <2>15, <2>16 DEF Grows, WorldOK
<1>5. QED
  BY <1>3, <1>4

LEMMA UntrackedGrows ==
    ASSUME NEW w, WorldOK(w), NEW r \in Rows, w.issued[r] < IssueMax[r]
    PROVE  Grows(w, Untracked(w, r))
<1> DEFINE n == Untracked(w, r)
           g == NextTrans(w, r)
           f0 == [row |-> r, serial |-> w.issued[r] + 1, req |-> NoRequest]
<1>1. w \in WorldType
  BY DEF WorldOK
<1>2. g = [conv |-> w.conv, issued |-> [w.issued EXCEPT ![r] = w.issued[r] + 1],
           sent |-> w.sent, state |-> w.state, strayed |-> w.strayed]
  <2>1. w = [conv |-> w.conv, issued |-> w.issued, sent |-> w.sent, state |-> w.state, strayed |-> w.strayed]
    BY <1>1 DEF WorldType
  <2>2. QED
    BY <2>1 DEF NextTrans
<1>3. g.issued[r] = w.issued[r] + 1
  BY <1>1, <1>2 DEF WorldType
<1> HIDE DEF g
<1>4. n \in {g, [g EXCEPT !.sent = g.sent \cup {f0}]}
  BY <1>3 DEF Untracked, Transmitted, g
<1> HIDE DEF n, f0
<1>5. n.sent \in {w.sent, w.sent \cup {f0}}
  BY <1>2, <1>4
<1>6. n = [conv |-> w.conv, issued |-> [w.issued EXCEPT ![r] = w.issued[r] + 1],
           sent |-> n.sent, state |-> w.state, strayed |-> w.strayed]
  BY <1>2, <1>4
<1>7. \A s \in Rows : n.issued[s] = IF s = r THEN w.issued[s] + 1 ELSE w.issued[s]
  BY <1>1, <1>6 DEF WorldType
<1>8. \A s \in Rows : w.issued[s] \in Nat /\ n.issued[s] \in Nat
  BY <1>1, <1>7 DEF WorldType
<1>9. f0 \in PacketType
  BY <1>8 DEF f0, PacketType, Holders
<1>10. n \in WorldType
  BY <1>1, <1>5, <1>6, <1>8, <1>9 DEF WorldType
<1>11. OneEach(n) /\ OpenIsHeld(n)
  BY <1>6 DEF WorldOK, OneEach, OpenIsHeld
<1>12. Numbered(n)
  BY <1>6, <1>7, <1>8 DEF WorldOK, Numbered
<1>13. \A f \in PacketType : Faithful(w, f) => Faithful(n, f)
  BY <1>6, <1>7, <1>8 DEF PacketType, Faithful
<1>14. \A f \in n.sent : Faithful(n, f)
  <2>1. Faithful(n, f0)
    BY <1>1, <1>6, <1>7, <1>8 DEF WorldOK, Numbered, Faithful, f0
  <2>2. \A f \in w.sent : Faithful(n, f)
    BY <1>1, <1>13 DEF WorldType, WorldOK
  <2>3. QED
    BY <1>5, <2>1, <2>2
<1>15. \A s \in Rows : n.issued[s] <= IssueMax[s]
  <2>1. \A s \in Rows : IssueMax[s] \in Nat /\ w.issued[s] <= IssueMax[s]
    BY Constants DEF WorldOK
  <2>2. QED
    BY <1>7, <1>8, <2>1
<1>16. n.conv = w.conv /\ n.state = w.state /\ n.strayed = w.strayed
  BY <1>6
<1>17. Grows(w, n)
  BY <1>10, <1>11, <1>12, <1>13, <1>14, <1>15, <1>16 DEF Grows, WorldOK
<1>18. QED
  BY <1>17 DEF n

\* Whatever a response handler does besides returning.
LEMMA ReactionsGrow ==
    ASSUME NEW w, WorldOK(w), seconds \in 0..(TimeMod - 1), NEW q \in Requests,
           NEW answered \in BOOLEAN, NEW n \in Reactions(w, q, answered)
    PROVE  Grows(w, n)
<1>1. Keeping \subseteq Rows
  BY RequestAssumption DEF Keeping
<1>2. \/ n = w
      \/ \E r \in Keeping : w.issued[r] < IssueMax[r] /\ n = Untracked(w, r)
      \/ \E p \in Requests : \E r \in RowsOf[p], t \in Timeouts[p] :
            w.state[p] = "idle" /\ w.issued[r] < IssueMax[r] /\ n \in Asked(w, r, p, t)
  <2>1. \/ n = w
        \/ n \in Followed(w)
        \/ n \in UNION {Started(w, p) : p \in {p \in Requests : w.state[p] = "idle"}}
    BY DEF Reactions
  <2>2. n \in UNION {Started(w, p) : p \in {p \in Requests : w.state[p] = "idle"}}
           => \E p \in Requests : w.state[p] = "idle" /\ n \in Started(w, p)
    OBVIOUS
  <2>3. n \in Followed(w) => \E r \in Keeping : w.issued[r] < IssueMax[r] /\ n = Untracked(w, r)
    BY DEF Followed
  <2>4. ASSUME NEW p \in Requests, n \in Started(w, p)
        PROVE  \E r \in RowsOf[p], t \in Timeouts[p] : w.issued[r] < IssueMax[r] /\ n \in Asked(w, r, p, t)
    BY <2>4 DEF Started
  <2>5. QED
    BY <2>1, <2>2, <2>3, <2>4
<1>3. CASE n = w
  BY <1>3 DEF Grows
<1>4. CASE \E r \in Keeping : w.issued[r] < IssueMax[r] /\ n = Untracked(w, r)
  BY <1>1, <1>4, UntrackedGrows
<1>5. CASE \E p \in Requests : \E r \in RowsOf[p], t \in Timeouts[p] :
              w.state[p] = "idle" /\ w.issued[r] < IssueMax[r] /\ n \in Asked(w, r, p, t)
  BY <1>5, AskedGrows
<1>6. QED
  BY <1>2, <1>3, <1>4, <1>5

(* A world whose entry i of row r, of request q, was deleted after its handler *)
(* had the last call.                                                          *)
Ended(w, r, i, q) == [Deleted(w, r, i) EXCEPT !.state[q] = "done"]

LEMMA EndedOK ==
    ASSUME NEW w, WorldOK(w), NEW r \in Rows, NEW i \in 1..Slots, NEW q \in Requests,
           w.conv[r][i].req = q
    PROVE  LET n == Ended(w, r, i, q)
           IN  /\ WorldOK(n)
               /\ n.strayed = w.strayed
               /\ \A s \in Rows : \A j \in 1..Slots :
                     n.conv[s][j] = IF s = r /\ j = i THEN Free ELSE w.conv[s][j]
               /\ \A p \in Requests : n.state[p] = IF p = q THEN "done" ELSE w.state[p]
               /\ \A f \in PacketType : Faithful(w, f) => Faithful(n, f)
<1> DEFINE n == Ended(w, r, i, q)
<1>1. w \in WorldType
  BY DEF WorldOK
<1>2. n = [conv |-> [w.conv EXCEPT ![r] = [w.conv[r] EXCEPT ![i] = Free]], issued |-> w.issued,
           sent |-> w.sent, state |-> [w.state EXCEPT ![q] = "done"], strayed |-> w.strayed]
  <2>1. w = [conv |-> w.conv, issued |-> w.issued, sent |-> w.sent, state |-> w.state, strayed |-> w.strayed]
    BY <1>1 DEF WorldType
  <2>2. Deleted(w, r, i) =
          [conv |-> [w.conv EXCEPT ![r] = [w.conv[r] EXCEPT ![i] = Free]], issued |-> w.issued,
           sent |-> w.sent, state |-> w.state, strayed |-> w.strayed]
    BY <2>1 DEF Deleted
  <2>3. QED
    BY <2>2 DEF Ended
<1> HIDE DEF n
<1>3. Free \in EntryType /\ Free.req = NoRequest
  BY Constants DEF Free, EntryType, Holders
<1>4. n \in WorldType
  BY <1>1, <1>2, <1>3 DEF WorldType
<1>5. \A s \in Rows : \A j \in 1..Slots :
         n.conv[s][j] = IF s = r /\ j = i THEN Free ELSE w.conv[s][j]
  <2>1. w.conv \in [Rows -> [1..Slots -> EntryType]] /\ w.conv[r] \in [1..Slots -> EntryType]
    BY <1>1 DEF WorldType
  <2>2. \A s \in Rows : n.conv[s] = IF s = r THEN [w.conv[r] EXCEPT ![i] = Free] ELSE w.conv[s]
    BY <1>2, <2>1
  <2>3. \A j \in 1..Slots : [w.conv[r] EXCEPT ![i] = Free][j] = IF j = i THEN Free ELSE w.conv[r][j]
    BY <2>1
  <2>4. QED
    BY <2>2, <2>3
<1>6. \A p \in Requests : n.state[p] = IF p = q THEN "done" ELSE w.state[p]
  BY <1>1, <1>2 DEF WorldType
<1>7. n.issued = w.issued /\ n.sent = w.sent /\ n.strayed = w.strayed
  BY <1>2
<1>8. OneEach(n)
  BY <1>3, <1>5 DEF WorldOK, OneEach
<1>9. OpenIsHeld(n)
  <2>1. \A s \in Rows : \A j \in 1..Slots : n.conv[s][j].req # q
    <3>1. q # NoRequest
      BY Constants
    <3>2. ASSUME NEW s \in Rows, NEW j \in 1..Slots, w.conv[s][j].req = q
          PROVE  s = r /\ j = i
      BY <3>1, <3>2 DEF WorldOK, OneEach
    <3>3. QED
      BY <1>3, <1>5, <3>1, <3>2
  <2>2. ASSUME NEW p \in Requests, p # q
        PROVE  (\E s \in Rows : \E j \in 1..Slots : n.conv[s][j].req = p)
                  <=> (\E s \in Rows : \E j \in 1..Slots : w.conv[s][j].req = p)
    <3>1. p # NoRequest
      BY Constants
    <3>2. \A s \in Rows : \A j \in 1..Slots : n.conv[s][j].req = p <=> w.conv[s][j].req = p
      BY <1>3, <1>5, <2>2, <3>1
    <3>3. QED
      BY <3>2
  <2>3. QED
    BY <1>6, <2>1, <2>2 DEF WorldOK, OpenIsHeld
<1>10. Numbered(n)
  BY <1>3, <1>5, <1>7 DEF WorldOK, Numbered
<1>11. \A f \in PacketType : Faithful(w, f) => Faithful(n, f)
  BY <1>3, <1>5, <1>7 DEF PacketType, Faithful
<1>12. \A f \in n.sent : Faithful(n, f)
  BY <1>1, <1>7, <1>11 DEF WorldType, WorldOK
<1>13. WorldOK(n)
  BY <1>4, <1>7, <1>8, <1>9, <1>10, <1>12 DEF WorldOK
<1>14. QED
  BY <1>5, <1>6, <1>7, <1>11, <1>13 DEF n

-----------------------------------------------------------------------------
\* What every change of the tables keeps.

(* No entry of n was disturbed but by being deleted or by a request of its own.*)
Keeps(w, n) ==
    /\ WorldOK(n)
    /\ n.strayed = w.strayed
    /\ \A r \in Rows : \A i \in 1..Slots : n.conv[r][i] = w.conv[r][i] \/ OnTime(n.conv[r][i], 1)
    /\ \A f \in PacketType : Faithful(w, f) => Faithful(n, f)

LEMMA GrowsKeeps == ASSUME NEW w, NEW n, Grows(w, n)
                    PROVE  Keeps(w, n)
  BY DEF Grows, Keeps

LEMMA EndedKeeps ==
    ASSUME NEW v, NEW w, Keeps(v, w), NEW r \in Rows, NEW i \in 1..Slots, NEW q \in Requests,
           w.conv[r][i].req = q
    PROVE  Keeps(v, Ended(w, r, i, q))
<1> DEFINE n == Ended(w, r, i, q)
<1>1. /\ WorldOK(n)
      /\ n.strayed = w.strayed
      /\ \A s \in Rows : \A j \in 1..Slots :
            n.conv[s][j] = IF s = r /\ j = i THEN Free ELSE w.conv[s][j]
      /\ \A f \in PacketType : Faithful(w, f) => Faithful(n, f)
  BY EndedOK DEF Keeps
<1>2. OnTime(Free, 1)
  BY DEF OnTime, Free
<1> HIDE DEF n
<1>3. Keeps(v, n)
  BY <1>1, <1>2 DEF Keeps
<1>4. QED
  BY <1>3 DEF n

LEMMA OnTimeWeaker == ASSUME NEW e, NEW most \in Int, NEW least \in Int, least <= most, OnTime(e, most)
                      PROVE  OnTime(e, least)
<1>1. \A left \in most..(Half - 1) : left \in least..(Half - 1)
  BY Constants
<1>2. QED
  BY <1>1 DEF OnTime

LEMMA KeepsInTime == ASSUME NEW w, NEW n, Keeps(w, n), NEW least \in Int, least <= 1, InTime(w, least)
                     PROVE  InTime(n, least)
  BY OnTimeWeaker DEF Keeps, InTime

LEMMA WorldFields ==
    /\ World.conv = conversations /\ World.issued = issued /\ World.sent = sent
    /\ World.state = state /\ World.strayed = strayed
  BY DEF World

LEMMA Becomes == ASSUME NEW w \in WorldType, Become(w)
                 PROVE  World' = w
<1>1. w = [conv |-> w.conv, issued |-> w.issued, sent |-> w.sent, state |-> w.state, strayed |-> w.strayed]
  BY DEF WorldType
<1>2. QED
  BY <1>1 DEF Become, World

\* An answer is stray only when its ID has come round again.
LEMMA NotStray ==
    ASSUME WorldOK(World), NEW r \in Rows, NEW i \in 1..Slots,
           conversations[r][i].req # NoRequest, conversations[r][i].id = IdOf(env.serial),
           Faithful(World, [row |-> r, serial |-> env.serial, req |-> env.req])
    PROVE  ~Stray(conversations[r][i])
<1> DEFINE e == World.conv[r][i]
<1>1. e = conversations[r][i]
  BY WorldFields
<1>2. World.issued[r] \in Nat
  BY DEF WorldOK, WorldType
<1>3. /\ env.serial \in 1..World.issued[r]
      /\ e.serial = env.serial => e.req = env.req
  BY <1>1 DEF Faithful
<1>4. e.serial \in 1..World.issued[r] /\ e.id = IdOf(e.serial)
  BY <1>1 DEF WorldOK, Numbered
<1>5. e.serial % TransMod = env.serial % TransMod
  BY <1>1, <1>4 DEF IdOf
<1>6. ASSUME Stray(e)
      PROVE  FALSE
  <2>1. env.req # e.req /\ e.serial - env.serial \in (1 - TransMod)..(TransMod - 1)
    BY <1>6 DEF Stray
  <2>2. e.serial \in Nat /\ env.serial \in Nat
    BY <1>2, <1>3, <1>4
  <2>3. e.serial - env.serial < TransMod /\ env.serial - e.serial < TransMod /\ TransMod \in Nat \ {0}
    BY <2>1, <2>2, Constants
  <2> HIDE DEF e
  <2>4. e.serial = env.serial
    BY <1>5, <2>2, <2>3, ModEqual
  <2>5. QED
    BY <1>3, <2>1, <2>4
<1>7. QED
  BY <1>1, <1>6

LEMMA RespondedKeeps ==
    ASSUME WorldOK(World), seconds \in 0..(TimeMod - 1), NEW r \in Rows, NEW i \in 1..Slots,
           conversations[r][i].req # NoRequest, conversations[r][i].id = IdOf(env.serial),
           Faithful(World, [row |-> r, serial |-> env.serial, req |-> env.req]),
           NEW o \in Responded(r, i)
    PROVE  Keeps(World, o.world)
<1> DEFINE e == conversations[r][i]
           over(w) == [Deleted(w, r, i) EXCEPT !.state[e.req] = "done"]
<1>1. ~Stray(e)
  BY NotStray
<1>2. \E w \in Reactions(World, e.req, TRUE) : o.world \in {w, over(w)}
  <2> DEFINE told(w) == {[world |-> IF ret = "end" THEN over(w) ELSE w, ret |-> ret] : ret \in Returns(e.req)}
  <2>1. o \in UNION {told(w) : w \in Reactions(World, e.req, TRUE)}
    BY <1>1, Zenon DEF Responded
  <2>2. \A w : \A x \in told(w) : x.world \in {w, over(w)}
    <3> HIDE DEF over, e
    <3> QED OBVIOUS
  <2> HIDE DEF told
  <2>3. PICK w \in Reactions(World, e.req, TRUE) : o \in told(w)
    BY <2>1
  <2>4. QED
    BY <2>2, <2>3
<1>3. World.conv[r][i] = e /\ e.req \in Requests
  <2>1. World.conv[r][i] = e
    BY WorldFields
  <2>2. World.conv[r][i] \in EntryType
    BY DEF WorldOK, WorldType
  <2>3. QED
    BY <2>1, <2>2 DEF EntryType, Holders
<1> HIDE DEF e, over
<1>4. PICK w \in Reactions(World, e.req, TRUE) : o.world \in {w, over(w)}
  BY <1>2
<1>5. Grows(World, w)
  BY <1>3, <1>4, ReactionsGrow
<1>6. Keeps(World, w)
  BY <1>5, GrowsKeeps
<1>7. w.conv[r][i] = e
  BY <1>3, <1>5 DEF Grows, e
<1>8. Keeps(World, over(w))
  BY <1>3, <1>6, <1>7, EndedKeeps DEF over, Ended
<1>9. QED
  BY <1>4, <1>6, <1>8

-----------------------------------------------------------------------------
\* The invariant, action by action.

LEMMA InitOK == Init => ConvInv
<1> SUFFICES ASSUME Init
             PROVE  ConvInv
  OBVIOUS
<1>1. /\ World.conv = [r \in Rows |-> [i \in 1..Slots |-> Free]]
      /\ World.issued = [r \in Rows |-> 0] /\ World.sent = {}
      /\ World.state = [q \in Requests |-> "idle"] /\ World.strayed = {}
      /\ World = [conv |-> World.conv, issued |-> World.issued, sent |-> World.sent,
                  state |-> World.state, strayed |-> World.strayed]
  BY DEF Init, World
<1>2. Free \in EntryType /\ Free.req = NoRequest
  BY Constants DEF Free, EntryType, Holders
<1>3. World \in WorldType
  BY <1>1, <1>2 DEF WorldType
<1>4. \A r \in Rows : \A i \in 1..Slots : World.conv[r][i] = Free
  BY <1>1
<1>5. OneEach(World) /\ Numbered(World)
  BY <1>2, <1>4 DEF OneEach, Numbered
<1>6. OpenIsHeld(World)
  BY <1>1, <1>2, <1>4, Constants DEF OpenIsHeld
<1>7. \A r \in Rows : World.issued[r] <= IssueMax[r]
  <2>1. \A r \in Rows : IssueMax[r] \in Nat
    BY Constants
  <2>2. QED
    BY <1>1, <2>1
<1>8. WorldOK(World)
  BY <1>1, <1>3, <1>5, <1>6, <1>7 DEF WorldOK
<1>9. InTime(World, 1 - pause)
  BY <1>4 DEF InTime, OnTime, Free
<1>10. /\ seconds = 0 /\ now = 0 /\ pause = 0 /\ phase = "idle" /\ at = 0 /\ ep = 0
       /\ env = NoEnv /\ complaints = 0 /\ strayed = {}
  BY DEF Init
<1>11. Len(EndpointTable) * Slots \in Nat
  BY Constants
<1>12. OwnCluster
  BY <1>10 DEF OwnCluster
<1>13. QED
  BY <1>8, <1>9, <1>10, <1>11, <1>12, Constants DEF ConvInv

\* A step that changes the tables as the handlers do, and not the time.
LEMMA TableKept ==
    ASSUME ConvInv, NEW w, Keeps(World, w), Become(w), UNCHANGED seconds
    PROVE  /\ WorldOK(World)' /\ strayed' = {}
           /\ \A least \in Int : least <= 1 /\ InTime(World, least) => InTime(World, least)'
           /\ \A f \in PacketType : Faithful(World, f) => Faithful(World, f)'
           /\ Passed /\ at' = at => Passed'
<1>1. World' = w
  BY Becomes DEF Keeps, WorldOK
<1>2. WorldOK(World)'
  BY <1>1 DEF Keeps
<1>3. strayed' = {}
  BY WorldFields DEF Keeps, Become, ConvInv
<1>4. ASSUME NEW least \in Int, least <= 1, InTime(World, least)
      PROVE  InTime(World, least)'
  <2>1. InTime(w, least)
    BY <1>4, KeepsInTime
  <2>2. QED
    BY <1>1, <2>1 DEF InTime, OnTime, Left
<1>5. ASSUME NEW f \in PacketType, Faithful(World, f)
      PROVE  Faithful(World, f)'
  BY <1>1, <1>5 DEF Keeps, Faithful
<1>6. ASSUME Passed, at' = at
      PROVE  Passed'
  <2>1. ASSUME NEW n \in 1..at
        PROVE  OnTime(w.conv[RowAt(n)][SlotAt(n)], 1)
    <3>1. n \in 1..(Len(EndpointTable) * Slots)
      BY Constants DEF ConvInv
    <3>2. RowAt(n) \in Rows /\ SlotAt(n) \in 1..Slots
      BY <3>1, WalkPlaces
    <3>3. OnTime(World.conv[RowAt(n)][SlotAt(n)], 1)
      BY <1>6, WorldFields DEF Passed
    <3>4. QED
      BY <3>2, <3>3 DEF Keeps
  <2>2. conversations' = w.conv
    BY DEF Become
  <2>3. QED
    BY <1>6, <2>1, <2>2 DEF Passed, OnTime, Left
<1>7. QED
  BY <1>2, <1>3, <1>4, <1>5, <1>6

\* The program's own calls, and the network's losses, go by the tables alone.
LEMMA TableStep ==
    ASSUME ConvInv, NEW w, Keeps(World, w), Become(w), UNCHANGED <<seconds, walk, complaints, pause>>
    PROVE  ConvInv'
<1>1. UNCHANGED <<seconds, phase, env, ep, at, now, complaints, pause>>
  BY DEF walk
<1>2. /\ WorldOK(World)' /\ strayed' = {}
      /\ \A least \in Int : least <= 1 /\ InTime(World, least) => InTime(World, least)'
      /\ \A f \in PacketType : Faithful(World, f) => Faithful(World, f)'
      /\ Passed => Passed'
  BY <1>1, TableKept
<1>3. phase # "expire" => InTime(World, 1 - pause)'
  <2>1. pause \in Nat
    BY Constants DEF ConvInv
  <2>2. 1 - pause \in Int /\ 1 - pause <= 1
    BY <2>1
  <2>3. phase # "expire" => InTime(World, 1 - pause)
    BY DEF ConvInv
  <2>4. \A least \in Int : least = 1 - pause /\ InTime(World, least)' => InTime(World, 1 - pause)'
    BY <1>1 DEF InTime, OnTime, Left
  <2>5. QED
    BY <1>2, <2>2, <2>3, <2>4
<1>4. phase = "expire" => now = seconds /\ InTime(World, 1 - PauseMax)' /\ Passed'
  <2>1. 1 - PauseMax \in Int /\ 1 - PauseMax <= 1
    BY Constants
  <2>2. QED
    BY <1>2, <2>1 DEF ConvInv
<1>5. phase = "dispatch" => Dispatching'
  <2> SUFFICES ASSUME phase = "dispatch"
               PROVE  Dispatching'
    OBVIOUS
  <2>1. Dispatching
    BY DEF ConvInv
  <2>2. PICK row \in Rows : Addressee(row)
    BY <2>1 DEF Dispatching
  <2>3. [row |-> row, serial |-> env.serial, req |-> env.req] \in PacketType
    BY <2>1 DEF Dispatching, EnvelopeType, PacketType
  <2>4. Addressee(row)'
    BY <1>1, <1>2, <2>2, <2>3 DEF Addressee
  <2>5. Reported'
    BY <1>1, <2>1 DEF Dispatching, Reported
  <2>6. QED
    BY <1>1, <2>1, <2>4, <2>5 DEF Dispatching
<1>6. OwnCluster'
  BY <1>1 DEF ConvInv, OwnCluster
<1>7. QED
  BY <1>1, <1>2, <1>3, <1>4, <1>5, <1>6 DEF ConvInv

LEMMA AskOK == ConvInv /\ Ask => ConvInv'
<1> SUFFICES ASSUME ConvInv, Ask
             PROVE  ConvInv'
  OBVIOUS
<1>1. PICK q \in Requests : \E r \in RowsOf[q], t \in Timeouts[q] :
         /\ state[q] = "idle" /\ issued[r] < IssueMax[r]
         /\ \E w \in Asked(World, r, q, t) : Become(w)
  BY DEF Ask
<1>2. PICK r \in RowsOf[q], t \in Timeouts[q] :
         /\ state[q] = "idle" /\ issued[r] < IssueMax[r]
         /\ \E w \in Asked(World, r, q, t) : Become(w)
  BY <1>1
<1>3. PICK w \in Asked(World, r, q, t) : Become(w)
  BY <1>2
<1>4. World.state[q] = "idle" /\ World.issued[r] < IssueMax[r]
  BY <1>2, WorldFields
<1>5. Keeps(World, w)
  BY <1>4, AskedGrows, GrowsKeeps DEF ConvInv
<1>6. QED
  BY <1>3, <1>5, TableStep DEF Ask

LEMMA TakeTransOK == ConvInv /\ TakeTrans => ConvInv'
<1> SUFFICES ASSUME ConvInv, TakeTrans
             PROVE  ConvInv'
  OBVIOUS
<1>1. PICK r \in Keeping : issued[r] < IssueMax[r] /\ Become(Untracked(World, r))
  BY DEF TakeTrans
<1>2. r \in Rows /\ World.issued[r] < IssueMax[r]
  BY <1>1, WorldFields, RequestAssumption DEF Keeping
<1>3. Keeps(World, Untracked(World, r))
  BY <1>2, UntrackedGrows, GrowsKeeps DEF ConvInv
<1>4. QED
  BY <1>1, <1>3, TableStep DEF TakeTrans

LEMMA LoseOK == ConvInv /\ Lose => ConvInv'
<1> SUFFICES ASSUME ConvInv, Lose
             PROVE  ConvInv'
  OBVIOUS
<1>1. PICK f \in sent : sent' = sent \ {f}
  BY DEF Lose
<1> DEFINE w == [conv |-> conversations, issued |-> issued, sent |-> sent \ {f}, state |-> state, strayed |-> strayed]
<1>2. World \in WorldType /\ WorldOK(World)
  BY DEF ConvInv, WorldOK
<1>3. w \in WorldType
  BY <1>2 DEF WorldType, World
<1>4. /\ w.conv = World.conv /\ w.issued = World.issued /\ w.state = World.state
      /\ w.strayed = World.strayed /\ w.sent \subseteq World.sent
  BY DEF World
<1>5. Become(w)
  BY <1>1 DEF Lose, Become
<1> HIDE DEF w
<1>6. \A p \in PacketType : Faithful(World, p) => Faithful(w, p)
  BY <1>4 DEF Faithful
<1>7. WorldOK(w)
  BY <1>2, <1>3, <1>4 DEF WorldOK, OneEach, OpenIsHeld, Numbered, Faithful
<1>8. Keeps(World, w)
  BY <1>4, <1>6, <1>7 DEF Keeps
<1>9. QED
  BY <1>5, <1>8, TableStep DEF Lose

LEMMA ExpireStartOK == ConvInv /\ ExpireStart => ConvInv'
<1> SUFFICES ASSUME ConvInv, ExpireStart
             PROVE  ConvInv'
  OBVIOUS
<1>1. /\ phase = "idle" /\ phase' = "expire" /\ at' = 0 /\ now' = seconds /\ pause' = 0
      /\ UNCHANGED <<conversations, issued, sent, state, strayed, seconds, env, ep, complaints>>
  BY DEF ExpireStart, table
<1>2. World' = World
  BY <1>1 DEF World
<1>3. WorldOK(World)'
  BY <1>2 DEF ConvInv
<1>4. InTime(World, 1 - PauseMax)'
  <2>1. pause \in 0..PauseMax /\ InTime(World, 1 - pause)
    BY <1>1 DEF ConvInv
  <2>2. 1 - PauseMax \in Int /\ 1 - pause \in Int /\ 1 - PauseMax <= 1 - pause
    BY <2>1, Constants
  <2>3. InTime(World, 1 - PauseMax)
    BY <2>1, <2>2, OnTimeWeaker DEF InTime
  <2>4. QED
    BY <1>1, <1>2, <2>3 DEF InTime, OnTime, Left
<1>5. Passed' /\ OwnCluster'
  BY <1>1 DEF Passed, OwnCluster
<1>6. Len(EndpointTable) * Slots \in Nat
  BY Constants
<1>7. QED
  BY <1>1, <1>3, <1>4, <1>5, <1>6, Constants DEF ConvInv

LEMMA DispatchDoneOK == ConvInv /\ DispatchDone => ConvInv'
<1> SUFFICES ASSUME ConvInv, DispatchDone
             PROVE  ConvInv'
  OBVIOUS
<1>1. /\ phase = "dispatch" /\ phase' = "idle" /\ env' = NoEnv /\ ep' = 0 /\ complaints' = 0
      /\ UNCHANGED <<conversations, issued, sent, state, strayed, seconds, at, now, pause>>
  BY DEF DispatchDone, table
<1>2. World' = World
  BY <1>1 DEF World
<1>3. WorldOK(World)'
  BY <1>2 DEF ConvInv
<1>4. InTime(World, 1 - pause)'
  BY <1>1, <1>2 DEF ConvInv, InTime, OnTime, Left
<1>5. OwnCluster'
  BY <1>1 DEF OwnCluster
<1>6. QED
  BY <1>1, <1>3, <1>4, <1>5 DEF ConvInv

\* A frame comes in: the envelope is its row's, and says nothing that is false.
LEMMA ArrivesOK ==
    ASSUME ConvInv, NEW row \in Rows, NEW t \in Traffic, NEW f, NEW bcast \in BOOLEAN,
           Arrives(row, t, f, bcast), f.serial \in Nat, f.req \in Holders,
           bcast => t.kind \in Unasked,
           t.kind \notin Unasked => Faithful(World, [row |-> row, serial |-> f.serial, req |-> f.req])
    PROVE  ConvInv'
<1>1. /\ phase = "idle" /\ phase' = "dispatch" /\ ep' = 0 /\ complaints' = 0
      /\ UNCHANGED <<conversations, issued, sent, state, strayed, seconds, at, now, pause>>
      /\ t.kind \in {"zdoResponse", "zdoRequest"} <=> EndpointTable[row].handler = "zdo_handler"
  BY DEF Arrives, table
<1>2. /\ t.cluster \in {u.cluster : u \in Traffic}
      /\ t.kind \in {"zdoResponse", "zdoRequest", "zclResponse", "zclDefault", "zclRequest"}
      /\ t.options \subseteq {"broadcastAddr", "apsEncrypt"}
  BY TrafficAssumption
<1> DEFINE dest == IF bcast THEN BroadcastEp ELSE EndpointTable[row].endpoint
           options == t.options \cup IF bcast THEN {"broadcastEp"} ELSE {}
<1>3. env' = [dest |-> dest, profile |-> EndpointTable[row].profile, cluster |-> t.cluster,
              kind |-> t.kind, options |-> options, serial |-> f.serial, req |-> f.req]
  BY DEF Arrives
<1>4. /\ dest \in {EndpointTable[r].endpoint : r \in Rows} \cup {BroadcastEp}
      /\ options \subseteq FrameOptions /\ options \subseteq FrameOptions \cup ClusterFlags
      /\ "broadcastEp" \in options => bcast
      /\ ~bcast => dest = EndpointTable[row].endpoint
  BY <1>2 DEF FrameOptions
<1>5. EndpointTable[row].profile \in {EndpointTable[r].profile : r \in Rows}
  OBVIOUS
<1> HIDE DEF dest, options
<1>6. /\ env'.dest = dest /\ env'.profile = EndpointTable[row].profile /\ env'.kind = t.kind
      /\ env'.options = options /\ env'.serial = f.serial /\ env'.req = f.req
  BY <1>3
<1>7. env' \in EnvelopeType
  BY <1>2, <1>3, <1>4, <1>5 DEF EnvelopeType
<1>8. World' = World
  BY <1>1 DEF World
<1>9. Addressee(row)'
  <2>1. "broadcastEp" \notin env'.options => env'.dest = EndpointTable[row].endpoint /\ ep' \in {0, row}
    BY <1>1, <1>4, <1>6 DEF dest, options
  <2>2. t.kind \notin Unasked => Faithful(World, [row |-> row, serial |-> env.serial, req |-> env.req])'
    BY <1>6, <1>8 DEF Faithful
  <2>3. QED
    BY <1>1, <1>6, <2>1, <2>2 DEF Addressee
<1>10. Dispatching'
  BY <1>1, <1>4, <1>6, <1>7, <1>9, Constants DEF Dispatching, Reported
<1>11. WorldOK(World)'
  BY <1>8 DEF ConvInv
<1>12. InTime(World, 1 - pause)'
  BY <1>1, <1>8 DEF ConvInv, InTime, OnTime, Left
<1>13. OwnCluster'
  BY <1>1 DEF OwnCluster
<1>14. QED
  BY <1>1, <1>10, <1>11, <1>12, <1>13 DEF ConvInv

LEMMA ReceiveAnswerOK == ConvInv /\ ReceiveAnswer => ConvInv'
<1> SUFFICES ASSUME ConvInv, ReceiveAnswer
             PROVE  ConvInv'
  OBVIOUS
<1>1. PICK f \in sent, t \in Traffic : t.kind \notin Unasked /\ Arrives(f.row, t, f, FALSE)
  BY DEF ReceiveAnswer
<1>2. f \in PacketType /\ Faithful(World, f)
  BY WorldFields DEF ConvInv, WorldOK, WorldType
<1>3. /\ f.row \in Rows /\ f.serial \in Nat /\ f.req \in Holders
      /\ f = [row |-> f.row, serial |-> f.serial, req |-> f.req]
  BY <1>2 DEF PacketType
<1>4. Faithful(World, [row |-> f.row, serial |-> f.serial, req |-> f.req])
  BY <1>2, <1>3
<1>5. QED
  BY <1>1, <1>3, <1>4, ArrivesOK

LEMMA ReceiveRequestOK == ConvInv /\ ReceiveRequest => ConvInv'
<1> SUFFICES ASSUME ConvInv, ReceiveRequest
             PROVE  ConvInv'
  OBVIOUS
<1> DEFINE f == [serial |-> 0, req |-> NoRequest]
<1>1. PICK row \in Rows, t \in Traffic, bcast \in BOOLEAN :
         t.kind \in Unasked /\ Arrives(row, t, f, bcast)
  BY Zenon DEF ReceiveRequest
<1>2. f.serial \in Nat /\ f.req \in Holders
  BY DEF Holders
<1> HIDE DEF f
<1>3. QED
  BY <1>1, <1>2, ArrivesOK

-----------------------------------------------------------------------------
\* Time, and the walk of the expiry.

LEMMA AgedOnTime ==
    ASSUME NEW e \in EntryType, seconds \in 0..(TimeMod - 1), pause \in 0..PauseMax, pause < PauseMax,
           OnTime(e, 1 - pause), seconds' = (seconds + 1) % TimeMod, pause' = pause + 1
    PROVE  /\ Aged(e) \in EntryType /\ OnTime(Aged(e), 1 - pause)'
           /\ Aged(e).req = e.req /\ Aged(e).id = e.id /\ Aged(e).serial = e.serial
<1>1. /\ TimeMod \in Nat \ {0} /\ PauseMax \in Nat /\ Half \in Nat /\ 2 * Half <= TimeMod
      /\ e.limit \in Nat /\ e.age \in Nat /\ e.timeout \in 0..(TimeMod - 1)
  BY Constants DEF EntryType
<1> DEFINE a == Aged(e)
<1>2. /\ a \in EntryType
      /\ a.req = e.req /\ a.id = e.id /\ a.serial = e.serial /\ a.limit = e.limit /\ a.timeout = e.timeout
      /\ e.limit > 0 /\ e.age < e.limit + PauseMax + 2 => a.age = e.age + 1
  BY <1>1 DEF Aged, EntryType
<1> HIDE DEF a
<1>3. ASSUME e.limit > 0
      PROVE  \E left \in (1 - pause')..(Half - 1) : Left(a, left)'
  <2>1. PICK left \in (1 - pause)..(Half - 1) : Left(e, left)
    BY <1>3 DEF OnTime
  <2>2. left \in Int /\ left >= 1 - pause /\ left <= Half - 1 /\ pause \in Nat /\ pause < PauseMax
    BY <1>1
  <2>3. /\ left \in {e.limit - e.age, e.limit - e.age + 1} /\ e.timeout # 0
        /\ e.timeout \in {seconds + left, seconds + left - TimeMod, seconds + left + TimeMod}
    BY <2>1 DEF Left
  <2>4. a.age = e.age + 1
    BY <1>1, <1>2, <1>3, <2>2, <2>3
  <2>5. e.limit + PauseMax + 1 < Half
    BY <1>3 DEF OnTime
  <2>6. seconds' = IF seconds + 1 = TimeMod THEN 0 ELSE seconds + 1
    BY <1>1, ModNext
  <2>7. left - 1 \in (1 - pause')..(Half - 1)
    BY <1>1, <2>2
  <2>8. left - 1 \in {a.limit - a.age, a.limit - a.age + 1} /\ a.timeout # 0
    <3>1. a.limit - a.age = e.limit - e.age - 1 /\ a.limit - a.age + 1 = e.limit - e.age
      BY <1>1, <1>2, <2>4
    <3>2. e.limit - e.age \in Int
      BY <1>1
    <3> QED
      BY <1>2, <2>2, <2>3, <3>1, <3>2
  <2>9. a.timeout \in {seconds' + (left - 1), seconds' + (left - 1) - TimeMod, seconds' + (left - 1) + TimeMod}
    BY <1>1, <1>2, <2>2, <2>3, <2>5, <2>6
  <2>10. Left(a, left - 1)'
    BY <2>8, <2>9 DEF Left
  <2>11. QED
    BY <2>7, <2>10
<1>4. OnTime(a, 1 - pause)'
  BY <1>2, <1>3 DEF OnTime
<1>5. QED
  BY <1>2, <1>4 DEF a

LEMMA SecondOK == ConvInv /\ Second => ConvInv'
<1> SUFFICES ASSUME ConvInv, Second
             PROVE  ConvInv'
  OBVIOUS
<1>1. /\ phase = "idle" /\ pause < PauseMax /\ seconds' = (seconds + 1) % TimeMod /\ pause' = pause + 1
      /\ conversations' = [r \in Rows |-> [i \in 1..Slots |-> Aged(conversations[r][i])]]
      /\ UNCHANGED <<issued, sent, state, strayed, phase, env, ep, at, now, complaints>>
  BY DEF Second, walk
<1>2. /\ WorldOK(World) /\ seconds \in 0..(TimeMod - 1) /\ pause \in 0..PauseMax /\ InTime(World, 1 - pause)
  BY <1>1 DEF ConvInv
<1> DEFINE w == World'
<1>3. /\ w = [conv |-> w.conv, issued |-> w.issued, sent |-> w.sent, state |-> w.state, strayed |-> w.strayed]
      /\ w.conv = [r \in Rows |-> [i \in 1..Slots |-> Aged(World.conv[r][i])]]
      /\ w.issued = World.issued /\ w.sent = World.sent /\ w.state = World.state /\ w.strayed = World.strayed
  BY <1>1 DEF World
<1> HIDE DEF w
<1>4. ASSUME NEW r \in Rows, NEW i \in 1..Slots
      PROVE  /\ World.conv[r][i] \in EntryType /\ OnTime(World.conv[r][i], 1 - pause)
             /\ w.conv[r][i] = Aged(World.conv[r][i])
  <2>1. World.conv[r][i] \in EntryType
    BY <1>2 DEF WorldOK, WorldType
  <2>2. OnTime(World.conv[r][i], 1 - pause)
    BY <1>2 DEF InTime
  <2>3. QED
    BY <1>3, <2>1, <2>2
<1>5. \A r \in Rows : \A i \in 1..Slots :
         /\ w.conv[r][i] \in EntryType /\ \A a : a = w.conv[r][i] => OnTime(a, 1 - pause)'
         /\ w.conv[r][i].req = World.conv[r][i].req /\ w.conv[r][i].id = World.conv[r][i].id
         /\ w.conv[r][i].serial = World.conv[r][i].serial
  <2> SUFFICES ASSUME NEW r \in Rows, NEW i \in 1..Slots
               PROVE  /\ w.conv[r][i] \in EntryType /\ \A a : a = w.conv[r][i] => OnTime(a, 1 - pause)'
                      /\ w.conv[r][i].req = World.conv[r][i].req /\ w.conv[r][i].id = World.conv[r][i].id
                      /\ w.conv[r][i].serial = World.conv[r][i].serial
    OBVIOUS
  <2>1. PICK e : e = World.conv[r][i]
    OBVIOUS
  <2>2. e \in EntryType /\ OnTime(e, 1 - pause) /\ w.conv[r][i] = Aged(e)
    BY <1>4, <2>1
  <2>3. /\ Aged(e) \in EntryType /\ OnTime(Aged(e), 1 - pause)'
        /\ Aged(e).req = e.req /\ Aged(e).id = e.id /\ Aged(e).serial = e.serial
    BY <1>1, <1>2, <2>2, AgedOnTime
  <2>4. \A a : a = w.conv[r][i] => OnTime(a, 1 - pause)'
    BY <2>2, <2>3
  <2>5. QED
    BY <2>1, <2>2, <2>3, <2>4
<1>6. w \in WorldType
  <2>1. w.conv \in [Rows -> [1..Slots -> EntryType]]
    BY <1>3, <1>5
  <2>2. QED
    BY <1>2, <1>3, <2>1 DEF WorldOK, WorldType
<1>7. OneEach(w) /\ OpenIsHeld(w) /\ Numbered(w)
  BY <1>2, <1>3, <1>5 DEF WorldOK, OneEach, OpenIsHeld, Numbered
<1>8. \A f \in w.sent : Faithful(w, f)
  <2>1. \A f \in World.sent : Faithful(World, f) /\ f.row \in Rows
    BY <1>2 DEF WorldOK, WorldType, PacketType
  <2>2. QED
    BY <1>3, <1>5, <2>1 DEF Faithful
<1>9. WorldOK(w)
  BY <1>2, <1>3, <1>6, <1>7, <1>8 DEF WorldOK
<1>10. InTime(World, 1 - pause)'
  <2>1. World' = w
    BY DEF w
  <2>2. QED
    BY <1>5, <2>1 DEF InTime, OnTime, Left
<1>11. seconds' \in 0..(TimeMod - 1) /\ pause' \in 0..PauseMax
  <2>1. seconds' = IF seconds + 1 = TimeMod THEN 0 ELSE seconds + 1
    BY <1>1, <1>2, ModNext, Constants
  <2>2. QED
    BY <1>1, <1>2, <2>1, Constants
<1>12. WorldOK(World)'
  BY <1>9 DEF w
<1>13. OwnCluster'
  BY <1>1 DEF OwnCluster
<1>14. QED
  BY <1>1, <1>10, <1>11, <1>12, <1>13 DEF ConvInv

\* In the walk an entry is due when no second of it is left.
LEMMA DueWhenOver ==
    ASSUME NEW e \in EntryType, e.req # NoRequest, e.limit > 0, e.limit + PauseMax + 1 < Half,
           seconds \in 0..(TimeMod - 1), now = seconds,
           NEW left \in (1 - PauseMax)..(Half - 1), Left(e, left)
    PROVE  Due(e) <=> left <= 0
<1>1. /\ TimeMod \in Nat \ {0} /\ PauseMax \in Nat /\ Half \in Nat /\ 2 * Half <= TimeMod
      /\ e.limit \in Nat /\ e.timeout \in 0..(TimeMod - 1)
  BY Constants DEF EntryType
<1>2. e.timeout # 0 /\ e.timeout \in {seconds + left, seconds + left - TimeMod, seconds + left + TimeMod}
  BY DEF Left
<1> DEFINE k == IF left <= 0 THEN -left ELSE TimeMod - left
           x == now - e.timeout
<1>3. left \in Int /\ left > -Half /\ left < Half /\ PauseMax < Half
  BY <1>1
<1>4. k \in 0..(TimeMod - 1) /\ (k < Half <=> left <= 0)
  BY <1>1, <1>3
<1>5. x \in {k, k + TimeMod, k - TimeMod}
  BY <1>1, <1>2, <1>3
<1>6. Due(e) <=> x % TimeMod < Half
  BY <1>2 DEF Due
<1> HIDE DEF k, x
<1>7. x % TimeMod = k
  BY <1>1, <1>4, <1>5, ModShift
<1>8. QED
  BY <1>4, <1>6, <1>7

LEMMA NotDueOnTime ==
    ASSUME NEW e \in EntryType, OnTime(e, 1 - PauseMax), ~Due(e),
           seconds \in 0..(TimeMod - 1), now = seconds
    PROVE  OnTime(e, 1)
<1>1. CASE e.limit > 0
  <2>1. PICK left \in (1 - PauseMax)..(Half - 1) : Left(e, left)
    BY <1>1 DEF OnTime
  <2>2. e.req # NoRequest /\ e.limit + PauseMax + 1 < Half
    BY <1>1 DEF OnTime
  <2>3. ~(left <= 0)
    BY <1>1, <2>1, <2>2, DueWhenOver
  <2>4. left \in 1..(Half - 1)
    BY <2>3, Constants
  <2>5. QED
    BY <1>1, <2>1, <2>2, <2>4 DEF OnTime
<1>2. CASE ~(e.limit > 0)
  BY <1>2 DEF OnTime
<1>3. QED
  BY <1>1, <1>2

LEMMA DueIsOver ==
    ASSUME NEW e \in EntryType, OnTime(e, 1 - PauseMax), Due(e),
           seconds \in 0..(TimeMod - 1), now = seconds
    PROVE  e.limit > 0 /\ e.age >= e.limit
<1>1. e.req # NoRequest /\ e.timeout # 0 /\ e.limit \in Nat /\ e.age \in Nat
  BY DEF Due, EntryType
<1>2. e.limit > 0 /\ e.limit + PauseMax + 1 < Half
  BY <1>1 DEF OnTime
<1>3. PICK left \in (1 - PauseMax)..(Half - 1) : Left(e, left)
  BY <1>2 DEF OnTime
<1>4. left <= 0
  BY <1>1, <1>2, <1>3, DueWhenOver
<1>5. QED
  BY <1>1, <1>2, <1>3, <1>4, Constants DEF Left

LEMMA EntryTyped == ASSUME ConvInv, NEW r \in Rows, NEW i \in 1..Slots
                    PROVE  World.conv[r][i] \in EntryType
<1>1. World \in WorldType
  BY DEF ConvInv, WorldOK
<1>2. QED
  BY <1>1 DEF WorldType

\* The step of the walk: to the first entry that is due, whose request is over.
LEMMA ExpireEntryIs ==
    ASSUME ConvInv, ExpireEntry
    PROVE  \E n \in DueEntries : \E r \in Rows, i \in 1..Slots, q \in Requests :
              /\ at' = n /\ \A m \in DueEntries : n <= m
              /\ r = RowAt(n) /\ i = SlotAt(n) /\ q = World.conv[r][i].req /\ Due(World.conv[r][i])
              /\ \E w \in Reactions(World, q, FALSE) : /\ Become(Ended(w, r, i, q))
                                                       /\ Grows(World, w) /\ w.conv[r][i].req = q
<1>1. at \in Nat /\ Len(EndpointTable) * Slots \in Nat
  BY Constants DEF ConvInv
<1>2. DueEntries \in SUBSET Nat /\ DueEntries # {}
  BY <1>1 DEF DueEntries, ExpireEntry
<1>3. at' = Min(DueEntries)
  BY DEF ExpireEntry, Min
<1>4. PICK n \in DueEntries : at' = n /\ \A m \in DueEntries : n <= m
  BY <1>2, <1>3, MinIsLeast
<1>5. n \in 1..(Len(EndpointTable) * Slots) /\ Due(conversations[RowAt(n)][SlotAt(n)])
  BY <1>1, <1>4 DEF DueEntries
<1>6. PICK r \in Rows, i \in 1..Slots : r = RowAt(n) /\ i = SlotAt(n)
  BY <1>5, WalkPlaces
<1>7. PICK q \in Requests : q = World.conv[r][i].req /\ q = conversations[r][i].req
  <2>1. World.conv[r][i].req \in Holders
    BY EntryTyped DEF EntryType
  <2>2. World.conv[r][i] = conversations[r][i]
    BY WorldFields
  <2>3. conversations[r][i].req # NoRequest
    BY <1>5, <1>6 DEF Due
  <2>4. QED
    BY <2>1, <2>2, <2>3 DEF Holders
<1>8. PICK x \in Expired(r, i) : Become(x)
  BY <1>4, <1>6 DEF ExpireEntry
<1>9. PICK w \in Reactions(World, q, FALSE) : x = Ended(w, r, i, q)
  BY <1>7, <1>8 DEF Expired, Ended
<1>10. Grows(World, w)
  BY <1>9, ReactionsGrow DEF ConvInv
<1>11. w.conv[r][i].req = q
  <2>1. q # NoRequest
    BY Constants
  <2>2. QED
    BY <1>7, <1>10, <2>1 DEF Grows
<1>12. Due(World.conv[r][i])
  BY <1>5, <1>6, WorldFields
<1>13. QED
  BY <1>4, <1>6, <1>7, <1>8, <1>9, <1>10, <1>11, <1>12

\* An entry the walk has not reached and that is not due has a second left.
LEMMA UndueOnTime ==
    ASSUME ConvInv, phase = "expire", NEW n \in (at + 1)..(Len(EndpointTable) * Slots), n \notin DueEntries
    PROVE  OnTime(conversations[RowAt(n)][SlotAt(n)], 1)
<1>1. at \in Nat /\ Len(EndpointTable) * Slots \in Nat
  BY Constants DEF ConvInv
<1>2. n \in 1..(Len(EndpointTable) * Slots)
  BY <1>1
<1>3. PICK r \in Rows, i \in 1..Slots : r = RowAt(n) /\ i = SlotAt(n)
  BY <1>2, WalkPlaces
<1>4. ~Due(conversations[RowAt(n)][SlotAt(n)])
  BY DEF DueEntries
<1>5. World.conv[r][i] \in EntryType /\ World.conv[r][i] = conversations[RowAt(n)][SlotAt(n)]
  BY <1>3, WorldFields, EntryTyped
<1>6. OnTime(World.conv[r][i], 1 - PauseMax)
  BY DEF ConvInv, InTime
<1>7. seconds \in 0..(TimeMod - 1) /\ now = seconds
  BY DEF ConvInv
<1>8. QED
  BY <1>4, <1>5, <1>6, <1>7, NotDueOnTime

LEMMA ExpireEntryOK == ConvInv /\ ExpireEntry => ConvInv'
<1> SUFFICES ASSUME ConvInv, ExpireEntry
             PROVE  ConvInv'
  OBVIOUS
<1>1. PICK n \in DueEntries : \E r \in Rows, i \in 1..Slots, q \in Requests :
              /\ at' = n /\ \A m \in DueEntries : n <= m
              /\ r = RowAt(n) /\ i = SlotAt(n) /\ q = World.conv[r][i].req /\ Due(World.conv[r][i])
              /\ \E w \in Reactions(World, q, FALSE) : /\ Become(Ended(w, r, i, q))
                                                       /\ Grows(World, w) /\ w.conv[r][i].req = q
  BY ExpireEntryIs, Zenon
<1>2. PICK r \in Rows, i \in 1..Slots, q \in Requests :
              /\ at' = n /\ \A m \in DueEntries : n <= m
              /\ r = RowAt(n) /\ i = SlotAt(n) /\ q = World.conv[r][i].req /\ Due(World.conv[r][i])
              /\ \E w \in Reactions(World, q, FALSE) : /\ Become(Ended(w, r, i, q))
                                                       /\ Grows(World, w) /\ w.conv[r][i].req = q
  BY <1>1, Zenon
<1>3. PICK w \in Reactions(World, q, FALSE) : /\ Become(Ended(w, r, i, q))
                                              /\ Grows(World, w) /\ w.conv[r][i].req = q
  BY <1>2
<1>4. /\ phase = "expire" /\ phase' = "expire"
      /\ UNCHANGED <<env, ep, now, seconds, complaints, pause>>
  BY DEF ExpireEntry
<1>5. Keeps(World, Ended(w, r, i, q))
  BY <1>3, GrowsKeeps, EndedKeeps
<1>6. /\ WorldOK(World)' /\ strayed' = {}
      /\ \A least \in Int : least <= 1 /\ InTime(World, least) => InTime(World, least)'
  BY <1>3, <1>4, <1>5, TableKept
<1>7. InTime(World, 1 - PauseMax)'
  <2>1. 1 - PauseMax \in Int /\ 1 - PauseMax <= 1
    BY Constants
  <2>2. QED
    BY <1>4, <1>6, <2>1 DEF ConvInv
<1>8. at \in Nat /\ Len(EndpointTable) * Slots \in Nat /\ n \in (at + 1)..(Len(EndpointTable) * Slots)
  BY Constants DEF ConvInv, DueEntries
<1>9. ASSUME NEW m \in 1..n
      PROVE  OnTime(Ended(w, r, i, q).conv[RowAt(m)][SlotAt(m)], 1)
  <2>1. RowAt(m) \in Rows /\ SlotAt(m) \in 1..Slots
    <3>1. m \in 1..(Len(EndpointTable) * Slots)
      BY <1>8
    <3>2. QED
      BY <3>1, WalkPlaces
  <2>2. CASE m = n
    <3>1. Ended(w, r, i, q).conv[r][i] = Free
      BY <1>3, EndedOK DEF Grows
    <3>2. QED
      BY <1>2, <2>2, <3>1 DEF OnTime, Free
  <2>3. CASE m # n
    <3>1. OnTime(World.conv[RowAt(m)][SlotAt(m)], 1)
      <4>1. CASE m <= at
        BY <1>4, <1>8, <4>1, WorldFields DEF ConvInv, Passed
      <4>2. CASE m > at
        <5>1. m \in (at + 1)..(Len(EndpointTable) * Slots) /\ m < n
          BY <1>8, <2>3, <4>2
        <5>2. m \notin DueEntries
          BY <1>2, <1>8, <5>1
        <5>3. QED
          BY <1>4, <5>1, <5>2, UndueOnTime, WorldFields
      <4>3. QED
        BY <1>8, <4>1, <4>2
    <3>2. QED
      BY <1>5, <2>1, <3>1 DEF Keeps
  <2>4. QED
    BY <2>2, <2>3
<1>10. Passed'
  <2>1. conversations' = Ended(w, r, i, q).conv /\ at' = n
    BY <1>2, <1>3 DEF Become
  <2>2. QED
    BY <1>4, <1>9, <2>1 DEF Passed, OnTime, Left
<1>11. at' \in 0..(Len(EndpointTable) * Slots)
  BY <1>2, <1>8
<1>12. OwnCluster'
  BY <1>4 DEF OwnCluster
<1>13. QED
  BY <1>4, <1>6, <1>7, <1>10, <1>11, <1>12 DEF ConvInv

LEMMA ExpireDoneOK == ConvInv /\ ExpireDone => ConvInv'
<1> SUFFICES ASSUME ConvInv, ExpireDone
             PROVE  ConvInv'
  OBVIOUS
<1>1. /\ phase = "expire" /\ DueEntries = {} /\ phase' = "idle" /\ at' = 0 /\ now' = 0
      /\ UNCHANGED <<conversations, issued, sent, state, strayed, seconds, env, ep, complaints, pause>>
  BY DEF ExpireDone, table
<1>2. World' = World
  BY <1>1 DEF World
<1>3. WorldOK(World)'
  BY <1>2 DEF ConvInv
<1>4. at \in Nat /\ Len(EndpointTable) * Slots \in Nat
  BY Constants DEF ConvInv
<1>5. ASSUME NEW r \in Rows, NEW i \in 1..Slots
      PROVE  OnTime(World.conv[r][i], 1)
  <2>1. PICK n \in 1..(Len(EndpointTable) * Slots) : RowAt(n) = r /\ SlotAt(n) = i
    BY WalkComplete
  <2>2. CASE n <= at
    BY <1>1, <1>4, <2>1, <2>2, WorldFields DEF ConvInv, Passed
  <2>3. CASE n > at
    <3>1. n \in (at + 1)..(Len(EndpointTable) * Slots) /\ n \notin DueEntries
      BY <1>1, <1>4, <2>3
    <3>2. QED
      BY <1>1, <2>1, <3>1, UndueOnTime, WorldFields
  <2>4. QED
    BY <1>4, <2>2, <2>3
<1>6. InTime(World, 1 - pause)'
  <2>1. 1 - pause \in Int /\ 1 - pause <= 1
    BY Constants DEF ConvInv
  <2>2. InTime(World, 1 - pause)
    BY <1>5, <2>1, OnTimeWeaker DEF InTime
  <2>3. QED
    BY <1>1, <1>2, <2>2 DEF InTime, OnTime, Left
<1>7. OwnCluster'
  BY <1>1 DEF OwnCluster
<1>8. QED
  BY <1>1, <1>3, <1>4, <1>6, <1>7, Constants DEF ConvInv

-----------------------------------------------------------------------------
\* The dispatcher.

LEMMA ClusterFound ==
    ASSUME NEW r \in Rows, NEW id
    PROVE  LET c == ClusterMatch(id, Inout, EndpointTable[r].clusters)
           IN  c # 0 => c \in DOMAIN EndpointTable[r].clusters
<1> DEFINE s == EndpointTable[r].clusters
           I == {i \in 1..Len(s) : s[i].cluster = id /\ s[i].flags \cap Inout # {}}
<1>1. I \in SUBSET Nat
  OBVIOUS
<1>2. ClusterMatch(id, Inout, s) = IF I # {} THEN Min(I) ELSE 0
  BY DEF ClusterMatch, SelectInSeq
<1>3. I # {} => Min(I) \in I
  <2> HIDE DEF I
  <2> QED BY <1>1, MinIsLeast
<1>4. DOMAIN s = 1..Len(s)
  BY TableAssumption, LenProperties
<1>5. QED
  BY <1>2, <1>3, <1>4

(* Whether row r's cluster bars the envelope, and the flags it lends otherwise. *)
FlagsAt(r) == LET c == ClusterMatch(env.cluster, Inout, EndpointTable[r].clusters)
              IN  IF c = 0 THEN {} ELSE EndpointTable[r].clusters[c].flags
Barred(r) ==
    /\ FlagsAt(r) \cap {"encrypt", "encryptUnicast"} # {}
    /\ "apsEncrypt" \notin env.options /\ "notZcl" \notin FlagsAt(r)
    /\ "encrypt" \notin FlagsAt(r) => "broadcastAddr" \notin env.options

(* What becomes of the envelope on its way to row r, and which handler gets it. *)
Routed(r, v, handler) ==
    /\ v \in EnvelopeType
    /\ v.profile = env.profile /\ v.kind = env.kind /\ v.cluster = env.cluster
    /\ v.serial = env.serial /\ v.req = env.req
    /\ "broadcastEp" \notin env.options => v.dest = env.dest
    /\ FlagsAt(r) \subseteq ClusterFlags
    /\ v.options = (env.options \cap FrameOptions) \cup IF Barred(r) THEN {} ELSE FlagsAt(r)
    /\ handler = "zdo_handler" => EndpointTable[r].handler = "zdo_handler"

LEMMA RouteIs ==
    ASSUME env \in EnvelopeType, NEW r \in Rows,
           "broadcastEp" \notin env.options => env.options \subseteq FrameOptions
    PROVE  LET to == Route(Addressed(env, r), r) IN Routed(r, to.env, to.handler)
<1> DEFINE a == Addressed(env, r)
           row == EndpointTable[r]
           c == ClusterMatch(env.cluster, Inout, row.clusters)
           clust == row.clusters[c]
           base == env.options \cap FrameOptions
           to == Route(a, r)
<1>1. /\ a \in EnvelopeType /\ a.options = base
      /\ a.profile = env.profile /\ a.kind = env.kind /\ a.cluster = env.cluster
      /\ a.serial = env.serial /\ a.req = env.req
      /\ "broadcastEp" \notin env.options => a.dest = env.dest
  <2>1. CASE "broadcastEp" \in env.options
    <3>1. a = [env EXCEPT !.dest = EndpointTable[r].endpoint, !.options = env.options \cap FrameOptions]
      BY <2>1 DEF Addressed
    <3>2. EndpointTable[r].endpoint \in {EndpointTable[s].endpoint : s \in Rows} \cup {BroadcastEp}
      OBVIOUS
    <3> HIDE DEF a
    <3>3. QED
      BY <2>1, <3>1, <3>2 DEF EnvelopeType
  <2>2. CASE "broadcastEp" \notin env.options
    <3>1. a = env
      BY <2>2 DEF Addressed
    <3> HIDE DEF a
    <3>2. QED
      BY <2>2, <3>1
  <2>3. QED
    BY <2>1, <2>2
<1>2. c # 0 => /\ c \in DOMAIN row.clusters
               /\ clust.flags \subseteq ClusterFlags /\ clust.handler # "zdo_handler"
  <2>1. c # 0 => c \in DOMAIN row.clusters
    BY ClusterFound
  <2> HIDE DEF c
  <2>2. QED
    BY <2>1, TableAssumption, ZdoAssumption
<1>3. to = IF c = 0 THEN [env |-> a, handler |-> row.handler]
           ELSE IF Refuses(a, clust) THEN [env |-> a, handler |-> "zcl_invalid_cluster"]
           ELSE [env |-> [a EXCEPT !.options = a.options \cup clust.flags],
                 handler |-> IF clust.handler # NoHandler THEN clust.handler ELSE row.handler]
  <2>1. a.cluster = env.cluster
    BY <1>1
  <2> HIDE DEF a
  <2>2. QED
    BY <2>1 DEF Route
<1>4. FlagsAt(r) = IF c = 0 THEN {} ELSE clust.flags
  BY DEF FlagsAt
<1> HIDE DEF a, row, c, clust, to
<1>5. FlagsAt(r) \subseteq ClusterFlags
  BY <1>2, <1>4
<1>6. ASSUME c = 0 PROVE Routed(r, to.env, to.handler)
  <2>1. FlagsAt(r) = {} /\ to.env = a /\ to.handler = row.handler
    BY <1>3, <1>4, <1>6
  <2>2. QED
    BY <1>1, <2>1 DEF Routed, row, Barred
<1>7. ASSUME c # 0 PROVE Routed(r, to.env, to.handler)
  <2>1. FlagsAt(r) = clust.flags
    BY <1>4, <1>7
  <2>2. Refuses(a, clust) <=> Barred(r)
    BY <1>1, <2>1 DEF Refuses, Barred, FrameOptions
  <2>3. CASE Barred(r)
    <3>1. to.env = a /\ to.handler # "zdo_handler"
      BY <1>3, <1>7, <2>2, <2>3
    <3>2. QED
      BY <1>1, <1>5, <2>3, <3>1 DEF Routed
  <2>4. CASE ~Barred(r)
    <3>1. to.env = [a EXCEPT !.options = base \cup FlagsAt(r)]
      BY <1>1, <1>3, <1>7, <2>1, <2>2, <2>4
    <3>2. base \cup FlagsAt(r) \subseteq FrameOptions \cup ClusterFlags
      BY <1>5
    <3>3. to.handler = "zdo_handler" => row.handler = "zdo_handler"
      BY <1>2, <1>3, <1>7, <2>2, <2>4
    <3>4. /\ to.env \in EnvelopeType /\ to.env.options = base \cup FlagsAt(r)
          /\ to.env.dest = a.dest /\ to.env.profile = a.profile /\ to.env.kind = a.kind
          /\ to.env.cluster = a.cluster /\ to.env.serial = a.serial /\ to.env.req = a.req
      <4> DEFINE o == base \cup FlagsAt(r)
      <4>1. to.env = [a EXCEPT !.options = o] /\ o \subseteq FrameOptions \cup ClusterFlags
        BY <3>1, <3>2
      <4> HIDE DEF o
      <4>2. /\ to.env \in EnvelopeType /\ to.env.options = o
            /\ to.env.dest = a.dest /\ to.env.profile = a.profile /\ to.env.kind = a.kind
            /\ to.env.cluster = a.cluster /\ to.env.serial = a.serial /\ to.env.req = a.req
        BY <1>1, <4>1 DEF EnvelopeType
      <4>3. QED
        BY <4>2 DEF o
    <3>5. QED
      BY <1>1, <1>5, <2>4, <3>3, <3>4 DEF Routed, row
  <2>5. QED
    BY <2>3, <2>4
<1>8. Routed(r, to.env, to.handler)
  BY <1>6, <1>7
<1>9. QED
  BY <1>8 DEF to, a

\* The row served next: the addressee's, or the next of the broadcast's profile.
LEMMA NextRowIs ==
    ASSUME Dispatching, NextRow # 0, NEW row \in Rows, Addressee(row)
    PROVE  /\ NextRow \in Rows
           /\ "broadcastEp" \notin env.options => ep = 0 /\ NextRow = row
           /\ "broadcastEp" \in env.options => /\ NextRow > ep
                                               /\ EndpointTable[NextRow].profile = EndpointTable[row].profile
<1>1. ep \in 0..Len(EndpointTable) /\ EndpointTable[row].profile = env.profile
  BY DEF Dispatching, Addressee
<1>2. CASE "broadcastEp" \in env.options
  <2>1. NextRow = NextOfProfile(ep, env.profile)
    BY <1>2 DEF NextRow
  <2>2. NextRow \in (ep + 1)..Len(EndpointTable) /\ EndpointTable[NextRow].profile = env.profile
    BY <1>1, <2>1, NextOfProfileIs
  <2>3. QED
    BY <1>1, <1>2, <2>2, Constants
<1>3. CASE "broadcastEp" \notin env.options
  <2>1. ep = 0 /\ NextRow = EndpointMatch(env.dest, env.profile)
    BY <1>3 DEF NextRow
  <2>2. env.dest = EndpointTable[row].endpoint
    BY <1>3 DEF Addressee
  <2>3. NextRow = row
    BY <1>1, <2>1, <2>2, EndpointOfRow
  <2>4. QED
    BY <1>3, <2>1, <2>3
<1>4. QED
  BY <1>2, <1>3

\* A handler given the envelope changes the tables as handlers do.
LEMMA HandleKeeps ==
    ASSUME ConvInv, Dispatching, NEW row \in Rows, Addressee(row), NEW r \in Rows,
           "broadcastEp" \notin env.options => r = row,
           NEW v, NEW h, Routed(r, v, h), Handle(h, r, v)
    PROVE  \E w : Keeps(World, w) /\ Become(w)
<1>1. Keeps(World, World)
  BY DEF Keeps, ConvInv
<1>2. UNCHANGED table => Become(World)
  BY WorldFields DEF table, Become
<1>3. World \in WorldType /\ WorldOK(World) /\ seconds \in 0..(TimeMod - 1)
  BY DEF ConvInv, WorldOK
<1>4. v.serial = env.serial /\ v.kind = env.kind /\ v.profile = env.profile
         /\ ("broadcastEp" \notin env.options => v.dest = env.dest)
  BY DEF Routed
<1>5. env.kind \notin Unasked =>
         /\ "broadcastEp" \notin env.options /\ r = row
         /\ Faithful(World, [row |-> r, serial |-> env.serial, req |-> env.req])
         /\ EndpointMatch(v.dest, v.profile) = r
  <2> SUFFICES ASSUME env.kind \notin Unasked
               PROVE  /\ "broadcastEp" \notin env.options /\ r = row
                      /\ Faithful(World, [row |-> r, serial |-> env.serial, req |-> env.req])
                      /\ EndpointMatch(v.dest, v.profile) = r
    OBVIOUS
  <2>1. "broadcastEp" \notin env.options /\ r = row
    BY DEF Dispatching
  <2>2. Faithful(World, [row |-> r, serial |-> env.serial, req |-> env.req])
    BY <2>1 DEF Addressee
  <2>3. v.dest = EndpointTable[r].endpoint /\ v.profile = EndpointTable[r].profile
    BY <1>4, <2>1 DEF Addressee
  <2>4. QED
    BY <2>1, <2>2, <2>3, EndpointOfRow
<1>6. ASSUME env.kind \notin Unasked, NEW i, i = Lookup(r, IdOf(v.serial)), i # 0, NEW o \in Responded(r, i)
      PROVE  Keeps(World, o.world)
  <2>1. i \in 1..Slots /\ conversations[r][i].req # NoRequest /\ conversations[r][i].id = IdOf(env.serial)
    BY <1>3, <1>4, <1>6, LookupFinds, Constants
  <2>2. QED
    BY <1>3, <1>5, <1>6, <2>1, RespondedKeeps
<1>7. CASE h = "zdo_handler" /\ ZdoHandler(r, v)
  <2>1. CASE v.kind = "zdoResponse" /\ \E i : i = Lookup(r, IdOf(v.serial)) /\ i # 0 /\ \E o \in Responded(r, i) : Become(o.world)
    <3>1. env.kind \notin Unasked
      BY <1>4, <2>1 DEF Unasked
    <3>2. QED
      BY <1>6, <2>1, <3>1
  <2>2. CASE UNCHANGED table
    BY <1>1, <1>2, <2>2
  <2>3. QED
    BY <1>7, <2>1, <2>2 DEF ZdoHandler
<1>8. CASE h = "zcl_general_command" /\ ZclGeneralCommand(v)
  <2> DEFINE m == EndpointMatch(v.dest, v.profile)
  <2>1. CASE /\ v.kind \in {"zclResponse", "zclDefault"}
             /\ \E i : i = Lookup(m, IdOf(v.serial)) /\ i # 0 /\ \E o \in Responded(m, i) : Become(o.world)
    <3>1. env.kind \notin Unasked
      BY <1>4, <2>1 DEF Unasked
    <3>2. m = r
      BY <1>5, <3>1
    <3> HIDE DEF m
    <3>3. QED
      BY <1>6, <2>1, <3>1, <3>2
  <2>2. CASE UNCHANGED table
    BY <1>1, <1>2, <2>2
  <2>3. QED
    BY <1>8, <2>1, <2>2 DEF ZclGeneralCommand
<1>9. CASE UNCHANGED table
  BY <1>1, <1>2, <1>9
<1>10. QED
  BY <1>7, <1>8, <1>9 DEF Handle, table

\* A handler adds at most one report: it answers a unicast, or as the ZDO endpoint.
LEMMA HandleComplains ==
    ASSUME NEW r, NEW v, NEW h, Handle(h, r, v)
    PROVE  \/ complaints' = complaints
           \/ complaints' = complaints + 1 /\ DefaultResponseSent(v)
           \/ /\ complaints' = complaints + 1 /\ h = "zdo_handler"
              /\ v.kind # "zdoResponse" /\ "broadcastAddr" \notin v.options
<1>1. Complain(v) => \/ complaints' = complaints
                     \/ complaints' = complaints + 1 /\ DefaultResponseSent(v)
  BY DEF Complain
<1>2. CASE h = "zdo_handler" /\ ZdoHandler(r, v)
  BY <1>2 DEF ZdoHandler
<1>3. CASE h = "zcl_general_command" /\ ZclGeneralCommand(v)
  BY <1>1, <1>3 DEF ZclGeneralCommand
<1>4. CASE Complain(v) \/ UNCHANGED complaints
  BY <1>1, <1>4
<1>5. QED
  BY <1>2, <1>3, <1>4 DEF Handle

LEMMA DispatchOK == ConvInv /\ Dispatch => ConvInv'
<1> SUFFICES ASSUME ConvInv, Dispatch
             PROVE  ConvInv'
  OBVIOUS
<1> DEFINE r == NextRow
<1>1. phase = "dispatch" /\ r # 0 /\ Dispatching
  BY DEF Dispatch, ConvInv
<1>2. PICK row \in Rows : Addressee(row)
  BY <1>1 DEF Dispatching
<1>3. /\ r \in Rows
      /\ "broadcastEp" \notin env.options => ep = 0 /\ r = row
      /\ "broadcastEp" \in env.options => r > ep /\ EndpointTable[r].profile = EndpointTable[row].profile
  BY <1>1, <1>2, NextRowIs
<1>4. env \in EnvelopeType /\ ("broadcastEp" \notin env.options => env.options \subseteq FrameOptions)
  BY <1>1, <1>3 DEF Dispatching
<1>5. PICK to : to = Route(Addressed(env, r), r)
  OBVIOUS
<1>6. /\ env' = to.env /\ ep' = r /\ Handle(to.handler, r, to.env)
      /\ UNCHANGED <<seconds, phase, at, now, pause>>
  BY <1>5 DEF Dispatch
<1>7. Routed(r, to.env, to.handler)
  BY <1>3, <1>4, <1>5, RouteIs
<1>8. PICK w : Keeps(World, w) /\ Become(w)
  BY <1>1, <1>2, <1>3, <1>6, <1>7, HandleKeeps
<1> HIDE DEF r
<1> DEFINE v == to.env
<1>9. /\ v \in EnvelopeType
      /\ v.profile = env.profile /\ v.kind = env.kind /\ v.cluster = env.cluster
      /\ v.serial = env.serial /\ v.req = env.req
      /\ "broadcastEp" \notin env.options => v.dest = env.dest
      /\ FlagsAt(r) \subseteq ClusterFlags
      /\ v.options = (env.options \cap FrameOptions) \cup IF Barred(r) THEN {} ELSE FlagsAt(r)
      /\ to.handler = "zdo_handler" => EndpointTable[r].handler = "zdo_handler"
  BY <1>7 DEF Routed
<1>10. env' = v
  BY <1>6
<1> HIDE DEF v
<1>11. \A o \in FrameOptions : o \in v.options <=> o \in env.options
  BY <1>9 DEF FrameOptions, ClusterFlags
<1>12. {"broadcastEp", "broadcastAddr", "apsEncrypt"} \subseteq FrameOptions
  BY DEF FrameOptions
<1>13. /\ WorldOK(World)' /\ strayed' = {}
       /\ \A least \in Int : least <= 1 /\ InTime(World, least) => InTime(World, least)'
       /\ \A f \in PacketType : Faithful(World, f) => Faithful(World, f)'
  BY <1>6, <1>8, TableKept
<1>14. InTime(World, 1 - pause)'
  <2>1. pause \in Nat
    BY Constants DEF ConvInv
  <2>2. 1 - pause \in Int /\ 1 - pause <= 1
    BY <2>1
  <2>3. InTime(World, 1 - pause)
    BY <1>1 DEF ConvInv
  <2>4. \A least \in Int : least = 1 - pause /\ InTime(World, least)' => InTime(World, 1 - pause)'
    BY <1>6 DEF InTime, OnTime, Left
  <2>5. QED
    BY <1>13, <2>2, <2>3, <2>4
<1>15. Addressee(row)'
  <2>1. PICK f : f = [row |-> row, serial |-> env.serial, req |-> env.req]
    OBVIOUS
  <2>2. f \in PacketType
    BY <1>4, <2>1 DEF EnvelopeType, PacketType
  <2>3. v.kind \notin Unasked => Faithful(World, f)'
    BY <1>2, <1>9, <1>13, <2>1, <2>2 DEF Addressee
  <2>4. f = [row |-> row, serial |-> env'.serial, req |-> env'.req]
    BY <1>9, <1>10, <2>1
  <2>5. "broadcastEp" \notin v.options => v.dest = EndpointTable[row].endpoint /\ r \in {0, row}
    BY <1>2, <1>3, <1>9, <1>11, <1>12 DEF Addressee
  <2>6. EndpointTable[row].profile = v.profile
         /\ (v.kind \in {"zdoResponse", "zdoRequest"} <=> EndpointTable[row].handler = "zdo_handler")
    BY <1>2, <1>9 DEF Addressee
  <2>7. QED
    BY <1>6, <1>10, <2>3, <2>4, <2>5, <2>6 DEF Addressee, Faithful
<1>16. complaints' \in {0, 1} /\ Reported'
  <2>1. complaints \in {0, 1} /\ Reported /\ ep \in 0..Len(EndpointTable)
    BY <1>1 DEF Dispatching
  <2>2. "broadcastEp" \notin env.options => complaints = 0
    BY <1>1, <1>3 DEF Dispatching
  <2>3. EndpointTable[row].profile = env.profile
           /\ (env.kind \in {"zdoResponse", "zdoRequest"} <=> EndpointTable[row].handler = "zdo_handler")
    BY <1>2 DEF Addressee
  <2>4. to.handler = "zdo_handler" => r = row /\ EndpointTable[r].handler = "zdo_handler"
    BY <1>2, <1>3, <1>9, ZdoAssumption
  <2>5. ASSUME complaints' = complaints
        PROVE  complaints' \in {0, 1} /\ Reported'
    <3>1. CASE complaints = 0
      BY <2>5, <3>1 DEF Reported
    <3>2. CASE complaints = 1
      <4>1. "broadcastEp" \in env.options
        BY <2>2, <3>2
      <4>2. env.kind = "zdoRequest" /\ "broadcastAddr" \notin env.options
        BY <2>1, <3>2, <4>1 DEF Reported
      <4>3. PICK s \in 1..ep : EndpointTable[s].handler = "zdo_handler" /\ EndpointTable[s].profile = env.profile
        BY <2>1, <3>2, <4>1 DEF Reported
      <4>4. s \in 1..r
        BY <1>3, <2>1, <4>1, Constants
      <4>5. v.kind # "zclDefault" /\ "broadcastAddr" \notin v.options
        BY <1>9, <1>11, <1>12, <4>2
      <4>6. QED
        BY <1>6, <1>9, <1>10, <2>5, <3>2, <4>2, <4>3, <4>4, <4>5 DEF Reported
    <3>3. QED
      BY <2>1, <3>1, <3>2
  <2>6. ASSUME complaints' = complaints + 1, DefaultResponseSent(v)
        PROVE  complaints' \in {0, 1} /\ Reported'
    <3>1. v.kind # "zclDefault" /\ "broadcastAddr" \notin v.options /\ "broadcastEp" \notin v.options
      BY <2>6 DEF DefaultResponseSent
    <3>2. complaints' = 1
      BY <1>11, <1>12, <2>2, <2>6, <3>1
    <3>3. QED
      BY <1>10, <3>1, <3>2 DEF Reported
  <2>7. ASSUME complaints' = complaints + 1, to.handler = "zdo_handler",
               v.kind # "zdoResponse", "broadcastAddr" \notin v.options
        PROVE  complaints' \in {0, 1} /\ Reported'
    <3>1. r = row /\ EndpointTable[r].handler = "zdo_handler" /\ v.kind = "zdoRequest"
      BY <1>9, <2>3, <2>4, <2>7
    <3>2. complaints = 0
      <4> SUFFICES ASSUME complaints = 1
                   PROVE  FALSE
        BY <2>1
      <4>1. "broadcastEp" \in env.options
        BY <2>2
      <4>2. PICK s \in 1..ep : EndpointTable[s].handler = "zdo_handler" /\ EndpointTable[s].profile = env.profile
        BY <2>1, <4>1 DEF Reported
      <4>3. s \in Rows /\ s < r
        BY <1>3, <2>1, <4>1, Constants
      <4>4. s = row
        BY <2>3, <4>2, <4>3, ZdoAssumption
      <4>5. QED
        BY <3>1, <4>3, <4>4
    <3>3. r \in 1..r
      BY <1>3, Constants
    <3>4. QED
      BY <1>6, <1>9, <1>10, <2>3, <2>7, <3>1, <3>2, <3>3 DEF Reported
  <2>8. QED
    BY <1>6, <2>5, <2>6, <2>7, HandleComplains DEF v
<1>17. Dispatching'
  <2>1. "broadcastEp" \in v.options => v.kind \in Unasked
    BY <1>1, <1>9, <1>11, <1>12 DEF Dispatching
  <2>2. r \in 0..Len(EndpointTable) /\ r # 0
    BY <1>3, Constants
  <2>3. QED
    BY <1>6, <1>9, <1>10, <1>15, <1>16, <2>1, <2>2 DEF Dispatching
<1>18. OwnCluster'
  <2> DEFINE c == ClusterMatch(v.cluster, Inout, EndpointTable[r].clusters)
             flags == IF c = 0 THEN {} ELSE EndpointTable[r].clusters[c].flags
             secret == IF "broadcastAddr" \in v.options THEN {"encrypt"} ELSE {"encrypt", "encryptUnicast"}
             barred == /\ flags \cap secret # {}
                       /\ {"apsEncrypt", "notZcl"} \cap (flags \cup v.options) = {}
  <2>1. flags = FlagsAt(r)
    BY <1>9 DEF FlagsAt
  <2> HIDE DEF flags
  <2>2. barred <=> Barred(r)
    BY <1>9, <1>11, <1>12, <2>1 DEF Barred, ClusterFlags, FrameOptions
  <2>3. v.options \ FrameOptions = IF Barred(r) THEN {} ELSE flags
    BY <1>9, <2>1 DEF ClusterFlags, FrameOptions
  <2>4. v.options \ FrameOptions = IF barred THEN {} ELSE flags
    BY <2>2, <2>3
  <2>5. QED
    BY <1>6, <1>10, <2>4 DEF OwnCluster, flags
<1>19. QED
  BY <1>1, <1>6, <1>13, <1>14, <1>17, <1>18 DEF ConvInv

-----------------------------------------------------------------------------
\* The invariant is inductive.
LEMMA StepOK == ConvInv /\ [Next]_vars => ConvInv'
<1> SUFFICES ASSUME ConvInv, [Next]_vars
             PROVE  ConvInv'
  OBVIOUS
<1>1. CASE UNCHANGED vars
  <2>1. UNCHANGED <<conversations, issued, sent, state, strayed, seconds, phase, env, ep, at, now, complaints, pause>>
    BY <1>1 DEF vars, table, walk
  <2>2. Keeps(World, World)
    BY DEF Keeps, ConvInv
  <2>3. Become(World)
    BY <2>1, WorldFields DEF Become
  <2>4. QED
    BY <2>1, <2>2, <2>3, TableStep DEF walk
<1>2. CASE Ask
  BY <1>2, AskOK
<1>3. CASE TakeTrans
  BY <1>3, TakeTransOK
<1>4. CASE Lose
  BY <1>4, LoseOK
<1>5. CASE ReceiveAnswer
  BY <1>5, ReceiveAnswerOK
<1>6. CASE ReceiveRequest
  BY <1>6, ReceiveRequestOK
<1>7. CASE Dispatch
  BY <1>7, DispatchOK
<1>8. CASE DispatchDone
  BY <1>8, DispatchDoneOK
<1>9. CASE ExpireStart
  BY <1>9, ExpireStartOK
<1>10. CASE ExpireEntry
  BY <1>10, ExpireEntryOK
<1>11. CASE ExpireDone
  BY <1>11, ExpireDoneOK
<1>12. CASE Second
  BY <1>12, SecondOK
<1>13. QED
  BY <1>1, <1>2, <1>3, <1>4, <1>5, <1>6, <1>7, <1>8, <1>9, <1>10, <1>11, <1>12 DEF Next

(* The invariant of the tables, the dispatch and the walk holds of every       *)
(* behaviour.                                                                  *)
THEOREM Invariance == Spec => []ConvInv
<1>1. Init => ConvInv
  BY InitOK
<1>2. ConvInv /\ [Next]_vars => ConvInv'
  BY StepOK
<1>3. QED
  BY <1>1, <1>2, PTL DEF Spec

\* What the invariant says of the properties the run checks.
LEMMA ImpliesTypeOK == ConvInv => TypeOK
<1> SUFFICES ASSUME ConvInv
             PROVE  TypeOK
  OBVIOUS
<1>1. World \in WorldType /\ \A r \in Rows : World.issued[r] <= IssueMax[r]
  BY DEF ConvInv, WorldOK
<1>2. ASSUME NEW x \in Entries
      PROVE  /\ Entry(x).req \in Requests \cup {NoRequest}
             /\ Entry(x).timeout \in 0..(TimeMod - 1)
             /\ Entry(x).id \in 0..(TransMod - 1)
  <2>1. PICK r \in Rows, i \in 1..Slots : x = <<r, i>>
    BY DEF Entries
  <2>2. Entry(x) = World.conv[r][i]
    BY <2>1, WorldFields DEF Entry
  <2>3. QED
    BY <2>2, EntryTyped DEF EntryType, Holders
<1>3. \A r \in Rows : issued[r] \in 0..IssueMax[r]
  <2>1. \A r \in Rows : issued[r] \in Nat /\ issued[r] <= IssueMax[r] /\ IssueMax[r] \in Nat
    BY <1>1, WorldFields, Constants DEF WorldType
  <2>2. QED
    BY <2>1
<1>4. state \in [Requests -> {"idle", "open", "done"}]
  BY <1>1, WorldFields DEF WorldType
<1>5. ep \in 0..Len(EndpointTable)
  BY Constants DEF ConvInv, Dispatching
<1>6. QED
  BY <1>2, <1>3, <1>4, <1>5 DEF ConvInv, TypeOK

LEMMA ImpliesOpenHeld == ConvInv => OpenHeld
<1> SUFFICES ASSUME ConvInv, NEW q \in Requests
             PROVE  Cardinality(Held(q)) = IF state[q] = "open" THEN 1 ELSE 0
  BY DEF OpenHeld
<1>1. /\ OneEach(World) /\ OpenIsHeld(World) /\ q # NoRequest
      /\ World.conv = conversations /\ World.state = state
  BY Constants, WorldFields DEF ConvInv, WorldOK
<1>2. Held(q) = {<<r, i>> : r \in Rows, i \in 1..Slots} \cap {x \in Entries : Entry(x).req = q}
  BY DEF Held, Entries
<1>3. CASE state[q] = "open"
  <2>1. PICK r \in Rows, i \in 1..Slots : World.conv[r][i].req = q
    BY <1>1, <1>3 DEF OpenIsHeld
  <2>2. <<r, i>> \in Held(q)
    BY <1>1, <2>1 DEF Held, Entries, Entry
  <2>3. ASSUME NEW x \in Held(q)
        PROVE  x = <<r, i>>
    <3>1. PICK s \in Rows, j \in 1..Slots : x = <<s, j>>
      BY DEF Held, Entries
    <3>2. World.conv[s][j].req = q
      BY <1>1, <3>1 DEF Held, Entry
    <3>3. s = r /\ j = i
      BY <1>1, <2>1, <3>2 DEF OneEach
    <3>4. QED
      BY <3>1, <3>3
  <2>4. Held(q) = {<<r, i>>}
    BY <2>2, <2>3
  <2>5. QED
    BY <1>3, <2>4, FS_Singleton
<1>4. CASE state[q] # "open"
  <2>1. \A r \in Rows : \A i \in 1..Slots : World.conv[r][i].req # q
    BY <1>1, <1>4 DEF OpenIsHeld
  <2>2. Held(q) = {}
    <3>1. ASSUME NEW x \in Held(q)
          PROVE  FALSE
      <4>1. PICK s \in Rows, j \in 1..Slots : x = <<s, j>>
        BY DEF Held, Entries
      <4>2. QED
        BY <1>1, <2>1, <4>1 DEF Held, Entry
    <3>2. QED
      BY <3>1
  <2>3. QED
    BY <1>4, <2>2, FS_EmptySet
<1>5. QED
  BY <1>3, <1>4

LEMMA ImpliesNoStorm == ConvInv => NoStorm
<1> SUFFICES ASSUME ConvInv
             PROVE  NoStorm
  OBVIOUS
<1>1. CASE phase = "dispatch"
  BY <1>1 DEF ConvInv, Dispatching, Reported, NoStorm
<1>2. CASE phase # "dispatch"
  BY <1>2 DEF ConvInv, NoStorm
<1>3. QED
  BY <1>1, <1>2

LEMMA ImpliesTimely == ConvInv => Timely
<1> SUFFICES ASSUME ConvInv, NEW x \in Entries, Entry(x).limit > 0
             PROVE  Entry(x).age <= Entry(x).limit + PauseMax
  BY DEF Timely
<1>1. PICK r \in Rows, i \in 1..Slots : x = <<r, i>>
  BY DEF Entries
<1> DEFINE e == World.conv[r][i]
<1>2. Entry(x) = e /\ e \in EntryType
  BY <1>1, WorldFields, EntryTyped DEF Entry
<1>3. OnTime(e, 1 - PauseMax)
  <2>1. CASE phase = "expire"
    BY <2>1 DEF ConvInv, InTime
  <2>2. CASE phase # "expire"
    <3>1. pause \in 0..PauseMax /\ OnTime(e, 1 - pause)
      BY <2>2 DEF ConvInv, InTime
    <3>2. 1 - PauseMax \in Int /\ 1 - pause \in Int /\ 1 - PauseMax <= 1 - pause
      BY <3>1, Constants
    <3> HIDE DEF e
    <3>3. QED
      BY <3>1, <3>2, OnTimeWeaker
  <2>3. QED
    BY <2>1, <2>2
<1> HIDE DEF e
<1>4. PICK left \in (1 - PauseMax)..(Half - 1) : Left(e, left)
  BY <1>2, <1>3 DEF OnTime
<1>5. e.limit \in Nat /\ e.age \in Nat
  BY <1>2 DEF EntryType
<1>6. QED
  BY <1>2, <1>4, <1>5, Constants DEF Left

\* Only the expiry of an entry that is over ends a request during the walk.
LEMMA StepNotEarly ==
    ConvInv /\ [Next]_vars =>
      \A q \in Requests : phase = "expire" /\ state[q] = "open" /\ state'[q] = "done" =>
         \E x \in Held(q) : Entry(x).limit > 0 /\ Entry(x).age >= Entry(x).limit
<1> SUFFICES ASSUME ConvInv, [Next]_vars, NEW p \in Requests,
                    phase = "expire", state[p] = "open", state'[p] = "done"
             PROVE  \E x \in Held(p) : Entry(x).limit > 0 /\ Entry(x).age >= Entry(x).limit
  OBVIOUS
<1>1. CASE ExpireEntry
  <2>1. PICK n \in DueEntries : \E r \in Rows, i \in 1..Slots, q \in Requests :
              /\ at' = n /\ \A m \in DueEntries : n <= m
              /\ r = RowAt(n) /\ i = SlotAt(n) /\ q = World.conv[r][i].req /\ Due(World.conv[r][i])
              /\ \E w \in Reactions(World, q, FALSE) : /\ Become(Ended(w, r, i, q))
                                                       /\ Grows(World, w) /\ w.conv[r][i].req = q
    BY <1>1, ExpireEntryIs, Zenon
  <2>2. PICK r \in Rows, i \in 1..Slots, q \in Requests :
              /\ q = World.conv[r][i].req /\ Due(World.conv[r][i])
              /\ \E w \in Reactions(World, q, FALSE) : /\ Become(Ended(w, r, i, q))
                                                       /\ Grows(World, w) /\ w.conv[r][i].req = q
    BY <2>1, Zenon
  <2>3. PICK w \in Reactions(World, q, FALSE) : /\ Become(Ended(w, r, i, q))
                                                /\ Grows(World, w) /\ w.conv[r][i].req = q
    BY <2>2
  <2>4. state' = Ended(w, r, i, q).state
    BY <2>3 DEF Become
  <2>5. w.state[p] = "open"
    BY <2>3, WorldFields DEF Grows
  <2>6. p = q
    BY <2>3, <2>4, <2>5, EndedOK DEF Grows
  <2>7. World.conv[r][i].limit > 0 /\ World.conv[r][i].age >= World.conv[r][i].limit
    <3>1. OnTime(World.conv[r][i], 1 - PauseMax) /\ now = seconds /\ seconds \in 0..(TimeMod - 1)
      BY DEF ConvInv, InTime
    <3>2. QED
      BY <2>2, <3>1, EntryTyped, DueIsOver
  <2>8. <<r, i>> \in Held(p) /\ Entry(<<r, i>>) = World.conv[r][i]
    BY <2>2, <2>6, WorldFields DEF Held, Entries, Entry
  <2>9. QED
    BY <2>7, <2>8
<1>2. CASE UNCHANGED state
  BY <1>2
<1>3. QED
  BY <1>1, <1>2 DEF Next, vars, table, Ask, TakeTrans, Lose, ReceiveAnswer, ReceiveRequest, Arrives,
                    Dispatch, DispatchDone, ExpireStart, ExpireDone, Second

(* The entries of the conversation tables, the counters and the two walks keep *)
(* their types.                                                                *)
THEOREM TablesTyped == Spec => []TypeOK
  BY Invariance, ImpliesTypeOK, PTL

(* wpan_conversation_register, _response and the expiry: an open request holds *)
(* exactly one entry and any other none, whatever its handler starts meanwhile.*)
THEOREM OneEntryEach == Spec => []OpenHeld
  BY Invariance, ImpliesOpenHeld, PTL

(* wpan_conversation_response: no handler is given another request's answer    *)
(* while fewer transaction IDs than there are were taken between the two.      *)
THEOREM AnswersOwn == Spec => []OwnAnswer
<1>1. ConvInv => OwnAnswer
  BY DEF ConvInv, OwnAnswer
<1>2. QED
  BY <1>1, Invariance, PTL

(* _wpan_endpoint_dispatch: a handler sees the flags of its own cluster, and an*)
(* unencrypted frame does not reach the handler of an encrypted cluster.       *)
THEOREM ClusterOwn == Spec => []OwnCluster
<1>1. ConvInv => OwnCluster
  BY DEF ConvInv
<1>2. QED
  BY <1>1, Invariance, PTL

(* zcl_default_response and zdo_handler: one frame draws one error report at   *)
(* most, and a broadcast one from the ZDO endpoint only.                       *)
THEOREM OneReport == Spec => []NoStorm
  BY Invariance, ImpliesNoStorm, PTL

(* _wpan_endpoint_expire_conversations: no deadline is missed, wherever the    *)
(* 16-bit timer wraps, by a program that ticks often enough.                   *)
THEOREM NeverLate == Spec => []Timely
  BY Invariance, ImpliesTimely, PTL

(* _wpan_endpoint_expire_conversations: no deadline is early either.           *)
THEOREM NeverEarly == Spec => NotEarly
<1>1. ConvInv /\ [Next]_vars =>
         [\A q \in Requests :
            phase = "expire" /\ state[q] = "open" /\ state'[q] = "done" =>
               \E x \in Held(q) : Entry(x).limit > 0 /\ Entry(x).age >= Entry(x).limit]_vars
  BY StepNotEarly
<1>2. QED
  BY <1>1, Invariance, PTL DEF Spec, NotEarly
=============================================================================
