-------------------------- MODULE FrameDecode_proof --------------------------
(* The recursive functions of FrameFormat and FrameDecode: the checksum, the  *)
(* decoder's sum and its walk through the bytes.  Each of them satisfies its  *)
(* equation; and what the decoder finds from a position on depends on what    *)
(* stands there in the way a receiver would read it.                          *)
EXTENDS FrameDecode, SequenceTheorems, WellFoundedInduction, TLAPS

LEMMA Least == ASSUME NEW T, T \subseteq Nat, T # {} PROVE \E x \in T : \A y \in T : x <= y
<1> DEFINE Less == {pair \in Nat \X Nat : pair[1] < pair[2]}
<1>1. IsWellFoundedOn(Less, Nat)
  BY NatLessThanWellFounded DEF OpToRel
<1>2. \E x \in T : \A y \in T : ~(<<y, x>> \in Less)
  <2> HIDE DEF Less
  <2> QED BY <1>1, WFMin
<1>3. \A x, y \in T : <<y, x>> \in Less <=> y < x
  OBVIOUS
<1> HIDE DEF Less
<1>4. \A x, y \in T : ~(y < x) <=> x <= y
  OBVIOUS
<1>5. QED
  BY <1>2, <1>3, <1>4

LEMMA Stepwise == ASSUME NEW T, 0 \in T, \A n \in Nat : n \in T => n + 1 \in T
                  PROVE  \A n \in Nat : n \in T
<1> SUFFICES ASSUME NEW m \in Nat, m \notin T PROVE FALSE
  OBVIOUS
<1>1. PICK U : U = {n \in Nat : n \notin T}
  OBVIOUS
<1>2. PICK x \in U : \A y \in U : x <= y
  <2>1. U \subseteq Nat /\ U # {}
    BY <1>1
  <2>2. QED
    BY <2>1, Least
<1>3. x # 0 /\ x \in Nat /\ x \notin T
  BY <1>1, <1>2
<1>4. x - 1 \in Nat /\ x - 1 \notin U
  BY <1>1, <1>2, <1>3
<1>5. x - 1 \in T /\ x - 1 + 1 = x
  BY <1>1, <1>3, <1>4
<1>6. QED
  BY <1>3, <1>4, <1>5

(* A function whose value at n depends on the one at n - 1.                   *)
Steps(V, N, F) == F \in [V \X (1 .. N) -> V]

Solution(V, N, c, F) == \E g \in [0 .. N -> V] : g[0] = c /\ \A n \in 1 .. N : g[n] = F[<<g[n - 1], n>>]

LEMMA Recursion == ASSUME NEW V, NEW N \in Nat, NEW c \in V, NEW F, Steps(V, N, F)
                   PROVE  Solution(V, N, c, F)
<1>1. PICK T : T = {m \in Nat : m <= N => Solution(V, m, c, F)}
  OBVIOUS
<1>2. 0 \in T
  <2>1. PICK g : g = [n \in 0 .. 0 |-> c]
    OBVIOUS
  <2>2. g \in [0 .. 0 -> V] /\ g[0] = c /\ \A n \in 1 .. 0 : g[n] = F[<<g[n - 1], n>>]
    BY <2>1
  <2>3. QED
    BY <1>1, <2>2 DEF Solution
<1>3. ASSUME NEW m \in Nat, m \in T PROVE m + 1 \in T
  <2> SUFFICES ASSUME m + 1 <= N
               PROVE  \E g \in [0 .. m + 1 -> V] :
                        g[0] = c /\ \A n \in 1 .. m + 1 : g[n] = F[<<g[n - 1], n>>]
    BY <1>1 DEF Solution
  <2>1. PICK g \in [0 .. m -> V] : g[0] = c /\ \A n \in 1 .. m : g[n] = F[<<g[n - 1], n>>]
    BY <1>1, <1>3 DEF Solution
  <2>2. PICK v \in V : v = F[<<g[m], m + 1>>]
    <3>1. <<g[m], m + 1>> \in V \X (1 .. N)
      BY <2>1
    <3>2. F[<<g[m], m + 1>>] \in V
      BY <3>1 DEF Steps
    <3>3. QED
      BY <3>2
  <2>3. PICK h : h = [n \in 0 .. m + 1 |-> IF n = m + 1 THEN v ELSE g[n]]
    OBVIOUS
  <2>4. h \in [0 .. m + 1 -> V] /\ h[m + 1] = v /\ \A n \in 0 .. m : h[n] = g[n]
    BY <2>1, <2>2, <2>3
  <2>5. ASSUME NEW n \in 1 .. m + 1 PROVE h[n] = F[<<h[n - 1], n>>]
    <3>1. CASE n \in 1 .. m
      <4>1. n \in 0 .. m /\ n - 1 \in 0 .. m
        BY <3>1
      <4>2. h[n] = g[n] /\ h[n - 1] = g[n - 1]
        BY <2>4, <4>1
      <4>3. QED
        BY <2>1, <3>1, <4>2
    <3>2. CASE n = m + 1
      <4>1. n - 1 = m /\ h[m] = g[m]
        BY <2>4, <3>2
      <4>2. QED
        BY <2>2, <2>4, <3>2, <4>1
    <3>3. QED
      BY <3>1, <3>2
  <2>6. h[0] = c
    BY <2>1, <2>4
  <2>7. QED
    BY <2>4, <2>5, <2>6
<1>4. N \in T
  BY <1>2, <1>3, Stepwise
<1>5. QED
  BY <1>1, <1>4

LEMMA RecursionType == ASSUME NEW V, NEW N \in Nat, NEW g, g[0] \in V,
                              \A n \in 1 .. N : g[n - 1] \in V => g[n] \in V
                       PROVE  \A n \in 0 .. N : g[n] \in V
<1>1. PICK T : T = {n \in Nat : n <= N => g[n] \in V}
  OBVIOUS
<1>2. 0 \in T
  BY <1>1
<1>3. ASSUME NEW n \in Nat, n \in T PROVE n + 1 \in T
  <2> SUFFICES ASSUME n + 1 <= N PROVE g[n + 1] \in V
    BY <1>1
  <2>1. n + 1 \in 1 .. N /\ n + 1 - 1 = n /\ g[n] \in V
    BY <1>1, <1>3
  <2>2. QED
    BY <2>1
<1>4. \A n \in Nat : n \in T
  BY <1>2, <1>3, Stepwise
<1>5. QED
  BY <1>1, <1>4

Lockstep(N, g, h) == g[0] = h[0] /\ \A n \in 1 .. N : g[n - 1] = h[n - 1] => g[n] = h[n]

LEMMA SameRecursion == ASSUME NEW N \in Nat, NEW g, NEW h, Lockstep(N, g, h)
                       PROVE  \A n \in 0 .. N : g[n] = h[n]
<1> USE DEF Lockstep
<1>1. PICK T : T = {n \in Nat : n <= N => g[n] = h[n]}
  OBVIOUS
<1>2. 0 \in T
  BY <1>1
<1>3. ASSUME NEW n \in Nat, n \in T PROVE n + 1 \in T
  <2> SUFFICES ASSUME n + 1 <= N PROVE g[n + 1] = h[n + 1]
    BY <1>1
  <2>1. n + 1 \in 1 .. N /\ n + 1 - 1 = n /\ g[n] = h[n]
    BY <1>1, <1>3
  <2>2. QED
    BY <2>1
<1>4. \A n \in Nat : n \in T
  BY <1>2, <1>3, Stepwise
<1>5. QED
  BY <1>1, <1>4

LEMMA ChecksumIs ==
  ASSUME NEW bytes \in Seq(Byte), NEW initial \in Int
  PROVE  \E g \in [0 .. Len(bytes) -> Int] :
           /\ g[0] = initial
           /\ \A n \in 1 .. Len(bytes) : g[n] = (g[n - 1] - bytes[n]) % ByteMod
           /\ Checksum(bytes, initial) = g[Len(bytes)]
<1>1. PICK N \in Nat : N = Len(bytes)
  BY LenProperties
<1>2. ByteMod \in Nat /\ ByteMod > 0 /\ \A n \in 1 .. N : bytes[n] \in Int
  BY <1>1, ElementOfSeq, ByteAssumption DEF Byte
<1>3. PICK F : F = [x \in Int \X (1 .. N) |-> (x[1] - bytes[x[2]]) % ByteMod]
  OBVIOUS
<1>4. F \in [Int \X (1 .. N) -> Int]
  BY <1>2, <1>3
<1>5. PICK g \in [0 .. N -> Int] : g[0] = initial /\ \A n \in 1 .. N : g[n] = F[<<g[n - 1], n>>]
  <2>1. Steps(Int, N, F)
    BY <1>4 DEF Steps
  <2>2. Solution(Int, N, initial, F)
    BY <2>1, Recursion
  <2>3. QED
    BY <2>2 DEF Solution
<1>6. \A n \in 1 .. N : F[<<g[n - 1], n>>] = (g[n - 1] - bytes[n]) % ByteMod
  <2>1. \A n \in 1 .. N : n - 1 \in 0 .. N
    OBVIOUS
  <2>2. \A n \in 1 .. N : <<g[n - 1], n>> \in Int \X (1 .. N)
    BY <1>5, <2>1
  <2>3. QED
    BY <1>3, <2>2
<1>7. g = [n \in 0 .. N |-> IF n = 0 THEN initial ELSE (g[n - 1] - bytes[n]) % ByteMod]
  <2>1. \A n \in 0 .. N : g[n] = IF n = 0 THEN initial ELSE (g[n - 1] - bytes[n]) % ByteMod
    <3>1. \A n \in 0 .. N : n # 0 => n \in 1 .. N
      OBVIOUS
    <3>2. QED
      BY <1>5, <1>6, <3>1
  <2>2. g = [n \in 0 .. N |-> g[n]]
    BY <1>5
  <2>3. QED
    BY <2>1, <2>2
<1>8. PICK h : /\ h = [n \in 0 .. N |-> IF n = 0 THEN initial ELSE (h[n - 1] - bytes[n]) % ByteMod]
               /\ Checksum(bytes, initial) = h[N]
  <2>1. PICK h : h = CHOOSE x : x = [n \in 0 .. N |-> IF n = 0 THEN initial ELSE (x[n - 1] - bytes[n]) % ByteMod]
    OBVIOUS
  <2>2. Checksum(bytes, initial) = h[N]
    BY <1>1, <2>1 DEF Checksum
  <2>3. QED
    BY <1>7, <2>1, <2>2
<1>9. h[0] = initial
  BY <1>8
<1>10. ASSUME NEW n \in 1 .. N PROVE h[n] = (h[n - 1] - bytes[n]) % ByteMod
  <2>1. n \in 0 .. N /\ n # 0
    OBVIOUS
  <2>2. QED
    BY <1>8, <2>1
<1>11. h \in [0 .. N -> Int]
  <2>1. ASSUME NEW n \in 1 .. N, h[n - 1] \in Int PROVE h[n] \in Int
    <3>1. h[n] = (h[n - 1] - bytes[n]) % ByteMod /\ bytes[n] \in Int
      BY <1>2, <1>10
    <3>2. QED
      BY <1>2, <2>1, <3>1
  <2>2. \A n \in 0 .. N : h[n] \in Int
    BY <1>9, <2>1, RecursionType
  <2>3. QED
    BY <1>8, <2>2
<1>12. QED
  BY <1>1, <1>8, <1>9, <1>10, <1>11

LEMMA ChecksumByte == ASSUME NEW bytes \in Seq(Byte), NEW initial \in Byte
                      PROVE  Checksum(bytes, initial) \in Byte
<1>1. ByteMod \in Nat /\ ByteMod > 0 /\ Byte \subseteq Int
  BY ByteAssumption DEF Byte
<1>2. PICK N \in Nat : N = Len(bytes)
  BY LenProperties
<1>3. initial \in Int
  BY <1>1
<1>4. PICK g \in [0 .. N -> Int] : /\ g[0] = initial
                                   /\ \A n \in 1 .. N : g[n] = (g[n - 1] - bytes[n]) % ByteMod
                                   /\ Checksum(bytes, initial) = g[N]
  BY <1>2, <1>3, ChecksumIs
<1>5. CASE N = 0
  BY <1>4, <1>5
<1>6. CASE N \in 1 .. N
  <2>1. N - 1 \in 0 .. N /\ bytes[N] \in Int
    BY <1>1, <1>2, <1>6, ElementOfSeq
  <2>2. PICK x \in Int : x = g[N - 1] - bytes[N]
    BY <1>4, <2>1
  <2>3. g[N] = x % ByteMod
    BY <1>4, <1>6, <2>2
  <2>4. QED
    BY <1>1, <1>4, <2>3 DEF Byte
<1>7. QED
  BY <1>2, <1>5, <1>6

(* Equal up to a multiple of ByteMod.                                         *)
Same(x, y) == \E q \in Int : x = y + q * ByteMod

LEMMA SameMod ==
  /\ \A x \in Int : Same(x % ByteMod, x) /\ Same(x, x)
  /\ \A x, y, z \in Int : Same(x, y) /\ Same(y, z) => Same(x, z)
  /\ \A x, y, z \in Int : Same(x, y) => Same(x + z, y + z)
  /\ \A x \in Int, b \in Byte : Same(x, b) => x % ByteMod = b
<1>1. ByteMod \in Nat /\ ByteMod > 0
  BY ByteAssumption
<1>2. ASSUME NEW x \in Int PROVE Same(x % ByteMod, x) /\ Same(x, x)
  <2>1. x = ByteMod * (x \div ByteMod) + (x % ByteMod) /\ x \div ByteMod \in Int /\ x % ByteMod \in Int
    BY <1>1
  <2>2. PICK q \in Int, m \in Int : q = x \div ByteMod /\ m = x % ByteMod /\ x = ByteMod * q + m
    BY <2>1
  <2>3. m = x + (0 - q) * ByteMod /\ x = x + 0 * ByteMod
    BY <1>1, <2>2
  <2>4. 0 - q \in Int /\ 0 \in Int
    OBVIOUS
  <2>5. QED
    BY <2>2, <2>3, <2>4 DEF Same
<1>3. ASSUME NEW x \in Int, NEW y \in Int, NEW z \in Int, Same(x, y), Same(y, z) PROVE Same(x, z)
  <2>1. PICK p \in Int, q \in Int : x = y + p * ByteMod /\ y = z + q * ByteMod
    BY <1>3 DEF Same
  <2>2. x = z + (p + q) * ByteMod /\ p + q \in Int
    BY <1>1, <2>1
  <2>3. QED
    BY <2>2 DEF Same
<1>4. ASSUME NEW x \in Int, NEW y \in Int, NEW z \in Int, Same(x, y) PROVE Same(x + z, y + z)
  <2>1. PICK p \in Int : x = y + p * ByteMod
    BY <1>4 DEF Same
  <2>2. x + z = y + z + p * ByteMod
    BY <1>1, <2>1
  <2>3. QED
    BY <2>2 DEF Same
<1>5. ASSUME NEW x \in Int, NEW b \in Byte, Same(x, b) PROVE x % ByteMod = b
  <2>1. PICK q \in Int : x = b + q * ByteMod
    BY <1>5 DEF Same
  <2>2. b \in Int /\ 0 <= b /\ b < ByteMod
    BY <1>1 DEF Byte
  <2>3. \A m \in Nat \ {0}, p \in Int, k \in Nat : k < m => (k + p * m) % m = k
    BY SMT
  <2>4. QED
    BY <1>1, <2>1, <2>2, <2>3
<1>6. QED
  BY <1>2, <1>3, <1>4, <1>5

LEMMA Concatenated == ASSUME NEW S, NEW s \in Seq(S), NEW t \in Seq(S), NEW u, u = s \o t
  PROVE  /\ u \in Seq(S) /\ Len(u) = Len(s) + Len(t) /\ Len(s) \in Nat /\ Len(t) \in Nat
         /\ \A n \in 1 .. Len(s) : n \in 1 .. Len(u) /\ u[n] = s[n]
         /\ \A n \in 1 .. Len(t) : Len(s) + n \in 1 .. Len(u) /\ u[Len(s) + n] = t[n]
<1>1. /\ u \in Seq(S) /\ Len(u) = Len(s) + Len(t)
      /\ \A n \in 1 .. Len(s) + Len(t) : u[n] = IF n <= Len(s) THEN s[n] ELSE t[n - Len(s)]
  BY ConcatProperties
<1>2. Len(s) \in Nat /\ Len(t) \in Nat
  BY LenProperties
<1>3. ASSUME NEW n \in 1 .. Len(t) PROVE Len(s) + n \in 1 .. Len(u) /\ u[Len(s) + n] = t[n]
  <2>1. Len(s) + n \in 1 .. Len(s) + Len(t) /\ ~(Len(s) + n <= Len(s)) /\ Len(s) + n - Len(s) = n
    BY <1>2
  <2>2. QED
    BY <1>1, <2>1
<1>4. QED
  BY <1>1, <1>2, <1>3

LEMMA Single == ASSUME NEW S, NEW d \in S
                PROVE  <<d>> \in Seq(S) /\ Len(<<d>>) = 1 /\ <<d>>[1] = d
  OBVIOUS

LEMMA TotalIs ==
  ASSUME NEW payload \in Seq(Byte), NEW check \in Int
  PROVE  \E t \in [0 .. Len(payload) -> Int] :
           /\ t[0] = check
           /\ \A n \in 1 .. Len(payload) : t[n] = t[n - 1] + payload[n]
           /\ Intact(payload, check) <=> t[Len(payload)] % ByteMod = AllOnes
<1>1. PICK N \in Nat : N = Len(payload)
  BY LenProperties
<1>2. \A n \in 1 .. N : payload[n] \in Int
  BY <1>1, ElementOfSeq, ByteAssumption DEF Byte
<1>3. PICK F : F = [x \in Int \X (1 .. N) |-> x[1] + payload[x[2]]]
  OBVIOUS
<1>4. F \in [Int \X (1 .. N) -> Int]
  BY <1>2, <1>3
<1>5. PICK g \in [0 .. N -> Int] : g[0] = check /\ \A n \in 1 .. N : g[n] = F[<<g[n - 1], n>>]
  <2>1. Steps(Int, N, F)
    BY <1>4 DEF Steps
  <2>2. Solution(Int, N, check, F)
    BY <2>1, Recursion
  <2>3. QED
    BY <2>2 DEF Solution
<1>6. \A n \in 1 .. N : F[<<g[n - 1], n>>] = g[n - 1] + payload[n]
  <2>1. \A n \in 1 .. N : n - 1 \in 0 .. N
    OBVIOUS
  <2>2. \A n \in 1 .. N : <<g[n - 1], n>> \in Int \X (1 .. N)
    BY <1>5, <2>1
  <2>3. QED
    BY <1>3, <2>2
<1>7. g = [n \in 0 .. N |-> IF n = 0 THEN check ELSE g[n - 1] + payload[n]]
  <2>1. \A n \in 0 .. N : g[n] = IF n = 0 THEN check ELSE g[n - 1] + payload[n]
    <3>1. \A n \in 0 .. N : n # 0 => n \in 1 .. N
      OBVIOUS
    <3>2. QED
      BY <1>5, <1>6, <3>1
  <2>2. g = [n \in 0 .. N |-> g[n]]
    BY <1>5
  <2>3. QED
    BY <2>1, <2>2
<1>8. PICK h : /\ h = [n \in 0 .. N |-> IF n = 0 THEN check ELSE h[n - 1] + payload[n]]
               /\ Intact(payload, check) <=> h[N] % ByteMod = AllOnes
  <2>1. PICK h : h = CHOOSE x : x = [n \in 0 .. N |-> IF n = 0 THEN check ELSE x[n - 1] + payload[n]]
    OBVIOUS
  <2>2. Intact(payload, check) <=> h[N] % ByteMod = AllOnes
    BY <1>1, <2>1 DEF Intact, AllOnes, AllOnes
  <2>3. QED
    BY <1>7, <2>1, <2>2
<1>9. h[0] = check
  BY <1>8
<1>10. ASSUME NEW n \in 1 .. N PROVE h[n] = h[n - 1] + payload[n]
  <2>1. n \in 0 .. N /\ n # 0
    OBVIOUS
  <2>2. QED
    BY <1>8, <2>1
<1>11. h \in [0 .. N -> Int]
  <2>1. ASSUME NEW n \in 1 .. N, h[n - 1] \in Int PROVE h[n] \in Int
    <3>1. h[n] = h[n - 1] + payload[n] /\ payload[n] \in Int
      BY <1>2, <1>10
    <3>2. QED
      BY <1>2, <2>1, <3>1
  <2>2. \A n \in 0 .. N : h[n] \in Int
    BY <1>9, <2>1, RecursionType
  <2>3. QED
    BY <1>8, <2>2
<1>12. QED
  BY <1>1, <1>8, <1>9, <1>10, <1>11

(* A checksum takes away what the total t adds from m on.                     *)
LEMMA Undone ==
  ASSUME NEW bytes \in Seq(Byte), NEW initial \in Int, NEW m \in Nat, NEW t,
         \A n \in 0 .. Len(bytes) : t[m + n] \in Int,
         \A n \in 1 .. Len(bytes) : t[m + n] = t[m + (n - 1)] + bytes[n]
  PROVE  Same(Checksum(bytes, initial) + (t[m + Len(bytes)] - t[m]), initial)
<1>1. PICK N \in Nat : N = Len(bytes)
  BY LenProperties
<1>2. PICK g \in [0 .. N -> Int] : /\ g[0] = initial
                                   /\ \A n \in 1 .. N : g[n] = (g[n - 1] - bytes[n]) % ByteMod
                                   /\ Checksum(bytes, initial) = g[N]
  BY <1>1, ChecksumIs
<1>3. PICK T : T = {n \in Nat : n <= N => Same(g[n] + (t[m + n] - t[m]), initial)}
  OBVIOUS
<1>4. t[m] \in Int /\ m + 0 = m
  <2>1. m + 0 = m /\ 0 \in 0 .. N
    OBVIOUS
  <2>2. QED
    BY <1>1, <2>1
<1>5. 0 \in T
  <2>1. g[0] + (t[m + 0] - t[m]) = initial
    BY <1>2, <1>4
  <2>2. Same(initial, initial)
    BY SameMod
  <2>3. QED
    BY <1>3, <2>1, <2>2
<1>6. ASSUME NEW n \in Nat, n \in T PROVE n + 1 \in T
  <2> SUFFICES ASSUME n + 1 <= N PROVE Same(g[n + 1] + (t[m + (n + 1)] - t[m]), initial)
    BY <1>3
  <2>1. n \in 0 .. N /\ n + 1 \in 1 .. N /\ n + 1 \in 0 .. N /\ n + 1 - 1 = n
    OBVIOUS
  <2>2. PICK b \in Int : b = bytes[n + 1]
    <3>1. bytes[n + 1] \in Byte
      BY <1>1, <2>1, ElementOfSeq
    <3>2. QED
      BY <3>1, ByteAssumption DEF Byte
  <2>3. PICK x \in Int, y \in Int, u \in Int, v \in Int, w \in Int :
          x = g[n] /\ y = g[n + 1] /\ u = t[m] /\ v = t[m + n] /\ w = t[m + (n + 1)]
    BY <1>1, <1>2, <1>4, <2>1
  <2>4. y = (x - b) % ByteMod /\ w = v + b
    <3>1. g[n + 1] = (g[n] - bytes[n + 1]) % ByteMod
      BY <1>2, <2>1
    <3>2. t[m + (n + 1)] = t[m + n] + bytes[n + 1]
      BY <1>1, <2>1
    <3>3. QED
      BY <2>2, <2>3, <3>1, <3>2
  <2>5. Same(x + (v - u), initial)
    BY <1>3, <1>6, <2>1, <2>3
  <2>6. Same(y, x - b)
    BY <2>4, SameMod
  <2>7. Same(y + (w - u), x - b + (w - u))
    <3>1. w - u \in Int /\ x - b \in Int
      OBVIOUS
    <3>2. QED
      BY <2>6, <3>1, SameMod
  <2>8. x - b + (w - u) = x + (v - u)
    BY <2>4
  <2>9. Same(y + (w - u), initial)
    <3>1. PICK p \in Int, q \in Int : p = y + (w - u) /\ q = x + (v - u)
      OBVIOUS
    <3>2. Same(p, q) /\ Same(q, initial)
      BY <2>5, <2>7, <2>8, <3>1
    <3>3. Same(p, initial)
      BY <3>2, SameMod
    <3>4. QED
      BY <3>1, <3>3
  <2>10. QED
    BY <2>3, <2>9
<1>7. N \in T
  BY <1>5, <1>6, Stepwise
<1>8. QED
  BY <1>1, <1>2, <1>3, <1>7

Hop(f, i, E, K, O, X) == IF i \in E THEN <<>>
                         ELSE IF i \in K THEN <<O[i]>> \o f[X[i]] ELSE f[X[i]]

LEMMA HopSame == ASSUME NEW f, NEW g, NEW i, NEW E, NEW K, NEW O, NEW X, i \notin E => f[X[i]] = g[X[i]]
                 PROVE  Hop(f, i, E, K, O, X) = Hop(g, i, E, K, O, X)
  BY DEF Hop

Ahead(N, E, X) == \A i \in 1 .. N : i \notin E => X[i] \in i + 1 .. N

Walks(N, E, K, O, X) == \E f : /\ DOMAIN f = 1 .. N /\ f = [i \in DOMAIN f |-> f[i]]
                               /\ \A i \in 1 .. N : f[i] = Hop(f, i, E, K, O, X)

(* A walk that only looks ahead is a function of where it starts.             *)
LEMMA WalkExists ==
  ASSUME NEW N \in Nat, NEW E, NEW K, NEW O, NEW X, Ahead(N, E, X)
  PROVE  Walks(N, E, K, O, X)
<1> USE DEF Ahead
<1>1. PICK T : T = {m \in Nat : m <= N => \E f : \A i \in N - m + 1 .. N : f[i] = Hop(f, i, E, K, O, X)}
  OBVIOUS
<1>2. 0 \in T
  <2>1. \A i \in N - 0 + 1 .. N : FALSE
    OBVIOUS
  <2>2. \A f : \A i \in N - 0 + 1 .. N : f[i] = Hop(f, i, E, K, O, X)
    BY <2>1
  <2>3. QED
    BY <1>1, <2>2
<1>3. ASSUME NEW m \in Nat, m \in T PROVE m + 1 \in T
  <2> SUFFICES ASSUME m + 1 <= N
               PROVE  \E f : \A i \in N - (m + 1) + 1 .. N : f[i] = Hop(f, i, E, K, O, X)
    BY <1>1
  <2>1. PICK j \in 1 .. N : j = N - m
    OBVIOUS
  <2>2. PICK f : \A i \in j + 1 .. N : f[i] = Hop(f, i, E, K, O, X)
    BY <1>1, <1>3, <2>1
  <2>3. PICK g : g = [i \in j .. N |-> IF i = j THEN Hop(f, j, E, K, O, X) ELSE f[i]]
    OBVIOUS
  <2>4. g[j] = Hop(f, j, E, K, O, X) /\ \A i \in j + 1 .. N : g[i] = f[i]
    BY <2>3
  <2>5. ASSUME NEW i \in j .. N PROVE g[i] = Hop(g, i, E, K, O, X)
    <3>1. i \notin E => X[i] \in j + 1 .. N
      OBVIOUS
    <3>2. i \notin E => g[X[i]] = f[X[i]]
      BY <2>4, <3>1
    <3>3. Hop(g, i, E, K, O, X) = Hop(f, i, E, K, O, X)
      BY <3>2, HopSame
    <3>4. i = j \/ i \in j + 1 .. N
      OBVIOUS
    <3>5. QED
      BY <2>2, <2>4, <3>3, <3>4
  <2>6. N - (m + 1) + 1 = j
    BY <2>1
  <2>7. QED
    BY <2>5, <2>6
<1>4. N \in T
  BY <1>2, <1>3, Stepwise
<1>5. PICK f : \A i \in 1 .. N : f[i] = Hop(f, i, E, K, O, X)
  <2>1. N - N + 1 = 1
    OBVIOUS
  <2>2. QED
    BY <1>1, <1>4, <2>1
<1>6. PICK g : g = [i \in 1 .. N |-> f[i]]
  OBVIOUS
<1>7. ASSUME NEW i \in 1 .. N PROVE f[i] = Hop(g, i, E, K, O, X)
  <2>1. i \notin E => X[i] \in 1 .. N
    OBVIOUS
  <2>2. i \notin E => g[X[i]] = f[X[i]]
    BY <1>6, <2>1
  <2>3. Hop(g, i, E, K, O, X) = Hop(f, i, E, K, O, X)
    BY <2>2, HopSame
  <2>4. QED
    BY <1>5, <2>3
<1>8. /\ DOMAIN g = 1 .. N /\ g = [i \in DOMAIN g |-> g[i]]
      /\ \A i \in 1 .. N : g[i] = Hop(g, i, E, K, O, X)
  BY <1>6, <1>7
<1>9. QED
  BY <1>8 DEF Walks

LEMMA MinIsLeast == ASSUME NEW S, S \subseteq Nat, S # {}
                    PROVE  Min(S) \in S /\ \A m \in S : Min(S) <= m
<1>1. \E x \in S : \A y \in S : x <= y
  BY Least
<1>2. QED
  BY <1>1 DEF Min

LEMMA FirstIs ==
  ASSUME NEW s \in Seq(Byte), NEW i \in 1 .. Len(s) + 1
  PROVE  /\ FirstStart(s, i) \in i .. Len(s) + 1
         /\ FirstStart(s, i) <= Len(s) => s[FirstStart(s, i)] = StartByte
         /\ \A j \in i .. Len(s) : s[j] = StartByte => FirstStart(s, i) <= j
         /\ FirstOther(s, i) \in i .. Len(s) + 1
         /\ FirstOther(s, i) <= Len(s) => s[FirstOther(s, i)] # StartByte
         /\ \A j \in i .. Len(s) : s[j] # StartByte => FirstOther(s, i) <= j
<1>1. PICK N \in Nat : N = Len(s)
  BY LenProperties
<1>2. PICK A : A = {j \in i .. N : s[j] = StartByte} \union {N + 1}
  OBVIOUS
<1>3. PICK B : B = {j \in i .. N : s[j] # StartByte} \union {N + 1}
  OBVIOUS
<1>4. A \subseteq i .. N + 1 /\ A # {} /\ B \subseteq i .. N + 1 /\ B # {}
  BY <1>1, <1>2, <1>3
<1>5. A \subseteq Nat /\ B \subseteq Nat
  BY <1>1, <1>4
<1>6. PICK a \in A, b \in B : a = Min(A) /\ b = Min(B)
  BY <1>4, <1>5, MinIsLeast
<1>7. (\A m \in A : a <= m) /\ (\A m \in B : b <= m)
  BY <1>4, <1>5, <1>6, MinIsLeast
<1>8. a = FirstStart(s, i) /\ b = FirstOther(s, i)
  BY <1>1, <1>2, <1>3, <1>6 DEF FirstStart, FirstOther
<1>9. a \in i .. N + 1 /\ b \in i .. N + 1 /\ i \in Nat
  BY <1>1, <1>4
<1>10. (a <= N => s[a] = StartByte) /\ (b <= N => s[b] # StartByte)
  <2>1. N + 1 > N
    BY <1>1
  <2>2. a = N + 1 \/ s[a] = StartByte
    BY <1>2, <1>6
  <2>3. b = N + 1 \/ s[b] # StartByte
    BY <1>3, <1>6
  <2>4. QED
    BY <2>1, <2>2, <2>3
<1>11. \A j \in i .. N : (s[j] = StartByte => a <= j) /\ (s[j] # StartByte => b <= j)
  BY <1>2, <1>3, <1>7
<1>12. QED
  BY <1>1, <1>8, <1>9, <1>10, <1>11

-----------------------------------------------------------------------------
(* What the decoder finds from a position on.                                *)

Low(s, i)   == FirstOther(s, FirstStart(s, i)) + 1
Told(s, i)  == s[FirstOther(s, FirstStart(s, i))] * ByteMod + s[Low(s, i)]
Check(s, i) == Low(s, i) + Told(s, i) + 1
Found(s, i) == SubSeq(s, Low(s, i) + 1, Low(s, i) + Told(s, i))

Body(f, s, i) == IF Low(s, i) > Len(s) THEN <<>>
                 ELSE IF Told(s, i) \notin 2 .. MaxFrameLen
                      THEN f[IF s[Low(s, i)] = StartByte THEN Low(s, i) ELSE Low(s, i) + 1]
                 ELSE IF Check(s, i) > Len(s) THEN <<>>
                 ELSE IF Intact(Found(s, i), s[Check(s, i)])
                      THEN <<Found(s, i)>> \o f[Check(s, i) + 1]
                      ELSE f[Check(s, i) + 1]

LEMMA LowType == ASSUME NEW s \in Seq(Byte), NEW i \in 1 .. Len(s) + 1
                 PROVE  Low(s, i) \in i + 1 .. Len(s) + 2
<1>1. PICK N \in Nat : N = Len(s)
  BY LenProperties
<1>2. PICK a \in i .. N + 1 : a = FirstStart(s, i)
  BY <1>1, FirstIs
<1>3. a \in 1 .. Len(s) + 1
  BY <1>1
<1>4. PICK b \in a .. N + 1 : b = FirstOther(s, a)
  BY <1>1, <1>3, FirstIs
<1>5. Low(s, i) = b + 1
  BY <1>2, <1>4 DEF Low
<1>6. QED
  BY <1>1, <1>5

LEMMA FramesFromIs ==
  ASSUME NEW s \in Seq(Byte)
  PROVE  FramesFrom(s) = [i \in 1 .. Len(s) + 1 |-> Body(FramesFrom(s), s, i)]
<1>1. PICK N \in Nat : N = Len(s) + 1
  BY LenProperties
<1>2. PICK E : E = {i \in 1 .. N : \/ Low(s, i) > Len(s)
                                   \/ Told(s, i) \in 2 .. MaxFrameLen /\ Check(s, i) > Len(s)}
  OBVIOUS
<1>3. PICK K : K = {i \in 1 .. N : Told(s, i) \in 2 .. MaxFrameLen /\ Intact(Found(s, i), s[Check(s, i)])}
  OBVIOUS
<1>4. PICK O : O = [i \in 1 .. N |-> Found(s, i)]
  OBVIOUS
<1>5. PICK X : X = [i \in 1 .. N |->
                      IF Told(s, i) \in 2 .. MaxFrameLen THEN Check(s, i) + 1
                      ELSE IF s[Low(s, i)] = StartByte THEN Low(s, i) ELSE Low(s, i) + 1]
  OBVIOUS
<1>6. ASSUME NEW i \in 1 .. N, i \notin E PROVE X[i] \in i + 1 .. N
  <2>1. PICK l \in i + 1 .. N + 1 : l = Low(s, i)
    <3>1. i \in 1 .. Len(s) + 1 /\ Len(s) + 2 = N + 1
      BY <1>1, LenProperties
    <3>2. QED
      BY <3>1, LowType
  <2>2. l <= N - 1 /\ N - 1 = Len(s)
    BY <1>1, <1>2, <1>6, <2>1, LenProperties
  <2>3. CASE Told(s, i) \in 2 .. MaxFrameLen
    <3>1. PICK n \in Nat : n = Told(s, i) /\ n >= 2
      BY <2>3, ByteAssumption
    <3>2. Check(s, i) = l + n + 1
      BY <2>1, <3>1 DEF Check
    <3>3. ~(l + n + 1 > N - 1)
      BY <1>2, <1>6, <2>2, <2>3, <3>2
    <3>4. X[i] = l + n + 1 + 1
      BY <1>5, <2>3, <3>2
    <3>5. QED
      BY <2>2, <3>1, <3>3, <3>4
  <2>4. CASE Told(s, i) \notin 2 .. MaxFrameLen
    <3>1. X[i] = l \/ X[i] = l + 1
      BY <1>5, <2>1, <2>4
    <3>2. QED
      BY <2>2, <3>1
  <2>5. QED
    BY <2>3, <2>4
<1>7. PICK f : /\ DOMAIN f = 1 .. N /\ f = [i \in DOMAIN f |-> f[i]]
               /\ \A i \in 1 .. N : f[i] = Hop(f, i, E, K, O, X)
  <2>1. Ahead(N, E, X)
    BY <1>6 DEF Ahead
  <2>2. Walks(N, E, K, O, X)
    BY <2>1, WalkExists
  <2>3. QED
    BY <2>2 DEF Walks
<1>8. ASSUME NEW i \in 1 .. N PROVE Hop(f, i, E, K, O, X) = Body(f, s, i)
  <2>1. CASE i \in E
    BY <1>2, <2>1 DEF Hop, Body
  <2>2. CASE i \notin E
    <3>1. ~(Low(s, i) > Len(s)) /\ (Told(s, i) \in 2 .. MaxFrameLen => ~(Check(s, i) > Len(s)))
      BY <1>2, <2>2
    <3>2. CASE Told(s, i) \in 2 .. MaxFrameLen
      <4>1. X[i] = Check(s, i) + 1 /\ O[i] = Found(s, i)
        BY <1>4, <1>5, <3>2
      <4>2. i \in K <=> Intact(Found(s, i), s[Check(s, i)])
        BY <1>3, <3>2
      <4>3. QED
        BY <2>2, <3>1, <3>2, <4>1, <4>2 DEF Hop, Body
    <3>3. CASE Told(s, i) \notin 2 .. MaxFrameLen
      <4>1. i \notin K /\ X[i] = IF s[Low(s, i)] = StartByte THEN Low(s, i) ELSE Low(s, i) + 1
        BY <1>3, <1>5, <3>3
      <4>2. QED
        BY <2>2, <3>1, <3>3, <4>1 DEF Hop, Body
    <3>4. QED
      BY <3>2, <3>3
  <2>3. QED
    BY <2>1, <2>2
<1>9. f = [i \in 1 .. N |-> Body(f, s, i)]
  <2>1. \A i \in 1 .. N : f[i] = Body(f, s, i)
    BY <1>7, <1>8
  <2>2. f = [i \in 1 .. N |-> f[i]]
    BY <1>7
  <2>3. QED
    BY <2>1, <2>2
<1>10. PICK h : h = CHOOSE x : x = [i \in 1 .. N |-> Body(x, s, i)]
  OBVIOUS
<1>11. h = [i \in 1 .. N |-> Body(h, s, i)]
  BY <1>9, <1>10
<1>12. h = FramesFrom(s)
  BY <1>1, <1>10 DEF FramesFrom, Body, Low, Told, Check, Found
<1>13. QED
  BY <1>1, <1>11, <1>12

-----------------------------------------------------------------------------
(* One frame after the other.                                                 *)

\* A piece of a sequence.
LEMMA Piece ==
  ASSUME NEW S, NEW s \in Seq(S), NEW a \in Nat, NEW n \in Nat, a + n <= Len(s)
  PROVE  /\ SubSeq(s, a + 1, a + n) \in Seq(S) /\ Len(SubSeq(s, a + 1, a + n)) = n
         /\ \A i \in 1 .. n : SubSeq(s, a + 1, a + n)[i] = s[a + i]
<1>1. PICK b \in Int, c \in Int : b = a + 1 /\ c = a + n
  OBVIOUS
<1>2. \A i \in b .. c : s[i] \in S
  <2>1. \A i \in b .. c : i \in 1 .. Len(s)
    BY <1>1, LenProperties
  <2>2. QED
    BY <2>1, ElementOfSeq
<1>3. PICK u : u = SubSeq(s, b, c)
  OBVIOUS
<1>4. /\ u \in Seq(S) /\ Len(u) = (IF b <= c THEN c - b + 1 ELSE 0)
      /\ \A i \in 1 .. c - b + 1 : u[i] = s[b + i - 1]
  BY <1>2, <1>3, SubSeqProperties
<1>5. (IF b <= c THEN c - b + 1 ELSE 0) = n /\ c - b + 1 = n
  BY <1>1
<1>6. ASSUME NEW i \in 1 .. n PROVE u[i] = s[a + i]
  <2>1. b + i - 1 = a + i
    BY <1>1
  <2>2. QED
    BY <1>4, <1>5, <2>1
<1>7. QED
  BY <1>1, <1>3, <1>4, <1>5, <1>6

LEMMA Unfold == ASSUME NEW s \in Seq(Byte), NEW i \in 1 .. Len(s) + 1
                PROVE  FramesFrom(s)[i] = Body(FramesFrom(s), s, i)
  BY FramesFromIs

\* The header that begins at p ends with its low byte at q: start bytes, a
\* high byte that is none, and the low byte.
Header(s, p, q) == /\ p + 2 <= q /\ s[q - 1] # StartByte
                   /\ \A j \in p .. q - 2 : s[j] = StartByte

LEMMA HeaderFound ==
  ASSUME NEW s \in Seq(Byte), NEW p \in Nat, p >= 1, NEW q \in Nat, q <= Len(s) + 1, Header(s, p, q)
  PROVE  FirstOther(s, FirstStart(s, p)) = q - 1 /\ Low(s, p) = q
<1>1. PICK N \in Nat : N = Len(s)
  BY LenProperties
<1>2. p + 2 <= q /\ s[q - 1] # StartByte /\ (\A j \in p .. q - 2 : s[j] = StartByte) /\ p \in p .. q - 2
  BY DEF Header
<1>3. p \in 1 .. Len(s) + 1 /\ p <= Len(s) /\ s[p] = StartByte
  BY <1>1, <1>2
<1>4. FirstStart(s, p) = p
  BY <1>3, FirstIs, SMTT(30)
<1>5. PICK b \in p .. N + 1 : /\ b = FirstOther(s, p)
                              /\ b <= N => s[b] # StartByte
                              /\ \A j \in p .. N : s[j] # StartByte => b <= j
  BY <1>1, <1>3, FirstIs
<1>6. b <= q - 1
  <2>1. q - 1 \in p .. N
    BY <1>1, <1>2
  <2>2. QED
    BY <1>2, <1>5, <2>1
<1>7. ~(b \in p .. q - 2)
  BY <1>1, <1>2, <1>5
<1>8. b = q - 1
  BY <1>2, <1>6, <1>7
<1>9. QED
  BY <1>4, <1>5, <1>8 DEF Low

\* Bytes that are no start bytes are passed over.
LEMMA Passed ==
  ASSUME NEW s \in Seq(Byte), NEW p \in 1 .. Len(s), s[p] # StartByte
  PROVE  FramesFrom(s)[p] = FramesFrom(s)[p + 1]
<1>1. PICK N \in Nat : N = Len(s)
  BY LenProperties
<1>2. p \in 1 .. Len(s) + 1 /\ p + 1 \in 1 .. Len(s) + 1
  BY <1>1
<1>3. PICK a \in p .. N + 1 : /\ a = FirstStart(s, p)
                              /\ a <= N => s[a] = StartByte
                              /\ \A j \in p .. N : s[j] = StartByte => a <= j
  BY <1>1, <1>2, FirstIs
<1>4. PICK b \in p + 1 .. N + 1 : /\ b = FirstStart(s, p + 1)
                                  /\ b <= N => s[b] = StartByte
                                  /\ \A j \in p + 1 .. N : s[j] = StartByte => b <= j
  BY <1>1, <1>2, FirstIs
<1>5. a # p
  BY <1>1, <1>3
<1>6. a <= b
  <2>1. b <= N => b \in p .. N
    BY <1>4
  <2>2. QED
    BY <1>3, <1>4, <2>1
<1>7. b <= a
  <2>1. a <= N => a \in p + 1 .. N
    BY <1>3, <1>5
  <2>2. QED
    BY <1>3, <1>4, <2>1
<1>8. FirstStart(s, p) = FirstStart(s, p + 1)
  BY <1>3, <1>4, <1>6, <1>7
<1>9. PICK f : f = FramesFrom(s)
  OBVIOUS
<1>10. Low(s, p) = Low(s, p + 1)
  BY <1>8 DEF Low
<1>11. Told(s, p) = Told(s, p + 1)
  BY <1>8, <1>10 DEF Told
<1>12. Check(s, p) = Check(s, p + 1) /\ Found(s, p) = Found(s, p + 1)
  BY <1>10, <1>11 DEF Check, Found
<1>13. Body(f, s, p) = Body(f, s, p + 1)
  BY <1>10, <1>11, <1>12 DEF Body
<1>14. QED
  BY <1>2, <1>9, <1>13, Unfold

\* Nothing but start bytes, and perhaps the high byte of a length.
LEMMA NoHeader ==
  ASSUME NEW s \in Seq(Byte), NEW p \in 1 .. Len(s) + 1, \A j \in p .. Len(s) - 1 : s[j] = StartByte
  PROVE  FramesFrom(s)[p] = <<>>
<1>1. PICK N \in Nat : N = Len(s)
  BY LenProperties
<1>2. PICK a \in p .. N + 1 : a = FirstStart(s, p)
  BY <1>1, FirstIs
<1>3. a \in 1 .. Len(s) + 1
  BY <1>1
<1>4. PICK b \in a .. N + 1 : b = FirstOther(s, a) /\ (b <= N => s[b] # StartByte)
  BY <1>1, <1>3, FirstIs
<1>5. ~(b \in p .. N - 1)
  BY <1>1, <1>4
<1>6. b + 1 > N
  BY <1>1, <1>2, <1>4, <1>5
<1>7. Low(s, p) > Len(s)
  BY <1>1, <1>2, <1>4, <1>6 DEF Low
<1>8. PICK f : f = FramesFrom(s)
  OBVIOUS
<1>9. Body(f, s, p) = <<>>
  BY <1>7 DEF Body
<1>10. QED
  BY <1>8, <1>9, Unfold

\* The header that ends at q, and what the decoder makes of it there.
Length(s, q) == s[q - 1] * ByteMod + s[q]

LEMMA HeaderBody ==
  ASSUME NEW s \in Seq(Byte), NEW p \in Nat, p >= 1, NEW q \in Nat, q <= Len(s), Header(s, p, q)
  PROVE  /\ p \in 1 .. Len(s) + 1 /\ ~(Low(s, p) > Len(s))
         /\ Low(s, p) = q /\ Told(s, p) = Length(s, q)
<1>1. PICK N \in Nat : N = Len(s)
  BY LenProperties
<1>2. q <= Len(s) + 1
  BY <1>1
<1>3. FirstOther(s, FirstStart(s, p)) = q - 1 /\ Low(s, p) = q
  BY <1>2, HeaderFound
<1>4. p \in 1 .. Len(s) + 1
  BY <1>1 DEF Header
<1>5. QED
  BY <1>1, <1>3, <1>4 DEF Told, Length

\* A length out of range is dropped; its low byte may begin the next frame.
LEMMA BadLength ==
  ASSUME NEW s \in Seq(Byte), NEW p \in Nat, p >= 1, NEW q \in Nat, q <= Len(s), Header(s, p, q),
         Length(s, q) \notin 2 .. MaxFrameLen
  PROVE  FramesFrom(s)[p] = FramesFrom(s)[IF s[q] = StartByte THEN q ELSE q + 1]
<1>1. PICK f : f = FramesFrom(s)
  OBVIOUS
<1>2. Body(f, s, p) = f[IF s[q] = StartByte THEN q ELSE q + 1]
  BY HeaderBody DEF Body
<1>3. QED
  BY <1>1, <1>2, HeaderBody, Unfold

\* A frame whose checksum byte has not come is no frame yet.
LEMMA Incomplete ==
  ASSUME NEW s \in Seq(Byte), NEW p \in Nat, p >= 1, NEW q \in Nat, q <= Len(s), Header(s, p, q),
         Length(s, q) \in 2 .. MaxFrameLen, q + Length(s, q) + 1 > Len(s)
  PROVE  FramesFrom(s)[p] = <<>>
<1>1. PICK f : f = FramesFrom(s)
  OBVIOUS
<1>2. Body(f, s, p) = <<>>
  BY HeaderBody DEF Body, Check
<1>3. QED
  BY <1>1, <1>2, HeaderBody, Unfold

\* A whole frame counts if it is intact, and the next begins behind it.
LEMMA Whole ==
  ASSUME NEW s \in Seq(Byte), NEW p \in Nat, p >= 1, NEW q \in Nat, q <= Len(s), Header(s, p, q),
         NEW len \in 2 .. MaxFrameLen, len = Length(s, q), q + len + 1 <= Len(s)
  PROVE  FramesFrom(s)[p] =
           IF Intact(SubSeq(s, q + 1, q + len), s[q + len + 1])
           THEN <<SubSeq(s, q + 1, q + len)>> \o FramesFrom(s)[q + len + 1 + 1]
           ELSE FramesFrom(s)[q + len + 1 + 1]
<1>1. PICK f : f = FramesFrom(s)
  OBVIOUS
<1>2. Check(s, p) = q + len + 1 /\ Found(s, p) = SubSeq(s, q + 1, q + len)
  BY HeaderBody DEF Check, Found
<1>3. ~(q + len + 1 > Len(s))
  <2>1. PICK N \in Nat : N = Len(s)
    BY LenProperties
  <2>2. len \in Nat
    BY ByteAssumption
  <2>3. QED
    BY <2>1, <2>2
<1>4. Body(f, s, p) = IF Intact(SubSeq(s, q + 1, q + len), s[q + len + 1])
                      THEN <<SubSeq(s, q + 1, q + len)>> \o f[q + len + 1 + 1]
                      ELSE f[q + len + 1 + 1]
  BY <1>2, <1>3, HeaderBody DEF Body
<1>5. QED
  BY <1>1, <1>4, HeaderBody, Unfold

\* The decoder finds sequences of bytes.
LEMMA FramesType ==
  ASSUME NEW s \in Seq(Byte), NEW i \in 1 .. Len(s) + 1
  PROVE  FramesFrom(s)[i] \in Seq(Seq(Byte))
<1>1. PICK L \in Nat : L = Len(s)
  BY LenProperties
<1>2. PICK N \in Nat : N = L + 1
  OBVIOUS
<1>3. PICK f : f = FramesFrom(s)
  OBVIOUS
<1>4. PICK T : T = {m \in Nat : m <= N => \A j \in N - m + 1 .. N : f[j] \in Seq(Seq(Byte))}
  OBVIOUS
<1>5. 0 \in T
  <2>1. \A j \in N - 0 + 1 .. N : FALSE
    OBVIOUS
  <2>2. QED
    BY <1>4, <2>1
<1>6. ASSUME NEW m \in Nat, m \in T PROVE m + 1 \in T
  <2> SUFFICES ASSUME m + 1 <= N
               PROVE  \A j \in N - (m + 1) + 1 .. N : f[j] \in Seq(Seq(Byte))
    BY <1>4
  <2>1. PICK k \in 1 .. N : k = N - m
    OBVIOUS
  <2>2. \A j \in k + 1 .. N : f[j] \in Seq(Seq(Byte))
    BY <1>4, <1>6, <2>1
  <2>3. k \in 1 .. Len(s) + 1 /\ f[k] = Body(f, s, k)
    BY <1>1, <1>2, <1>3, <2>1, Unfold
  <2>4. PICK l \in k + 1 .. L + 2 : l = Low(s, k)
    BY <1>1, <2>3, LowType
  <2>5. <<>> \in Seq(Seq(Byte))
    BY EmptySeq
  <2>6. f[k] \in Seq(Seq(Byte))
    <3>1. CASE l > L
      BY <1>1, <2>3, <2>4, <2>5, <3>1 DEF Body
    <3>2. CASE l <= L /\ Told(s, k) \notin 2 .. MaxFrameLen
      <4>1. PICK x \in k + 1 .. N : x = IF s[l] = StartByte THEN l ELSE l + 1
        BY <1>2, <2>4, <3>2
      <4>2. f[k] = f[x]
        BY <1>1, <2>3, <2>4, <3>2, <4>1 DEF Body
      <4>3. QED
        BY <2>2, <4>1, <4>2
    <3>3. CASE l <= L /\ Told(s, k) \in 2 .. MaxFrameLen
      <4>1. PICK n \in Nat : n = Told(s, k) /\ n >= 2
        BY <3>3, ByteAssumption
      <4>2. CASE l + n + 1 > L
        BY <1>1, <2>3, <2>4, <2>5, <3>3, <4>1, <4>2 DEF Body, Check
      <4>3. CASE l + n + 1 <= L
        <5>1. PICK x \in k + 1 .. N : x = l + n + 1 + 1
          BY <1>2, <2>4, <4>1, <4>3, SMTT(30)
        <5>2. PICK u : u = SubSeq(s, l + 1, l + n)
          OBVIOUS
        <5>3. u \in Seq(Byte)
          <6>1. l \in Nat /\ l + n <= Len(s)
            BY <1>1, <2>4, <4>1, <4>3, SMTT(30)
          <6>2. QED
            BY <4>1, <5>2, <6>1, Piece
        <5>4. f[k] = <<u>> \o f[x] \/ f[k] = f[x]
          <6>1. Check(s, k) = l + n + 1 /\ Found(s, k) = u
            BY <2>4, <4>1, <5>2 DEF Check, Found
          <6>2. ~(l > Len(s)) /\ ~(l + n + 1 > Len(s)) /\ x = l + n + 1 + 1
            <7>1. l <= L
              BY <3>3
            <7>2. ~(l > L) /\ ~(l + n + 1 > L)
              BY <2>1, <2>4, <4>1, <4>3, <7>1, SMTT(30)
            <7>3. QED
              BY <1>1, <5>1, <7>2
          <6>3. Body(f, s, k) = IF Intact(u, s[l + n + 1]) THEN <<u>> \o f[x] ELSE f[x]
            BY <2>4, <3>3, <6>1, <6>2 DEF Body
          <6>4. QED
            BY <2>3, <6>3
        <5>5. f[x] \in Seq(Seq(Byte))
          BY <2>2, <5>1
        <5>6. <<u>> \o f[x] \in Seq(Seq(Byte))
          BY <5>3, <5>5, Single, ConcatProperties
        <5>7. QED
          BY <5>4, <5>5, <5>6
      <4>4. QED
        BY <2>4, <4>1, <4>2, <4>3
    <3>4. QED
      BY <2>4, <3>1, <3>2, <3>3
  <2>7. \A j \in N - (m + 1) + 1 .. N : j = k \/ j \in k + 1 .. N
    BY <2>1
  <2>8. QED
    BY <2>2, <2>6, <2>7
<1>7. N \in T
  BY <1>5, <1>6, Stepwise
<1>8. i \in N - N + 1 .. N
  BY <1>1, <1>2
<1>9. QED
  BY <1>3, <1>4, <1>7, <1>8

\* A receiver that takes the frame and its checksum byte away from all ones
\* is left with zero when the frame is intact, and only then.
LEMMA ZeroIsIntact ==
  ASSUME NEW frame \in Seq(Byte), NEW c \in Byte, NEW bytes, bytes = Append(frame, c)
  PROVE  Checksum(bytes, AllOnes) = 0 <=> Intact(frame, c)
<1>1. ByteMod \in Nat /\ ByteMod > 1 /\ c \in Int /\ 0 \in Byte
  BY ByteAssumption DEF Byte
<1>2. PICK A \in Byte : A = AllOnes
  BY <1>1 DEF AllOnes, Byte
<1>3. PICK L \in Nat : L = Len(frame)
  BY LenProperties
<1>4. /\ bytes \in Seq(Byte) /\ Len(bytes) = L + 1 /\ bytes[L + 1] = c
      /\ \A n \in 1 .. L : bytes[n] = frame[n]
  BY <1>3, AppendProperties
<1>5. PICK t \in [0 .. L -> Int] : /\ t[0] = c
                                   /\ \A n \in 1 .. L : t[n] = t[n - 1] + frame[n]
                                   /\ Intact(frame, c) <=> t[L] % ByteMod = AllOnes
  BY <1>1, <1>3, TotalIs
<1>6. PICK y \in Int : y = t[L]
  BY <1>5
<1>7. PICK u : u = [n \in 0 .. L + 1 |-> IF n = L + 1 THEN y ELSE t[n] - c]
  OBVIOUS
<1>8. u[0] = 0 /\ u[L + 1] = y /\ \A n \in 0 .. L : u[n] = t[n] - c
  <2>1. \A n \in 0 .. L : n \in 0 .. L + 1 /\ n # L + 1
    OBVIOUS
  <2>2. L + 1 \in 0 .. L + 1 /\ 0 \in 0 .. L
    OBVIOUS
  <2>3. c - c = 0
    BY <1>1
  <2>4. QED
    BY <1>5, <1>7, <2>1, <2>2, <2>3
<1>9. ASSUME NEW n \in 0 .. L + 1 PROVE u[0 + n] \in Int
  <2>1. 0 + n = n /\ (n = L + 1 \/ n \in 0 .. L)
    OBVIOUS
  <2>2. QED
    BY <1>1, <1>5, <1>8, <2>1, SMTT(30)
<1>10. ASSUME NEW n \in 1 .. L + 1 PROVE u[0 + n] = u[0 + (n - 1)] + bytes[n]
  <2>1. 0 + n = n /\ 0 + (n - 1) = n - 1 /\ n - 1 \in 0 .. L
    OBVIOUS
  <2>2. CASE n = L + 1
    <3>1. u[n - 1] = y - c
      BY <1>6, <1>8, <2>2
    <3>2. QED
      BY <1>1, <1>4, <1>8, <2>1, <2>2, <3>1
  <2>3. CASE n \in 1 .. L
    <3>1. n \in 0 .. L /\ t[n] = t[n - 1] + frame[n] /\ bytes[n] = frame[n]
      BY <1>4, <1>5, <2>3
    <3>2. PICK v \in Int, w \in Int : v = t[n - 1] /\ w = frame[n]
      <4>1. frame[n] \in Byte
        BY <1>3, <2>3, ElementOfSeq
      <4>2. QED
        BY <1>5, <2>1, <4>1, ByteAssumption DEF Byte
    <3>3. u[n] = v + w - c /\ u[n - 1] = v - c
      <4>1. u[n] = t[n] - c /\ u[n - 1] = t[n - 1] - c
        BY <1>8, <2>1, <3>1
      <4>2. t[n] = v + w
        BY <3>1, <3>2
      <4>3. QED
        BY <1>1, <3>2, <4>1, <4>2
    <3>4. QED
      BY <1>1, <2>1, <3>1, <3>2, <3>3, SMTT(30)
  <2>4. n = L + 1 \/ n \in 1 .. L
    OBVIOUS
  <2>5. QED
    BY <2>2, <2>3, <2>4
<1>11. PICK x \in Byte : x = Checksum(bytes, A)
  BY <1>4, ChecksumByte
<1>12. A \in Int /\ x \in Int /\ 0 \in Int
  BY <1>1 DEF Byte
<1>13. Same(x + (u[0 + (L + 1)] - u[0]), A)
  <2>1. /\ \A n \in 0 .. Len(bytes) : u[0 + n] \in Int
        /\ \A n \in 1 .. Len(bytes) : u[0 + n] = u[0 + (n - 1)] + bytes[n]
    BY <1>4, <1>9, <1>10
  <2>2. Same(Checksum(bytes, A) + (u[0 + Len(bytes)] - u[0]), A)
    BY <1>4, <1>12, <2>1, Undone
  <2>3. QED
    BY <1>4, <1>11, <2>2
<1>14. x + (u[0 + (L + 1)] - u[0]) = x + y
  BY <1>8, <1>12, <1>6
<1>15. Same(x + y, A) /\ x + y \in Int
  BY <1>12, <1>13, <1>14
<1>16. ASSUME x = 0 PROVE y % ByteMod = A
  <2>1. x + y = y
    BY <1>16
  <2>2. QED
    BY <1>15, <2>1, SameMod
<1>17. ASSUME y % ByteMod = A PROVE x = 0
  <2>1. Same(A, y)
    BY <1>17, SameMod
  <2>2. Same(A + x, y + x)
    BY <1>12, <2>1, SameMod
  <2>3. PICK p \in Int : p = A + x
    BY <1>12
  <2>4. y + x = x + y
    BY <1>12
  <2>5. Same(p, A)
    BY <1>12, <1>15, <2>2, <2>3, <2>4, SameMod
  <2>6. PICK r \in Int : r = 0 - A
    BY <1>12
  <2>7. Same(p + r, A + r)
    BY <1>12, <2>5, SameMod
  <2>8. p + r = x /\ A + r = 0
    BY <1>12, <2>3, <2>6
  <2>9. x % ByteMod = 0
    BY <1>1, <1>12, <2>7, <2>8, SameMod
  <2>10. x % ByteMod = x
    BY <1>12, SameMod
  <2>11. QED
    BY <2>9, <2>10
<1>18. QED
  BY <1>2, <1>5, <1>6, <1>11, <1>16, <1>17

(* The checksum of a header and its data makes the payload intact.            *)
LEMMA AddsUp ==
  ASSUME NEW header \in Seq(Byte), NEW data \in Seq(Byte), NEW payload, payload = header \o data
  PROVE  Intact(payload, Checksum(data, Checksum(header, AllOnes)))
<1>1. AllOnes \in Byte /\ Byte \subseteq Int
  BY ByteAssumption DEF AllOnes, Byte
<1>2. PICK c \in Byte : c = Checksum(header, AllOnes)
  BY <1>1, ChecksumByte
<1>3. PICK d \in Byte : d = Checksum(data, c)
  BY ChecksumByte
<1>4. /\ payload \in Seq(Byte) /\ Len(payload) = Len(header) + Len(data)
      /\ Len(header) \in Nat /\ Len(data) \in Nat
      /\ \A n \in 1 .. Len(header) : payload[n] = header[n]
      /\ \A n \in 1 .. Len(data) : payload[Len(header) + n] = data[n]
  BY Concatenated
<1>5. PICK M \in Nat, N \in Nat : M = Len(header) /\ N = Len(data)
  BY <1>4
<1>6. c \in Int /\ d \in Int /\ AllOnes \in Int
  BY <1>1
<1>7. PICK t \in [0 .. M + N -> Int] :
        /\ t[0] = d
        /\ \A n \in 1 .. M + N : t[n] = t[n - 1] + payload[n]
        /\ Intact(payload, d) <=> t[M + N] % ByteMod = AllOnes
  <2>1. PICK p \in Seq(Byte) : p = payload
    BY <1>4
  <2>2. PICK t \in [0 .. Len(p) -> Int] :
          /\ t[0] = d
          /\ \A n \in 1 .. Len(p) : t[n] = t[n - 1] + p[n]
          /\ Intact(p, d) <=> t[Len(p)] % ByteMod = AllOnes
    BY <1>6, TotalIs
  <2>3. Len(p) = M + N
    BY <1>4, <1>5, <2>1
  <2>4. QED
    BY <2>1, <2>2, <2>3
<1>8. Same(c + (t[0 + M] - t[0]), AllOnes)
  <2>1. ASSUME NEW n \in 0 .. M PROVE t[0 + n] \in Int
    <3>1. 0 + n = n /\ n \in 0 .. M + N
      OBVIOUS
    <3>2. QED
      BY <1>7, <3>1
  <2>2. ASSUME NEW n \in 1 .. M PROVE t[0 + n] = t[0 + (n - 1)] + header[n]
    <3>1. 0 + n = n /\ 0 + (n - 1) = n - 1 /\ n \in 1 .. M + N
      OBVIOUS
    <3>2. payload[n] = header[n]
      BY <1>4, <1>5
    <3>3. QED
      BY <1>7, <3>1, <3>2
  <2>3. QED
    <3>1. /\ \A n \in 0 .. Len(header) : t[0 + n] \in Int
          /\ \A n \in 1 .. Len(header) : t[0 + n] = t[0 + (n - 1)] + header[n]
      BY <1>5, <2>1, <2>2
    <3>2. Same(Checksum(header, AllOnes) + (t[0 + Len(header)] - t[0]), AllOnes)
      BY <1>6, <3>1, Undone
    <3>3. QED
      BY <1>2, <1>5, <3>2
<1>9. Same(d + (t[M + N] - t[M]), c)
  <2>1. ASSUME NEW n \in 0 .. N PROVE t[M + n] \in Int
    <3>1. M + n \in 0 .. M + N
      OBVIOUS
    <3>2. QED
      BY <1>7, <3>1
  <2>2. ASSUME NEW n \in 1 .. N PROVE t[M + n] = t[M + (n - 1)] + data[n]
    <3>1. PICK k \in 1 .. M + N : k = M + n
      OBVIOUS
    <3>2. k - 1 = M + (n - 1)
      BY <3>1
    <3>3. payload[M + n] = data[n]
      BY <1>4, <1>5
    <3>4. t[k] = t[k - 1] + payload[k]
      BY <1>7
    <3>5. QED
      BY <3>1, <3>2, <3>3, <3>4
  <2>3. /\ \A n \in 0 .. Len(data) : t[M + n] \in Int
        /\ \A n \in 1 .. Len(data) : t[M + n] = t[M + (n - 1)] + data[n]
    BY <1>5, <2>1, <2>2
  <2>4. Same(Checksum(data, c) + (t[M + Len(data)] - t[M]), c)
    BY <1>6, <2>3, Undone
  <2>5. QED
    BY <1>3, <1>5, <2>4
<1>10. PICK x \in Int, y \in Int : x = t[M] /\ y = t[M + N]
  <2>1. M \in 0 .. M + N /\ M + N \in 0 .. M + N
    OBVIOUS
  <2>2. QED
    BY <1>7, <2>1
<1>11. Same(c + (x - d), AllOnes) /\ Same(d + (y - x), c)
  <2>1. 0 + M = M
    OBVIOUS
  <2>2. QED
    BY <1>7, <1>8, <1>9, <1>10, <2>1
<1>12. Same(y, c + (x - d))
  <2>1. d + (y - x) \in Int /\ x - d \in Int /\ d + (y - x) + (x - d) = y
    BY <1>6
  <2>2. Same(d + (y - x) + (x - d), c + (x - d))
    BY <1>6, <1>11, <2>1, SameMod
  <2>3. QED
    BY <2>1, <2>2
<1>13. Same(y, AllOnes)
  <2>1. c + (x - d) \in Int
    BY <1>6
  <2>2. QED
    BY <1>6, <1>11, <1>12, <2>1, SameMod
<1>14. y % ByteMod = AllOnes
  BY <1>1, <1>13, SameMod
<1>15. QED
  BY <1>2, <1>3, <1>7, <1>10, <1>14

-----------------------------------------------------------------------------
(* After a silence the next frame is found, whatever came before it.         *)

\* MaxFrameLen + 2 bytes of silence behind the first a, and then a frame.
Quietened(s, a, frame) ==
  /\ Len(frame) \in 2 .. MaxFrameLen /\ Len(s) = a + MaxFrameLen + 2 + Len(frame) + 4
  /\ \A j \in a + 1 .. a + MaxFrameLen + 2 : s[j] = 0
  /\ s[a + MaxFrameLen + 3] = StartByte
  /\ s[a + MaxFrameLen + 4] # StartByte
  /\ Length(s, a + MaxFrameLen + 5) = Len(frame)
  /\ \A i \in 1 .. Len(frame) : s[a + MaxFrameLen + 5 + i] = frame[i]
  /\ Intact(frame, s[Len(s)])

EndsIn(s, p, frame) == \E front \in Seq(Seq(Byte)) : FramesFrom(s)[p] = front \o <<frame>>

LEMMA SameElements == ASSUME NEW S, NEW u \in Seq(S), NEW v \in Seq(S), Len(u) = Len(v),
                            \A i \in 1 .. Len(u) : u[i] = v[i]
                     PROVE  u = v
  OBVIOUS

\* A good frame at the end of the stream is the last one found from its start.
LEMMA Closes ==
  ASSUME NEW s \in Seq(Byte), NEW a \in Nat, NEW frame \in Seq(Byte),
         Quietened(s, a, frame)
  PROVE  EndsIn(s, a + MaxFrameLen + 3, frame)
<1>0. PICK p \in Nat : p = a + MaxFrameLen + 3
  BY ByteAssumption
<1>1. PICK len \in Nat, q \in Nat, L \in Nat :
        len = Len(frame) /\ q = p + 2 /\ L = q + len + 1 /\ len >= 2 /\ L = Len(s)
  <2>1. PICK len \in Nat, q \in Nat : len = Len(frame) /\ q = p + 2
    BY <1>0, LenProperties
  <2>2. PICK L \in Nat : L = q + len + 1
    BY <2>1
  <2>3. len >= 2 /\ L = Len(s)
    BY <1>0, <2>1, <2>2, ByteAssumption DEF Quietened
  <2>4. QED
    BY <2>1, <2>2, <2>3
<1>2. p >= 1 /\ len >= 2 /\ q - 1 = p + 1 /\ q + len <= L /\ q <= L
  BY <1>0, <1>1, ByteAssumption
<1>3. Header(s, p, q) /\ Length(s, q) = len
  <2>1. p + 1 = a + MaxFrameLen + 4 /\ q = a + MaxFrameLen + 5
    BY <1>0, <1>1, ByteAssumption
  <2>2. s[p] = StartByte /\ s[q - 1] # StartByte /\ Length(s, q) = len
    BY <1>0, <1>1, <1>2, <2>1 DEF Quietened
  <2>3. ASSUME NEW j \in p .. q - 2 PROVE s[j] = StartByte
    <3>1. j = p
      BY <1>0, <1>1, SMTT(30)
    <3>2. QED
      BY <2>2, <3>1
  <2>4. p + 2 <= q
    BY <1>0, <1>1
  <2>5. QED
    BY <2>2, <2>3, <2>4 DEF Header
<1>4. PICK found : found = SubSeq(s, q + 1, q + len)
  OBVIOUS
<1>5. found = frame
  <2>1. found \in Seq(Byte) /\ Len(found) = len /\ \A i \in 1 .. len : found[i] = s[q + i]
    <3>1. q + len <= Len(s)
      BY <1>1, <1>2
    <3>2. QED
      BY <1>1, <1>4, <3>1, Piece
  <2>2. ASSUME NEW i \in 1 .. len PROVE found[i] = frame[i]
    <3>1. q + i = a + MaxFrameLen + 5 + i
      BY <1>0, <1>1, ByteAssumption
    <3>2. s[q + i] = frame[i]
      BY <1>1, <3>1 DEF Quietened
    <3>3. QED
      BY <2>1, <3>2
  <2>3. QED
    BY <1>1, <2>1, <2>2, SameElements
<1>6. FramesFrom(s)[p] = <<found>> \o FramesFrom(s)[q + len + 1 + 1]
  <2>1. Intact(found, s[q + len + 1])
    BY <1>1, <1>5 DEF Quietened
  <2>2. q <= Len(s) /\ q + len + 1 <= Len(s)
    BY <1>1, <1>2
  <2>3. QED
    <3>1. len \in 2 .. MaxFrameLen
      BY <1>1 DEF Quietened
    <3>2. QED
      BY <1>0, <1>1, <1>2, <1>3, <1>4, <2>1, <2>2, <3>1, Whole
<1>7. FramesFrom(s)[q + len + 1 + 1] = <<>>
  <2>1. PICK r \in Nat : r = q + len + 1 + 1
    BY <1>1
  <2>2. r = L + 1 /\ r \in 1 .. L + 1 /\ \A j \in r .. L - 1 : FALSE
    BY <1>1, <2>1
  <2>3. QED
    BY <1>1, <2>1, <2>2, NoHeader
<1>8. PICK one \in Seq(Seq(Byte)) : one = <<frame>>
  BY Single
<1>9. one \o <<>> = one /\ <<>> \o one = one /\ <<>> \in Seq(Seq(Byte))
  BY ConcatEmptySeq, EmptySeq
<1>10. QED
  BY <1>0, <1>1, <1>5, <1>6, <1>7, <1>8, <1>9 DEF EndsIn

LEMMA Prepend ==
  ASSUME NEW front \in Seq(Seq(Byte)), NEW frame \in Seq(Byte), NEW f \in Seq(Byte)
  PROVE  \E more \in Seq(Seq(Byte)) : <<f>> \o (front \o <<frame>>) = more \o <<frame>>
<1>1. PICK one \in Seq(Seq(Byte)), head \in Seq(Seq(Byte)) : one = <<frame>> /\ head = <<f>>
  BY Single
<1>2. head \o (front \o one) = (head \o front) \o one
  BY <1>1, ConcatAssociative
<1>3. head \o front \in Seq(Seq(Byte))
  BY <1>1, ConcatProperties
<1>4. QED
  BY <1>1, <1>2, <1>3

\* A complete frame of f behind the header from p to q, the search going on at r.
Complete(s, p, q, f, r) ==
  /\ s \in Seq(Byte) /\ p \in Nat /\ q \in Nat /\ p >= 1 /\ q <= Len(s) /\ Header(s, p, q)
  /\ Length(s, q) \in 2 .. MaxFrameLen /\ r = q + Length(s, q) + 1 + 1 /\ r - 1 <= Len(s)
  /\ f = SubSeq(s, q + 1, q + Length(s, q))

\* The frame is kept when its checksum is good, and passed over when not.
LEMMA Crossed ==
  ASSUME NEW s, NEW p, NEW q, NEW f, NEW r, Complete(s, p, q, f, r)
  PROVE  FramesFrom(s)[p] = IF Intact(f, s[r - 1]) THEN <<f>> \o FramesFrom(s)[r]
                            ELSE FramesFrom(s)[r]
<1>1. PICK len \in 2 .. MaxFrameLen : len = Length(s, q)
  BY DEF Complete
<1>2. /\ s \in Seq(Byte) /\ p \in Nat /\ q \in Nat /\ p >= 1 /\ q <= Len(s) /\ Header(s, p, q)
      /\ q + len + 1 <= Len(s) /\ r - 1 = q + len + 1 /\ r = q + len + 1 + 1
      /\ f = SubSeq(s, q + 1, q + len)
  BY <1>1, ByteAssumption DEF Complete
<1>3. FramesFrom(s)[p] = IF Intact(SubSeq(s, q + 1, q + len), s[q + len + 1])
                         THEN <<SubSeq(s, q + 1, q + len)>> \o FramesFrom(s)[q + len + 1 + 1]
                         ELSE FramesFrom(s)[q + len + 1 + 1]
  BY <1>1, <1>2, Whole, ZenonT(30)
<1>4. QED
  BY <1>2, <1>3

\* A header found before the end of the silence leaves it no later.
LEMMA OneHop ==
  ASSUME NEW s \in Seq(Byte), NEW a \in Nat, NEW frame \in Seq(Byte),
         Quietened(s, a, frame), StartByte # 0, NEW p \in Nat, p >= 1, p <= a + MaxFrameLen + 2
  PROVE  \E r \in p + 1 .. a + MaxFrameLen + 3 :
           \/ FramesFrom(s)[p] = FramesFrom(s)[r]
           \/ \E f \in Seq(Byte) : FramesFrom(s)[p] = <<f>> \o FramesFrom(s)[r]
<1>1. PICK M \in Nat, L \in Nat : M = MaxFrameLen /\ L = Len(s) /\ M >= 2 /\ L > a + M + 2
  <2>1. PICK M \in Nat, L \in Nat, l \in Nat : M = MaxFrameLen /\ L = Len(s) /\ l = Len(frame)
    BY ByteAssumption, LenProperties
  <2>2. l >= 2 /\ l <= M /\ L = a + M + 2 + l + 4
    BY <2>1 DEF Quietened
  <2>3. M >= 2 /\ L > a + M + 2
    BY <2>2
  <2>4. QED
    BY <2>1, <2>3
<1>2. p \in Nat /\ p >= 1 /\ p <= a + M + 2 /\ p \in 1 .. L
  BY <1>1
<1>3. CASE s[p] # StartByte
  <2>1. FramesFrom(s)[p] = FramesFrom(s)[p + 1]
    BY <1>1, <1>2, <1>3, Passed
  <2>2. p + 1 \in p + 1 .. a + MaxFrameLen + 3
    BY <1>1, <1>2
  <2>3. QED
    BY <2>1, <2>2
<1>4. CASE s[p] = StartByte
  <2>1. \A j \in a + 1 .. a + M + 2 : s[j] = 0
    BY <1>1 DEF Quietened
  <2>2. p <= a
    <3>1. ~(p \in a + 1 .. a + M + 2)
      BY <1>4, <2>1
    <3>2. QED
      BY <1>2, <3>1
  <2>3. PICK m \in Nat : /\ p + 1 <= m /\ m <= a + 1 /\ s[m] # StartByte
                         /\ \A j \in p .. m - 1 : s[j] = StartByte
    <3>1. PICK m : m = FirstOther(s, p)
      OBVIOUS
    <3>2. /\ m \in p .. L + 1 /\ (m <= L => s[m] # StartByte)
          /\ \A j \in p .. L : s[j] # StartByte => m <= j
      <4>1. p \in 1 .. Len(s) + 1
        BY <1>1, <1>2
      <4>2. QED
        BY <1>1, <3>1, <4>1, FirstIs, ZenonT(30)
    <3>3. a + 1 \in p .. L /\ a + 1 \in a + 1 .. a + M + 2
      BY <1>1, <2>2
    <3>4. m <= a + 1
      <4>1. s[a + 1] # StartByte
        BY <2>1, <3>3
      <4>2. QED
        BY <3>2, <3>3, <4>1
    <3>5. m \in Nat /\ m <= L /\ m # p
      BY <1>1, <1>2, <1>4, <3>2, <3>4
    <3>6. ASSUME NEW j \in p .. m - 1 PROVE s[j] = StartByte
      BY <1>1, <1>2, <3>2, <3>5
    <3>7. QED
      BY <1>2, <3>2, <3>4, <3>5, <3>6
  <2>4. PICK q \in Nat : q = m + 1 /\ q <= a + 2 /\ q >= p + 2
    BY <2>3
  <2>5. Header(s, p, q) /\ q <= L
    <3>1. q - 1 = m /\ q - 2 = m - 1 /\ q <= L
      BY <1>1, <2>3, <2>4
    <3>2. QED
      BY <2>3, <2>4, <3>1 DEF Header
  <2>6. CASE Length(s, q) \notin 2 .. MaxFrameLen
    <3>1. PICK r \in Nat : r = IF s[q] = StartByte THEN q ELSE q + 1
      BY <2>4
    <3>2. FramesFrom(s)[p] = FramesFrom(s)[r]
      BY <1>1, <1>2, <2>5, <2>6, <3>1, BadLength
    <3>3. r \in p + 1 .. a + MaxFrameLen + 3
      BY <1>1, <1>2, <2>4, <3>1
    <3>4. QED
      BY <3>2, <3>3
  <2>7. CASE Length(s, q) \in 2 .. MaxFrameLen
    <3>1. PICK len \in Nat : len = Length(s, q) /\ len >= 2 /\ len <= M
      BY <1>1, <2>7
    <3>2. q <= a + 1
      <4>1. SUFFICES ASSUME q = a + 2 PROVE FALSE
        BY <2>4
      <4>2. q - 1 \in a + 1 .. a + M + 2 /\ q \in a + 1 .. a + M + 2
        BY <1>1, <4>1
      <4>3. s[q - 1] = 0 /\ s[q] = 0
        BY <2>1, <4>2
      <4>4. Length(s, q) = 0
        BY <4>3, ByteAssumption DEF Length
      <4>5. QED
        BY <3>1, <4>4
    <3>3. PICK r \in Nat : r = q + len + 1 + 1
      BY <2>4, <3>1
    <3>4. r \in p + 1 .. a + MaxFrameLen + 3 /\ q + len + 1 <= L
      BY <1>1, <1>2, <2>4, <3>1, <3>2, <3>3
    <3>5. PICK f : f = SubSeq(s, q + 1, q + len)
      OBVIOUS
    <3>6. f \in Seq(Byte)
      <4>1. q + len <= L
        BY <3>4, <2>4, <3>1, <1>1
      <4>2. QED
        BY <1>1, <2>4, <3>1, <3>5, <4>1, Piece
    <3>7. FramesFrom(s)[p] = IF Intact(f, s[r - 1]) THEN <<f>> \o FramesFrom(s)[r] ELSE FramesFrom(s)[r]
      <4>1. r - 1 <= Len(s) /\ q <= Len(s)
        BY <1>1, <2>5, <3>1, <3>3, <3>4, <2>4
      <4>2. Complete(s, p, q, f, r)
        BY <1>2, <2>4, <2>5, <2>7, <3>1, <3>3, <3>5, <4>1 DEF Complete
      <4>3. QED
        BY <4>2, Crossed
    <3>8. QED
      BY <3>4, <3>6, <3>7
  <2>8. QED
    BY <2>6, <2>7
<1>5. QED
  BY <1>3, <1>4

\* Whatever the first a bytes are, and wherever in the silence or before it
\* the search starts, the frame behind it is the last one found.
LEMMA Resynchronised ==
  ASSUME NEW s \in Seq(Byte), NEW a \in Nat, NEW frame \in Seq(Byte),
         Quietened(s, a, frame), StartByte # 0
  PROVE  \E front \in Seq(Seq(Byte)) : Frames(s) = front \o <<frame>>
<1>1. PICK E \in Nat : E = a + MaxFrameLen + 3 /\ E >= 1
  BY ByteAssumption
<1>2. PICK T : T = {k \in Nat : \A p \in 1 .. E : E - p <= k => EndsIn(s, p, frame)}
  OBVIOUS
<1>3. 0 \in T
  <2>1. EndsIn(s, E, frame)
    BY <1>1, Closes
  <2>2. \A p \in 1 .. E : E - p <= 0 => p = E
    BY <1>1
  <2>3. QED
    BY <1>2, <2>1, <2>2
<1>4. ASSUME NEW k \in Nat, k \in T PROVE k + 1 \in T
  <2> SUFFICES ASSUME NEW p \in 1 .. E, E - p <= k + 1 PROVE EndsIn(s, p, frame)
    BY <1>2
  <2>1. \A r \in 1 .. E : E - r <= k => EndsIn(s, r, frame)
    BY <1>2, <1>4
  <2>2. CASE E - p <= k
    BY <2>1, <2>2
  <2>3. CASE ~(E - p <= k)
    <3>1. p \in Nat /\ p >= 1 /\ p <= a + MaxFrameLen + 2
      BY <1>1, <2>3, ByteAssumption
    <3>2. PICK r \in p + 1 .. a + MaxFrameLen + 3 :
             \/ FramesFrom(s)[p] = FramesFrom(s)[r]
             \/ \E f \in Seq(Byte) : FramesFrom(s)[p] = <<f>> \o FramesFrom(s)[r]
      BY <3>1, OneHop
    <3>3. r \in 1 .. E /\ E - r <= k
      BY <1>1, <3>2, ByteAssumption
    <3>4. PICK front \in Seq(Seq(Byte)) : FramesFrom(s)[r] = front \o <<frame>>
      BY <2>1, <3>3 DEF EndsIn
    <3>5. CASE FramesFrom(s)[p] = FramesFrom(s)[r]
      BY <3>4, <3>5 DEF EndsIn
    <3>6. ASSUME NEW f \in Seq(Byte), FramesFrom(s)[p] = <<f>> \o FramesFrom(s)[r] PROVE EndsIn(s, p, frame)
      <4>1. \E more \in Seq(Seq(Byte)) : <<f>> \o (front \o <<frame>>) = more \o <<frame>>
        BY <3>4, Prepend
      <4>2. QED
        BY <3>4, <3>6, <4>1 DEF EndsIn
    <3>7. QED
      BY <3>2, <3>5, <3>6
  <2>4. QED
    BY <2>2, <2>3
<1>5. E - 1 \in T
  <2>1. E - 1 \in Nat
    BY <1>1
  <2>2. QED
    BY <1>3, <1>4, <2>1, Stepwise
<1>6. EndsIn(s, 1, frame)
  BY <1>1, <1>2, <1>5
<1>7. QED
  BY <1>6 DEF EndsIn, Frames

=============================================================================
