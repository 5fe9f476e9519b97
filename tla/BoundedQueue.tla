---------------------------- MODULE BoundedQueue ----------------------------
(* What a circular buffer promises its two users: a first-in first-out queue   *)
(* of at most Capacity bytes, whose writer appends as much as fits and whose   *)
(* reader removes as much as there is, both told how much by what is left.     *)
EXTENDS Integers, Sequences

CONSTANTS Capacity,   \* the most bytes it holds
          Payloads    \* the byte strings a writer may offer

VARIABLE queue

Least(m, n) == IF m < n THEN m ELSE n

Init == queue = <<>>

Put(s) == queue' = queue \o SubSeq(s, 1, Least(Len(s), Capacity - Len(queue)))

Get(n) == queue' = SubSeq(queue, Least(n, Len(queue)) + 1, Len(queue))

Next == \/ \E s \in Payloads : Put(s)
        \/ \E n \in 0 .. Capacity : Get(n)

Spec == Init /\ [][Next]_queue
=============================================================================
