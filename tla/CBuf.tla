-------------------------------- MODULE CBuf --------------------------------
(* The circular buffer of xbee_cbuf.c, as the OTA client uses it: put and get  *)
(* of byte strings.  A buffer is empty when head meets tail, and one of the    *)
(* Mask + 1 cells always stays free.  head may rest one past the last cell     *)
(* after a get that ends exactly there; tail never does.                       *)
EXTENDS Integers, Sequences

CONSTANTS Mask,      \* 2^n - 1, the bytes the buffer holds
          Byte,      \* the bytes
          Erased     \* what a cell holds that no reader may look at

ASSUME MaskAssumption == Mask \in Nat /\ Mask >= 3

ASSUME ErasedAssumption == Erased \notin Byte

Smaller(m, n) == IF m < n THEN m ELSE n

\* i & mask, for the differences and sums the code masks.
Wrap(i) == CASE i < 0 -> i + Mask + 1
             [] i > Mask -> i - (Mask + 1)
             [] OTHER -> i

\* The buffers the operations lead to.
Buffers == [head : 0 .. Mask + 1, tail : 0 .. Mask, data : [0 .. Mask -> Byte \cup {Erased}]]

Fresh == [head |-> 0, tail |-> 0, data |-> [i \in 0 .. Mask |-> Erased]]

Used(b) == Wrap(b.tail - b.head)

\* Mutant: the separator cell is counted as free.
FreeWithoutSeparator(b) == (Mask + 1) - Used(b)

Free(b) == Wrap(b.head - b.tail - 1)

\* Mutant: the end of the buffer is passed only by a put that goes beyond it.
PutStopsAtEnd(b, s) ==
    LET length == Smaller(Len(s), Free(b))
        endSpace == Mask + 1 - b.tail
    IN [head |-> b.head,
        tail |-> IF length > endSpace THEN length - endSpace ELSE b.tail + length,
        data |-> [i \in 0 .. Mask |-> IF Wrap(i - b.tail) < length
                                        THEN s[Wrap(i - b.tail) + 1] ELSE b.data[i]]]

\* As much of s as fits is copied from tail on, over the end of data if need be.
CBufPut(b, s) ==
    LET length == Smaller(Len(s), Free(b))
        endSpace == Mask + 1 - b.tail
    IN [head |-> b.head,
        tail |-> IF length >= endSpace THEN length - endSpace ELSE b.tail + length,
        data |-> [i \in 0 .. Mask |-> IF Wrap(i - b.tail) < length
                                        THEN s[Wrap(i - b.tail) + 1] ELSE b.data[i]]]

\* The bytes a get of n bytes copies out.
CBufGot(b, n) == [i \in 1 .. Smaller(n, Used(b)) |-> b.data[Wrap(b.head + i - 1)]]

\* The buffer after a get of n bytes; the cells read are erased here, where the
\* code leaves bytes nobody reads.
CBufGet(b, n) ==
    LET length == Smaller(n, Used(b))
        endSpace == Mask + 1 - b.head
    IN [head |-> IF length > endSpace THEN length - endSpace ELSE b.head + length,
        tail |-> b.tail,
        data |-> [i \in 0 .. Mask |-> IF Wrap(i - b.head) < length THEN Erased ELSE b.data[i]]]

\* What the buffer holds, in the order it will be read.
Contents(b) == CBufGot(b, Used(b))
=============================================================================
