------------------------------ MODULE MCAtCmd ------------------------------
(* Instances of AtCmd for TLC. *)
EXTENDS AtCmd, TLC

Regs1 == <<"VR">>
Regs3 == <<"EO", "AI", "MY">>

\* As in the code, a refresh reads two entries: NP and MY.
RegsRefresh == <<"AI", "NP", "MY">>

NoLimit == -1

\* The users are interchangeable.
UserSymmetry == Permutations(Users)

BoundsUsers == [modem |-> 1, create |-> 2, send |-> 2, cts |-> 0, error |-> 0, second |-> 2]
BoundsQuery == [modem |-> 2, create |-> 0, send |-> 0, cts |-> 2, error |-> 1, second |-> NoLimit]
BoundsLate  == [modem |-> 3, create |-> 0, send |-> 0, cts |-> 0, error |-> 0, second |-> 3]
BoundsShared == [modem |-> 2, create |-> 2, send |-> 2, cts |-> 1, error |-> 1, second |-> 3]

=============================================================================
