------------------------------ MODULE MCSocket ------------------------------
(* An instance of Socket for TLC. *)
EXTENDS Socket, TLC

\* The module's socket IDs are interchangeable.
IdSymmetry == Permutations(ModuleIds)

BoundsSocket == [create |-> 2, attach |-> 2, data |-> 2, client |-> 1, close |-> 1, busy |-> 1,
                 all |-> 5]

=============================================================================
