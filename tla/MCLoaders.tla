----------------------------- MODULE MCLoaders -----------------------------
(* The two ways the library loads firmware, over the air (Ota) and through the *)
(* bootloader on the serial port (Gen3).  A program uses one or the other.     *)
EXTENDS Ota, Gen3

VARIABLE loader   \* the one this behaviour runs; the other stays where it starts

\* Longer than one byte of PageMod values numbers, and than two.
ImageMC == <<"blank", "data", "blank", "data", "data">>

LoadersInit == /\ Init
               /\ Gen3Init
               /\ loader \in {"ota", "gen3"}
               /\ loader = "gen3" => clock = 0
               /\ loader = "ota" => queryOnly /\ speaks = 0

OverTheAir == loader = "ota" /\ Next /\ UNCHANGED <<gvars, loader>>

OnThePort == loader = "gen3" /\ Gen3Next /\ UNCHANGED <<vars, loader>>

LoadersSpec == /\ LoadersInit
               /\ [][OverTheAir \/ OnThePort]_<<vars, gvars, loader>>
               /\ Fairness
               /\ WF_gvars(loader = "gen3" /\ Tick)
               /\ WF_gvars(loader = "gen3" /\ Time)
=============================================================================
