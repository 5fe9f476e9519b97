--------------------------- MODULE MCConversations ---------------------------
(* A device with a ZDO endpoint and two ZCL endpoints of one profile, as the   *)
(* library's samples lay them out.                                             *)
EXTENDS Conversations

CONSTANTS r1, r2, r3

zcl(c, f) == [cluster |-> c, flags |-> f, handler |-> "zcl_general_command"]

TableMC ==
    << [endpoint |-> 0, profile |-> 0, handler |-> "zdo_handler", clusters |-> <<>>],
       [endpoint |-> 1, profile |-> 5, handler |-> "zcl_invalid_cluster",
        clusters |-> <<zcl(7, {"input"}), zcl(8, {"output", "encrypt"})>>],
       [endpoint |-> 2, profile |-> 5, handler |-> NoHandler,
        clusters |-> <<zcl(8, {"input", "encryptUnicast"})>>] >>

StyleMC == [q \in Requests |-> CASE q = r1 -> "once" [] q = r2 -> "many" [] OTHER -> "any"]
TimeoutsMC == [q \in Requests |-> CASE q = r2 -> {0} [] OTHER -> {1}]
RowsMC == [q \in Requests |-> IF q \in {r1, r2} THEN {1} ELSE {1, 2}]
IssueMC == <<3, 1, 0>>

TrafficMC == {[cluster |-> 0, kind |-> "zdoResponse", options |-> {}],
              [cluster |-> 0, kind |-> "zdoRequest", options |-> {"broadcastAddr"}],
              [cluster |-> 7, kind |-> "zclResponse", options |-> {}],
              [cluster |-> 8, kind |-> "zclDefault", options |-> {}],
              [cluster |-> 7, kind |-> "zclRequest", options |-> {"apsEncrypt"}],
              [cluster |-> 8, kind |-> "zclRequest", options |-> {"broadcastAddr"}],
              [cluster |-> 8, kind |-> "zclRequest", options |-> {}]}
=============================================================================
