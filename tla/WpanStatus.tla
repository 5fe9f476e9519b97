----------------------------- MODULE WpanStatus -----------------------------
(***************************************************************************)
(* What a modem status frame does to the join state of a device            *)
(* (_xbee_dev_modem_status).  The status bytes are grouped by the case of  *)
(* the switch they reach; any other status changes nothing.                *)
(***************************************************************************)
CONSTANTS CoordStart,      \* XBEE_MODEM_STATUS_COORD_START
          KeyEstablished,  \* XBEE_MODEM_STATUS_KEY_ESTABLISHED
          Joined,          \* XBEE_MODEM_STATUS_JOINED
          Left             \* { HW_RESET, WATCHDOG, DISASSOC }

ASSUME StatusAssumption == {CoordStart, KeyEstablished, Joined} \cap Left = {}

\* WPAN_NET_ADDR_COORDINATOR is 0x0000, what xbee_dev_init's memset leaves.
\* "assigned" is any address read from the MY register.
NetAddr == {"undefined", "coordinator", "assigned"}

Wpan == [joined : BOOLEAN, authenticated : BOOLEAN, network : NetAddr]

WpanAfterDevInit ==
  [joined |-> FALSE, authenticated |-> FALSE, network |-> "coordinator"]

ModemStatus(wpan, status) ==
  CASE status = CoordStart ->
         [joined |-> TRUE, authenticated |-> TRUE, network |-> "coordinator"]
    [] status = KeyEstablished ->
         [wpan EXCEPT !.joined = TRUE, !.authenticated = TRUE]
    [] status = Joined -> [wpan EXCEPT !.joined = TRUE]
    [] status \in Left ->
         [joined |-> FALSE, authenticated |-> FALSE, network |-> "undefined"]
    [] OTHER -> wpan

=============================================================================
