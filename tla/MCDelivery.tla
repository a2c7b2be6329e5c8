------------------------------ MODULE MCDelivery ------------------------------
(* Small instances of Delivery for TLC.                                    *)
EXTENDS Delivery

CONSTANTS e1, e2,           \* events that schema and table accept
          bad,              \* one that the schema refuses
          heavy,            \* one that the table refuses
          port8000,         \* a connection to port 8000
          s1, s2            \* slots

MCInvalid == {bad}
MCUnstorable == {heavy}
MCApiPorts == {port8000}
MCTraffic == {e1, e2} \cup MCInvalid \cup MCUnstorable \cup MCApiPorts
MCSlot == {s1, s2}

(* The accepted events are alike, and so are idle slots: of two that could *)
(* be next, the first is.  (This is symmetry, broken by hand because TLC's *)
(* does not go with liveness.)                                             *)
FirstFirst ==
    /\ e2 \in captured' => e1 \in captured'
    /\ request[s1] = Idle /\ request[s2] = Idle => request'[s2] = Idle

MCFairSpec == Init /\ [][Next /\ FirstFirst]_vars /\ Fairness
=============================================================================
