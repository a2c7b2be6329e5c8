------------------------------ MODULE Telemetry ------------------------------
(***************************************************************************)
(* The events that travel through TracePilot, told apart by what becomes   *)
(* of them: which the collector's parser refuses, which its port filter    *)
(* drops, which the API's schema refuses, which its table cannot hold.     *)
(***************************************************************************)
CONSTANTS
    Traffic,        \* outbound connections of the processes being observed
    Malformed,      \* a sample of the wrong size or IP version: ValueError
    ApiPorts,       \* connections to port 8000 or 5432 of any host
    Invalid,        \* refused by ConnectionEventCreate: port 0, empty name
    Unstorable      \* refused by connection_events: a uid above 2^31 - 1

ASSUME TelemetryAssumption ==
    /\ Malformed \subseteq Traffic
    /\ ApiPorts \subseteq Traffic
    /\ Invalid \subseteq Traffic
    /\ Unstorable \subseteq Traffic
=============================================================================
