----------------------------- MODULE MCEventParser -----------------------------
(* Small instances of EventParser for TLC.                                 *)
EXTENDS EventParser

(* Addresses and ports that read differently in the other byte order.      *)
MCEndpoint ==
    [ip_version : {4}, ip : {<<0, 1, 1, 1>>, <<1, 0, 0, 1>>, <<0, 0, 1, 0>>},
     port : {<<0, 1>>, <<1, 0>>}]
    \cup [ip_version : {6}, ip : {<<0, 0, 1, 0, 0, 1>>}, port : {<<0, 1>>}]
================================================================================
