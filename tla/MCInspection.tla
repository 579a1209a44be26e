---------------------------- MODULE MCInspection ----------------------------
(***************************************************************************)
(* Small instances of Inspection for TLC.                                  *)
(***************************************************************************)
EXTENDS Inspection

Script(requests, upgrades, pipelined, interims, replayed) ==
    [requests |-> requests, upgrades |-> upgrades, pipelined |-> pipelined,
     interim |-> interims, replayed |-> replayed]

Scripts_ ==
    {Script(3, {}, FALSE, FALSE, FALSE),    \* one after the other
     Script(3, {2}, FALSE, FALSE, FALSE),   \* a web socket
     Script(2, {}, TRUE, FALSE, FALSE),     \* pipelined
     Script(2, {}, FALSE, TRUE, FALSE),     \* with a 1xx response
     Script(2, {}, FALSE, FALSE, TRUE)}     \* replayed
=============================================================================
