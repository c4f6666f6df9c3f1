--------------------------- MODULE MCRelayControl ---------------------------
(* Instances of RelayControl for TLC: which tasks run together. *)
EXTENDS RelayControl

(* Every task runs in some mix; every pair of a switch-on and the leak does. *)
RelayMixes == {{"cloud", "button", "sched", "leak"}, {"ble", "sensor", "leak"},
               {"button", "sensor", "sched"}}
SchedLeak  == {{"sched", "leak"}}
=============================================================================
