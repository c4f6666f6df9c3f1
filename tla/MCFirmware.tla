----------------------------- MODULE MCFirmware -----------------------------
(* Instances of Firmware for TLC: the sum of these mixes. *)
EXTENDS Firmware

CONSTANTS a1, a2, b1

TwoAccounts == {a1, a2, b1}
Accounts    == [c \in Creds |-> IF c = b1 THEN "B" ELSE "A"]

FarOut      == {0, 9}
SomeMinutes == {0, 1, 2}
SomeLevels  == 0..5

(* Both writers and a restart, one kind of group at a time. *)
WriteMixes ==
  {{"ble", "firebase", "restart"} \cup G :
     G \in {{"limits"}, {"timers"}, {"ar", "maxon", "fallback"}}}

(* The thermostat with everybody who gets into its cycle. *)
SensorMixes ==
  {{"sensor", "ble", "user", "leak", "limits"}, {"sensor", "firebase", "limits"},
   {"sensor", "probe", "user", "leak", "ble", "ar"}, {"sensor", "probe", "restart"}}

(* The cloud session with everything that can go wrong around it. *)
TokenMixes ==
  {{"firebase", "ota", "time", "clock", "net", "server", "settle"},
   {"firebase", "prov", "time", "net", "server", "settle"},
   {"firebase", "ota", "prov", "time", "server"},
   {"firebase", "prov", "net", "restart"}}

FirmwareMixes == WriteMixes \cup SensorMixes \cup TokenMixes
=============================================================================
