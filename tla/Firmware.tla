------------------------------ MODULE Firmware ------------------------------
(***************************************************************************)
(* The settings, the thermostat that obeys them, and the cloud session     *)
(* over which they are written from afar.                                  *)
(*                                                                         *)
(* What couples them: the firebase task applies settings only while it is  *)
(* on its stream, and answers to nothing else while it applies them; a     *)
(* write of the limits falls into the cycle of the thermostat; a restart   *)
(* takes all three back to what the flash holds.                           *)
(***************************************************************************)
EXTENDS Thermostat, Tokens

AllTasks    == {"ble", "firebase", "ota", "prov", "sensor"}
Surrounding == {"user", "leak", "probe", "net", "server", "clock", "time", "settle", "restart"}

ASSUME MixesAssumption == Mixes \subseteq SUBSET (AllTasks \cup Surrounding \cup Groups)

vars == <<acting, settingsVars, thermostatVars, tokensVars>>

TypeOK ==
  /\ SettingsType /\ ThermostatType /\ TokensType
  /\ writer["firebase"].pc # "idle" => call["firebase"] = "stream"

Init == ActorsInit /\ SettingsInit /\ ThermostatInit /\ TokensInit

-----------------------------------------------------------------------------
BleWrites ==
  /\ WritesSettings("ble")
  /\ UNCHANGED tokensVars

(* An event of the settings stream is applied to its end before the next. *)
CloudWrites ==
  /\ call["firebase"] = "stream"
  /\ WritesSettings("firebase")
  /\ UNCHANGED tokensVars

Sensor == SensorCycle /\ UNCHANGED tokensVars

Surroundings ==
  /\ OthersSwitch \/ Leak \/ ProbeChanges
  /\ UNCHANGED tokensVars

CloudClient(c) ==
  /\ Client(c)
  /\ UNCHANGED <<settingsVars, thermostatVars>>

Listens ==
  /\ writer["firebase"].pc = "idle"
  /\ FirebaseListens
  /\ UNCHANGED <<settingsVars, thermostatVars>>

Provisions ==
  /\ Bind \/ StoreCredentials
  /\ UNCHANGED <<settingsVars, thermostatVars>>

CloudSurroundings ==
  /\ TokensEnvironment
  /\ UNCHANGED <<settingsVars, thermostatVars>>

(* Power loss, panic or watchdog at any moment, and app_main. *)
Restart ==
  /\ Acts("restart")
  /\ ThermostatRestart
  /\ TokensRestart

Next ==
  \/ BleWrites \/ CloudWrites \/ Sensor \/ Surroundings
  \/ (\E c \in Clients : CloudClient(c)) \/ Listens \/ Provisions \/ CloudSurroundings
  \/ Restart

Spec == Init /\ [][Next]_vars

(* The sensor task and the clients of the cloud run; the mutex of the       *)
(* credentials goes to the waiter of the highest priority, so that none is  *)
(* passed over for ever; provisioning goes on; time passes.                 *)
FairSpec ==
  /\ Spec
  /\ WF_thermostatVars(SensorCycle)
  /\ \A c \in Clients : SF_tokensVars(Client(c))
  /\ WF_tokensVars(StoreCredentials) /\ WF_tokensVars(TimePasses)

=============================================================================
