----------------------------- MODULE Thermostat -----------------------------
(***************************************************************************)
(* The first half of a cycle of temperature_task: the reading, the loss    *)
(* and the rediscovery of the probe, and the switching by the limits.      *)
(*                                                                         *)
(* The cycle reads the limits, then the relay, then acts, and the writers  *)
(* of Settings and the users come in between.  The smoothed temperature is *)
(* any level: the properties ask nothing of the smoothing.                 *)
(*                                                                         *)
(* The switch itself is one step here (its critical sections, the flash    *)
(* and the reports are in RelayControl); the run limit is in RunWindow.    *)
(***************************************************************************)
EXTENDS Settings

CONSTANTS
  Levels,        \* the temperatures, as integers
  RetryAfter     \* SENSOR_RETRY_AFTER

ASSUME ThermostatAssumption == Levels \subseteq Nat /\ RetryAfter \in Nat \ {0}

Lost == -1       \* the temperature of a lost probe
None == -2       \* no temperature

VARIABLES
  probe,       \* environment: the probe answers, answers at times, is gone
  found,       \* s_sensor: the probe was discovered and answered
  temp,        \* s_state.temperature
  fails,       \* s_consec_fails, told apart up to the next retry
  notified,    \* s_sensor_fail_notified
  sensorOk,    \* s_state.sensor_ok
  relayOn, lockout,
  at,          \* where the cycle is
  limits,      \* the limits as the cycle read them
  offAt        \* history: the temperature at which the thermostat switched
               \* off, while nobody else has switched or changed the limits

sensorVars     == <<found, temp, fails, notified, sensorOk, at, limits>>
relayVars      == <<relayOn, lockout, offAt>>
thermostatVars == <<probe, sensorVars, relayVars>>

ThermostatType ==
  /\ probe \in {"ok", "flaky", "gone"} /\ found \in BOOLEAN
  /\ temp \in Levels \cup {Lost, 0} /\ offAt \in Levels \cup {None}
  /\ fails \in 0..(2 * RetryAfter - 1) /\ notified \in BOOLEAN /\ sensorOk \in BOOLEAN
  /\ relayOn \in BOOLEAN /\ lockout \in BOOLEAN
  /\ at \in {"idle", "judge", "off", "on"}
  /\ Usable(limits)
  /\ notified <=> ~sensorOk
  /\ at # "idle" => found /\ sensorOk /\ temp \in Levels

LiveLimits == Pair(live.min, live.max)

(* The struct's initial values, and temperature_init. *)
ThermostatInit ==
  /\ probe = "ok" /\ found = TRUE
  /\ temp = 0 /\ sensorOk = TRUE /\ fails = 0 /\ notified = FALSE
  /\ at = "idle" /\ limits = LiveLimits
  /\ relayOn = FALSE /\ lockout = FALSE /\ offAt = None

-----------------------------------------------------------------------------
(* The cycle. *)

(* A sane reading: it ends a loss, and the limits are read. *)
ReadTemperature ==
  /\ Acts("sensor") /\ at = "idle"
  /\ found /\ probe # "gone"
  /\ temp' \in Levels
  /\ fails' = 0 /\ notified' = FALSE
  /\ sensorOk' = (sensorOk \/ notified)
  /\ limits' = LiveLimits
  /\ at' = "judge"
  /\ UNCHANGED <<probe, found, relayVars, settingsVars>>

(* What temperature_init may find. *)
Discovered ==
  CASE probe = "ok" -> {TRUE} [] probe = "gone" -> {FALSE} [] OTHER -> BOOLEAN

(* The count, wrapped where only its remainder matters. *)
NextFail == IF fails + 1 = 2 * RetryAfter THEN RetryAfter ELSE fails + 1

RetryDue == NextFail % RetryAfter = 0

(* Mutated form: the count starts again whether or not the probe was found. *)
ResetAnyway(ok) == 0

(* try_rediscover resets the count when the probe answers. *)
FailsAfterRetry(ok) == IF ok THEN 0 ELSE NextFail

Announce ==
  IF ~notified /\ fails' >= RetryAfter
  THEN notified' = TRUE /\ sensorOk' = FALSE /\ temp' = Lost
  ELSE UNCHANGED <<notified, sensorOk, temp>>

(* No reading, or an insane one; every third failure looks for the probe. *)
ReadFails ==
  /\ Acts("sensor") /\ at = "idle"
  /\ ~found \/ probe # "ok"
  /\ IF RetryDue
     THEN /\ found' \in Discovered
          /\ fails' = FailsAfterRetry(found')
     ELSE fails' = NextFail /\ UNCHANGED found
  /\ Announce
  /\ UNCHANGED <<probe, at, limits, relayVars, settingsVars>>

(* The relay is read, and the temperature judged. *)
Judge ==
  /\ Acts("sensor") /\ at = "judge"
  /\ at' = CASE relayOn /\ temp >= limits.max                  -> "off"
             [] ~relayOn /\ temp <= limits.min /\ live.ar = 1  -> "on"
             [] OTHER                                          -> "idle"
  /\ UNCHANGED <<probe, found, temp, fails, notified, sensorOk, limits, relayVars, settingsVars>>

SwitchOff ==
  /\ Acts("sensor") /\ at = "off"
  /\ relayOn' = FALSE
  /\ offAt' = IF relayOn /\ limits = LiveLimits THEN temp ELSE None
  /\ at' = "idle"
  /\ UNCHANGED <<probe, found, temp, fails, notified, sensorOk, limits, lockout, settingsVars>>

(* Refused while the lockout is latched. *)
SwitchOn ==
  /\ Acts("sensor") /\ at = "on"
  /\ relayOn' = (relayOn \/ ~lockout)
  /\ offAt' = IF relayOn' THEN None ELSE offAt
  /\ at' = "idle"
  /\ UNCHANGED <<probe, found, temp, fails, notified, sensorOk, limits, lockout, settingsVars>>

SensorCycle == ReadTemperature \/ ReadFails \/ Judge \/ SwitchOff \/ SwitchOn

-----------------------------------------------------------------------------
(* Everybody else. *)

(* A user, a timer or the run limit switches; a user's ON lifts the lockout. *)
OthersSwitch ==
  /\ Acts("user")
  /\ relayOn' = ~relayOn
  /\ lockout' = (lockout /\ relayOn)
  /\ offAt' = None
  /\ UNCHANGED <<probe, sensorVars, settingsVars>>

Leak ==
  /\ Acts("leak")
  /\ lockout' = ~lockout
  /\ relayOn' = (relayOn /\ lockout)
  /\ offAt' = IF relayOn' = relayOn THEN offAt ELSE None
  /\ UNCHANGED <<probe, sensorVars, settingsVars>>

ProbeChanges ==
  /\ Acts("probe")
  /\ probe' \in {"ok", "flaky", "gone"} \ {probe}
  /\ UNCHANGED <<sensorVars, relayVars, settingsVars>>

(* A writer of the settings; a change of the limits starts a new comparison. *)
WritesSettings(w) ==
  /\ Begin(w) \/ Proceed(w)
  /\ offAt' = IF LiveLimits' = LiveLimits THEN offAt ELSE None
  /\ UNCHANGED <<probe, sensorVars, relayOn, lockout>>

(* The relay comes back as it was; RelayControl has the record of it. *)
ThermostatRestart ==
  /\ SettingsRestart
  /\ found' \in Discovered
  /\ temp' = 0 /\ sensorOk' = TRUE /\ fails' = 0 /\ notified' = FALSE
  /\ at' = "idle" /\ limits' = LiveLimits'
  /\ lockout' = FALSE /\ offAt' = None
  /\ UNCHANGED <<probe, relayOn>>

-----------------------------------------------------------------------------
(* The geyser is not switched at short intervals: after the thermostat has  *)
(* switched it off it switches it on again only once the water has cooled   *)
(* by the deadband, unless somebody else has switched or the limits have    *)
(* changed in between; whatever limits were sent, and wherever in a cycle   *)
(* the writes of them fell (device_state.h:81-84).                          *)
HysteresisKept ==
  [][at = "on" /\ ~relayOn /\ relayOn' /\ offAt # None => temp + Deadband <= offAt]_<<at, relayOn>>

(* A probe that is gone for good is reported as lost and no temperature is  *)
(* shown for it; one that answers for good is shown as working, whatever    *)
(* happened before (temperature.c:186-203, 252-257, 324-348).               *)
ProbeReported ==
  "sensor" \in acting /\ "restart" \notin acting =>
    /\ <>[](probe = "gone") => <>[](~sensorOk /\ temp = Lost)
    /\ <>[](probe = "ok")   => <>[](sensorOk /\ temp # Lost)

=============================================================================
