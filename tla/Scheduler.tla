------------------------------ MODULE Scheduler ------------------------------
(***************************************************************************)
(* scheduler_task: the wall-clock timers, and the interval mode that       *)
(* stands in for them while the clock is unusable.                         *)
(*                                                                         *)
(* The task polls every 30 s.  A poll is three steps, because the sensor   *)
(* task (run limit), the user's tasks and the tick interrupt get in        *)
(* between: it reads the tick count, then the clock and the run limit's    *)
(* last cutoff, then the relay, which it may switch.  Time is counted in   *)
(* units; ticks are kept as ages, so that nothing needs an absolute time.  *)
(* A unit's boundary may fall inside a poll, at most once.                 *)
(***************************************************************************)
EXTENDS Integers, FiniteSets

CONSTANTS
  TimerMinutes,     \* minutes of the day at which a timer can be set
  Limits,           \* values of max_on_minutes, 0 for "Off"
  MaxOnCeil,        \* MAX_ON_CEIL: none is longer
  DayMinutes,       \* 1440
  MinuteUnits,      \* units in a minute; CUTOFF_GUARD_MS is a minute
  PollUnits,        \* units in a poll period
  GraceUnits,       \* FALLBACK_GRACE_MS
  AssumedBlock,     \* FALLBACK_ASSUMED_BLOCK_MIN
  MinOff,           \* FALLBACK_MIN_OFF_MIN
  TickMod,          \* 2^32: tick differences are unsigned
  OffCap,           \* bound: ages of a switch-off are told apart up to here
  ClockAtStart,     \* whether the clock is usable in the initial state
  Others            \* which of AllOthers act

AllOthers == {"user", "leak", "settings", "clock", "restart"}

ASSUME SchedulerAssumption ==
  /\ DayMinutes \in Nat \ {0} /\ MinuteUnits \in Nat \ {0}
  /\ PollUnits \in 1..MinuteUnits /\ GraceUnits \in Nat
  /\ MaxOnCeil \in Nat /\ AssumedBlock \in 1..MaxOnCeil
  /\ MinOff \in Nat /\ OffCap \in Nat
  /\ TickMod \in Nat /\ TickMod > OffCap + GraceUnits + MinuteUnits + 1
  /\ TimerMinutes \subseteq 0..(DayMinutes - 1)
  /\ Limits \subseteq 0..MaxOnCeil /\ ClockAtStart \in BOOLEAN /\ Others \subseteq AllOthers

VARIABLES
  tod,          \* time of day, in units
  valid,        \* time_sync_is_valid
  relayOn, lockout,
  runAge,       \* temperature_current_on_seconds
  enabled,      \* minutes of the enabled timers
  maxOn,        \* max_on_minutes
  optIn,        \* fallback_enabled
  fbActive,     \* fallback_active
  pc, left,     \* where the poll is; units of vTaskDelay left
  sinceRead,    \* boundaries since now_tick was read in this poll
  prevRelay,    \* fb_prev_relay: the relay as the current poll saw it
  offAge,       \* age of fb_off_since
  bootAge,      \* age of boot_tick
  cutAge,       \* age of temperature_last_limit_cutoff
  slot,         \* the minute this poll is about to serve, else NoSlot
  lastFired,    \* last_fired_hh/mm when last_fired_day is today, else NoSlot
  \* history
  cutInPoll,    \* the run limit cut off since the last poll began
  fired,        \* a timer has switched on for the current minute
  calm,         \* nothing has disturbed the schedule in the current minute
  onSeen,       \* the geyser was on at some time in the current minute
  offFor,       \* how long the geyser has really been off
  unseen        \* the last time it was on fell between two polls

relay   == <<relayOn, lockout, runAge>>
clock   == <<tod, valid, bootAge, cutAge>>
config  == <<enabled, maxOn, optIn>>
poll    == <<pc, left, sinceRead, prevRelay, offAge, slot, lastFired, fbActive>>
history == <<cutInPoll, fired, calm, onSeen, offFor, unseen>>
vars    == <<relay, clock, config, poll, history>>

NoSlot   == DayMinutes
DayUnits == DayMinutes * MinuteUnits
Guard    == MinuteUnits               \* CUTOFF_GUARD_MS
RunCap   == MinuteUnits * MaxOnCeil

Capped(n, cap) == IF n > cap THEN cap ELSE n

TypeOK ==
  /\ tod \in 0..(DayUnits - 1) /\ valid \in BOOLEAN
  /\ relayOn \in BOOLEAN /\ lockout \in BOOLEAN /\ runAge \in 0..RunCap
  /\ enabled \subseteq TimerMinutes /\ maxOn \in Limits /\ optIn \in BOOLEAN
  /\ fbActive \in BOOLEAN
  /\ pc \in {"sleep", "clocked", "fire", "clockless"}
  /\ left \in 0..PollUnits /\ sinceRead \in 0..1 /\ prevRelay \in BOOLEAN
  /\ offAge \in 0..OffCap /\ bootAge \in 0..(GraceUnits + 1) /\ cutAge \in 0..(Guard + 1)
  /\ slot \in TimerMinutes \cup {NoSlot} /\ lastFired \in TimerMinutes \cup {NoSlot}
  /\ cutInPoll \in BOOLEAN /\ fired \in BOOLEAN /\ calm \in BOOLEAN /\ onSeen \in BOOLEAN
  /\ offFor \in 0..OffCap /\ unseen \in BOOLEAN
  /\ slot # NoSlot => pc = "fire"
  /\ fbActive => bootAge >= GraceUnits       \* the clock was given its time
  /\ relayOn => offFor = 0
  /\ ~relayOn => runAge = 0

(* What scheduler_task starts from, a poll period before its first poll. *)
Start ==
  /\ prevRelay = relayOn /\ offAge = 0 /\ bootAge = 0
  /\ cutAge = Guard + 1                  \* no cutoff yet
  /\ slot = NoSlot /\ lastFired = NoSlot /\ fbActive = FALSE
  /\ pc = "sleep" /\ left = PollUnits /\ sinceRead = 0

Init ==
  /\ tod \in 0..(DayUnits - 1) /\ valid = ClockAtStart
  /\ relayOn \in BOOLEAN /\ lockout = FALSE /\ runAge = 0
  /\ enabled \in SUBSET TimerMinutes /\ maxOn \in Limits /\ optIn \in BOOLEAN
  /\ Start
  /\ cutInPoll = FALSE /\ fired = FALSE /\ calm = FALSE /\ onSeen = relayOn /\ offFor = 0
  /\ unseen = FALSE

-----------------------------------------------------------------------------
Minute == tod \div MinuteUnits

(* now_tick - x in unsigned arithmetic, for an x that is `age` old now: a    *)
(* tick counted after now_tick was read wraps round to a huge difference.   *)
Since(age) == (age - sinceRead) % TickMod

(* A switch-off that no poll will see: the last poll saw the relay open.     *)
Unnoticed(on) == IF on THEN unseen ELSE ~prevRelay

(* device_state_set_relay, with the refusal of the lockout. *)
SetRelay(on) ==
  IF on = relayOn \/ (on /\ lockout)
  THEN UNCHANGED <<relayOn, runAge, offFor, onSeen, unseen>>
  ELSE /\ relayOn' = on /\ unseen' = Unnoticed(on)
       /\ runAge' = 0 /\ offFor' = 0
       /\ onSeen' = TRUE

(* derive_interval: n blocks spread evenly over a day. *)
Block == IF maxOn = 0 THEN AssumedBlock ELSE maxOn
OffLength ==
  LET off == DayMinutes \div Cardinality(enabled) - Block
  IN IF off < MinOff THEN MinOff ELSE off

-----------------------------------------------------------------------------
(* The poll. *)

Sleep == pc' = "sleep" /\ left' = PollUnits /\ sinceRead' = 0 /\ slot' = NoSlot

(* Mutated form: the rest is timed from the start of the task. *)
RestFromStart == offAge

(* fb_off_since is moved by the poll that saw ON turn to OFF. *)
RestAge == IF prevRelay /\ ~relayOn THEN 0 ELSE offAge

BeginPoll ==
  /\ pc = "sleep" /\ left = 0
  /\ prevRelay' = relayOn
  /\ offAge' = RestAge
  /\ pc' = IF valid THEN "clocked" ELSE "clockless"
  /\ cutInPoll' = FALSE
  /\ UNCHANGED <<relay, clock, config, left, sinceRead, slot, lastFired, fbActive,
                 fired, calm, onSeen, offFor, unseen>>

(* Mutated forms: an ON relay counts as served, any slot of today does; the *)
(* guard is one poll shorter.                                               *)
ServedByRelay   == relayOn
ServedToday     == lastFired # NoSlot
ShortSuppressed == Since(cutAge) < Guard - PollUnits

(* This minute has been served today. *)
Served == Minute = lastFired

(* A cutoff less than a minute before now_tick. *)
Suppressed == cutAge <= Guard /\ Since(cutAge) < Guard

ReadClock ==
  /\ pc = "clocked"
  /\ fbActive' = FALSE
  /\ IF Served \/ Suppressed \/ Minute \notin enabled
     THEN Sleep
     ELSE pc' = "fire" /\ slot' = Minute /\ UNCHANGED <<left, sinceRead>>
  /\ UNCHANGED <<relay, clock, config, prevRelay, offAge, lastFired, history>>

(* The slot is remembered when the timer finds the relay open. *)
Fire ==
  /\ pc = "fire"
  /\ SetRelay(TRUE)
  /\ lastFired' = IF relayOn THEN lastFired ELSE slot
  /\ fired' = (fired \/ (~relayOn /\ relayOn' /\ slot = Minute))
  /\ Sleep
  /\ UNCHANGED <<clock, config, lockout, prevRelay, offAge, fbActive, cutInPoll, calm>>

(* Mutated form: interval mode from the first poll. *)
StandInAtOnce == enabled # {} /\ optIn

StandIn == enabled # {} /\ optIn /\ Since(bootAge) >= GraceUnits

(* Mutated form: the length of the rest is taken in seconds. *)
RestInSeconds == Since(offAge) >= OffLength * MinuteUnits * 60

BlockOver == maxOn = 0 /\ runAge >= Block * MinuteUnits
RestOver  == Since(offAge) >= OffLength * MinuteUnits

Interval ==
  /\ pc = "clockless"
  /\ fbActive' = (fbActive \/ StandIn)
  /\ IF StandIn /\ (IF prevRelay THEN BlockOver ELSE RestOver)
     THEN SetRelay(~prevRelay)
     ELSE UNCHANGED <<relayOn, runAge, offFor, onSeen, unseen>>
  /\ Sleep
  /\ UNCHANGED <<lockout, clock, config, prevRelay, offAge, lastFired,
                 cutInPoll, fired, calm>>

-----------------------------------------------------------------------------
(* Everybody else. *)

CutoffDue == relayOn /\ maxOn > 0 /\ runAge >= maxOn * MinuteUnits

(* The sensor task's run limit, within a sensor cycle of its time. *)
Cutoff ==
  /\ CutoffDue
  /\ SetRelay(FALSE)
  /\ cutAge' = 0 /\ cutInPoll' = TRUE
  /\ UNCHANGED <<lockout, tod, valid, bootAge, config, poll, fired, calm>>

(* A user, by any way in; the thermostat's switch-off looks the same. *)
Switch ==
  /\ "user" \in Others
  /\ relayOn' = ~relayOn
  /\ runAge' = 0 /\ offFor' = 0 /\ onSeen' = TRUE /\ unseen' = Unnoticed(~relayOn)
  /\ lockout' = (lockout /\ relayOn)
  /\ UNCHANGED <<clock, config, poll, cutInPoll, fired, calm>>

Leak ==
  /\ "leak" \in Others
  /\ IF lockout
     THEN lockout' = FALSE /\ UNCHANGED <<relayOn, runAge, offFor, onSeen, unseen>>
     ELSE lockout' = TRUE /\ SetRelay(FALSE)
  /\ calm' = FALSE
  /\ UNCHANGED <<clock, config, poll, cutInPoll, fired>>

Settings ==
  /\ "settings" \in Others
  /\ enabled' \in SUBSET TimerMinutes /\ maxOn' \in Limits /\ optIn' \in BOOLEAN
  /\ calm' = FALSE
  /\ UNCHANGED <<relay, clock, poll, cutInPoll, fired, onSeen, offFor, unseen>>

(* SNTP or the phone sets the clock: any time, today or another day. *)
ClockSet ==
  /\ "clock" \in Others
  /\ valid' = TRUE /\ tod' \in 0..(DayUnits - 1)
  /\ \/ UNCHANGED <<lastFired, slot>>
     \/ lastFired' = NoSlot /\ slot' = NoSlot
  /\ calm' = FALSE /\ fired' = FALSE /\ onSeen' = relayOn
  /\ UNCHANGED <<relay, bootAge, cutAge, config, pc, left, sinceRead, prevRelay, offAge,
                 fbActive, cutInPoll, offFor, unseen>>

Restart ==
  /\ "restart" \in Others
  /\ prevRelay' = relayOn /\ offAge' = 0 /\ bootAge' = 0 /\ cutAge' = Guard + 1
  /\ lastFired' = NoSlot /\ fbActive' = FALSE
  /\ Sleep
  /\ valid' = FALSE /\ lockout' = FALSE /\ runAge' = 0
  /\ calm' = FALSE /\ fired' = FALSE /\ cutInPoll' = FALSE /\ unseen' = FALSE
  /\ UNCHANGED <<tod, relayOn, config, onSeen, offFor>>

-----------------------------------------------------------------------------
NewMinute == (tod + 1) % MinuteUnits = 0
Midnight  == tod + 1 = DayUnits

(* One unit of time: not past a poll or a cutoff that is due. *)
Tick ==
  /\ IF pc = "sleep" THEN left > 0 ELSE sinceRead = 0
  /\ ~CutoffDue
  /\ tod' = (tod + 1) % DayUnits
  /\ left' = IF pc = "sleep" THEN left - 1 ELSE left
  /\ sinceRead' = IF pc = "sleep" THEN 0 ELSE 1
  /\ offAge' = Capped(offAge + 1, OffCap)
  /\ bootAge' = Capped(bootAge + 1, GraceUnits + 1)
  /\ cutAge' = Capped(cutAge + 1, Guard + 1)
  /\ runAge' = IF relayOn THEN Capped(runAge + 1, RunCap) ELSE 0
  /\ offFor' = IF relayOn THEN 0 ELSE Capped(offFor + 1, OffCap)
  /\ lastFired' = IF Midnight THEN NoSlot ELSE lastFired
  /\ slot' = IF Midnight THEN NoSlot ELSE slot
  /\ IF NewMinute
     THEN /\ fired' = FALSE /\ onSeen' = relayOn
          /\ calm' = (valid /\ ~lockout /\ cutAge' >= Guard /\ Minute + 1 # lastFired)
     ELSE UNCHANGED <<fired, onSeen, calm>>
  /\ UNCHANGED <<relayOn, lockout, valid, config, pc, prevRelay, fbActive, cutInPoll, unseen>>

Poll == BeginPoll \/ ReadClock \/ Fire \/ Interval

Next == Poll \/ Cutoff \/ Switch \/ Leak \/ Settings \/ ClockSet \/ Restart \/ Tick

Spec == Init /\ [][Next]_vars

(* Time passes, the task runs when it is due, the run limit cuts. *)
FairSpec == Spec /\ SF_vars(Tick) /\ WF_vars(Poll) /\ WF_vars(Cutoff)

-----------------------------------------------------------------------------
TimerSwitchesOn == pc = "fire" /\ pc' = "sleep" /\ ~relayOn /\ relayOn'

(* A timer never undoes the run limit within a minute of its cutoff, unless *)
(* the cutoff falls inside the very poll that fires (scheduler.c:22-27).    *)
GuardHolds == [][TimerSwitchesOn /\ ~cutInPoll => cutAge >= Guard]_vars

(* Once a timer has switched on, whoever switches off in the same minute is *)
(* obeyed: the minute is not served twice (scheduler.c:88, 182).            *)
ServedOnce == [][TimerSwitchesOn /\ slot = Minute => ~fired]_vars

(* No enabled timer's minute goes by with the geyser off throughout, unless *)
(* a lockout, a recent cutoff, a change of settings, a clock step or a       *)
(* restart got in its way (scheduler.c:172-208).                            *)
NoMissedTimer == [][Tick /\ NewMinute /\ calm /\ Minute \in enabled => onSeen]_vars

(* Interval mode keeps heating, and keeps pausing, for as long as it stands *)
(* in for the schedule (scheduler.c:42-53, 140-161).                        *)
StandsIn == ~valid /\ enabled # {} /\ optIn /\ bootAge > GraceUnits /\ ~lockout
IntervalAlternates ==
  /\ []<>(relayOn \/ ~StandsIn)
  /\ []<>(~relayOn \/ ~StandsIn)

(* Interval mode heats only after the rest that it owes the geyser, however *)
(* it went off: exact but for an on-time that began and ended between two   *)
(* polls, which the task cannot see (scheduler.c:57-74, 104-108).           *)
RestKept ==
  [][pc = "clockless" /\ pc' = "sleep" /\ ~relayOn /\ relayOn' /\ ~unseen
       => offFor >= OffLength * MinuteUnits]_vars

=============================================================================
