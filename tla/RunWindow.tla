------------------------------ MODULE RunWindow ------------------------------
(***************************************************************************)
(* The maximum continuous run: how long the geyser has been ON, and when   *)
(* the sensor task switches it off.                                        *)
(*                                                                         *)
(* The start of the ON stretch is stamped with the wall clock, kept in     *)
(* flash next to the relay, and survives a restart; when the clock is      *)
(* unusable a counter in RAM, advanced once per sensor cycle, stands in.   *)
(* Time is counted in sensor cycles (10 s).  A stamp is kept as the true   *)
(* time since it was taken plus the error the wall clock had at that       *)
(* moment, so the model needs no absolute time.                            *)
(***************************************************************************)
EXTENDS Integers

CONSTANTS
  Limits,      \* values the user gives max_on_minutes, 0 for "Off"
  Skews,       \* errors of the wall clock after a synchronisation
  Spread,      \* bound: two of them differ by no more
  Outages,     \* lengths of a power cut, in cycles
  Sane,        \* 2 x 24 h: an older stamp is not believed
  MaxCrashes, MaxOutages,    \* bounds on each kind of restart
  MaxRestarts                \* bound on both together

ASSUME RunWindowAssumption ==
  /\ Limits \subseteq Nat /\ Skews \subseteq Int /\ Outages \subseteq Nat
  /\ Spread \in Nat /\ \A a, b \in Skews : a - b <= Spread
  /\ Sane \in Nat
  /\ MaxCrashes \in Nat /\ MaxOutages \in Nat /\ MaxRestarts \in Nat
  /\ \A l \in Limits : l <= Sane

VARIABLES
  relayOn,           \* s_state.relay_on
  since,             \* s_state.relay_on_since
  limit,             \* s_state.max_on_minutes, in cycles
  acc, wasOn,        \* s_relay_on_seconds, s_was_relay_on
  valid, skew,       \* s_time_valid, and how wrong the wall clock is
  nvsOn, nvsSince,   \* keys "relay" and "on_since"
  pc, want,          \* the two tasks that switch and then save
  drawn,             \* history: true time since the relay last closed
  fed,               \* history: true time since a sensor cycle found the geyser
                     \* off, or its power came back
  crashes, outages   \* restarts so far

vars == <<relayOn, since, limit, acc, wasOn, valid, skew, nvsOn, nvsSince,
          pc, want, drawn, fed, crashes, outages>>

Switchers == {"sensor", "other"}   \* the run limit; everybody else

(* Ages beyond this bound are all disbelieved alike. *)
Oldest == Sane + Spread + 1

NoStamp == [known |-> FALSE, age |-> 0, skew |-> 0]
Stamps  == [known : BOOLEAN, age : 0..Oldest, skew : Skews \cup {0}]

Older(stamp, d) ==
  IF stamp.known
  THEN [stamp EXCEPT !.age = IF @ + d > Oldest THEN Oldest ELSE @ + d]
  ELSE stamp

TypeOK ==
  /\ relayOn \in BOOLEAN /\ nvsOn \in BOOLEAN
  /\ wasOn \in BOOLEAN /\ valid \in BOOLEAN
  /\ since \in Stamps /\ nvsSince \in Stamps
  /\ limit \in Limits /\ skew \in Skews \cup {0}
  /\ acc \in 0..Oldest /\ drawn \in 0..Oldest /\ fed \in 0..Oldest
  /\ pc \in [Switchers -> {"idle", "cycle", "saveRelay", "saveSince"}]
  /\ want \in [Switchers -> BOOLEAN]
  /\ crashes \in 0..MaxCrashes /\ outages \in 0..MaxOutages
  /\ ~relayOn => ~since.known          \* 0 when the relay is off

Init ==
  /\ relayOn = FALSE /\ nvsOn = FALSE
  /\ since = NoStamp /\ nvsSince = NoStamp
  /\ limit \in Limits
  /\ acc = 0 /\ wasOn = FALSE
  /\ valid = FALSE /\ skew = 0
  /\ pc = [t \in Switchers |-> "idle"]
  /\ want = [t \in Switchers |-> FALSE]
  /\ drawn = 0 /\ fed = 0 /\ crashes = 0 /\ outages = 0

-----------------------------------------------------------------------------
(* temperature_current_on_seconds. *)

Elapsed == since.age + skew - since.skew

StampUsable ==
  /\ since.known /\ valid
  /\ Elapsed >= 0               \* (uint32_t)now >= since
  /\ Elapsed <= Sane

(* The RAM counter stands in for a stamp nobody can read. *)
CurrentOn(counter) == IF StampUsable THEN Elapsed ELSE counter

-----------------------------------------------------------------------------
(* device_state_set_relay: a change stamps the new stretch, a repetition     *)
(* leaves the stamp alone.                                                  *)

NewStamp(on) ==
  IF on /\ valid THEN [known |-> TRUE, age |-> 0, skew |-> skew] ELSE NoStamp

(* Mutated form: every ON command restarts the window. *)
RestampedByRepetition(on) == NewStamp(on)

StampAfter(on) == IF on = relayOn THEN since ELSE NewStamp(on)

SetRelay(on) ==
  /\ relayOn' = on
  /\ since' = StampAfter(on)
  /\ drawn' = IF on = relayOn THEN drawn ELSE 0

(* A user, a timer, the thermostat or a leak switches. *)
Switch ==
  /\ pc["other"] = "idle"
  /\ \E on \in BOOLEAN :
       /\ SetRelay(on)
       /\ want' = [want EXCEPT !["other"] = on]
  /\ pc' = [pc EXCEPT !["other"] = "saveRelay"]
  /\ UNCHANGED <<limit, acc, wasOn, valid, skew, nvsOn, nvsSince, fed, crashes, outages>>

(* nvs_store_save_relay: the flag the caller gives, then the stamp read      *)
(* again from the live state.                                               *)
SaveRelay(t) ==
  /\ pc[t] = "saveRelay"
  /\ nvsOn' = want[t]
  /\ pc' = [pc EXCEPT ![t] = "saveSince"]
  /\ UNCHANGED <<relayOn, since, limit, acc, wasOn, valid, skew, nvsSince, want,
                 drawn, fed, crashes, outages>>

SaveSince(t) ==
  /\ pc[t] = "saveSince"
  /\ nvsSince' = since
  /\ pc' = [pc EXCEPT ![t] = "idle"]
  /\ want' = [want EXCEPT ![t] = FALSE]
  /\ UNCHANGED <<relayOn, since, limit, acc, wasOn, valid, skew, nvsOn,
                 drawn, fed, crashes, outages>>

-----------------------------------------------------------------------------
(* The sensor task. *)

Capped(n) == IF n > Oldest THEN Oldest ELSE n

(* vTaskDelay: ten seconds, in which every save that had begun is over. *)
TimePasses ==
  /\ \A t \in Switchers : pc[t] = "idle"
  /\ pc' = [pc EXCEPT !["sensor"] = "cycle"]
  /\ since' = Older(since, 1) /\ nvsSince' = Older(nvsSince, 1)
  /\ drawn' = IF relayOn THEN Capped(drawn + 1) ELSE 0
  /\ fed' = Capped(fed + 1)
  /\ UNCHANGED <<relayOn, limit, acc, wasOn, valid, skew, nvsOn, want, crashes, outages>>

(* The counter of this cycle: ten seconds more, from zero if the previous    *)
(* cycle saw the relay open.                                                *)
Counted == IF wasOn THEN Capped(acc + 1) ELSE 1

(* Mutated form: only the stamp is consulted. *)
StampOnlyDue == StampUsable /\ Elapsed >= limit

Due == CurrentOn(Counted) >= limit

(* The cycle finds the geyser off, for good. *)
SeenOff == ~relayOn /\ pc["other"] = "idle"

RunLimit ==
  /\ pc["sensor"] = "cycle"
  /\ IF relayOn /\ limit > 0 /\ Due
     THEN /\ SetRelay(FALSE)
          /\ want' = [want EXCEPT !["sensor"] = FALSE]
          /\ pc' = [pc EXCEPT !["sensor"] = "saveRelay"]
          /\ acc' = 0 /\ wasOn' = FALSE
          /\ UNCHANGED fed
     ELSE /\ acc' = (IF relayOn THEN Counted ELSE 0)
          /\ wasOn' = relayOn
          /\ pc' = [pc EXCEPT !["sensor"] = "idle"]
          /\ fed' = (IF SeenOff THEN 0 ELSE fed)
          /\ UNCHANGED <<relayOn, since, drawn, want>>
  /\ UNCHANGED <<limit, valid, skew, nvsOn, nvsSince, crashes, outages>>

(* A user changes the limit (clamped below the sanity bound). *)
SetLimit ==
  /\ limit' \in Limits
  /\ UNCHANGED <<relayOn, since, acc, wasOn, valid, skew, nvsOn, nvsSince, pc, want,
                 drawn, fed, crashes, outages>>

(* SNTP, or the phone over BLE. *)
ClockSet ==
  /\ valid' = TRUE /\ skew' \in Skews
  /\ UNCHANGED <<relayOn, since, limit, acc, wasOn, nvsOn, nvsSince, pc, want,
                 drawn, fed, crashes, outages>>

-----------------------------------------------------------------------------
(* Restarts: the flash record comes back, everything in RAM starts afresh.  *)

(* Mutated form: the stamp comes back whatever the relay. *)
LoadedAlways == nvsSince

LoadedSince == IF nvsOn THEN nvsSince ELSE NoStamp

Restart ==
  /\ relayOn' = nvsOn
  /\ acc' = 0 /\ wasOn' = FALSE
  /\ valid' = FALSE /\ skew' = 0
  /\ pc' = [t \in Switchers |-> "idle"]
  /\ want' = [t \in Switchers |-> FALSE]
  /\ UNCHANGED <<limit, nvsOn>>

(* Panic, watchdog or update: about a second, the window resumes. *)
Crash ==
  /\ crashes < MaxCrashes /\ crashes + outages < MaxRestarts
  /\ crashes' = crashes + 1
  /\ Restart
  /\ since' = LoadedSince
  /\ drawn' = IF relayOn /\ nvsOn THEN drawn ELSE 0
  /\ UNCHANGED <<nvsSince, fed, outages>>

(* Mutated form: the stamp survives the power cut. *)
KeptSince == LoadedSince

(* A power cut: on power-on the stamp is dropped, in RAM. *)
SinceAfterPowerOn == NoStamp

PowerCut ==
  /\ outages < MaxOutages /\ crashes + outages < MaxRestarts
  /\ outages' = outages + 1
  /\ Restart
  /\ since' = SinceAfterPowerOn
  /\ \E d \in Outages : nvsSince' = Older(nvsSince, d)
  /\ drawn' = 0 /\ fed' = 0
  /\ UNCHANGED crashes

-----------------------------------------------------------------------------
Next ==
  \/ Switch \/ TimePasses \/ RunLimit \/ SetLimit \/ ClockSet
  \/ \E t \in Switchers : SaveRelay(t) \/ SaveSince(t)
  \/ Crash \/ PowerCut

Spec == Init /\ [][Next]_vars

(* Tasks run: the sensor task runs its cycle and saves complete; time passes *)
(* however often somebody switches, for a save takes milliseconds.          *)
FairSpec ==
  /\ Spec
  /\ SF_vars(TimePasses) /\ WF_vars(RunLimit)
  /\ \A t \in Switchers : WF_vars(SaveRelay(t) \/ SaveSince(t))

-----------------------------------------------------------------------------
Cutoff == pc["sensor"] = "cycle" /\ relayOn /\ ~relayOn' /\ pc'["sensor"] = "saveRelay"

(* The wall clock is right, and was when the run began. *)
TrueClock == skew = 0 /\ since.skew = 0

(* The limit never cuts a geyser short: every cutoff comes `limit` cycles or *)
(* more after the sensor task last saw it off or its power came back, with a *)
(* true clock and wherever a restart falls (main.c:86-94,                    *)
(* temperature.c:350-358).                                                   *)
NoEarlyCutoff == [][Cutoff /\ TrueClock => fed >= limit]_vars

(* With a usable, true stamp no run outlives the limit: a cycle that leaves *)
(* the relay closed leaves it below the limit, restarts included            *)
(* (device_state.h:144-148).                                                *)
RunBounded ==
  [][pc["sensor"] = "cycle" /\ pc'["sensor"] = "idle" /\ relayOn /\ relayOn'
       /\ crashes' = crashes /\ outages' = outages
       /\ limit > 0 /\ StampUsable /\ TrueClock
     => drawn < limit]_vars

(* Even with no clock at all, every run ends while a limit is set           *)
(* (temperature.c:93-98, 350-382).                                          *)
RunsEnd == []<>(~relayOn \/ limit = 0)

=============================================================================
