--------------------------- MODULE RunWindowProofs ---------------------------
(***************************************************************************)
(* Proofs about RunWindow, for limits, clock errors and outages of any     *)
(* number and length: a run with a true stamp never outlives its limit,    *)
(* and while at most one restart happens none is cut short.                *)
(***************************************************************************)
EXTENDS RunWindow, TLAPS

(* No stamp and no saved stamp of the run under way is younger than the run. *)
BoundInv ==
  relayOn => /\ since.known => drawn <= since.age
             /\ nvsSince.known => drawn <= nvsSince.age

(* No stamp is older than the time since the geyser was seen off.           *)
FedInv == since.known => since.age <= fed

(* Nor is the counter.                                                      *)
CountInv ==
  /\ pc["sensor"] = "cycle" => Counted <= fed
  /\ pc["sensor"] # "cycle" => (wasOn => acc <= fed)

(* Before the first restart the saved stamp is no older either, and goes    *)
(* when the relay opens, unless a task is still saving.                     *)
Saving == \E t \in Switchers : pc[t] \in {"saveRelay", "saveSince"}
FlashInv ==
  crashes = 0 /\ outages = 0 /\ nvsSince.known =>
    /\ nvsSince.age <= fed
    /\ ~relayOn => Saving

(* What makes the saved stamp trustworthy: no crash follows a restart that  *)
(* left its two keys apart (see NotCutShort).                               *)
OneRestart == MaxCrashes = 0 \/ MaxRestarts <= 1

EarlyInv == FedInv /\ CountInv /\ FlashInv

-----------------------------------------------------------------------------
LEMMA Sizes ==
  /\ Oldest \in Nat /\ 1 <= Oldest /\ Sane < Oldest /\ 0 \in 0..Oldest
  /\ \A l \in Limits : l \in Nat /\ l < Oldest
BY RunWindowAssumption DEF RunWindowAssumption, Oldest

(* The counter counts up to the bound.                                      *)
LEMMA CountedIs ==
  ASSUME TypeOK
  PROVE  Counted \in 0..Oldest
<1>1. acc \in Nat /\ Capped(acc + 1) \in 0..Oldest
  BY Sizes DEF TypeOK, Capped
<1>2. QED
  BY <1>1, Sizes DEF Counted

(* A stamp grows older up to the bound, and is otherwise what it was.        *)
LEMMA OlderIs ==
  ASSUME NEW stamp \in Stamps, NEW d \in Nat, NEW s, s = Older(stamp, d)
  PROVE  /\ s \in Stamps /\ s.known = stamp.known /\ s.skew = stamp.skew
         /\ s.known => s.age = IF stamp.age + d > Oldest THEN Oldest ELSE stamp.age + d
<1>1. stamp.known \in BOOLEAN /\ stamp.age \in 0..Oldest /\ stamp.skew \in Skews \cup {0}
  BY DEF Stamps
<1> DEFINE a == IF stamp.age + d > Oldest THEN Oldest ELSE stamp.age + d
<1>2. a \in 0..Oldest
  BY <1>1, Sizes
<1>3. CASE stamp.known
  <2>1. s = [stamp EXCEPT !.age = a]
    BY <1>3 DEF Older
  <2> HIDE DEF a
  <2>2. s \in Stamps /\ s.known = stamp.known /\ s.skew = stamp.skew /\ s.age = a
    BY <2>1, <1>1, <1>2 DEF Stamps
  <2>3. QED
    BY <2>2 DEF a
<1>4. CASE ~stamp.known
  BY <1>4 DEF Older
<1>5. QED
  BY <1>3, <1>4

LEMMA NoStampIs == NoStamp \in Stamps /\ NoStamp.known = FALSE
BY Sizes DEF NoStamp, Stamps

(* A new stamp is fresh, and only a relay that closes gets one.             *)
LEMMA NewStampIs ==
  ASSUME TypeOK, NEW on \in BOOLEAN
  PROVE  /\ NewStamp(on) \in Stamps
         /\ NewStamp(on).known => on /\ NewStamp(on).age = 0
<1>1. CASE on /\ valid
  <2>1. NewStamp(on) = [known |-> TRUE, age |-> 0, skew |-> skew]
    BY <1>1 DEF NewStamp
  <2>2. [known |-> TRUE, age |-> 0, skew |-> skew] \in Stamps
    BY Sizes DEF TypeOK, Stamps
  <2>3. NewStamp(on).age = 0
    BY <2>1
  <2>4. QED
    BY <1>1, <2>1, <2>2, <2>3, Zenon
<1>2. CASE ~(on /\ valid)
  BY <1>2, NoStampIs DEF NewStamp
<1>3. QED
  BY <1>1, <1>2

(* What a switch does to the stamp and the run.                             *)
LEMMA SetRelayIs ==
  ASSUME TypeOK, NEW on \in BOOLEAN, SetRelay(on)
  PROVE  /\ since' \in Stamps
         /\ since'.known => on
         /\ on = relayOn => since' = since /\ drawn' = drawn
         /\ on # relayOn => drawn' = 0 /\ (since'.known => since'.age = 0)
<1>1. CASE on = relayOn
  BY <1>1 DEF SetRelay, StampAfter, TypeOK
<1>2. CASE on # relayOn
  BY <1>2, NewStampIs DEF SetRelay, StampAfter
<1>3. QED
  BY <1>1, <1>2

(* What comes back from flash has a type, and is the saved stamp of a relay  *)
(* that comes back closed.                                                  *)
LEMMA LoadedIs ==
  ASSUME TypeOK
  PROVE  /\ LoadedSince \in Stamps
         /\ LoadedSince.known => nvsOn /\ LoadedSince = nvsSince
BY NoStampIs DEF LoadedSince, TypeOK

-----------------------------------------------------------------------------
(* Types. *)

LEMMA TypeStep ==
  ASSUME TypeOK, [Next]_vars
  PROVE  TypeOK'
<1> DEFINE Places == {"idle", "cycle", "saveRelay", "saveSince"}
<1>1. CASE Switch
  <2>1. PICK on \in BOOLEAN : SetRelay(on) /\ want' = [want EXCEPT !["other"] = on]
    BY <1>1 DEF Switch
  <2>2. relayOn' = on
    BY <2>1 DEF SetRelay
  <2>3. since' \in Stamps /\ (~relayOn' => ~since'.known)
    BY <2>1, <2>2, SetRelayIs DEF TypeOK, Stamps
  <2>4. drawn' \in 0..Oldest
    BY <2>1, Sizes DEF SetRelay, TypeOK
  <2>5. pc' \in [Switchers -> Places] /\ want' \in [Switchers -> BOOLEAN]
    BY <1>1, <2>1 DEF Switch, TypeOK
  <2>6. QED
    BY <1>1, <2>2, <2>3, <2>4, <2>5 DEF Switch, TypeOK
<1>2. CASE TimePasses
  <2>1. /\ since' \in Stamps /\ since'.known = since.known
        /\ nvsSince' \in Stamps
    BY <1>2, OlderIs DEF TimePasses, TypeOK
  <2>2. drawn' \in 0..Oldest /\ fed' \in 0..Oldest
    BY <1>2, Sizes DEF TimePasses, TypeOK, Capped
  <2>3. pc' \in [Switchers -> Places]
    BY <1>2 DEF TimePasses, TypeOK
  <2>4. ~relayOn' => ~since'.known
    BY <1>2, <2>1 DEF TimePasses, TypeOK
  <2>5. QED
    BY <1>2, <2>1, <2>2, <2>3, <2>4 DEF TimePasses, TypeOK
<1>3. CASE RunLimit
  <2>1. pc' \in [Switchers -> Places] /\ want' \in [Switchers -> BOOLEAN]
    BY <1>3 DEF RunLimit, TypeOK
  <2>2. acc' \in 0..Oldest /\ fed' \in 0..Oldest
    <3>1. Counted \in 0..Oldest
      BY CountedIs
    <3>2. QED
      BY <1>3, <3>1, Sizes DEF RunLimit, TypeOK
  <2>3. /\ relayOn' \in BOOLEAN /\ since' \in Stamps /\ wasOn' \in BOOLEAN
        /\ ~relayOn' => ~since'.known
    <3>1. CASE SetRelay(FALSE) /\ wasOn' = FALSE
      BY <3>1, SetRelayIs DEF SetRelay
    <3>2. CASE UNCHANGED <<relayOn, since>> /\ wasOn' = relayOn
      BY <3>2 DEF TypeOK
    <3>3. QED
      BY <1>3, <3>1, <3>2 DEF RunLimit
  <2>4. drawn' \in 0..Oldest
    BY <1>3, Sizes DEF RunLimit, SetRelay, TypeOK
  <2>5. QED
    BY <1>3, <2>1, <2>2, <2>3, <2>4 DEF RunLimit, TypeOK
<1>4. CASE SetLimit \/ ClockSet
  BY <1>4 DEF SetLimit, ClockSet, TypeOK
<1>5. ASSUME NEW t \in Switchers, SaveRelay(t) \/ SaveSince(t) PROVE TypeOK'
  BY <1>5 DEF SaveRelay, SaveSince, TypeOK
<1>6. ASSUME Restart
      PROVE  /\ pc' \in [Switchers -> Places] /\ want' \in [Switchers -> BOOLEAN]
             /\ acc' \in 0..Oldest /\ skew' \in Skews \cup {0}
             /\ relayOn' = nvsOn /\ nvsOn' = nvsOn /\ limit' = limit
             /\ wasOn' = FALSE /\ valid' = FALSE
  BY <1>6, Sizes DEF Restart, TypeOK
<1>7. CASE Crash
  <2>1. since' \in Stamps /\ (~nvsOn => ~since'.known)
    BY <1>7, LoadedIs DEF Crash, Stamps
  <2>2. drawn' \in 0..Oldest
    BY <1>7, Sizes DEF Crash, TypeOK
  <2>3. crashes' \in 0..MaxCrashes
    BY <1>7, RunWindowAssumption DEF Crash, TypeOK, RunWindowAssumption
  <2>4. QED
    BY <1>6, <1>7, <2>1, <2>2, <2>3 DEF Crash, TypeOK
<1>8. CASE PowerCut
  <2>1. since' \in Stamps /\ ~since'.known
    BY <1>8, NoStampIs DEF PowerCut, SinceAfterPowerOn
  <2>2. nvsSince' \in Stamps
    <3>1. PICK d \in Outages : nvsSince' = Older(nvsSince, d)
      BY <1>8 DEF PowerCut
    <3>2. QED
      BY <3>1, OlderIs, RunWindowAssumption DEF RunWindowAssumption, TypeOK
  <2>3. outages' \in 0..MaxOutages
    BY <1>8, RunWindowAssumption DEF PowerCut, TypeOK, RunWindowAssumption
  <2>4. drawn' \in 0..Oldest /\ fed' \in 0..Oldest
    BY <1>8, Sizes DEF PowerCut
  <2>5. QED
    BY <1>6, <1>8, <2>1, <2>2, <2>3, <2>4 DEF PowerCut, TypeOK
<1>9. CASE UNCHANGED vars
  BY <1>9 DEF vars, TypeOK
<1>10. QED
  BY <1>1, <1>2, <1>3, <1>4, <1>5, <1>7, <1>8, <1>9 DEF Next

-----------------------------------------------------------------------------
(* The run and its stamps. *)

LEMMA BoundStep ==
  ASSUME TypeOK, BoundInv, [Next]_vars
  PROVE  BoundInv'
<1>1. drawn \in 0..Oldest /\ since \in Stamps /\ nvsSince \in Stamps
  BY DEF TypeOK
<1>2. \A s \in Stamps : s.age \in 0..Oldest
  BY DEF Stamps
<1>3. ASSUME NEW on \in BOOLEAN, SetRelay(on), UNCHANGED nvsSince PROVE BoundInv'
  <2>1. relayOn' = on
    BY <1>3 DEF SetRelay
  <2>2. CASE on = relayOn
    BY <1>3, <2>1, <2>2, SetRelayIs DEF BoundInv
  <2>3. CASE on # relayOn
    <3>1. drawn' = 0 /\ since' \in Stamps
      BY <1>3, <2>3, SetRelayIs
    <3>2. 0 <= since'.age /\ 0 <= nvsSince'.age
      BY <1>1, <1>2, <1>3, <3>1
    <3>3. QED
      BY <3>1, <3>2 DEF BoundInv
  <2>4. QED
    BY <2>2, <2>3
<1>4. CASE Switch
  BY <1>3, <1>4 DEF Switch
<1>5. CASE TimePasses
  <2> DEFINE Aged(a) == IF a + 1 > Oldest THEN Oldest ELSE a + 1
  <2>1. /\ since'.known = since.known /\ nvsSince'.known = nvsSince.known
        /\ since'.known => since'.age = Aged(since.age)
        /\ nvsSince'.known => nvsSince'.age = Aged(nvsSince.age)
    BY <1>5, <1>1, OlderIs DEF TimePasses
  <2>2. relayOn' = relayOn /\ (relayOn => drawn' = Aged(drawn))
    BY <1>5 DEF TimePasses, Capped
  <2>3. ASSUME NEW a \in 0..Oldest, NEW b \in 0..Oldest, a <= b PROVE Aged(a) <= Aged(b)
    BY <2>3, Sizes
  <2>4. since.age \in 0..Oldest /\ nvsSince.age \in 0..Oldest
    BY <1>1, <1>2
  <2> HIDE DEF Aged
  <2>5. QED
    BY <1>1, <2>1, <2>2, <2>3, <2>4 DEF BoundInv
<1>6. CASE RunLimit
  <2>1. CASE SetRelay(FALSE)
    BY <1>3, <1>6, <2>1 DEF RunLimit
  <2>2. CASE UNCHANGED <<relayOn, since, drawn>>
    BY <1>6, <2>2 DEF RunLimit, BoundInv
  <2>3. QED
    BY <1>6, <2>1, <2>2 DEF RunLimit
<1>7. ASSUME NEW t \in Switchers, SaveRelay(t) \/ SaveSince(t) PROVE BoundInv'
  BY <1>7 DEF SaveRelay, SaveSince, BoundInv
<1>8. CASE Crash
  <2>1. relayOn' = nvsOn /\ nvsSince' = nvsSince /\ (since'.known => since' = nvsSince)
    BY <1>8, LoadedIs DEF Crash, Restart
  <2>2. CASE relayOn /\ nvsOn
    BY <1>8, <2>1, <2>2 DEF Crash, BoundInv
  <2>3. CASE ~(relayOn /\ nvsOn)
    <3>1. drawn' = 0 /\ 0 <= nvsSince.age
      BY <1>1, <1>2, <1>8, <2>3 DEF Crash
    <3>2. QED
      BY <2>1, <3>1 DEF BoundInv
  <2>4. QED
    BY <2>2, <2>3
<1>9. CASE PowerCut
  <2>1. drawn' = 0 /\ ~since'.known
    BY <1>9, NoStampIs DEF PowerCut, SinceAfterPowerOn
  <2>2. nvsSince' \in Stamps
    BY TypeStep DEF TypeOK
  <2>3. 0 <= nvsSince'.age
    BY <2>2, <1>2
  <2>4. QED
    BY <2>1, <2>3 DEF BoundInv
<1>10. CASE SetLimit \/ ClockSet \/ UNCHANGED vars
  BY <1>10 DEF SetLimit, ClockSet, vars, BoundInv
<1>11. QED
  BY <1>4, <1>5, <1>6, <1>7, <1>8, <1>9, <1>10 DEF Next

-----------------------------------------------------------------------------
(* The time since the geyser was seen off. *)

(* A cycle: one unit more for the counter, the stamps and the time alike.    *)
LEMMA TimeEarly ==
  ASSUME TypeOK, EarlyInv, TimePasses
  PROVE  EarlyInv'
<1> DEFINE Aged(a) == IF a + 1 > Oldest THEN Oldest ELSE a + 1
<1>1. /\ since \in Stamps /\ nvsSince \in Stamps /\ fed \in 0..Oldest /\ acc \in 0..Oldest
      /\ since.age \in 0..Oldest /\ nvsSince.age \in 0..Oldest
  BY DEF TypeOK, Stamps
<1>2. /\ since'.known = since.known /\ nvsSince'.known = nvsSince.known
      /\ since'.known => since'.age = Aged(since.age)
      /\ nvsSince'.known => nvsSince'.age = Aged(nvsSince.age)
  BY <1>1, OlderIs DEF TimePasses
<1>3. /\ fed' = Aged(fed) /\ UNCHANGED <<relayOn, acc, wasOn, crashes, outages>>
      /\ \A t \in Switchers : pc[t] = "idle"
      /\ pc'["sensor"] = "cycle"
  BY DEF TimePasses, Capped, TypeOK, Switchers
<1>4. ASSUME NEW a \in 0..Oldest, NEW b \in 0..Oldest, a <= b PROVE Aged(a) <= Aged(b)
  BY <1>4, Sizes
<1>5. 1 <= Aged(fed)
  BY <1>1, Sizes
<1>6. Counted' = IF wasOn THEN Aged(acc) ELSE 1
  BY <1>3 DEF Counted, Capped
<1> HIDE DEF Aged
<1>7. FedInv'
  BY <1>1, <1>2, <1>3, <1>4 DEF EarlyInv, FedInv
<1>8. CountInv'
  <2>1. wasOn => acc <= fed
    BY <1>3 DEF EarlyInv, CountInv, Switchers
  <2>2. Counted' <= fed'
    BY <1>1, <1>3, <1>4, <1>5, <1>6, <2>1
  <2>3. QED
    BY <1>3, <2>2 DEF CountInv
<1>9. FlashInv'
  <2>1. ~Saving
    BY <1>3 DEF Saving
  <2>2. ASSUME crashes' = 0, outages' = 0, nvsSince'.known
        PROVE  nvsSince'.age <= fed' /\ relayOn'
    <3>1. nvsSince.age <= fed /\ relayOn
      BY <1>2, <1>3, <2>1, <2>2 DEF EarlyInv, FlashInv
    <3>2. QED
      BY <1>1, <1>2, <1>3, <1>4, <2>2, <3>1
  <2>3. QED
    BY <2>2 DEF FlashInv
<1>10. QED
  BY <1>7, <1>8, <1>9 DEF EarlyInv

(* The sensor task forgets the time only when the relay is open and nobody   *)
(* is about to save a stamp.                                                *)
LEMMA LimitEarly ==
  ASSUME TypeOK, EarlyInv, RunLimit
  PROVE  EarlyInv'
<1>1. /\ pc["sensor"] = "cycle" /\ Counted <= fed /\ fed \in 0..Oldest
      /\ UNCHANGED <<nvsSince, crashes, outages>>
  BY DEF RunLimit, EarlyInv, CountInv, TypeOK
<1>2. CASE /\ SetRelay(FALSE) /\ pc' = [pc EXCEPT !["sensor"] = "saveRelay"]
           /\ wasOn' = FALSE /\ UNCHANGED fed
  <2>1. pc'["sensor"] = "saveRelay" /\ ~since'.known
    BY <1>2, SetRelayIs DEF TypeOK, Switchers
  <2>2. Saving'
    BY <2>1 DEF Saving, Switchers
  <2>3. QED
    BY <1>1, <1>2, <2>1, <2>2 DEF EarlyInv, FedInv, CountInv, FlashInv
<1>3. CASE /\ acc' = (IF relayOn THEN Counted ELSE 0) /\ wasOn' = relayOn
           /\ pc' = [pc EXCEPT !["sensor"] = "idle"] /\ fed' = (IF SeenOff THEN 0 ELSE fed)
           /\ UNCHANGED <<relayOn, since, drawn, want>>
  <2>1. pc'["sensor"] = "idle" /\ pc'["other"] = pc["other"]
    BY <1>3 DEF TypeOK, Switchers
  <2>2. Saving' <=> Saving
    BY <2>1, <1>1 DEF Saving, Switchers
  <2>3. relayOn => fed' = fed
    BY <1>3 DEF SeenOff
  <2>4. SeenOff => ~Saving /\ ~relayOn
    BY <1>1 DEF Saving, SeenOff, Switchers
  <2>5. FedInv'
    BY <1>3, <2>3 DEF EarlyInv, FedInv, TypeOK
  <2>6. CountInv'
    <3>1. relayOn => acc' <= fed'
      BY <1>1, <1>3, <2>3
    <3>2. QED
      BY <1>3, <2>1, <3>1 DEF CountInv
  <2>7. FlashInv'
    <3>1. ASSUME crashes' = 0, outages' = 0, nvsSince'.known
          PROVE  nvsSince'.age <= fed' /\ (~relayOn' => Saving')
      <4>1. nvsSince.age <= fed /\ (~relayOn => Saving) /\ nvsSince' = nvsSince
        BY <1>1, <3>1 DEF EarlyInv, FlashInv
      <4>2. ~SeenOff
        BY <4>1, <2>4
      <4>3. fed' = fed /\ relayOn' = relayOn
        BY <4>2, <1>3
      <4>4. QED
        BY <4>1, <4>3, <2>2
    <3>2. QED
      BY <3>1 DEF FlashInv
  <2>8. QED
    BY <2>5, <2>6, <2>7 DEF EarlyInv
<1>4. QED
  BY <1>2, <1>3 DEF RunLimit

LEMMA SwitchEarly ==
  ASSUME TypeOK, EarlyInv, Switch
  PROVE  EarlyInv'
<1>1. PICK on \in BOOLEAN : SetRelay(on)
  BY DEF Switch
<1>2. /\ UNCHANGED <<acc, wasOn, nvsSince, fed, crashes, outages>>
      /\ pc'["sensor"] = pc["sensor"] /\ pc'["other"] = "saveRelay"
  BY DEF Switch, TypeOK, Switchers
<1>3. Saving'
  BY <1>2 DEF Saving, Switchers
<1>4. since'.known => since'.age <= fed
  <2>1. CASE on = relayOn
    BY <1>1, <2>1, SetRelayIs DEF EarlyInv, FedInv
  <2>2. CASE on # relayOn
    <3>1. since'.known => since'.age = 0
      BY <1>1, <2>2, SetRelayIs
    <3>2. 0 <= fed
      BY DEF TypeOK
    <3>3. QED
      BY <3>1, <3>2
  <2>3. QED
    BY <2>1, <2>2
<1>5. Counted' = Counted
  BY <1>2 DEF Counted, Capped
<1>6. QED
  BY <1>2, <1>3, <1>4, <1>5 DEF EarlyInv, FedInv, CountInv, FlashInv

(* A save completes with the stamp of the relay as it is.                   *)
LEMMA SaveEarly ==
  ASSUME TypeOK, EarlyInv, NEW t \in Switchers, SaveRelay(t) \/ SaveSince(t)
  PROVE  EarlyInv'
<1>1. /\ UNCHANGED <<relayOn, since, acc, wasOn, fed, crashes, outages>>
      /\ pc[t] # "cycle" /\ pc'[t] # "cycle"
      /\ \A u \in Switchers \ {t} : pc'[u] = pc[u]
  BY DEF SaveRelay, SaveSince, TypeOK
<1>2. FedInv'
  BY <1>1 DEF EarlyInv, FedInv
<1>3. CountInv'
  <2>1. Counted' = Counted
    BY <1>1 DEF Counted, Capped
  <2>2. (pc'["sensor"] = "cycle") <=> (pc["sensor"] = "cycle")
    BY <1>1 DEF Switchers
  <2>3. QED
    BY <1>1, <2>1, <2>2 DEF EarlyInv, CountInv
<1>4. FlashInv'
  <2>1. CASE SaveRelay(t)
    <3>1. pc'[t] = "saveSince" /\ nvsSince' = nvsSince
      BY <2>1 DEF SaveRelay, TypeOK
    <3>2. Saving'
      BY <3>1 DEF Saving
    <3>3. QED
      BY <1>1, <3>1, <3>2 DEF EarlyInv, FlashInv
  <2>2. CASE SaveSince(t)
    <3>1. nvsSince' = since
      BY <2>2 DEF SaveSince
    <3>2. QED
      BY <1>1, <3>1 DEF EarlyInv, FedInv, FlashInv, TypeOK
  <2>3. QED
    BY <2>1, <2>2
<1>5. QED
  BY <1>2, <1>3, <1>4 DEF EarlyInv

(* The one crash finds the saved stamp as trustworthy as the live one; an    *)
(* outage drops it.                                                         *)
LEMMA RestartEarly ==
  ASSUME OneRestart, TypeOK, EarlyInv, Crash \/ PowerCut
  PROVE  EarlyInv'
<1>1. /\ crashes \in Nat /\ outages \in Nat /\ MaxCrashes \in Nat /\ MaxRestarts \in Nat
  BY RunWindowAssumption DEF RunWindowAssumption, TypeOK
<1>2. ~(crashes' = 0 /\ outages' = 0)
  BY <1>1 DEF Crash, PowerCut
<1>3. pc'["sensor"] = "idle" /\ wasOn' = FALSE
  BY DEF Crash, PowerCut, Restart, Switchers
<1>4. FedInv'
  <2>1. CASE Crash
    <3>1. crashes = 0 /\ outages = 0
      BY <1>1, <2>1 DEF OneRestart, Crash
    <3>2. since'.known => since' = nvsSince
      BY <2>1, LoadedIs DEF Crash
    <3>3. fed' = fed
      BY <2>1 DEF Crash
    <3>4. QED
      BY <3>1, <3>2, <3>3 DEF EarlyInv, FlashInv, FedInv
  <2>2. CASE PowerCut
    BY <2>2, NoStampIs DEF PowerCut, SinceAfterPowerOn, FedInv
  <2>3. QED
    BY <2>1, <2>2
<1>5. QED
  BY <1>2, <1>3, <1>4 DEF EarlyInv, CountInv, FlashInv

LEMMA EarlyStep ==
  ASSUME OneRestart, TypeOK, EarlyInv, [Next]_vars
  PROVE  EarlyInv'
<1>1. CASE SetLimit \/ ClockSet \/ UNCHANGED vars
  <2>1. UNCHANGED <<relayOn, since, acc, wasOn, nvsSince, pc, fed, crashes, outages>>
    BY <1>1 DEF SetLimit, ClockSet, vars
  <2>2. Counted' = Counted /\ Saving' = Saving
    BY <2>1 DEF Counted, Capped, Saving
  <2>3. QED
    BY <2>1, <2>2 DEF EarlyInv, FedInv, CountInv, FlashInv
<1>2. QED
  BY <1>1, TimeEarly, LimitEarly, SwitchEarly, SaveEarly, RestartEarly DEF Next

-----------------------------------------------------------------------------
LEMMA Initially == Init => TypeOK /\ BoundInv /\ EarlyInv
<1> SUFFICES ASSUME Init PROVE TypeOK /\ BoundInv /\ EarlyInv
  OBVIOUS
<1>1. since = NoStamp /\ nvsSince = NoStamp
  BY DEF Init
<1>2. TypeOK
  <2>1. crashes \in 0..MaxCrashes /\ outages \in 0..MaxOutages
    BY RunWindowAssumption DEF Init, RunWindowAssumption
  <2>2. pc \in [Switchers -> {"idle", "cycle", "saveRelay", "saveSince"}]
    BY DEF Init
  <2>3. QED
    BY <1>1, <2>1, <2>2, NoStampIs, Sizes DEF Init, TypeOK
<1>3. BoundInv
  BY DEF Init, BoundInv
<1>4. EarlyInv
  <2>1. pc["sensor"] = "idle" /\ wasOn = FALSE
    BY DEF Init, Switchers
  <2>2. QED
    BY <1>1, <2>1, NoStampIs DEF EarlyInv, FedInv, CountInv, FlashInv
<1>5. QED
  BY <1>2, <1>3, <1>4

LEMMA BoundInvariance == Spec => [](TypeOK /\ BoundInv)
<1>1. TypeOK /\ BoundInv /\ [Next]_vars => (TypeOK /\ BoundInv)'
  BY TypeStep, BoundStep
<1>2. QED
  BY <1>1, Initially, PTL DEF Spec

(* Types, and a relay that is off has no stamp, whatever was loaded from     *)
(* flash (nvs_store.c:61-66).                                               *)
THEOREM TypeCorrect == Spec => []TypeOK
BY BoundInvariance, PTL

(* With a usable, true stamp no run outlives the limit, restarts of any      *)
(* number and kind included: a stamp is never younger than the run          *)
(* (device_state.h:144-148, temperature.c:350-395).                         *)
THEOREM NoOverrun == Spec => RunBounded
<1> DEFINE Step == pc["sensor"] = "cycle" /\ pc'["sensor"] = "idle" /\ relayOn /\ relayOn'
                     /\ crashes' = crashes /\ outages' = outages
                     /\ limit > 0 /\ StampUsable /\ TrueClock
                   => drawn < limit
<1>1. TypeOK /\ BoundInv /\ [Next]_vars => Step
  <2> SUFFICES ASSUME TypeOK, BoundInv, [Next]_vars,
                      pc["sensor"] = "cycle", pc'["sensor"] = "idle", relayOn,
                      crashes' = crashes, outages' = outages,
                      limit > 0, StampUsable, TrueClock
               PROVE  drawn < limit
    OBVIOUS
  <2>1. RunLimit
    <3>1. crashes \in Nat /\ outages \in Nat
      BY DEF TypeOK
    <3>2. ~Crash /\ ~PowerCut
      BY <3>1 DEF Crash, PowerCut
    <3>3. ~Switch /\ ~TimePasses /\ ~SetLimit /\ ~ClockSet /\ ~UNCHANGED vars
      BY DEF Switch, TimePasses, SetLimit, ClockSet, vars, TypeOK, Switchers
    <3>4. ASSUME NEW t \in Switchers PROVE ~SaveRelay(t) /\ ~SaveSince(t)
      BY DEF SaveRelay, SaveSince, TypeOK, Switchers
    <3>5. QED
      BY <3>2, <3>3, <3>4 DEF Next
  <2>2. ~Due
    BY <2>1 DEF RunLimit, TypeOK, Switchers
  <2>3. ~(Elapsed >= limit)
    BY <2>2 DEF Due, CurrentOn
  <2>4. since.known /\ since.age \in Nat /\ limit \in Nat /\ drawn \in Nat
    BY Sizes DEF StampUsable, TypeOK, Stamps
  <2>5. Elapsed = since.age
    BY <2>4 DEF Elapsed, TrueClock
  <2>6. drawn <= since.age
    BY <2>4 DEF BoundInv
  <2>7. QED
    BY <2>3, <2>4, <2>5, <2>6
<1> HIDE DEF Step
<1>2. TypeOK /\ BoundInv /\ [Next]_vars => [Step]_vars
  BY <1>1
<1>3. Spec => [][Step]_vars
  BY <1>2, BoundInvariance, PTL DEF Spec
<1>4. QED
  BY <1>3 DEF RunBounded, Step

(* With a true clock the limit never cuts a geyser short, as long as no      *)
(* crash follows another restart: two restarts can leave the keys of two    *)
(* runs together in flash (main.c:86-94, temperature.c:350-358).            *)
THEOREM NotCutShort ==
  ASSUME OneRestart
  PROVE  Spec => NoEarlyCutoff
<1> DEFINE Step == Cutoff /\ TrueClock => fed >= limit
           Inv  == TypeOK /\ EarlyInv
<1>1. Spec => []Inv
  <2>1. Init => Inv
    BY Initially
  <2>2. Inv /\ [Next]_vars => Inv'
    BY TypeStep, EarlyStep
  <2> HIDE DEF Inv
  <2>3. QED
    BY <2>1, <2>2, PTL DEF Spec
<1>2. Inv /\ [Next]_vars => Step
  <2> SUFFICES ASSUME TypeOK, EarlyInv, [Next]_vars, Cutoff, TrueClock PROVE fed >= limit
    OBVIOUS
  <2>1. RunLimit
    <3>1. ~Switch /\ ~TimePasses /\ ~SetLimit /\ ~ClockSet /\ ~UNCHANGED vars
      BY DEF Switch, TimePasses, SetLimit, ClockSet, vars, TypeOK, Switchers, Cutoff
    <3>2. ~Crash /\ ~PowerCut
      BY DEF Crash, PowerCut, Restart, Switchers, Cutoff
    <3>3. ASSUME NEW t \in Switchers PROVE ~SaveRelay(t) /\ ~SaveSince(t)
      BY DEF SaveRelay, SaveSince, TypeOK, Switchers, Cutoff
    <3>4. QED
      BY <3>1, <3>2, <3>3 DEF Next
  <2>2. Due
    BY <2>1 DEF RunLimit, Cutoff
  <2>3. Counted <= fed /\ Counted \in Nat /\ fed \in Nat /\ limit \in Nat
    BY <2>1, CountedIs, Sizes DEF RunLimit, EarlyInv, CountInv, TypeOK
  <2>4. CASE StampUsable
    <3>1. since.known /\ since.age \in Nat
      BY <2>4 DEF StampUsable, TypeOK, Stamps
    <3>2. Elapsed = since.age
      BY <3>1 DEF Elapsed, TrueClock
    <3>3. since.age <= fed
      BY <3>1 DEF EarlyInv, FedInv
    <3>4. Elapsed >= limit
      BY <2>2, <2>4 DEF Due, CurrentOn
    <3>5. QED
      BY <2>3, <3>1, <3>2, <3>3, <3>4
  <2>5. CASE ~StampUsable
    <3>1. Counted >= limit
      BY <2>2, <2>5 DEF Due, CurrentOn
    <3>2. QED
      BY <2>3, <3>1
  <2>6. QED
    BY <2>4, <2>5
<1> HIDE DEF Step, Inv
<1>3. Inv /\ [Next]_vars => [Step]_vars
  BY <1>2
<1>4. Spec => [][Step]_vars
  BY <1>1, <1>3, PTL DEF Spec
<1>5. QED
  BY <1>4 DEF NoEarlyCutoff, Step

=============================================================================
