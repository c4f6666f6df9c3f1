--------------------------- MODULE SchedulerProofs ---------------------------
(***************************************************************************)
(* Proofs about Scheduler, for days, minutes, polls and timers of any      *)
(* number and length.                                                      *)
(***************************************************************************)
EXTENDS Scheduler, FiniteSetTheorems, TLAPS

(* Where in its minute the clock is. *)
InMinute == tod % MinuteUnits

(* No poll comes before the first period is over, and a poll starts with a   *)
(* tick count that is up to date.                                           *)
PollInv ==
  /\ bootAge = 0 => pc = "sleep" /\ left = PollUnits
  /\ pc = "sleep" => sinceRead = 0

(* A timer about to switch is out of the guard, but for a cutoff in its poll. *)
GuardInv ==
  /\ pc \in {"clocked", "fire"} /\ ~cutInPoll /\ sinceRead = 1 => cutAge >= 1
  /\ pc = "fire" /\ ~cutInPoll => cutAge >= Guard

(* A minute that was served is remembered, and no timer is about to switch.  *)
ServedInv == fired => lastFired = Minute /\ pc # "fire"

(* A rest that is under way has not lasted longer than the geyser was off.   *)
RestInv ==
  /\ ~relayOn /\ ~prevRelay /\ ~unseen => offAge <= offFor
  /\ OffCap > 0 /\ sinceRead = 1 => offAge >= 1

(* A minute that is to be served, and is not yet, will see a poll end before *)
(* it is over, with nothing to stop it.                                     *)
MissInv ==
  calm /\ ~onSeen /\ Minute \in enabled =>
    /\ ~relayOn /\ valid /\ ~lockout /\ lastFired # Minute
    /\ cutAge >= Guard /\ (cutAge = Guard => InMinute = 0)
    /\ pc = "sleep" => InMinute + left <= PollUnits
    /\ pc \in {"clocked", "fire"} => InMinute <= PollUnits + sinceRead
    /\ pc = "clockless" => InMinute = 0 /\ sinceRead = 1

IInv == TypeOK /\ PollInv /\ GuardInv /\ ServedInv /\ RestInv

-----------------------------------------------------------------------------
(* Arithmetic. *)

(* Quotient and remainder.                                                  *)
LEMMA Division ==
  ASSUME NEW a \in Nat, NEW m \in Nat \ {0}
  PROVE  /\ a \div m \in Nat /\ a % m \in 0..(m - 1)
         /\ a = (a \div m) * m + (a % m)
<1>1. a \div m \in Nat
  OBVIOUS
<1>2. a % m \in 0..(m - 1)
  OBVIOUS
<1>3. a = (a \div m) * m + (a % m)
  BY SMTT(30)
<1>4. QED
  BY <1>1, <1>2, <1>3

LEMMA Times ==
  ASSUME NEW m \in Nat, NEW p \in Nat, NEW q \in Nat, p < q
  PROVE  m * p + m <= m * q /\ m * p \in Nat /\ m * q \in Nat
<1>1. PICK d \in Nat : q = p + 1 + d
  <2>1. q - (p + 1) \in Nat /\ q = p + 1 + (q - (p + 1))
    OBVIOUS
  <2>2. QED
    BY <2>1
<1>2. m * q = m * p + m + m * d /\ m * d \in Nat /\ m * p \in Nat
  BY <1>1
<1>3. QED
  BY <1>2

(* There is only one way to divide.                                         *)
LEMMA OneQuotient ==
  ASSUME NEW a \in Nat, NEW m \in Nat \ {0}, NEW q \in Nat, NEW r \in 0..(m - 1),
         a = m * q + r
  PROVE  a \div m = q /\ a % m = r
<1> DEFINE p == a \div m
           s == a % m
<1>1. p \in Nat /\ s \in 0..(m - 1) /\ a = p * m + s
  BY Division
<1> HIDE DEF p, s
<1>2. ~(p < q)
  <2> SUFFICES ASSUME p < q PROVE FALSE
    OBVIOUS
  <2>1. m * p + m <= m * q /\ m * p \in Nat /\ m * q \in Nat
    BY <1>1, Times
  <2> DEFINE x == m * p
             y == m * q
  <2> HIDE DEF x, y
  <2>2. x \in Nat /\ y \in Nat /\ x + m <= y /\ a = x + s /\ a = y + r
    BY <2>1, <1>1 DEF x, y
  <2>3. QED
    BY <2>2, <1>1
<1>3. ~(q < p)
  <2> SUFFICES ASSUME q < p PROVE FALSE
    OBVIOUS
  <2>1. m * q + m <= m * p /\ m * p \in Nat /\ m * q \in Nat
    BY <1>1, Times
  <2> DEFINE x == m * p
             y == m * q
  <2> HIDE DEF x, y
  <2>2. x \in Nat /\ y \in Nat /\ y + m <= x /\ a = x + s /\ a = y + r
    BY <2>1, <1>1 DEF x, y
  <2>3. QED
    BY <2>2, <1>1
<1>4. p = q
  BY <1>1, <1>2, <1>3
<1>5. s = r
  <2> DEFINE x == m * q
  <2>1. x \in Nat
    OBVIOUS
  <2> HIDE DEF x
  <2>2. a = x + s /\ a = x + r
    BY <1>1, <1>4 DEF x
  <2>3. QED
    BY <1>1, <2>1, <2>2
<1>6. QED
  BY <1>4, <1>5 DEF p, s

(* One more: the next remainder, or the next quotient.                      *)
LEMMA OneMore ==
  ASSUME NEW a \in Nat, NEW m \in Nat \ {0}
  PROVE  IF a % m = m - 1
         THEN (a + 1) % m = 0 /\ (a + 1) \div m = (a \div m) + 1
         ELSE (a + 1) % m = (a % m) + 1 /\ (a + 1) \div m = a \div m
<1> DEFINE q == a \div m
           r == a % m
<1>1. q \in Nat /\ r \in 0..(m - 1) /\ a = q * m + r
  BY Division
<1> HIDE DEF q, r
<1>2. CASE r = m - 1
  <2>1. m * (q + 1) = m * q + m /\ m * q \in Nat
    BY <1>1
  <2> DEFINE x == m * q
  <2> HIDE DEF x
  <2>2. a + 1 = m * (q + 1) + 0
    BY <1>1, <1>2, <2>1 DEF x
  <2>3. (a + 1) \div m = q + 1 /\ (a + 1) % m = 0
    BY <1>1, <2>2, OneQuotient
  <2>4. QED
    BY <1>2, <2>3 DEF q, r
<1>3. CASE r # m - 1
  <2>1. r + 1 \in 0..(m - 1) /\ a + 1 = m * q + (r + 1)
    BY <1>1, <1>3
  <2>2. (a + 1) \div m = q /\ (a + 1) % m = r + 1
    BY <1>1, <2>1, OneQuotient
  <2>3. QED
    BY <1>3, <2>2 DEF q, r
<1>4. QED
  BY <1>2, <1>3

-----------------------------------------------------------------------------
(* Operators of the model. *)

LEMMA Sizes ==
  /\ DayMinutes \in Nat \ {0} /\ MinuteUnits \in Nat \ {0} /\ DayUnits \in Nat \ {0}
  /\ PollUnits \in 1..MinuteUnits /\ GraceUnits \in Nat /\ OffCap \in Nat /\ RunCap \in Nat
  /\ TickMod \in Nat /\ TickMod > OffCap + GraceUnits + MinuteUnits + 1
  /\ TimerMinutes \subseteq 0..(DayMinutes - 1) /\ NoSlot \notin TimerMinutes
BY SchedulerAssumption DEF SchedulerAssumption, DayUnits, RunCap, NoSlot

(* The unsigned difference, of a tick that was counted before the poll's.    *)
LEMMA SinceIs ==
  ASSUME NEW age \in Nat, age < TickMod, sinceRead \in 0..1, sinceRead <= age
  PROVE  Since(age) = age - sinceRead
<1> DEFINE d == age - sinceRead
<1>1. d \in 0..(TickMod - 1) /\ TickMod \in Nat \ {0}
  BY Sizes
<1> HIDE DEF d
<1>2. d \in Nat /\ d = TickMod * 0 + d
  BY <1>1
<1>3. d % TickMod = d
  BY <1>1, <1>2, OneQuotient
<1>4. QED
  BY <1>3 DEF Since, d

(* One unit of time: within the minute, or into the next.                   *)
LEMMA TickIs ==
  ASSUME TypeOK, tod' = (tod + 1) % DayUnits
  PROVE  /\ tod' \in 0..(DayUnits - 1)
         /\ InMinute \in 0..(MinuteUnits - 1)
         /\ NewMinute => InMinute = MinuteUnits - 1 /\ InMinute' = 0
         /\ NewMinute => Minute' = IF Midnight THEN 0 ELSE Minute + 1
         /\ ~NewMinute => Minute' = Minute /\ InMinute' = InMinute + 1 /\ ~Midnight
<1>1. tod \in Nat /\ tod < DayUnits /\ DayUnits \in Nat \ {0} /\ MinuteUnits \in Nat \ {0}
  BY Sizes DEF TypeOK
<1>2. InMinute \in 0..(MinuteUnits - 1)
  BY <1>1, Division DEF InMinute
<1>3. Midnight => NewMinute
  <2> SUFFICES ASSUME tod + 1 = DayUnits PROVE (tod + 1) % MinuteUnits = 0
    BY DEF Midnight, NewMinute
  <2>1. tod + 1 = MinuteUnits * DayMinutes + 0 /\ tod + 1 \in Nat
    BY <1>1, Sizes DEF DayUnits
  <2>2. 0 \in 0..(MinuteUnits - 1) /\ DayMinutes \in Nat
    BY Sizes
  <2>3. QED
    BY <1>1, <2>1, <2>2, OneQuotient
<1>4. tod' = IF Midnight THEN 0 ELSE tod + 1
  <2>1. CASE Midnight
    <3>1. tod + 1 = DayUnits * 1 + 0 /\ tod + 1 \in Nat /\ 0 \in 0..(DayUnits - 1)
      BY <1>1, <2>1 DEF Midnight
    <3>2. (tod + 1) % DayUnits = 0
      BY <1>1, <3>1, OneQuotient
    <3>3. QED
      BY <2>1, <3>2
  <2>2. CASE ~Midnight
    <3>1. tod + 1 = DayUnits * 0 + (tod + 1) /\ tod + 1 \in Nat /\ tod + 1 \in 0..(DayUnits - 1)
      BY <1>1, <2>2 DEF Midnight
    <3>2. (tod + 1) % DayUnits = tod + 1
      BY <1>1, <3>1, OneQuotient
    <3>3. QED
      BY <2>2, <3>2
  <2>3. QED
    BY <2>1, <2>2
<1>5. tod' \in 0..(DayUnits - 1)
  BY <1>1, <1>4 DEF Midnight
<1>6. IF InMinute = MinuteUnits - 1
      THEN NewMinute /\ (tod + 1) \div MinuteUnits = Minute + 1
      ELSE (tod + 1) % MinuteUnits = InMinute + 1 /\ (tod + 1) \div MinuteUnits = Minute
  BY <1>1, OneMore DEF InMinute, NewMinute, Minute
<1>7. NewMinute => InMinute = MinuteUnits - 1
  <2> SUFFICES ASSUME NewMinute, InMinute # MinuteUnits - 1 PROVE FALSE
    OBVIOUS
  <2>1. InMinute + 1 = 0
    BY <1>6 DEF NewMinute
  <2>2. QED
    BY <1>2, <2>1
<1>8. CASE Midnight
  <2>1. tod' = 0 /\ NewMinute
    BY <1>3, <1>4, <1>8
  <2>2. 0 = MinuteUnits * 0 + 0 /\ 0 \in 0..(MinuteUnits - 1)
    BY <1>1
  <2>3. 0 \div MinuteUnits = 0 /\ 0 % MinuteUnits = 0
    BY <1>1, <2>2, OneQuotient
  <2>4. Minute' = 0 /\ InMinute' = 0
    BY <2>1, <2>3 DEF Minute, InMinute
  <2>5. QED
    BY <1>2, <1>5, <1>7, <1>8, <2>1, <2>4
<1>9. CASE ~Midnight
  <2>1. Minute' = (tod + 1) \div MinuteUnits /\ InMinute' = (tod + 1) % MinuteUnits
    BY <1>4, <1>9 DEF Minute, InMinute
  <2>2. CASE NewMinute
    BY <1>2, <1>5, <1>6, <1>7, <1>9, <2>1, <2>2 DEF NewMinute
  <2>3. CASE ~NewMinute
    <3>1. InMinute # MinuteUnits - 1
      BY <1>6, <2>3
    <3>2. QED
      BY <1>2, <1>5, <1>6, <1>9, <2>1, <2>3, <3>1
  <2>4. QED
    BY <2>2, <2>3
<1>10. QED
  BY <1>8, <1>9

(* The rest that is owed is a time, as long as there is a timer.            *)
LEMMA OwedIs ==
  ASSUME TypeOK, enabled # {}
  PROVE  OffLength * MinuteUnits \in Nat
<1>1. IsFiniteSet(enabled)
  <2>1. IsFiniteSet(0..(DayMinutes - 1))
    BY Sizes, FS_Interval
  <2>2. enabled \subseteq 0..(DayMinutes - 1)
    BY Sizes DEF TypeOK
  <2>3. QED
    BY <2>1, <2>2, FS_Subset
<1>2. Cardinality(enabled) \in Nat \ {0}
  BY <1>1, FS_CardinalityType, FS_EmptySet
<1>3. Block \in Nat
  <2>1. maxOn \in Nat /\ AssumedBlock \in Nat
    BY SchedulerAssumption DEF SchedulerAssumption, TypeOK
  <2>2. QED
    BY <2>1 DEF Block
<1>4. DayMinutes \div Cardinality(enabled) \in Nat
  BY <1>2, Sizes, Division
<1>5. OffLength \in Nat
  <2> DEFINE off == DayMinutes \div Cardinality(enabled) - Block
  <2>1. off \in Int /\ MinOff \in Nat
    BY <1>3, <1>4, SchedulerAssumption DEF SchedulerAssumption
  <2>2. OffLength = IF off < MinOff THEN MinOff ELSE off
    BY DEF OffLength
  <2> HIDE DEF off
  <2>3. QED
    BY <2>1, <2>2
<1>6. QED
  BY <1>5, Sizes

(* What a switch by the firmware does: nothing, or all of this.             *)
LEMMA SetRelayIs ==
  ASSUME TypeOK, NEW on \in BOOLEAN, SetRelay(on)
  PROVE  /\ \/ UNCHANGED <<relayOn, runAge, offFor, onSeen, unseen>>
            \/ /\ relayOn' = on /\ on # relayOn /\ unseen' = Unnoticed(on)
               /\ runAge' = 0 /\ offFor' = 0 /\ onSeen' = TRUE
         /\ on /\ ~lockout => relayOn' = TRUE
         /\ relayOn' \in BOOLEAN /\ onSeen' \in BOOLEAN /\ unseen' \in BOOLEAN
         /\ runAge' \in 0..RunCap /\ offFor' \in 0..OffCap
         /\ relayOn' => offFor' = 0
         /\ ~relayOn' => runAge' = 0
<1>1. CASE on = relayOn \/ (on /\ lockout)
  BY <1>1 DEF SetRelay, TypeOK
<1>2. CASE ~(on = relayOn \/ (on /\ lockout))
  <2>1. /\ relayOn' = on /\ on # relayOn /\ unseen' = Unnoticed(on)
        /\ runAge' = 0 /\ offFor' = 0 /\ onSeen' = TRUE
    BY <1>2 DEF SetRelay
  <2>2. unseen' \in BOOLEAN
    BY <2>1 DEF Unnoticed, TypeOK
  <2>3. runAge' \in 0..RunCap /\ offFor' \in 0..OffCap
    BY <2>1, Sizes
  <2>4. QED
    BY <2>1, <2>2, <2>3
<1>3. QED
  BY <1>1, <1>2

-----------------------------------------------------------------------------
(* Types. *)

LEMMA TypeStep ==
  ASSUME TypeOK, PollInv, [Next]_vars
  PROVE  TypeOK'
<1> DEFINE Places == {"sleep", "clocked", "fire", "clockless"}
<1>1. ASSUME Sleep PROVE /\ pc' = "sleep" /\ pc' \in Places /\ slot' = NoSlot
                         /\ left' \in 0..PollUnits /\ sinceRead' \in 0..1
  BY <1>1, Sizes DEF Sleep
<1>2. CASE BeginPoll
  <2>1. offAge' \in 0..OffCap
    BY <1>2, Sizes DEF BeginPoll, RestAge, TypeOK
  <2>2. slot' # NoSlot => pc' = "fire"
    BY <1>2 DEF BeginPoll, TypeOK
  <2>3. QED
    BY <1>2, <2>1, <2>2 DEF BeginPoll, TypeOK, relay, clock, config
<1>3. CASE ReadClock
  <2>1. /\ pc' \in Places /\ left' \in 0..PollUnits /\ sinceRead' \in 0..1
        /\ slot' \in TimerMinutes \cup {NoSlot} /\ (slot' # NoSlot => pc' = "fire")
    <3>1. CASE Sleep
      BY <1>1, <3>1
    <3>2. CASE ~(Served \/ Suppressed \/ Minute \notin enabled)
      BY <1>3, <3>2 DEF ReadClock, TypeOK
    <3>3. QED
      BY <1>3, <3>1, <3>2 DEF ReadClock
  <2>2. QED
    BY <1>3, <2>1 DEF ReadClock, TypeOK, relay, clock, config, history
<1>4. CASE Fire
  <2>1. Sleep /\ SetRelay(TRUE)
    BY <1>4 DEF Fire
  <2>2. fired' \in BOOLEAN /\ lastFired' \in TimerMinutes \cup {NoSlot}
    BY <1>4 DEF Fire, TypeOK
  <2>3. /\ relayOn' \in BOOLEAN /\ onSeen' \in BOOLEAN /\ unseen' \in BOOLEAN
        /\ runAge' \in 0..RunCap /\ offFor' \in 0..OffCap
        /\ relayOn' => offFor' = 0
        /\ ~relayOn' => runAge' = 0
    BY <2>1, SetRelayIs
  <2>4. QED
    BY <1>1, <1>4, <2>1, <2>2, <2>3 DEF Fire, TypeOK, clock, config
<1>5. CASE Interval
  <2>1. Sleep
    BY <1>5 DEF Interval
  <2>2. /\ relayOn' \in BOOLEAN /\ onSeen' \in BOOLEAN /\ unseen' \in BOOLEAN
        /\ runAge' \in 0..RunCap /\ offFor' \in 0..OffCap
        /\ relayOn' => offFor' = 0
        /\ ~relayOn' => runAge' = 0
    <3>1. CASE SetRelay(~prevRelay)
      BY <3>1, SetRelayIs
    <3>2. CASE UNCHANGED <<relayOn, runAge, offFor, onSeen, unseen>>
      BY <3>2 DEF TypeOK
    <3>3. QED
      BY <1>5, <3>1, <3>2 DEF Interval
  <2>3. fbActive' \in BOOLEAN /\ (fbActive' => bootAge' >= GraceUnits)
    <3>1. bootAge \in Nat /\ 1 <= bootAge /\ sinceRead \in 0..1 /\ bootAge < TickMod
      BY <1>5, Sizes DEF Interval, PollInv, TypeOK
    <3>2. Since(bootAge) = bootAge - sinceRead
      BY <3>1, SinceIs
    <3>3. StandIn => bootAge >= GraceUnits
      BY <3>1, <3>2, Sizes DEF StandIn
    <3>4. bootAge' = bootAge /\ fbActive' = (fbActive \/ StandIn)
      BY <1>5 DEF Interval, clock
    <3>5. StandIn \in BOOLEAN
      BY DEF StandIn, TypeOK
    <3>6. fbActive' \in BOOLEAN
      BY <3>4, <3>5 DEF TypeOK
    <3>7. QED
      BY <3>3, <3>4, <3>6 DEF TypeOK
  <2>4. QED
    BY <1>1, <1>5, <2>1, <2>2, <2>3 DEF Interval, TypeOK, clock, config
<1>6. CASE Cutoff
  <2>1. /\ relayOn' \in BOOLEAN /\ onSeen' \in BOOLEAN /\ unseen' \in BOOLEAN
        /\ runAge' \in 0..RunCap /\ offFor' \in 0..OffCap
        /\ relayOn' => offFor' = 0
        /\ ~relayOn' => runAge' = 0
    BY <1>6, SetRelayIs DEF Cutoff
  <2>2. cutAge' \in 0..(Guard + 1)
    BY <1>6, Sizes DEF Cutoff, Guard
  <2>3. QED
    BY <1>6, <2>1, <2>2 DEF Cutoff, TypeOK, config, poll
<1>7. CASE Switch
  <2>1. unseen' \in BOOLEAN /\ lockout' \in BOOLEAN /\ relayOn' \in BOOLEAN
    BY <1>7 DEF Switch, Unnoticed, TypeOK
  <2>2. runAge' \in 0..RunCap /\ offFor' \in 0..OffCap
    BY <1>7, Sizes DEF Switch
  <2>3. QED
    BY <1>7, <2>1, <2>2 DEF Switch, TypeOK, clock, config, poll
<1>8. CASE Leak
  <2>1. /\ relayOn' \in BOOLEAN /\ onSeen' \in BOOLEAN /\ unseen' \in BOOLEAN
        /\ runAge' \in 0..RunCap /\ offFor' \in 0..OffCap
        /\ relayOn' => offFor' = 0
        /\ ~relayOn' => runAge' = 0
    <3>1. CASE SetRelay(FALSE)
      BY <3>1, SetRelayIs
    <3>2. CASE UNCHANGED <<relayOn, runAge, offFor, onSeen, unseen>>
      BY <3>2 DEF TypeOK
    <3>3. QED
      BY <1>8, <3>1, <3>2 DEF Leak
  <2>2. lockout' \in BOOLEAN
    BY <1>8 DEF Leak
  <2>3. QED
    BY <1>8, <2>1, <2>2 DEF Leak, TypeOK, clock, config, poll
<1>9. CASE Settings
  <2>1. /\ enabled' \subseteq TimerMinutes /\ maxOn' \in Limits /\ optIn' \in BOOLEAN
        /\ calm' \in BOOLEAN
    BY <1>9 DEF Settings
  <2>2. UNCHANGED <<relay, clock, poll, cutInPoll, fired, onSeen, offFor, unseen>>
    BY <1>9 DEF Settings
  <2>3. UNCHANGED <<relayOn, lockout, runAge, tod, valid, bootAge, cutAge, pc, left, sinceRead,
                     prevRelay, offAge, slot, lastFired, fbActive, cutInPoll, fired, onSeen,
                     offFor, unseen>>
    BY <2>2 DEF relay, clock, poll
  <2>4. QED
    BY <2>1, <2>2, <2>3 DEF TypeOK
<1>10. CASE ClockSet
  BY <1>10 DEF ClockSet, TypeOK, relay, config
<1>11. CASE Restart
  <2>1. offAge' \in 0..OffCap /\ bootAge' \in 0..(GraceUnits + 1) /\ cutAge' \in 0..(Guard + 1)
    BY <1>11, Sizes DEF Restart, Guard
  <2>2. Sleep /\ runAge' \in 0..RunCap
    BY <1>11, Sizes DEF Restart
  <2>3. QED
    BY <1>1, <1>11, <2>1, <2>2 DEF Restart, TypeOK, config
<1>12. CASE Tick
  <2>1. tod' \in 0..(DayUnits - 1)
    BY <1>12, TickIs DEF Tick
  <2>2. left' \in 0..PollUnits /\ sinceRead' \in 0..1
    <3>1. left \in 0..PollUnits /\ PollUnits \in Nat /\ (pc = "sleep" => left > 0)
      BY <1>12, Sizes DEF Tick, TypeOK
    <3>2. left' = IF pc = "sleep" THEN left - 1 ELSE left
      BY <1>12 DEF Tick
    <3>3. left' \in 0..PollUnits
      BY <3>1, <3>2
    <3>4. sinceRead' \in 0..1
      BY <1>12 DEF Tick
    <3>5. QED
      BY <3>3, <3>4
  <2>3. ASSUME NEW cap \in Nat, NEW n \in 0..cap
        PROVE  Capped(n + 1, cap) \in 0..cap /\ Capped(n + 1, cap) >= n
    BY DEF Capped
  <2>4. offAge' \in 0..OffCap /\ cutAge' \in 0..(Guard + 1)
    <3>1. /\ offAge \in 0..OffCap /\ offAge' = Capped(offAge + 1, OffCap)
          /\ cutAge \in 0..(Guard + 1) /\ cutAge' = Capped(cutAge + 1, Guard + 1)
      BY <1>12 DEF Tick, TypeOK
    <3>2. OffCap \in Nat /\ Guard + 1 \in Nat
      BY Sizes DEF Guard
    <3>3. QED
      BY <2>3, <3>1, <3>2
  <2>5. bootAge' \in 0..(GraceUnits + 1) /\ bootAge' >= bootAge
    <3>1. bootAge \in 0..(GraceUnits + 1) /\ bootAge' = Capped(bootAge + 1, GraceUnits + 1)
      BY <1>12 DEF Tick, TypeOK
    <3>2. GraceUnits + 1 \in Nat
      BY Sizes
    <3>3. QED
      BY <2>3, <3>1, <3>2
  <2>6. /\ runAge' \in 0..RunCap /\ offFor' \in 0..OffCap
        /\ relayOn' => offFor' = 0
        /\ ~relayOn' => runAge' = 0
    BY <1>12, <2>3, Sizes DEF Tick, TypeOK
  <2>7. /\ lastFired' \in TimerMinutes \cup {NoSlot} /\ slot' \in TimerMinutes \cup {NoSlot}
        /\ slot' # NoSlot => pc' = "fire"
    BY <1>12 DEF Tick, TypeOK
  <2>8. fired' \in BOOLEAN /\ onSeen' \in BOOLEAN /\ calm' \in BOOLEAN
    <3>1. CASE NewMinute
      BY <1>12, <3>1 DEF Tick, TypeOK
    <3>2. CASE ~NewMinute
      BY <1>12, <3>2 DEF Tick, TypeOK
    <3>3. QED
      BY <3>1, <3>2
  <2>9. fbActive' => bootAge' >= GraceUnits
    <3>1. bootAge \in Nat /\ bootAge' \in Nat /\ GraceUnits \in Nat
      BY <2>5, Sizes DEF TypeOK
    <3>2. fbActive' => fbActive
      BY <1>12 DEF Tick
    <3>3. fbActive => bootAge >= GraceUnits
      BY DEF TypeOK
    <3>4. bootAge >= GraceUnits => bootAge' >= GraceUnits
      BY <2>5, <3>1
    <3>5. QED
      BY <3>2, <3>3, <3>4
  <2>10. QED
    BY <1>12, <2>1, <2>2, <2>4, <2>5, <2>6, <2>7, <2>8, <2>9 DEF Tick, TypeOK, config
<1>13. CASE UNCHANGED vars
  BY <1>13 DEF vars, relay, clock, config, poll, history, TypeOK
<1>14. QED
  BY <1>2, <1>3, <1>4, <1>5, <1>6, <1>7, <1>8, <1>9, <1>10, <1>11, <1>12, <1>13 DEF Next, Poll

-----------------------------------------------------------------------------
(* The poll and its ticks. *)

(* One more unit of an age is one more, up to the bound.                    *)
LEMMA CappedIs ==
  ASSUME NEW cap \in Nat, NEW n \in 0..cap
  PROVE  /\ Capped(n + 1, cap) \in 0..cap /\ Capped(n + 1, cap) >= n
         /\ n = cap \/ Capped(n + 1, cap) = n + 1
         /\ cap > 0 => Capped(n + 1, cap) >= 1
BY DEF Capped

LEMMA PollStep ==
  ASSUME TypeOK, PollInv, [Next]_vars
  PROVE  PollInv'
<1>1. ASSUME Sleep PROVE pc' = "sleep" /\ left' = PollUnits /\ sinceRead' = 0
  BY <1>1 DEF Sleep
<1>2. CASE BeginPoll
  <2>1. bootAge # 0
    BY <1>2, Sizes DEF BeginPoll, PollInv
  <2>2. bootAge' = bootAge /\ pc' # "sleep"
    BY <1>2 DEF BeginPoll, clock
  <2>3. QED
    BY <2>1, <2>2 DEF PollInv
<1>3. CASE ReadClock
  <2>1. bootAge' = bootAge /\ bootAge # 0
    BY <1>3 DEF ReadClock, PollInv, clock
  <2>2. CASE Sleep
    BY <1>1, <2>1, <2>2 DEF PollInv
  <2>3. CASE pc' = "fire"
    BY <2>1, <2>3 DEF PollInv
  <2>4. QED
    BY <1>3, <2>2, <2>3 DEF ReadClock
<1>4. CASE Fire \/ Interval \/ Restart
  BY <1>1, <1>4 DEF Fire, Interval, Restart, PollInv
<1>5. CASE Tick
  <2>1. bootAge' # 0
    <3>1. bootAge \in 0..(GraceUnits + 1) /\ bootAge' = Capped(bootAge + 1, GraceUnits + 1)
      BY <1>5 DEF Tick, TypeOK
    <3>2. GraceUnits + 1 \in Nat /\ GraceUnits + 1 > 0
      BY Sizes
    <3>3. bootAge' >= 1 /\ bootAge' \in Nat
      BY <3>1, <3>2, CappedIs
    <3>4. QED
      BY <3>3
  <2>2. pc' = "sleep" => sinceRead' = 0
    BY <1>5 DEF Tick
  <2>3. QED
    BY <2>1, <2>2 DEF PollInv
<1>6. CASE UNCHANGED <<bootAge, pc, left, sinceRead>>
  BY <1>6 DEF PollInv
<1>7. QED
  BY <1>2, <1>3, <1>4, <1>5, <1>6
     DEF Next, Poll, Cutoff, Switch, Leak, Settings, ClockSet, clock, poll, vars

LEMMA GuardStep ==
  ASSUME TypeOK, PollInv, GuardInv, [Next]_vars
  PROVE  GuardInv'
<1>1. CASE Sleep
  BY <1>1 DEF Sleep, GuardInv
<1>2. CASE BeginPoll
  <2>1. pc' # "fire" /\ sinceRead' = 0
    BY <1>2 DEF BeginPoll, PollInv
  <2>2. QED
    BY <2>1 DEF GuardInv
<1>3. CASE ReadClock /\ ~Sleep
  <2>1. /\ pc = "clocked" /\ ~Suppressed /\ pc' = "fire"
        /\ UNCHANGED <<sinceRead, cutAge, cutInPoll>>
    BY <1>3 DEF ReadClock, clock, history
  <2>2. ASSUME ~cutInPoll PROVE cutAge >= Guard
    <3>1. cutAge \in Nat /\ Guard \in Nat /\ sinceRead \in 0..1 /\ sinceRead <= cutAge /\ cutAge < TickMod
      BY <2>1, <2>2, Sizes DEF GuardInv, TypeOK, Guard
    <3>2. Since(cutAge) = cutAge - sinceRead
      BY <3>1, SinceIs
    <3>3. QED
      BY <2>1, <3>1, <3>2 DEF Suppressed
  <2>3. cutInPoll \/ (sinceRead = 1 => cutAge >= 1)
    BY <2>1 DEF GuardInv
  <2>4. QED
    BY <2>1, <2>2, <2>3 DEF GuardInv
<1>4. CASE Cutoff
  BY <1>4 DEF Cutoff, GuardInv
<1>5. CASE Tick
  <2>1. /\ cutAge \in 0..(Guard + 1) /\ cutAge' = Capped(cutAge + 1, Guard + 1)
        /\ UNCHANGED <<pc, cutInPoll>>
    BY <1>5 DEF Tick, TypeOK
  <2>2. Guard + 1 \in Nat /\ Guard \in Nat /\ Guard + 1 > 0
    BY Sizes DEF Guard
  <2>3. cutAge' >= 1 /\ cutAge' >= cutAge /\ cutAge' \in Nat
    <3> DEFINE cap == Guard + 1
    <3>1. cap \in Nat /\ cap > 0 /\ cutAge \in 0..cap /\ cutAge' = Capped(cutAge + 1, cap)
      BY <2>1, <2>2
    <3> HIDE DEF cap
    <3>2. cutAge' \in 0..cap
      BY <3>1, CappedIs
    <3>3. cutAge' >= cutAge
      BY <3>1, CappedIs
    <3>4. cutAge' >= 1
      BY <3>1, CappedIs
    <3>5. QED
      BY <3>1, <3>2, <3>3, <3>4
  <2>4. cutAge >= Guard => cutAge' >= Guard
    BY <2>1, <2>2, <2>3
  <2>5. QED
    BY <2>1, <2>3, <2>4 DEF GuardInv
<1>6. CASE UNCHANGED <<cutAge, pc, sinceRead, cutInPoll>>
  BY <1>6 DEF GuardInv, Guard
<1>7. QED
  BY <1>1, <1>2, <1>3, <1>4, <1>5, <1>6
     DEF Next, Poll, Fire, Interval, Restart, Switch, Leak, Settings, ClockSet, clock, poll,
         history, vars

LEMMA ServedStep ==
  ASSUME TypeOK, ServedInv, [Next]_vars
  PROVE  ServedInv'
<1>1. ASSUME UNCHANGED <<tod, lastFired, fired>>, pc' = pc \/ pc' # "fire" PROVE ServedInv'
  BY <1>1 DEF ServedInv, Minute
<1>2. CASE ReadClock
  <2>1. UNCHANGED <<tod, lastFired, fired>>
    BY <1>2 DEF ReadClock, clock, history
  <2>2. CASE Sleep
    BY <1>1, <2>1, <2>2 DEF Sleep
  <2>3. CASE ~Served
    <3>1. ~fired
      BY <2>3 DEF ServedInv, Served
    <3>2. QED
      BY <2>1, <3>1 DEF ServedInv
  <2>4. QED
    BY <1>2, <2>2, <2>3 DEF ReadClock
<1>3. CASE Fire
  <2>1. ~fired /\ pc' = "sleep" /\ tod' = tod
    BY <1>3 DEF Fire, ServedInv, Sleep, clock
  <2>2. fired' => ~relayOn /\ slot = Minute
    BY <1>3, <2>1 DEF Fire
  <2>3. ~relayOn => lastFired' = slot
    BY <1>3 DEF Fire
  <2>4. QED
    BY <2>1, <2>2, <2>3 DEF ServedInv, Minute
<1>4. CASE ClockSet \/ Restart
  BY <1>4 DEF ClockSet, Restart, ServedInv
<1>5. CASE Tick
  <2>1. CASE NewMinute
    BY <1>5, <2>1 DEF Tick, ServedInv
  <2>2. CASE ~NewMinute
    <3>1. Minute' = Minute /\ ~Midnight
      BY <1>5, <2>2, TickIs DEF Tick
    <3>2. UNCHANGED <<lastFired, fired, pc>>
      BY <1>5, <2>2, <3>1 DEF Tick
    <3>3. QED
      BY <3>1, <3>2 DEF ServedInv
  <2>3. QED
    BY <2>1, <2>2
<1>6. CASE BeginPoll \/ Interval
  BY <1>1, <1>6 DEF BeginPoll, Interval, Sleep, clock
<1>7. CASE UNCHANGED <<tod, lastFired, fired, pc>>
  BY <1>1, <1>7
<1>8. QED
  BY <1>2, <1>3, <1>4, <1>5, <1>6, <1>7
     DEF Next, Poll, Cutoff, Switch, Leak, Settings, clock, poll, history, vars

-----------------------------------------------------------------------------
(* The rest. *)

(* A switch either leaves the rest alone, or begins or ends one.            *)
LEMMA SwitchRest ==
  ASSUME TypeOK, RestInv, UNCHANGED <<prevRelay, offAge>>,
         sinceRead' = sinceRead \/ sinceRead' = 0,
         \/ UNCHANGED <<relayOn, offFor, unseen>>
         \/ relayOn' # relayOn /\ unseen' = Unnoticed(relayOn')
  PROVE  RestInv'
<1>1. OffCap > 0 /\ sinceRead' = 1 => offAge' >= 1
  BY DEF RestInv
<1>2. ASSUME ~relayOn', ~prevRelay', ~unseen' PROVE offAge' <= offFor'
  <2>1. CASE UNCHANGED <<relayOn, offFor, unseen>>
    BY <1>2, <2>1 DEF RestInv
  <2>2. CASE relayOn' # relayOn /\ unseen' = Unnoticed(relayOn')
    BY <1>2, <2>2 DEF Unnoticed
  <2>3. QED
    BY <2>1, <2>2
<1>3. QED
  BY <1>1, <1>2 DEF RestInv

LEMMA RestStep ==
  ASSUME TypeOK, PollInv, RestInv, [Next]_vars
  PROVE  RestInv'
<1>1. ASSUME NEW on \in BOOLEAN, SetRelay(on)
      PROVE  \/ UNCHANGED <<relayOn, offFor, unseen>>
             \/ relayOn' # relayOn /\ unseen' = Unnoticed(relayOn')
  <2>1. CASE UNCHANGED <<relayOn, runAge, offFor, onSeen, unseen>>
    BY <2>1
  <2>2. CASE relayOn' = on /\ on # relayOn /\ unseen' = Unnoticed(on)
    BY <2>2
  <2>3. QED
    BY <1>1, <2>1, <2>2, SetRelayIs
<1>2. CASE BeginPoll
  <2>1. /\ sinceRead' = 0 /\ UNCHANGED <<relayOn, offFor, unseen>> /\ prevRelay' = relayOn
        /\ offAge' = IF prevRelay /\ ~relayOn THEN 0 ELSE offAge
        /\ 0 <= offFor
    BY <1>2 DEF BeginPoll, RestAge, PollInv, relay, TypeOK
  <2>2. QED
    BY <2>1 DEF RestInv
<1>3. CASE ReadClock
  <2>1. /\ UNCHANGED <<relayOn, offFor, unseen, prevRelay, offAge>>
        /\ sinceRead' = sinceRead \/ sinceRead' = 0
    BY <1>3 DEF ReadClock, Sleep, relay, history
  <2>2. QED
    BY <2>1, SwitchRest
<1>4. CASE Fire
  <2>1. SetRelay(TRUE) /\ UNCHANGED <<prevRelay, offAge>> /\ sinceRead' = 0
    BY <1>4 DEF Fire, Sleep
  <2>2. QED
    BY <1>1, <2>1, SwitchRest
<1>5. CASE Interval
  <2>1. /\ SetRelay(~prevRelay) \/ UNCHANGED <<relayOn, offFor, unseen>>
        /\ UNCHANGED <<prevRelay, offAge>> /\ sinceRead' = 0
    BY <1>5 DEF Interval, Sleep
  <2>2. QED
    BY <1>1, <2>1, SwitchRest
<1>6. CASE Cutoff
  <2>1. SetRelay(FALSE) /\ UNCHANGED <<prevRelay, offAge, sinceRead>>
    BY <1>6 DEF Cutoff, poll
  <2>2. QED
    BY <1>1, <2>1, SwitchRest
<1>7. CASE Leak
  <2>1. /\ SetRelay(FALSE) \/ UNCHANGED <<relayOn, offFor, unseen>>
        /\ UNCHANGED <<prevRelay, offAge, sinceRead>>
    BY <1>7 DEF Leak, poll
  <2>2. QED
    BY <1>1, <2>1, SwitchRest
<1>8. CASE Switch
  <2>1. /\ relayOn' # relayOn /\ unseen' = Unnoticed(relayOn')
        /\ UNCHANGED <<prevRelay, offAge, sinceRead>>
    BY <1>8 DEF Switch, poll, TypeOK
  <2>2. QED
    BY <2>1, SwitchRest
<1>9. CASE Restart
  <2>1. offAge' = 0 /\ offFor' = offFor /\ 0 <= offFor /\ sinceRead' = 0
    BY <1>9 DEF Restart, Sleep, TypeOK
  <2>2. QED
    BY <2>1 DEF RestInv
<1>10. CASE Tick
  <2>1. /\ offAge \in 0..OffCap /\ offAge' = Capped(offAge + 1, OffCap)
        /\ offFor \in 0..OffCap /\ UNCHANGED <<relayOn, prevRelay, unseen>>
        /\ ~relayOn => offFor' = Capped(offFor + 1, OffCap)
    BY <1>10 DEF Tick, TypeOK
  <2>2. OffCap > 0 => offAge' >= 1
    <3>1. OffCap \in Nat
      BY Sizes
    <3>2. QED
      BY <2>1, <3>1, CappedIs
  <2>3. offAge <= offFor => Capped(offAge + 1, OffCap) <= Capped(offFor + 1, OffCap)
    BY <2>1, Sizes DEF Capped
  <2>4. QED
    BY <2>1, <2>2, <2>3 DEF RestInv
<1>11. CASE UNCHANGED <<relayOn, offFor, unseen, prevRelay, offAge, sinceRead>>
  BY <1>11, SwitchRest
<1>12. QED
  BY <1>2, <1>3, <1>4, <1>5, <1>6, <1>7, <1>8, <1>9, <1>10, <1>11
     DEF Next, Poll, Settings, ClockSet, relay, poll, history, vars

-----------------------------------------------------------------------------
(* The minute that is to be served. *)

(* A tick within the minute brings the end of the poll nearer.              *)
LEMMA MissTick ==
  ASSUME TypeOK, PollInv, MissInv, Tick
  PROVE  MissInv'
<1> SUFFICES ASSUME calm', ~onSeen', Minute' \in enabled'
             PROVE  /\ ~relayOn' /\ valid' /\ ~lockout' /\ lastFired' # Minute'
                    /\ cutAge' >= Guard /\ (cutAge' = Guard => InMinute' = 0)
                    /\ pc' = "sleep" => InMinute' + left' <= PollUnits
                    /\ pc' \in {"clocked", "fire"} => InMinute' <= PollUnits + sinceRead'
                    /\ pc' = "clockless" => InMinute' = 0 /\ sinceRead' = 1
  BY DEF MissInv, Guard
<1>1. /\ UNCHANGED <<relayOn, lockout, valid, pc>> /\ enabled' = enabled
      /\ sinceRead' = IF pc = "sleep" THEN 0 ELSE 1
      /\ left' = IF pc = "sleep" THEN left - 1 ELSE left
      /\ cutAge' = Capped(cutAge + 1, Guard + 1) /\ cutAge \in 0..(Guard + 1)
      /\ left \in 0..PollUnits /\ PollUnits \in Nat /\ Guard \in Nat
  BY Sizes DEF Tick, config, TypeOK, Guard
<1>2. pc = "sleep" => left > 0
  BY DEF Tick
<1>3. pc # "sleep" => sinceRead = 0
  BY DEF Tick
<1>4. CASE NewMinute
  <2>1. /\ calm' = (valid /\ ~lockout /\ cutAge' >= Guard /\ Minute + 1 # lastFired)
        /\ onSeen' = relayOn
    BY <1>4 DEF Tick
  <2>2. InMinute' = 0 /\ Minute' = IF Midnight THEN 0 ELSE Minute + 1
    BY <1>4, TickIs DEF Tick
  <2>3. lastFired' # Minute'
    <3>1. CASE Midnight
      BY <2>2, <3>1, Sizes DEF Tick, NoSlot
    <3>2. CASE ~Midnight
      BY <2>1, <2>2, <3>2 DEF Tick
    <3>3. QED
      BY <3>1, <3>2
  <2>4. pc' = "sleep" => InMinute' + left' <= PollUnits
    BY <1>1, <1>2, <2>2
  <2>5. pc' \in {"clocked", "fire"} => InMinute' <= PollUnits + sinceRead'
    BY <1>1, <2>2
  <2>6. pc' = "clockless" => InMinute' = 0 /\ sinceRead' = 1
    BY <1>1, <2>2
  <2>7. QED
    BY <1>1, <2>1, <2>2, <2>3, <2>4, <2>5, <2>6
<1>5. CASE ~NewMinute
  <2>1. calm /\ ~onSeen
    BY <1>5 DEF Tick
  <2>2. /\ Minute' = Minute /\ InMinute' = InMinute + 1 /\ lastFired' = lastFired
        /\ InMinute \in 0..(MinuteUnits - 1)
    BY <1>5, TickIs DEF Tick
  <2>3. /\ ~relayOn /\ valid /\ ~lockout /\ lastFired # Minute
        /\ cutAge >= Guard
        /\ pc = "sleep" => InMinute + left <= PollUnits
        /\ pc \in {"clocked", "fire"} => InMinute <= PollUnits + sinceRead
        /\ pc = "clockless" => sinceRead = 1
    BY <1>1, <2>1, <2>2 DEF MissInv
  <2>4. cutAge' = Guard + 1
    BY <1>1, <2>3 DEF Capped
  <2>5. pc # "clockless"
    BY <1>3, <2>3
  <2>6. pc' = "sleep" => InMinute' + left' <= PollUnits
    <3>1. SUFFICES ASSUME pc = "sleep" PROVE InMinute + 1 + (left - 1) <= PollUnits
      BY <1>1, <2>2
    <3>2. InMinute + left <= PollUnits /\ InMinute \in Nat /\ left \in Nat
      BY <1>1, <2>2, <2>3, <3>1
    <3>3. QED
      BY <1>1, <3>2
  <2>7. pc' \in {"clocked", "fire"} => InMinute' <= PollUnits + sinceRead'
    <3>1. SUFFICES ASSUME pc \in {"clocked", "fire"} PROVE InMinute + 1 <= PollUnits + 1
      BY <1>1, <2>2
    <3>2. InMinute <= PollUnits + 0 /\ InMinute \in Nat
      BY <1>3, <2>2, <2>3, <3>1
    <3>3. QED
      BY <1>1, <3>2
  <2>8. cutAge' >= Guard /\ cutAge' # Guard
    BY <1>1, <2>4
  <2>9. QED
    BY <1>1, <2>2, <2>3, <2>5, <2>6, <2>7, <2>8
<1>6. QED
  BY <1>4, <1>5

LEMMA MissStep ==
  ASSUME TypeOK, PollInv, MissInv, [Next]_vars
  PROVE  MissInv'
<1>1. ASSUME ~calm' \/ onSeen' PROVE MissInv'
  BY <1>1 DEF MissInv
<1>2. ASSUME NEW on \in BOOLEAN, SetRelay(on), on # relayOn, ~(on /\ lockout) PROVE onSeen'
  BY <1>2 DEF SetRelay
<1>3. ASSUME Sleep, InMinute = 0,
             UNCHANGED <<tod, calm, onSeen, enabled, relayOn, valid, lockout, lastFired, cutAge>>
      PROVE  MissInv'
  <2>1. /\ pc' = "sleep" /\ left' = PollUnits /\ InMinute' = 0 /\ PollUnits \in Nat
        /\ Minute' = Minute
    BY <1>3, Sizes DEF Sleep, InMinute, Minute
  <2>2. InMinute' + left' <= PollUnits
    BY <2>1
  <2>3. QED
    BY <1>3, <2>1, <2>2 DEF MissInv, Guard
<1>4. CASE BeginPoll
  <2>1. /\ UNCHANGED <<tod, calm, onSeen, enabled, relayOn, valid, lockout, lastFired, cutAge,
                        left, sinceRead>>
        /\ pc = "sleep" /\ left = 0 /\ sinceRead = 0
        /\ pc' = IF valid THEN "clocked" ELSE "clockless"
    BY <1>4 DEF BeginPoll, PollInv, relay, clock, config
  <2>2. Minute' = Minute /\ InMinute' = InMinute /\ InMinute \in Nat /\ PollUnits \in Nat
    <3>1. InMinute \in Nat
      BY Sizes, Division DEF InMinute, TypeOK
    <3>2. QED
      BY <2>1, <3>1, Sizes DEF Minute, InMinute
  <2>3. InMinute + left <= PollUnits => InMinute' <= PollUnits + sinceRead'
    BY <2>1, <2>2
  <2>4. QED
    BY <2>1, <2>2, <2>3 DEF MissInv, Guard
<1>5. CASE ReadClock
  <2>1. UNCHANGED <<tod, calm, onSeen, enabled, relayOn, valid, lockout, lastFired, cutAge>>
    BY <1>5 DEF ReadClock, relay, clock, config, history
  <2> SUFFICES ASSUME calm, ~onSeen, Minute \in enabled PROVE MissInv'
    BY <2>1 DEF MissInv, Minute
  <2>2. /\ lastFired # Minute /\ cutAge >= Guard /\ pc = "clocked"
        /\ cutAge = Guard => InMinute = 0
        /\ InMinute <= PollUnits + sinceRead
    BY <1>5 DEF ReadClock, MissInv
  <2>3. CASE Suppressed
    <3>1. cutAge \in Nat /\ Guard \in Nat /\ cutAge <= Guard
      BY <2>3, Sizes DEF Suppressed, TypeOK, Guard
    <3>2. InMinute = 0
      BY <2>2, <3>1
    <3>3. QED
      BY <1>3, <1>5, <2>1, <2>3, <3>2 DEF ReadClock
  <2>4. CASE ~Suppressed
    <3>1. pc' = "fire" /\ sinceRead' = sinceRead
      BY <1>5, <2>2, <2>4 DEF ReadClock, Served
    <3>2. QED
      BY <2>1, <2>2, <3>1 DEF MissInv, Minute, InMinute, Guard
  <2>5. QED
    BY <2>3, <2>4
<1>6. CASE Fire
  <2> SUFFICES ASSUME calm', ~onSeen', Minute' \in enabled' PROVE FALSE
    BY DEF MissInv
  <2>1. SetRelay(TRUE) /\ UNCHANGED <<tod, calm, enabled>>
    BY <1>6 DEF Fire, clock, config
  <2>2. onSeen' = onSeen \/ onSeen'
    BY <2>1 DEF SetRelay
  <2>3. ~relayOn /\ ~lockout
    BY <2>1, <2>2 DEF MissInv, Minute
  <2>4. QED
    BY <1>2, <2>1, <2>3
<1>7. CASE Interval
  <2> SUFFICES ASSUME calm', ~onSeen', Minute' \in enabled' PROVE MissInv'
    BY DEF MissInv
  <2>1. UNCHANGED <<tod, valid, cutAge, enabled, lockout, lastFired, calm>> /\ Sleep
    BY <1>7 DEF Interval, clock, config
  <2>2. UNCHANGED <<relayOn, onSeen>>
    <3>1. CASE SetRelay(~prevRelay)
      BY <3>1, SetRelayIs
    <3>2. QED
      BY <1>7, <3>1 DEF Interval
  <2>3. InMinute = 0
    BY <1>7, <2>1, <2>2 DEF Interval, MissInv, Minute
  <2>4. QED
    BY <1>3, <2>1, <2>2, <2>3
<1>8. CASE Cutoff
  BY <1>1, <1>2, <1>8 DEF Cutoff, CutoffDue
<1>9. CASE Switch \/ Leak \/ Settings \/ ClockSet \/ Restart
  BY <1>1, <1>9 DEF Switch, Leak, Settings, ClockSet, Restart
<1>10. CASE Tick
  BY <1>10, MissTick
<1>11. CASE UNCHANGED vars
  BY <1>11 DEF vars, relay, clock, config, poll, history, MissInv, InMinute, Minute, Guard
<1>12. QED
  BY <1>4, <1>5, <1>6, <1>7, <1>8, <1>9, <1>10, <1>11 DEF Next, Poll

-----------------------------------------------------------------------------
(* The specification. *)

LEMMA Initially == Init => IInv
<1> SUFFICES ASSUME Init PROVE IInv
  OBVIOUS
<1>1. TypeOK
  <2>1. /\ left \in 0..PollUnits /\ offAge \in 0..OffCap /\ bootAge \in 0..(GraceUnits + 1)
        /\ cutAge \in 0..(Guard + 1) /\ runAge \in 0..RunCap /\ offFor \in 0..OffCap
    BY Sizes DEF Init, Start, Guard
  <2>2. valid \in BOOLEAN
    BY SchedulerAssumption DEF SchedulerAssumption, Init
  <2>3. /\ tod \in 0..(DayUnits - 1) /\ relayOn \in BOOLEAN /\ lockout = FALSE
        /\ enabled \subseteq TimerMinutes /\ maxOn \in Limits /\ optIn \in BOOLEAN
        /\ runAge = 0 /\ offFor = 0
    BY DEF Init
  <2>4. /\ pc = "sleep" /\ sinceRead \in 0..1 /\ prevRelay = relayOn
        /\ slot = NoSlot /\ lastFired = NoSlot /\ fbActive = FALSE
    BY DEF Init, Start
  <2>5. cutInPoll = FALSE /\ fired = FALSE /\ calm = FALSE /\ onSeen = relayOn /\ unseen = FALSE
    BY DEF Init
  <2>6. QED
    BY <2>1, <2>2, <2>3, <2>4, <2>5 DEF TypeOK
<1>2. PollInv /\ GuardInv /\ ServedInv
  BY DEF Init, Start, PollInv, GuardInv, ServedInv
<1>3. RestInv
  BY DEF Init, Start, RestInv
<1>4. QED
  BY <1>1, <1>2, <1>3 DEF IInv

LEMMA Invariance == Spec => []IInv
<1>1. IInv /\ [Next]_vars => IInv'
  BY TypeStep, PollStep, GuardStep, ServedStep, RestStep DEF IInv
<1>2. QED
  BY Initially, <1>1, PTL DEF Spec

(* The state of the poll keeps its shape: a minute to serve is held only by *)
(* a poll that is about to switch, and interval mode stands in only for a   *)
(* clock that was given its time (scheduler.c:114-208).                     *)
THEOREM TypeCorrect == Spec => []TypeOK
BY Invariance, PTL DEF IInv

(* A timer never switches on within a minute of the run limit's cutoff,     *)
(* unless the cutoff falls inside its poll: the difference of ticks that     *)
(* the poll checks is exact, for all that time passes while it polls        *)
(* (scheduler.c:172-208).                                                   *)
THEOREM GuardKept == Spec => GuardHolds
<1> DEFINE Held == TimerSwitchesOn /\ ~cutInPoll => cutAge >= Guard
<1>1. IInv /\ [Next]_vars => Held
  BY DEF IInv, GuardInv, TimerSwitchesOn
<1> HIDE DEF Held
<1>2. IInv /\ [Next]_vars => [Held]_vars
  BY <1>1
<1>3. Spec => [][Held]_vars
  BY Invariance, <1>2, PTL DEF Spec
<1>4. QED
  BY <1>3 DEF Held, GuardHolds

(* No minute is served twice, whoever switches the geyser off within it, as *)
(* long as nobody moves the clock (scheduler.c:88, 182).                    *)
THEOREM MinuteServedOnce == Spec => ServedOnce
<1> DEFINE Once == TimerSwitchesOn /\ slot = Minute => ~fired
<1>1. IInv /\ [Next]_vars => Once
  BY DEF IInv, ServedInv, TimerSwitchesOn
<1> HIDE DEF Once
<1>2. IInv /\ [Next]_vars => [Once]_vars
  BY <1>1
<1>3. Spec => [][Once]_vars
  BY Invariance, <1>2, PTL DEF Spec
<1>4. QED
  BY <1>3 DEF Once, ServedOnce

(* Interval mode never cuts a rest short: what it counts began no earlier   *)
(* than the geyser went off, and the unsigned difference is exact           *)
(* (scheduler.c:57-74, 104-108).                                            *)
THEOREM RestIsKept == ASSUME OffCap > 0 PROVE Spec => RestKept
<1> DEFINE Rested == pc = "clockless" /\ pc' = "sleep" /\ ~relayOn /\ relayOn' /\ ~unseen
                       => offFor >= OffLength * MinuteUnits
<1>1. IInv /\ [Next]_vars => Rested
  <2> SUFFICES ASSUME IInv, [Next]_vars, pc = "clockless", pc' = "sleep",
                      ~relayOn, relayOn', ~unseen
               PROVE  offFor >= OffLength * MinuteUnits
    OBVIOUS
  <2> DEFINE owed == OffLength * MinuteUnits
  <2>1. Interval \/ Restart
    BY DEF Next, Poll, BeginPoll, ReadClock, Fire, Cutoff, Switch, Leak, Settings, ClockSet,
           Tick, poll, vars
  <2>2. Interval
    BY <2>1 DEF Restart
  <2>3. StandIn /\ (IF prevRelay THEN BlockOver ELSE RestOver) /\ SetRelay(~prevRelay)
    BY <2>2 DEF Interval
  <2>4. ~prevRelay
    BY <2>3 DEF SetRelay, IInv, TypeOK
  <2>5. Since(offAge) >= owed
    BY <2>3, <2>4 DEF RestOver
  <2> HIDE DEF owed
  <2>6. /\ offAge \in Nat /\ offFor \in Nat /\ sinceRead \in 0..1 /\ offAge < TickMod
        /\ offAge <= offFor /\ sinceRead <= offAge
    <3>1. offAge \in 0..OffCap /\ offFor \in 0..OffCap /\ sinceRead \in 0..1
      BY DEF IInv, TypeOK
    <3>2. offAge <= offFor /\ (sinceRead = 1 => offAge >= 1)
      BY <2>4 DEF IInv, RestInv
    <3>3. QED
      BY <3>1, <3>2, Sizes
  <2>7. Since(offAge) = offAge - sinceRead
    BY <2>6, SinceIs
  <2>8. offFor >= Since(offAge)
    BY <2>6, <2>7
  <2>9. owed \in Int
    BY <2>3, OwedIs DEF owed, StandIn, IInv
  <2>10. QED
    BY <2>5, <2>6, <2>7, <2>8, <2>9 DEF owed
<1> HIDE DEF Rested
<1>2. IInv /\ [Next]_vars => [Rested]_vars
  BY <1>1
<1>3. Spec => [][Rested]_vars
  BY Invariance, <1>2, PTL DEF Spec
<1>4. QED
  BY <1>3 DEF Rested, RestKept

(* No minute of a timer goes by unserved with the geyser off throughout: as  *)
(* long as a poll period and a unit for the poll at either end of it fit    *)
(* into a minute (30 s and 60 s in the code), one poll reads the clock and  *)
(* switches within every minute, and finds nothing in its way               *)
(* (scheduler.c:172-208).                                                   *)
THEOREM TimerNotMissed == ASSUME PollUnits + 2 <= MinuteUnits PROVE Spec => NoMissedTimer
<1> DEFINE Met == Tick /\ NewMinute /\ calm /\ Minute \in enabled => onSeen
           Inv == IInv /\ MissInv
<1>1. Spec => []Inv
  <2>1. Init => Inv
    BY Initially DEF Init, MissInv
  <2>2. Inv /\ [Next]_vars => Inv'
    BY TypeStep, PollStep, GuardStep, ServedStep, RestStep, MissStep DEF IInv
  <2> HIDE DEF Inv
  <2>3. QED
    BY <2>1, <2>2, PTL DEF Spec
<1>2. Inv => Met
  <2> SUFFICES ASSUME Inv, Tick, NewMinute, calm, Minute \in enabled, ~onSeen PROVE FALSE
    OBVIOUS
  <2>1. /\ InMinute = MinuteUnits - 1 /\ InMinute \in Nat
        /\ left \in Nat /\ PollUnits \in Nat /\ MinuteUnits \in Nat
    <3>1. InMinute = MinuteUnits - 1
      BY TickIs DEF Tick, IInv
    <3>2. MinuteUnits \in Nat \ {0} /\ PollUnits \in Nat
      BY Sizes
    <3>3. left \in Nat
      BY DEF IInv, TypeOK
    <3>4. QED
      BY <3>1, <3>2, <3>3
  <2>2. /\ pc = "sleep" => InMinute + left <= PollUnits
        /\ pc \in {"clocked", "fire"} => InMinute <= PollUnits + sinceRead
        /\ pc = "clockless" => sinceRead = 1
    BY DEF MissInv
  <2>3. CASE pc = "sleep"
    BY <2>1, <2>2, <2>3
  <2>4. CASE pc # "sleep"
    <3>1. sinceRead = 0 /\ pc \in {"clocked", "fire"}
      BY <2>2, <2>4 DEF Tick, IInv, TypeOK
    <3>2. InMinute <= PollUnits + 0
      BY <2>2, <3>1
    <3>3. QED
      BY <2>1, <3>2
  <2>5. QED
    BY <2>3, <2>4
<1> HIDE DEF Met, Inv
<1>3. Inv => [Met]_vars
  BY <1>2
<1>4. Spec => [][Met]_vars
  BY <1>1, <1>3, PTL DEF Spec
<1>5. QED
  BY <1>4 DEF Met, NoMissedTimer

=============================================================================
