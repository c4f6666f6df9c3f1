------------------------------- MODULE Limits -------------------------------
(***************************************************************************)
(* The temperature limits: which pairs the firmware keeps, and how it      *)
(* forces any pair of bytes into one of them (device_state_clamp_limits).  *)
(***************************************************************************)
EXTENDS Integers

CONSTANTS
  MinFloor, MinCeil,     \* TEMP_MIN_FLOOR, TEMP_MIN_CEIL
  MaxFloor, MaxCeil,     \* TEMP_MAX_FLOOR, TEMP_MAX_CEIL
  Deadband               \* TEMP_MIN_DEADBAND

ASSUME LimitsAssumption ==
  /\ {MinFloor, MinCeil, MaxFloor, MaxCeil, Deadband} \subseteq Nat
  /\ MinFloor <= MinCeil /\ MaxFloor <= MaxCeil
  /\ MinFloor + Deadband <= MaxCeil

Pair(mn, mx) == [min |-> mn, max |-> mx]

(* What the clamp promises (device_state.h:76-84). *)
Usable(p) ==
  /\ p.min \in MinFloor..MinCeil /\ p.max \in MaxFloor..MaxCeil
  /\ p.min + Deadband <= p.max

Within(n, lo, hi) == IF n < lo THEN lo ELSE IF n > hi THEN hi ELSE n

(* Mutated form: the ranges only, no hysteresis band. *)
NotSpread(p) == p

(* Prefer raising max; at its ceiling, lower min instead.  With the shipped *)
(* constants the second case cannot arise: 50 + 5 <= 70.                    *)
Spread(p) ==
  IF p.max >= p.min + Deadband THEN p
  ELSE IF p.min + Deadband <= MaxCeil THEN Pair(p.min, p.min + Deadband)
  ELSE Pair(MaxCeil - Deadband, MaxCeil)

Clamped(p) ==
  Spread(Pair(Within(p.min, MinFloor, MinCeil), Within(p.max, MaxFloor, MaxCeil)))

=============================================================================
