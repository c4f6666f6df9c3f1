------------------------------ MODULE Interlock ------------------------------
(***************************************************************************)
(* What the firmware promises of the mains: a switch that changes at one   *)
(* moment, that a leak latches and then cuts, and that never comes on      *)
(* while it is latched.  A restart takes the latch away and brings back    *)
(* what was remembered.                                                    *)
(***************************************************************************)

VARIABLES
  power,     \* the mains are on
  wet,       \* a leak was confirmed and is not over
  latched,   \* the leak keeps the power from coming on
  cutting,   \* the leak is about to switch off
  memory     \* the power that a restart brings back

vars == <<power, wet, latched, cutting, memory>>

Init ==
  /\ memory \in BOOLEAN /\ power = memory
  /\ wet = FALSE /\ latched = FALSE /\ cutting = FALSE

On  == ~latched /\ power' = TRUE /\ UNCHANGED <<wet, latched, cutting, memory>>
Off == power' = FALSE /\ UNCHANGED <<wet, latched, cutting, memory>>

(* Latch first, then cut. *)
LeakSeen ==
  /\ ~wet /\ ~cutting
  /\ wet' = TRUE /\ latched' = TRUE /\ cutting' = TRUE
  /\ UNCHANGED <<power, memory>>

Cut == cutting /\ power' = FALSE /\ cutting' = FALSE /\ UNCHANGED <<wet, latched, memory>>

LeakOver ==
  /\ wet /\ ~cutting
  /\ wet' = FALSE /\ latched' = FALSE
  /\ UNCHANGED <<power, cutting, memory>>

(* A user who has been warned takes the latch away, though not the leak. *)
Override == latched' = FALSE /\ UNCHANGED <<power, wet, cutting, memory>>

Remember == memory' \in BOOLEAN /\ UNCHANGED <<power, wet, latched, cutting>>

Restart ==
  /\ power' = memory
  /\ wet' = FALSE /\ latched' = FALSE /\ cutting' = FALSE
  /\ UNCHANGED memory

Next == On \/ Off \/ LeakSeen \/ Cut \/ LeakOver \/ Override \/ Remember \/ Restart

Spec == Init /\ [][Next]_vars

-----------------------------------------------------------------------------
(* Once the leak has cut, the power is off for as long as the latch holds.  *)
LatchedMeansOff == latched /\ ~cutting => ~power

=============================================================================
