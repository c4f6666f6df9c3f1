---------------------------- MODULE MCScheduler ----------------------------
(* Instances of Scheduler for TLC. *)
EXTENDS Scheduler

TwoTimers   == {1, 2}
OneTimer    == {1}
OneLimit    == {1}
OffOrOne    == {0, 1}
Everybody   == AllOthers
UserOnly    == {"user"}
============================================================================
