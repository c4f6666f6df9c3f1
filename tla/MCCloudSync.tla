---------------------------- MODULE MCCloudSync ----------------------------
(* Instances of CloudSync for TLC. *)
EXTENDS CloudSync

OffSix      == {"off", "six"}
Everybody   == AllOthers
LeakAndDrop == {"leak", "drop"}
============================================================================
