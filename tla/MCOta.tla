------------------------------- MODULE MCOta -------------------------------
(* Instances of Ota for TLC. *)
EXTENDS Ota

TwoVersions   == {1, 2}
ThreeVersions == {1, 2, 3}
============================================================================
