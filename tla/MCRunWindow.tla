---------------------------- MODULE MCRunWindow ----------------------------
(* Instances of RunWindow for TLC. *)
EXTENDS RunWindow

TheLimits    == {0, 2, 3}
Right        == {0}
RightOrWrong == {0, 2}
TheOutages   == {0, 2}
=============================================================================
