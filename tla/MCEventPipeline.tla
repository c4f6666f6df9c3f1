--------------------------- MODULE MCEventPipeline ---------------------------
(* Instances of EventPipeline for TLC. *)
EXTENDS EventPipeline

TwoTasks == {"leak", "sensor"}
=============================================================================
