------------------------------- MODULE Actors -------------------------------
(***************************************************************************)
(* Which tasks of the firmware run together.  A behaviour picks one mix    *)
(* of the set Mixes at the start and keeps it: the state space of an       *)
(* instance is the sum over its mixes, not one product over all the tasks. *)
(* With the set of all tasks as the only mix this is the whole firmware.   *)
(***************************************************************************)
CONSTANT Mixes      \* sets of tasks that run together

VARIABLE acting     \* the tasks that run

ActorsInit == acting \in Mixes

Acts(who) == who \in acting /\ UNCHANGED acting

=============================================================================
