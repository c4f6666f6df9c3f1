------------------------------ MODULE EventLog ------------------------------
(***************************************************************************)
(* What the event buffer promises: the last Keep events since the app's    *)
(* acknowledgement, oldest first.                                          *)
(***************************************************************************)
EXTENDS Naturals, Sequences

CONSTANTS Event, Keep

VARIABLE log

Init == log = <<>>

(* A new event drives out the oldest when the log is full. *)
Logged(l, e) == IF Len(l) < Keep THEN Append(l, e) ELSE Append(Tail(l), e)

Push(e) == log' = Logged(log, e)

Clear == log' = <<>>

Next == (\E e \in Event : Push(e)) \/ Clear

Spec == Init /\ [][Next]_log

=============================================================================
