------------------------------ MODULE Scenarios ------------------------------
(* What may happen besides the ordinary course of a component is chosen once *)
(* per behaviour, so that faults which have nothing to do with one another   *)
(* are explored side by side and not multiplied.  The first word names the   *)
(* component that the behaviour is about.                                    *)

CONSTANT Scenarios     \* each a set of words
VARIABLE env           \* the scenario of this behaviour

ChooseScenario == env \in Scenarios
=============================================================================
