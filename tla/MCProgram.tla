------------------------------ MODULE MCProgram ------------------------------
(* The program of MCApplication that ends by itself, with its poller.      *)
EXTENDS Program, TLC

CONSTANTS P, Q      \* its states

Duration == -1 .. MaxElapsed

\* Runs motor A until the touch sensor is pressed, then stops it and ends.
Touched == {reading \in Data : reading[1] = "touched"}
MCActions == P :> <<"forth">> @@ Q :> <<"halt">>
MCTransitions ==
    P :> <<[cond |-> Touched \X Duration, to |-> Q]>>
    @@ Q :> <<[cond |-> Data \X {d \in Duration : d > -1}, to |-> NoState]>>
MCCommand == [forth |-> <<"A", "run-forever">>, halt |-> <<"A", "stop">>]

\* The readings have one field, and it counts.
ExactSame(a, b) == a = b
==============================================================================
