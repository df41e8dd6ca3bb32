------------------------------- MODULE MCBrick -------------------------------
(* Two threads that use the colour sensor in two modes, and a motor.       *)
EXTENDS Brick

MCStatements ==
    {[dev |-> "color", accesses |-> <<SetMode("COL-REFLECT"), Value>>],
     [dev |-> "color", accesses |-> <<SetMode("COL-COLOR"), Value, Value>>],
     [dev |-> "motor", accesses |-> <<Other, Other>>]}
\* Tones of none to four numbers.
MCTones == {<<>>, <<"440">>, <<"440", "90">>, <<"440", "90", "10">>,
            <<"440", "90", "10", "7">>}
==============================================================================
