---------------------------- MODULE CraneMachines ----------------------------
(***************************************************************************)
(* The state machines of draft.cpp and demo.cpp, as the calls by which     *)
(* main() builds them, and what those calls leave in the State objects     *)
(* (State.hpp:53-71).                                                      *)
(***************************************************************************)
EXTENDS Integers, Sequences, TLC

CONSTANTS A, B, C, D,   \* the states of draft.cpp
          U, V,         \* state_A and state_B of demo.cpp
          Readings      \* what the callbacks tell apart, see below

(* The calls.                                                              *)

AddAction(s, a) == [call |-> "addAction", on |-> s, arg |-> a]
AddTransition(s, condition, to) ==
    [call |-> "addTransition", on |-> s, arg |-> [cond |-> condition, to |-> to]]
SetTimeout(s) == [call |-> "setTimeout", on |-> s, arg |-> "1s"]

\* The arguments of the calls of one kind on one state, in order.
Arguments(calls, kind, s) ==
    LET mine == SelectSeq(calls, LAMBDA c : c.call = kind /\ c.on = s)
    IN  [i \in DOMAIN mine |-> mine[i].arg]

ActionsBy(calls, states) == [s \in states |-> Arguments(calls, "addAction", s)]
TransitionsBy(calls, states) ==
    [s \in states |-> Arguments(calls, "addTransition", s)]

\* getTimeout is not nullptr after any number of calls of setTimeout but none.
TimedBy(calls) == {calls[i].on : i \in {j \in DOMAIN calls : calls[j].call = "setTimeout"}}

------------------------------------------------------------------------------
(* The callbacks.  Each condition looks at one field of a reading: there is *)
(* one reading per field that is remarkable, "touched", "bright",           *)
(* "centered" (motor C) and "high" (motor A), and one at "rest".  operator== *)
(* does not see the positions.                                              *)

CraneSame(a, b) == a = b \/ {a, b} \subseteq {"rest", "centered", "high"}

\* Conditions are sets of pairs of a reading and a duration.
When(field, durations) == {field} \X durations
After(n, durations) == Readings \X {e \in durations : e > n}

condition_A_to_B(durations) == When("touched", durations)
condition_B_to_C(durations) == When("centered", durations) \cup After(0, durations)
condition_C_to_D(durations) == When("bright", durations)

\* No position satisfies (pos < 175) && (pos > 185).
condition_D_to_A(durations) == After(0, durations)

demo_condition_A_to_B(durations) == When("high", durations)

\* The commands that an action gives, to which motor.
CraneCommand ==
    [ go_right      |-> <<"C", "run-forever">>,
      go_center     |-> <<"C", "run-to-abs-pos">>,
      stop_rl       |-> <<"C", "stop">>,
      go_up         |-> <<"B", "run-forever">>,
      go_down       |-> <<"B", "run-to-abs-pos">>,
      stop_ud       |-> <<"B", "stop">>,
      demo_go_up    |-> <<"A", "run-to-abs-pos">>,
      demo_go_down  |-> <<"A", "run-to-abs-pos">> ]

------------------------------------------------------------------------------
(* main().                                                                 *)

DraftCalls(durations) == <<
    AddAction(A, "go_right"),
    AddTransition(A, condition_A_to_B(durations), B),
    AddAction(B, "stop_rl"), AddAction(B, "go_center"),
    AddTransition(B, condition_B_to_C(durations), C),
    SetTimeout(B),
    AddAction(C, "stop_rl"), AddAction(C, "go_up"),
    AddTransition(C, condition_C_to_D(durations), D),
    AddAction(D, "stop_ud"), AddAction(D, "go_down"),
    AddTransition(D, condition_D_to_A(durations), A),
    SetTimeout(D) >>

DemoCalls(durations) == <<
    AddAction(U, "demo_go_up"),
    AddTransition(U, demo_condition_A_to_B(durations), V),
    AddAction(V, "demo_go_down") >>
==============================================================================
