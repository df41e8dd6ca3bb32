------------------------------- MODULE PidTest -------------------------------
(***************************************************************************)
(* The program that tunes the gain D of a motor by keys (pidtest.cpp).     *)
(***************************************************************************)
EXTENDS Integers

CONSTANTS
    MaxStep         \* bound: how often the keys change the gain

ASSUME PidAssumption == MaxStep \in Nat

Keys == {"+", "-", "s", "r", "q", "other"}

VARIABLES
    ppc,            \* "new", "read", "act", "end"
    choice,         \* the key read last; any before, as it is not initialised
    eof,            \* there is no more input
    gain,           \* attribute hold_pid/Kd, in steps of 1000
    motorCommand,   \* attribute "command"
    typed,          \* history: the steps that were typed
    exit            \* "running", "no_device", "quit" or "exception"

pvars == <<ppc, choice, eof, gain, motorCommand, typed, exit>>

PidTypeOK ==
    /\ ppc \in {"new", "read", "act", "end"}
    /\ choice \in Keys /\ eof \in BOOLEAN
    /\ gain \in -MaxStep .. MaxStep /\ typed \in -MaxStep .. MaxStep
    /\ motorCommand \in {"none", "stop", "run-to-abs-pos"}
    /\ exit \in {"running", "no_device", "quit", "exception"}

PidInit ==
    /\ ppc = "new"
    /\ choice = "other" /\ eof = FALSE
    /\ gain = 0 /\ typed = 0
    /\ motorCommand = "none"
    /\ exit = "running"

\* What a key adds to the gain, and the command that it gives.
Step(key) == IF key = "+" THEN 1 ELSE IF key = "-" THEN -1 ELSE 0
CommandOfKey(key) == IF key \in {"s", "q"} THEN "stop"
                     ELSE IF key = "r" THEN "run-to-abs-pos"
                     ELSE motorCommand

\* The colour sensor and the motor must be connected.
Start ==
    /\ ppc = "new"
    /\ \/ ppc' = "read" /\ UNCHANGED exit
       \/ ppc' = "end" /\ exit' = "no_device"
    /\ choice' \in Keys
    /\ UNCHANGED <<eof, gain, motorCommand, typed>>

\* std::cin >> choice leaves choice alone when there is no input.
ReadKey ==
    /\ ppc = "read"
    /\ ppc' = "act"
    /\ \/ /\ ~eof
          /\ choice' \in Keys
          /\ typed' = typed + Step(choice')
          /\ typed' \in -MaxStep .. MaxStep
          /\ UNCHANGED eof
       \/ eof' = TRUE /\ UNCHANGED <<choice, typed>>
    /\ UNCHANGED <<gain, motorCommand, exit>>

\* Seeded fault: '-' does what '+' does.
ActOnlyUp ==
    /\ ppc = "act"
    /\ gain' = IF choice \in {"+", "-"} THEN gain + 1 ELSE gain
    /\ gain' \in -MaxStep .. MaxStep
    /\ motorCommand' = CommandOfKey(choice)
    /\ IF choice = "q" THEN ppc' = "end" /\ exit' = "quit"
                       ELSE ppc' = "read" /\ UNCHANGED exit
    /\ UNCHANGED <<choice, eof, typed>>

\* The key's effect, and the loop's end.
Act ==
    /\ ppc = "act"
    /\ gain' = gain + Step(choice)
    /\ gain' \in -MaxStep .. MaxStep
    /\ motorCommand' = CommandOfKey(choice)
    /\ IF choice = "q" THEN ppc' = "end" /\ exit' = "quit"
                       ELSE ppc' = "read" /\ UNCHANGED exit
    /\ UNCHANGED <<choice, eof, typed>>

\* An access to a device throws; nothing catches it, nothing stops the motor.
DeviceFails ==
    /\ ppc \in {"read", "act"}
    /\ ppc' = "end" /\ exit' = "exception"
    /\ UNCHANGED <<choice, eof, gain, motorCommand, typed>>

\* The program is started again, by somebody; the attributes stay.
Restart ==
    /\ ppc = "end"
    /\ ppc' = "new" /\ exit' = "running"
    /\ eof' = FALSE
    /\ typed' = gain
    /\ UNCHANGED <<choice, gain, motorCommand>>

PidNext == Start \/ ReadKey \/ Act \/ DeviceFails \/ Restart

PidSpec == PidInit /\ [][PidNext]_pvars

------------------------------------------------------------------------------
\* The gain is what was typed, and the motor is stopped when the program has
\* quit: as long as there is input.  (At its end the last key is repeated for
\* ever; and nothing stops the motor when a device has failed.)
GainFollowsKeys ==
    /\ ppc = "read" /\ ~eof => gain = typed
    /\ exit = "quit" => motorCommand = "stop"
==============================================================================
