------------------------------ MODULE Accessors ------------------------------
(***************************************************************************)
(* The get and set methods of the classes of devices (ev3dev.h), each for  *)
(* one attribute of the device, and the attributes that list choices, one  *)
(* of them in brackets (ev3dev.cpp:396-465).                               *)
(***************************************************************************)
EXTENDS Integers, Sequences

CONSTANTS
    Written,        \* values that the program writes
    Default,        \* what attributes hold before
    NoObject

\* Methods that read and write, that only read, and that only write.
Kinds(rw, ro, wo) == [rw |-> rw, ro |-> ro, wo |-> wo]
Both(m, n) == Kinds(m.rw \cup n.rw, m.ro \cup n.ro, m.wo \cup n.wo)

SensorAccessors ==
    Kinds({"mode"},
             {"address", "commands", "decimals", "driver_name", "modes", "num_values",
              "units", "bin_data_format"},
             {"command"})

I2cSensorAccessors == Both(SensorAccessors, Kinds({"poll_ms"}, {"fw_version"}, {}))

MotorGeneral ==
    Kinds({"duty_cycle_sp", "polarity"},
             {"address", "commands", "count_per_rot", "count_per_m", "driver_name",
              "duty_cycle", "full_travel_count"},
             {"command"})
MotorPosition ==
    Kinds({"position", "position_p", "position_i", "position_d", "position_sp"}, {}, {})
MotorSpeed ==
    Kinds({"speed_sp", "ramp_up_sp", "ramp_down_sp", "speed_p", "speed_i", "speed_d"},
             {"max_speed", "speed"}, {})
MotorStopping == Kinds({"stop_action", "time_sp"}, {"state", "stop_actions"}, {})

DcMotorAccessors ==
    Kinds({"duty_cycle_sp", "polarity", "ramp_down_sp", "ramp_up_sp", "time_sp"},
             {"address", "commands", "driver_name", "duty_cycle", "state", "stop_actions"},
             {"command", "stop_action"})

ServoMotorAccessors ==
    Kinds({"max_pulse_sp", "mid_pulse_sp", "min_pulse_sp", "polarity", "position_sp",
              "rate_sp"},
             {"address", "driver_name", "state"},
             {"command"})

LedAccessors ==
    Kinds({"brightness", "trigger", "delay_on", "delay_off"},
             {"max_brightness", "triggers"}, {})

PowerSupplyAccessors ==
    Kinds({}, {"measured_current", "measured_voltage", "max_voltage", "min_voltage",
                  "technology", "type"}, {})

LegoPortAccessors ==
    Kinds({"mode"}, {"address", "driver_name", "modes", "status"}, {"set_device"})

AccessorsOf ==
    [ sensor |-> SensorAccessors, i2c_sensor |-> I2cSensorAccessors,
      motor |-> Both(Both(MotorGeneral, MotorPosition), Both(MotorSpeed, MotorStopping)),
      dc_motor |-> DcMotorAccessors, servo_motor |-> ServoMotorAccessors,
      led |-> LedAccessors, power_supply |-> PowerSupplyAccessors,
      lego_port |-> LegoPortAccessors ]

Readable(c) == AccessorsOf[c].rw \cup AccessorsOf[c].ro
Writable(c) == AccessorsOf[c].rw \cup AccessorsOf[c].wo

\* Most methods have the name of the attribute.
OtherNames ==
    [ position_p |-> "hold_pid/Kp", position_i |-> "hold_pid/Ki", position_d |-> "hold_pid/Kd",
      speed_p |-> "speed_pid/Kp", speed_i |-> "speed_pid/Ki", speed_d |-> "speed_pid/Kd",
      triggers |-> "trigger",
      measured_current |-> "current_now", measured_voltage |-> "voltage_now",
      max_voltage |-> "voltage_max_design", min_voltage |-> "voltage_min_design" ]

\* Seeded fault: two constants of a PID have got the same attribute.
AttributeOfMixedUp(a) ==
    IF a = "position_d" THEN "hold_pid/Ki"
    ELSE IF a \in DOMAIN OtherNames THEN OtherNames[a] ELSE a

AttributeOf(a) == IF a \in DOMAIN OtherNames THEN OtherNames[a] ELSE a

\* The commands without an argument.
MotorCommands == {"run-forever", "run-to-abs-pos", "run-to-rel-pos", "run-timed",
                  "run-direct", "stop", "reset"}
DcMotorCommands == {"run-forever", "run-timed", "run-direct", "stop"}
ServoMotorCommands == {"run", "float"}

CommandsOf(c) == IF c = "motor" THEN MotorCommands
                 ELSE IF c = "dc_motor" THEN DcMotorCommands
                 ELSE IF c = "servo_motor" THEN ServoMotorCommands
                 ELSE {}

------------------------------------------------------------------------------
(* Attributes that are lists: a line of words, of which one is marked by   *)
(* brackets; spaces at the end make a word that is empty.                  *)

NoText == "no text"    \* of the word that is empty
Word(text, marked) == [text |-> text, marked |-> marked]
Line(choices, current) ==
    [i \in DOMAIN choices |-> Word(choices[i], choices[i] = current)] \o <<Word(NoText, FALSE)>>

GetAttrSet(line) == {line[i].text : i \in {i \in DOMAIN line : line[i].text # NoText}}

\* The first word that is marked.
GetAttrFromSet(line) ==
    LET marked == {i \in DOMAIN line : line[i].text # NoText /\ line[i].marked}
    IN  IF marked = {} THEN "none"
        ELSE line[CHOOSE i \in marked : \A j \in marked : i <= j].text

Triggers == <<"none", "mmc0", "timer", "heartbeat">>
TriggerSet == {Triggers[i] : i \in DOMAIN Triggers}

ASSUME AccessorAssumption == Default \notin TriggerSet /\ NoObject \notin DOMAIN AccessorsOf

VARIABLES
    object,         \* the class of the object
    attribute,      \* the device's attributes that were written, with their values
    set,            \* history: what was written last through each method
    writes          \* the number of writes, bounded

avars == <<object, attribute, set, writes>>

Values(a) == IF a = "trigger" THEN TriggerSet ELSE Written

AccessorTypeOK ==
    /\ object \in DOMAIN AccessorsOf \cup {NoObject}
    /\ object # NoObject => DOMAIN set \subseteq Writable(object)
    /\ \A a \in DOMAIN set : set[a] \in Values(a) \cup CommandsOf(object)
    /\ writes \in 0 .. 2

\* Nothing written.
Fresh == [a \in {} |-> Default]

AccessorInit ==
    /\ object = NoObject
    /\ attribute = Fresh /\ set = Fresh
    /\ writes = 0

NewObject(c) ==
    /\ object = NoObject
    /\ object' = c
    /\ UNCHANGED <<attribute, set, writes>>

With(f, x, v) == [y \in DOMAIN f \cup {x} |-> IF y = x THEN v ELSE f[y]]

Set(c, a, v) ==
    /\ object = c /\ writes < 2
    /\ attribute' = With(attribute, AttributeOf(a), v)
    /\ set' = With(set, a, v)
    /\ writes' = writes + 1
    /\ UNCHANGED object

\* A command; "reset" makes the driver of a tacho motor forget what was set.
Command(c, m) ==
    /\ object = c /\ writes < 2
    /\ IF m = "reset" THEN attribute' = Fresh /\ set' = Fresh
       ELSE attribute' = With(attribute, "command", m) /\ set' = With(set, "command", m)
    /\ writes' = writes + 1
    /\ UNCHANGED object

\* The end of the object's life; the next one is for another device.
DeleteObject ==
    /\ object # NoObject
    /\ object' = NoObject
    /\ attribute' = Fresh /\ set' = Fresh
    /\ writes' = 0

AccessorNext ==
    \/ \E c \in DOMAIN AccessorsOf :
          \/ NewObject(c)
          \/ \E a \in Writable(c) : \E v \in Values(a) : Set(c, a, v)
          \/ \E m \in CommandsOf(c) : Command(c, m)
    \/ DeleteObject

AccessorSpec == AccessorInit /\ [][AccessorNext]_avars

\* What a method that reads returns.
Get(a) ==
    LET file == AttributeOf(a)
        held == IF file \in DOMAIN attribute THEN attribute[file] ELSE Default
        line == Line(Triggers, IF held = Default THEN "none" ELSE held)
    IN  IF a = "trigger" THEN GetAttrFromSet(line)
        ELSE IF a = "triggers" THEN GetAttrSet(line)
        ELSE held

\* Each property of an object reads as what was last set through its own method,
\* or else as what the device had by itself: no method touches the attribute of
\* another, however the attributes are named and listed.
ReadsBack ==
    object # NoObject =>
        \A a \in Readable(object) :
            Get(a) = IF a \in DOMAIN set THEN set[a]
                     ELSE IF a = "trigger" THEN "none"
                     ELSE IF a = "triggers" THEN TriggerSet
                     ELSE Default
==============================================================================
