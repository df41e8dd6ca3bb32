----------------------------- MODULE SensorValue -----------------------------
(***************************************************************************)
(* The values of a sensor (ev3dev.cpp:555-603, and the methods of the      *)
(* classes in ev3dev.h:302-591).  A method sets the mode it needs and then *)
(* reads; each of these is an access to a file of its own.  The module is  *)
(* about one object; other objects, threads and programs may set the mode  *)
(* of the same device.                                                     *)
(***************************************************************************)
EXTENDS Integers, FiniteSets

CONSTANTS
    NoClass,        \* no sensor is plugged in yet
    NoAccess        \* nothing read

\* What the methods of each class set and read: mode, index, as a float.
TouchSensorMethods == {<<"TOUCH", 0, FALSE>>}
ColorSensorMethods ==
    {<<m, 0, FALSE>> : m \in {"COL-REFLECT", "COL-AMBIENT", "COL-COLOR"}}
    \cup {<<"RGB-RAW", i, FALSE>> : i \in 0 .. 2}
UltrasonicSensorMethods ==
    {<<"US-DIST-CM", 0, TRUE>>, <<"US-DIST-IN", 0, TRUE>>, <<"US-LISTEN", 0, FALSE>>}
GyroSensorMethods == {<<"GYRO-ANG", 0, FALSE>>, <<"GYRO-RATE", 0, FALSE>>}
InfraredSensorMethods == {<<"IR-PROX", 0, FALSE>>}
SoundSensorMethods == {<<"DB", 0, TRUE>>, <<"DBA", 0, TRUE>>}
LightSensorMethods == {<<"REFLECT", 0, TRUE>>, <<"AMBIENT", 0, TRUE>>}

Methods ==
    [ touch_sensor |-> TouchSensorMethods, color_sensor |-> ColorSensorMethods,
      ultrasonic_sensor |-> UltrasonicSensorMethods,
      gyro_sensor |-> GyroSensorMethods, infrared_sensor |-> InfraredSensorMethods,
      sound_sensor |-> SoundSensorMethods, light_sensor |-> LightSensorMethods ]

\* The modes that a class declares without a method, for set_mode().
OtherModes ==
    [ touch_sensor |-> {},
      color_sensor |-> {"REF-RAW"},
      ultrasonic_sensor |-> {"US-SI-CM", "US-SI-IN"},
      gyro_sensor |-> {"GYRO-FAS", "GYRO-G&A", "GYRO-CAL"},
      infrared_sensor |-> {"IR-SEEK", "IR-REMOTE", "IR-REM-A", "IR-CAL"},
      sound_sensor |-> {}, light_sensor |-> {} ]

SensorKinds == DOMAIN Methods
ModesOf(c) == {m[1] : m \in Methods[c]} \cup OtherModes[c]

ASSUME SensorAssumption ==
    /\ NoClass \notin SensorKinds
    /\ NoAccess \notin {"value", "bytes", "throws"}

(* The drivers: how many values a mode has, in which format, and with how  *)
(* many decimals.                                                          *)
NumValues(m) == CASE m \in {"RGB-RAW"} -> 3
                  [] m \in {"REF-RAW", "GYRO-G&A", "IR-CAL"} -> 2
                  [] m = "IR-SEEK" -> 8
                  [] m = "IR-REMOTE" -> 4
                  [] OTHER -> 1
Format(m) == CASE m \in {"REF-RAW", "RGB-RAW", "US-DIST-CM", "US-DIST-IN", "GYRO-ANG",
                         "GYRO-RATE", "GYRO-FAS", "GYRO-G&A", "GYRO-CAL", "IR-CAL",
                         "US-SI-CM", "US-SI-IN"} -> "s16"
               [] m \in {"COL-REFLECT", "COL-AMBIENT", "COL-COLOR", "IR-PROX",
                         "IR-SEEK", "IR-REMOTE", "US-LISTEN"} -> "s8"
               [] OTHER -> "u8"

\* The table of bin_data(); any other format counts as one byte.
ValueSizes == [u8 |-> 1, s8 |-> 1, u16 |-> 2, s16 |-> 2, s16_be |-> 2, s32 |-> 4, float |-> 4]
ValueSize(format) == IF format \in DOMAIN ValueSizes THEN ValueSizes[format] ELSE 1
Bytes(m) == NumValues(m) * ValueSize(Format(m))

VARIABLES
    sensorClass,    \* of the device
    deviceMode,     \* attribute "mode"
    reading,        \* what the call has still to read
    request,        \* the method that is called
    got,            \* modes that the value and the decimals were read in
    binData,        \* the size of _bin_data
    valueSize,      \* local of bin_data()
    result,         \* of the last call: "value", "bytes" or "throws"
    quiet           \* history: nobody changed the mode during the call

svars == <<sensorClass, deviceMode, reading, request, got, binData, valueSize,
           result, quiet>>

Reads == {"count", "value", "decimals", "format", "size", "bytes"}
Nothing == [value |-> NoAccess, decimals |-> NoAccess]

SensorInit ==
    /\ sensorClass = NoClass /\ deviceMode = NoClass
    /\ reading = {} /\ request = NoAccess /\ got = Nothing
    /\ binData = 0 /\ valueSize = 1
    /\ result = NoAccess
    /\ quiet = TRUE

SensorTypeOK ==
    /\ sensorClass \in SensorKinds \cup {NoClass}
    /\ deviceMode \in IF sensorClass = NoClass THEN {NoClass} ELSE ModesOf(sensorClass)
    /\ reading \subseteq Reads
    /\ binData \in Nat /\ valueSize \in {1, 2, 4}
    /\ result \in {"value", "bytes", "throws", NoAccess}
    /\ quiet \in BOOLEAN

SensorPlugIn(c) ==
    /\ sensorClass = NoClass
    /\ sensorClass' = c
    /\ deviceMode' \in ModesOf(c)
    /\ UNCHANGED <<reading, request, got, binData, valueSize, result, quiet>>

Plugged == sensorClass # NoClass

\* Somebody else sets the mode.
AnotherMode(m) ==
    /\ Plugged
    /\ deviceMode' = m
    /\ quiet' = (quiet /\ m = deviceMode)
    /\ UNCHANGED <<sensorClass, reading, request, got, binData, valueSize, result>>

Call(r, first) ==
    /\ Plugged
    /\ reading = {} /\ reading' = first
    /\ request' = r
    /\ result' = NoAccess /\ got' = Nothing
    /\ quiet' = TRUE

\* set_mode() and then value() or float_value(), which is evaluated in any order.
Method(m) ==
    /\ Call(m, IF m[3] THEN {"count", "decimals"} ELSE {"count"})
    /\ deviceMode' = m[1]
    /\ UNCHANGED <<sensorClass, binData, valueSize>>

\* Seeded fault: the last value is out of range.
CheckIndexOffByOne ==
    /\ "count" \in reading
    /\ IF request[2] + 1 >= NumValues(deviceMode)
       THEN reading' = {} /\ result' = "throws"
       ELSE reading' = (reading \ {"count"}) \cup {"value"} /\ UNCHANGED result
    /\ UNCHANGED <<sensorClass, deviceMode, request, got, binData, valueSize, quiet>>

\* value() compares the index with num_values ...
CheckIndex ==
    /\ "count" \in reading
    /\ IF request[2] >= NumValues(deviceMode)
       THEN reading' = {} /\ result' = "throws"
       ELSE reading' = (reading \ {"count"}) \cup {"value"} /\ UNCHANGED result
    /\ UNCHANGED <<sensorClass, deviceMode, request, got, binData, valueSize, quiet>>

\* ... and reads value<index>; float_value() also the decimals.
ReadAttribute(what) ==
    /\ what \in reading
    /\ got' = [got EXCEPT ![what] = deviceMode]
    /\ reading' = reading \ {what}
    /\ result' = IF reading' = {} THEN "value" ELSE result
    /\ UNCHANGED <<sensorClass, deviceMode, request, binData, valueSize, quiet>>

\* bin_data() makes room for the values when it is called first.
BinData ==
    /\ Call(NoAccess, IF binData = 0 THEN {"format"} ELSE {"bytes"})
    /\ UNCHANGED <<sensorClass, deviceMode, binData, valueSize>>

ReadFormat ==
    /\ "format" \in reading
    /\ valueSize' = ValueSize(Format(deviceMode))
    /\ reading' = {"size"}
    /\ UNCHANGED <<sensorClass, deviceMode, request, got, binData, result, quiet>>

MakeRoom ==
    /\ "size" \in reading
    /\ binData' = NumValues(deviceMode) * valueSize
    /\ reading' = {"bytes"}
    /\ UNCHANGED <<sensorClass, deviceMode, request, got, valueSize, result, quiet>>

\* The file is read into the buffer, as far as it goes.
ReadBytes ==
    /\ "bytes" \in reading
    /\ reading' = {}
    /\ result' = "bytes"
    /\ UNCHANGED <<sensorClass, deviceMode, request, got, binData, valueSize, quiet>>

SensorNext ==
    \/ \E c \in SensorKinds : SensorPlugIn(c)
    \/ \E c \in SensorKinds \cap {sensorClass} :
          \/ \E m \in Methods[c] : Method(m)
          \/ \E m \in ModesOf(c) : AnotherMode(m)
    \/ CheckIndex
    \/ \E what \in {"value", "decimals"} : ReadAttribute(what)
    \/ BinData
    \/ ReadFormat
    \/ MakeRoom
    \/ ReadBytes

SensorSpec == SensorInit /\ [][SensorNext]_svars

------------------------------------------------------------------------------
\* A method returns what it is for: unless somebody else sets another mode
\* between its accesses, it does not throw, and the value and its decimals are
\* those of the mode it has set.  (With CraneControl nobody else can.)
MethodsDeliver ==
    reading = {} /\ quiet =>
        /\ result # "throws"
        /\ result = "value" =>
              /\ got.value = request[1]
              /\ request[3] => got.decimals = request[1]

\* "Returns the unscaled raw values in the value<N> attributes as raw byte
\* array" (ev3dev.h:185): if the mode does not change during the call, the array
\* holds these values and nothing else.
BinDataIsValues == result = "bytes" /\ quiet => binData = Bytes(deviceMode)
==============================================================================
