---------------------------- MODULE DeviceConnect ----------------------------
(***************************************************************************)
(* How an object of the binding finds its device (ev3dev.cpp:196-275, with *)
(* the constructors and connect() of the classes).  device::connect looks  *)
(* at the entries of a directory, in whatever order readdir gives them,    *)
(* until one has the attributes that are asked for.  Meanwhile devices may *)
(* be plugged in and out, and an attribute that was read before is read    *)
(* through the stream in the cache, which is stale for good if the device  *)
(* has gone since (see DeviceAttr).                                        *)
(***************************************************************************)
EXTENDS Integers

CONSTANTS
    Numbers,    \* of nodes such as sensor0; other entries lack the prefix
    Absent,     \* no such node; no path
    Replugs     \* bound: how often the model plugs a device in or out

ASSUME ConnectAssumption ==
    /\ Absent \notin Numbers
    /\ Replugs \in Nat

(* The drivers that a class of sensors accepts (ev3dev.cpp:607-693).  The  *)
(* general classes sensor, motor, dc_motor, servo_motor and lego_port look *)
(* at the address only.                                                    *)
TypesOf ==
    [ i2c_sensor        |-> {"nxt-i2c-sensor"},
      touch_sensor      |-> {"lego-ev3-touch", "lego-nxt-touch"},
      color_sensor      |-> {"lego-ev3-color"},
      ultrasonic_sensor |-> {"lego-ev3-us", "lego-nxt-us"},
      gyro_sensor       |-> {"lego-ev3-gyro"},
      infrared_sensor   |-> {"lego-ev3-ir"},
      sound_sensor      |-> {"lego-nxt-sound", "nxt-analog"},
      light_sensor      |-> {"lego-nxt-light"} ]

MotorTypeOf == [ medium_motor |-> {"lego-ev3-m-motor"},
                 large_motor  |-> {"lego-ev3-l-motor"} ]

GeneralMotors == {"motor", "dc_motor", "servo_motor"}

SensorClasses == DOMAIN TypesOf \cup {"sensor"}

\* What a constructor asks for; the address "" (INPUT_AUTO) stands for any.
Match(class, address) ==
    IF class \in GeneralMotors \cup {"sensor", "lego_port"}
    THEN [address |-> {address}]
    ELSE [address |-> {address},
          driver_name |-> IF class \in DOMAIN TypesOf THEN TypesOf[class]
                                                     ELSE MotorTypeOf[class]]

\* led and power_supply look for the name of the entry only, as does
\* device::connect with an empty map (api_tests.cpp:24).
Anything == [a \in {} |-> {}]

\* The ports and drivers of the instance: two sensors at two ports.
Addresses == {"in1", "in2"}
Drivers == {"lego-ev3-touch", "nxt-analog"}
Requests ==
    {<<o[1], Match(o[1], o[2])>> :
        o \in {"touch_sensor", "sound_sensor", "sensor"} \X {"in1", ""}}
    \cup {<<"device", Anything>>, <<"device", Match("sensor", "in1")>>}

VARIABLES
    node,       \* attributes of the nodes that exist
    stream,     \* the cached stream of each attribute of each node
    replugs,
    dpc,        \* "idle", "scan" for the next entry, "open" or "read" for its
                \* next attribute, or, for a sound_sensor, "port"
    class, match,
    left,       \* entries that readdir has still to return
    todo,       \* attributes of the entry that are still to be compared
    path, index,    \* _path and _device_index
    answer,     \* what connect() returned last
    new,        \* history: the object had no path when connect() was called
    kept,       \* history: no device was plugged out at the entry looked at
    steady      \* history: nodes there since the scan began, and not rejected
                \* for what a stale stream says

devvars == <<node, stream, replugs, dpc, class, match, left, todo, path, index,
             answer, new, kept, steady>>

\* What a step of the kernel leaves alone, and one of device::connect.
bindingvars == <<dpc, class, match, left, todo, path, index, answer, new>>
callvars == <<node, replugs, class, match, index, new>>

\* The keys of a std::map are in order: a comes before b.
Before(a, b) == a = "address" /\ b = "driver_name"
AttributeNames == {"address", "driver_name"}

AtEntry == dpc \in {"open", "read"}

ConnectTypeOK ==
    /\ node \in [Numbers -> [address : Addresses, driver_name : Drivers] \cup {Absent}]
    /\ stream \in [Numbers -> [AttributeNames -> {"closed", "good", "stale"}]]
    /\ replugs \in 0 .. Replugs
    /\ dpc \in {"idle", "scan", "open", "read", "port"}
    /\ <<class, match>> \in Requests
    /\ left \in SUBSET Numbers
    /\ todo \in SUBSET DOMAIN match
    /\ path \in Numbers \cup {Absent}
    /\ index \in {-1, 0}
    /\ {answer, new, kept} \subseteq BOOLEAN
    /\ steady \in SUBSET Numbers

ConnectInit ==
    /\ node = [n \in Numbers |-> Absent]
    /\ stream = [n \in Numbers |-> [a \in AttributeNames |-> "closed"]]
    /\ replugs = 0
    /\ dpc = "idle"
    /\ class = "device" /\ match = Anything
    /\ left = {} /\ todo = {} /\ steady = {}
    /\ path = Absent /\ index = -1
    /\ answer = FALSE /\ new = TRUE /\ kept = TRUE

------------------------------------------------------------------------------
(* The kernel, at any moment.                                              *)

PlugIn(n) ==
    /\ replugs < Replugs
    /\ node[n] = Absent
    /\ \E a \in Addresses, d \in Drivers :
          /\ \A m \in Numbers : node[m] # Absent => node[m].address # a
          /\ node' = [node EXCEPT ![n] = [address |-> a, driver_name |-> d]]
    /\ replugs' = replugs + 1
    /\ UNCHANGED <<stream, bindingvars, kept, steady>>

PlugOut(n) ==
    /\ replugs < Replugs
    /\ node[n] # Absent
    /\ node' = [node EXCEPT ![n] = Absent]
    /\ stream' = [stream EXCEPT ![n] =
                     [a \in AttributeNames |-> IF @[a] = "good" THEN "stale" ELSE @[a]]]
    /\ steady' = steady \ {n}
    /\ kept' = (kept /\ ~(AtEntry /\ n = path))
    /\ replugs' = replugs + 1
    /\ UNCHANGED bindingvars

\* The next attribute of the entry, in the order of the map.
Following(a) == a \in todo /\ \A b \in todo : ~Before(b, a)

\* Accesses to other files push a stream out of the cache, but not the one that
\* is in use (see StreamInUse of DeviceAttr).
Evict(n, a) ==
    /\ stream[n][a] # "closed"
    /\ ~(dpc = "read" /\ n = path /\ Following(a))
    /\ stream' = [stream EXCEPT ![n][a] = "closed"]
    /\ UNCHANGED <<node, replugs, bindingvars, kept, steady>>

------------------------------------------------------------------------------
(* device::connect.                                                        *)

\* get_attr_string: a stale stream yields "", a missing file an exception.
Throws(n, a) == stream[n][a] = "closed" /\ node[n] = Absent
Text(n, a) == IF stream[n][a] = "stale" THEN "" ELSE node[n][a]

\* An empty set of values, or one whose first value is "", admits any value.
Admits(values, text) == values = {} \/ "" \in values \/ text \in values

\* Opening an attribute leaves its stream open, if there is such a file.
StreamsAfter(n, a) ==
    [stream EXCEPT ![n][a] = IF @ = "closed" /\ node[n] # Absent THEN "good" ELSE @]

\* Every object is connected by its constructor; a device (public connect())
\* also later.  opendir fails, or there are the entries of the moment.
Connect(request) ==
    /\ dpc = "idle"
    /\ dpc' = "scan"
    /\ class' = request[1] /\ match' = request[2]
    /\ left' = {n \in Numbers : node[n] # Absent}
    /\ steady' = left'
    /\ \/ path' = Absent /\ index' = -1
       \/ class = "device" /\ class' = "device" /\ UNCHANGED <<path, index>>
    /\ new' = (path' = Absent)
    /\ UNCHANGED <<node, stream, replugs, todo, answer, kept>>

\* readdir returns entry n.
NextEntry(n) ==
    /\ dpc = "scan"
    /\ n \in left
    /\ path' = n
    /\ left' = left \ {n}
    /\ todo' = DOMAIN match
    /\ dpc' = "open"
    /\ kept' = TRUE
    /\ UNCHANGED <<callvars, stream, answer, steady>>

\* Its attributes are compared one by one: each is opened, unless it is open from
\* before, ...
OpenAttribute(a) ==
    /\ dpc = "open" /\ Following(a)
    /\ ~Throws(path, a)
    /\ stream' = StreamsAfter(path, a)
    /\ dpc' = "read"
    /\ UNCHANGED <<callvars, left, todo, path, answer, kept, steady>>

\* Seeded fault: the last attribute decides.
CompareLastDecides(a) ==
    /\ dpc = "read" /\ Following(a)
    /\ todo # {a} \/ Admits(match[a], Text(path, a))
    /\ todo' = todo \ {a}
    /\ dpc' = "open"
    /\ UNCHANGED <<callvars, stream, left, path, answer, kept, steady>>

\* ... read and compared.
CompareAttribute(a) ==
    /\ dpc = "read" /\ Following(a)
    /\ Admits(match[a], Text(path, a))
    /\ todo' = todo \ {a}
    /\ dpc' = "open"
    /\ UNCHANGED <<callvars, stream, left, path, answer, kept, steady>>

\* An attribute that cannot be opened, or does not match.
Unsuitable(a) ==
    /\ Following(a)
    /\ \/ dpc = "open" /\ Throws(path, a)
       \/ dpc = "read" /\ ~Admits(match[a], Text(path, a))

\* Seeded fault: the path of the rejected entry stays.
RejectKeepsPath(a) ==
    /\ Unsuitable(a)
    /\ dpc' = "scan"
    /\ todo' = {}
    /\ kept' = TRUE
    /\ steady' = IF stream[path][a] = "stale" THEN steady \ {path} ELSE steady
    /\ UNCHANGED <<callvars, stream, left, path, answer>>

\* Seeded fault: an exception ends the search.
RejectEndsOnThrow(a) ==
    /\ Unsuitable(a)
    /\ path' = Absent
    /\ dpc' = "scan"
    /\ todo' = {}
    /\ left' = IF dpc = "open" THEN {} ELSE left
    /\ kept' = TRUE
    /\ steady' = IF stream[path][a] = "stale" THEN steady \ {path} ELSE steady
    /\ UNCHANGED <<callvars, stream, answer>>

\* Then the search goes on, with the path cleared, whatever it was before.
Reject(a) ==
    /\ Unsuitable(a)
    /\ path' = Absent
    /\ dpc' = "scan"
    /\ todo' = {}
    /\ kept' = TRUE
    /\ steady' = IF stream[path][a] = "stale" THEN steady \ {path} ELSE steady
    /\ UNCHANGED <<callvars, stream, left, answer>>

\* All attributes have matched.
Found ==
    /\ dpc = "open" /\ todo = {}
    /\ answer' = TRUE
    /\ dpc' = IF class = "sound_sensor" THEN "port" ELSE "idle"
    /\ left' = {} /\ steady' = {}
    /\ kept' = TRUE
    /\ UNCHANGED <<callvars, stream, todo, path>>

\* No entry is left.  Sensors clear the path here (ev3dev.cpp:510); the other
\* classes keep that of an earlier connection if there was no entry at all.
NotFound ==
    /\ dpc = "scan"
    /\ left = {}
    /\ answer' = FALSE
    /\ path' = IF class \in SensorClasses THEN Absent ELSE path
    /\ dpc' = "idle"
    /\ UNCHANGED <<callvars, stream, left, todo, kept, steady>>

\* The constructor of sound_sensor: an analog sensor needs its port to load the
\* driver.  No port, the wrong port, or an exception of the port's attributes,
\* and nothing is connected.
LoadSoundDriver ==
    /\ dpc = "port"
    /\ \/ ~Throws(path, "driver_name") /\ UNCHANGED path
       \/ Throws(path, "driver_name") /\ path' = Absent
       \/ ~Throws(path, "driver_name") /\ Text(path, "driver_name") = "nxt-analog"
             /\ path' = Absent
    /\ dpc' = "idle"
    /\ answer' = (path' # Absent)
    /\ stream' = StreamsAfter(path, "driver_name")
    /\ UNCHANGED <<callvars, left, todo, kept, steady>>

\* device_index: the digits at the end of the path.  As connect() appends a '/'
\* to the name of the entry, there are none.
DeviceIndex ==
    /\ dpc = "idle"
    /\ path # Absent
    /\ index' = IF index < 0 THEN 0 ELSE index
    /\ UNCHANGED <<node, stream, replugs, dpc, class, match, left, todo, path, answer,
                   new, kept, steady>>

ConnectNext ==
    \/ \E n \in Numbers :
          \/ PlugIn(n)
          \/ PlugOut(n)
          \/ \E a \in AttributeNames : Evict(n, a)
          \/ NextEntry(n)
    \/ \E a \in AttributeNames : OpenAttribute(a) \/ CompareAttribute(a) \/ Reject(a)
    \/ \E r \in Requests : Connect(r)
    \/ Found
    \/ NotFound
    \/ LoadSoundDriver
    \/ DeviceIndex

ConnectSpec == ConnectInit /\ [][ConnectNext]_devvars

------------------------------------------------------------------------------
(* Properties.                                                             *)

\* connected() tells of a new object what connect() has returned: a search that
\* ends without success, after whatever entries and exceptions, leaves no path.
ConnectedAsAnswered == dpc = "idle" /\ new => (path # Absent) = answer

\* The node has all attributes asked for, whatever the streams say.
HasAttributes(n) ==
    /\ node[n] # Absent
    /\ \A a \in DOMAIN match : Admits(match[a], node[n][a])

\* The entries that the search has done with.
PassedBy == steady \ (left \cup IF AtEntry THEN {path} ELSE {})

\* No device is missed: each node that was there all the time and has been
\* passed over lacks an attribute asked for, whatever other nodes come, go or
\* cannot be read, unless what it was rejected for was read from a stale stream.
NoDeviceMissed ==
    dpc = "scan" \/ AtEntry => \A n \in PassedBy : ~HasAttributes(n)

\* An object is connected to a device that has all attributes asked for at that
\* moment, although they are compared one after the other, through streams of
\* before, while nodes come and go.  Nothing to compare, and a node that is gone
\* will do.  The exception (~kept): if the device of this very entry is pulled
\* while its attributes are compared, the next in its place need only have those
\* that are compared later, and connect() does not notice.
ConnectsToMatch ==
    [][AtEntry /\ kept /\ dpc' \in {"idle", "port"} =>
          \/ HasAttributes(path')
          \/ node[path'] = Absent /\ \A a \in DOMAIN match : Admits(match[a], "")]_devvars
==============================================================================
