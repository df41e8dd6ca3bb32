---------------------------- MODULE DeviceProofs ----------------------------
(***************************************************************************)
(* Proofs about the classes of the binding that look for a device, read a  *)
(* sensor, or turn what is held and pressed into calls of functions: for   *)
(* any nodes, codes of a remote, and keys.                                 *)
(***************************************************************************)
EXTENDS DeviceConnect, SensorValue, RemoteControl, Buttons, TLAPS

(* DeviceConnect.                                                          *)

\* A stream that works belongs to a node that is there.
GoodStreams ==
    \A n \in Numbers, a \in AttributeNames :
        node[n] = Absent => stream[n][a] # "good"

\* A new object has no path while it searches.
NoPathYet == dpc = "scan" /\ new => path = Absent

\* The port is asked for after a success.
PortOfNode == dpc = "port" => path # Absent

\* What has been there since the scan began is there.
SteadyPresent == \A n \in steady : node[n] # Absent

\* The attribute that is about to be read is open.
OpenForReading ==
    dpc = "read" => \A a \in AttributeNames : Following(a) => stream[path][a] # "closed"

\* If nobody has pulled the device of an entry, what has been compared matches:
\* any value was asked for, or it is the value of the device.
ComparedMatch ==
    AtEntry /\ kept => \A a \in DOMAIN match \ todo :
                          \/ Admits(match[a], "")
                          \/ node[path] # Absent /\ Admits(match[a], node[path][a])

\* Attributes are compared at an entry only.
TodoAtEntry == IF AtEntry THEN path \in Numbers ELSE todo = {}

ConnectInv ==
    /\ ConnectTypeOK /\ TodoAtEntry
    /\ GoodStreams /\ OpenForReading /\ ComparedMatch
    /\ NoPathYet /\ PortOfNode /\ SteadyPresent
    /\ ConnectedAsAnswered /\ NoDeviceMissed

\* A value that is not a string of an attribute is admitted if any is.
LEMMA AdmitsAny ==
    ASSUME NEW values, NEW text, Admits(values, "")
    PROVE  Admits(values, text)
BY DEF Admits

\* What is asked for are some of the two attributes.
LEMMA RequestType ==
    ASSUME NEW r \in Requests
    PROVE  r = <<r[1], r[2]>> /\ DOMAIN r[2] \subseteq AttributeNames
<1>1. \A a : DOMAIN Match("sensor", a) = {"address"}
  BY DEF Match, GeneralMotors
<1>2. \A a : DOMAIN Match("touch_sensor", a) = AttributeNames
  BY DEF Match, GeneralMotors, AttributeNames
<1>3. \A a : DOMAIN Match("sound_sensor", a) = AttributeNames
  BY DEF Match, GeneralMotors, AttributeNames
<1>4. DOMAIN Anything = {}
  BY DEF Anything
<1>5. CASE r \in {<<"device", Anything>>, <<"device", Match("sensor", "in1")>>}
  <2>1. PICK m \in {Anything, Match("sensor", "in1")} : r = <<"device", m>>
    BY <1>5
  <2>2. r[1] = "device" /\ r[2] = m
    BY <2>1
  <2> QED
    BY <1>1, <1>4, <2>1, <2>2 DEF AttributeNames
<1>6. CASE r \in {<<o[1], Match(o[1], o[2])>> :
                   o \in {"touch_sensor", "sound_sensor", "sensor"} \X {"in1", ""}}
  <2>1. PICK o \in {"touch_sensor", "sound_sensor", "sensor"} \X {"in1", ""} :
           r = <<o[1], Match(o[1], o[2])>>
    BY <1>6
  <2>2. /\ r[1] = o[1] /\ r[2] = Match(o[1], o[2])
        /\ o[1] \in {"touch_sensor", "sound_sensor", "sensor"}
    BY <2>1
  <2> QED
    BY <1>1, <1>2, <1>3, <2>1, <2>2 DEF AttributeNames
<1> QED
  BY <1>5, <1>6 DEF Requests

LEMMA MatchNames ==
    ASSUME ConnectTypeOK
    PROVE  DOMAIN match \subseteq AttributeNames
<1>1. <<class, match>>[2] = match
  OBVIOUS
<1> QED
  BY <1>1, RequestType DEF ConnectTypeOK

\* An entry that is rejected by what its own files say is not a match.
LEMMA PassedOver ==
    ASSUME ConnectTypeOK, NEW a, Unsuitable(a), stream[path][a] # "stale"
    PROVE  ~HasAttributes(path)
<1>1. a \in DOMAIN match
  BY DEF Unsuitable, Following, ConnectTypeOK
<1> QED
  BY <1>1 DEF Unsuitable, Throws, Text, HasAttributes

\* An attribute that is read through a stream that works, or through one that is
\* stale, and matches.
LEMMA ComparedIsMatch ==
    ASSUME ConnectTypeOK, GoodStreams, OpenForReading, TodoAtEntry,
           NEW a \in AttributeNames, CompareAttribute(a)
    PROVE  \/ Admits(match[a], "")
           \/ node[path] # Absent /\ Admits(match[a], node[path][a])
<1>1. path \in Numbers /\ Following(a) /\ dpc = "read" /\ Admits(match[a], Text(path, a))
  BY DEF CompareAttribute, TodoAtEntry, AtEntry
<1>2. stream[path][a] \in {"good", "stale"}
  BY <1>1 DEF ConnectTypeOK, OpenForReading
<1> QED
  BY <1>1, <1>2 DEF Text, GoodStreams

\* Opening a stream keeps the others, and works if the file is there.
LEMMA StreamsAfterType ==
    ASSUME ConnectTypeOK, GoodStreams, NEW n \in Numbers, NEW b \in AttributeNames
    PROVE  /\ StreamsAfter(n, b) \in
                  [Numbers -> [AttributeNames -> {"closed", "good", "stale"}]]
           /\ \A m \in Numbers, a \in AttributeNames :
                  node[m] = Absent => StreamsAfter(n, b)[m][a] # "good"
           /\ ~Throws(n, b) => StreamsAfter(n, b)[n][b] # "closed"
<1> DEFINE streams == [stream[n] EXCEPT ![b] =
                          IF stream[n][b] = "closed" /\ node[n] # Absent
                          THEN "good" ELSE stream[n][b]]
<1>1. StreamsAfter(n, b) = [stream EXCEPT ![n] = streams]
  BY DEF StreamsAfter, ConnectTypeOK
<1>2. streams \in [AttributeNames -> {"closed", "good", "stale"}]
  BY DEF ConnectTypeOK
<1>3. \A a \in AttributeNames : node[n] = Absent => streams[a] # "good"
  BY DEF GoodStreams, ConnectTypeOK
<1>4. ~Throws(n, b) => streams[b] # "closed"
  BY DEF Throws, ConnectTypeOK
<1> HIDE DEF streams
<1> QED
  BY <1>1, <1>2, <1>3, <1>4 DEF ConnectTypeOK, GoodStreams

LEMMA ConnectInvInit == ConnectInit => ConnectInv
<1> SUFFICES ASSUME ConnectInit PROVE ConnectInv
  OBVIOUS
<1>1. <<class, match>> \in Requests
  BY DEF ConnectInit, Requests
<1>2. {answer, new, kept} \subseteq BOOLEAN
  BY DEF ConnectInit
<1>3. ConnectTypeOK
  BY <1>1, <1>2, ConnectAssumption DEF ConnectInit, ConnectTypeOK, ConnectAssumption
<1> QED
  BY <1>3 DEF ConnectInit, ConnectInv, GoodStreams, NoPathYet, PortOfNode, SteadyPresent,
     ConnectedAsAnswered, NoDeviceMissed, TodoAtEntry, OpenForReading, ComparedMatch,
     AtEntry, PassedBy

LEMMA ConnectTypeStep ==
    /\ ConnectTypeOK /\ TodoAtEntry /\ GoodStreams /\ PortOfNode
    /\ [ConnectNext]_devvars
    => ConnectTypeOK' /\ TodoAtEntry'
<1> SUFFICES ASSUME ConnectTypeOK, TodoAtEntry, GoodStreams, PortOfNode,
                    [ConnectNext]_devvars
             PROVE  ConnectTypeOK' /\ TodoAtEntry'
  OBVIOUS
<1> USE DEF TodoAtEntry, AtEntry, bindingvars, callvars
<1>u. class' = class /\ match' = match => <<class', match'>> \in Requests
  BY DEF ConnectTypeOK
<1>n. new' = new /\ answer' \in BOOLEAN /\ kept' \in BOOLEAN
      => {answer', new', kept'} \subseteq BOOLEAN
  BY DEF ConnectTypeOK
<1>b. answer \in BOOLEAN /\ kept \in BOOLEAN
  BY DEF ConnectTypeOK
<1>1. ASSUME NEW n \in Numbers, PlugIn(n) PROVE ConnectTypeOK' /\ TodoAtEntry'
  <2>1. PICK a \in Addresses, d \in Drivers :
           node' = [node EXCEPT ![n] = [address |-> a, driver_name |-> d]]
    BY <1>1 DEF PlugIn
  <2>2. node' \in [Numbers -> [address : Addresses, driver_name : Drivers] \cup {Absent}]
    BY <2>1 DEF ConnectTypeOK
  <2>3. replugs' \in 0 .. Replugs
    BY <1>1, ConnectAssumption DEF PlugIn, ConnectTypeOK, ConnectAssumption
  <2> QED
    BY <1>1, <1>u, <1>n, <1>b, <2>2, <2>3 DEF PlugIn, ConnectTypeOK
<1>2. ASSUME NEW n \in Numbers, PlugOut(n) PROVE ConnectTypeOK' /\ TodoAtEntry'
  <2>1. node' \in [Numbers -> [address : Addresses, driver_name : Drivers] \cup {Absent}]
    BY <1>2 DEF PlugOut, ConnectTypeOK
  <2>2. replugs' \in 0 .. Replugs
    BY <1>2, ConnectAssumption DEF PlugOut, ConnectTypeOK, ConnectAssumption
  <2>3. stream' \in [Numbers -> [AttributeNames -> {"closed", "good", "stale"}]]
    BY <1>2 DEF PlugOut, ConnectTypeOK
  <2>4. kept' \in BOOLEAN
    BY <1>2 DEF PlugOut
  <2> QED
    BY <1>2, <1>u, <1>n, <1>b, <2>1, <2>2, <2>3, <2>4 DEF PlugOut, ConnectTypeOK
<1>3. ASSUME NEW n \in Numbers, NEW a \in AttributeNames, Evict(n, a)
      PROVE  ConnectTypeOK' /\ TodoAtEntry'
  BY <1>3, <1>u, <1>n, <1>b DEF Evict, ConnectTypeOK
<1>4. ASSUME NEW n \in Numbers, NextEntry(n) PROVE ConnectTypeOK' /\ TodoAtEntry'
  BY <1>4, <1>u, <1>n, <1>b DEF NextEntry, ConnectTypeOK
<1>5. ASSUME NEW a \in AttributeNames, OpenAttribute(a)
      PROVE  ConnectTypeOK' /\ TodoAtEntry'
  BY <1>5, <1>u, <1>n, <1>b, StreamsAfterType DEF OpenAttribute, ConnectTypeOK
<1>6. ASSUME NEW a \in AttributeNames, CompareAttribute(a) \/ Reject(a)
      PROVE  ConnectTypeOK' /\ TodoAtEntry'
  BY <1>6, <1>u, <1>n, <1>b DEF CompareAttribute, Reject, Unsuitable, ConnectTypeOK
<1>7. ASSUME NEW r \in Requests, Connect(r) PROVE ConnectTypeOK' /\ TodoAtEntry'
  <2>1. <<class', match'>> \in Requests
    BY <1>7, RequestType DEF Connect
  <2>2. {answer', new', kept'} \subseteq BOOLEAN
    BY <1>7 DEF Connect, ConnectTypeOK
  <2> QED
    BY <1>7, <2>1, <2>2 DEF Connect, ConnectTypeOK
<1>8. CASE Found \/ NotFound
  BY <1>8, <1>u, <1>n, <1>b DEF Found, NotFound, ConnectTypeOK
<1>9. CASE LoadSoundDriver
  <2>1. path \in Numbers /\ path' \in Numbers \cup {Absent}
    BY <1>9 DEF LoadSoundDriver, PortOfNode, ConnectTypeOK
  <2>2. stream' \in [Numbers -> [AttributeNames -> {"closed", "good", "stale"}]]
    BY <1>9, <2>1, StreamsAfterType DEF LoadSoundDriver, AttributeNames
  <2>3. answer' \in BOOLEAN
    BY <1>9 DEF LoadSoundDriver
  <2> QED
    BY <1>9, <1>u, <1>n, <1>b, <2>1, <2>2, <2>3 DEF LoadSoundDriver, ConnectTypeOK
<1>10. CASE DeviceIndex
  BY <1>10, <1>u, <1>n, <1>b DEF DeviceIndex, ConnectTypeOK
<1>11. CASE UNCHANGED devvars
  BY <1>11, <1>u, <1>n, <1>b DEF devvars, ConnectTypeOK
<1> QED
  BY <1>1, <1>2, <1>3, <1>4, <1>5, <1>6, <1>7, <1>8, <1>9, <1>10, <1>11 DEF ConnectNext

\* The streams.
LEMMA StreamsStep ==
    ASSUME ConnectTypeOK, TodoAtEntry, GoodStreams, OpenForReading, PortOfNode,
           [ConnectNext]_devvars
    PROVE  GoodStreams' /\ OpenForReading'
<1> USE DEF TodoAtEntry, AtEntry, bindingvars, callvars
<1>1. ASSUME NEW n \in Numbers, PlugIn(n) PROVE GoodStreams' /\ OpenForReading'
  <2>1. \A m \in Numbers : node'[m] = Absent => node[m] = Absent
    BY <1>1 DEF PlugIn, ConnectTypeOK
  <2> QED
    BY <1>1, <2>1 DEF PlugIn, GoodStreams, OpenForReading, Following
<1>2. ASSUME NEW n \in Numbers, PlugOut(n) PROVE GoodStreams' /\ OpenForReading'
  <2>1. \A m \in Numbers \ {n} : node'[m] = node[m] /\ stream'[m] = stream[m]
    BY <1>2 DEF PlugOut, ConnectTypeOK
  <2>2. \A a \in AttributeNames : /\ stream'[n][a] # "good"
                                  /\ stream'[n][a] = "closed" => stream[n][a] = "closed"
    BY <1>2 DEF PlugOut, ConnectTypeOK
  <2>3. UNCHANGED <<dpc, path, todo>>
    BY <1>2 DEF PlugOut
  <2> QED
    BY <2>1, <2>2, <2>3 DEF GoodStreams, OpenForReading, Following
<1>3. ASSUME NEW n \in Numbers, NEW a \in AttributeNames, Evict(n, a)
      PROVE  GoodStreams' /\ OpenForReading'
  <2>1. UNCHANGED <<node, dpc, path, todo>>
    BY <1>3 DEF Evict
  <2>2. \A m \in Numbers, b \in AttributeNames :
           stream'[m][b] = IF m = n /\ b = a THEN "closed" ELSE stream[m][b]
    BY <1>3 DEF Evict, ConnectTypeOK
  <2>3. ~(dpc = "read" /\ n = path /\ Following(a))
    BY <1>3 DEF Evict
  <2> QED
    BY <2>1, <2>2, <2>3 DEF GoodStreams, OpenForReading, Following
<1>4. ASSUME NEW b \in AttributeNames, OpenAttribute(b)
      PROVE  GoodStreams' /\ OpenForReading'
  <2>1. path \in Numbers /\ Following(b) /\ ~Throws(path, b)
    BY <1>4 DEF OpenAttribute
  <2>2. stream' = StreamsAfter(path, b) /\ UNCHANGED <<node, path, todo>>
    BY <1>4 DEF OpenAttribute
  <2>3. \A a \in AttributeNames : Following(a) => a = b
    BY <2>1 DEF Following, Before, AttributeNames
  <2>4. stream'[path][b] # "closed"
    BY <2>1, <2>2, StreamsAfterType
  <2>5. GoodStreams'
    BY <2>1, <2>2, StreamsAfterType DEF GoodStreams
  <2>6. OpenForReading'
    BY <2>2, <2>3, <2>4 DEF OpenForReading, Following
  <2> QED
    BY <2>5, <2>6
<1>5. CASE LoadSoundDriver
  <2>1. path \in Numbers /\ "driver_name" \in AttributeNames
    BY <1>5 DEF LoadSoundDriver, PortOfNode, ConnectTypeOK, AttributeNames
  <2> QED
    BY <1>5, <2>1, StreamsAfterType DEF LoadSoundDriver, GoodStreams, OpenForReading
<1>6. ASSUME NEW n \in Numbers, NextEntry(n)
      PROVE  GoodStreams' /\ OpenForReading'
  BY <1>6 DEF NextEntry, GoodStreams, OpenForReading
<1>7. ASSUME NEW a \in AttributeNames, CompareAttribute(a) \/ Reject(a)
      PROVE  GoodStreams' /\ OpenForReading'
  BY <1>7 DEF CompareAttribute, Reject, GoodStreams, OpenForReading
<1>8. ASSUME NEW r \in Requests, Connect(r) PROVE GoodStreams' /\ OpenForReading'
  BY <1>8 DEF Connect, GoodStreams, OpenForReading
<1>9. CASE Found \/ NotFound \/ DeviceIndex \/ UNCHANGED devvars
  BY <1>9 DEF Found, NotFound, DeviceIndex, devvars, GoodStreams, OpenForReading, Following
<1> QED
  BY <1>1, <1>2, <1>3, <1>4, <1>5, <1>6, <1>7, <1>8, <1>9 DEF ConnectNext

\* What has been compared still matches while the device stays; a device that is
\* plugged in changes nothing if any value was asked for.
LEMMA ComparedStep ==
    ASSUME ConnectTypeOK, TodoAtEntry, GoodStreams, OpenForReading, ComparedMatch,
           [ConnectNext]_devvars
    PROVE  ComparedMatch'
<1> USE DEF bindingvars, callvars
<1>1. ASSUME NEW n \in Numbers, PlugIn(n) PROVE ComparedMatch'
  <2>1. \A m \in Numbers : node[m] # Absent => node'[m] = node[m]
    BY <1>1 DEF PlugIn, ConnectTypeOK
  <2>2. AtEntry => path \in Numbers
    BY DEF TodoAtEntry
  <2>3. UNCHANGED <<dpc, match, todo, path, kept>>
    BY <1>1 DEF PlugIn
  <2> QED
    BY <2>1, <2>2, <2>3 DEF ComparedMatch, AtEntry
<1>2. ASSUME NEW n \in Numbers, PlugOut(n) PROVE ComparedMatch'
  <2>1. \A m \in Numbers \ {n} : node'[m] = node[m]
    BY <1>2 DEF PlugOut, ConnectTypeOK
  <2>2. AtEntry => path \in Numbers
    BY DEF TodoAtEntry
  <2>3. UNCHANGED <<dpc, match, todo, path>> /\ kept' = (kept /\ ~(AtEntry /\ n = path))
    BY <1>2 DEF PlugOut
  <2>4. AtEntry' = AtEntry
    BY <2>3 DEF AtEntry
  <2>5. AtEntry /\ kept' => kept /\ path # n
    BY <2>3
  <2> QED
    BY <2>1, <2>2, <2>3, <2>4, <2>5 DEF ComparedMatch
<1>3. ASSUME NEW n \in Numbers, \E a \in AttributeNames : Evict(n, a)
      PROVE  ComparedMatch'
  <2>1. UNCHANGED <<node, dpc, match, todo, path, kept>>
    BY <1>3 DEF Evict
  <2> QED
    BY <2>1 DEF ComparedMatch, AtEntry
<1>4. ASSUME NEW n \in Numbers, NextEntry(n) PROVE ComparedMatch'
  BY <1>4 DEF NextEntry, ComparedMatch
<1>5. ASSUME NEW a \in AttributeNames, OpenAttribute(a) PROVE ComparedMatch'
  BY <1>5 DEF OpenAttribute, ComparedMatch, AtEntry
<1>6. ASSUME NEW a \in AttributeNames, CompareAttribute(a) PROVE ComparedMatch'
  <2>1. /\ UNCHANGED <<node, match, path, kept>> /\ todo' = todo \ {a}
        /\ AtEntry
    BY <1>6 DEF CompareAttribute, AtEntry
  <2>2. \/ Admits(match[a], "")
        \/ node[path] # Absent /\ Admits(match[a], node[path][a])
    BY <1>6, ComparedIsMatch
  <2> QED
    BY <2>1, <2>2 DEF ComparedMatch
<1>7. ASSUME NEW a \in AttributeNames, Reject(a) PROVE ComparedMatch'
  BY <1>7 DEF Reject, ComparedMatch, AtEntry
<1>8. ASSUME NEW r \in Requests, Connect(r) PROVE ComparedMatch'
  BY <1>8 DEF Connect, ComparedMatch, AtEntry
<1>9. CASE Found \/ NotFound \/ LoadSoundDriver \/ DeviceIndex
  BY <1>9 DEF Found, NotFound, LoadSoundDriver, DeviceIndex, ComparedMatch, AtEntry
<1>10. CASE UNCHANGED devvars
  BY <1>10 DEF devvars, ComparedMatch, AtEntry
<1> QED
  BY <1>1, <1>2, <1>3, <1>4, <1>5, <1>6, <1>7, <1>8, <1>9, <1>10 DEF ConnectNext

\* How the path of an object and the answer go together.
LEMMA AnswerStep ==
    ASSUME ConnectTypeOK, TodoAtEntry, NoPathYet, PortOfNode, ConnectedAsAnswered,
           [ConnectNext]_devvars
    PROVE  (NoPathYet /\ PortOfNode /\ ConnectedAsAnswered)'
<1> USE ConnectAssumption DEF ConnectAssumption, ConnectTypeOK, NoPathYet,
        PortOfNode, ConnectedAsAnswered, bindingvars, callvars
<1>1. ASSUME NEW n \in Numbers,
             PlugIn(n) \/ PlugOut(n) \/ \E a \in AttributeNames : Evict(n, a)
      PROVE  (NoPathYet /\ PortOfNode /\ ConnectedAsAnswered)'
  BY <1>1 DEF PlugIn, PlugOut, Evict
<1>2. ASSUME NEW n \in Numbers, NextEntry(n)
      PROVE  (NoPathYet /\ PortOfNode /\ ConnectedAsAnswered)'
  BY <1>2 DEF NextEntry
<1>3. ASSUME NEW a \in AttributeNames,
             OpenAttribute(a) \/ CompareAttribute(a) \/ Reject(a)
      PROVE  (NoPathYet /\ PortOfNode /\ ConnectedAsAnswered)'
  BY <1>3 DEF OpenAttribute, CompareAttribute, Reject
<1>4. ASSUME NEW r \in Requests, Connect(r)
      PROVE  (NoPathYet /\ PortOfNode /\ ConnectedAsAnswered)'
  BY <1>4 DEF Connect
<1>5. CASE Found
  BY <1>5 DEF Found, TodoAtEntry, AtEntry
<1>6. CASE NotFound
  BY <1>6 DEF NotFound
<1>7. CASE LoadSoundDriver
  BY <1>7 DEF LoadSoundDriver
<1>8. CASE DeviceIndex \/ UNCHANGED devvars
  BY <1>8 DEF DeviceIndex, devvars
<1> QED
  BY <1>1, <1>2, <1>3, <1>4, <1>5, <1>6, <1>7, <1>8 DEF ConnectNext

\* Nodes that stay keep their attributes.
LEMMA MissedStep ==
    ASSUME ConnectTypeOK, SteadyPresent, NoDeviceMissed, [ConnectNext]_devvars
    PROVE  (SteadyPresent /\ NoDeviceMissed)'
<1> USE DEF SteadyPresent, NoDeviceMissed, PassedBy, AtEntry, bindingvars, callvars
<1>0. steady \subseteq Numbers
  BY DEF ConnectTypeOK
<1>1. ASSUME NEW n \in Numbers, PlugIn(n) \/ PlugOut(n)
      PROVE  (SteadyPresent /\ NoDeviceMissed)'
  <2>1. /\ steady' \subseteq steady
        /\ \A m \in steady' : node'[m] = node[m]
    BY <1>0, <1>1 DEF PlugIn, PlugOut, ConnectTypeOK
  <2>2. UNCHANGED <<dpc, match, left, path>>
    BY <1>1 DEF PlugIn, PlugOut
  <2> QED
    BY <2>1, <2>2 DEF HasAttributes
<1>2. ASSUME NEW n \in Numbers, \E a \in AttributeNames : Evict(n, a)
      PROVE  (SteadyPresent /\ NoDeviceMissed)'
  BY <1>2 DEF Evict, HasAttributes
<1>3. ASSUME NEW n \in Numbers, NextEntry(n)
      PROVE  (SteadyPresent /\ NoDeviceMissed)'
  BY <1>3 DEF NextEntry, HasAttributes
<1>4. ASSUME NEW a \in AttributeNames, OpenAttribute(a) \/ CompareAttribute(a)
      PROVE  (SteadyPresent /\ NoDeviceMissed)'
  BY <1>4 DEF OpenAttribute, CompareAttribute, HasAttributes
<1>5. ASSUME NEW a \in AttributeNames, Reject(a)
      PROVE  (SteadyPresent /\ NoDeviceMissed)'
  <2>1. /\ UNCHANGED <<node, match, left>>
        /\ AtEntry /\ dpc' = "scan"
        /\ Unsuitable(a)
        /\ steady' = IF stream[path][a] = "stale" THEN steady \ {path} ELSE steady
    BY <1>5 DEF Reject, Unsuitable
  <2>2. path \in steady' => ~HasAttributes(path)
    BY <2>1, PassedOver
  <2>3. \A m \in steady' \ left' : ~HasAttributes(m)
    BY <2>1, <2>2
  <2> QED
    BY <2>1, <2>3 DEF HasAttributes
<1>6. ASSUME NEW r \in Requests, Connect(r)
      PROVE  (SteadyPresent /\ NoDeviceMissed)'
  BY <1>6 DEF Connect
<1>7. CASE Found \/ NotFound \/ LoadSoundDriver \/ DeviceIndex \/ UNCHANGED devvars
  BY <1>7 DEF Found, NotFound, LoadSoundDriver, DeviceIndex, devvars, HasAttributes
<1> QED
  BY <1>1, <1>2, <1>3, <1>4, <1>5, <1>6, <1>7 DEF ConnectNext

LEMMA ConnectInvStep == ConnectInv /\ [ConnectNext]_devvars => ConnectInv'
BY ConnectTypeStep, StreamsStep, ComparedStep, AnswerStep, MissedStep DEF ConnectInv

LEMMA ConnectInvariance == ConnectSpec => []ConnectInv
BY ConnectInvInit, ConnectInvStep, PTL DEF ConnectSpec

\* A new object has a path exactly if its search was successful, whatever nodes
\* come and go, and whatever is thrown while it looks at them.
THEOREM ConnectedAsAnsweredHolds == ConnectSpec => []ConnectedAsAnswered
<1>1. ConnectInv => ConnectedAsAnswered
  BY DEF ConnectInv
<1> QED
  BY <1>1, ConnectInvariance, PTL

\* For any number of nodes: a node that has been there since the scan began and
\* was passed over lacks what is asked for, unless what it was rejected for was
\* read through a stream that is stale.
THEOREM NoDeviceMissedHolds == ConnectSpec => []NoDeviceMissed
<1>1. ConnectInv => NoDeviceMissed
  BY DEF ConnectInv
<1> QED
  BY <1>1, ConnectInvariance, PTL

LEMMA MatchStep ==
    ASSUME ConnectInv, [ConnectNext]_devvars,
           AtEntry, kept, dpc' \in {"idle", "port"}
    PROVE  \/ HasAttributes(path')
           \/ node[path'] = Absent /\ \A a \in DOMAIN match : Admits(match[a], "")
<1>1. Found
  BY DEF ConnectNext, PlugIn, PlugOut, Evict, NextEntry, OpenAttribute, CompareAttribute,
     Reject, Connect, NotFound, LoadSoundDriver, DeviceIndex, devvars, bindingvars, AtEntry
<1>2. path' = path /\ todo = {}
  BY <1>1 DEF Found
<1>3. \A a \in DOMAIN match : \/ Admits(match[a], "")
                              \/ node[path] # Absent /\ Admits(match[a], node[path][a])
  BY <1>2 DEF ConnectInv, ComparedMatch
<1> QED
  BY <1>2, <1>3, AdmitsAny DEF HasAttributes

\* For any nodes and streams: attributes that were compared one after the other are
\* those of one device when the object is connected, unless its device was pulled
\* meanwhile; or the node has gone before and nothing in particular was asked for.
THEOREM ConnectsToMatchHolds == ConnectSpec => ConnectsToMatch
<1>1. ConnectInv /\ [ConnectNext]_devvars =>
         [AtEntry /\ kept /\ dpc' \in {"idle", "port"} =>
             \/ HasAttributes(path')
             \/ node[path'] = Absent
                   /\ \A a \in DOMAIN match : Admits(match[a], "")]_devvars
  BY MatchStep
<1> QED
  BY <1>1, ConnectInvariance, PTL DEF ConnectSpec, ConnectsToMatch

------------------------------------------------------------------------------
(* SensorValue.                                                            *)

\* Every method reads a value that its mode has.
InRange(m) == m[2] \in Nat /\ m[2] < NumValues(m[1])

LEMMA MethodInRange ==
    ASSUME NEW c \in SensorKinds, NEW m \in Methods[c]
    PROVE  InRange(m)
<1>1. NumValues("RGB-RAW") = 3
  BY DEF NumValues
<1>2. \A x : NumValues(x) \in Nat /\ NumValues(x) > 0
  <2>1. \A x : NumValues(x) \in {1, 2, 3, 4, 8}
    BY Zenon DEF NumValues
  <2> QED
    BY <2>1
<1>3. \A x \in ColorSensorMethods : InRange(x)
  <2>1. ASSUME NEW n \in {"COL-REFLECT", "COL-AMBIENT", "COL-COLOR"}
        PROVE  InRange(<<n, 0, FALSE>>)
    BY <1>2 DEF InRange
  <2>2. ASSUME NEW i \in 0 .. 2 PROVE InRange(<<"RGB-RAW", i, FALSE>>)
    BY <1>1 DEF InRange
  <2> QED
    BY <2>1, <2>2 DEF ColorSensorMethods
<1>4. \A x \in TouchSensorMethods \cup UltrasonicSensorMethods \cup GyroSensorMethods
               \cup InfraredSensorMethods \cup SoundSensorMethods \cup LightSensorMethods :
          InRange(x)
  <2>1. \A n, f : InRange(<<n, 0, f>>)
    BY <1>2 DEF InRange
  <2> QED
    BY <2>1 DEF TouchSensorMethods, UltrasonicSensorMethods, GyroSensorMethods,
       InfraredSensorMethods, SoundSensorMethods, LightSensorMethods
<1> QED
  BY <1>3, <1>4 DEF SensorKinds, Methods

LEMMA MethodMode ==
    ASSUME NEW c \in SensorKinds, NEW m \in Methods[c]
    PROVE  m[1] \in ModesOf(c)
BY DEF ModesOf

LEMMA NumValuesType == \A x : NumValues(x) \in Nat
<1>1. \A x : NumValues(x) \in {1, 2, 3, 4, 8}
  BY Zenon DEF NumValues
<1> QED
  BY <1>1

LEMMA ValueSizeType == \A f : ValueSize(f) \in {1, 2, 4}
BY DEF ValueSize, ValueSizes

AnyMode == {NoAccess, NoClass} \cup UNION {ModesOf(c) : c \in SensorKinds}

\* What is read by value() and float_value().
MethodReads == {"count", "value", "decimals"}

\* A method is being executed, or has just returned.
Calling == reading \cap MethodReads # {}
InMethod == Calling \/ result = "value"

\* A method that is called is one of the class of the sensor, and the mode is
\* the one that it has set as long as nobody interferes.
CalledMode ==
    Calling =>
        /\ sensorClass \in SensorKinds /\ request \in Methods[sensorClass]
        /\ reading \subseteq MethodReads
        /\ quiet => deviceMode = request[1]

\* What has been read so far was read in that mode.
GotInMode ==
    InMethod /\ quiet =>
        /\ reading \cap {"count", "value"} = {} => got.value = request[1]
        /\ request[3] /\ "decimals" \notin reading => got.decimals = request[1]

\* It has not thrown.
NotThrown ==
    /\ reading # {} => result = NoAccess
    /\ quiet => result # "throws"

SensorInv ==
    /\ SensorTypeOK /\ got \in [value : AnyMode, decimals : AnyMode]
    /\ CalledMode /\ GotInMode /\ NotThrown

LEMMA SensorInvDelivers == SensorInv => MethodsDeliver
BY DEF SensorInv, GotInMode, NotThrown, MethodsDeliver, InMethod

LEMMA SensorInvInit == SensorInit => SensorInv
BY SensorAssumption DEF SensorAssumption, SensorInit, SensorInv, SensorTypeOK, Nothing,
   AnyMode, CalledMode, GotInMode, NotThrown, InMethod, Calling

LEMMA SensorTypeStep ==
    ASSUME SensorInv, [SensorNext]_svars
    PROVE  SensorTypeOK' /\ (got \in [value : AnyMode, decimals : AnyMode])'
<1> USE SensorAssumption DEF SensorAssumption, SensorInv, SensorTypeOK
<1>0. NoClass \in AnyMode /\ NoAccess \in AnyMode /\ deviceMode \in AnyMode
  BY DEF AnyMode
<1>1. ASSUME NEW c \in SensorKinds, SensorPlugIn(c)
      PROVE  SensorTypeOK' /\ (got \in [value : AnyMode, decimals : AnyMode])'
  BY <1>1 DEF SensorPlugIn
<1>2. ASSUME NEW c \in SensorKinds \cap {sensorClass}, NEW m \in Methods[c], Method(m)
      PROVE  SensorTypeOK' /\ (got \in [value : AnyMode, decimals : AnyMode])'
  BY <1>0, <1>2, MethodMode DEF Method, Call, Reads, Nothing, Plugged
<1>3. ASSUME NEW c \in SensorKinds \cap {sensorClass}, NEW m \in ModesOf(c), AnotherMode(m)
      PROVE  SensorTypeOK' /\ (got \in [value : AnyMode, decimals : AnyMode])'
  BY <1>3 DEF AnotherMode, Plugged
<1>4. CASE CheckIndex
  BY <1>4 DEF CheckIndex, Reads
<1>5. ASSUME NEW what \in {"value", "decimals"}, ReadAttribute(what)
      PROVE  SensorTypeOK' /\ (got \in [value : AnyMode, decimals : AnyMode])'
  BY <1>0, <1>5 DEF ReadAttribute
<1>6. CASE BinData
  BY <1>0, <1>6 DEF BinData, Call, Reads, Nothing
<1>7. CASE ReadFormat
  BY <1>7, ValueSizeType DEF ReadFormat, Reads
<1>8. CASE MakeRoom
  BY <1>8, NumValuesType DEF MakeRoom, Reads
<1>9. CASE ReadBytes
  BY <1>9 DEF ReadBytes
<1>10. CASE UNCHANGED svars
  BY <1>10 DEF svars
<1> QED
  BY <1>1, <1>2, <1>3, <1>4, <1>5, <1>6, <1>7, <1>8, <1>9, <1>10 DEF SensorNext

LEMMA SensorInvStep == SensorInv /\ [SensorNext]_svars => SensorInv'
<1> SUFFICES ASSUME SensorInv, [SensorNext]_svars PROVE SensorInv'
  OBVIOUS
<1>0. SensorTypeOK' /\ (got \in [value : AnyMode, decimals : AnyMode])'
  BY SensorTypeStep
<1> SUFFICES (CalledMode /\ GotInMode /\ NotThrown)'
  BY <1>0 DEF SensorInv
<1> USE SensorAssumption DEF SensorAssumption, SensorInv, CalledMode, GotInMode, NotThrown,
        InMethod, Calling, MethodReads
<1>1. ASSUME NEW c \in SensorKinds, SensorPlugIn(c)
      PROVE  (CalledMode /\ GotInMode /\ NotThrown)'
  BY <1>1 DEF SensorPlugIn
<1>2. ASSUME NEW c \in SensorKinds \cap {sensorClass}, NEW m \in Methods[c], Method(m)
      PROVE  (CalledMode /\ GotInMode /\ NotThrown)'
  BY <1>2 DEF Method, Call
<1>3. ASSUME NEW c \in SensorKinds \cap {sensorClass}, NEW m \in ModesOf(c), AnotherMode(m)
      PROVE  (CalledMode /\ GotInMode /\ NotThrown)'
  BY <1>3 DEF AnotherMode
<1>4. CASE CheckIndex
  <2>1. "count" \in reading /\ Calling /\ request \in Methods[sensorClass]
    BY <1>4 DEF CheckIndex
  \* The index is in range as long as nobody interferes.
  <2>2. quiet => ~(request[2] >= NumValues(deviceMode))
    <3>1. request[2] \in Nat /\ request[2] < NumValues(request[1])
      BY <2>1, MethodInRange DEF InRange
    <3> QED
      BY <2>1, <3>1, NumValuesType
  <2>3. CASE request[2] >= NumValues(deviceMode)
    BY <1>4, <2>2, <2>3 DEF CheckIndex
  <2>4. CASE ~(request[2] >= NumValues(deviceMode))
    BY <1>4, <2>1, <2>4 DEF CheckIndex
  <2> QED
    BY <2>3, <2>4
<1>5. ASSUME NEW what \in {"value", "decimals"}, ReadAttribute(what)
      PROVE  (CalledMode /\ GotInMode /\ NotThrown)'
  <2>1. Calling /\ result = NoAccess
    BY <1>5 DEF ReadAttribute
  <2>2. /\ got'.value = IF what = "value" THEN deviceMode ELSE got.value
        /\ got'.decimals = IF what = "decimals" THEN deviceMode ELSE got.decimals
    BY <1>5 DEF ReadAttribute
  <2> QED
    BY <1>5, <2>1, <2>2 DEF ReadAttribute
<1>6. CASE BinData
  BY <1>6 DEF BinData, Call
<1>7. CASE ReadFormat \/ MakeRoom \/ ReadBytes
  BY <1>7 DEF ReadFormat, MakeRoom, ReadBytes
<1>8. CASE UNCHANGED svars
  BY <1>8 DEF svars
<1> QED
  BY <1>1, <1>2, <1>3, <1>4, <1>5, <1>6, <1>7, <1>8 DEF SensorNext

\* Whatever methods are called on whatever sensor: unless somebody else sets the
\* mode during the call, none throws, and values and decimals are of its mode.
THEOREM MethodsDeliverHolds == SensorSpec => []MethodsDeliver
BY SensorInvInit, SensorInvStep, SensorInvDelivers, PTL DEF SensorSpec

------------------------------------------------------------------------------
(* RemoteControl.                                                          *)

\* The channel that the program has asked for, or the first.
AskedChannel == IF asked \in Channels THEN asked ELSE 1

\* Without an object there is nothing to remember.
NoRemote ==
    asked = -1 =>
        /\ rpc = "idle" /\ state = {} /\ told = [f \in Functions |-> FALSE]
        /\ ~upToDate /\ ~thrown

ChannelInv == asked # -1 => channel = AskedChannel - 1

\* Between calls, functions know the state; during a call, those that have been
\* told know the new one.
ToldInv ==
    ~thrown =>
        \A i \in DOMAIN RemoteButtons :
            LET b == RemoteButtons[i]
            IN  b \in bound =>
                    told[b] = (b \in IF rpc = "tell" /\ i < next THEN Held(newValue)
                                                                ELSE state)

\* Since process() was called the code has not changed, and it is the value if
\* process() has returned.
CurrentInv ==
    upToDate /\ ~foreign =>
        /\ newValue = shown[channel]
        /\ rpc = "idle" /\ ~thrown => value = newValue

RemoteInv ==
    /\ RemoteTypeOK
    /\ state = Held(value)
    /\ NoRemote /\ ChannelInv /\ ToldInv /\ CurrentInv

LEMMA HeldType == \A code : Held(code) \subseteq Functions
BY DEF Held, Functions, RemoteButtons

LEMMA NothingHeld == Held(0) = {}
BY DEF Held

LEMMA Five ==
    /\ Len(RemoteButtons) = 5 /\ DOMAIN RemoteButtons = 1 .. 5
    /\ \A i \in 1 .. 5 : RemoteButtons[i] \in Functions
    /\ \A b \in Functions : \E i \in 1 .. 5 : b = RemoteButtons[i]
    /\ \A i, j \in 1 .. 5 : RemoteButtons[i] = RemoteButtons[j] => i = j
<1>1. Len(RemoteButtons) = 5 /\ DOMAIN RemoteButtons = 1 .. 5
  BY DEF RemoteButtons
<1>2. /\ RemoteButtons[1] = "red_up" /\ RemoteButtons[2] = "red_down"
      /\ RemoteButtons[3] = "blue_up" /\ RemoteButtons[4] = "blue_down"
      /\ RemoteButtons[5] = "beacon"
  BY DEF RemoteButtons
<1> QED
  BY <1>1, <1>2 DEF Functions

LEMMA RemoteInvInit == RemoteInit => RemoteInv
<1> SUFFICES ASSUME RemoteInit PROVE RemoteInv
  OBVIOUS
<1>1. 0 \in OtherCodes /\ next \in 1 .. Len(RemoteButtons) + 1
  BY RemoteAssumption, Five DEF RemoteAssumption, RemoteInit
<1>2. /\ told \in [Functions -> BOOLEAN]
      /\ shown \in [0 .. 3 -> Codes \cup OtherCodes]
  BY <1>1 DEF RemoteInit
<1>3. upToDate \in BOOLEAN /\ foreign \in BOOLEAN /\ thrown \in BOOLEAN
  BY DEF RemoteInit
<1>4. asked \in -1 .. 5 /\ channel \in 0 .. 3
  BY DEF RemoteInit
<1>5. RemoteTypeOK
  BY <1>1, <1>2, <1>3, <1>4 DEF RemoteInit, RemoteTypeOK
<1> QED
  BY <1>5, NothingHeld DEF RemoteInit, RemoteInv, NoRemote, ChannelInv, ToldInv, CurrentInv

LEMMA RemoteTypeStep == RemoteTypeOK /\ [RemoteNext]_rvars => RemoteTypeOK'
<1> SUFFICES ASSUME RemoteTypeOK, [RemoteNext]_rvars PROVE RemoteTypeOK'
  OBVIOUS
<1>n. Len(RemoteButtons) = 5
  BY Five
<1> USE <1>n DEF RemoteTypeOK
<1>1. ASSUME NEW c \in {0, 1, 2, 5}, NewRemote(c) PROVE RemoteTypeOK'
  BY <1>1 DEF NewRemote, Channels
<1>2. ASSUME NEW c \in {1, 2}, NEW code \in Codes \cup OtherCodes, Hold(c, code)
      PROVE  RemoteTypeOK'
  BY <1>2 DEF Hold
<1>3. CASE DeleteRemote
  <2>1. 0 \in OtherCodes /\ told' \in [Functions -> BOOLEAN]
    BY <1>3, RemoteAssumption DEF RemoteAssumption, DeleteRemote
  <2>2. upToDate' \in BOOLEAN /\ foreign' \in BOOLEAN /\ thrown' \in BOOLEAN
    BY <1>3 DEF DeleteRemote
  <2>3. asked' \in -1 .. 5 /\ channel' \in 0 .. 3 /\ next' \in 1 .. 6
    BY <1>3 DEF DeleteRemote
  <2> QED
    BY <1>3, <2>1, <2>2, <2>3 DEF DeleteRemote
<1>4. CASE Proximity
  BY <1>4 DEF Proximity
<1>5. CASE ProcessThrows
  BY <1>5 DEF ProcessThrows
<1>6. CASE Process
  <2>1. Reading \in Codes \cup OtherCodes \cup {Distance}
    BY DEF Reading
  <2>2. foreign' \in BOOLEAN
    BY <1>6 DEF Process
  <2> QED
    BY <1>6, <2>1, <2>2 DEF Process
<1>7. CASE Tell
  <2>1. next + 1 \in 1 .. Len(RemoteButtons) + 1
    BY <1>7, Five DEF Tell
  <2>2. told' \in [Functions -> BOOLEAN]
    BY <1>7, Five DEF Tell
  <2> QED
    BY <1>7, <2>1, <2>2 DEF Tell
<1>8. CASE Told
  BY <1>8, HeldType DEF Told
<1>9. CASE UNCHANGED rvars
  BY <1>9 DEF rvars
<1> QED
  BY <1>1, <1>2, <1>3, <1>4, <1>5, <1>6, <1>7, <1>8, <1>9 DEF RemoteNext

\* Channels 1 to 4 are counted from 0, and any other stands for the first.
LEMMA NewRemoteChannel ==
    ASSUME NEW c \in {0, 1, 2, 5}, NewRemote(c)
    PROVE  asked' # -1 /\ ChannelInv'
<1>1. asked' = c /\ channel' = IF c \in 1 .. 4 THEN c - 1 ELSE 0
  BY DEF NewRemote, Channels
<1>2. AskedChannel' = IF c \in 1 .. 4 THEN c ELSE 1
  BY <1>1 DEF AskedChannel, Channels
<1> QED
  BY <1>1, <1>2 DEF ChannelInv

\* A new object has told nothing and knows of nothing.
LEMMA NewRemoteTold ==
    ASSUME NEW c, NewRemote(c), NoRemote
    PROVE  ToldInv'
<1>1. told' = [f \in Functions |-> FALSE] /\ rpc' = "idle" /\ state' = {}
  BY DEF NewRemote, NoRemote
<1>2. \A i \in 1 .. 5 : told'[RemoteButtons[i]] = FALSE
  BY <1>1, Five
<1>3. \A b : (b \in {}) = FALSE
  OBVIOUS
<1> QED
  BY <1>1, <1>2, <1>3, Five DEF ToldInv

\* The next function is told if its button has changed.
LEMMA TellStep ==
    ASSUME RemoteInv, Tell
    PROVE  ToldInv'
<1> DEFINE f == RemoteButtons[next]
           changed == (f \in Held(newValue)) # (f \in state)
           should(i) == RemoteButtons[i] \in IF i < next THEN Held(newValue) ELSE state
<1>1. /\ rpc = "tell" /\ next \in 1 .. 5 /\ f \in Functions
      /\ told \in [Functions -> BOOLEAN]
      /\ UNCHANGED <<state, newValue, bound>>
      /\ told' = IF changed /\ f \in bound THEN [told EXCEPT ![f] = f \in Held(newValue)]
                                          ELSE told
      /\ thrown' \/ (thrown' = thrown /\ rpc' = "tell" /\ next' = next + 1)
  <2>1. RemoteTypeOK /\ next \in 1 .. 5
    BY Five DEF Tell, RemoteInv
  <2>2. thrown' \/ (thrown' = thrown /\ rpc' = "tell" /\ next' = next + 1)
    BY Zenon DEF Tell
  <2>3. f \in Functions
    BY <2>1, Five
  <2>4. told' = IF changed /\ f \in bound THEN [told EXCEPT ![f] = f \in Held(newValue)]
                                          ELSE told
    BY Zenon DEF Tell
  <2>5. rpc = "tell" /\ UNCHANGED <<state, newValue, bound>>
    BY DEF Tell
  <2> QED
    BY <2>1, <2>2, <2>3, <2>4, <2>5, Zenon DEF RemoteTypeOK
<1> SUFFICES ASSUME ~thrown', NEW i \in 1 .. 5, RemoteButtons[i] \in bound
             PROVE  told'[RemoteButtons[i]] =
                        (RemoteButtons[i] \in IF i < next + 1 THEN Held(newValue) ELSE state)
  BY <1>1, Five DEF ToldInv
<1>2. told[RemoteButtons[i]] = should(i)
  BY <1>1, Five DEF RemoteInv, ToldInv
<1>3. CASE i = next
  <2>1. told[f] = (f \in state)
    BY <1>1, <1>2, <1>3
  <2>2. told'[f] = (f \in Held(newValue))
    BY <1>1, <1>3, <2>1
  <2> QED
    BY <1>1, <1>3, <2>2
<1>4. CASE i # next
  <2>1. RemoteButtons[i] # f
    BY <1>1, <1>4, Five
  <2>2. told'[RemoteButtons[i]] = told[RemoteButtons[i]]
    BY <1>1, <2>1, Five
  <2>3. i < next + 1 <=> i < next
    BY <1>1, <1>4
  <2> QED
    BY <1>2, <2>2, <2>3
<1> QED
  BY <1>3, <1>4

\* All have been told.
LEMMA ToldStep ==
    ASSUME RemoteInv, Told
    PROVE  ToldInv' /\ CurrentInv'
<1>1. /\ rpc = "tell" /\ rpc' = "idle" /\ next = 6
      /\ UNCHANGED <<newValue, bound, told, shown, channel, upToDate, foreign>>
      /\ \/ state' = Held(newValue) /\ value' = newValue /\ thrown' = thrown
         \/ thrown' = TRUE
  BY Five DEF Told, RemoteInv, RemoteTypeOK
<1>2. \A i \in 1 .. 5 : i < next
  BY <1>1
<1> QED
  BY <1>1, <1>2, Five DEF RemoteInv, ToldInv, CurrentInv

LEMMA RemoteInvStep == RemoteInv /\ [RemoteNext]_rvars => RemoteInv'
<1> SUFFICES ASSUME RemoteInv, [RemoteNext]_rvars PROVE RemoteInv'
  OBVIOUS
<1>0. RemoteTypeOK'
  BY RemoteTypeStep DEF RemoteInv
<1> USE <1>0 DEF RemoteInv, NoRemote, ChannelInv, ToldInv, CurrentInv, AskedChannel, Channels
<1>1. ASSUME NEW c \in {0, 1, 2, 5}, NewRemote(c) PROVE RemoteInv'
  <2>1. rpc' = "idle" /\ state' = {} /\ ~upToDate'
    BY <1>1 DEF NewRemote
  <2>2. ToldInv'
    BY <1>1, NewRemoteTold
  <2>3. asked' # -1 /\ ChannelInv'
    BY <1>1, NewRemoteChannel
  <2>4. state' = Held(value')
    BY <1>1 DEF NewRemote
  <2> QED
    BY <2>1, <2>2, <2>3, <2>4, Zenon
<1>2. ASSUME NEW c \in {1, 2}, NEW code \in Codes \cup OtherCodes, Hold(c, code)
      PROVE  RemoteInv'
  BY <1>2 DEF Hold
<1>3. CASE DeleteRemote
  BY <1>3, NothingHeld DEF DeleteRemote
<1>4. CASE Proximity
  BY <1>4 DEF Proximity
<1>5. CASE ProcessThrows
  BY <1>5 DEF ProcessThrows
<1>6. CASE Process
  <2>1. \A i \in 1 .. 5 : ~(i < 1)
    OBVIOUS
  <2>2. newValue' = shown'[channel'] \/ foreign'
    BY <1>6 DEF Process, Reading
  <2> QED
    BY <1>6, <2>1, <2>2, Five DEF Process
<1>7. CASE Tell
  <2>1. ToldInv'
    BY <1>7, TellStep
  <2>2. /\ asked # -1
        /\ rpc' = "tell" \/ thrown'
        /\ UNCHANGED <<asked, channel, state, value, newValue, shown, upToDate, foreign>>
    BY <1>7 DEF Tell
  <2> QED
    BY <1>7, <2>1, <2>2 DEF Tell
<1>8. CASE Told
  BY <1>8, ToldStep DEF Told
<1>9. CASE UNCHANGED rvars
  BY <1>9 DEF rvars
<1> QED
  BY <1>1, <1>2, <1>3, <1>4, <1>5, <1>6, <1>7, <1>8, <1>9 DEF RemoteNext

LEMMA RemoteInvariance == RemoteSpec => []RemoteInv
BY RemoteInvInit, RemoteInvStep, PTL DEF RemoteSpec

\* The members of a remote control belong together, whatever codes the sensor
\* shows and whichever functions throw.
THEOREM StateOfValueHolds == RemoteSpec => []StateOfValue
<1>1. RemoteInv => StateOfValue
  BY DEF RemoteInv, StateOfValue
<1> QED
  BY <1>1, RemoteInvariance, PTL

\* For any codes and functions: what was told is what is held, if no function
\* throws and the sensor is used for nothing else.
THEOREM ToldWhatIsHeldHolds == RemoteSpec => []ToldWhatIsHeld
<1>1. RemoteInv => ToldWhatIsHeld
  <2> SUFFICES ASSUME RemoteInv, rpc = "idle", upToDate, ~foreign, ~thrown,
                      NEW b \in bound
               PROVE  told[b] = (b \in Held(shown[AskedChannel - 1]))
    BY DEF ToldWhatIsHeld, AskedChannel
  <2>1. asked # -1
    BY DEF RemoteInv, NoRemote
  <2>2. state = Held(shown[AskedChannel - 1])
    BY <2>1 DEF RemoteInv, ChannelInv, CurrentInv
  <2>3. PICK i \in 1 .. 5 : b = RemoteButtons[i]
    BY Five DEF RemoteInv, RemoteTypeOK
  <2>4. told[b] = (b \in state)
    BY <2>3, Five DEF RemoteInv, ToldInv
  <2> QED
    BY <2>2, <2>4
<1> QED
  BY <1>1, RemoteInvariance, PTL

------------------------------------------------------------------------------
(* Buttons.                                                                *)

\* The buttons that process_all() has looked at are up to date.
LookedAt ==
    turn # 0 /\ undisturbed =>
        /\ returned = "none"
        /\ \A i \in 1 .. turn - 1 : clicked[Order[i]] = (Order[i] \in pressedNow)

ButtonInv == ButtonTypeOK /\ StateIsTold /\ LookedAt /\ StatesUpToDate

LEMMA Six ==
    /\ Len(Order) = 6
    /\ \A i \in 1 .. 6 : Order[i] \in AllButtons
    /\ \A b \in AllButtons : \E i \in 1 .. 6 : b = Order[i]
    /\ \A i, j \in 1 .. 6 : Order[i] = Order[j] => i = j
<1>1. /\ Len(Order) = 6
      /\ Order[1] = "back" /\ Order[2] = "left" /\ Order[3] = "right"
      /\ Order[4] = "up" /\ Order[5] = "down" /\ Order[6] = "enter"
  BY DEF Order
<1> QED
  BY <1>1 DEF AllButtons, KeyCode

\* The keys of the brick are among those that the ioctl fills in.
LEMMA AllFilled == \A b \in AllButtons : Filled(b)
<1>1. \A b \in AllButtons : KeyCode[b] \in 0 .. 108
  BY DEF AllButtons, KeyCode
<1>2. Words \in Nat /\ Words >= 24
  <2>1. LongBytes = 1 \/ LongBytes = 2 \/ LongBytes = 3 \/ LongBytes = 4
    BY ButtonAssumption DEF ButtonAssumption
  <2> QED
    BY <2>1 DEF Words, KeyCount
<1> QED
  BY <1>1, <1>2 DEF Filled

LEMMA ButtonInvInit == ButtonInit => ButtonInv
<1> SUFFICES ASSUME ButtonInit PROVE ButtonInv
  OBVIOUS
<1>1. /\ buffer \in [AllButtons -> BOOLEAN]
      /\ buttonState \in [AllButtons -> BOOLEAN]
      /\ clicked \in [AllButtons -> BOOLEAN]
      /\ undisturbed \in BOOLEAN /\ anyChanged \in BOOLEAN
  BY DEF ButtonInit
<1>2. ButtonTypeOK
  BY <1>1, Six DEF ButtonInit, ButtonTypeOK
<1> QED
  BY <1>2 DEF ButtonInit, ButtonInv, StateIsTold, LookedAt, StatesUpToDate

\* What process() does for the button whose turn it is.
LEMMA ProcessEffect ==
    ASSUME ButtonInv, ProcessButton
    PROVE  \E b \in AllButtons, now \in BOOLEAN :
              /\ turn \in 1 .. 6 /\ b = Order[turn]
              /\ buffer' = [buffer EXCEPT ![b] = now]
              /\ buttonState' = [buttonState EXCEPT ![b] = now]
              /\ clicked' = [clicked EXCEPT ![b] = now]
              /\ undisturbed' => undisturbed /\ now = (b \in pressedNow)
              /\ undisturbed' \in BOOLEAN /\ anyChanged' \in BOOLEAN
              /\ \/ turn < 6 /\ turn' = turn + 1 /\ returned' = returned
                 \/ turn = 6 /\ turn' = 0 /\ returned' \in {"changed", "same"}
                 \/ turn' = 0 /\ returned' = "throws"
              /\ UNCHANGED pressedNow
<1> DEFINE b == Order[turn]
<1>1. turn \in 1 .. 6 /\ b \in AllButtons /\ Filled(b)
  BY Six, AllFilled DEF ProcessButton, ButtonInv, ButtonTypeOK
<1>2. PICK read \in BOOLEAN :
         LET now == IF read /\ Filled(b) THEN b \in pressedNow ELSE buffer[b]
             click == now # buttonState[b]
         IN  /\ buffer' = [buffer EXCEPT ![b] = now]
             /\ undisturbed' = (undisturbed /\ read)
             /\ buttonState' = [buttonState EXCEPT ![b] = now]
             /\ anyChanged' = (anyChanged \/ click)
             /\ clicked' = IF click THEN [clicked EXCEPT ![b] = now] ELSE clicked
             /\ \/ /\ turn' = IF turn = Len(Order) THEN 0 ELSE turn + 1
                   /\ returned' = IF turn' # 0 THEN returned
                                ELSE IF anyChanged' THEN "changed" ELSE "same"
                \/ click /\ turn' = 0 /\ returned' = "throws"
  BY Zenon DEF ProcessButton
<1> DEFINE now == IF read /\ Filled(b) THEN b \in pressedNow ELSE buffer[b]
           click == now # buttonState[b]
<1>3. /\ buffer \in [AllButtons -> BOOLEAN]
      /\ clicked \in [AllButtons -> BOOLEAN] /\ clicked = buttonState
  BY DEF ButtonInv, ButtonTypeOK, StateIsTold
<1>4. now \in BOOLEAN
  <2>1. (b \in pressedNow) \in BOOLEAN /\ buffer[b] \in BOOLEAN
    BY <1>1, <1>3
  <2> QED
    BY <2>1, Zenon
<1>5. /\ buffer' = [buffer EXCEPT ![b] = now]
      /\ buttonState' = [buttonState EXCEPT ![b] = now]
      /\ undisturbed' = (undisturbed /\ read)
      /\ anyChanged' = (anyChanged \/ click)
  BY <1>2, Zenon
<1>6. clicked' = [clicked EXCEPT ![b] = now]
  <2>1. CASE click
    BY <1>2, <2>1, Zenon
  <2>2. CASE ~click
    <3>1. clicked' = clicked
      BY <1>2, <2>2, Zenon
    <3>2. clicked[b] = now
      BY <1>3, <2>2
    <3> HIDE DEF b, now
    <3> QED
      BY <3>1, <3>2, <1>3
  <2> QED
    BY <2>1, <2>2
<1>7. undisturbed' => undisturbed /\ now = (b \in pressedNow)
  BY <1>1, <1>5, Zenon
<1>8. undisturbed' \in BOOLEAN /\ anyChanged' \in BOOLEAN
  BY <1>5
<1>9. \/ turn < 6 /\ turn' = turn + 1 /\ returned' = returned
      \/ turn = 6 /\ turn' = 0 /\ returned' \in {"changed", "same"}
      \/ turn' = 0 /\ returned' = "throws"
  <2>1. \/ /\ turn' = IF turn = Len(Order) THEN 0 ELSE turn + 1
           /\ returned' = IF turn' # 0 THEN returned
                        ELSE IF anyChanged' THEN "changed" ELSE "same"
        \/ turn' = 0 /\ returned' = "throws"
    BY <1>2, Zenon
  <2> QED
    BY <1>1, <2>1, Six
<1>10. UNCHANGED pressedNow
  BY DEF ProcessButton
<1> HIDE DEF b, now, click
<1> QED
  BY <1>1, <1>4, <1>5, <1>6, <1>7, <1>8, <1>9, <1>10, Zenon DEF b

LEMMA ButtonInvStep == ButtonInv /\ [ButtonNext]_bvars => ButtonInv'
<1> SUFFICES ASSUME ButtonInv, [ButtonNext]_bvars PROVE ButtonInv'
  OBVIOUS
<1> USE DEF ButtonInv, ButtonTypeOK, StateIsTold, LookedAt, StatesUpToDate
<1>1. ASSUME NEW b \in Pressable, PressOrRelease(b) PROVE ButtonInv'
  BY <1>1 DEF PressOrRelease
<1>2. CASE ProcessAll
  <2>1. anyChanged' \in BOOLEAN /\ undisturbed' \in BOOLEAN
    BY <1>2 DEF ProcessAll
  <2>2. turn' = 1 /\ turn' \in 0 .. Len(Order)
    BY <1>2, Six DEF ProcessAll
  <2> QED
    BY <1>2, <2>1, <2>2 DEF ProcessAll
<1>3. CASE ProcessButton
  <2>1. PICK b \in AllButtons, now \in BOOLEAN :
              /\ turn \in 1 .. 6 /\ b = Order[turn]
              /\ buffer' = [buffer EXCEPT ![b] = now]
              /\ buttonState' = [buttonState EXCEPT ![b] = now]
              /\ clicked' = [clicked EXCEPT ![b] = now]
              /\ undisturbed' => undisturbed /\ now = (b \in pressedNow)
              /\ undisturbed' \in BOOLEAN /\ anyChanged' \in BOOLEAN
              /\ \/ turn < 6 /\ turn' = turn + 1 /\ returned' = returned
                 \/ turn = 6 /\ turn' = 0 /\ returned' \in {"changed", "same"}
                 \/ turn' = 0 /\ returned' = "throws"
              /\ UNCHANGED pressedNow
    BY <1>3, ProcessEffect
  <2>2. ButtonTypeOK' /\ StateIsTold'
    BY <2>1, Six
  \* The button whose turn it is joins those before it.
  <2>3. undisturbed' =>
           \A i \in 1 .. turn : clicked'[Order[i]] = (Order[i] \in pressedNow')
    <3> SUFFICES ASSUME undisturbed', NEW i \in 1 .. turn
                 PROVE  clicked'[Order[i]] = (Order[i] \in pressedNow)
      BY <2>1
    <3>1. i \in 1 .. 6 /\ Order[i] \in AllButtons
      BY <2>1, Six
    <3>2. CASE i = turn
      BY <2>1, <3>2
    <3>3. CASE i # turn
      <4>1. i \in 1 .. turn - 1 /\ Order[i] # b
        BY <2>1, <3>1, <3>3, Six
      <4>2. clicked'[Order[i]] = clicked[Order[i]]
        BY <2>1, <3>1, <4>1
      <4> QED
        BY <2>1, <4>1, <4>2
    <3> QED
      BY <3>2, <3>3
  <2>4. CASE turn < 6 /\ turn' = turn + 1 /\ returned' = returned
    <3>1. turn' - 1 = turn
      BY <2>1, <2>4
    <3>2. LookedAt'
      BY <2>1, <2>3, <2>4, <3>1
    <3>3. undisturbed' => returned' = "none"
      BY <2>1, <2>4
    <3> QED
      BY <2>2, <3>2, <3>3
  <2>5. CASE turn = 6 /\ turn' = 0 /\ returned' \in {"changed", "same"}
    <3>1. StatesUpToDate'
      BY <2>3, <2>5, Six
    <3> QED
      BY <2>2, <2>5, <3>1
  <2>6. CASE turn' = 0 /\ returned' = "throws"
    BY <2>2, <2>6
  <2> QED
    BY <2>1, <2>4, <2>5, <2>6
<1>4. CASE UNCHANGED bvars
  BY <1>4 DEF bvars
<1> QED
  BY <1>1, <1>2, <1>3, <1>4 DEF ButtonNext

LEMMA ButtonInvariance == ButtonSpec => []ButtonInv
BY ButtonInvInit, ButtonInvStep, PTL DEF ButtonSpec

\* Whatever keys are pressed and whenever onclick throws, _state is what the
\* program has been told.
THEOREM StateIsToldHolds == ButtonSpec => []StateIsTold
<1>1. ButtonInv => StateIsTold
  BY DEF ButtonInv
<1> QED
  BY <1>1, ButtonInvariance, PTL

\* Whatever was missed before, after a process_all() without interference the
\* program knows the state of all six buttons.
THEOREM StatesUpToDateHolds == ButtonSpec => []StatesUpToDate
<1>1. ButtonInv => StatesUpToDate
  BY DEF ButtonInv
<1> QED
  BY <1>1, ButtonInvariance, PTL
=============================================================================
