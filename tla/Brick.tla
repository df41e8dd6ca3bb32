-------------------------------- MODULE Brick --------------------------------
(***************************************************************************)
(* The parts of the binding that do not depend on each other, and what the *)
(* program makes of them, in one specification: a behaviour is about one   *)
(* of them, and the others stay as they are.                               *)
(***************************************************************************)
EXTENDS DeviceConnect, CraneControl, SensorValue, RemoteControl, Buttons, Leds,
        Accessors, PidTest, Sound

VARIABLE part       \* what the behaviour is about

vars == <<part, devvars, cvars, svars, rvars, bvars, lvars, avars, pvars, sndvars>>

Parts == {"connect", "control", "sensor", "remote", "buttons", "leds",
          "accessors", "pidtest", "sound"}

Init ==
    /\ part \in Parts
    /\ ConnectInit /\ CInit /\ SensorInit /\ RemoteInit
    /\ ButtonInit /\ LedInit /\ AccessorInit /\ PidInit /\ SoundInit

ConnectPart ==
    /\ part = "connect" /\ ConnectNext
    /\ UNCHANGED <<part, cvars, svars, rvars, bvars, lvars, avars, pvars, sndvars>>
ControlPart ==
    /\ part = "control" /\ CNext
    /\ UNCHANGED <<part, devvars, svars, rvars, bvars, lvars, avars, pvars, sndvars>>
SensorPart ==
    /\ part = "sensor" /\ SensorNext
    /\ UNCHANGED <<part, devvars, cvars, rvars, bvars, lvars, avars, pvars, sndvars>>
RemotePart ==
    /\ part = "remote" /\ RemoteNext
    /\ UNCHANGED <<part, devvars, cvars, svars, bvars, lvars, avars, pvars, sndvars>>
ButtonPart ==
    /\ part = "buttons" /\ ButtonNext
    /\ UNCHANGED <<part, devvars, cvars, svars, rvars, lvars, avars, pvars, sndvars>>
LedPart ==
    /\ part = "leds" /\ LedNext
    /\ UNCHANGED <<part, devvars, cvars, svars, rvars, bvars, avars, pvars, sndvars>>
AccessorPart ==
    /\ part = "accessors" /\ AccessorNext
    /\ UNCHANGED <<part, devvars, cvars, svars, rvars, bvars, lvars, pvars, sndvars>>
PidPart ==
    /\ part = "pidtest" /\ PidNext
    /\ UNCHANGED <<part, devvars, cvars, svars, rvars, bvars, lvars, avars, sndvars>>
SoundPart ==
    /\ part = "sound" /\ SoundNext
    /\ UNCHANGED <<part, devvars, cvars, svars, rvars, bvars, lvars, avars, pvars>>

Next == \/ ConnectPart \/ ControlPart \/ SensorPart \/ RemotePart
        \/ ButtonPart \/ LedPart \/ AccessorPart \/ PidPart \/ SoundPart

Spec == Init /\ [][Next]_vars

\* The variables of each part have their types.
BrickTypeOK ==
    /\ part = "connect" => ConnectTypeOK
    /\ part = "control" => CTypeOK
    /\ part = "sensor" => SensorTypeOK
    /\ part = "remote" => RemoteTypeOK
    /\ part = "buttons" => ButtonTypeOK
    /\ part = "leds" => LedTypeOK
    /\ part = "accessors" => AccessorTypeOK
    /\ part = "pidtest" => PidTypeOK
    /\ part = "sound" => SoundTypeOK
==============================================================================
