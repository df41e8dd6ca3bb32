---------------------------- MODULE RemoteControl ----------------------------
(***************************************************************************)
(* The remote control (ev3dev.cpp:1191-1306, ev3dev.h:1616-1652).  The     *)
(* infrared sensor shows, for each of four channels, a code of the buttons *)
(* that are held on a remote; process() turns a change of the code into    *)
(* calls of the program's functions, any of which may throw.  The sensor   *)
(* may be one that the program uses for other things.                      *)
(***************************************************************************)
EXTENDS Integers, Sequences

CONSTANTS
    Codes,          \* of the remote on the channel
    OtherCodes,     \* of the remotes on other channels, 0 (nothing held) among them
    Distance        \* value of the sensor in mode IR-PROX

\* No buttons held.
ASSUME RemoteAssumption == 0 \in OtherCodes

RemoteButtons == <<"red_up", "red_down", "blue_up", "blue_down", "beacon">>
Functions == {RemoteButtons[i] : i \in DOMAIN RemoteButtons}

VARIABLES
    asked,      \* channel given to the constructor; -1 before
    channel,    \* _channel, 0 for the first
    irMode,     \* of the sensor
    shown,      \* code of each of the sensor's values in mode IR-REMOTE
    rpc,        \* "idle" or "tell"
    value, state,   \* _value, _state
    newValue,   \* local of process()
    next,       \* position of the button to tell next
    bound,      \* the functions that the program has assigned
    told,       \* what each function was told last
    upToDate,   \* history: process() has returned since a code has changed
    foreign,    \* history: process() has read the sensor in another mode
    thrown      \* history: a function has thrown

rvars == <<asked, channel, irMode, shown, rpc, value, state, newValue, next, bound,
           told, upToDate, foreign, thrown>>

\* on_value_changed: the buttons of each code.
Held(code) ==
    LET table == << {"red_up"}, {"red_down"}, {"blue_up"}, {"blue_down"},
                    {"red_up", "blue_up"}, {"red_up", "blue_down"},
                    {"red_down", "blue_up"}, {"red_down", "blue_down"},
                    {"beacon"}, {"red_up", "red_down"}, {"blue_up", "blue_down"} >>
    IN  IF code \in DOMAIN table THEN table[code] ELSE {}

RemoteTypeOK ==
    /\ asked \in -1 .. 5 /\ channel \in 0 .. 3
    /\ irMode \in {"IR-PROX", "IR-REMOTE"}
    /\ shown \in [0 .. 3 -> Codes \cup OtherCodes]
    /\ rpc \in {"idle", "tell"}
    /\ value \in Codes \cup OtherCodes \cup {Distance}
    /\ newValue \in Codes \cup OtherCodes \cup {Distance}
    /\ state \subseteq Functions /\ next \in 1 .. Len(RemoteButtons) + 1
    /\ bound \subseteq Functions /\ told \in [Functions -> BOOLEAN]
    /\ upToDate \in BOOLEAN /\ foreign \in BOOLEAN /\ thrown \in BOOLEAN

RemoteInit ==
    /\ asked = -1 /\ channel = 0
    /\ irMode = "IR-PROX"
    /\ shown = [c \in 0 .. 3 |-> 0]
    /\ rpc = "idle"
    /\ value = 0 /\ newValue = 0 /\ state = {} /\ next = 1
    /\ bound = {}
    /\ told = [f \in Functions |-> FALSE]
    /\ upToDate = FALSE /\ foreign = FALSE /\ thrown = FALSE

Channels == 1 .. 4

\* Seeded fault: channels are counted from 0.
NewRemoteFromZero(c) ==
    /\ asked = -1
    /\ asked' = c
    /\ channel' = IF c \in 0 .. 3 THEN c ELSE 0
    /\ irMode' = "IR-REMOTE"
    /\ bound' \in {Functions, Functions \ {"red_up"}}
    /\ UNCHANGED <<shown, rpc, value, state, newValue, next, told, upToDate, foreign, thrown>>

\* Seeded fault: any channel is taken.
NewRemoteUnchecked(c) ==
    /\ asked = -1
    /\ asked' = c
    /\ channel' = c - 1
    /\ irMode' = "IR-REMOTE"
    /\ bound' \in {Functions, Functions \ {"red_up"}}
    /\ UNCHANGED <<shown, rpc, value, state, newValue, next, told, upToDate, foreign, thrown>>

\* Both constructors, with the sensor connected.
NewRemote(c) ==
    /\ asked = -1
    /\ asked' = c
    /\ channel' = IF c \in Channels THEN c - 1 ELSE 0
    /\ irMode' = "IR-REMOTE"
    /\ bound' \in {Functions, Functions \ {"red_up"}}
    /\ UNCHANGED <<shown, rpc, value, state, newValue, next, told, upToDate, foreign, thrown>>

\* The destructor; another object may follow, while buttons are held.
DeleteRemote ==
    /\ asked # -1 /\ rpc = "idle"
    /\ asked' = -1 /\ channel' = 0
    /\ value' = 0 /\ newValue' = 0 /\ state' = {} /\ next' = 1
    /\ bound' = {}
    /\ told' = [f \in Functions |-> FALSE]
    /\ upToDate' = FALSE /\ foreign' = FALSE /\ thrown' = FALSE
    /\ UNCHANGED <<irMode, shown, rpc>>

\* Someone holds or releases buttons of a remote.
Hold(c, code) ==
    /\ asked # -1
    /\ code \in IF c = (IF asked \in Channels THEN asked ELSE 1) THEN Codes ELSE OtherCodes
    /\ shown' = [shown EXCEPT ![c - 1] = code]
    /\ upToDate' = FALSE
    /\ UNCHANGED <<asked, channel, irMode, rpc, value, state, newValue, next, bound, told,
                   foreign, thrown>>

\* The program asks the sensor that it has lent for the proximity.
Proximity ==
    /\ asked # -1 /\ rpc = "idle"
    /\ irMode' = "IR-PROX"
    /\ UNCHANGED <<asked, channel, shown, rpc, value, state, newValue, next, bound, told,
                   upToDate, foreign, thrown>>

\* value(_channel): in mode IR-PROX there is only one.
HasValue == irMode = "IR-REMOTE" \/ channel = 0
Reading == IF irMode = "IR-REMOTE" THEN shown[channel] ELSE Distance

ProcessThrows ==
    /\ asked # -1 /\ rpc = "idle"
    /\ ~HasValue
    /\ foreign' = TRUE
    /\ UNCHANGED <<asked, channel, irMode, shown, rpc, value, state, newValue, next, bound,
                   told, upToDate, thrown>>

Process ==
    /\ asked # -1 /\ rpc = "idle"
    /\ HasValue
    /\ newValue' = Reading
    /\ rpc' = IF newValue' = value THEN "idle" ELSE "tell"
    /\ next' = 1
    /\ upToDate' = TRUE
    /\ foreign' = (foreign \/ irMode # "IR-REMOTE")
    /\ UNCHANGED <<asked, channel, irMode, shown, value, state, bound, told, thrown>>

\* Seeded fault: the state is kept before the functions are called.
TellAfterState ==
    /\ rpc = "tell" /\ next \in DOMAIN RemoteButtons
    /\ LET b == RemoteButtons[next]
           changed == (b \in Held(newValue)) # (b \in state)
       IN  /\ told' = IF changed /\ b \in bound
                      THEN [told EXCEPT ![b] = b \in Held(newValue)] ELSE told
           /\ \/ next' = next + 1 /\ UNCHANGED <<rpc, thrown, state>>
              \/ /\ changed /\ b \in bound
                 /\ rpc' = "idle" /\ thrown' = TRUE
                 /\ state' = Held(newValue)
                 /\ UNCHANGED next
    /\ UNCHANGED <<asked, channel, irMode, shown, value, newValue, bound, upToDate, foreign>>

\* The function of the next button is called if the button has changed; when it
\* throws, so does process().
Tell ==
    /\ rpc = "tell" /\ next \in DOMAIN RemoteButtons
    /\ LET b == RemoteButtons[next]
           changed == (b \in Held(newValue)) # (b \in state)
       IN  /\ told' = IF changed /\ b \in bound
                      THEN [told EXCEPT ![b] = b \in Held(newValue)] ELSE told
           /\ \/ next' = next + 1 /\ UNCHANGED <<rpc, thrown>>
              \/ /\ changed /\ b \in bound
                 /\ rpc' = "idle" /\ thrown' = TRUE
                 /\ UNCHANGED next
    /\ UNCHANGED <<asked, channel, irMode, shown, value, state, newValue, bound,
                   upToDate, foreign>>

\* on_state_change, which may throw, too, and then the members.
Told ==
    /\ rpc = "tell" /\ next \notin DOMAIN RemoteButtons
    /\ rpc' = "idle"
    /\ \/ state' = Held(newValue) /\ value' = newValue /\ UNCHANGED thrown
       \/ Held(newValue) # state /\ thrown' = TRUE /\ UNCHANGED <<state, value>>
    /\ UNCHANGED <<asked, channel, irMode, shown, newValue, next, bound, told,
                   upToDate, foreign>>

RemoteNext ==
    \/ \E c \in {0, 1, 2, 5} : NewRemote(c)
    \/ \E c \in {1, 2}, code \in Codes \cup OtherCodes : Hold(c, code)
    \/ DeleteRemote
    \/ Proximity
    \/ ProcessThrows
    \/ Process
    \/ Tell
    \/ Told

RemoteSpec == RemoteInit /\ [][RemoteNext]_rvars

------------------------------------------------------------------------------
\* _value and _state belong together, also after a function has thrown: the same
\* code is then processed again by the next call.
StateOfValue == rpc = "idle" => state = Held(value)

\* What the functions have been told is what is held on the remote of the
\* channel asked for, once process() has returned: unless the sensor was read in
\* another mode, or a function has thrown (its buttons may be released before
\* process() is called again, and nobody is told).
ToldWhatIsHeld ==
    rpc = "idle" /\ upToDate /\ ~foreign /\ ~thrown =>
        LET c == IF asked \in Channels THEN asked ELSE 1
        IN  \A b \in bound : told[b] = (b \in Held(shown[c - 1]))
==============================================================================
