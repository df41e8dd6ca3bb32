------------------------------- MODULE Buttons -------------------------------
(***************************************************************************)
(* The buttons of the brick (ev3dev.cpp:962-1031, ev3dev.h:1521-1563).     *)
(* Each object has a buffer of its own for the state of all keys;          *)
(* process_all() looks at one button after the other and calls the         *)
(* program's function for those that have changed.                         *)
(***************************************************************************)
EXTENDS Integers, Sequences

CONSTANTS
    LongBytes,      \* sizeof(long): 4 on the brick
    Pressable       \* the buttons that somebody presses in the instance

\* linux/input.h.
KeyCount == 768
KeyCode == [back |-> 14, left |-> 105, right |-> 106, up |-> 103, down |-> 108, enter |-> 28]

Order == <<"back", "left", "right", "up", "down", "enter">>
AllButtons == DOMAIN KeyCode

ASSUME ButtonAssumption ==
    /\ LongBytes \in 1 .. 4
    /\ Pressable \subseteq AllButtons

VARIABLES
    pressedNow,     \* the keys held down
    buffer,         \* the bit of each object's own key: TRUE stands for pressed
    buttonState,    \* _state
    turn,           \* position in process_all; 0 between calls
    anyChanged,     \* what process() has returned so far
    clicked,        \* what onclick was told last
    returned,       \* what process_all() returned, or "throws"
    undisturbed     \* history: no key and no ioctl has interfered with this call

bvars == <<pressedNow, buffer, buttonState, turn, anyChanged, clicked, returned, undisturbed>>

ButtonTypeOK ==
    /\ pressedNow \subseteq Pressable
    /\ buffer \in [AllButtons -> BOOLEAN]
    /\ buttonState \in [AllButtons -> BOOLEAN]
    /\ clicked \in [AllButtons -> BOOLEAN]
    /\ turn \in 0 .. Len(Order) /\ anyChanged \in BOOLEAN
    /\ returned \in {"none", "throws", "changed", "same"}
    /\ undisturbed \in BOOLEAN

\* The buffers are zero, and a bit that is zero means pressed.
ButtonInit ==
    /\ pressedNow = {}
    /\ buffer = [b \in AllButtons |-> TRUE]
    /\ buttonState = [b \in AllButtons |-> FALSE]
    /\ turn = 0 /\ anyChanged = FALSE
    /\ clicked = [b \in AllButtons |-> FALSE]
    /\ returned = "none" /\ undisturbed = FALSE

PressOrRelease(b) ==
    /\ pressedNow' = IF b \in pressedNow THEN pressedNow \ {b} ELSE pressedNow \cup {b}
    /\ undisturbed' = FALSE
    /\ UNCHANGED <<buffer, buttonState, turn, anyChanged, clicked, returned>>

ProcessAll ==
    /\ turn = 0 /\ turn' = 1
    /\ anyChanged' = FALSE
    /\ undisturbed' = TRUE
    /\ returned' = "none"
    /\ UNCHANGED <<pressedNow, buffer, buttonState, clicked>>

\* The buffer has room for all keys, in words.
Words == (KeyCount + LongBytes * 8 - 1) \div (LongBytes * 8)

\* Seeded fault: the ioctl fills half of what it should.
FilledByWords(b) == KeyCode[b] < 4 * Words

\* The ioctl is given the number of words and fills so many bytes.
Filled(b) == KeyCode[b] < 8 * Words

\* Seeded fault: _state is kept when onclick has returned.
ProcessStateAfter ==
    /\ turn # 0
    /\ LET b == Order[turn]
       IN \E read \in BOOLEAN :
          LET now == IF read /\ Filled(b) THEN b \in pressedNow ELSE buffer[b]
              click == now # buttonState[b]
          IN  /\ buffer' = [buffer EXCEPT ![b] = now]
              /\ undisturbed' = (undisturbed /\ read)
              /\ anyChanged' = (anyChanged \/ click)
              /\ clicked' = IF click THEN [clicked EXCEPT ![b] = now] ELSE clicked
              /\ \/ /\ turn' = IF turn = Len(Order) THEN 0 ELSE turn + 1
                    /\ returned' = IF turn' # 0 THEN returned
                                 ELSE IF anyChanged' THEN "changed" ELSE "same"
                    /\ buttonState' = [buttonState EXCEPT ![b] = now]
                 \/ click /\ turn' = 0 /\ returned' = "throws" /\ UNCHANGED buttonState
    /\ UNCHANGED pressedNow

\* process() of the next button: pressed() ignores a failure of the ioctl, and
\* onclick may throw, so that the buttons after it are not looked at.
ProcessButton ==
    /\ turn # 0
    /\ LET b == Order[turn]
       IN \E read \in BOOLEAN :
          LET now == IF read /\ Filled(b) THEN b \in pressedNow ELSE buffer[b]
              click == now # buttonState[b]
          IN  /\ buffer' = [buffer EXCEPT ![b] = now]
              /\ undisturbed' = (undisturbed /\ read)
              /\ buttonState' = [buttonState EXCEPT ![b] = now]
              /\ anyChanged' = (anyChanged \/ click)
              /\ clicked' = IF click THEN [clicked EXCEPT ![b] = now] ELSE clicked
              /\ \/ /\ turn' = IF turn = Len(Order) THEN 0 ELSE turn + 1
                    /\ returned' = IF turn' # 0 THEN returned
                                 ELSE IF anyChanged' THEN "changed" ELSE "same"
                 \/ click /\ turn' = 0 /\ returned' = "throws"
    /\ UNCHANGED pressedNow

ButtonNext ==
    \/ \E b \in Pressable : PressOrRelease(b)
    \/ ProcessAll
    \/ ProcessButton

ButtonSpec == ButtonInit /\ [][ButtonNext]_bvars

------------------------------------------------------------------------------
\* When process_all() returns, and keys and ioctl have been quiet, the program
\* knows of each button whether it is pressed: of all six, whatever was thrown
\* or could not be read by earlier calls.
StatesUpToDate ==
    returned \in {"changed", "same"} /\ undisturbed =>
        \A b \in AllButtons : clicked[b] = (b \in pressedNow)

\* No change of a button's state is kept from the program, or told it twice, even
\* if onclick throws, now or for another button: _state is what onclick was told.
StateIsTold == clicked = buttonState
==============================================================================
