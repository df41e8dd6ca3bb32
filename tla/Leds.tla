-------------------------------- MODULE Leds ---------------------------------
(***************************************************************************)
(* The LEDs (ev3dev.cpp:852-942, ev3dev.h:1340-1462).  Setting the trigger *)
(* "timer" makes the kernel create the attributes delay_on and delay_off,  *)
(* after a while, and remove those of the trigger before; a stream that    *)
(* was open for one of these is stale.  flash() copes with both.           *)
(***************************************************************************)
EXTENDS Integers, Sequences

CONSTANTS
    Delays,         \* arguments of flash(), 0 among them; 500 is the kernel's own
    Unset           \* no such attribute, or no value

ASSUME LedAssumption ==
    /\ 0 \in Delays /\ Delays \subseteq Nat
    /\ Unset \notin Nat

Names == <<"red_left", "red_right", "green_left", "green_right">>
LedNames == {Names[i] : i \in DOMAIN Names}
Flasher == "red_left"       \* the LED that the instance flashes
DelayNames == {"delay_on", "delay_off"}

MaxBrightness == 2
Attempts == 6

VARIABLES
    brightness,     \* of each LED; Unset if the object is not connected
    trigger,        \* of the flashing LED
    delay,          \* its delay attributes
    file,           \* cached streams for them: "closed", "good" or "stale"
    lpc,            \* "idle", "sleep", "delay_on", "delay_off" or "off"
    args,           \* of flash()
    attempt,        \* i in flash(); position in all_off()
    io,             \* what set_attr_int is about to do, "open" or "write"
    tries,          \* attempt in set_attr_int
    outcome,        \* of the last call
    meddled         \* history: others have changed LEDs since it began

lvars == <<brightness, trigger, delay, file, lpc, args, attempt, io, tries, outcome,
           meddled>>

LedTypeOK ==
    /\ brightness \in [LedNames -> 0 .. MaxBrightness \cup {Unset}]
    /\ trigger \in {"none", "timer"}
    /\ delay \in [DelayNames -> Delays \cup {500, Unset}]
    /\ file \in [DelayNames -> {"closed", "good", "stale"}]
    /\ lpc \in {"idle", "sleep", "delay_on", "delay_off", "off"}
    /\ args \in [DelayNames -> Delays]
    /\ attempt \in 0 .. Attempts
    /\ io \in {"open", "write"} /\ tries \in {0, 1}
    /\ outcome \in {"new", "none", "flashes", "fails", "dark", "throws"}
    /\ meddled \in BOOLEAN

Gone == [d \in DelayNames |-> Unset]
Stale == [d \in DelayNames |-> IF file[d] = "good" THEN "stale" ELSE file[d]]

LedInit ==
    /\ brightness = [l \in LedNames |-> MaxBrightness]
    /\ trigger = "none" /\ delay = Gone
    /\ file = [d \in DelayNames |-> "closed"]
    /\ lpc = "idle"
    /\ args = [d \in DelayNames |-> 0]
    /\ attempt = 0 /\ io = "open" /\ tries = 0
    /\ outcome = "new" /\ meddled = FALSE

------------------------------------------------------------------------------
(* The kernel, and other users of the LEDs.                                *)

\* The attributes appear one after the other.
Appear ==
    /\ trigger = "timer"
    /\ \/ delay.delay_on = Unset /\ delay' = [delay EXCEPT !.delay_on = 500]
       \/ /\ delay.delay_on # Unset /\ delay.delay_off = Unset
          /\ delay' = [delay EXCEPT !.delay_off = 500]
    /\ UNCHANGED <<brightness, trigger, file, lpc, args, attempt, io, tries, outcome, meddled>>

\* Attribute "brightness" of some LEDs: 0 disables the timer.
WriteBrightness(written) ==
    /\ brightness' = [l \in LedNames |->
                         IF l \in DOMAIN written THEN written[l] ELSE brightness[l]]
    /\ IF Flasher \in DOMAIN written /\ written[Flasher] = 0 /\ trigger = "timer"
       THEN trigger' = "none" /\ delay' = Gone /\ file' = Stale
       ELSE UNCHANGED <<trigger, delay, file>>

Meddle(l, v) ==
    /\ brightness[l] # Unset
    /\ WriteBrightness([k \in {l} |-> v])
    /\ meddled' = TRUE
    /\ UNCHANGED <<lpc, args, attempt, io, tries, outcome>>

\* Another process sets the trigger again.
MeddleTrigger ==
    /\ trigger' = "timer" /\ delay' = Gone /\ file' = Stale
    /\ meddled' = TRUE
    /\ UNCHANGED <<brightness, lpc, args, attempt, io, tries, outcome>>

\* An LED whose object was constructed before the device was there.
NotConnected(l) ==
    /\ outcome = "new"
    /\ \A k \in LedNames : brightness[k] # Unset
    /\ l # Flasher
    /\ brightness' = [brightness EXCEPT ![l] = Unset]
    /\ UNCHANGED <<trigger, delay, file, lpc, args, attempt, io, tries, outcome, meddled>>

------------------------------------------------------------------------------
(* The binding.                                                            *)

\* set_color: a brightness for each LED of a group, as far as both lists go;
\* an LED that is not connected makes it throw (left and right are alike).
SetColor(group, color) ==
    /\ lpc = "idle"
    /\ LET n == IF Len(group) < Len(color) THEN Len(group) ELSE Len(color)
           reached == {i \in 1 .. n : \A j \in 1 .. i : brightness[group[j]] # Unset}
       IN  WriteBrightness([l \in {group[i] : i \in reached} |->
                               color[CHOOSE i \in reached : group[i] = l]])
    /\ outcome' = "none"
    /\ UNCHANGED <<lpc, args, attempt, io, tries, meddled>>

\* flash() sets the trigger; without a time to be on that is all.
Flash(on, off) ==
    /\ lpc = "idle"
    /\ args' = [delay_on |-> on, delay_off |-> off]
    /\ trigger' = "timer" /\ delay' = Gone /\ file' = Stale
    /\ attempt' = 0
    /\ meddled' = FALSE
    /\ lpc' = IF on = 0 THEN "idle" ELSE "sleep"
    /\ outcome' = IF on = 0 THEN "flashes" ELSE "none"
    /\ UNCHANGED <<brightness, io, tries>>

Wake ==
    /\ lpc = "sleep"
    /\ lpc' = "delay_on"
    /\ UNCHANGED <<brightness, trigger, delay, file, args, attempt, io, tries, outcome, meddled>>

\* An exception of set_delay_on or set_delay_off: the sixth is passed on.
Fails ==
    /\ IF attempt + 1 >= Attempts
       THEN lpc' = "idle" /\ outcome' = "fails" /\ UNCHANGED attempt
       ELSE lpc' = "sleep" /\ attempt' = attempt + 1 /\ UNCHANGED outcome
    /\ io' = "open" /\ tries' = 0

Succeeds(d) ==
    /\ IF d = "delay_on" THEN lpc' = "delay_off" /\ UNCHANGED outcome
                         ELSE lpc' = "idle" /\ outcome' = "flashes"
    /\ io' = "open" /\ tries' = 0
    /\ UNCHANGED attempt

\* set_attr_int opens the file, unless a stream is open, good or not ...
OpenDelay(d) ==
    /\ lpc = d /\ io = "open"
    /\ IF file[d] = "closed" /\ delay[d] = Unset
       THEN Fails /\ UNCHANGED file
       ELSE /\ file' = [file EXCEPT ![d] = IF @ = "closed" THEN "good" ELSE @]
            /\ io' = "write"
            /\ UNCHANGED <<lpc, attempt, tries, outcome>>
    /\ UNCHANGED <<brightness, trigger, delay, args, meddled>>

DelayWritten(d) ==
    /\ delay' = [delay EXCEPT ![d] = args[d]]
    /\ UNCHANGED file
    /\ Succeeds(d)

\* Seeded fault: what is written to a stale stream is taken for written.
WriteDelayUnchecked(d) ==
    /\ lpc = d /\ io = "write"
    /\ IF file[d] = "good" THEN DelayWritten(d)
                           ELSE UNCHANGED <<delay, file>> /\ Succeeds(d)
    /\ UNCHANGED <<brightness, trigger, args, meddled>>

\* Seeded fault: a stale stream is not closed.
WriteDelayKeepsStale(d) ==
    /\ lpc = d /\ io = "write"
    /\ \/ file[d] = "good" /\ DelayWritten(d)
       \/ /\ file[d] = "stale" /\ tries = 0
          /\ io' = "open" /\ tries' = 1
          /\ UNCHANGED <<delay, file, lpc, attempt, outcome>>
       \/ file[d] = "stale" /\ tries = 1 /\ Fails /\ UNCHANGED <<delay, file>>
    /\ UNCHANGED <<brightness, trigger, args, meddled>>

\* ... and writes.  ENODEV, of a stale stream: it is closed, once, to try again.
WriteDelay(d) ==
    /\ lpc = d /\ io = "write"
    /\ \/ file[d] = "good" /\ DelayWritten(d)
       \/ /\ file[d] = "stale" /\ tries = 0
          /\ file' = [file EXCEPT ![d] = "closed"]
          /\ io' = "open" /\ tries' = 1
          /\ UNCHANGED <<delay, lpc, attempt, outcome>>
       \/ file[d] = "stale" /\ tries = 1 /\ Fails /\ UNCHANGED <<delay, file>>
    /\ UNCHANGED <<brightness, trigger, args, meddled>>

\* all_off(): one LED after the other; the first that is not connected throws.
AllOff ==
    /\ lpc = "idle" /\ lpc' = "off"
    /\ attempt' = 1
    /\ outcome' = "none" /\ meddled' = FALSE
    /\ UNCHANGED <<brightness, trigger, delay, file, args, io, tries>>

Off ==
    /\ lpc = "off"
    /\ LET l == Names[attempt]
       IN  IF brightness[l] = Unset
           THEN /\ lpc' = "idle" /\ outcome' = "throws"
                /\ UNCHANGED <<brightness, trigger, delay, file, attempt>>
           ELSE /\ WriteBrightness([k \in {l} |-> 0])
                /\ IF attempt = Len(Names)
                   THEN lpc' = "idle" /\ outcome' = "dark" /\ UNCHANGED attempt
                   ELSE attempt' = attempt + 1 /\ UNCHANGED <<lpc, outcome>>
    /\ UNCHANGED <<args, io, tries, meddled>>

Groups == {<<"red_left", "green_left">>, <<"red_right", "green_right">>}

\* Red, orange and green, as brightness of the red and the green LED.
Colors == {<<2, 0>>, <<2, 1>>, <<0, 2>>}

LedNext ==
    \/ Appear
    \/ MeddleTrigger
    \/ \E l \in LedNames : NotConnected(l) \/ \E v \in {0, 1} : Meddle(l, v)
    \/ \E g \in Groups, c \in Colors : SetColor(g, c)
    \/ \E on, off \in Delays : Flash(on, off)
    \/ Wake
    \/ \E d \in DelayNames : OpenDelay(d) \/ WriteDelay(d)
    \/ AllOff
    \/ Off

LedSpec == LedInit /\ [][LedNext]_lvars

------------------------------------------------------------------------------
\* flash() that has returned has set the trigger and both delays, on the
\* attributes that belong to this trigger and not to an earlier one.
FlashesAsAsked ==
    outcome = "flashes" /\ ~meddled /\ args.delay_on # 0 =>
        trigger = "timer" /\ delay = args

\* An attempt of flash() to set the delays fails only if the attribute is not there
\* at that moment: the two tries of set_attr_int get over a stream that is stale
\* since an earlier flash(), wherever between them the attribute appears.
GivesUpOnlyWithout ==
    [][\A d \in DelayNames :
          lpc = d /\ lpc' \in {"sleep", "idle"} /\ outcome' # "flashes" =>
              meddled \/ delay[d] = Unset]_lvars

\* After all_off() all LEDs are off, none flashes; or it throws.
AllDark ==
    outcome = "dark" /\ ~meddled =>
        trigger = "none" /\ \A l \in LedNames : brightness[l] = 0

\* What a call of flash() or all_off() has asked for is the case when it has
\* returned (unless others have changed LEDs meanwhile).
LedsAsAsked == FlashesAsAsked /\ AllDark
==============================================================================
