----------------------------- MODULE BrickProofs -----------------------------
(***************************************************************************)
(* Proofs about the other parts of Brick: the LEDs, the accessors, the     *)
(* program that tunes a motor and the sounds; and that Brick is composed   *)
(* of its parts, so that what is proved of each holds of Brick.            *)
(***************************************************************************)
EXTENDS Brick, DeviceProofs, CraneControlProofs, SequenceTheorems

(* PidTest.                                                                *)

\* The gain is a key behind what was typed only while the key is acted on.
GainInv ==
    /\ ppc \in {"new", "read"} /\ ~eof => gain = typed
    /\ ppc = "act" /\ ~eof => typed = gain + Step(choice)

\* The program has quit only by the command to stop.
QuitInv == exit = "quit" => ppc = "end" /\ motorCommand = "stop"

PidInv == PidTypeOK /\ GainInv /\ QuitInv

LEMMA PidInvInit == PidInit => PidInv
<1> SUFFICES ASSUME PidInit PROVE PidInv
  OBVIOUS
<1>1. eof \in BOOLEAN
  BY DEF PidInit
<1>2. PidTypeOK
  BY <1>1, PidAssumption DEF PidAssumption, PidInit, PidTypeOK, Keys
<1> QED
  BY <1>2 DEF PidInit, PidInv, GainInv, QuitInv

LEMMA PidInvStep == PidInv /\ [PidNext]_pvars => PidInv'
<1> SUFFICES ASSUME PidInv, [PidNext]_pvars PROVE PidInv'
  OBVIOUS
<1> USE PidAssumption DEF PidAssumption, PidInv, PidTypeOK, GainInv, QuitInv
<1>1. CASE Start
  BY <1>1 DEF Start
<1>2. CASE ReadKey
  BY <1>2 DEF ReadKey
<1>3. CASE Act
  BY <1>3 DEF Act, CommandOfKey, Step, Keys
<1>4. CASE DeviceFails
  BY <1>4 DEF DeviceFails
<1>5. CASE Restart
  BY <1>5 DEF Restart
<1>6. CASE UNCHANGED pvars
  BY <1>6 DEF pvars
<1> QED
  BY <1>1, <1>2, <1>3, <1>4, <1>5, <1>6 DEF PidNext

\* However far the keys may take it, the gain is what was typed as long as there
\* is input, and the program that has quit has stopped the motor.
THEOREM GainFollowsKeysHolds == PidSpec => []GainFollowsKeys
<1>1. PidInv => GainFollowsKeys
  BY DEF PidInv, GainInv, QuitInv, GainFollowsKeys
<1> QED
  BY <1>1, PidInvInit, PidInvStep, PTL DEF PidSpec

------------------------------------------------------------------------------
(* Sound: the types.                                                       *)

LEMMA SoundTypeInit == SoundInit => SoundTypeOK
<1> SUFFICES ASSUME SoundInit PROVE SoundTypeOK
  OBVIOUS
<1>1. <<>> \in Sequences
  BY DEF Sequences
<1>2. blocked \in 0 .. MaxSounds
  BY SoundAssumption DEF SoundInit, SoundAssumption
<1> QED
  BY <1>1, <1>2 DEF SoundInit, SoundTypeOK, SoundOf

\* A sound that begins, of any kind.
LEMMA SystemStep ==
    ASSUME SoundTypeOK, NEW program \in {"beep", "aplay", "espeak"},
           NEW tones \in Sequences,
           NEW arguments \in {ToneArgs(v) : v \in Sequences} \cup {<<>>},
           NEW sync \in BOOLEAN, System(program, tones, arguments, sync)
    PROVE  SoundTypeOK'
<1> DEFINE sound == SoundOf(program, tones, arguments, sync, FALSE)
<1>1. PICK i \in Slots : sounds' = [sounds EXCEPT ![i] = sound] /\ blocked' = i
  BY DEF System
<1>2. blocked' \in 0 .. MaxSounds
  BY <1>1, SoundAssumption DEF Slots, SoundAssumption
<1> QED
  BY <1>1, <1>2 DEF SoundTypeOK, SoundOf

LEMMA SoundTypeStep == SoundTypeOK /\ [SoundNext]_sndvars => SoundTypeOK'
<1> SUFFICES ASSUME SoundTypeOK, [SoundNext]_sndvars PROVE SoundTypeOK'
  OBVIOUS
<1>1. ASSUME NEW sync \in BOOLEAN, NEW tones \in Sequences, Tone(tones, sync)
      PROVE  SoundTypeOK'
  <2>1. ToneArgs(tones) \in {ToneArgs(v) : v \in Sequences}
    OBVIOUS
  <2> QED
    BY <1>1, <2>1, SystemStep DEF Tone
<1>2. ASSUME NEW sync \in BOOLEAN, Play(sync) \/ Speak(sync)
      PROVE  SoundTypeOK'
  <2>1. <<>> \in Sequences
    BY DEF Sequences
  <2> QED
    BY <1>2, <2>1, SystemStep DEF Play, Speak
<1>3. CASE Returns
  BY <1>3, SoundAssumption DEF Returns, SoundTypeOK, SoundAssumption
<1>4. ASSUME NEW i \in Slots, Silence(i)
      PROVE  SoundTypeOK'
  BY <1>4 DEF Silence, SoundTypeOK
<1>5. CASE UNCHANGED sndvars
  BY <1>5 DEF sndvars, SoundTypeOK
<1> QED
  BY <1>1, <1>2, <1>3, <1>4, <1>5 DEF SoundNext

LEMMA SoundInvariance == SoundSpec => []SoundTypeOK
BY SoundTypeInit, SoundTypeStep, PTL DEF SoundSpec

------------------------------------------------------------------------------
(* Leds.                                                                   *)

\* A call that has not returned has no outcome yet.
NoOutcome == lpc # "idle" => outcome = "none"

\* While flash() sets the delays, the trigger is its own, and so is the delay
\* that it has set already: the kernel only adds attributes that are missing.
FlashInv ==
    /\ lpc \in {"sleep", "delay_on", "delay_off"} /\ ~meddled => trigger = "timer"
    /\ lpc = "delay_off" /\ ~meddled => delay.delay_on = args.delay_on

\* While all_off() goes through the LEDs, those behind it are off, and the first
\* has disabled the timer.
OffInv ==
    lpc = "off" =>
        /\ attempt \in 1 .. 4
        /\ ~meddled => \A i \in 1 .. attempt - 1 : brightness[Names[i]] = 0
        /\ ~meddled /\ attempt > 1 => trigger = "none"

LedInv == LedTypeOK /\ NoOutcome /\ FlashInv /\ OffInv /\ FlashesAsAsked /\ AllDark

\* A stream that works has its file.
GoodFiles == \A d \in DelayNames : file[d] = "good" => delay[d] # Unset

\* set_attr_int writes to a stream that is open; the second time to one that works,
\* unless others have set the trigger since it was opened.
TriesInv ==
    \A d \in DelayNames : lpc = d =>
        /\ io = "write" => file[d] # "closed"
        /\ io = "open" /\ tries = 1 => file[d] = "closed"
        /\ io = "write" /\ tries = 1 /\ ~meddled => file[d] = "good"

NoTries == lpc \notin DelayNames => io = "open" /\ tries = 0

FileInv == GoodFiles /\ TriesInv /\ NoTries

LEMMA FourNames ==
    /\ LedNames = {"red_left", "red_right", "green_left", "green_right"}
    /\ Names \in [1 .. 4 -> LedNames] /\ Len(Names) = 4
    /\ Names[1] = Flasher
<1>1. /\ Names[1] = "red_left" /\ Names[2] = "red_right"
      /\ Names[3] = "green_left" /\ Names[4] = "green_right"
      /\ DOMAIN Names = 1 .. 4 /\ Len(Names) = 4
  BY DEF Names
<1>2. LedNames = {"red_left", "red_right", "green_left", "green_right"}
  BY <1>1 DEF LedNames
<1>3. Names \in [1 .. 4 -> LedNames]
  BY <1>1, <1>2 DEF Names
<1> QED
  BY <1>1, <1>2, <1>3 DEF Flasher

LEMMA LedInvInit == LedInit => LedInv
<1> SUFFICES ASSUME LedInit PROVE LedInv
  OBVIOUS
<1>1. meddled \in BOOLEAN
  BY DEF LedInit
<1>2. LedTypeOK
  BY <1>1, LedAssumption DEF LedAssumption, LedInit, LedTypeOK, Gone, MaxBrightness, Attempts
<1> QED
  BY <1>2 DEF LedInit, LedInv, NoOutcome, FlashInv, OffInv, FlashesAsAsked, AllDark

LEMMA StaleType ==
    ASSUME LedTypeOK
    PROVE  Stale \in [DelayNames -> {"closed", "good", "stale"}]
BY DEF LedTypeOK, Stale

LEMMA GoneType == Gone \in [DelayNames -> Delays \cup {500, Unset}]
BY DEF Gone

\* Writing brightness keeps the types, and can only end the flashing.
LEMMA WriteEffect ==
    ASSUME LedTypeOK, NEW written, DOMAIN written \subseteq LedNames,
           \A l \in DOMAIN written : written[l] \in 0 .. MaxBrightness,
           WriteBrightness(written)
    PROVE  /\ brightness' \in [LedNames -> 0 .. MaxBrightness \cup {Unset}]
           /\ \A l \in LedNames : brightness'[l] = IF l \in DOMAIN written THEN written[l]
                                                   ELSE brightness[l]
           /\ trigger' \in {"none", "timer"}
           /\ delay' \in [DelayNames -> Delays \cup {500, Unset}]
           /\ file' \in [DelayNames -> {"closed", "good", "stale"}]
           /\ trigger = "none" => trigger' = "none"
           /\ Flasher \in DOMAIN written /\ written[Flasher] = 0 => trigger' = "none"
<1>1. /\ brightness' = [l \in LedNames |->
                           IF l \in DOMAIN written THEN written[l] ELSE brightness[l]]
      /\ IF Flasher \in DOMAIN written /\ written[Flasher] = 0 /\ trigger = "timer"
         THEN trigger' = "none" /\ delay' = Gone /\ file' = Stale
         ELSE UNCHANGED <<trigger, delay, file>>
  BY DEF WriteBrightness
<1>2. brightness' \in [LedNames -> 0 .. MaxBrightness \cup {Unset}]
  BY <1>1 DEF LedTypeOK
<1> QED
  BY <1>1, <1>2, StaleType, GoneType DEF LedTypeOK

\* What set_color() and all_off() write, and others.
LEMMA OneWritten ==
    ASSUME NEW l \in LedNames, NEW v \in {0, 1}
    PROVE  /\ DOMAIN [k \in {l} |-> v] \subseteq LedNames
           /\ \A k \in DOMAIN [j \in {l} |-> v] :
                 [j \in {l} |-> v][k] = v /\ v \in 0 .. MaxBrightness
BY DEF MaxBrightness

\* What flash() writes is not the mark of a missing attribute.
LEMMA ArgsAreTimes == LedTypeOK => \A d \in DelayNames : args[d] # Unset
<1> SUFFICES ASSUME LedTypeOK, NEW d \in DelayNames PROVE args[d] # Unset
  OBVIOUS
<1>1. args[d] \in Delays
  BY DEF LedTypeOK
<1>2. Delays \subseteq Nat /\ Unset \notin Nat
  BY LedAssumption DEF LedAssumption
<1> QED
  BY <1>1, <1>2, Zenon

LEMMA AppearStep == LedInv /\ Appear => LedInv'
<1> SUFFICES ASSUME LedInv, Appear PROVE LedInv'
  OBVIOUS
<1>1. UNCHANGED <<brightness, trigger, file, lpc, args, attempt, io, tries, outcome, meddled>>
  BY DEF Appear
<1>2. \A d \in DelayNames : delay[d] # Unset => delay'[d] = delay[d]
  BY DEF Appear, LedInv, LedTypeOK, DelayNames
<1>3. delay' \in [DelayNames -> Delays \cup {500, Unset}]
  BY DEF Appear, LedInv, LedTypeOK, DelayNames
<1>4. \A d \in DelayNames : args[d] # Unset
  BY ArgsAreTimes DEF LedInv
<1>5. LedTypeOK'
  BY <1>1, <1>3 DEF LedInv, LedTypeOK
<1>6. FlashInv'
  BY <1>1, <1>2, <1>4 DEF LedInv, FlashInv, DelayNames
<1>7. FlashesAsAsked'
  <2>1. delay = args => delay' = delay
    BY <1>2, <1>3, <1>4 DEF LedInv, LedTypeOK
  <2> QED
    BY <1>1, <2>1 DEF LedInv, FlashesAsAsked
<1> QED
  BY <1>1, <1>5, <1>6, <1>7 DEF LedInv, NoOutcome, OffInv, AllDark

LEMMA MeddleStep ==
    ASSUME LedInv, NEW l \in LedNames, NEW v \in {0, 1}, Meddle(l, v)
    PROVE  LedInv'
<1> DEFINE written == [k \in {l} |-> v]
<1>1. /\ DOMAIN written \subseteq LedNames
      /\ \A k \in DOMAIN written : written[k] \in 0 .. MaxBrightness
  BY OneWritten
<1>2. /\ WriteBrightness(written)
      /\ UNCHANGED <<lpc, args, attempt, io, tries, outcome>> /\ meddled' = TRUE
  BY DEF Meddle
<1> HIDE DEF written
<1>3. LedTypeOK'
  BY <1>1, <1>2, WriteEffect DEF LedInv, LedTypeOK
<1> QED
  BY <1>2, <1>3 DEF LedInv, NoOutcome, FlashInv, OffInv, FlashesAsAsked, AllDark

LEMMA SetColorStep ==
    ASSUME LedInv, NEW g \in Groups, NEW c \in Colors, SetColor(g, c)
    PROVE  LedInv'
<1> DEFINE n == IF Len(g) < Len(c) THEN Len(g) ELSE Len(c)
           reached == {i \in 1 .. n : \A j \in 1 .. i : brightness[g[j]] # Unset}
           written == [l \in {g[i] : i \in reached} |-> c[CHOOSE i \in reached : g[i] = l]]
<1>1. \A i \in 1 .. n : g[i] \in LedNames /\ c[i] \in 0 .. MaxBrightness
  BY FourNames DEF Groups, Colors, MaxBrightness
<1>2. /\ lpc = "idle" /\ WriteBrightness(written)
      /\ outcome' = "none" /\ UNCHANGED <<lpc, args, attempt, io, tries, meddled>>
  BY DEF SetColor
<1>3. DOMAIN written \subseteq LedNames
  BY <1>1
<1>4. \A l \in DOMAIN written : written[l] \in 0 .. MaxBrightness
  BY <1>1
<1> HIDE DEF written
<1>5. LedTypeOK'
  BY <1>2, <1>3, <1>4, WriteEffect DEF LedInv, LedTypeOK
<1> QED
  BY <1>2, <1>5 DEF LedInv, NoOutcome, FlashInv, OffInv, FlashesAsAsked, AllDark

LEMMA FlashStep ==
    ASSUME LedInv, NEW on \in Delays, NEW off \in Delays, Flash(on, off)
    PROVE  LedInv'
<1>1. LedTypeOK'
  <2>1. meddled' \in BOOLEAN
    BY DEF Flash
  <2>2. args' \in [DelayNames -> Delays]
    BY DEF Flash, DelayNames
  <2> QED
    BY <2>1, <2>2, StaleType, GoneType DEF Flash, LedInv, LedTypeOK, Attempts
<1>2. NoOutcome' /\ FlashInv' /\ OffInv' /\ AllDark'
  BY DEF Flash, NoOutcome, FlashInv, OffInv, AllDark
<1>3. FlashesAsAsked'
  BY DEF Flash, FlashesAsAsked
<1> QED
  BY <1>1, <1>2, <1>3 DEF LedInv

\* An attempt that fails leaves the delays as they are.
LEMMA FailsStep ==
    ASSUME LedInv, NEW d \in DelayNames, lpc = d, Fails,
           UNCHANGED <<brightness, trigger, delay, args, meddled>>,
           file' \in [DelayNames -> {"closed", "good", "stale"}]
    PROVE  LedInv'
<1>1. d \in {"delay_on", "delay_off"} /\ outcome = "none"
  BY DEF DelayNames, LedInv, NoOutcome
<1>2. LedTypeOK'
  BY <1>1 DEF Fails, LedInv, LedTypeOK, Attempts
<1> QED
  BY <1>1, <1>2 DEF Fails, LedInv, NoOutcome, FlashInv, OffInv, FlashesAsAsked, AllDark

LEMMA OpenDelayStep ==
    ASSUME LedInv, NEW d \in DelayNames, OpenDelay(d)
    PROVE  LedInv'
<1>1. lpc = d /\ UNCHANGED <<brightness, trigger, delay, args, meddled>>
  BY DEF OpenDelay
<1>2. CASE file[d] = "closed" /\ delay[d] = Unset
  BY <1>1, <1>2, FailsStep DEF OpenDelay, LedInv, LedTypeOK
<1>3. CASE ~(file[d] = "closed" /\ delay[d] = Unset)
  <2>1. /\ file' = [file EXCEPT ![d] = IF @ = "closed" THEN "good" ELSE @]
        /\ io' = "write" /\ UNCHANGED <<lpc, attempt, tries, outcome>>
    BY <1>3 DEF OpenDelay
  <2>2. LedTypeOK'
    BY <1>1, <2>1 DEF LedInv, LedTypeOK
  <2> QED
    BY <1>1, <2>1, <2>2 DEF LedInv, NoOutcome, FlashInv, OffInv, FlashesAsAsked, AllDark
<1> QED
  BY <1>2, <1>3

\* A delay is written.
LEMMA WrittenStep ==
    ASSUME LedInv, NEW d \in DelayNames, lpc = d, DelayWritten(d),
           UNCHANGED <<brightness, trigger, args, meddled>>
    PROVE  LedInv'
<1>1. d \in {"delay_on", "delay_off"} /\ outcome = "none"
  BY DEF DelayNames, LedInv, NoOutcome
<1>2. delay' = [delay EXCEPT ![d] = args[d]] /\ UNCHANGED file /\ Succeeds(d)
  BY DEF DelayWritten
<1>3. LedTypeOK'
  BY <1>2 DEF Succeeds, LedInv, LedTypeOK
<1>4. delay'[d] = args[d] /\ \A e \in DelayNames : e # d => delay'[e] = delay[e]
  BY <1>2 DEF LedInv, LedTypeOK
<1>5. CASE d = "delay_on"
  BY <1>1, <1>2, <1>3, <1>4, <1>5
     DEF Succeeds, LedInv, NoOutcome, FlashInv, OffInv, FlashesAsAsked, AllDark
<1>6. CASE d = "delay_off"
  <2>1. lpc' = "idle" /\ outcome' = "flashes"
    BY <1>2, <1>6 DEF Succeeds
  <2>2. ~meddled => trigger = "timer" /\ delay' = args
    <3>1. ~meddled => \A e \in DelayNames : delay'[e] = args[e]
      BY <1>4, <1>6 DEF LedInv, FlashInv, DelayNames
    <3>2. /\ delay' = [e \in DelayNames |-> delay'[e]]
          /\ args = [e \in DelayNames |-> args[e]]
      BY <1>3 DEF LedInv, LedTypeOK
    <3>3. ~meddled => delay' = args
      BY <3>1, <3>2
    <3> QED
      BY <1>6, <3>3 DEF LedInv, FlashInv
  <2> QED
    BY <1>3, <2>1, <2>2 DEF LedInv, NoOutcome, FlashInv, OffInv, FlashesAsAsked, AllDark
<1> QED
  BY <1>1, <1>5, <1>6

LEMMA WriteDelayStep ==
    ASSUME LedInv, NEW d \in DelayNames, WriteDelay(d)
    PROVE  LedInv'
<1>1. lpc = d /\ UNCHANGED <<brightness, trigger, args, meddled>>
  BY DEF WriteDelay
<1>2. CASE file[d] = "good" /\ DelayWritten(d)
  BY <1>1, <1>2, WrittenStep
<1>3. CASE /\ file' = [file EXCEPT ![d] = "closed"]
           /\ io' = "open" /\ tries' = 1
           /\ UNCHANGED <<delay, lpc, attempt, outcome>>
  <2>1. LedTypeOK'
    BY <1>1, <1>3 DEF LedInv, LedTypeOK
  <2> QED
    BY <1>1, <1>3, <2>1 DEF LedInv, NoOutcome, FlashInv, OffInv, FlashesAsAsked, AllDark
<1>4. CASE Fails /\ UNCHANGED <<delay, file>>
  <2>1. file' \in [DelayNames -> {"closed", "good", "stale"}]
    BY <1>4 DEF LedInv, LedTypeOK
  <2> QED
    BY <1>1, <1>4, <2>1, FailsStep
<1> QED
  BY <1>2, <1>3, <1>4 DEF WriteDelay

LEMMA MeddleTriggerStep == LedInv /\ MeddleTrigger => LedInv'
<1> SUFFICES ASSUME LedInv, MeddleTrigger PROVE LedInv'
  OBVIOUS
<1>1. LedTypeOK'
  BY StaleType, GoneType DEF MeddleTrigger, LedInv, LedTypeOK
<1> QED
  BY <1>1 DEF MeddleTrigger, LedInv, NoOutcome, FlashInv, OffInv, FlashesAsAsked, AllDark

LEMMA OffStep == LedInv /\ Off => LedInv'
<1> SUFFICES ASSUME LedInv, Off PROVE LedInv'
  OBVIOUS
<1> DEFINE l == Names[attempt]
           written == [k \in {l} |-> 0]
<1>1. /\ lpc = "off" /\ attempt \in 1 .. 4 /\ outcome = "none"
      /\ UNCHANGED <<args, io, tries, meddled>>
  BY DEF Off, LedInv, OffInv, NoOutcome
<1>2. l \in LedNames
  BY <1>1, FourNames
<1>3. CASE brightness[l] = Unset
  <2>1. /\ lpc' = "idle" /\ outcome' = "throws"
        /\ UNCHANGED <<brightness, trigger, delay, file, attempt>>
    BY <1>3 DEF Off
  <2> QED
    BY <1>1, <2>1 DEF LedInv, LedTypeOK, NoOutcome, FlashInv, OffInv, FlashesAsAsked, AllDark
<1>4. CASE brightness[l] # Unset
  <2>1. WriteBrightness(written)
    BY <1>4 DEF Off
  <2>2. DOMAIN written = {l} /\ \A k \in DOMAIN written : written[k] = 0
    OBVIOUS
  <2>3. /\ DOMAIN written \subseteq LedNames
        /\ \A k \in DOMAIN written : written[k] \in 0 .. MaxBrightness
    BY <1>2, <2>2 DEF MaxBrightness
  <2> HIDE DEF written
  <2>4. \A k \in LedNames : brightness'[k] = IF k = l THEN 0 ELSE brightness[k]
    BY <2>1, <2>2, <2>3, WriteEffect DEF LedInv
  <2>5. /\ trigger = "none" => trigger' = "none"
        /\ l = Flasher => trigger' = "none"
    BY <2>1, <2>2, <2>3, WriteEffect DEF LedInv
  \* Those up to this one are off.
  <2>6. /\ ~meddled => \A i \in 1 .. attempt : brightness'[Names[i]] = 0
        /\ ~meddled => trigger' = "none"
    <3>1. \A i \in 1 .. attempt : Names[i] \in LedNames /\ (i = attempt \/ i \in 1 .. attempt - 1)
      BY <1>1, FourNames
    <3>2. attempt = 1 \/ attempt > 1
      BY <1>1
    <3> QED
      BY <1>1, <2>4, <2>5, <3>1, <3>2, FourNames DEF LedInv, OffInv
  <2>7. CASE attempt = 4
    <3>1. lpc' = "idle" /\ outcome' = "dark" /\ UNCHANGED attempt
      BY <1>4, <2>7, FourNames DEF Off
    <3>2. LedTypeOK'
      BY <1>1, <2>1, <2>3, <3>1, WriteEffect DEF LedInv, LedTypeOK
    <3>3. \A k \in LedNames : \E i \in 1 .. attempt : k = Names[i]
      BY <2>7 DEF LedNames, Names
    <3>4. AllDark'
      BY <1>1, <2>6, <3>3 DEF AllDark
    <3> QED
      BY <3>1, <3>2, <3>4 DEF LedInv, NoOutcome, FlashInv, OffInv, FlashesAsAsked
  <2>8. CASE attempt # 4
    <3>1. attempt' = attempt + 1 /\ UNCHANGED <<lpc, outcome>>
      BY <1>4, <2>8, FourNames DEF Off
    <3>2. attempt' \in 2 .. 4 /\ attempt' - 1 = attempt
      BY <1>1, <2>8, <3>1
    <3>3. LedTypeOK'
      BY <1>1, <2>1, <2>3, <3>1, <3>2, WriteEffect DEF LedInv, LedTypeOK, Attempts
    <3>4. OffInv'
      <4>1. attempt' \in 1 .. 4 /\ 1 .. attempt' - 1 = 1 .. attempt
        BY <3>2
      <4>2. meddled' = meddled
        BY <1>1
      <4> QED
        BY <2>6, <4>1, <4>2 DEF OffInv
    <3> QED
      BY <1>1, <3>1, <3>3, <3>4 DEF LedInv, NoOutcome, FlashInv, FlashesAsAsked, AllDark
  <2> QED
    BY <2>7, <2>8
<1> QED
  BY <1>3, <1>4

LEMMA LedInvStep == LedInv /\ [LedNext]_lvars => LedInv'
<1> SUFFICES ASSUME LedInv, [LedNext]_lvars PROVE LedInv'
  OBVIOUS
<1>1. ASSUME NEW l \in LedNames, NotConnected(l)
      PROVE  LedInv'
  BY <1>1 DEF NotConnected, LedInv, LedTypeOK, NoOutcome, FlashInv, OffInv,
     FlashesAsAsked, AllDark
<1>2. CASE Wake
  BY <1>2 DEF Wake, LedInv, LedTypeOK, NoOutcome, FlashInv, OffInv, FlashesAsAsked, AllDark
<1>3. CASE AllOff
  <2>0. meddled' \in BOOLEAN
    BY <1>3 DEF AllOff
  <2>1. LedTypeOK'
    BY <1>3, <2>0 DEF AllOff, LedInv, LedTypeOK, Attempts
  <2> QED
    BY <1>3, <2>1 DEF AllOff, LedInv, NoOutcome, FlashInv, OffInv, FlashesAsAsked, AllDark
<1>4. CASE UNCHANGED lvars
  BY <1>4 DEF lvars, LedInv, LedTypeOK, NoOutcome, FlashInv, OffInv, FlashesAsAsked, AllDark
<1> QED
  BY <1>1, <1>2, <1>3, <1>4, AppearStep, MeddleStep, SetColorStep, FlashStep,
     OpenDelayStep, WriteDelayStep, MeddleTriggerStep, OffStep DEF LedNext

\* When the attributes go, streams that were good are stale, others as before.
LEMMA StaleFiles ==
    ASSUME LedTypeOK, delay' = Gone, file' = Stale
    PROVE  \A d \in DelayNames : /\ file'[d] # "good"
                                 /\ file'[d] = "closed" <=> file[d] = "closed"
BY DEF LedTypeOK, Stale

\* What others do to the attributes, the second try aside.
LEMMA FilesStep ==
    ASSUME LedInv, FileInv, UNCHANGED <<lpc, io, tries>>, meddled' = TRUE,
           \/ UNCHANGED <<delay, file>>
           \/ delay' = Gone /\ file' = Stale
    PROVE  FileInv'
BY StaleFiles DEF LedInv, FileInv, GoodFiles, TriesInv, NoTries

LEMMA FileInvInit == LedInit => FileInv
BY DEF LedInit, FileInv, GoodFiles, TriesInv, NoTries, DelayNames

\* No step of the LEDs takes a file from a stream that works.
LEMMA FileInvStep == LedInv /\ FileInv /\ [LedNext]_lvars => FileInv'
<1> SUFFICES ASSUME LedInv, FileInv, [LedNext]_lvars PROVE FileInv'
  OBVIOUS
<1> USE DEF FileInv, GoodFiles, TriesInv, NoTries
<1>1. CASE Appear
  <2>1. \A d \in DelayNames : delay[d] # Unset => delay'[d] = delay[d]
    BY <1>1 DEF Appear, LedInv, LedTypeOK, DelayNames
  <2>2. UNCHANGED <<file, lpc, io, tries, meddled>>
    BY <1>1 DEF Appear
  <2> QED
    BY <2>1, <2>2
<1>2. ASSUME NEW l \in LedNames, NEW v \in {0, 1}, Meddle(l, v)
      PROVE  FileInv'
  <2>1. /\ UNCHANGED <<lpc, io, tries>> /\ meddled' = TRUE
        /\ \/ UNCHANGED <<delay, file>>
           \/ delay' = Gone /\ file' = Stale
    BY <1>2 DEF Meddle, WriteBrightness
  <2> QED
    BY <2>1, FilesStep
<1>3. CASE MeddleTrigger
  <2>1. /\ UNCHANGED <<lpc, io, tries>> /\ meddled' = TRUE
        /\ delay' = Gone /\ file' = Stale
    BY <1>3 DEF MeddleTrigger
  <2> QED
    BY <2>1, FilesStep
\* Calls that are not setting a delay.
<1>4. ASSUME lpc \notin DelayNames, lpc' \notin DelayNames, UNCHANGED <<io, tries>>,
             \/ UNCHANGED <<delay, file>>
             \/ delay' = Gone /\ file' = Stale
      PROVE  FileInv'
  BY <1>4, StaleFiles DEF LedInv
<1>5. ASSUME NEW l \in LedNames, NotConnected(l) PROVE FileInv'
  BY <1>5 DEF NotConnected
<1>6. ASSUME NEW g \in Groups, NEW c \in Colors, SetColor(g, c) PROVE FileInv'
  BY <1>4, <1>6 DEF SetColor, WriteBrightness, DelayNames
<1>7. ASSUME NEW on \in Delays, NEW off \in Delays, Flash(on, off) PROVE FileInv'
  BY <1>4, <1>7 DEF Flash, DelayNames
<1>8. CASE Wake
  BY <1>8 DEF Wake, DelayNames
<1>9. ASSUME NEW d \in DelayNames, OpenDelay(d) PROVE FileInv'
  <2>1. lpc = d /\ io = "open" /\ UNCHANGED <<delay, meddled>>
    BY <1>9 DEF OpenDelay
  <2>2. CASE file[d] = "closed" /\ delay[d] = Unset
    <3>1. Fails /\ UNCHANGED file
      BY <1>9, <2>2 DEF OpenDelay
    <3> QED
      BY <2>1, <3>1 DEF Fails, DelayNames
  <2>3. CASE ~(file[d] = "closed" /\ delay[d] = Unset)
    <3>1. /\ file' = [file EXCEPT ![d] = IF @ = "closed" THEN "good" ELSE @]
          /\ io' = "write" /\ UNCHANGED <<lpc, tries>>
      BY <1>9, <2>3 DEF OpenDelay
    <3>2. /\ file[d] = "closed" => file'[d] = "good" /\ delay[d] # Unset
          /\ file[d] # "closed" => file'[d] = file[d]
          /\ \A e \in DelayNames : e # d => file'[e] = file[e]
      BY <2>3, <3>1 DEF LedInv, LedTypeOK
    <3> QED
      BY <2>1, <3>1, <3>2 DEF LedInv, LedTypeOK
  <2> QED
    BY <2>2, <2>3
<1>10. ASSUME NEW d \in DelayNames, WriteDelay(d) PROVE FileInv'
  <2>1. lpc = d /\ io = "write" /\ UNCHANGED meddled
    BY <1>10 DEF WriteDelay
  <2>2. CASE DelayWritten(d)
    <3>1. UNCHANGED file /\ Succeeds(d) /\ delay' = [delay EXCEPT ![d] = args[d]]
      BY <2>2 DEF DelayWritten
    <3>2. args[d] # Unset
      BY ArgsAreTimes DEF LedInv
    <3>3. \A e \in DelayNames : delay'[e] = IF e = d THEN args[d] ELSE delay[e]
      BY <3>1 DEF LedInv, LedTypeOK
    <3> QED
      <4>1. \A e \in DelayNames : file'[e] = "good" => delay'[e] # Unset
        BY <3>1, <3>2, <3>3
      <4>2. io' = "open" /\ tries' = 0
        BY <3>1 DEF Succeeds
      <4> QED
        BY <4>1, <4>2
  <2>3. CASE /\ file' = [file EXCEPT ![d] = "closed"]
             /\ io' = "open" /\ tries' = 1
             /\ UNCHANGED <<delay, lpc, attempt, outcome>>
    <3>1. file'[d] = "closed" /\ \A e \in DelayNames : e # d => file'[e] = file[e]
      BY <2>3 DEF LedInv, LedTypeOK
    <3> QED
      BY <2>1, <2>3, <3>1
  <2>4. CASE Fails /\ UNCHANGED <<delay, file>>
    BY <2>1, <2>4 DEF Fails, DelayNames
  <2> QED
    BY <1>10, <2>2, <2>3, <2>4 DEF WriteDelay
<1>11. CASE AllOff
  BY <1>4, <1>11 DEF AllOff, DelayNames
<1>12. CASE Off
  <2>1. lpc = "off" /\ lpc' \in {"idle", "off"} /\ UNCHANGED <<io, tries>>
    BY <1>12 DEF Off
  <2>2. \/ UNCHANGED <<delay, file>>
        \/ delay' = Gone /\ file' = Stale
    BY <1>12 DEF Off, WriteBrightness
  <2> QED
    BY <1>4, <2>1, <2>2 DEF DelayNames
<1>13. CASE UNCHANGED lvars
  BY <1>13 DEF lvars
<1> QED
  BY <1>1, <1>2, <1>3, <1>5, <1>6, <1>7, <1>8, <1>9, <1>10, <1>11, <1>12, <1>13 DEF LedNext

LEMMA LedInvariance == LedSpec => []LedInv
BY LedInvInit, LedInvStep, PTL DEF LedSpec

\* However flash() and all_off() are interleaved with the kernel, for any delays,
\* what they were asked for is the case when they have returned.
THEOREM LedsAsAskedHolds == LedSpec => []LedsAsAsked
<1>1. LedInv => LedsAsAsked
  BY DEF LedInv, LedsAsAsked
<1> QED
  BY <1>1, LedInvariance, PTL

\* An attempt fails when the file cannot be opened, or the second write.
LEMMA GivesUpStep ==
    ASSUME FileInv, LedInv, LedNext, NEW d \in DelayNames,
           lpc = d, lpc' \in {"sleep", "idle"}, outcome' # "flashes"
    PROVE  meddled \/ delay[d] = Unset
<1>1. OpenDelay(d) \/ WriteDelay(d)
  <2>1. lpc' # lpc /\ lpc \notin {"idle", "sleep", "off"}
    BY DEF DelayNames
  <2>2. \E e \in DelayNames : OpenDelay(e) \/ WriteDelay(e)
    BY <2>1 DEF LedNext, Appear, MeddleTrigger, NotConnected, Meddle, SetColor, Flash, Wake,
       AllOff, Off
  <2> QED
    BY <2>2 DEF OpenDelay, WriteDelay
<1>2. CASE OpenDelay(d)
  BY <1>2 DEF OpenDelay, DelayNames
<1>3. CASE WriteDelay(d)
  <2>1. ~DelayWritten(d)
    BY DEF DelayWritten, Succeeds, DelayNames
  <2>2. file[d] = "stale" /\ tries = 1 /\ io = "write"
    BY <1>3, <2>1 DEF WriteDelay, DelayNames
  <2> QED
    BY <2>2 DEF FileInv, TriesInv
<1> QED
  BY <1>1, <1>2, <1>3

\* For any delays: a stream that is stale since an earlier flash() costs no attempt,
\* because the second try of set_attr_int writes to a stream that works; an attempt
\* fails only if the attribute is not there, or others have set the trigger.
THEOREM GivesUpOnlyWithoutHolds == LedSpec => GivesUpOnlyWithout
<1>1. FileInv /\ LedInv /\ [LedNext]_lvars =>
         [\A d \in DelayNames :
             lpc = d /\ lpc' \in {"sleep", "idle"} /\ outcome' # "flashes" =>
                 meddled \/ delay[d] = Unset]_lvars
  BY GivesUpStep
<1>2. LedSpec => []FileInv
  BY FileInvInit, FileInvStep, LedInvariance, PTL DEF LedSpec
<1> QED
  BY <1>1, <1>2, LedInvariance, PTL DEF LedSpec, GivesUpOnlyWithout
------------------------------------------------------------------------------
(* Accessors.                                                              *)

\* The attributes with a name that no method has ("trigger" is one of a method).
FileNames == {OtherNames[x] : x \in DOMAIN OtherNames} \ {"trigger"}

\* What was set through a method is what its attribute holds, and nothing else
\* has been written.
Corresponds ==
    /\ \A a \in DOMAIN set : /\ AttributeOf(a) \in DOMAIN attribute
                             /\ attribute[AttributeOf(a)] = set[a]
    /\ \A f \in DOMAIN attribute : \E a \in DOMAIN set : f = AttributeOf(a)

\* What was set belongs to the object, and a trigger is one of the list.
OfObject ==
    /\ object = NoObject => DOMAIN set = {}
    /\ "trigger" \in DOMAIN set => set["trigger"] \in TriggerSet

AccessorInv == AccessorTypeOK /\ Corresponds /\ OfObject

\* No method has the name of another's attribute, except trigger.
LEMMA MethodIsNoFile ==
    ASSUME NEW c \in DOMAIN AccessorsOf, NEW a \in Readable(c) \cup Writable(c)
    PROVE  a \notin FileNames
<1>1. FileNames = {"hold_pid/Kp", "hold_pid/Ki", "hold_pid/Kd", "speed_pid/Kp",
                   "speed_pid/Ki", "speed_pid/Kd", "current_now", "voltage_now",
                   "voltage_max_design", "voltage_min_design"}
  BY DEF FileNames, OtherNames
<1> USE <1>1 DEF Readable, Writable, AccessorsOf, Both, Kinds
<1>2. CASE c = "sensor"
  BY <1>2 DEF SensorAccessors
<1>3. CASE c = "i2c_sensor"
  BY <1>3 DEF I2cSensorAccessors, SensorAccessors
<1>4. CASE c = "motor"
  BY <1>4 DEF MotorGeneral, MotorPosition, MotorSpeed, MotorStopping
<1>5. CASE c = "dc_motor"
  BY <1>5 DEF DcMotorAccessors
<1>6. CASE c = "servo_motor"
  BY <1>6 DEF ServoMotorAccessors
<1>7. CASE c = "led"
  BY <1>7 DEF LedAccessors
<1>8. CASE c = "power_supply"
  BY <1>8 DEF PowerSupplyAccessors
<1>9. CASE c = "lego_port"
  BY <1>9 DEF LegoPortAccessors
<1> QED
  BY <1>2, <1>3, <1>4, <1>5, <1>6, <1>7, <1>8, <1>9

\* Only a method that lists the triggers shares its attribute.
LEMMA AttributesDiffer ==
    ASSUME NEW c \in DOMAIN AccessorsOf,
           NEW a \in Readable(c) \cup Writable(c),
           NEW b \in Readable(c) \cup Writable(c),
           AttributeOf(a) = AttributeOf(b), a # "triggers", b # "triggers"
    PROVE  a = b
<1>1. \A x, y \in DOMAIN OtherNames : OtherNames[x] = OtherNames[y] => x = y
  BY DEF OtherNames
<1>2. \A x \in DOMAIN OtherNames : x # "triggers" => OtherNames[x] \in FileNames
  BY DEF OtherNames, FileNames
<1> QED
  BY <1>1, <1>2, MethodIsNoFile DEF AttributeOf

\* The list of triggers cannot be written.
LEMMA TriggersIsReadOnly ==
    ASSUME NEW c \in DOMAIN AccessorsOf
    PROVE  "triggers" \notin Writable(c)
BY DEF Writable, AccessorsOf, Both, Kinds, SensorAccessors, I2cSensorAccessors,
   MotorGeneral, MotorPosition, MotorSpeed, MotorStopping, DcMotorAccessors,
   ServoMotorAccessors, LedAccessors, PowerSupplyAccessors, LegoPortAccessors

\* Devices with commands have the attribute "command".
LEMMA CommandIsWritable ==
    ASSUME NEW c \in DOMAIN AccessorsOf, CommandsOf(c) # {}
    PROVE  "command" \in Writable(c)
<1>1. c \in {"motor", "dc_motor", "servo_motor"}
  BY DEF CommandsOf
<1> QED
  BY <1>1 DEF Writable, AccessorsOf, Both, Kinds, MotorGeneral, DcMotorAccessors,
     ServoMotorAccessors

\* The words of the list of triggers.
LEMMA TriggerWords ==
    ASSUME NEW v
    PROVE  /\ DOMAIN Line(Triggers, v) = 1 .. 5
           /\ \A i \in 1 .. 4 : Line(Triggers, v)[i] = Word(Triggers[i], Triggers[i] = v)
           /\ Line(Triggers, v)[5] = Word(NoText, FALSE)
<1> DEFINE words == [i \in 1 .. 4 |-> Word(Triggers[i], Triggers[i] = v)]
<1>1. DOMAIN Triggers = 1 .. 4
  BY DEF Triggers, NoText
<1>2. Line(Triggers, v) = words \o <<Word(NoText, FALSE)>>
  BY <1>1 DEF Line
<1> DEFINE W == {words[i] : i \in 1 .. 4} \cup {Word(NoText, FALSE)}
           last == <<Word(NoText, FALSE)>>
<1>3. /\ words \in Seq(W) /\ Len(words) = 4
      /\ last \in Seq(W) /\ Len(last) = 1 /\ last[1] = Word(NoText, FALSE)
  <2> HIDE DEF Word
  <2> QED
    OBVIOUS
<1>4. \A i \in 1 .. 4 : words[i] = Word(Triggers[i], Triggers[i] = v)
  OBVIOUS
<1> HIDE DEF words, last, W
<1>5. /\ words \o last \in Seq(W)
      /\ Len(words \o last) = Len(words) + Len(last)
      /\ \A i \in 1 .. Len(words) + Len(last) :
            (words \o last)[i] = IF i <= Len(words) THEN words[i] ELSE last[i - Len(words)]
  BY <1>3, ConcatProperties, Zenon
<1>6. DOMAIN (words \o last) = 1 .. 5
  BY <1>3, <1>5
<1>7. \A i \in 1 .. 4 : (words \o last)[i] = words[i]
  BY <1>3, <1>5
<1>8. (words \o last)[5] = last[1]
  <2>1. 5 \in 1 .. Len(words) + Len(last) /\ ~(5 <= Len(words)) /\ 5 - Len(words) = 1
    BY <1>3
  <2>2. (words \o last)[5] = last[5 - Len(words)]
    BY <1>5, <2>1, Zenon
  <2> QED
    BY <2>1, <2>2
<1>9. Line(Triggers, v) = words \o last
  BY <1>2 DEF last
<1>10. \A i \in 1 .. 4 : (words \o last)[i] = Word(Triggers[i], Triggers[i] = v)
  BY <1>4, <1>7, Zenon
<1>11. (words \o last)[5] = Word(NoText, FALSE)
  BY <1>3, <1>8, Zenon
<1> QED
  BY <1>6, <1>9, <1>10, <1>11, Zenon

\* The list of triggers is read as the triggers, and as the one that is marked.
LEMMA TriggerList ==
    ASSUME NEW v \in TriggerSet
    PROVE  /\ GetAttrSet(Line(Triggers, v)) = TriggerSet
           /\ GetAttrFromSet(Line(Triggers, v)) = v
<1> DEFINE line == Line(Triggers, v)
<1>1. /\ \A i \in 1 .. 4 : Triggers[i] # NoText
      /\ \A i, j \in 1 .. 4 : Triggers[i] = Triggers[j] => i = j
      /\ DOMAIN Triggers = 1 .. 4
  BY DEF Triggers, NoText
<1>2. /\ DOMAIN line = 1 .. 5 /\ line[5].text = NoText
      /\ \A i \in 1 .. 4 : line[i].text = Triggers[i] /\ (line[i].marked <=> Triggers[i] = v)
  <2>1. \A t, b : Word(t, b).text = t /\ Word(t, b).marked = b
    BY DEF Word
  <2>2. DOMAIN line = 1 .. 5 /\ line[5].text = NoText
    <3>1. DOMAIN line = 1 .. 5 /\ line[5] = Word(NoText, FALSE)
      BY TriggerWords
    <3> QED
      BY <2>1, <3>1
  <2>3. ASSUME NEW i \in 1 .. 4
        PROVE  line[i].text = Triggers[i] /\ line[i].marked = (Triggers[i] = v)
    <3>1. line[i] = Word(Triggers[i], Triggers[i] = v)
      BY TriggerWords
    <3> QED
      BY <2>1, <3>1
  <2> QED
    BY <2>2, <2>3
<1> HIDE DEF line
<1>3. {i \in DOMAIN line : line[i].text # NoText} = 1 .. 4
  BY <1>1, <1>2
<1>4. GetAttrSet(line) = TriggerSet
  BY <1>1, <1>2, <1>3 DEF GetAttrSet, TriggerSet
<1>5. PICK k \in 1 .. 4 : Triggers[k] = v
  BY <1>1 DEF TriggerSet
<1>6. {i \in DOMAIN line : line[i].text # NoText /\ line[i].marked} = {k}
  BY <1>1, <1>2, <1>5
<1>7. GetAttrFromSet(line) = line[k].text
  BY <1>6 DEF GetAttrFromSet
<1> QED
  BY <1>2, <1>4, <1>5, <1>7 DEF line

LEMMA AccessorInvInit == AccessorInit => AccessorInv
BY DEF AccessorInit, Fresh, AccessorInv, AccessorTypeOK, Corresponds, OfObject

\* A write through a method, or of a command, writes the method's attribute.
LEMMA WriteStep ==
    ASSUME AccessorInv, NEW c \in DOMAIN AccessorsOf, object = c, object' = c,
           NEW a \in Writable(c), NEW v \in Values(a) \cup CommandsOf(c),
           a = "trigger" => v \in TriggerSet,
           writes < 2, writes' = writes + 1,
           attribute' = With(attribute, AttributeOf(a), v),
           set' = With(set, a, v)
    PROVE  AccessorInv'
<1>1. object # NoObject /\ DOMAIN set \subseteq Writable(c)
  BY AccessorAssumption DEF AccessorAssumption, AccessorInv, AccessorTypeOK
<1>2. /\ DOMAIN set' = DOMAIN set \cup {a}
      /\ \A b \in DOMAIN set' : set'[b] = IF b = a THEN v ELSE set[b]
  BY DEF With
<1>3. /\ DOMAIN attribute' = DOMAIN attribute \cup {AttributeOf(a)}
      /\ \A f \in DOMAIN attribute' :
            attribute'[f] = IF f = AttributeOf(a) THEN v ELSE attribute[f]
  BY DEF With
<1>4. AccessorTypeOK'
  BY <1>1, <1>2 DEF AccessorInv, AccessorTypeOK, Values
<1>5. \A b \in DOMAIN set : AttributeOf(b) = AttributeOf(a) => b = a
  BY <1>1, AttributesDiffer, TriggersIsReadOnly
<1>6. Corresponds'
  BY <1>2, <1>3, <1>5 DEF AccessorInv, Corresponds, AttributeOf
<1>7. OfObject'
  BY <1>1, <1>2 DEF AccessorInv, OfObject
<1> QED
  BY <1>4, <1>6, <1>7 DEF AccessorInv

LEMMA AccessorInvStep == AccessorInv /\ [AccessorNext]_avars => AccessorInv'
<1> SUFFICES ASSUME AccessorInv, [AccessorNext]_avars PROVE AccessorInv'
  OBVIOUS
<1>1. ASSUME NEW c \in DOMAIN AccessorsOf, NewObject(c)
      PROVE  AccessorInv'
  BY <1>1 DEF NewObject, AccessorInv, AccessorTypeOK, Corresponds, OfObject
<1>2. ASSUME NEW c \in DOMAIN AccessorsOf, NEW a \in Writable(c), NEW v \in Values(a),
             Set(c, a, v)
      PROVE  AccessorInv'
  <2>1. a = "trigger" => v \in TriggerSet
    BY DEF Values
  <2> QED
    BY <1>2, <2>1, WriteStep DEF Set
<1>3. ASSUME NEW c \in DOMAIN AccessorsOf, NEW m \in CommandsOf(c), Command(c, m)
      PROVE  AccessorInv'
  <2>1. CASE m = "reset"
    BY <1>3, <2>1 DEF Command, Fresh, AccessorInv, AccessorTypeOK, Corresponds, OfObject
  <2>2. CASE m # "reset"
    <3>1. "command" \in Writable(c) /\ AttributeOf("command") = "command"
      BY CommandIsWritable DEF AttributeOf, OtherNames
    <3> QED
      BY <1>3, <2>2, <3>1, WriteStep DEF Command
  <2> QED
    BY <2>1, <2>2
<1>4. CASE DeleteObject
  BY <1>4 DEF DeleteObject, Fresh, AccessorInv, AccessorTypeOK, Corresponds, OfObject
<1>5. CASE UNCHANGED avars
  BY <1>5 DEF avars, AccessorInv, AccessorTypeOK, Corresponds, OfObject
<1> QED
  BY <1>1, <1>2, <1>3, <1>4, <1>5 DEF AccessorNext

\* What a method reads in the states of the invariant.
LEMMA ReadStep ==
    ASSUME AccessorInv, object # NoObject
    PROVE  ReadsBack
<1>1. PICK c \in DOMAIN AccessorsOf : object = c
  BY DEF AccessorInv, AccessorTypeOK
<1>2. DOMAIN set \subseteq Writable(c) /\ "triggers" \notin DOMAIN set
  BY <1>1, TriggersIsReadOnly DEF AccessorInv, AccessorTypeOK
<1>3. "none" \in TriggerSet
  BY DEF TriggerSet, Triggers
<1>4. ASSUME NEW a \in Readable(c), a # "triggers", a \notin DOMAIN set
      PROVE  AttributeOf(a) \notin DOMAIN attribute
  BY <1>2, <1>4, AttributesDiffer DEF AccessorInv, Corresponds
<1> DEFINE held(a) == IF AttributeOf(a) \in DOMAIN attribute THEN attribute[AttributeOf(a)]
                      ELSE Default
<1>5. ASSUME NEW a \in Readable(c), a # "triggers"
      PROVE  held(a) = IF a \in DOMAIN set THEN set[a] ELSE Default
  BY <1>4, <1>5 DEF AccessorInv, Corresponds
<1>6. ASSUME NEW a \in Readable(c)
      PROVE  Get(a) = IF a \in DOMAIN set THEN set[a]
                      ELSE IF a = "trigger" THEN "none"
                      ELSE IF a = "triggers" THEN TriggerSet
                      ELSE Default
  <2> DEFINE current == IF held(a) = Default THEN "none" ELSE held(a)
  <2>1. CASE a = "trigger"
    <3>1. Get(a) = GetAttrFromSet(Line(Triggers, current))
      BY <2>1 DEF Get
    <3>2. current = IF a \in DOMAIN set THEN set[a] ELSE "none"
      BY <1>5, <2>1, AccessorAssumption DEF AccessorAssumption, AccessorInv, OfObject
    <3>3. current \in TriggerSet
      BY <1>3, <2>1, <3>2 DEF AccessorInv, OfObject
    <3> HIDE DEF current
    <3> QED
      BY <2>1, <3>1, <3>2, <3>3, TriggerList
  <2>2. CASE a = "triggers"
    <3>1. Get(a) = GetAttrSet(Line(Triggers, current))
      BY <2>2 DEF Get
    <3>2. current \in TriggerSet
      <4>1. ASSUME "trigger" \in DOMAIN attribute
            PROVE  attribute["trigger"] \in TriggerSet
        <5>1. PICK b \in DOMAIN set : AttributeOf(b) = "trigger"
          BY <4>1 DEF AccessorInv, Corresponds
        <5>2. b = "trigger"
          BY <1>2, <5>1 DEF AttributeOf, OtherNames
        <5> QED
          BY <5>1, <5>2 DEF AccessorInv, Corresponds, OfObject
      <4>2. AttributeOf(a) = "trigger"
        BY <2>2 DEF AttributeOf, OtherNames
      <4> QED
        BY <1>3, <4>1, <4>2
    <3> HIDE DEF current
    <3> QED
      BY <1>2, <2>2, <3>1, <3>2, TriggerList
  <2>3. CASE a \notin {"trigger", "triggers"}
    <3>1. Get(a) = held(a)
      BY <2>3 DEF Get
    <3> QED
      BY <1>5, <2>3, <3>1
  <2> QED
    BY <2>1, <2>2, <2>3
<1> QED
  BY <1>1, <1>6 DEF ReadsBack

LEMMA AccessorInvariance == AccessorSpec => []AccessorInv
BY AccessorInvInit, AccessorInvStep, PTL DEF AccessorSpec

\* For any values that are written, in any order: each property reads as what was
\* last set through its own method.
THEOREM ReadsBackHolds == AccessorSpec => []ReadsBack
<1>1. AccessorInv => ReadsBack
  BY ReadStep DEF ReadsBack
<1> QED
  BY <1>1, AccessorInvariance, PTL

------------------------------------------------------------------------------
(* Brick.                                                                  *)

LEMMA PartsInit ==
    Init => /\ ConnectInit /\ CInit /\ SensorInit /\ RemoteInit
            /\ ButtonInit /\ LedInit /\ AccessorInit /\ PidInit /\ SoundInit
BY DEF Init

\* A step of Brick is a step of one part, and the others stay as they are.
LEMMA PartsStep ==
    [Next]_vars => /\ [ConnectNext]_devvars /\ [CNext]_cvars /\ [SensorNext]_svars
                   /\ [RemoteNext]_rvars /\ [ButtonNext]_bvars /\ [LedNext]_lvars
                   /\ [AccessorNext]_avars /\ [PidNext]_pvars /\ [SoundNext]_sndvars
BY DEF Next, vars, ConnectPart, ControlPart, SensorPart, RemotePart, ButtonPart, LedPart,
   AccessorPart, PidPart, SoundPart

\* Brick, whatever its behaviour is about, is a behaviour of each of its parts.
THEOREM BrickIsItsParts ==
    Spec => /\ ConnectSpec /\ CSpec /\ SensorSpec /\ RemoteSpec /\ ButtonSpec
            /\ LedSpec /\ AccessorSpec /\ PidSpec /\ SoundSpec
BY PartsInit, PartsStep, PTL
   DEF Spec, ConnectSpec, CSpec, SensorSpec, RemoteSpec, ButtonSpec, LedSpec,
       AccessorSpec, PidSpec, SoundSpec

\* The variables of all parts have their types.
THEOREM BrickTypeOKHolds == Spec => []BrickTypeOK
<1>1. /\ ConnectInv /\ CInv /\ SensorInv /\ RemoteInv /\ ButtonInv
      /\ LedInv /\ AccessorInv /\ PidInv /\ SoundTypeOK
      => BrickTypeOK
  BY DEF BrickTypeOK, ConnectInv, CInv, SensorInv, RemoteInv, ButtonInv, LedInv,
     AccessorInv, PidInv
<1>2. SensorSpec => []SensorInv
  BY SensorInvInit, SensorInvStep, PTL DEF SensorSpec
<1>3. CSpec => []CInv
  BY ControlInit, ControlStep, PTL DEF CSpec
<1>4. PidSpec => []PidInv
  BY PidInvInit, PidInvStep, PTL DEF PidSpec
<1> QED
  BY <1>1, <1>2, <1>3, <1>4, BrickIsItsParts, ConnectInvariance, RemoteInvariance,
     ButtonInvariance, LedInvariance, AccessorInvariance, SoundInvariance, PTL

\* So Brick keeps what each part promises.
THEOREM BrickKeepsPromises ==
    Spec => /\ []ConnectedAsAnswered /\ []NoDeviceMissed /\ ConnectsToMatch
            /\ []ExclusiveAccess /\ []ValueOfMode
            /\ []MethodsDeliver
            /\ []StateOfValue /\ []ToldWhatIsHeld
            /\ []StatesUpToDate /\ []StateIsTold
            /\ []LedsAsAsked /\ GivesUpOnlyWithout
            /\ []ReadsBack /\ []GainFollowsKeys
BY BrickIsItsParts, ConnectedAsAnsweredHolds, NoDeviceMissedHolds, ConnectsToMatchHolds,
   ExclusiveAccessHolds, ValueOfModeHolds, MethodsDeliverHolds, StateOfValueHolds,
   ToldWhatIsHeldHolds, StatesUpToDateHolds, StateIsToldHolds, LedsAsAskedHolds,
   GivesUpOnlyWithoutHolds, ReadsBackHolds, GainFollowsKeysHolds, PTL
==============================================================================
