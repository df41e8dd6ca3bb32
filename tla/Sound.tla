-------------------------------- MODULE Sound --------------------------------
(***************************************************************************)
(* Sounds (ev3dev.cpp:1035-1112): each call hands a command line to        *)
(* system(), which waits for the program or, if the line ends in &, does   *)
(* not.  tone() turns a list of tones, of up to three numbers each, into   *)
(* arguments of the program beep, which separates tones by -n.             *)
(***************************************************************************)
EXTENDS Integers, Sequences
LOCAL INSTANCE SequencesExt

CONSTANTS
    Tones,          \* elements of the argument of tone(), sequences of words
    MaxSounds       \* bound: of those that play at a time

ASSUME SoundAssumption == MaxSounds \in Nat \ {0}

Flags == <<"-f", "-l", "-D">>   \* frequency, length, and delay after it

VARIABLES
    sounds,         \* those that play, and some that are over, in slots
    blocked         \* the slot of the one that is in system(), 0 if there is none

sndvars == <<sounds, blocked>>

Sequences == {<<>>} \cup {<<v>> : v \in Tones} \cup {<<w[1], w[2]>> : w \in Tones \X Tones}

Slots == 1 .. MaxSounds

SoundOf(program, tones, args, waited, over) ==
    [program |-> program, tones |-> tones, args |-> args, waited |-> waited, over |-> over]

SoundInit ==
    /\ sounds = [i \in Slots |-> SoundOf("beep", <<>>, <<>>, FALSE, TRUE)]
    /\ blocked = 0

\* The numbers of a tone, each with its flag; more than three are ignored.
Arguments(v) ==
    FlattenSeq([i \in 1 .. (IF Len(v) < 3 THEN Len(v) ELSE 3) |-> <<Flags[i], v[i]>>])

\* Seeded fault: a tone that is cut short does not count as the first.
ToneArgsFirstLate(tones) ==
    FlattenSeq([i \in DOMAIN tones |->
        (IF \E j \in 1 .. i - 1 : Len(tones[j]) >= 3 THEN <<"-n">> ELSE <<>>)
            \o Arguments(tones[i])])

ToneArgs(tones) ==
    FlattenSeq([i \in DOMAIN tones |->
        (IF i > 1 THEN <<"-n">> ELSE <<>>) \o Arguments(tones[i])])

SoundTypeOK ==
    /\ sounds \in [Slots -> [program : {"beep", "aplay", "espeak"}, tones : Sequences,
                            args : {ToneArgs(tones) : tones \in Sequences} \cup {<<>>},
                            waited : BOOLEAN, over : BOOLEAN]]
    /\ blocked \in 0 .. MaxSounds

\* The program is started, in a slot that is free.
System(program, tones, args, sync) ==
    /\ blocked = 0
    /\ \E i \in Slots :
          /\ sounds[i].over
          /\ sounds' = [sounds EXCEPT ![i] = SoundOf(program, tones, args, sync, FALSE)]
          /\ blocked' = i

Tone(tones, sync) == System("beep", tones, ToneArgs(tones), sync)
Play(sync) == System("aplay", <<>>, <<>>, sync)
Speak(sync) == System("espeak", <<>>, <<>>, sync)

\* system() returns, with a status that nobody looks at.
Returns ==
    /\ blocked # 0
    /\ sounds[blocked].waited => sounds[blocked].over
    /\ blocked' = 0
    /\ UNCHANGED sounds

\* A program ends.
Silence(i) ==
    /\ ~sounds[i].over
    /\ sounds' = [sounds EXCEPT ![i].over = TRUE]
    /\ UNCHANGED blocked

SoundNext ==
    \/ \E sync \in BOOLEAN :
          (\E tones \in Sequences : Tone(tones, sync)) \/ Play(sync) \/ Speak(sync)
    \/ Returns
    \/ \E i \in Slots : Silence(i)

SoundSpec == SoundInit /\ [][SoundNext]_sndvars

\* What the program beep makes of its arguments: -n begins another tone, a
\* number that is not given is beep's own.
Heard(args) ==
    LET TonesUntil(p) == 1 + Len(SelectSeq(SubSeq(args, 1, p), LAMBDA a : a = "-n"))
    IN  [i \in 1 .. TonesUntil(Len(args)) |->
            [f \in 1 .. 3 |->
                LET at == {p \in DOMAIN args : args[p] = Flags[f] /\ TonesUntil(p) = i}
                IN  IF at = {} THEN "default" ELSE args[1 + CHOOSE p \in at : TRUE]]]

\* The program beep is given the tones that were asked for, one by one and in
\* order, however few numbers some of them have (none at all makes beep's own
\* tone, and so does, against the caller's intention, an empty list).
TonesAsAsked ==
    \A i \in Slots :
        sounds[i].program = "beep" /\ sounds[i].tones # <<>> =>
            Heard(sounds[i].args) =
                [j \in DOMAIN sounds[i].tones |->
                    [f \in 1 .. 3 |-> LET v == sounds[i].tones[j]
                                      IN  IF f \in DOMAIN v THEN v[f] ELSE "default"]]
==============================================================================
