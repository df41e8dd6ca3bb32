--------------------------- MODULE EventLoopProofs ---------------------------
(***************************************************************************)
(* Proofs about EventLoop, for any machine: any states, actions and        *)
(* transitions, any readings, timeouts and clock.                          *)
(***************************************************************************)
EXTENDS EventLoop, SequenceTheorems, TLAPS

(* The inductive invariant.                                                *)

\* current_state is dereferenced only where it is not nullptr.
NotNull == lpc \in {"enter", "call", "wait", "next"} => current \in States

\* How much of enter() has been executed, while it is executed ...
Entering ==
    lpc = "enter" =>
        /\ act <= Len(Actions[current]) + 1
        /\ Len(performed) = act - 1
        /\ \A i \in 1 .. act - 1 : performed[i] = Actions[current][i]

\* ... and afterwards, until the state is left.
Visited ==
    lpc \in {"call", "wait", "next"} =>
        previous = current /\ performed = Actions[current]

\* At the loop's condition, previous_state tells whether to enter the state.
Deciding ==
    lpc = "check" /\ current # NoState =>
        IF previous = current THEN performed = Actions[current]
                              ELSE performed = <<>>

IInv == TypeOK /\ NotNull /\ Entering /\ Visited /\ Deciding

------------------------------------------------------------------------------
(* Types.                                                                  *)

LEMMA TypeInit == Init => TypeOK
<1> SUFFICES ASSUME Init PROVE TypeOK
  OBVIOUS
<1>1. Chan!TypeOK
  BY DEF Init, Chan!Init, Chan!TypeOK
<1>2. elapsed \in Duration
  BY MachineAssumption DEF MachineAssumption, Init, Duration
<1>3. performed \in Seq(Action)
  BY DEF Init
<1>4. running \in BOOLEAN /\ asked \in BOOLEAN
  BY DEF Init
<1>5. /\ lpc \in LoopPC
      /\ current \in States \cup {NoState}
      /\ previous \in States \cup {NoState}
      /\ act \in Nat \ {0}
  BY DEF Init, LoopPC
<1> QED
  BY <1>1, <1>2, <1>3, <1>4, <1>5 DEF TypeOK

\* enter() is executed on a state, whose actions are a sequence.
LEMMA ActionsType ==
    ASSUME NEW s \in States
    PROVE  /\ Actions[s] \in Seq(Action)
           /\ Len(Actions[s]) \in Nat
           /\ DOMAIN Actions[s] = 1 .. Len(Actions[s])
BY MachineAssumption DEF MachineAssumption

LEMMA ChanTypeStep ==
    ASSUME Chan!TypeOK, Chan!Publish \/ Chan!Return(Loop)
                        \/ \E kind \in {"timed", "untimed"} : Chan!Call(Loop, kind)
    PROVE  Chan!TypeOK'
BY DEF Chan!TypeOK, Chan!Publish, Chan!Return, Chan!Call

LEMMA TypeStep == TypeOK /\ NotNull /\ [Next]_vars => TypeOK'
<1> SUFFICES ASSUME TypeOK, NotNull, [Next]_vars PROVE TypeOK'
  OBVIOUS
<1>u. UNCHANGED chan /\ Chan!TypeOK => Chan!TypeOK'
  BY DEF chan, Chan!TypeOK
<1> USE <1>u DEF TypeOK, LoopPC, place
<1>1. CASE Publish
  BY <1>1, ChanTypeStep DEF Publish
<1>2. CASE Stop
  BY <1>2 DEF Stop
<1>3. CASE Clock
  BY <1>3 DEF Clock, Duration
<1>4. ASSUME NEW s \in States \cup {NoState}, CallRun(s)
      PROVE  TypeOK'
  BY <1>4 DEF CallRun
<1>5. CASE SetRunning
  <2>1. Chan!TypeOK'
    BY <1>5 DEF SetRunning, Chan!TypeOK
  <2> QED
    BY <1>5, <2>1 DEF SetRunning
<1>6. CASE Check
  BY <1>6, MachineAssumption DEF Check, MachineAssumption, Duration
<1>7. CASE Act
  <2>1. Actions[current][act] \in Action
    BY <1>7, ActionsType DEF Act, NotNull
  <2>2. Append(performed, Actions[current][act]) \in Seq(Action)
    BY <2>1
  <2> QED
    BY <1>7, <2>2 DEF Act
<1>8. CASE Entered
  BY <1>8 DEF Entered
<1>9. CASE Call
  BY <1>9, ChanTypeStep DEF Call
<1>10. CASE Return
  BY <1>10, ChanTypeStep DEF Return
<1>11. CASE NextState
  BY <1>11 DEF NextState
<1>12. CASE Throw
  BY <1>12 DEF Throw
<1>13. CASE Exit
  BY <1>13 DEF Exit
<1>14. CASE UNCHANGED vars
  BY <1>14 DEF vars, chan
<1> QED
  BY <1>1, <1>2, <1>3, <1>4, <1>5, <1>6, <1>7, <1>8, <1>9, <1>10, <1>11,
     <1>12, <1>13, <1>14 DEF Next

------------------------------------------------------------------------------
(* The other parts of the invariant.                                       *)

LEMMA NotNullStep == TypeOK /\ NotNull /\ [Next]_vars => NotNull'
<1> SUFFICES ASSUME TypeOK, NotNull, [Next]_vars PROVE NotNull'
  OBVIOUS
<1> USE DEF TypeOK, NotNull, place
<1>1. CASE Publish
  BY <1>1 DEF Publish
<1>2. CASE Stop
  BY <1>2 DEF Stop
<1>3. CASE Clock
  BY <1>3 DEF Clock
<1>4. ASSUME NEW s \in States \cup {NoState}, CallRun(s)
      PROVE  NotNull'
  BY <1>4 DEF CallRun
<1>5. CASE SetRunning
  BY <1>5 DEF SetRunning
<1>6. CASE Check
  BY <1>6 DEF Check
<1>7. CASE Act
  BY <1>7 DEF Act
<1>8. CASE Entered
  BY <1>8 DEF Entered
<1>9. CASE Call
  BY <1>9 DEF Call
<1>10. CASE Return
  BY <1>10 DEF Return
<1>11. CASE NextState
  BY <1>11 DEF NextState
<1>12. CASE Throw
  BY <1>12 DEF Throw
<1>13. CASE Exit
  BY <1>13 DEF Exit
<1>14. CASE UNCHANGED vars
  BY <1>14 DEF vars
<1> QED
  BY <1>1, <1>2, <1>3, <1>4, <1>5, <1>6, <1>7, <1>8, <1>9, <1>10, <1>11,
     <1>12, <1>13, <1>14 DEF Next

LEMMA EnteringStep ==
    TypeOK /\ NotNull /\ Entering /\ Deciding /\ [Next]_vars => Entering'
<1> SUFFICES ASSUME TypeOK, NotNull, Entering, Deciding, [Next]_vars
             PROVE  Entering'
  OBVIOUS
<1> USE DEF Entering, place
<1>1. CASE Publish
  BY <1>1 DEF Publish
<1>2. CASE Stop
  BY <1>2 DEF Stop
<1>3. CASE Clock
  BY <1>3 DEF Clock
<1>4. ASSUME NEW s \in States \cup {NoState}, CallRun(s)
      PROVE  Entering'
  BY <1>4 DEF CallRun
<1>5. CASE SetRunning
  BY <1>5 DEF SetRunning
<1>6. CASE Check
  <2>1. SUFFICES ASSUME lpc' = "enter" PROVE Entering'
    OBVIOUS
  <2>2. act' = 1 /\ performed' = <<>> /\ current' = current /\ current \in States
    BY <1>6, <2>1 DEF Check, Deciding, TypeOK
  <2> QED
    BY <2>2, ActionsType
<1>7. CASE Act
  <2>1. /\ current \in States
        /\ act \in 1 .. Len(Actions[current])
        /\ performed \in Seq(Action)
        /\ Actions[current][act] \in Action
    BY <1>7, ActionsType DEF Act, NotNull, TypeOK
  <2>2. performed' = Append(performed, Actions[current][act])
    BY <1>7 DEF Act
  <2>3. Len(performed') = act /\ performed'[act] = Actions[current][act]
    BY <1>7, <2>1, <2>2, ActionsType DEF Act
  <2>4. \A i \in 1 .. act - 1 : performed'[i] = performed[i]
    BY <1>7, <2>1, <2>2 DEF Act
  <2>5. \A i \in 1 .. act : performed'[i] = Actions[current][i]
    BY <1>7, <2>1, <2>3, <2>4 DEF Act
  <2> QED
    BY <1>7, <2>1, <2>3, <2>5, ActionsType DEF Act
<1>8. CASE Entered
  BY <1>8 DEF Entered
<1>9. CASE Call
  BY <1>9 DEF Call
<1>10. CASE Return
  BY <1>10 DEF Return
<1>11. CASE NextState
  BY <1>11 DEF NextState
<1>12. CASE Throw
  BY <1>12 DEF Throw
<1>13. CASE Exit
  BY <1>13 DEF Exit
<1>14. CASE UNCHANGED vars
  BY <1>14 DEF vars
<1> QED
  BY <1>1, <1>2, <1>3, <1>4, <1>5, <1>6, <1>7, <1>8, <1>9, <1>10, <1>11,
     <1>12, <1>13, <1>14 DEF Next

LEMMA VisitedStep ==
    TypeOK /\ NotNull /\ Entering /\ Visited /\ Deciding /\ [Next]_vars
        => Visited'
<1> SUFFICES ASSUME TypeOK, NotNull, Entering, Visited, Deciding, [Next]_vars
             PROVE  Visited'
  OBVIOUS
<1> USE DEF Visited, place
<1>1. CASE Publish
  BY <1>1 DEF Publish
<1>2. CASE Stop
  BY <1>2 DEF Stop
<1>3. CASE Clock
  BY <1>3 DEF Clock
<1>4. ASSUME NEW s \in States \cup {NoState}, CallRun(s)
      PROVE  Visited'
  BY <1>4 DEF CallRun
<1>5. CASE SetRunning
  BY <1>5 DEF SetRunning
<1>6. CASE Check
  BY <1>6 DEF Check, Deciding
<1>7. CASE Act
  BY <1>7 DEF Act
<1>8. CASE Entered
  <2>1. current \in States /\ performed \in Seq(Action) /\ act \in Nat \ {0}
    BY <1>8 DEF Entered, NotNull, TypeOK
  <2>2. Len(performed) = Len(Actions[current])
    BY <1>8, <2>1, ActionsType DEF Entered, Entering
  <2>3. \A i \in 1 .. Len(performed) : performed[i] = Actions[current][i]
    BY <1>8 DEF Entered, Entering
  <2>4. performed = Actions[current]
    BY <2>1, <2>2, <2>3, ActionsType, SeqEqual
  <2> QED
    BY <1>8, <2>4 DEF Entered
<1>9. CASE Call
  BY <1>9 DEF Call
<1>10. CASE Return
  BY <1>10 DEF Return
<1>11. CASE NextState
  BY <1>11 DEF NextState
<1>12. CASE Throw
  BY <1>12 DEF Throw
<1>13. CASE Exit
  BY <1>13 DEF Exit
<1>14. CASE UNCHANGED vars
  BY <1>14 DEF vars
<1> QED
  BY <1>1, <1>2, <1>3, <1>4, <1>5, <1>6, <1>7, <1>8, <1>9, <1>10, <1>11,
     <1>12, <1>13, <1>14 DEF Next

LEMMA DecidingStep ==
    Visited /\ Deciding /\ [Next]_vars => Deciding'
<1> SUFFICES ASSUME Visited, Deciding, [Next]_vars PROVE Deciding'
  OBVIOUS
<1> USE DEF Deciding, place
<1>1. CASE Publish
  BY <1>1 DEF Publish
<1>2. CASE Stop
  BY <1>2 DEF Stop
<1>3. CASE Clock
  BY <1>3 DEF Clock
<1>4. ASSUME NEW s \in States \cup {NoState}, CallRun(s)
      PROVE  Deciding'
  BY <1>4 DEF CallRun
<1>5. CASE SetRunning
  BY <1>5 DEF SetRunning
<1>6. CASE Check
  BY <1>6 DEF Check
<1>7. CASE Act
  BY <1>7 DEF Act
<1>8. CASE Entered
  BY <1>8 DEF Entered
<1>9. CASE Call
  BY <1>9 DEF Call
<1>10. CASE Return
  BY <1>10 DEF Return
<1>11. CASE NextState
  BY <1>11 DEF NextState, Visited
<1>12. CASE Throw
  BY <1>12 DEF Throw
<1>13. CASE Exit
  BY <1>13 DEF Exit
<1>14. CASE UNCHANGED vars
  BY <1>14 DEF vars
<1> QED
  BY <1>1, <1>2, <1>3, <1>4, <1>5, <1>6, <1>7, <1>8, <1>9, <1>10, <1>11,
     <1>12, <1>13, <1>14 DEF Next

LEMMA InvInit == Init => IInv
BY TypeInit DEF Init, IInv, NotNull, Entering, Visited, Deciding

LEMMA InvStep == IInv /\ [Next]_vars => IInv'
BY TypeStep, NotNullStep, EnteringStep, VisitedStep, DecidingStep DEF IInv

LEMMA Invariance == Spec => []IInv
BY InvInit, InvStep, PTL DEF Spec

------------------------------------------------------------------------------
\* Every variable keeps its type, for any state machine.
THEOREM TypeCorrect == Spec => []TypeOK
<1>1. IInv => TypeOK
  BY DEF IInv
<1> QED
  BY <1>1, Invariance, PTL

\* Whatever the machine, the readings, the timing and the moment of stop(), the
\* loop never waits or decides in a state without having performed all actions
\* of the state exactly once, in order, since it was reached.
THEOREM ActionsOncePerVisitHolds == Spec => []ActionsOncePerVisit
<1>1. IInv => ActionsOncePerVisit
  BY DEF IInv, Visited, ActionsOncePerVisit
<1> QED
  BY <1>1, Invariance, PTL
==============================================================================
