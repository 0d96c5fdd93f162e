--------------------------- MODULE HaltPathProofs ---------------------------
(***************************************************************************)
(* Theorems about the watchdog and its halt path, for any detectors, any   *)
(* steps of the halt that may raise, and any number of events, commands    *)
(* and clearings.                                                          *)
(***************************************************************************)
EXTENDS HaltPath, SequenceTheorems, TLAPS

AfterFreeze     == <<"sever", "checkpoint_and_halt", "preserve">>
AfterSever      == <<"checkpoint_and_halt", "preserve">>
AfterCheckpoint == <<"preserve">>

\* What a halt still has to do is an end of its four steps, and not nothing.
Remaining == {HaltSteps, AfterFreeze, AfterSever, AfterCheckpoint, << >>}
HaltGoesOn ==
  /\ toDo \in Remaining
  /\ poll = "halting" => toDo # << >>

\* Taking a step leaves the next end of the four steps.
LEMMA StepsInOrder ==
  /\ Head(HaltSteps) = "freeze" /\ Tail(HaltSteps) = AfterFreeze
  /\ Head(AfterFreeze) = "sever" /\ Tail(AfterFreeze) = AfterSever
  /\ Head(AfterSever) = "checkpoint_and_halt" /\ Tail(AfterSever) = AfterCheckpoint
  /\ Head(AfterCheckpoint) = "preserve" /\ Tail(AfterCheckpoint) = << >>
BY DEF HaltSteps, AfterFreeze, AfterSever, AfterCheckpoint

\* The five ends differ, by their lengths.
LEMMA StepsDiffer ==
  /\ HaltSteps \notin {AfterFreeze, AfterSever, AfterCheckpoint, << >>}
  /\ AfterFreeze \notin {AfterSever, AfterCheckpoint, << >>}
  /\ AfterSever \notin {AfterCheckpoint, << >>}
  /\ AfterCheckpoint # << >>
<1>1. /\ Len(HaltSteps) = 4 /\ Len(AfterFreeze) = 3 /\ Len(AfterSever) = 2
      /\ Len(AfterCheckpoint) = 1 /\ Len(<< >>) = 0
  BY DEF HaltSteps, AfterFreeze, AfterSever, AfterCheckpoint
<1>2. HaltSteps # AfterFreeze /\ HaltSteps # AfterSever
  BY <1>1
<1>3. HaltSteps # AfterCheckpoint /\ HaltSteps # << >>
  BY <1>1
<1>4. AfterFreeze \notin {AfterSever, AfterCheckpoint, << >>}
  BY <1>1
<1>5. AfterSever \notin {AfterCheckpoint, << >>} /\ AfterCheckpoint # << >>
  BY <1>1
<1> QED
  BY <1>2, <1>3, <1>4, <1>5

\* Each of them is a sequence of halt steps.
LEMMA RemainingType == Remaining \subseteq Seq(ToSet(HaltSteps))
<1>1. ToSet(HaltSteps) = {"freeze", "sever", "checkpoint_and_halt", "preserve"}
  BY DEF ToSet, HaltSteps
<1> QED
  BY <1>1 DEF Remaining, HaltSteps, AfterFreeze, AfterSever, AfterCheckpoint

\* The detectors are a sequence of detectors.
LEMMA DetectorsType == Detectors \in Seq(DetectorIds)
BY WatchdogAssumption

\* Where the types hold in the initial state.
LEMMA TypeInit == Init => TypeOK /\ HaltGoesOn
<1> SUFFICES ASSUME Init PROVE TypeOK /\ HaltGoesOn
  OBVIOUS
<1>1. RunTypeOK(RunIds \cup {NoRun})
  BY DEF Init, RunInit, RunTypeOK, RunStates
<1>2. toDo = << >> /\ toDo \in Remaining
  BY DEF Init, WatchdogInit, Remaining
<1>3. WatchdogTypeOK
  BY <1>2, RemainingType, WatchdogAssumption DEF Init, WatchdogInit, WatchdogTypeOK, NeverRead
<1> QED
  BY <1>1, <1>2, <1>3 DEF Init, WatchdogInit, TypeOK, HaltGoesOn

\* A poll keeps the types of the watchdog, and begins a halt at its first step.
LEMMA PollingType ==
  ASSUME WatchdogTypeOK, HaltGoesOn, total \in [DetectorIds -> Nat],
         Polling
  PROVE  WatchdogTypeOK' /\ HaltGoesOn'
<1> USE DEF WatchdogTypeOK, HaltGoesOn, haltVars, statusVars, pollVars
<1>1. CASE BeginPoll
  BY <1>1, DetectorsType DEF BeginPoll
<1>2. ASSUME NEW d \in DetectorIds,
             Read(d, IF d \in broken THEN Raises ELSE total[d])
      PROVE  WatchdogTypeOK' /\ HaltGoesOn'
  <2> DEFINE n == IF d \in broken THEN Raises ELSE total[d]
  <2>1. Tail(unread) \in Seq(DetectorIds)
    BY <1>2 DEF Read
  <2>2. unread' \in Seq(DetectorIds)
    BY <1>2, <2>1 DEF Read
  <2>3. n # Raises => n \in Nat
    BY DEF Raises
  <2> HIDE DEF n
  <2>4. Read(d, n)
    BY <1>2 DEF n
  <2>5. CASE n = Raises
    BY <2>2, <2>4, <2>5 DEF Read
  <2>6. CASE n # Raises
    <3>1. fired' \in Seq(DetectorIds)
      <4>1. Append(fired, d) \in Seq(DetectorIds)
        OBVIOUS
      <4> QED
        BY <2>4, <2>6, <4>1 DEF Read
    <3>2. lastTotal' \in [DetectorIds -> Nat \cup {NeverRead}]
      BY <2>3, <2>4, <2>6 DEF Read
    <3>3. firing' \subseteq DetectorIds /\ down' \subseteq DetectorIds
      BY <2>4, <2>6 DEF Read
    <3> QED
      BY <2>2, <2>4, <3>1, <3>2, <3>3 DEF Read
  <2> QED
    BY <2>5, <2>6
<1>3. CASE Decide
  <2>1. ASSUME NEW x, NEW severity \in {"SUSPICIOUS", "ESCAPE", "DETECTOR_DOWN"},
               x \in DetectorIds \cup {"liveness"}, StartHalt(x, severity),
               UNCHANGED <<unread, fired, statusVars, clears>>
        PROVE  WatchdogTypeOK' /\ HaltGoesOn'
    <3>1. toDo' = HaltSteps /\ HaltSteps \in Remaining
      BY <2>1 DEF StartHalt, Remaining
    <3>2. toDo' \in Seq(ToSet(HaltSteps)) /\ toDo' # << >>
      BY <3>1, RemainingType, StepsDiffer
    <3> QED
      BY <2>1, <3>1, <3>2 DEF StartHalt
  <2>2. CASE StartHalt("liveness", "DETECTOR_DOWN")
    BY <1>3, <2>1, <2>2 DEF Decide
  <2>3. CASE fired # << >> /\ StartHalt(Head(fired), IF Head(fired) \in Suspicious THEN "SUSPICIOUS" ELSE "ESCAPE")
    <3>1. Head(fired) \in DetectorIds
      BY <2>3
    <3> QED
      BY <1>3, <2>1, <2>3, <3>1 DEF Decide
  <2>4. CASE Quiet
    BY <1>3, <2>4 DEF Decide, Quiet
  <2> QED
    BY <1>3, <2>2, <2>3, <2>4 DEF Decide
<1> QED
  BY <1>1, <1>2, <1>3 DEF Polling

\* So does a step of the halt, after which the rest is still to do.
LEMMA HaltStepType ==
  ASSUME WatchdogTypeOK, HaltGoesOn, NEW ok \in BOOLEAN, TakeHaltStep(ok)
  PROVE  WatchdogTypeOK' /\ HaltGoesOn'
<1> USE DEF WatchdogTypeOK, HaltGoesOn
<1>1. toDo \in Remaining \ {<< >>} /\ poll = "halting" /\ HaltStep(Head(toDo), ok)
  BY DEF TakeHaltStep
<1>2. Tail(toDo) \in Remaining
  BY <1>1, StepsInOrder DEF Remaining
<1>3. toDo' \in Remaining /\ toDo' \in Seq(ToSet(HaltSteps))
  BY <1>1, <1>2, RemainingType DEF HaltStep
<1>4. failures' \subseteq Unreliable
  BY <1>1 DEF HaltStep, TakeHaltStep
<1>5. CASE toDo' = << >>
  BY <1>1, <1>3, <1>4, <1>5 DEF HaltStep, statusVars
<1>6. CASE toDo' # << >>
  BY <1>1, <1>3, <1>4, <1>6 DEF HaltStep, statusVars
<1> QED
  BY <1>5, <1>6

\* Every step keeps the types.
LEMMA TypeNext == TypeOK /\ HaltGoesOn /\ [Next]_vars => TypeOK' /\ HaltGoesOn'
<1> SUFFICES ASSUME TypeOK, HaltGoesOn, [Next]_vars PROVE TypeOK' /\ HaltGoesOn'
  OBVIOUS
<1>1. CASE Sources
  <2>1. WatchdogTypeOK' /\ HaltGoesOn' /\ RunTypeOK(RunIds \cup {NoRun})'
    BY <1>1 DEF Sources, TypeOK, WatchdogTypeOK, HaltGoesOn, RunTypeOK, dogVars, pollVars, haltVars,
                statusVars, runVars
  <2>2. total' \in [DetectorIds -> Nat] /\ broken' \subseteq Breakable /\ restarted' \subseteq Restartable
    BY <1>1 DEF Sources, TypeOK, Counts, Breaks, Heals, StartsAgain
  <2> QED
    BY <1>1, <2>1, <2>2 DEF Sources, TypeOK
<1>2. CASE WatchdogStep
  <2>1. UNCHANGED sourceVars
    BY <1>2 DEF WatchdogStep
  <2>2. CASE Polling
    <3>1. WatchdogTypeOK' /\ HaltGoesOn'
      BY <2>2, PollingType DEF TypeOK
    <3> QED
      BY <2>1, <2>2, <3>1 DEF TypeOK, Polling, RunTypeOK, runVars, sourceVars
  <2>3. ASSUME NEW ok \in BOOLEAN, TakeHaltStep(ok)
        PROVE  TypeOK' /\ HaltGoesOn'
    <3>1. WatchdogTypeOK' /\ HaltGoesOn'
      BY <2>3, HaltStepType DEF TypeOK
    <3>2. RunTypeOK(RunIds \cup {NoRun})' /\ released' \in BOOLEAN
      <4>1. CASE ok /\ Head(toDo) = "checkpoint_and_halt"
        <5>1. Halt(TRUE) /\ released' = FALSE
          BY <2>3, <4>1 DEF TakeHaltStep, Halt
        <5>2. quarantinedCheckpoints' = quarantinedCheckpoints + 1
          BY <5>1 DEF Halt
        <5>3. runState' \in RunStates /\ runId' = runId /\ halted' = TRUE
          BY <5>1 DEF Halt, TypeOK, RunTypeOK, RunStates
        <5>4. quarantinedCheckpoints' \in Nat
          BY <5>2 DEF TypeOK, RunTypeOK
        <5> QED
          BY <5>1, <5>3, <5>4 DEF TypeOK, RunTypeOK
      <4>2. CASE ~(ok /\ Head(toDo) = "checkpoint_and_halt")
        BY <2>3, <4>2 DEF TakeHaltStep, TypeOK, RunTypeOK, runVars
      <4> QED
        BY <4>1, <4>2
    <3>3. severed' \in BOOLEAN
      BY <2>3 DEF TakeHaltStep, Sever, TypeOK
    <3> QED
      BY <2>1, <3>1, <3>2, <3>3 DEF TypeOK, sourceVars
  <2> QED
    BY <1>2, <2>2, <2>3 DEF WatchdogStep
<1>3. CASE CommandStep
  <2>1. RunTypeOK(RunIds \cup {NoRun})'
    BY <1>3 DEF CommandStep, TypeOK, RunTypeOK, Start, Stop, RunStates
  <2>2. WatchdogTypeOK' /\ HaltGoesOn'
    BY <1>3 DEF CommandStep, TypeOK, WatchdogTypeOK, HaltGoesOn, dogVars, pollVars, haltVars, statusVars
  <2> QED
    BY <1>3, <2>1, <2>2 DEF CommandStep, TypeOK, sourceVars
<1>4. CASE TerminalStep
  <2>1. CASE ClearAtTerminal /\ UNCHANGED <<runVars, released>>
    <3>1. WatchdogTypeOK' /\ HaltGoesOn'
      BY <2>1, WatchdogAssumption DEF ClearAtTerminal, TypeOK, WatchdogTypeOK, HaltGoesOn, pollVars
    <3> QED
      BY <1>4, <2>1, <3>1 DEF TerminalStep, TypeOK, RunTypeOK, runVars, sourceVars
  <2>2. CASE ClearHaltAtTerminal /\ released' = TRUE /\ UNCHANGED dogVars
    <3>1. WatchdogTypeOK' /\ HaltGoesOn'
      BY <2>2 DEF TypeOK, WatchdogTypeOK, HaltGoesOn, dogVars, pollVars, haltVars, statusVars
    <3> QED
      BY <1>4, <2>2, <3>1 DEF TerminalStep, TypeOK, RunTypeOK, ClearHaltAtTerminal, sourceVars
  <2> QED
    BY <1>4, <2>1, <2>2 DEF TerminalStep
<1>5. CASE UNCHANGED vars
  BY <1>5 DEF vars, TypeOK, WatchdogTypeOK, HaltGoesOn, RunTypeOK, dogVars, pollVars, haltVars, statusVars,
              runVars, sourceVars
<1> QED
  BY <1>1, <1>2, <1>3, <1>4, <1>5 DEF Next

\* The watchdog and its halt path keep their types, for any detectors and any number of
\* events, commands and clearings.
THEOREM TypeCorrect == Spec => []TypeOK
<1>1. Spec => [](TypeOK /\ HaltGoesOn)
  BY TypeInit, TypeNext, PTL DEF Spec
<1> QED
  BY <1>1, PTL

-----------------------------------------------------------------------------
\* What the steps of the halt already taken have left, which nothing but a human clears.
Cut    == "sever" \in failures \/ severed
Frozen == "freeze" \in failures \/ severed
Ended  == "checkpoint_and_halt" \in failures \/ released \/ (halted /\ runState \notin Stoppable)
HoldsSoFar ==
  /\ dogState = "HALTED" => toDo = << >>
  /\ dogState # "CLEAN" /\ toDo # HaltSteps => Frozen
  /\ dogState # "CLEAN" /\ toDo \notin {HaltSteps, AfterFreeze} => Cut
  /\ dogState # "CLEAN" /\ toDo \notin {HaltSteps, AfterFreeze, AfterSever} => Ended

\* A step of the halt leaves its own mark, or its failure, and keeps those before it.
LEMMA HaltStepHolds ==
  ASSUME TypeOK, HaltGoesOn, HoldsSoFar, NEW ok \in BOOLEAN, TakeHaltStep(ok)
  PROVE  HoldsSoFar'
<1>1. /\ poll = "halting" /\ dogState = "HALTING" /\ toDo \in Remaining \ {<< >>}
      /\ toDo' = Tail(toDo) /\ HaltStep(Head(toDo), ok)
  BY DEF TakeHaltStep, HaltStep, TypeOK, WatchdogTypeOK, HaltGoesOn
<1>2. failures \subseteq failures' /\ (~ok => Head(toDo) \in failures')
  BY <1>1 DEF HaltStep
<1>3. (severed => severed') /\ (ok /\ Head(toDo) \in {"freeze", "sever"} => severed')
  BY DEF TakeHaltStep, Sever
<1>4. dogState' = "HALTED" => toDo' = << >>
  BY <1>1 DEF HaltStep
<1>5. Frozen => Frozen'
  BY <1>2, <1>3 DEF Frozen
<1>6. Cut => Cut'
  BY <1>2, <1>3 DEF Cut
<1>7. Ended => Ended'
  <2>1. CASE ok /\ Head(toDo) = "checkpoint_and_halt"
    BY <2>1 DEF TakeHaltStep, Halt, Ended, Stoppable
  <2>2. CASE ~(ok /\ Head(toDo) = "checkpoint_and_halt")
    <3>1. UNCHANGED <<runVars, released>>
      BY <2>2 DEF TakeHaltStep
    <3> QED
      BY <1>2, <3>1 DEF Ended, runVars
  <2> QED
    BY <2>1, <2>2
<1>8. CASE toDo = HaltSteps
  <2>1. Head(toDo) = "freeze" /\ toDo' = AfterFreeze
    BY <1>1, <1>8, StepsInOrder
  <2>2. Frozen'
    BY <1>2, <1>3, <2>1 DEF Frozen
  <2> QED
    BY <1>4, <2>1, <2>2 DEF HoldsSoFar
<1>9. CASE toDo = AfterFreeze
  <2>1. Head(toDo) = "sever" /\ toDo' = AfterSever
    BY <1>1, <1>9, StepsInOrder
  <2>2. Cut'
    BY <1>2, <1>3, <2>1 DEF Cut
  <2>3. Frozen
    BY <1>1, <1>9, StepsDiffer DEF HoldsSoFar
  <2> QED
    BY <1>4, <1>5, <2>1, <2>2, <2>3 DEF HoldsSoFar
<1>10. CASE toDo = AfterSever
  <2>1. Head(toDo) = "checkpoint_and_halt" /\ toDo' = AfterCheckpoint
    BY <1>1, <1>10, StepsInOrder
  <2>2. Ended'
    <3>1. CASE ok
      BY <2>1, <3>1 DEF TakeHaltStep, Halt, Ended, Stoppable
    <3>2. CASE ~ok
      BY <1>2, <2>1, <3>2 DEF Ended
    <3> QED
      BY <3>1, <3>2
  <2>3. Frozen /\ Cut
    BY <1>1, <1>10, StepsDiffer DEF HoldsSoFar
  <2> QED
    BY <1>4, <1>5, <1>6, <2>1, <2>2, <2>3 DEF HoldsSoFar
<1>11. CASE toDo = AfterCheckpoint
  <2>1. Frozen /\ Cut /\ Ended
    BY <1>1, <1>11, StepsDiffer DEF HoldsSoFar
  <2> QED
    BY <1>4, <1>5, <1>6, <1>7, <2>1 DEF HoldsSoFar
<1> QED
  BY <1>1, <1>8, <1>9, <1>10, <1>11 DEF Remaining

\* Every step keeps what the halt has done so far.
LEMMA HoldsNext == TypeOK /\ HaltGoesOn /\ HoldsSoFar /\ [Next]_vars => HoldsSoFar'
<1> SUFFICES ASSUME TypeOK, HaltGoesOn, HoldsSoFar, [Next]_vars PROVE HoldsSoFar'
  OBVIOUS
<1>1. CASE Sources
  BY <1>1 DEF Sources, HoldsSoFar, Frozen, Cut, Ended, dogVars, haltVars, runVars
<1>2. CASE WatchdogStep
  <2>1. CASE Polling
    <3>1. UNCHANGED <<failures, severed, released, runVars>>
      BY <2>1 DEF Polling, BeginPoll, Read, Decide, StartHalt, Quiet, haltVars
    <3>2. \/ dogState' = dogState /\ toDo' = toDo
          \/ dogState' = "HALTING" /\ toDo' = HaltSteps
      BY <2>1 DEF Polling, BeginPoll, Read, Decide, StartHalt, Quiet, haltVars
    <3> QED
      BY <3>1, <3>2 DEF HoldsSoFar, Frozen, Cut, Ended, runVars
  <2>2. ASSUME NEW ok \in BOOLEAN, TakeHaltStep(ok) PROVE HoldsSoFar'
    BY <2>2, HaltStepHolds
  <2> QED
    BY <1>2, <2>1, <2>2 DEF WatchdogStep
<1>3. CASE CommandStep
  BY <1>3 DEF CommandStep, Start, Stop, Stoppable, HoldsSoFar, Frozen, Cut, Ended, dogVars, haltVars
<1>4. CASE TerminalStep
  <2>1. CASE ClearAtTerminal
    BY <2>1 DEF ClearAtTerminal, HoldsSoFar
  <2>2. CASE released' = TRUE /\ UNCHANGED dogVars
    BY <1>4, <2>2 DEF TerminalStep, HoldsSoFar, Frozen, Cut, Ended, dogVars, haltVars
  <2> QED
    BY <1>4, <2>1, <2>2 DEF TerminalStep
<1>5. CASE UNCHANGED vars
  BY <1>5 DEF vars, HoldsSoFar, Frozen, Cut, Ended, dogVars, haltVars, runVars
<1> QED
  BY <1>1, <1>2, <1>3, <1>4, <1>5 DEF Next

\* Whichever steps of a halt raise, and whatever commands, events and polls come in
\* between, the others have taken hold when it is HALTED.
THEOREM HaltsTakeHold == Spec => []HaltTakesHold
<1>1. Init => HoldsSoFar
  BY DEF Init, WatchdogInit, HoldsSoFar
<1>2. HoldsSoFar => HaltTakesHold
  <2>1. << >> \notin {HaltSteps, AfterFreeze, AfterSever}
    BY StepsDiffer
  <2> QED
    BY <2>1 DEF HoldsSoFar, HaltTakesHold, Frozen, Cut, Ended
<1>3. Spec => [](TypeOK /\ HaltGoesOn)
  BY TypeInit, TypeNext, PTL DEF Spec
<1> QED
  BY <1>1, <1>2, <1>3, HoldsNext, PTL DEF Spec

-----------------------------------------------------------------------------
\* In CLEAN, what is firing was found by the poll that is going on.
FoundNow ==
  /\ CleanIsClean
  /\ dogState = "CLEAN" /\ poll = "reading" /\ firing # {} => fired # << >>

\* Every step keeps that, clearing in the middle of a poll included.
LEMMA FoundNowNext == TypeOK /\ FoundNow /\ [Next]_vars => FoundNow'
<1> SUFFICES ASSUME TypeOK, FoundNow, [Next]_vars PROVE FoundNow'
  OBVIOUS
<1> USE DEF FoundNow, CleanIsClean
<1>1. CASE Sources
  BY <1>1 DEF Sources, dogVars, pollVars, haltVars, statusVars
<1>2. CASE WatchdogStep
  <2>1. CASE BeginPoll
    BY <2>1 DEF BeginPoll, haltVars, statusVars
  <2>2. ASSUME NEW d \in DetectorIds, NEW n, Read(d, n) PROVE FoundNow'
    <3>1. poll' = "reading" /\ dogState' = dogState /\ poll = "reading"
      BY <2>2 DEF Read, haltVars
    <3>2. CASE n = Raises \/ ~Fires(d, n)
      BY <2>2, <3>1, <3>2 DEF Read
    <3>3. CASE n # Raises /\ Fires(d, n)
      <4>1. fired' = Append(fired, d)
        BY <2>2, <3>3 DEF Read
      <4>2. fired' # << >>
        <5>1. fired \in Seq(DetectorIds)
          BY DEF TypeOK, WatchdogTypeOK
        <5>2. Len(fired') = Len(fired) + 1 /\ Len(fired) \in Nat
          BY <4>1, <5>1, AppendProperties
        <5> QED
          BY <5>2
      <4> QED
        BY <3>1, <4>2
    <3> QED
      BY <3>2, <3>3
  <2>3. CASE Decide
    BY <2>3 DEF Decide, StartHalt, Quiet, haltVars, statusVars
  <2>4. ASSUME NEW ok \in BOOLEAN, TakeHaltStep(ok) PROVE FoundNow'
    BY <2>4 DEF TakeHaltStep, HaltStep, TypeOK, WatchdogTypeOK, statusVars
  <2> QED
    BY <1>2, <2>1, <2>2, <2>3, <2>4 DEF WatchdogStep, Polling
<1>3. CASE CommandStep
  BY <1>3 DEF CommandStep, dogVars, pollVars, haltVars, statusVars
<1>4. CASE TerminalStep
  BY <1>4 DEF TerminalStep, ClearAtTerminal, dogVars, pollVars, haltVars, statusVars
<1>5. CASE UNCHANGED vars
  BY <1>5 DEF vars, dogVars, pollVars, haltVars, statusVars
<1> QED
  BY <1>1, <1>2, <1>3, <1>4, <1>5 DEF Next

\* Between two polls of a watchdog that is CLEAN, no detector has fired or gone down
\* since it was last cleared.
THEOREM NothingPassedOver == Spec => []CleanIsClean
<1>1. Init => FoundNow
  BY DEF Init, WatchdogInit, FoundNow, CleanIsClean
<1>2. FoundNow => CleanIsClean
  BY DEF FoundNow
<1> QED
  BY <1>1, <1>2, FoundNowNext, TypeCorrect, PTL DEF Spec
=============================================================================
