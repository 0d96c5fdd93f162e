------------------------------ MODULE HaltPath ------------------------------
(***************************************************************************)
(* The watchdog with what it reads and what it stops: the detectors' own   *)
(* counts, the reference halt actions (ReferenceHaltActions in             *)
(* tools/watchdog/watchdog.py), the brokers' gate and run control, as      *)
(* scripts/run_eval_demo.py composes them.  Sources, commands and the      *)
(* human at the terminal act at any time, also in the middle of a poll.    *)
(***************************************************************************)
EXTENDS Watchdog, RunControl

CONSTANTS
  Breakable,    \* the detectors whose total() may raise
  Restartable,  \* those over a counter that may start again at zero
  MaxTotal,     \* bound on a count
  RunIds,
  NoRun

VARIABLES
  total,      \* detector -> what its total() would return
  broken,     \* the detectors whose total() would raise
  restarted,  \* history: the detectors whose count has started again
  severed,    \* gate.severed
  released    \* history: run control was cleared after it was last halted

sourceVars == <<total, broken, restarted>>
vars == <<dogVars, runVars, sourceVars, severed, released>>

ASSUME HaltPathAssumption ==
  /\ Breakable \subseteq DetectorIds
  /\ Restartable \subseteq DetectorIds
  /\ MaxTotal \in Nat
  /\ NoRun \notin RunIds

TypeOK ==
  /\ WatchdogTypeOK
  /\ RunTypeOK(RunIds \cup {NoRun})
  /\ total \in [DetectorIds -> Nat]
  /\ broken \subseteq Breakable
  /\ restarted \subseteq Restartable
  /\ severed \in BOOLEAN
  /\ released \in BOOLEAN

Init ==
  /\ WatchdogInit
  /\ RunInit(NoRun)
  /\ total = [d \in DetectorIds |-> 0] /\ broken = {} /\ restarted = {}
  /\ severed = FALSE
  /\ released = FALSE

-----------------------------------------------------------------------------
Counts(d) ==
  /\ total[d] < MaxTotal
  /\ total' = [total EXCEPT ![d] = @ + 1]
  /\ UNCHANGED <<broken, restarted>>

Breaks(d) == d \in Breakable \ broken /\ broken' = broken \cup {d} /\ UNCHANGED <<total, restarted>>
Heals(d)  == d \in broken /\ broken' = broken \ {d} /\ UNCHANGED <<total, restarted>>

StartsAgain(d) ==
  /\ d \in Restartable \ restarted
  /\ total' = [total EXCEPT ![d] = 0]
  /\ restarted' = restarted \cup {d}
  /\ UNCHANGED broken

Sources ==
  /\ \E d \in DetectorIds : Counts(d) \/ Breaks(d) \/ Heals(d) \/ StartsAgain(d)
  /\ UNCHANGED <<dogVars, runVars, severed, released>>

\* freeze is severing the gate, and so is sever; the gate has no way back.
Sever(step, ok) == severed' = (severed \/ (ok /\ step \in {"freeze", "sever"}))

TakeHaltStep(ok) ==
  /\ poll = "halting"
  /\ ok \/ Head(toDo) \in Unreliable
  /\ HaltStep(Head(toDo), ok)
  /\ Sever(Head(toDo), ok)
  /\ IF ok /\ Head(toDo) = "checkpoint_and_halt"
     THEN Halt(TRUE) /\ released' = FALSE
     ELSE UNCHANGED <<runVars, released>>

Polling ==
  /\ \/ BeginPoll
     \/ \E d \in DetectorIds : Read(d, IF d \in broken THEN Raises ELSE total[d])
     \/ Decide
  /\ UNCHANGED <<runVars, severed, released>>

WatchdogStep ==
  /\ Polling \/ \E ok \in BOOLEAN : TakeHaltStep(ok)
  /\ UNCHANGED sourceVars

CommandStep ==
  /\ Stop \/ \E id \in RunIds : Start(id)
  /\ UNCHANGED <<dogVars, sourceVars, severed, released>>

\* A human at the terminal clears the watchdog, or run control: two calls, in either
\* order, or only one of them.
TerminalStep ==
  /\ \/ ClearAtTerminal /\ UNCHANGED <<runVars, released>>
     \/ halted /\ ClearHaltAtTerminal /\ released' = TRUE /\ UNCHANGED dogVars
  /\ UNCHANGED <<sourceVars, severed>>

Next == Sources \/ WatchdogStep \/ CommandStep \/ TerminalStep

Spec == Init /\ [][Next]_vars

\* The watchdog polls again and again, and a poll goes on to its end.
FairSpec == Spec /\ WF_vars(WatchdogStep)

-----------------------------------------------------------------------------
\* Whichever steps raised, the halt went through all the others: the gate is severed
\* if either of the two steps that sever it went well, and the run is halted and not
\* running, unless a human has cleared run control since.
HaltTakesHold ==
  dogState = "HALTED" =>
    /\ {"freeze", "sever"} \subseteq failures \/ severed
    /\ "checkpoint_and_halt" \in failures \/ released \/ (halted /\ runState \notin Stoppable)

\* A count above the last one read.
Pending(d) == lastTotal[d] # NeverRead /\ total[d] > lastTotal[d]

\* "Halt first, report second": an event after the first poll, of any severity, and a
\* detector that can no longer be read end in HALTED, in whatever order events, polls
\* and clearings come.  A count that starts again at zero may take its events with it.
TroubleHalts ==
  \A d \in DetectorIds :
    /\ Pending(d) ~> dogState = "HALTED" \/ d \in restarted
    /\ d \in broken ~> dogState = "HALTED" \/ d \notin broken
=============================================================================
