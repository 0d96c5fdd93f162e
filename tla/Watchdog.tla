------------------------------ MODULE Watchdog ------------------------------
(***************************************************************************)
(* tools/watchdog/watchdog.py: a poll reads the detectors one after the    *)
(* other; what it finds while CLEAN starts the halt, four steps of which   *)
(* each may raise; only a human at the terminal leads back to CLEAN.       *)
(*                                                                         *)
(* A detector that can be read is seen at the time of the poll, so that    *)
(* the liveness timeout adds nothing to "the last read raised": down is    *)
(* the whole of what the code calls stale.                                 *)
(***************************************************************************)
EXTENDS Integers, Sequences, SequencesExt

CONSTANTS
  Detectors,   \* the detectors in the order they were given
  Suspicious,  \* those of severity SUSPICIOUS
  Unreliable,  \* the halt steps that may raise
  NoDetector,
  MaxClears    \* bound on clearings

VARIABLES
  dogState,       \* state
  indicator,
  firstDetector,
  lastTotal,      \* last_total, or NeverRead
  firing,         \* the detectors whose status is firing
  down,           \* the detectors whose status is down
  poll,           \* "waiting", "reading" or "halting"
  unread,         \* the detectors this poll has still to read
  fired,          \* this poll's fired
  toDo,           \* the steps of the halt still to take
  failures,       \* halt_failures
  clears          \* clearings so far

pollVars == <<poll, unread, fired>>
haltVars == <<dogState, indicator, firstDetector, toDo, failures>>
statusVars == <<lastTotal, firing, down>>
dogVars == <<pollVars, haltVars, statusVars, clears>>

DetectorIds == ToSet(Detectors)
HaltSteps   == <<"freeze", "sever", "checkpoint_and_halt", "preserve">>
NeverRead   == -1
Raises      == -2

ASSUME WatchdogAssumption ==
  /\ Detectors \in Seq(DetectorIds) /\ IsInjective(Detectors)
  /\ Suspicious \subseteq DetectorIds
  /\ Unreliable \subseteq ToSet(HaltSteps)
  /\ NoDetector \notin DetectorIds /\ "liveness" \notin DetectorIds
  /\ MaxClears \in Nat

WatchdogTypeOK ==
  /\ dogState \in {"CLEAN", "HALTING", "HALTED"}
  /\ indicator \in {"CLEAN", "SUSPICIOUS", "ESCAPE", "DETECTOR_DOWN"}
  /\ firstDetector \in DetectorIds \cup {"liveness", NoDetector}
  /\ lastTotal \in [DetectorIds -> Nat \cup {NeverRead}]
  /\ firing \subseteq DetectorIds
  /\ down \subseteq DetectorIds
  /\ poll \in {"waiting", "reading", "halting"}
  /\ unread \in Seq(DetectorIds)
  /\ fired \in Seq(DetectorIds)
  /\ toDo \in Seq(ToSet(HaltSteps))
  /\ failures \subseteq Unreliable
  /\ clears \in 0 .. MaxClears
  /\ (dogState = "HALTING") = (poll = "halting")

WatchdogInit ==
  /\ dogState = "CLEAN" /\ indicator = "CLEAN" /\ firstDetector = NoDetector
  /\ lastTotal = [d \in DetectorIds |-> NeverRead]
  /\ firing = {} /\ down = {}
  /\ poll = "waiting" /\ unread = << >> /\ fired = << >>
  /\ toDo = << >> /\ failures = {}
  /\ clears = 0

-----------------------------------------------------------------------------
BeginPoll ==
  /\ poll = "waiting"
  /\ poll' = "reading" /\ unread' = Detectors /\ fired' = << >>
  /\ UNCHANGED <<haltVars, statusVars, clears>>

\* Mutant: a single event is let pass.
FiresOnMany(d, total) == lastTotal[d] # NeverRead /\ total > lastTotal[d] + 1

\* The first reading is the baseline.
Fires(d, total) == lastTotal[d] # NeverRead /\ total > lastTotal[d]

\* d is the next detector and its total() raised, or returned a count.
Read(d, total) ==
  /\ poll = "reading" /\ unread # << >> /\ d = Head(unread)
  /\ unread' = Tail(unread)
  /\ IF total = Raises
     THEN /\ down' = down \cup {d}
          /\ UNCHANGED <<lastTotal, firing, fired>>
     ELSE /\ down' = down \ {d}
          /\ lastTotal' = [lastTotal EXCEPT ![d] = total]
          /\ firing' = IF Fires(d, total) THEN firing \cup {d} ELSE firing
          /\ fired' = IF Fires(d, total) THEN Append(fired, d) ELSE fired
  /\ UNCHANGED <<poll, haltVars, clears>>

\* _halt up to its first step.
StartHalt(detector, severity) ==
  /\ dogState' = "HALTING" /\ indicator' = severity /\ firstDetector' = detector
  /\ poll' = "halting" /\ toDo' = HaltSteps
  /\ UNCHANGED failures

Quiet == poll' = "waiting" /\ UNCHANGED haltVars

\* A detector that is down comes before one that fired; of these the first decides.
Decide ==
  /\ poll = "reading" /\ unread = << >>
  /\ \/ dogState = "CLEAN" /\ down # {} /\ StartHalt("liveness", "DETECTOR_DOWN")
     \/ dogState = "CLEAN" /\ down = {} /\ fired # << >>
        /\ StartHalt(Head(fired), IF Head(fired) \in Suspicious THEN "SUSPICIOUS" ELSE "ESCAPE")
     \/ /\ dogState # "CLEAN" \/ (down = {} /\ fired = << >>)
        /\ Quiet
  /\ UNCHANGED <<unread, fired, statusVars, clears>>

\* Mutant: the halt never says that it is done.
HaltStepUnfinished(step, ok) ==
  /\ poll = "halting" /\ step = Head(toDo)
  /\ toDo' = Tail(toDo)
  /\ failures' = IF ok THEN failures ELSE failures \cup {step}
  /\ poll' = IF toDo' = << >> THEN "waiting" ELSE poll
  /\ UNCHANGED <<dogState, indicator, firstDetector, unread, fired, statusVars, clears>>

\* Mutant: a step that raises ends the halt.
StepEndsHalt(step, ok) ==
  /\ poll = "halting" /\ step = Head(toDo)
  /\ toDo' = IF ok THEN Tail(toDo) ELSE << >>
  /\ failures' = IF ok THEN failures ELSE failures \cup {step}
  /\ IF toDo' = << >> THEN dogState' = "HALTED" /\ poll' = "waiting" ELSE UNCHANGED <<dogState, poll>>
  /\ UNCHANGED <<indicator, firstDetector, unread, fired, statusVars, clears>>

\* The next step of the halt, which raises or not; after the last one it is HALTED.
HaltStep(step, ok) ==
  /\ poll = "halting" /\ step = Head(toDo)
  /\ toDo' = Tail(toDo)
  /\ failures' = IF ok THEN failures ELSE failures \cup {step}
  /\ IF toDo' = << >> THEN dogState' = "HALTED" /\ poll' = "waiting" ELSE UNCHANGED <<dogState, poll>>
  /\ UNCHANGED <<indicator, firstDetector, unread, fired, statusVars, clears>>

\* Mutant: what the detectors found is kept.
ClearKeepsStatus ==
  /\ clears < MaxClears
  /\ dogState = "HALTED"
  /\ dogState' = "CLEAN" /\ indicator' = "CLEAN" /\ firstDetector' = NoDetector
  /\ clears' = clears + 1
  /\ UNCHANGED <<pollVars, toDo, failures, statusVars>>

ClearAtTerminal ==
  /\ clears < MaxClears
  /\ dogState = "HALTED"
  /\ dogState' = "CLEAN" /\ indicator' = "CLEAN" /\ firstDetector' = NoDetector
  /\ firing' = {} /\ down' = {}
  /\ clears' = clears + 1
  /\ UNCHANGED <<pollVars, toDo, failures, lastTotal>>

-----------------------------------------------------------------------------
\* Between two polls CLEAN means that no detector has fired or gone down since the
\* watchdog was last cleared: nothing was found and passed over, whether it was found
\* in a poll beside something else, or while a human was clearing.
CleanIsClean ==
  dogState = "CLEAN" /\ poll = "waiting" => firing = {} /\ down = {}
=============================================================================
