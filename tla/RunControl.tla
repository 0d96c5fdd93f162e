----------------------------- MODULE RunControl -----------------------------
(***************************************************************************)
(* tools/command_executor/run_control.py: the state the evaluation loop    *)
(* polls.  Commands start and stop runs, the watchdog halts them, and only *)
(* a human at the terminal clears a halt.  The object lives in memory.     *)
(***************************************************************************)
EXTENDS Integers

VARIABLES
  runState,               \* RunState
  runId,                  \* the current run, or NoRun before the first
  halted,                 \* set by the watchdog, cleared at the terminal
  quarantinedCheckpoints  \* checkpoints set aside by halts

runVars == <<runState, runId, halted, quarantinedCheckpoints>>

\* PAUSED is a state of the code that none of its methods enters.
RunStates == {"IDLE", "RUNNING", "PAUSED", "DONE", "ERROR"}
Startable == {"IDLE", "DONE", "ERROR"}
Stoppable == {"RUNNING", "PAUSED"}

RunTypeOK(ids) ==
  /\ runState \in RunStates
  /\ runId \in ids
  /\ halted \in BOOLEAN
  /\ quarantinedCheckpoints \in Nat

RunInit(noRun) ==
  /\ runState = "IDLE"
  /\ runId = noRun
  /\ halted = FALSE
  /\ quarantinedCheckpoints = 0

Start(id) ==
  /\ ~halted
  /\ runState \in Startable
  /\ runState' = "RUNNING"
  /\ runId' = id
  /\ UNCHANGED <<halted, quarantinedCheckpoints>>

Stop ==
  /\ runState \in Stoppable
  /\ runState' = "DONE"
  /\ UNCHANGED <<runId, halted, quarantinedCheckpoints>>

\* Mutant: a halt quarantines the checkpoint and forgets to end the run.
HaltKeepsRunning(quarantine) ==
  /\ halted' = TRUE
  /\ quarantinedCheckpoints' = quarantinedCheckpoints + (IF quarantine THEN 1 ELSE 0)
  /\ UNCHANGED <<runState, runId>>

Halt(quarantine) ==
  /\ halted' = TRUE
  /\ runState' = IF runState \in Stoppable THEN "ERROR" ELSE runState
  /\ quarantinedCheckpoints' = quarantinedCheckpoints + (IF quarantine THEN 1 ELSE 0)
  /\ UNCHANGED runId

ClearHaltAtTerminal ==
  /\ halted' = FALSE
  /\ UNCHANGED <<runState, runId, quarantinedCheckpoints>>
=============================================================================
