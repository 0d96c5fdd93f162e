---------------------------- MODULE ControlPlane ----------------------------
(***************************************************************************)
(* The receiver, the command executor (tools/command_executor/executor.py),*)
(* the run control and the site registry, composed as scripts/run_demo.py  *)
(* composes them: one process, sharing one registry object, receives an    *)
(* archive, executes a command or runs the worker, in turn; the one-way    *)
(* transport delivers any archive at any time; the watchdog and the human  *)
(* act from outside; the process may die between any two steps.            *)
(*                                                                         *)
(* Executing a command is two steps: apply it, then remove it from the     *)
(* inbox.  A process that dies in between finds the command again.         *)
(***************************************************************************)
EXTENDS Receiver, SiteRegistry, RunControl

CONSTANTS
  RotationKeys,    \* rotation_key_ids: the keys that may sign a rotation
  MaxCrashes,      \* bound on restarts
  MaxHalts         \* bound on watchdog halts

VARIABLES
  executing,   \* the command applied and not yet removed from the inbox, or None
  lastRun,     \* history: key id -> the sequence of its last command applied, or NoMark
  crashes,     \* restarts so far
  haltWaits    \* history: whether the last halt waits for the human

execVars == <<executing, lastRun, crashes>>
haltVars == <<runVars, haltWaits>>
vars == <<receiverVars, sites, haltVars, execVars>>

\* No halt, or cleared by the human; waiting for the human; forgotten by a restart.
HaltWaits == {"no", "for_human", "forgotten"}

ASSUME ControlAssumption ==
  /\ RotationKeys \subseteq KeyIds
  /\ MaxCrashes \in Nat
  /\ MaxHalts \in Nat

TypeOK ==
  /\ ReceiverTypeOK
  /\ RegistryTypeOK
  /\ RunTypeOK(RunIds \cup {None})
  /\ executing \in Commands \cup {None}
  /\ lastRun \in [KeyIds -> Nat \cup {NoMark}]
  /\ crashes \in Nat
  /\ haltWaits \in HaltWaits

Init ==
  /\ ReceiverInit
  /\ RegistryInit
  /\ RunInit(None)
  /\ executing = None
  /\ lastRun = [k \in KeyIds |-> NoMark]
  /\ crashes = 0
  /\ haltWaits = "no"

\* The process is in none of its calls.
Idle == unpacked = None /\ executing = None

-----------------------------------------------------------------------------
\* CommandStatus, operation by operation: the status its handler returns.

StartStatus(p) ==
  IF ~(p.sites \subseteq LiveSites) THEN "REJECT_TARGET"
  ELSE IF halted \/ runState \notin Startable THEN "REJECT_STATE" ELSE "APPLIED"

StopStatus(p) ==
  IF p.run # runId THEN "REJECT_TARGET"
  ELSE IF runState \notin Stoppable THEN "REJECT_STATE" ELSE "APPLIED"

Registered(b) == b \in Revisions /\ sites[b] # "absent"

\* set_live wants a retired revision, retire a live one.
SiteStatus(p, from) ==
  IF ~Registered(p.target) THEN "REJECT_TARGET"
  ELSE IF sites[p.target] # from THEN "REJECT_STATE" ELSE "APPLIED"

FloorStatus(p) == IF Known(p.key) THEN "APPLIED" ELSE "REJECT_TARGET"

\* base64.b64decode raises on padding the manifest schema's pattern admits.
KeyStatus(p) ==
  IF Known(p.key) THEN "REJECT_STATE"
  ELSE [key |-> "APPLIED", wrong_length |-> "REJECT_PARAMS", undecodable |-> "raises"][p.form]

\* Mutant: any key that may sign commands may rotate a key in.
RotateStatusAnySigner(c, p) == KeyStatus(p)

RotateStatus(c, p) ==
  IF Signer[c] \notin RotationKeys THEN "REJECT_SIGNER_ROLE" ELSE KeyStatus(p)

CommandStatus(c) ==
  LET p == Command[c]
  IN  IF ~p.exact THEN "REJECT_PARAMS"
      ELSE CASE p.op = "start_run"               -> StartStatus(p)
             [] p.op = "stop_run"                -> StopStatus(p)
             [] p.op = "set_live"                -> SiteStatus(p, "RETIRED")
             [] p.op = "retire"                  -> SiteStatus(p, "LIVE")
             [] p.op = "set_sequence_floor"      -> FloorStatus(p)
             [] p.op = "rotate_verification_key" -> RotateStatus(c, p)

-----------------------------------------------------------------------------
\* Mutant: the executor takes any pending command.
NextCommandAny(c) ==
  /\ Idle
  /\ c \in inbox["command"]

\* run_once takes the pending command of lowest sequence.
NextCommand(c) ==
  /\ Idle
  /\ c \in Lowest(inbox["command"])

\* What every execution does to the executor's own state.
Take(c) ==
  /\ NextCommand(c)
  /\ executing' = c
  /\ lastRun' = [lastRun EXCEPT ![Signer[c]] = Sequence[c]]
  /\ UNCHANGED crashes

Applies(c, op) ==
  /\ Command[c].op = op
  /\ CommandStatus(c) = "APPLIED"
  /\ Take(c)

StartRun(c) ==
  /\ Applies(c, "start_run")
  /\ Start(Command[c].run)
  /\ UNCHANGED <<receiverVars, sites, haltWaits>>

StopRun(c) ==
  /\ Applies(c, "stop_run")
  /\ Stop
  /\ UNCHANGED <<receiverVars, sites, haltWaits>>

SetRevisionLive(c) ==
  /\ Applies(c, "set_live")
  /\ SetLive(Command[c].target)
  /\ UNCHANGED <<receiverVars, haltVars>>

RetireRevision(c) ==
  /\ Applies(c, "retire")
  /\ Retire(Command[c].target)
  /\ UNCHANGED <<receiverVars, haltVars>>

SetFloor(c) ==
  /\ Applies(c, "set_sequence_floor")
  /\ SetSequenceFloor(Command[c].key, Command[c].floor)
  /\ UNCHANGED <<sites, haltVars>>

\* Mutant: the role is recorded where its types belong.
RotateKeyToRole(c) ==
  /\ Applies(c, "rotate_verification_key")
  /\ AddVerifyKey(Command[c].key, {Command[c].role})
  /\ UNCHANGED <<sites, haltVars>>

RotateKey(c) ==
  /\ Applies(c, "rotate_verification_key")
  /\ AddVerifyKey(Command[c].key, RoleTypes[Command[c].role])
  /\ UNCHANGED <<sites, haltVars>>

\* Refused with a code, or ended by an exception: the command changes nothing
\* and leaves the inbox all the same.
Refuse(c) ==
  /\ CommandStatus(c) # "APPLIED"
  /\ Take(c)
  /\ UNCHANGED <<receiverVars, sites, haltVars>>

\* Mutant: a command applied is left in the inbox.
RemoveNothing ==
  /\ executing # None
  /\ executing' = None
  /\ UNCHANGED <<lastRun, crashes, receiverVars, sites, haltVars>>

\* The finally clause: applied or refused, the command leaves the inbox.
Remove ==
  /\ executing # None
  /\ Discard("command", executing)
  /\ executing' = None
  /\ UNCHANGED <<highWater, rotatedKeys, verifyKeys, unpacked, quarantine, accepted, lowered>>
  /\ UNCHANGED <<lastRun, crashes, sites, haltVars>>

-----------------------------------------------------------------------------
\* Between receiving and executing, the process receives an archive.
ReceiveArchive(b) ==
  /\ Idle
  /\ Accept(b) \/ Reject(b)
  /\ UNCHANGED <<sites, haltVars, execVars>>

DispatchBundle ==
  /\ Dispatch
  /\ UNCHANGED <<sites, haltVars, execVars>>

\* The worker takes its lowest bundle: it passes go-live and is registered, or it
\* leaves the inbox for any of the worker's failures (a refused registration is
\* one of them).
WorkerRegisters(b) ==
  /\ Idle
  /\ b \in Lowest(inbox["worker"])
  /\ Register(b)
  /\ Discard("worker", b)
  /\ UNCHANGED <<highWater, rotatedKeys, verifyKeys, unpacked, quarantine, accepted, lowered>>
  /\ UNCHANGED <<haltVars, execVars>>

WorkerFails(b) ==
  /\ Idle
  /\ b \in Lowest(inbox["worker"])
  /\ Discard("worker", b)
  /\ UNCHANGED <<highWater, rotatedKeys, verifyKeys, unpacked, quarantine, accepted, lowered>>
  /\ UNCHANGED <<sites, haltVars, execVars>>

\* The watchdog's halt and the human's clearing of it.
HaltByWatchdog ==
  /\ quarantinedCheckpoints < MaxHalts
  /\ Halt(TRUE)
  /\ haltWaits' = "for_human"
  /\ UNCHANGED <<receiverVars, sites, execVars>>

HumanClearsHalt ==
  /\ halted
  /\ ClearHaltAtTerminal
  /\ haltWaits' = "no"
  /\ UNCHANGED <<receiverVars, sites, execVars>>

\* The process dies and starts again: run control and the executor begin afresh, and
\* a halt that waits for the human is forgotten.
Crash ==
  /\ crashes < MaxCrashes
  /\ crashes' = crashes + 1
  /\ executing' = None
  /\ ReceiverRestart
  /\ runState' = "IDLE" /\ runId' = None /\ halted' = FALSE /\ quarantinedCheckpoints' = 0
  /\ haltWaits' = IF haltWaits = "for_human" THEN "forgotten" ELSE haltWaits
  /\ UNCHANGED <<sites, lastRun>>

ExecuteCommand ==
  \E c \in Commands :
    \/ StartRun(c) \/ StopRun(c) \/ SetRevisionLive(c) \/ RetireRevision(c)
    \/ SetFloor(c) \/ RotateKey(c) \/ Refuse(c)

Next ==
  \/ \E b \in Bundles : ReceiveArchive(b)
  \/ DispatchBundle
  \/ ExecuteCommand
  \/ Remove
  \/ \E b \in Revisions : WorkerRegisters(b) \/ WorkerFails(b)
  \/ HaltByWatchdog
  \/ HumanClearsHalt
  \/ Crash

Spec == Init /\ [][Next]_vars

\* The process is a loop over the two inboxes: what it has begun it finishes, and
\* it polls the command inbox again and again.  Nothing makes archives arrive, the
\* worker run, or anyone halt, clear or crash anything.
Fairness ==
  /\ WF_vars(DispatchBundle)
  /\ WF_vars(Remove)
  /\ WF_vars(ExecuteCommand)

FairSpec == Spec /\ Fairness

-----------------------------------------------------------------------------
\* What entitles a key to sign a type.
RotatesIn(c, k, type) ==
  /\ accepted[c] > 0
  /\ Signer[c] \in RotationKeys
  /\ Command[c].op = "rotate_verification_key"
  /\ Command[c].key = k
  /\ type \in RoleTypes[Command[c].role]

Entitled(k, type) ==
  \/ type \in ProvisionedTypes[k]
  \/ \E c \in Commands : RotatesIn(c, k, type)

\* Only a rotation key extends trust: whatever was ever accepted was signed by a
\* key provisioned for its type, or by one that an accepted, rotation-key-signed
\* command rotated in for its type -- across re-deliveries, restarts and commands
\* that other keys sign.
ChainOfTrust ==
  \A b \in Bundles : accepted[b] > 0 => Entitled(Signer[b], Type[b])

\* A rotation outlives the process: between two steps of the process, what a
\* restart would trust is what it trusts now.
TrustIsDurable ==
  \A k \in KeyIds :
    verifyKeys[k] = IF rotatedKeys[k] # {} THEN rotatedKeys[k] ELSE ProvisionedTypes[k]

\* "In sequence order": the commands of one signer are applied in the order they
\* were signed, whatever order they arrive in, whoever else signs commands, and
\* however often a restart re-reads one -- unless a floor command has lowered the
\* signer's mark.
CommandsInOrder ==
  [][\A k \in KeyIds \ lowered : lastRun'[k] >= lastRun[k]]_vars

\* A command that reached the inbox leaves it, whatever else arrives.
CommandsDrain ==
  \A c \in Commands : c \in inbox["command"] ~> c \notin inbox["command"]

\* A registration moves a hostname to a new revision in one write and never takes
\* a site out of service: only a retire command, or a set_live that claims the
\* hostname, does.
OnlyCommandsTakeSitesDown ==
  [][\A s \in LiveSites \ LiveSites' :
       executing' \in Commands /\ Command[executing'].op \in {"retire", "set_live"}]_vars

\* "Only a human at the terminal clears the halt": from a halt on no run is running and
\* no command gets one running, until the human clears it -- as long as the process
\* lives.  A restart forgets the halt, and a start command then runs with no human.
HaltedRunIsStopped == haltWaits = "for_human" => halted /\ runState \notin Stoppable

\* scale-and-storage-spec: receipts and sequence marks are transactional and
\* survive a crash mid-receive.  What the receiver held, once it no longer holds
\* it, is in its inbox or would be accepted again.
ReceiveIsTransactional ==
  [][\A b \in Bundles : unpacked = b /\ unpacked' = None =>
       b \in inbox'[BoxOf(b)] \/ ~Replayed(b)']_vars
=============================================================================
