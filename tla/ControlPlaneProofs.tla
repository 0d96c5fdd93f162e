------------------------- MODULE ControlPlaneProofs -------------------------
(***************************************************************************)
(* Theorems about the control plane, for every set of bundles, keys, runs, *)
(* sites and hostnames and every number of crashes and halts.              *)
(***************************************************************************)
EXTENDS ControlPlane, TLAPS

\* What the parameters of a command are, once its keys are the operation's own.
LEMMA CommandParams ==
  ASSUME NEW c \in Commands
  PROVE  /\ c \in Bundles
         /\ Signer[c] \in KeyIds
         /\ Sequence[c] \in Nat
         /\ Command[c].floor \in Nat
         /\ Command[c].role \in {"pipeline", "dev"}
         /\ RoleTypes[Command[c].role] \in (SUBSET Types) \ {{}}
         /\ Command[c].exact /\ Command[c].op = "start_run" => Command[c].run \in RunIds
         /\ Command[c].exact /\ Command[c].op \in {"set_sequence_floor", "rotate_verification_key"}
              => Command[c].key \in KeyIds
<1>1. c \in Bundles /\ Signer[c] \in KeyIds /\ Sequence[c] \in Nat
  BY ManifestAssumption DEF Commands
<1>2. Command[c] \in CommandBody
  BY ManifestAssumption
<1>3. Command[c].floor \in Nat /\ Command[c].role \in {"pipeline", "dev"}
  BY <1>2 DEF CommandBody
<1>4. RoleTypes[Command[c].role] \in (SUBSET Types) \ {{}}
  BY <1>3 DEF RoleTypes, Types
<1>5. Command[c].exact /\ Command[c].op = "start_run" => Command[c].run \in RunIds
  BY ManifestAssumption
<1>6. Command[c].exact /\ Command[c].op \in {"set_sequence_floor", "rotate_verification_key"}
        => Command[c].key \in KeyIds
  BY ManifestAssumption
<1> QED
  BY <1>1, <1>3, <1>4, <1>5, <1>6

\* A command is applied only with its operation's own keys.
LEMMA AppliedIsExact ==
  ASSUME NEW c \in Commands, CommandStatus(c) = "APPLIED"
  PROVE  /\ Command[c].exact
         /\ Command[c].op = "rotate_verification_key" => Signer[c] \in RotationKeys
  BY DEF CommandStatus, RotateStatus

\* What the chain's verdict says of an accepted bundle.
LEMMA AcceptedMeans ==
  ASSUME NEW b \in Bundles, Verdict(b) = "OK"
  PROVE  Authentic(b) /\ ~Replayed(b)
  BY DEF Verdict

-----------------------------------------------------------------------------
\* Type correctness, action by action.

\* The process starts with no bundle, no site and no run, and the provisioned keys.
LEMMA TypeInit == Init => TypeOK
<1> SUFFICES ASSUME Init PROVE TypeOK
  OBVIOUS
<1>1. ReceiverTypeOK
  BY ReceiverAssumption DEF Init, ReceiverInit, ReceiverTypeOK
<1>2. RegistryTypeOK /\ RunTypeOK(RunIds \cup {None})
  BY DEF Init, RegistryInit, RegistryTypeOK, SiteStatuses, RunInit, RunTypeOK, RunStates
<1>3. /\ executing \in Commands \cup {None}
      /\ lastRun \in [KeyIds -> Nat \cup {NoMark}]
      /\ crashes \in Nat
      /\ haltWaits \in HaltWaits
  BY DEF Init, HaltWaits
<1> QED
  BY <1>1, <1>2, <1>3 DEF TypeOK

\* The executor's own variables keep their types whatever command it takes.
LEMMA TakeType ==
  ASSUME TypeOK, NEW c \in Commands, Take(c)
  PROVE  /\ executing' \in Commands \cup {None}
         /\ lastRun' \in [KeyIds -> Nat \cup {NoMark}]
         /\ crashes' \in Nat
  BY CommandParams DEF TypeOK, Take

\* A command, whatever its operation, leaves every variable in its type.
LEMMA TypeCommand ==
  ASSUME TypeOK, ExecuteCommand
  PROVE  TypeOK'
<1> PICK c \in Commands :
      \/ StartRun(c) \/ StopRun(c) \/ SetRevisionLive(c) \/ RetireRevision(c)
      \/ SetFloor(c) \/ RotateKey(c) \/ Refuse(c)
  BY DEF ExecuteCommand
<1>1. Take(c)
  BY DEF StartRun, StopRun, SetRevisionLive, RetireRevision, SetFloor, RotateKey, Refuse, Applies
<1>2. /\ executing' \in Commands \cup {None}
      /\ lastRun' \in [KeyIds -> Nat \cup {NoMark}]
      /\ crashes' \in Nat
      /\ haltWaits' \in HaltWaits
  <2>1. haltWaits' = haltWaits
    BY DEF StartRun, StopRun, SetRevisionLive, RetireRevision, SetFloor, RotateKey, Refuse, haltVars
  <2> QED
    BY <1>1, <2>1, TakeType DEF TypeOK
<1>3. CASE StartRun(c)
  <2>1. Command[c].run \in RunIds
    BY <1>3, CommandParams, AppliedIsExact DEF StartRun, Applies
  <2>2. RunTypeOK(RunIds \cup {None})'
    BY <1>3, <2>1 DEF TypeOK, RunTypeOK, RunStates, StartRun, Start
  <2>3. ReceiverTypeOK' /\ RegistryTypeOK'
    BY <1>3 DEF TypeOK, StartRun, receiverVars, ReceiverTypeOK, RegistryTypeOK
  <2> QED
    BY <1>2, <2>2, <2>3 DEF TypeOK
<1>4. CASE StopRun(c)
  <2>1. RunTypeOK(RunIds \cup {None})'
    BY <1>4 DEF TypeOK, RunTypeOK, RunStates, StopRun, Stop
  <2>2. ReceiverTypeOK' /\ RegistryTypeOK'
    BY <1>4 DEF TypeOK, StopRun, receiverVars, ReceiverTypeOK, RegistryTypeOK
  <2> QED
    BY <1>2, <2>1, <2>2 DEF TypeOK
<1>5. CASE SetRevisionLive(c)
  <2>1. RegistryTypeOK'
    BY <1>5 DEF TypeOK, RegistryTypeOK, SiteStatuses, SetRevisionLive, SetLive
  <2>2. ReceiverTypeOK' /\ RunTypeOK(RunIds \cup {None})'
    BY <1>5 DEF TypeOK, SetRevisionLive, receiverVars, runVars, haltVars, ReceiverTypeOK, RunTypeOK
  <2> QED
    BY <1>2, <2>1, <2>2 DEF TypeOK
<1>6. CASE RetireRevision(c)
  <2>1. RegistryTypeOK'
    BY <1>6 DEF TypeOK, RegistryTypeOK, SiteStatuses, RetireRevision, Retire
  <2>2. ReceiverTypeOK' /\ RunTypeOK(RunIds \cup {None})'
    BY <1>6 DEF TypeOK, RetireRevision, receiverVars, runVars, haltVars, ReceiverTypeOK, RunTypeOK
  <2> QED
    BY <1>2, <2>1, <2>2 DEF TypeOK
<1>7. CASE SetFloor(c)
  <2>1. Command[c].key \in KeyIds /\ Command[c].floor \in Nat
    BY <1>7, CommandParams, AppliedIsExact DEF SetFloor, Applies
  <2>2. ReceiverTypeOK'
    BY <1>7, <2>1 DEF TypeOK, ReceiverTypeOK, SetFloor, SetSequenceFloor
  <2>3. RegistryTypeOK' /\ RunTypeOK(RunIds \cup {None})'
    BY <1>7 DEF TypeOK, SetFloor, runVars, haltVars, RegistryTypeOK, RunTypeOK
  <2> QED
    BY <1>2, <2>2, <2>3 DEF TypeOK
<1>8. CASE RotateKey(c)
  <2>1. Command[c].key \in KeyIds /\ RoleTypes[Command[c].role] \in SUBSET Types
    BY <1>8, CommandParams, AppliedIsExact DEF RotateKey, Applies
  <2>2. ReceiverTypeOK'
    BY <1>8, <2>1 DEF TypeOK, ReceiverTypeOK, RotateKey, AddVerifyKey
  <2>3. RegistryTypeOK' /\ RunTypeOK(RunIds \cup {None})'
    BY <1>8 DEF TypeOK, RotateKey, runVars, haltVars, RegistryTypeOK, RunTypeOK
  <2> QED
    BY <1>2, <2>2, <2>3 DEF TypeOK
<1>9. CASE Refuse(c)
  <2>1. ReceiverTypeOK' /\ RegistryTypeOK' /\ RunTypeOK(RunIds \cup {None})'
    BY <1>9 DEF TypeOK, Refuse, receiverVars, runVars, haltVars, ReceiverTypeOK, RegistryTypeOK, RunTypeOK
  <2> QED
    BY <1>2, <2>1 DEF TypeOK
<1> QED
  BY <1>3, <1>4, <1>5, <1>6, <1>7, <1>8, <1>9

\* So does every step.
LEMMA TypeNext == TypeOK /\ [Next]_vars => TypeOK'
<1> SUFFICES ASSUME TypeOK, [Next]_vars PROVE TypeOK'
  OBVIOUS
<1>1. ASSUME NEW b \in Bundles, ReceiveArchive(b) PROVE TypeOK'
  <2>1. ReceiverTypeOK'
    BY <1>1, ManifestAssumption
    DEF TypeOK, ReceiverTypeOK, ReceiveArchive, Accept, Reject
  <2> QED
    BY <1>1, <2>1 DEF TypeOK, ReceiveArchive, runVars, haltVars, execVars, RegistryTypeOK, RunTypeOK
<1>2. CASE DispatchBundle
  <2>1. ReceiverTypeOK'
    BY <1>2 DEF TypeOK, ReceiverTypeOK, DispatchBundle, Dispatch
  <2> QED
    BY <1>2, <2>1 DEF TypeOK, DispatchBundle, runVars, haltVars, execVars, RegistryTypeOK, RunTypeOK
<1>3. CASE ExecuteCommand
  BY <1>3, TypeCommand
<1>4. CASE Remove
  <2>1. ReceiverTypeOK'
    BY <1>4 DEF TypeOK, ReceiverTypeOK, Remove, Discard
  <2> QED
    BY <1>4, <2>1 DEF TypeOK, Remove, runVars, haltVars, RegistryTypeOK, RunTypeOK
<1>5. ASSUME NEW b \in Revisions, WorkerRegisters(b) PROVE TypeOK'
  <2>1. ReceiverTypeOK'
    BY <1>5 DEF TypeOK, ReceiverTypeOK, WorkerRegisters, Discard
  <2>2. RegistryTypeOK'
    BY <1>5 DEF TypeOK, RegistryTypeOK, SiteStatuses, WorkerRegisters, Register
  <2> QED
    BY <1>5, <2>1, <2>2 DEF TypeOK, WorkerRegisters, runVars, haltVars, execVars, RunTypeOK
<1>6. ASSUME NEW b \in Revisions, WorkerFails(b) PROVE TypeOK'
  <2>1. ReceiverTypeOK'
    BY <1>6 DEF TypeOK, ReceiverTypeOK, WorkerFails, Discard
  <2> QED
    BY <1>6, <2>1 DEF TypeOK, WorkerFails, runVars, haltVars, execVars, RegistryTypeOK, RunTypeOK
<1>7. CASE HaltByWatchdog
  <2>1. RunTypeOK(RunIds \cup {None})'
    BY <1>7 DEF TypeOK, RunTypeOK, RunStates, HaltByWatchdog, Halt
  <2>2. ReceiverTypeOK'
    BY <1>7 DEF TypeOK, HaltByWatchdog, receiverVars, ReceiverTypeOK
  <2> QED
    BY <1>7, <2>1, <2>2 DEF TypeOK, HaltByWatchdog, HaltWaits, execVars, RegistryTypeOK
<1>8. CASE HumanClearsHalt
  <2>1. RunTypeOK(RunIds \cup {None})'
    BY <1>8 DEF TypeOK, RunTypeOK, HumanClearsHalt, ClearHaltAtTerminal
  <2>2. ReceiverTypeOK'
    BY <1>8 DEF TypeOK, HumanClearsHalt, receiverVars, ReceiverTypeOK
  <2> QED
    BY <1>8, <2>1, <2>2 DEF TypeOK, HumanClearsHalt, HaltWaits, execVars, RegistryTypeOK
<1>9. CASE Crash
  <2>1. ReceiverTypeOK'
    BY <1>9, ReceiverAssumption DEF TypeOK, ReceiverTypeOK, Crash, ReceiverRestart
  <2>2. RunTypeOK(RunIds \cup {None})'
    BY <1>9 DEF TypeOK, RunTypeOK, RunStates, Crash
  <2> QED
    BY <1>9, <2>1, <2>2 DEF TypeOK, Crash, HaltWaits, RegistryTypeOK
<1>10. CASE UNCHANGED vars
  <2>1. ReceiverTypeOK'
    BY <1>10 DEF TypeOK, vars, receiverVars, ReceiverTypeOK
  <2>2. RegistryTypeOK' /\ RunTypeOK(RunIds \cup {None})'
    BY <1>10 DEF TypeOK, vars, runVars, haltVars, RegistryTypeOK, RunTypeOK
  <2> QED
    BY <1>10, <2>1, <2>2 DEF TypeOK, vars, haltVars, execVars
<1> QED
  BY <1>1, <1>2, <1>3, <1>4, <1>5, <1>6, <1>7, <1>8, <1>9, <1>10 DEF Next

\* Every variable of the control plane keeps its type: in particular a mark is a
\* sequence or absent, a key's entry is a set of bundle types, the run id is one a
\* command named.
THEOREM TypeCorrect == Spec => []TypeOK
<1>1. Init => TypeOK
  BY TypeInit
<1>2. TypeOK /\ [Next]_vars => TypeOK'
  BY TypeNext
<1> QED
  BY <1>1, <1>2, PTL DEF Spec

-----------------------------------------------------------------------------
\* Replay.  AcceptedOnce is not inductive: what keeps a bundle from being accepted
\* again is that its signer's mark has reached its sequence and, unless a floor
\* command lowers it, never goes back.
MarksCoverAccepted ==
  \A b \in Bundles : Signer[b] \notin lowered /\ accepted[b] > 0
                       => highWater[Signer[b]] >= Sequence[b]

ReplayInv == TypeOK /\ MarksCoverAccepted /\ AcceptedOnce

\* Only an accepted bundle or a floor command moves a mark.
LEMMA MarkFrame ==
  ASSUME [Next]_vars
  PROVE  \/ \E b \in Bundles : Accept(b)
         \/ \E c \in Commands : SetFloor(c)
         \/ UNCHANGED <<highWater, accepted, lowered>>
<1>1. ASSUME ExecuteCommand PROVE \/ \E c \in Commands : SetFloor(c)
                                  \/ UNCHANGED <<highWater, accepted, lowered>>
  BY <1>1 DEF ExecuteCommand, StartRun, StopRun, SetRevisionLive, RetireRevision, RotateKey,
       AddVerifyKey, Refuse, receiverVars
<1>2. ASSUME NEW b \in Bundles, ReceiveArchive(b)
      PROVE  Accept(b) \/ UNCHANGED <<highWater, accepted, lowered>>
  BY <1>2 DEF ReceiveArchive, Reject
<1>3. ASSUME DispatchBundle \/ Remove \/ Crash \/ UNCHANGED vars
      PROVE  UNCHANGED <<highWater, accepted, lowered>>
  BY <1>3 DEF DispatchBundle, Dispatch, Remove, Crash, ReceiverRestart, vars, receiverVars
<1>4. ASSUME (\E b \in Revisions : WorkerRegisters(b) \/ WorkerFails(b))
             \/ HaltByWatchdog \/ HumanClearsHalt
      PROVE  UNCHANGED <<highWater, accepted, lowered>>
  BY <1>4 DEF WorkerRegisters, WorkerFails, HaltByWatchdog, HumanClearsHalt, receiverVars
<1> QED
  BY <1>1, <1>2, <1>3, <1>4 DEF Next

\* The mark of a signer whose floor was never lowered rises, and an accepted bundle
\* raises it from below its own sequence.
LEMMA AcceptRaisesMark ==
  ASSUME TypeOK, NEW b \in Bundles, Accept(b)
  PROVE  /\ highWater[Signer[b]] < Sequence[b]
         /\ highWater' = [highWater EXCEPT ![Signer[b]] = Sequence[b]]
         /\ accepted' = [accepted EXCEPT ![b] = @ + 1]
         /\ lowered' = lowered
<1>1. ~Replayed(b)
  BY AcceptedMeans DEF Accept
<1>2. /\ highWater[Signer[b]] \in Nat \cup {NoMark}
      /\ Sequence[b] \in Nat
  BY ManifestAssumption DEF TypeOK, ReceiverTypeOK
<1>3. highWater[Signer[b]] < Sequence[b]
  BY <1>1, <1>2 DEF Replayed, NoMark
<1> QED
  BY <1>3 DEF Accept

\* Every step keeps accepted bundles at or below their signer's mark.
LEMMA ReplayNext == ReplayInv /\ [Next]_vars => ReplayInv'
<1> SUFFICES ASSUME ReplayInv, [Next]_vars PROVE ReplayInv'
  OBVIOUS
<1> USE DEF ReplayInv
<1>1. TypeOK'
  BY TypeNext
<1>2. ASSUME NEW b \in Bundles, Accept(b)
      PROVE  MarksCoverAccepted' /\ AcceptedOnce'
  <2>1. /\ highWater[Signer[b]] < Sequence[b]
        /\ highWater' = [highWater EXCEPT ![Signer[b]] = Sequence[b]]
        /\ accepted' = [accepted EXCEPT ![b] = @ + 1]
        /\ lowered' = lowered
    BY <1>2, AcceptRaisesMark
  <2>2. /\ highWater \in [KeyIds -> Nat \cup {NoMark}]
        /\ accepted \in [Bundles -> Nat]
        /\ Signer \in [Bundles -> KeyIds]
        /\ Sequence \in [Bundles -> Nat]
    BY ManifestAssumption DEF TypeOK, ReceiverTypeOK
  <2>3. Signer[b] \notin lowered => accepted[b] = 0
    BY <2>1, <2>2 DEF MarksCoverAccepted, NoMark
  <2>4. MarksCoverAccepted'
    BY <2>1, <2>2 DEF MarksCoverAccepted, NoMark
  <2>5. AcceptedOnce'
    BY <2>1, <2>2, <2>3 DEF AcceptedOnce
  <2> QED
    BY <2>4, <2>5
<1>3. ASSUME NEW c \in Commands, SetFloor(c)
      PROVE  MarksCoverAccepted' /\ AcceptedOnce'
  <2> DEFINE k == Command[c].key
             floor == Command[c].floor
  <2>1. k \in KeyIds /\ floor \in Nat
    BY <1>3, CommandParams, AppliedIsExact DEF SetFloor, Applies
  <2>2. /\ highWater' = [highWater EXCEPT ![k] = floor]
        /\ lowered' = IF floor < highWater[k] THEN lowered \cup {k} ELSE lowered
        /\ accepted' = accepted
    BY <1>3 DEF SetFloor, SetSequenceFloor
  <2>3. /\ highWater \in [KeyIds -> Nat \cup {NoMark}]
        /\ Signer \in [Bundles -> KeyIds]
        /\ Sequence \in [Bundles -> Nat]
    BY ManifestAssumption DEF TypeOK, ReceiverTypeOK
  <2>4. MarksCoverAccepted'
    BY <2>1, <2>2, <2>3 DEF MarksCoverAccepted, NoMark
  <2>5. AcceptedOnce'
    BY <2>2 DEF AcceptedOnce
  <2> QED
    BY <2>4, <2>5
<1>4. ASSUME UNCHANGED <<highWater, accepted, lowered>>
      PROVE  MarksCoverAccepted' /\ AcceptedOnce'
  BY <1>4 DEF MarksCoverAccepted, AcceptedOnce
<1> QED
  BY <1>1, <1>2, <1>3, <1>4, MarkFrame

\* The receiver keeps accepted bundles covered by its marks.
LEMMA ReplayInvariant == Spec => []ReplayInv
<1>1. Init => ReplayInv
  BY TypeInit DEF Init, ReceiverInit, ReplayInv, MarksCoverAccepted, AcceptedOnce
<1>2. ReplayInv /\ [Next]_vars => ReplayInv'
  BY ReplayNext
<1> QED
  BY <1>1, <1>2, PTL DEF Spec

\* "This kills replay": no bundle is accepted twice unless a floor command lowered
\* its signer's mark, however many copies arrive and however often the receiver
\* restarts.
THEOREM NoReplay == Spec => []AcceptedOnce
<1>1. ReplayInv => AcceptedOnce
  BY DEF ReplayInv
<1> QED
  BY <1>1, ReplayInvariant, PTL

-----------------------------------------------------------------------------
\* Sites.  With the types, one live revision per hostname is inductive.
HostnameInv == TypeOK /\ OneLivePerHostname

\* Only a registration and two commands change the registry.
LEMMA RegistryFrame ==
  ASSUME [Next]_vars
  PROVE  \/ \E b \in Revisions : Register(b) \/ SetLive(b) \/ Retire(b)
         \/ UNCHANGED sites
<1>1. ASSUME ExecuteCommand
      PROVE  (\E b \in Revisions : SetLive(b) \/ Retire(b)) \/ UNCHANGED sites
  BY <1>1 DEF ExecuteCommand, StartRun, StopRun, SetRevisionLive, SetLive, RetireRevision, Retire,
       SetFloor, RotateKey, Refuse
<1>2. ASSUME NEW b \in Bundles, ReceiveArchive(b) PROVE UNCHANGED sites
  BY <1>2 DEF ReceiveArchive
<1>3. ASSUME NEW b \in Revisions, WorkerRegisters(b) \/ WorkerFails(b)
      PROVE  Register(b) \/ UNCHANGED sites
  BY <1>3 DEF WorkerRegisters, WorkerFails
<1>4. ASSUME \/ DispatchBundle \/ Remove \/ Crash \/ UNCHANGED vars
             \/ HaltByWatchdog \/ HumanClearsHalt
      PROVE  UNCHANGED sites
  BY <1>4 DEF DispatchBundle, Remove, Crash, HaltByWatchdog, HumanClearsHalt, vars
<1> QED
  BY <1>1, <1>2, <1>3, <1>4 DEF Next

\* Registration and set_live each give a hostname up before they hand it on.
LEMMA HostnameNext == HostnameInv /\ [Next]_vars => HostnameInv'
<1> SUFFICES ASSUME HostnameInv, [Next]_vars PROVE OneLivePerHostname'
  BY TypeNext DEF HostnameInv
<1>1. sites \in [Revisions -> SiteStatuses]
  BY DEF HostnameInv, TypeOK, RegistryTypeOK
<1>2. OneLivePerHostname
  BY DEF HostnameInv
<1>3. ASSUME NEW b \in Revisions, Register(b) PROVE OneLivePerHostname'
  <2>1. \A c \in LiveRevisions' : c = b \/ (c \in LiveRevisions /\ c # Supersedes[b])
    BY <1>1, <1>3 DEF Register, LiveRevisions
  <2>2. \A c \in LiveRevisions : HostOf[c] = HostOf[b] => c = Supersedes[b]
    BY <1>3 DEF Register, Registrable, Holders
  <2> QED
    BY <1>2, <2>1, <2>2 DEF OneLivePerHostname
<1>4. ASSUME NEW b \in Revisions, SetLive(b) PROVE OneLivePerHostname'
  <2>1. \A c \in LiveRevisions' : c = b \/ (c \in LiveRevisions /\ HostOf[c] # HostOf[b])
    BY <1>1, <1>4 DEF SetLive, LiveRevisions, Holders
  <2> QED
    BY <1>2, <2>1 DEF OneLivePerHostname
<1>5. ASSUME NEW b \in Revisions, Retire(b) PROVE OneLivePerHostname'
  <2>1. LiveRevisions' \subseteq LiveRevisions
    BY <1>1, <1>5 DEF Retire, LiveRevisions
  <2> QED
    BY <1>2, <2>1 DEF OneLivePerHostname
<1>6. ASSUME UNCHANGED sites PROVE OneLivePerHostname'
  BY <1>2, <1>6 DEF OneLivePerHostname, LiveRevisions
<1> QED
  BY <1>3, <1>4, <1>5, <1>6, RegistryFrame

\* Whatever registrations, rollbacks, retirements and refused attempts came before,
\* at most one live revision answers to a hostname: the assertion live_for_hostname
\* makes never fails.
THEOREM HostnamesAreUnambiguous == Spec => []OneLivePerHostname
<1>1. Init => HostnameInv
  BY TypeInit DEF Init, RegistryInit, HostnameInv, OneLivePerHostname, LiveRevisions
<1>2. HostnameInv /\ [Next]_vars => HostnameInv'
  BY HostnameNext
<1>3. HostnameInv => OneLivePerHostname
  BY DEF HostnameInv
<1> QED
  BY <1>1, <1>2, <1>3, PTL DEF Spec

-----------------------------------------------------------------------------
\* Runs.

\* A halt that waits for the human keeps every run stopped, whatever commands arrive,
\* and nothing but the human and a restart of the process ends the wait.
HaltInv == HaltedRunIsStopped /\ haltWaits \in HaltWaits

THEOREM HaltHolds ==
  Spec => /\ []HaltedRunIsStopped
          /\ [][haltWaits = "for_human" /\ haltWaits' # "for_human" => HumanClearsHalt \/ Crash]_vars
<1>1. Init => HaltInv
  BY DEF Init, HaltInv, HaltWaits, HaltedRunIsStopped
<1>2. ASSUME HaltInv, [Next]_vars
      PROVE  /\ HaltInv'
             /\ haltWaits = "for_human" /\ haltWaits' # "for_human" => HumanClearsHalt \/ Crash
  <2> USE <1>2 DEF HaltInv, HaltWaits, HaltedRunIsStopped, Stoppable, haltVars, runVars
  <2>1. ASSUME ExecuteCommand PROVE HaltInv' /\ haltWaits' = haltWaits
    BY <2>1 DEF ExecuteCommand, StartRun, Start, StopRun, Stop, SetRevisionLive,
         RetireRevision, SetFloor, RotateKey, Refuse
  <2>2. ASSUME HaltByWatchdog PROVE HaltInv' /\ haltWaits' = "for_human"
    BY <2>2 DEF HaltByWatchdog, Halt
  <2>3. ASSUME HumanClearsHalt \/ Crash PROVE HaltInv'
    BY <2>3 DEF HumanClearsHalt, ClearHaltAtTerminal, Crash
  <2>4. ASSUME \/ \E b \in Bundles : ReceiveArchive(b)
               \/ \E b \in Revisions : WorkerRegisters(b) \/ WorkerFails(b)
               \/ DispatchBundle \/ Remove \/ UNCHANGED vars
        PROVE  HaltInv' /\ haltWaits' = haltWaits
    BY <2>4 DEF ReceiveArchive, WorkerRegisters, WorkerFails, DispatchBundle, Remove, vars
  <2> QED
    BY <2>1, <2>2, <2>3, <2>4 DEF Next
<1>3. HaltInv => HaltedRunIsStopped
  BY DEF HaltInv
<1> QED
  BY <1>1, <1>2, <1>3, PTL DEF Spec

-----------------------------------------------------------------------------
\* What the process holds: unpacked or in one of the inboxes.
Held(b) == b = unpacked \/ \E box \in Boxes : b \in inbox[box]

HeldIsAccepted == \A b \in Bundles : Held(b) => accepted[b] > 0

BoxedByType == \A box \in Boxes : \A b \in inbox[box] : BoxOf(b) = box

\* Nothing gets hold of a bundle but accepting it, and nothing un-accepts one.
LEMMA HeldFrame ==
  ASSUME TypeOK, [Next]_vars
  PROVE  /\ \A b \in Bundles : Held(b)' => Held(b) \/ Accept(b)
         /\ \A b \in Bundles : accepted'[b] >= accepted[b]
         /\ BoxedByType => BoxedByType'
<1> USE DEF Held, BoxedByType
<1>1. inbox \in [Boxes -> SUBSET Bundles] /\ accepted \in [Bundles -> Nat]
  BY DEF TypeOK, ReceiverTypeOK
<1>2. unpacked \in Bundles \cup {None} /\ None \notin Bundles
  BY ManifestAssumption DEF TypeOK, ReceiverTypeOK
<1>3. CASE ExecuteCommand
  <2>1. UNCHANGED <<inbox, unpacked, accepted>>
    BY <1>3 DEF ExecuteCommand, StartRun, StopRun, SetRevisionLive, RetireRevision, SetFloor,
         SetSequenceFloor, RotateKey, AddVerifyKey, Refuse, receiverVars
  <2> QED
    BY <1>1, <2>1
<1>4. ASSUME NEW b \in Bundles, ReceiveArchive(b)
      PROVE  /\ \A d \in Bundles : Held(d)' => Held(d) \/ Accept(d)
             /\ \A d \in Bundles : accepted'[d] >= accepted[d]
             /\ BoxedByType => BoxedByType'
  <2>1. CASE Accept(b)
    <3>1. unpacked' = b /\ inbox' = inbox /\ accepted' = [accepted EXCEPT ![b] = @ + 1]
      BY <2>1 DEF Accept
    <3> QED
      BY <1>1, <2>1, <3>1 DEF BoxOf
  <2>2. CASE Reject(b)
    BY <1>1, <2>2 DEF Reject
  <2> QED
    BY <1>4, <2>1, <2>2 DEF ReceiveArchive
<1>5. CASE DispatchBundle
  <2>1. /\ unpacked \in Bundles
        /\ unpacked' = None
        /\ accepted' = accepted
        /\ inbox' = [inbox EXCEPT ![BoxOf(unpacked)] = @ \cup {unpacked}]
    BY <1>2, <1>5 DEF DispatchBundle, Dispatch
  <2>2. \A box \in Boxes : \A b \in inbox'[box] :
           b \in inbox[box] \/ (b = unpacked /\ BoxOf(b) = box)
    BY <1>1, <2>1
  <2>3. BoxedByType => BoxedByType'
    <3> HAVE BoxedByType
    <3> SUFFICES ASSUME NEW box \in Boxes, NEW b \in inbox'[box] PROVE BoxOf(b)' = box
      OBVIOUS
    <3> QED
      BY <2>2 DEF BoxOf
  <2> QED
    BY <1>1, <1>2, <2>1, <2>2, <2>3
<1>6. ASSUME \/ Remove
             \/ \E b \in Revisions : WorkerRegisters(b) \/ WorkerFails(b)
      PROVE  /\ \A d \in Bundles : Held(d)' => Held(d) \/ Accept(d)
             /\ \A d \in Bundles : accepted'[d] >= accepted[d]
             /\ BoxedByType => BoxedByType'
  <2>1. /\ unpacked' = unpacked
        /\ accepted' = accepted
        /\ \A box \in Boxes : inbox'[box] \subseteq inbox[box]
    BY <1>1, <1>6 DEF Remove, WorkerRegisters, WorkerFails, Discard
  <2> QED
    BY <1>1, <2>1 DEF BoxOf
<1>7. CASE Crash
  BY <1>1, <1>2, <1>7 DEF Crash, ReceiverRestart
<1>8. ASSUME HaltByWatchdog \/ HumanClearsHalt \/ UNCHANGED vars
      PROVE  UNCHANGED <<inbox, unpacked, accepted>>
  BY <1>8 DEF HaltByWatchdog, HumanClearsHalt, vars, receiverVars
<1>9. ASSUME HaltByWatchdog \/ HumanClearsHalt \/ UNCHANGED vars
      PROVE  /\ \A d \in Bundles : Held(d)' => Held(d) \/ Accept(d)
             /\ \A d \in Bundles : accepted'[d] >= accepted[d]
             /\ BoxedByType => BoxedByType'
  BY <1>1, <1>8, <1>9
<1> QED
  BY <1>3, <1>4, <1>5, <1>6, <1>7, <1>9 DEF Next

\* An accepted bundle has left its mark on the history.
LEMMA AcceptCounts ==
  ASSUME TypeOK, NEW b \in Bundles, Accept(b)
  PROVE  accepted'[b] > 0
  BY DEF TypeOK, ReceiverTypeOK, Accept

\* What the process holds was accepted, and lies in the inbox of its type.
HeldInv == TypeOK /\ HeldIsAccepted /\ BoxedByType

\* Bundles come into inboxes by acceptance, each into the inbox of its type.
LEMMA HeldNext == HeldInv /\ [Next]_vars => HeldInv'
<1> SUFFICES ASSUME HeldInv, [Next]_vars PROVE HeldIsAccepted' /\ BoxedByType'
  BY TypeNext DEF HeldInv
<1>1. TypeOK /\ TypeOK' /\ HeldIsAccepted /\ BoxedByType
  BY TypeNext DEF HeldInv
<1>2. accepted \in [Bundles -> Nat] /\ accepted' \in [Bundles -> Nat]
  BY <1>1 DEF TypeOK, ReceiverTypeOK
<1> QED
  BY <1>1, <1>2, HeldFrame, AcceptCounts DEF HeldIsAccepted

\* Whatever waits in an inbox was accepted by the receiver.
LEMMA HeldInvariant == Spec => []HeldInv
<1>1. Init => HeldInv
  <2> SUFFICES ASSUME Init PROVE HeldInv
    OBVIOUS
  <2>1. unpacked = None /\ \A box \in Boxes : inbox[box] = {}
    BY DEF Init, ReceiverInit
  <2> QED
    BY <2>1, TypeInit, ManifestAssumption DEF HeldInv, HeldIsAccepted, BoxedByType, Held
<1>2. HeldInv /\ [Next]_vars => HeldInv'
  BY HeldNext
<1> QED
  BY <1>1, <1>2, PTL DEF Spec

-----------------------------------------------------------------------------
\* Trust.

\* Only a rotation command and a restart touch the trusted keys.
LEMMA KeyFrame ==
  ASSUME [Next]_vars
  PROVE  (\E c \in Commands : RotateKey(c)) \/ Crash \/ UNCHANGED <<verifyKeys, rotatedKeys>>
<1>1. ASSUME ExecuteCommand
      PROVE  (\E c \in Commands : RotateKey(c)) \/ UNCHANGED <<verifyKeys, rotatedKeys>>
  BY <1>1 DEF ExecuteCommand, StartRun, StopRun, SetRevisionLive, RetireRevision, SetFloor,
       SetSequenceFloor, Refuse, receiverVars
<1>2. ASSUME NEW b \in Bundles, ReceiveArchive(b) PROVE UNCHANGED <<verifyKeys, rotatedKeys>>
  BY <1>2 DEF ReceiveArchive, Accept, Reject
<1>3. ASSUME \/ DispatchBundle \/ Remove \/ HaltByWatchdog \/ HumanClearsHalt \/ UNCHANGED vars
             \/ \E b \in Revisions : WorkerRegisters(b) \/ WorkerFails(b)
      PROVE  UNCHANGED <<verifyKeys, rotatedKeys>>
  BY <1>3 DEF DispatchBundle, Dispatch, Remove, HaltByWatchdog, HumanClearsHalt, WorkerRegisters,
       WorkerFails, vars, receiverVars
<1> QED
  BY <1>1, <1>2, <1>3 DEF Next

\* A command the executor takes was held in the command inbox.
LEMMA TakenIsHeld ==
  ASSUME NEW c \in Commands, Take(c)
  PROVE  c \in inbox["command"] /\ Held(c)
  BY DEF Take, NextCommand, Lowest, Held, Boxes

\* A rotation writes the file and the memory alike; a restart reads one from the other.
LEMMA DurableNext == TrustIsDurable /\ TypeOK /\ [Next]_vars => TrustIsDurable'
<1> SUFFICES ASSUME TrustIsDurable, TypeOK, [Next]_vars PROVE TrustIsDurable'
  OBVIOUS
<1>1. /\ verifyKeys \in [KeyIds -> SUBSET Types]
      /\ rotatedKeys \in [KeyIds -> SUBSET Types]
  BY DEF TypeOK, ReceiverTypeOK
<1>2. ASSUME NEW c \in Commands, RotateKey(c) PROVE TrustIsDurable'
  <2>1. RoleTypes[Command[c].role] # {}
    BY CommandParams
  <2> QED
    BY <1>1, <1>2, <2>1 DEF TrustIsDurable, RotateKey, AddVerifyKey
<1>3. ASSUME Crash PROVE TrustIsDurable'
  BY <1>3 DEF TrustIsDurable, Crash, ReceiverRestart
<1>4. ASSUME UNCHANGED <<verifyKeys, rotatedKeys>> PROVE TrustIsDurable'
  BY <1>4 DEF TrustIsDurable
<1> QED
  BY <1>2, <1>3, <1>4, KeyFrame

\* What a restart would trust is always what the receiver trusts.
THEOREM RotationsSurviveRestarts == Spec => []TrustIsDurable
<1>1. Init => TrustIsDurable
  BY DEF Init, ReceiverInit, TrustIsDurable
<1>2. TrustIsDurable /\ TypeOK /\ [Next]_vars => TrustIsDurable'
  BY DurableNext
<1> QED
  BY <1>1, <1>2, TypeCorrect, PTL DEF Spec

\* ChainOfTrust speaks of accepted bundles; it is inductive together with the same
\* statement about every type a key may sign now or after a restart.
KeysEntitled ==
  \A k \in KeyIds : \A type \in verifyKeys[k] \cup rotatedKeys[k] : Entitled(k, type)

TrustInv == HeldInv /\ KeysEntitled /\ ChainOfTrust

\* Entitlement, once given, stays: histories only grow.
LEMMA EntitledStays ==
  ASSUME TypeOK, [Next]_vars, NEW k, NEW type, Entitled(k, type)
  PROVE  Entitled(k, type)'
<1>1. \A c \in Commands : c \in Bundles
  BY DEF Commands
<1>2. /\ accepted \in [Bundles -> Nat] /\ accepted' \in [Bundles -> Nat]
      /\ \A b \in Bundles : accepted'[b] >= accepted[b]
  BY TypeNext, HeldFrame DEF TypeOK, ReceiverTypeOK
<1> QED
  BY <1>1, <1>2 DEF Entitled, RotatesIn

\* A key is added by the rotation command of a rotation key, and by nothing else.
LEMMA TrustNext == TrustInv /\ [Next]_vars => TrustInv'
<1> SUFFICES ASSUME TrustInv, [Next]_vars PROVE KeysEntitled' /\ ChainOfTrust'
  BY HeldNext DEF TrustInv
<1>1. /\ TypeOK /\ HeldIsAccepted /\ KeysEntitled /\ ChainOfTrust
  BY DEF TrustInv, HeldInv
<1>2. /\ verifyKeys \in [KeyIds -> SUBSET Types]
      /\ rotatedKeys \in [KeyIds -> SUBSET Types]
      /\ accepted \in [Bundles -> Nat]
      /\ Signer \in [Bundles -> KeyIds]
  BY <1>1, ManifestAssumption DEF TypeOK, ReceiverTypeOK
<1>3. \A k \in KeyIds : \A type : Entitled(k, type) => Entitled(k, type)'
  BY <1>1, EntitledStays
<1>4. KeysEntitled'
  <2>1. ASSUME NEW c \in Commands, RotateKey(c) PROVE KeysEntitled'
    <3> DEFINE key == Command[c].key
               types == RoleTypes[Command[c].role]
    <3>1. /\ Command[c].op = "rotate_verification_key"
          /\ Signer[c] \in RotationKeys
          /\ key \in KeyIds
      BY <2>1, AppliedIsExact, CommandParams DEF RotateKey, Applies
    <3>2. /\ accepted[c] > 0
          /\ accepted' = accepted
      BY <1>1, <2>1, TakenIsHeld, CommandParams
      DEF RotateKey, Applies, AddVerifyKey, HeldIsAccepted
    <3>3. \A type \in types : Entitled(key, type)'
      BY <3>1, <3>2 DEF Entitled, RotatesIn
    <3>4. /\ verifyKeys' = [verifyKeys EXCEPT ![key] = types]
          /\ rotatedKeys' = [rotatedKeys EXCEPT ![key] = types]
      BY <2>1 DEF RotateKey, AddVerifyKey
    <3>5. \A k \in KeyIds : \A type \in verifyKeys'[k] \cup rotatedKeys'[k] :
            (k = key /\ type \in types) \/ type \in verifyKeys[k] \cup rotatedKeys[k]
      BY <1>2, <3>1, <3>4
    <3> QED
      BY <1>1, <1>3, <3>3, <3>5 DEF KeysEntitled
  <2>2. ASSUME Crash PROVE KeysEntitled'
    <3>1. rotatedKeys' = rotatedKeys
      BY <2>2 DEF Crash, ReceiverRestart
    <3>2. \A k \in KeyIds : verifyKeys'[k] \subseteq rotatedKeys[k] \cup ProvisionedTypes[k]
      BY <2>2 DEF Crash, ReceiverRestart
    <3>3. \A k \in KeyIds : \A type \in ProvisionedTypes[k] : Entitled(k, type)
      BY DEF Entitled
    <3> QED
      BY <1>1, <1>3, <3>1, <3>2, <3>3 DEF KeysEntitled
  <2>3. ASSUME UNCHANGED <<verifyKeys, rotatedKeys>> PROVE KeysEntitled'
    BY <1>1, <1>3, <2>3 DEF KeysEntitled
  <2> QED
    BY <2>1, <2>2, <2>3, KeyFrame
<1>5. ChainOfTrust'
  <2>1. ASSUME NEW b \in Bundles, Accept(b) PROVE ChainOfTrust'
    <3>1. Type[b] \in verifyKeys[Signer[b]]
      BY <2>1, AcceptedMeans DEF Accept, Authentic
    <3>2. Entitled(Signer[b], Type[b])
      BY <1>1, <1>2, <3>1 DEF KeysEntitled
    <3>3. \A d \in Bundles : accepted'[d] > 0 => d = b \/ accepted[d] > 0
      BY <1>2, <2>1 DEF Accept
    <3> QED
      BY <1>1, <1>2, <1>3, <3>2, <3>3 DEF ChainOfTrust
  <2>2. ASSUME accepted' = accepted PROVE ChainOfTrust'
    BY <1>1, <1>2, <1>3, <2>2 DEF ChainOfTrust
  <2>3. ASSUME NEW c \in Commands, SetFloor(c) PROVE accepted' = accepted
    BY <2>3 DEF SetFloor, SetSequenceFloor
  <2> QED
    BY <2>1, <2>2, <2>3, MarkFrame
<1> QED
  BY <1>4, <1>5

\* Only a rotation key extends trust: no accepted bundle, over any history of
\* deliveries, rotations and restarts, was signed by a key nobody entitled.
THEOREM TrustIsChained == Spec => []ChainOfTrust
<1>1. Init => KeysEntitled /\ ChainOfTrust
  <2> SUFFICES ASSUME Init PROVE KeysEntitled /\ ChainOfTrust
    OBVIOUS
  <2>1. /\ verifyKeys = ProvisionedTypes /\ \A k \in KeyIds : rotatedKeys[k] = {}
        /\ \A b \in Bundles : accepted[b] = 0
    BY DEF Init, ReceiverInit
  <2> QED
    BY <2>1 DEF KeysEntitled, Entitled, ChainOfTrust
<1>2. TrustInv /\ [Next]_vars => TrustInv'
  BY TrustNext
<1>3. TrustInv <=> HeldInv /\ KeysEntitled /\ ChainOfTrust
  BY DEF TrustInv
<1> QED
  BY <1>1, <1>2, <1>3, HeldInvariant, PTL DEF Spec

-----------------------------------------------------------------------------
\* Order.  A signer's commands are applied in sequence because the one applied last
\* is no newer than the mark (so nothing accepted later can be older) and no newer
\* than any command still held (so nothing waiting can be older).
AppliedBelowMark ==
  \A k \in KeyIds \ lowered : lastRun[k] <= highWater[k]

AppliedBelowHeld ==
  \A c \in Commands : Held(c) /\ Signer[c] \notin lowered => lastRun[Signer[c]] <= Sequence[c]

OrderInv == ReplayInv /\ HeldInv /\ AppliedBelowMark /\ AppliedBelowHeld

InOrder == \A k \in KeyIds \ lowered : lastRun'[k] >= lastRun[k]

\* Taking a command: its sequence is covered by the mark, at or above the last one
\* applied, and at or below every command of its signer still held.
LEMMA TakeOrder ==
  ASSUME OrderInv, NEW c \in Commands, Take(c)
  PROVE  /\ lastRun' = [lastRun EXCEPT ![Signer[c]] = Sequence[c]]
         /\ Signer[c] \notin lowered => /\ lastRun[Signer[c]] <= Sequence[c]
                                       /\ Sequence[c] <= highWater[Signer[c]]
         /\ \A d \in Commands : Held(d) => Sequence[c] <= Sequence[d]
<1>1. /\ c \in Bundles /\ Held(c) /\ accepted[c] > 0
  BY TakenIsHeld, CommandParams DEF OrderInv, HeldInv, HeldIsAccepted
<1>2. unpacked = None /\ c \in Lowest(inbox["command"])
  BY DEF Take, NextCommand, Idle
<1>3. ASSUME NEW d \in Commands, Held(d) PROVE Sequence[c] <= Sequence[d]
  <2>1. d \in Bundles /\ Type[d] = "command"
    BY DEF Commands
  <2>2. \E box \in Boxes : d \in inbox[box]
    BY <1>2, <1>3, <2>1, ManifestAssumption DEF Held
  <2>3. d \in inbox["command"]
    BY <2>1, <2>2 DEF OrderInv, HeldInv, BoxedByType, BoxOf
  <2> QED
    BY <1>2, <2>3 DEF Lowest
<1>4. lastRun' = [lastRun EXCEPT ![Signer[c]] = Sequence[c]]
  BY DEF Take
<1> QED
  BY <1>1, <1>3, <1>4, CommandParams
  DEF OrderInv, ReplayInv, MarksCoverAccepted, AppliedBelowHeld

\* Executing a command: only a floor command touches the marks.
TakeStep(c) ==
  /\ Take(c)
  /\ SetFloor(c) \/ UNCHANGED <<highWater, lowered>>
  /\ UNCHANGED <<inbox, unpacked>>

\* What a step does to the marks and the last applied sequences.
LEMMA OrderFrame ==
  ASSUME [Next]_vars
  PROVE  \/ \E c \in Commands : TakeStep(c)
         \/ UNCHANGED lastRun /\ \E b \in Bundles : Accept(b)
         \/ UNCHANGED <<highWater, lowered, lastRun>>
<1>1. ASSUME ExecuteCommand
      PROVE  \E c \in Commands : TakeStep(c)
  BY <1>1 DEF ExecuteCommand, StartRun, StopRun, SetRevisionLive, RetireRevision, RotateKey,
       AddVerifyKey, SetFloor, SetSequenceFloor, Refuse, Applies, receiverVars, TakeStep
<1>2. ASSUME NEW b \in Bundles, ReceiveArchive(b)
      PROVE  UNCHANGED lastRun /\ (Accept(b) \/ UNCHANGED <<highWater, lowered>>)
  BY <1>2 DEF ReceiveArchive, Reject, execVars
<1>3. ASSUME \/ DispatchBundle \/ Remove \/ Crash \/ UNCHANGED vars
             \/ HaltByWatchdog \/ HumanClearsHalt
             \/ \E b \in Revisions : WorkerRegisters(b) \/ WorkerFails(b)
      PROVE  UNCHANGED <<highWater, lowered, lastRun>>
  BY <1>3 DEF DispatchBundle, Dispatch, Remove, Crash, ReceiverRestart, WorkerRegisters,
       WorkerFails, HaltByWatchdog, HumanClearsHalt, vars, execVars, receiverVars
<1>4. ASSUME NEW b \in Bundles, ReceiveArchive(b)
      PROVE  \/ UNCHANGED lastRun /\ \E d \in Bundles : Accept(d)
             \/ UNCHANGED <<highWater, lowered, lastRun>>
  BY <1>2, <1>4
<1>5. CASE ExecuteCommand
  BY <1>1, <1>5
<1>6. CASE \E b \in Bundles : ReceiveArchive(b)
  BY <1>4, <1>6
<1>7. CASE \/ DispatchBundle \/ Remove \/ Crash \/ UNCHANGED vars
           \/ HaltByWatchdog \/ HumanClearsHalt
           \/ \E b \in Revisions : WorkerRegisters(b) \/ WorkerFails(b)
  BY <1>3, <1>7
<1> QED
  BY <1>5, <1>6, <1>7 DEF Next

\* Every step keeps the commands applied below the mark and below those that wait.
LEMMA OrderNext ==
  ASSUME OrderInv, [Next]_vars
  PROVE  AppliedBelowMark' /\ AppliedBelowHeld' /\ InOrder
<1>1. /\ TypeOK /\ TypeOK' /\ AppliedBelowMark /\ AppliedBelowHeld
  BY TypeNext DEF OrderInv, ReplayInv
<1>2. /\ highWater \in [KeyIds -> Nat \cup {NoMark}]
      /\ lastRun \in [KeyIds -> Nat \cup {NoMark}]
      /\ Signer \in [Bundles -> KeyIds]
      /\ Sequence \in [Bundles -> Nat]
      /\ Commands \subseteq Bundles
  BY <1>1, ManifestAssumption DEF TypeOK, ReceiverTypeOK, Commands
<1>3. \A b \in Bundles : Held(b)' => Held(b) \/ Accept(b)
  BY <1>1, HeldFrame
<1>4. ASSUME NEW c \in Commands, TakeStep(c)
      PROVE  AppliedBelowMark' /\ AppliedBelowHeld' /\ InOrder
  <2>1. /\ lastRun' = [lastRun EXCEPT ![Signer[c]] = Sequence[c]]
        /\ Signer[c] \notin lowered => /\ lastRun[Signer[c]] <= Sequence[c]
                                      /\ Sequence[c] <= highWater[Signer[c]]
        /\ \A d \in Commands : Held(d) => Sequence[c] <= Sequence[d]
    BY <1>4, TakeOrder DEF TakeStep
  <2>2. /\ lowered \subseteq lowered'
        /\ \A k \in KeyIds \ lowered' : highWater[k] <= highWater'[k]
    <3>1. CASE SetFloor(c)
      <4>1. Command[c].key \in KeyIds /\ Command[c].floor \in Nat
        BY <3>1, CommandParams, AppliedIsExact DEF SetFloor, Applies
      <4> QED
        BY <1>2, <3>1, <4>1 DEF SetFloor, SetSequenceFloor, NoMark
    <3>2. CASE UNCHANGED <<highWater, lowered>>
      BY <1>2, <3>2 DEF NoMark
    <3> QED
      BY <1>4, <3>1, <3>2 DEF TakeStep
  <2>3. \A d \in Bundles : Held(d)' <=> Held(d)
    BY <1>4 DEF Held, TakeStep
  <2>4. InOrder
    BY <1>2, <2>1 DEF InOrder, NoMark
  <2>5. AppliedBelowMark'
    <3> SUFFICES ASSUME NEW k \in KeyIds \ lowered' PROVE lastRun'[k] <= highWater'[k]
      BY DEF AppliedBelowMark
    <3>1. k \notin lowered /\ highWater[k] <= highWater'[k] /\ lastRun[k] <= highWater[k]
      BY <1>1, <2>2 DEF AppliedBelowMark
    <3>2. lastRun'[k] <= highWater[k]
      BY <1>2, <2>1, <3>1
    <3>3. highWater'[k] \in Nat \cup {NoMark} /\ lastRun'[k] \in Nat \cup {NoMark}
      BY <1>1 DEF TypeOK, ReceiverTypeOK
    <3> QED
      BY <1>2, <3>1, <3>2, <3>3 DEF NoMark
  <2>6. AppliedBelowHeld'
    <3> SUFFICES ASSUME NEW d \in Commands, Held(d), Signer[d] \notin lowered
                 PROVE  lastRun'[Signer[d]] <= Sequence[d]
      BY <1>2, <2>2, <2>3 DEF AppliedBelowHeld
    <3>1. lastRun[Signer[d]] <= Sequence[d]
      BY <1>1 DEF AppliedBelowHeld
    <3> QED
      BY <1>2, <2>1, <3>1
  <2> QED
    BY <2>4, <2>5, <2>6
<1>5. ASSUME UNCHANGED lastRun, lowered' = lowered,
             \A k \in KeyIds : highWater'[k] >= highWater[k]
      PROVE  AppliedBelowMark' /\ AppliedBelowHeld' /\ InOrder
  <2>1. InOrder
    BY <1>2, <1>5 DEF InOrder, NoMark
  <2>2. AppliedBelowMark'
    <3>1. highWater' \in [KeyIds -> Nat \cup {NoMark}]
      BY <1>1 DEF TypeOK, ReceiverTypeOK
    <3> QED
      BY <1>1, <1>2, <1>5, <3>1 DEF AppliedBelowMark, NoMark
  <2>3. AppliedBelowHeld'
    <3> SUFFICES ASSUME NEW d \in Commands, Held(d)', Signer[d] \notin lowered
                 PROVE  lastRun[Signer[d]] <= Sequence[d]
      BY <1>5 DEF AppliedBelowHeld
    <3>1. CASE Held(d)
      BY <1>1, <3>1 DEF AppliedBelowHeld
    <3>2. CASE Accept(d)
      <4>1. highWater[Signer[d]] < Sequence[d]
        BY <1>1, <1>2, <3>2, AcceptRaisesMark
      <4>2. lastRun[Signer[d]] <= highWater[Signer[d]]
        BY <1>1, <1>2 DEF AppliedBelowMark
      <4> QED
        BY <1>2, <4>1, <4>2 DEF NoMark
    <3> QED
      BY <1>2, <1>3, <3>1, <3>2
  <2> QED
    BY <2>1, <2>2, <2>3
<1>6. ASSUME UNCHANGED lastRun, NEW b \in Bundles, Accept(b)
      PROVE  AppliedBelowMark' /\ AppliedBelowHeld' /\ InOrder
  <2>1. lowered' = lowered /\ \A k \in KeyIds : highWater'[k] >= highWater[k]
    BY <1>1, <1>2, <1>6, AcceptRaisesMark DEF NoMark
  <2> QED
    BY <1>5, <1>6, <2>1
<1>7. ASSUME UNCHANGED <<highWater, lowered, lastRun>>
      PROVE  AppliedBelowMark' /\ AppliedBelowHeld' /\ InOrder
  <2>1. \A k \in KeyIds : highWater'[k] >= highWater[k]
    BY <1>2, <1>7 DEF NoMark
  <2> QED
    BY <1>5, <1>7, <2>1
<1> QED
  BY <1>4, <1>6, <1>7, OrderFrame

\* The commands applied stay below the mark and below those that wait.
LEMMA OrderInvariant == Spec => []OrderInv
<1>1. Init => AppliedBelowMark /\ AppliedBelowHeld
  <2> SUFFICES ASSUME Init PROVE AppliedBelowMark /\ AppliedBelowHeld
    OBVIOUS
  <2>1. /\ \A k \in KeyIds : lastRun[k] = NoMark /\ highWater[k] = NoMark
        /\ unpacked = None /\ \A box \in Boxes : inbox[box] = {}
    BY DEF Init, ReceiverInit
  <2>2. AppliedBelowMark
    BY <2>1 DEF AppliedBelowMark, NoMark
  <2>3. AppliedBelowHeld
    BY <2>1, ManifestAssumption DEF AppliedBelowHeld, Held, Commands
  <2> QED
    BY <2>2, <2>3
<1>2. OrderInv /\ [Next]_vars => AppliedBelowMark' /\ AppliedBelowHeld'
  BY OrderNext
<1>3. OrderInv <=> ReplayInv /\ HeldInv /\ AppliedBelowMark /\ AppliedBelowHeld
  BY DEF OrderInv
<1> QED
  BY <1>1, <1>2, <1>3, ReplayInvariant, HeldInvariant, PTL DEF Spec

\* The commands of one signer are applied in the order they were signed, whatever
\* order they arrive in and however often a restart finds one again.
THEOREM CommandOrder == Spec => CommandsInOrder
<1>1. OrderInv /\ [Next]_vars => [\A k \in KeyIds \ lowered : lastRun'[k] >= lastRun[k]]_vars
  BY OrderNext DEF InOrder
<1>2. Spec => [][\A k \in KeyIds \ lowered : lastRun'[k] >= lastRun[k]]_vars
  BY <1>1, OrderInvariant, PTL DEF Spec
<1> QED
  BY <1>2 DEF CommandsInOrder

-----------------------------------------------------------------------------
\* Service.

\* A registration replaces the revision it supersedes by one of the same site.
LEMMA RegisterKeepsSites ==
  ASSUME RegistryTypeOK, NEW b \in Revisions, Register(b)
  PROVE  LiveSites \subseteq LiveSites'
<1> SUFFICES ASSUME NEW c \in LiveRevisions PROVE \E d \in LiveRevisions' : SiteOf[d] = SiteOf[c]
  BY DEF LiveSites
<1>1. b \in LiveRevisions'
  BY DEF Register, LiveRevisions
<1>2. CASE c = Supersedes[b]
  <2>1. SiteOf[b] = SiteOf[c]
    BY <1>2, ManifestAssumption DEF Register, Registrable, LiveRevisions, Revisions
  <2> QED
    BY <1>1, <2>1
<1>3. CASE c # Supersedes[b]
  BY <1>3 DEF Register, LiveRevisions
<1> QED
  BY <1>2, <1>3

\* A site leaves service only by a retire or a set_live command.
THEOREM SitesStayUp == Spec => OnlyCommandsTakeSitesDown
<1> DEFINE ByCommand ==
      executing' \in Commands /\ Command[executing'].op \in {"retire", "set_live"}
<1>1. ASSUME TypeOK, [Next]_vars, NEW s \in LiveSites \ LiveSites' PROVE ByCommand
  <2>1. sites' # sites
    BY <1>1 DEF LiveSites, LiveRevisions
  <2>2. CASE ExecuteCommand
    <3>1. \E c \in Commands : SetRevisionLive(c) \/ RetireRevision(c)
      BY <2>1, <2>2 DEF ExecuteCommand, StartRun, StopRun, SetFloor, RotateKey, Refuse
    <3> QED
      BY <3>1 DEF SetRevisionLive, RetireRevision, Applies, Take
  <2>3. ASSUME NEW b \in Revisions, WorkerRegisters(b) PROVE FALSE
    BY <1>1, <2>3, RegisterKeepsSites DEF WorkerRegisters, TypeOK
  <2>4. ASSUME \/ \E b \in Bundles : ReceiveArchive(b)
               \/ \E b \in Revisions : WorkerFails(b)
               \/ DispatchBundle \/ Remove \/ Crash \/ UNCHANGED vars
               \/ HaltByWatchdog \/ HumanClearsHalt
        PROVE  FALSE
    BY <2>1, <2>4 DEF ReceiveArchive, WorkerFails, DispatchBundle, Remove, Crash, HaltByWatchdog,
         HumanClearsHalt, vars
  <2> QED
    BY <1>1, <2>2, <2>3, <2>4 DEF Next
<1>2. TypeOK /\ [Next]_vars => [\A s \in LiveSites \ LiveSites' : ByCommand]_vars
  BY <1>1
<1>3. Spec => [][\A s \in LiveSites \ LiveSites' : ByCommand]_vars
  BY <1>2, TypeCorrect, PTL DEF Spec
<1> QED
  BY <1>3 DEF OnlyCommandsTakeSitesDown
=============================================================================
