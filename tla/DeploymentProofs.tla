-------------------------- MODULE DeploymentProofs --------------------------
(***************************************************************************)
(* Theorems about worker, go-live, intake and registry, for any bundles,   *)
(* questions and attempts, and any number of restarts and floor commands.  *)
(***************************************************************************)
EXTENDS Deployment, FiniteSetTheorems, TLAPS

Retries == {"timeout", "runner"}

\* How many of the two retries were used is a number.
LEMMA RetryCount ==
  ASSUME NEW used \in SUBSET Retries
  PROVE  /\ Cardinality(used) \in Nat
         /\ \A cause \in Retries \ used : Cardinality(used \cup {cause}) = Cardinality(used) + 1
<1>1. IsFiniteSet({} \cup {"timeout"} \cup {"runner"})
  BY FS_EmptySet, FS_AddElement
<1>2. {} \cup {"timeout"} \cup {"runner"} = Retries
  BY DEF Retries
<1>3. IsFiniteSet(used)
  BY <1>1, <1>2, FS_Subset
<1> QED
  BY <1>3, FS_CardinalityType, FS_AddElement

\* The three operations of the registry keep its type.
LEMMA RegistryKeepsType ==
  ASSUME RegistryTypeOK, NEW b \in Revisions, Register(b) \/ SetLive(b) \/ Retire(b)
  PROVE  RegistryTypeOK'
BY DEF RegistryTypeOK, Register, SetLive, Retire, SiteStatuses

\* What every step of a job leaves alone of the retries.
RetriesOK ==
  /\ attempt \in 1 .. MaxAttempts /\ attempt <= 1 + Cardinality(retried)
  /\ retried \subseteq Retries

\* The bundle in hand is of the kind its step is for, and lies in its inbox.
JobOK ==
  /\ phase = "idle" <=> job = None
  /\ job # None => job \in inbox["worker"] \cup inbox["eval"]
  /\ phase \in {"composed", "passed"} => job \in Revisions
  /\ inbox["worker"] \subseteq Revisions /\ inbox["eval"] \subseteq Evals

Typed == TypeOK /\ JobOK

\* No bundle is both a revision and an eval, and None is none.
LEMMA Kinds ==
  /\ Revisions \cap Evals = {} /\ Revisions \subseteq Bundles /\ Evals \subseteq Bundles
  /\ None \notin Bundles
BY ManifestAssumption DEF Revisions, Evals

\* The types hold at the start.
LEMMA TypeInit == Init => Typed
<1> SUFFICES ASSUME Init PROVE Typed
  OBVIOUS
<1>1. RegistryTypeOK /\ definitions \in [Questions -> Evals \cup {None}]
  BY DEF Init, RegistryInit, RegistryTypeOK, SiteStatuses
<1>2. /\ mark \in [KeyIds -> Nat \cup {NoMark}]
      /\ sandbox \in [Bundles -> {"none", "partial", "whole"}]
      /\ inbox \in [{"worker", "eval"} -> SUBSET Bundles]
  BY DEF Init
<1>3. RetriesOK
  BY RetryCount, DeploymentAssumption, FS_EmptySet DEF Init, RetriesOK
<1>4. /\ job = None /\ phase = "idle" /\ said = "none" /\ crashes = 0
      /\ lowered = {} /\ redone = {} /\ floors = 0
  BY DEF Init
<1>5. inbox["worker"] = {} /\ inbox["eval"] = {}
  BY DEF Init
<1> QED
  BY <1>1, <1>2, <1>3, <1>4, <1>5
  DEF Typed, TypeOK, JobOK, RetriesOK, Retries, Phases, Statuses

\* Putting the job down leaves nothing of it.
LEMMA NextJobType ==
  ASSUME NextJob
  PROVE  /\ job' = None /\ phase' = "idle" /\ said' = "none" /\ RetriesOK'
<1>1. attempt' = 1 /\ retried' = {} /\ Cardinality({}) = 0
  BY FS_EmptySet DEF NextJob
<1> QED
  BY <1>1, DeploymentAssumption DEF NextJob, RetriesOK

\* Taking a bundle up: it is one of its inbox.
LEMMA TakesType ==
  ASSUME Typed, NEW box \in {"worker", "eval"}, NEW b, Takes(box, b),
         phase' \in {"composed", "unsealing", "done"}, UNCHANGED inbox,
         phase' = "composed" => box = "worker"
  PROVE  JobOK' /\ job' \in Bundles /\ UNCHANGED <<attempt, retried>>
<1>1. b \in inbox[box] /\ job' = b /\ UNCHANGED <<attempt, retried>>
  BY DEF Takes, Lowest
<1> QED
  BY <1>1, Kinds DEF Typed, TypeOK, JobOK

\* Going on with the bundle in hand.
LEMMA StepType ==
  ASSUME Typed, NEW from \in Phases, NEW to \in Phases, Step(from, to), UNCHANGED inbox,
         from # "idle", to # "idle", to = "composed" => FALSE,
         to = "passed" => job \notin Evals
  PROVE  JobOK' /\ job' = job /\ job \in Bundles /\ phase' \in Phases
         /\ UNCHANGED <<attempt, retried>>
BY Kinds DEF Typed, TypeOK, JobOK, Step

\* Every step of receiver, worker, intake and command executor keeps the types.
LEMMA TypeNext == Typed /\ [Next]_vars => Typed'
<1> SUFFICES ASSUME Typed, [Next]_vars PROVE Typed'
  OBVIOUS
<1> USE DEF Typed, markVars
<1>1. ASSUME NEW b \in Revisions \cup Evals, Arrive(b) PROVE Typed'
  <2> DEFINE box == IF b \in Evals THEN "eval" ELSE "worker"
  <2>1. /\ inbox' = [inbox EXCEPT ![box] = @ \cup {b}]
        /\ mark' = [mark EXCEPT ![Signer[b]] = Sequence[b]]
        /\ redone' = redone \cup ({b} \cap Finished)
        /\ UNCHANGED <<sites, sandbox, definitions, jobVars, crashes, lowered, floors>>
    BY <1>1 DEF Arrive
  <2>2. mark' \in [KeyIds -> Nat \cup {NoMark}] /\ redone' \subseteq Bundles
    BY <2>1, Kinds, ManifestAssumption DEF TypeOK
  <2>3. /\ inbox' \in [{"worker", "eval"} -> SUBSET Bundles]
        /\ inbox["worker"] \subseteq inbox'["worker"] /\ inbox["eval"] \subseteq inbox'["eval"]
        /\ inbox'["worker"] \subseteq Revisions /\ inbox'["eval"] \subseteq Evals
    BY <2>1, Kinds DEF TypeOK, JobOK
  <2> QED
    BY <2>1, <2>2, <2>3 DEF TypeOK, JobOK, jobVars, RegistryTypeOK
<1>2. ASSUME NEW b \in Revisions, RefuseBundle(b) \/ Compose(b) PROVE Typed'
  <2>1. /\ Takes("worker", b) /\ phase' \in {"composed", "done"}
        /\ said' \in {"composed", "compose_failed"}
        /\ UNCHANGED <<sites, markVars, redone, inbox, sandbox, definitions, crashes>>
    BY <1>2 DEF RefuseBundle, Compose, Emit
  <2>2. JobOK' /\ job' \in Bundles /\ UNCHANGED <<attempt, retried>>
    BY <2>1, TakesType
  <2> QED
    BY <2>1, <2>2 DEF TypeOK, RegistryTypeOK, Phases, Statuses
<1>3. ASSUME NEW e \in Evals,
             EvalNotLive(e) \/ EvalRaises(e) \/ EvalUnfit(e) \/ EvalUnseal(e)
      PROVE  Typed'
  <2>1. /\ Takes("eval", e) /\ phase' \in {"unsealing", "done"}
        /\ said' \in {said, "site_not_live", "unsupported"}
        /\ sandbox' \in {sandbox, [sandbox EXCEPT ![e] = "partial"]}
        /\ UNCHANGED <<sites, markVars, redone, inbox, definitions, crashes>>
    BY <1>3 DEF EvalNotLive, EvalRaises, EvalUnfit, EvalUnseal, Emit
  <2>2. JobOK' /\ job' \in Bundles /\ UNCHANGED <<attempt, retried>>
    BY <2>1, TakesType
  <2> QED
    BY <2>1, <2>2 DEF TypeOK, RegistryTypeOK, Phases, Statuses
<1>4. CASE EmptySandbox \/ GoLivePass \/ GoLiveFails \/ GoLiveGivesUp \/ Raises \/ EvalDecryptFails
  <2>1. /\ \/ Step("composed", "unsealing") \/ Step("unsealing", "done")
           \/ Step("unsealing", "passed") /\ job \notin Evals
        /\ said' \in {said, "decrypt_fail", "compose_failed", "test_fail", "timeout"}
        /\ \E left \in {"none", "partial", "whole"} :
             sandbox' \in {sandbox, [sandbox EXCEPT ![job] = left]}
        /\ UNCHANGED <<sites, markVars, redone, inbox, definitions, crashes>>
    BY <1>4 DEF EmptySandbox, GoLivePass, GoLiveFails, GoLiveGivesUp, Raises, EvalDecryptFails,
         Emit, FinalFailures, Retryable
  <2>2. JobOK' /\ job' = job /\ job \in Bundles /\ phase' \in Phases
        /\ UNCHANGED <<attempt, retried>>
    BY <2>1, StepType DEF Phases
  <2> QED
    BY <2>1, <2>2 DEF TypeOK, RegistryTypeOK, Statuses
<1>5. CASE GoLiveRetries
  <2>1. PICK failure \in Retryable :
          /\ job \notin Evals /\ phase = "unsealing" /\ MayRetry(failure[1])
          /\ sandbox' = [sandbox EXCEPT ![job] = failure[2]]
          /\ retried' = retried \cup {failure[1]}
          /\ \/ AttemptsLeft /\ attempt' = attempt + 1 /\ phase' = "composed" /\ UNCHANGED said
             \/ phase' = "done" /\ UNCHANGED attempt /\ said' = "retries_exhausted"
          /\ UNCHANGED <<sites, markVars, redone, inbox, definitions, job, crashes>>
    BY <1>5 DEF GoLiveRetries, Emit
  <2>2. failure[1] \in Retries \ retried /\ failure[2] \in {"none", "partial"}
    BY <2>1 DEF Retryable, MayRetry, Retries
  <2>3. Cardinality(retried) \in Nat /\ Cardinality(retried') = Cardinality(retried) + 1
    BY <2>1, <2>2, RetryCount DEF TypeOK, Retries
  <2>4. RetriesOK'
    <3>1. attempt \in 1 .. MaxAttempts /\ attempt <= 1 + Cardinality(retried) /\ MaxAttempts \in Nat
      BY DeploymentAssumption DEF TypeOK
    <3>2. retried' \subseteq Retries
      BY <2>1, <2>2 DEF TypeOK, Retries
    <3>3. CASE AttemptsLeft /\ attempt' = attempt + 1
      <4>1. attempt' \in 1 .. MaxAttempts
        BY <3>1, <3>3 DEF AttemptsLeft
      <4>2. attempt' <= 1 + Cardinality(retried')
        BY <2>3, <3>1, <3>3
      <4> QED
        BY <3>2, <4>1, <4>2 DEF RetriesOK
    <3>4. CASE UNCHANGED attempt
      <4>1. attempt' <= 1 + Cardinality(retried')
        BY <2>3, <3>1, <3>4
      <4> QED
        BY <3>1, <3>2, <3>4, <4>1 DEF RetriesOK
    <3> QED
      BY <2>1, <3>3, <3>4
  <2>5. JobOK' /\ job \in Bundles
    BY <2>1, Kinds DEF JobOK, TypeOK
  <2> QED
    BY <2>1, <2>2, <2>4, <2>5 DEF TypeOK, RegistryTypeOK, RetriesOK, Retries, Phases, Statuses
<1>6. CASE RegisterSite \/ RegisterRaises
  <2>1. /\ Step("passed", "done") /\ said' \in {"live", "pass"}
        /\ UNCHANGED <<markVars, redone, inbox, sandbox, definitions, crashes>>
        /\ Register(job) \/ UNCHANGED sites
    BY <1>6 DEF RegisterSite, RegisterRaises, Emit
  <2>2. JobOK' /\ job' = job /\ job \in Bundles /\ phase' \in Phases
        /\ UNCHANGED <<attempt, retried>>
    BY <2>1, StepType DEF Phases
  <2>3. RegistryTypeOK'
    BY <2>1, RegistryKeepsType DEF TypeOK, RegistryTypeOK, Register
  <2> QED
    BY <2>1, <2>2, <2>3 DEF TypeOK, Statuses
<1>7. CASE FileEval
  <2>1. /\ job \in Evals /\ Step("unsealing", "done") /\ said' = "filed"
        /\ sandbox' = [sandbox EXCEPT ![job] = "whole"]
        /\ definitions' = [definitions EXCEPT ![QuestionOf[job]] = job]
        /\ UNCHANGED <<sites, markVars, redone, inbox, crashes>>
    BY <1>7 DEF FileEval, Emit
  <2>2. JobOK' /\ job' = job /\ job \in Bundles /\ phase' \in Phases
        /\ UNCHANGED <<attempt, retried>>
    BY <2>1, StepType DEF Phases
  <2> QED
    BY <2>1, <2>2, DeploymentAssumption DEF TypeOK, RegistryTypeOK, Statuses
<1>8. CASE LeaveInbox
  <2>1. NextJob /\ inbox' = [box \in DOMAIN inbox |-> inbox[box] \ {job}]
        /\ UNCHANGED <<sites, markVars, redone, sandbox, definitions, crashes>>
    BY <1>8 DEF LeaveInbox
  <2>2. /\ inbox' \in [{"worker", "eval"} -> SUBSET Bundles]
        /\ inbox'["worker"] \subseteq Revisions /\ inbox'["eval"] \subseteq Evals
    BY <2>1 DEF TypeOK, JobOK
  <2> QED
    BY <2>1, <2>2, NextJobType
    DEF TypeOK, RegistryTypeOK, JobOK, RetriesOK, Retries, Phases, Statuses
<1>9. ASSUME NEW b \in Revisions, Rollback(b) \/ RetireByCommand(b) PROVE Typed'
  <2>1. SetLive(b) \/ Retire(b)
    BY <1>9 DEF Rollback, RetireByCommand
  <2>2. UNCHANGED <<markVars, redone, inbox, sandbox, definitions, jobVars, crashes>>
    BY <1>9 DEF Rollback, RetireByCommand
  <2> QED
    BY <2>1, <2>2, RegistryKeepsType DEF TypeOK, JobOK, jobVars
<1>10. CASE Crash
  <2>1. NextJob /\ crashes' = crashes + 1
        /\ redone' = redone \cup ({job} \cap Finished)
        /\ UNCHANGED <<sites, markVars, inbox, sandbox, definitions>>
    BY <1>10 DEF Crash
  <2>2. Finished \subseteq Bundles
    BY Kinds DEF TypeOK, Finished, Filed
  <2> QED
    BY <2>1, <2>2, NextJobType
    DEF TypeOK, RegistryTypeOK, JobOK, RetriesOK, Retries, Phases, Statuses
<1>11. ASSUME NEW k \in KeyIds, NEW floor \in Floors, SetFloor(k, floor) PROVE Typed'
  <2>1. /\ mark' = [mark EXCEPT ![k] = floor] /\ lowered' \in {lowered, lowered \cup {k}}
        /\ floors' = floors + 1
        /\ UNCHANGED <<sites, redone, inbox, sandbox, definitions, jobVars, crashes>>
    BY <1>11 DEF SetFloor
  <2>2. mark' \in [KeyIds -> Nat \cup {NoMark}]
    BY <2>1, DeploymentAssumption DEF TypeOK
  <2> QED
    BY <2>1, <2>2 DEF TypeOK, JobOK, jobVars, RegistryTypeOK
<1>12. CASE UNCHANGED vars
  BY <1>12 DEF vars, jobVars, TypeOK, RegistryTypeOK, JobOK
<1> QED
  BY <1>1, <1>2, <1>3, <1>4, <1>5, <1>6, <1>7, <1>8, <1>9, <1>10, <1>11, <1>12
  DEF Next, Working, GoLive

\* Every variable of the deployment keeps its type, and a job never makes more
\* attempts than it has used retries for.
THEOREM TypeCorrect == Spec => []TypeOK
<1>1. Typed => TypeOK
  BY DEF Typed
<1> QED
  BY <1>1, TypeInit, TypeNext, PTL DEF Spec

-----------------------------------------------------------------------------
\* What is in an inbox or finished was let in by its signer's sequence, and still lies
\* under the mark unless a command lowered it.
LetIn ==
  \A b \in inbox["worker"] \cup inbox["eval"] \cup Finished :
    Signer[b] \in lowered \/ Sequence[b] <= mark[Signer[b]]

\* What is finished, and was not let in or taken up again since, is whole and in no inbox
\* but as the job that has just finished it; go-live passes a whole sandbox.
FinishedOnce ==
  /\ \A b \in Finished \ redone :
       /\ sandbox[b] = "whole"
       /\ b \in inbox["worker"] \cup inbox["eval"] => b = job /\ phase = "done"
  /\ phase = "passed" => sandbox[job] = "whole"

\* What was done again was so for one of the two reasons.
RedoneWhy == \A b \in redone : Signer[b] \in lowered \/ crashes > 0

DeployInv == LetIn /\ FinishedOnce /\ RedoneWhy

\* What is finished is a bundle, and its fields have their types.
LEMMA FinishedFacts ==
  ASSUME Typed
  PROVE  /\ Finished \subseteq Revisions \cup Evals
         /\ \A b \in Bundles : Sequence[b] \in Nat /\ Signer[b] \in KeyIds
         /\ \A k \in KeyIds : mark[k] \in Int
         /\ crashes \in Nat /\ inbox["worker"] \cup inbox["eval"] \subseteq Revisions \cup Evals
BY ManifestAssumption DEF Typed, TypeOK, JobOK, Finished, Filed, NoMark

\* What a step changes decides what it finishes.
LEMMA LetInKept ==
  ASSUME LetIn, UNCHANGED <<mark, lowered>>,
         inbox'["worker"] \subseteq inbox["worker"], inbox'["eval"] \subseteq inbox["eval"],
         Finished' \subseteq Finished \cup inbox["worker"] \cup inbox["eval"]
  PROVE  LetIn'
BY DEF LetIn

\* A finished bundle is not the one in hand before its job has come to the end.
LEMMA NotInHand ==
  ASSUME Typed, DeployInv, NEW b \in Finished \ redone, phase # "done"
  PROVE  b \notin inbox["worker"] \cup inbox["eval"] /\ b # job
<1>1. b \notin inbox["worker"] \cup inbox["eval"]
  BY DEF DeployInv, FinishedOnce
<1>2. b # None
  BY FinishedFacts, Kinds
<1> QED
  BY <1>1, <1>2 DEF Typed, JobOK

\* A job that goes on, or a bundle that is taken up, touches no sandbox but its own.
LEMMA JobGoesOn ==
  ASSUME Typed, DeployInv, phase # "done", UNCHANGED <<sites, markVars, redone, inbox, definitions, crashes>>,
         (phase = "idle" /\ job' \in inbox["worker"] \cup inbox["eval"]) \/ job' = job,
         \A b \in Bundles \ {job'} : sandbox'[b] = sandbox[b],
         phase' = "passed" => sandbox'[job'] = "whole"
  PROVE  DeployInv'
<1>1. Finished' = Finished
  BY DEF Finished, Filed
<1>2. LetIn' /\ RedoneWhy'
  BY <1>1, LetInKept DEF DeployInv, RedoneWhy, markVars
<1>3. ASSUME NEW b \in Finished \ redone
      PROVE  sandbox'[b] = "whole" /\ b \notin inbox["worker"] \cup inbox["eval"]
  <2>1. b \notin inbox["worker"] \cup inbox["eval"] /\ b # job /\ b \in Bundles
    BY <1>3, NotInHand, FinishedFacts, Kinds
  <2>2. sandbox[b] = "whole"
    BY <1>3 DEF DeployInv, FinishedOnce
  <2> QED
    BY <2>1, <2>2
<1>4. FinishedOnce'
  BY <1>1, <1>3 DEF FinishedOnce
<1> QED
  BY <1>2, <1>4 DEF DeployInv

\* A job that finishes its bundle leaves it whole.
LEMMA JobFinishes ==
  ASSUME Typed, DeployInv, phase \in {"passed", "unsealing"}, phase' = "done", job' = job,
         job \in Bundles, UNCHANGED <<markVars, redone, inbox, crashes>>,
         Finished' \subseteq Finished \cup {job},
         \A b \in Bundles \ {job} : sandbox'[b] = sandbox[b], sandbox'[job] = "whole"
  PROVE  DeployInv'
<1>1. job \in inbox["worker"] \cup inbox["eval"]
  BY Kinds DEF Typed, JobOK
<1>2. LetIn' /\ RedoneWhy'
  BY <1>1, LetInKept DEF DeployInv, RedoneWhy, markVars
<1>3. ASSUME NEW b \in Finished' \ redone
      PROVE  /\ sandbox'[b] = "whole"
             /\ b \in inbox["worker"] \cup inbox["eval"] => b = job
  <2>1. CASE b = job
    BY <1>3, <2>1
  <2>2. CASE b # job
    <3>1. b \in Finished /\ b \in Bundles
      BY <1>3, <2>2, FinishedFacts, Kinds
    <3> QED
      BY <1>3, <2>2, <3>1, NotInHand DEF DeployInv, FinishedOnce
  <2> QED
    BY <2>1, <2>2
<1>4. FinishedOnce'
  BY <1>3 DEF FinishedOnce
<1> QED
  BY <1>2, <1>4 DEF DeployInv

\* Every step keeps what is finished whole and let in.
LEMMA DeployNext == Typed /\ DeployInv /\ [Next]_vars => DeployInv'
<1> SUFFICES ASSUME Typed, DeployInv, [Next]_vars PROVE DeployInv'
  OBVIOUS
<1>1. ASSUME NEW b \in Revisions \cup Evals, Arrive(b) PROVE DeployInv'
  <2> DEFINE box == IF b \in Evals THEN "eval" ELSE "worker"
  <2>1. /\ Sequence[b] > mark[Signer[b]]
        /\ inbox' = [inbox EXCEPT ![box] = @ \cup {b}]
        /\ mark' = [mark EXCEPT ![Signer[b]] = Sequence[b]]
        /\ redone' = redone \cup ({b} \cap Finished)
        /\ UNCHANGED <<sites, sandbox, definitions, jobVars, crashes, lowered, floors>>
    BY <1>1 DEF Arrive
  <2>2. Finished' = Finished /\ b \in Bundles /\ b # None
    BY <2>1, Kinds DEF Finished, Filed
  <2>3. inbox'["worker"] \cup inbox'["eval"] = inbox["worker"] \cup inbox["eval"] \cup {b}
    BY <2>1 DEF Typed, TypeOK
  <2>4. inbox["worker"] \cup inbox["eval"] \cup Finished \subseteq Bundles
    BY FinishedFacts, Kinds DEF Typed, TypeOK
  <2>5. \A k \in KeyIds : mark[k] <= mark'[k] /\ mark'[k] \in Int
    BY <2>1, <2>2, FinishedFacts DEF Typed, TypeOK
  <2>6. mark'[Signer[b]] = Sequence[b]
    BY <2>1, <2>2, FinishedFacts DEF Typed, TypeOK
  <2>7. LetIn'
    <3>1. ASSUME NEW c \in inbox["worker"] \cup inbox["eval"] \cup Finished,
                 Signer[c] \notin lowered
          PROVE  Sequence[c] <= mark'[Signer[c]]
      <4>1. Sequence[c] <= mark[Signer[c]] /\ Signer[c] \in KeyIds /\ Sequence[c] \in Nat
        BY <2>4, <3>1, FinishedFacts DEF DeployInv, LetIn
      <4> QED
        BY <2>5, <4>1, FinishedFacts
    <3>2. Sequence[b] <= mark'[Signer[b]]
      BY <2>2, <2>6, FinishedFacts
    <3> QED
      BY <2>1, <2>2, <2>3, <3>1, <3>2 DEF LetIn
  <2>8. b \in Finished => Signer[b] \in lowered
    BY <2>1, <2>2, FinishedFacts DEF DeployInv, LetIn
  <2>9. FinishedOnce' /\ RedoneWhy'
    BY <2>1, <2>2, <2>3, <2>8 DEF DeployInv, FinishedOnce, RedoneWhy, jobVars
  <2> QED
    BY <2>7, <2>9 DEF DeployInv
<1>2. ASSUME NEW b \in Revisions, RefuseBundle(b) \/ Compose(b) PROVE DeployInv'
  <2>1. /\ phase = "idle" /\ phase' # "passed" /\ job' \in inbox["worker"] \cup inbox["eval"]
        /\ UNCHANGED <<sites, markVars, redone, inbox, definitions, crashes>> /\ UNCHANGED sandbox
    BY <1>2 DEF RefuseBundle, Compose, Takes, Lowest
  <2> QED
    BY <2>1, JobGoesOn
<1>3. ASSUME NEW e \in Evals,
             EvalNotLive(e) \/ EvalRaises(e) \/ EvalUnfit(e) \/ EvalUnseal(e)
      PROVE  DeployInv'
  <2>1. /\ phase = "idle" /\ phase' # "passed" /\ job' \in inbox["worker"] \cup inbox["eval"]
        /\ UNCHANGED <<sites, markVars, redone, inbox, definitions, crashes>>
        /\ sandbox' \in {sandbox, [sandbox EXCEPT ![job'] = "partial"]}
    BY <1>3 DEF EvalNotLive, EvalRaises, EvalUnfit, EvalUnseal, Takes, Lowest
  <2>2. \A b \in Bundles \ {job'} : sandbox'[b] = sandbox[b]
    BY <2>1 DEF Typed, TypeOK
  <2> QED
    BY <2>1, <2>2, JobGoesOn
<1>4. CASE \/ EmptySandbox \/ GoLivePass \/ GoLiveFails \/ GoLiveRetries \/ GoLiveGivesUp \/ Raises
           \/ EvalDecryptFails \/ RegisterRaises
  <2>1. /\ phase # "done" /\ job' = job
        /\ UNCHANGED <<sites, markVars, redone, inbox, definitions, crashes>>
        /\ \/ UNCHANGED sandbox
           \/ \E left : sandbox' = [sandbox EXCEPT ![job] = left]
        /\ phase' = "passed" => job \notin Evals /\ sandbox' = [sandbox EXCEPT ![job] = "whole"]
                                /\ phase = "unsealing"
    BY <1>4 DEF EmptySandbox, GoLivePass, GoLiveFails, GoLiveRetries, GoLiveGivesUp, Raises,
         EvalDecryptFails, RegisterRaises, Step
  <2>2. \A b \in Bundles \ {job'} : sandbox'[b] = sandbox[b]
    BY <2>1 DEF Typed, TypeOK
  <2>3. phase' = "passed" => sandbox'[job'] = "whole"
    BY <2>1, Kinds DEF Typed, TypeOK, JobOK
  <2>4. /\ phase # "done"
        /\ (phase = "idle" /\ job' \in inbox["worker"] \cup inbox["eval"]) \/ job' = job
        /\ UNCHANGED <<sites, markVars, redone, inbox, definitions, crashes>>
    BY <2>1
  <2> QED
    BY <2>2, <2>3, <2>4, JobGoesOn
<1>5. CASE RegisterSite
  <2>1. /\ phase = "passed" /\ phase' = "done" /\ job' = job /\ Register(job)
        /\ UNCHANGED <<markVars, redone, inbox, sandbox, definitions, crashes>>
    BY <1>5 DEF RegisterSite, Step
  <2>2. Finished' \subseteq Finished \cup {job}
    <3>1. ASSUME NEW c \in Revisions, sites'[c] # "absent", c # job
          PROVE  sites[c] # "absent"
      <4>1. CASE c = Supersedes[job]
        BY <2>1, <4>1, Kinds DEF Register, Registrable
      <4>2. CASE c # Supersedes[job]
        BY <2>1, <3>1, <4>2 DEF Register
      <4> QED
        BY <4>1, <4>2
    <3>2. Filed' = Filed
      BY <2>1 DEF Filed
    <3> QED
      BY <3>1, <3>2 DEF Finished
  <2>3. job \in Bundles /\ sandbox[job] = "whole"
    BY <2>1, Kinds DEF Register, DeployInv, FinishedOnce
  <2> QED
    BY <2>1, <2>2, <2>3, JobFinishes
<1>6. CASE FileEval
  <2>1. /\ job \in Evals /\ phase = "unsealing" /\ phase' = "done" /\ job' = job
        /\ sandbox' = [sandbox EXCEPT ![job] = "whole"]
        /\ definitions' = [definitions EXCEPT ![QuestionOf[job]] = job]
        /\ UNCHANGED <<sites, markVars, redone, inbox, crashes>>
    BY <1>6 DEF FileEval, Step
  <2>2. Finished' \subseteq Finished \cup {job}
    BY <2>1 DEF Finished, Filed, Typed, TypeOK
  <2>3. /\ job \in Bundles /\ sandbox'[job] = "whole"
        /\ \A b \in Bundles \ {job} : sandbox'[b] = sandbox[b]
    BY <2>1, Kinds DEF Typed, TypeOK
  <2> QED
    BY <2>1, <2>2, <2>3, JobFinishes
<1>7. CASE LeaveInbox
  <2>1. /\ inbox' = [box \in DOMAIN inbox |-> inbox[box] \ {job}]
        /\ phase = "done" /\ phase' = "idle"
        /\ UNCHANGED <<sites, markVars, redone, sandbox, definitions, crashes>>
    BY <1>7 DEF LeaveInbox, NextJob
  <2>2. Finished' = Finished
    BY <2>1 DEF Finished, Filed
  <2>3. /\ inbox'["worker"] = inbox["worker"] \ {job} /\ inbox'["eval"] = inbox["eval"] \ {job}
    BY <2>1 DEF Typed, TypeOK
  <2>4. LetIn'
    BY <2>1, <2>2, <2>3, LetInKept DEF DeployInv, markVars
  <2> QED
    BY <2>1, <2>2, <2>3, <2>4 DEF DeployInv, FinishedOnce, RedoneWhy, markVars
<1>8. ASSUME NEW b \in Revisions, Rollback(b) \/ RetireByCommand(b) PROVE DeployInv'
  <2>1. UNCHANGED <<markVars, redone, inbox, sandbox, definitions, jobVars, crashes>>
    BY <1>8 DEF Rollback, RetireByCommand
  <2>2. {c \in Revisions : sites'[c] # "absent"} \subseteq {c \in Revisions : sites[c] # "absent"}
    BY <1>8 DEF Rollback, RetireByCommand, SetLive, Retire, Holders, LiveRevisions,
         Typed, TypeOK, RegistryTypeOK
  <2>3. Finished' \subseteq Finished
    BY <2>1, <2>2 DEF Finished, Filed
  <2> QED
    BY <2>1, <2>3, LetInKept DEF DeployInv, FinishedOnce, RedoneWhy, jobVars, markVars
<1>9. CASE Crash
  <2>1. /\ crashes' = crashes + 1 /\ job' = None /\ phase' = "idle"
        /\ redone' = redone \cup ({job} \cap Finished)
        /\ UNCHANGED <<sites, markVars, inbox, sandbox, definitions>>
    BY <1>9 DEF Crash, NextJob
  <2>2. Finished' = Finished
    BY <2>1 DEF Finished, Filed
  <2>3. LetIn'
    BY <2>1, <2>2, LetInKept DEF DeployInv, markVars
  <2>4. crashes' > 0
    BY <2>1, FinishedFacts
  <2>5. FinishedOnce' /\ RedoneWhy'
    BY <2>1, <2>2, <2>4 DEF DeployInv, FinishedOnce, RedoneWhy
  <2> QED
    BY <2>3, <2>5 DEF DeployInv
<1>10. ASSUME NEW k \in KeyIds, NEW floor \in Floors, SetFloor(k, floor) PROVE DeployInv'
  <2>1. /\ mark' = [mark EXCEPT ![k] = floor]
        /\ lowered' = IF floor < mark[k] THEN lowered \cup {k} ELSE lowered
        /\ UNCHANGED <<sites, redone, inbox, sandbox, definitions, jobVars, crashes>>
    BY <1>10 DEF SetFloor
  <2>2. Finished' = Finished /\ lowered \subseteq lowered'
    BY <2>1 DEF Finished, Filed
  <2>3. floor \in Nat /\ mark[k] \in Int /\ mark'[k] = floor
    BY <2>1, DeploymentAssumption, FinishedFacts DEF Typed, TypeOK
  <2>4. ASSUME NEW c \in inbox["worker"] \cup inbox["eval"] \cup Finished,
               Signer[c] \notin lowered'
        PROVE  Sequence[c] <= mark'[Signer[c]]
    <3>1. Sequence[c] \in Nat /\ Signer[c] \in KeyIds /\ Sequence[c] <= mark[Signer[c]]
      BY <2>2, <2>4, FinishedFacts, Kinds DEF DeployInv, LetIn
    <3>2. CASE Signer[c] = k
      <4>1. mark[k] <= floor
        BY <2>1, <2>3, <2>4, <3>2
      <4> QED
        BY <2>3, <3>1, <3>2, <4>1
    <3>3. CASE Signer[c] # k
      BY <2>1, <3>1, <3>3 DEF Typed, TypeOK
    <3> QED
      BY <3>2, <3>3
  <2>5. FinishedOnce' /\ RedoneWhy'
    BY <2>1, <2>2 DEF DeployInv, FinishedOnce, RedoneWhy, jobVars
  <2> QED
    BY <2>1, <2>2, <2>4, <2>5 DEF DeployInv, LetIn
<1>11. CASE UNCHANGED vars
  BY <1>11, LetInKept DEF vars, jobVars, markVars, DeployInv, FinishedOnce, RedoneWhy, Finished, Filed
<1> QED
  BY <1>1, <1>2, <1>3, <1>4, <1>5, <1>6, <1>7, <1>8, <1>9, <1>10, <1>11 DEF Next, Working, GoLive

\* Nothing is finished at the start.
LEMMA DeployInvInit == Init => DeployInv
<1> SUFFICES ASSUME Init PROVE DeployInv
  OBVIOUS
<1>1. Finished = {}
  BY DEF Init, RegistryInit, Finished, Filed
<1>2. inbox["worker"] \cup inbox["eval"] = {} /\ phase = "idle" /\ redone = {}
  BY DEF Init
<1> QED
  BY <1>1, <1>2 DEF DeployInv, LetIn, FinishedOnce, RedoneWhy

\* Every revision the registry may serve or roll back to has the sandbox its suite
\* passed in, unless a lowered mark or a restart had it done again.
THEOREM ServableOnceRegistered == Spec => []RegisteredIsServable
<1>1. DeployInv => RegisteredIsServable
  BY DEF DeployInv, FinishedOnce, RedoneWhy, Finished, RegisteredIsServable, DoneAgain
<1> QED
  BY <1>1, TypeInit, TypeNext, DeployInvInit, DeployNext, PTL DEF Spec

\* What is filed was unsealed to the end, unless a lowered mark or a restart had it done
\* again.
THEOREM WholeOnceFiled == Spec => []FiledIsWhole
<1>1. DeployInv => FiledIsWhole
  BY DEF DeployInv, FinishedOnce, RedoneWhy, Finished, Filed, FiledIsWhole, DoneAgain
<1> QED
  BY <1>1, TypeInit, TypeNext, DeployInvInit, DeployNext, PTL DEF Spec

-----------------------------------------------------------------------------
\* The evals of one question come from one signer: sequences of two do not compare.
OneSignerEach ==
  \A e, f \in Evals : QuestionOf[e] = QuestionOf[f] => Signer[e] = Signer[f]

\* What an eval that is still to be filed must not fall behind, if its signer's mark was
\* never lowered: the one that is filed for its question, and the one in hand.
NotBefore(e) ==
  Signer[e] \in lowered \/
  /\ definitions[QuestionOf[e]] # None => Sequence[definitions[QuestionOf[e]]] <= Sequence[e]
  /\ job \in Evals /\ QuestionOf[job] = QuestionOf[e] => Sequence[job] <= Sequence[e]

\* A definition is filed under its own question.
FiledAsAsked == \A q \in Questions : definitions[q] # None => QuestionOf[definitions[q]] = q

OrderInv == FiledAsAsked /\ \A e \in inbox["eval"] : NotBefore(e)

\* Nothing waits and nothing is filed at the start.
LEMMA OrderInit == Init => OrderInv
BY DEF Init, OrderInv, FiledAsAsked

\* A bundle that is taken up is the lowest that waits; one that is not filed yet leaves
\* the definitions alone.
LEMMA OrderTaken ==
  ASSUME Typed, OrderInv, UNCHANGED <<inbox, definitions>>, lowered \subseteq lowered',
         \/ job' = job \/ job' = None
         \/ \E b \in Revisions : job' = b
         \/ \E e \in Evals : Takes("eval", e)
  PROVE  OrderInv'
<1>1. ASSUME NEW e \in inbox["eval"], job' \in Evals PROVE job' = job \/ Sequence[job'] <= Sequence[e]
  BY <1>1, Kinds DEF Takes, Lowest
<1>2. ASSUME NEW e \in inbox["eval"] PROVE NotBefore(e)'
  BY <1>1, <1>2 DEF OrderInv, NotBefore
<1> QED
  BY <1>2 DEF OrderInv, FiledAsAsked

\* Every step keeps what waits behind what is filed, if a question has one signer.
LEMMA OrderNext ==
  ASSUME OneSignerEach
  PROVE  Typed /\ DeployInv /\ OrderInv /\ [Next]_vars => OrderInv'
<1> SUFFICES ASSUME Typed, DeployInv, OrderInv, [Next]_vars PROVE OrderInv'
  OBVIOUS
<1>1. ASSUME NEW b \in Revisions \cup Evals, Arrive(b) PROVE OrderInv'
  <2>1. /\ Sequence[b] > mark[Signer[b]]
        /\ inbox'["eval"] \subseteq inbox["eval"] \cup {b}
        /\ b \notin Evals => inbox'["eval"] = inbox["eval"]
        /\ UNCHANGED <<definitions, job, lowered>>
    BY <1>1 DEF Arrive, jobVars, Typed, TypeOK
  <2>2. ASSUME NEW c \in inbox["worker"] \cup inbox["eval"] \cup Finished, Signer[c] = Signer[b],
               b \in Bundles, c \in Bundles, Signer[b] \notin lowered
        PROVE  Sequence[c] <= Sequence[b]
    <3>1. Sequence[c] <= mark[Signer[b]]
      BY <2>2 DEF DeployInv, LetIn
    <3> QED
      BY <2>1, <2>2, <3>1, FinishedFacts
  <2>3. ASSUME b \in Evals, Signer[b] \notin lowered PROVE NotBefore(b)
    <3>1. ASSUME definitions[QuestionOf[b]] # None
          PROVE  Sequence[definitions[QuestionOf[b]]] <= Sequence[b]
      <4>1. /\ QuestionOf[b] \in Questions
            /\ definitions[QuestionOf[b]] \in Evals \cap Finished
            /\ QuestionOf[definitions[QuestionOf[b]]] = QuestionOf[b]
        BY <2>3, <3>1, DeploymentAssumption
        DEF Typed, TypeOK, Finished, Filed, OrderInv, FiledAsAsked
      <4>2. Signer[definitions[QuestionOf[b]]] = Signer[b]
        BY <2>3, <4>1, OneSignerEach DEF OneSignerEach
      <4> QED
        BY <2>2, <2>3, <4>1, <4>2, Kinds
    <3>2. ASSUME job \in Evals, QuestionOf[job] = QuestionOf[b] PROVE Sequence[job] <= Sequence[b]
      <4>1. Signer[job] = Signer[b] /\ job # None /\ job \in Bundles /\ b \in Bundles
        BY <2>3, <3>2, OneSignerEach, Kinds DEF OneSignerEach
      <4>2. job \in inbox["worker"] \cup inbox["eval"]
        BY <4>1 DEF Typed, JobOK
      <4> QED
        BY <2>2, <2>3, <4>1, <4>2
    <3> QED
      BY <3>1, <3>2 DEF NotBefore
  <2>4. ASSUME NEW e \in inbox'["eval"] PROVE NotBefore(e)
    BY <2>1, <2>3, <2>4 DEF OrderInv, NotBefore
  <2> QED
    BY <2>1, <2>4 DEF OrderInv, NotBefore, FiledAsAsked
<1>2. ASSUME NEW b \in Revisions,
             RefuseBundle(b) \/ Compose(b) \/ Rollback(b) \/ RetireByCommand(b)
      PROVE  OrderInv'
  <2>1. (job' = b \/ job' = job) /\ UNCHANGED <<inbox, definitions, lowered>>
    BY <1>2 DEF RefuseBundle, Compose, Rollback, RetireByCommand, Takes, jobVars, markVars
  <2> QED
    BY <2>1, OrderTaken
<1>3. ASSUME NEW e \in Evals,
             EvalNotLive(e) \/ EvalRaises(e) \/ EvalUnfit(e) \/ EvalUnseal(e)
      PROVE  OrderInv'
  <2>1. Takes("eval", e) /\ UNCHANGED <<inbox, definitions, lowered>>
    BY <1>3 DEF EvalNotLive, EvalRaises, EvalUnfit, EvalUnseal, markVars
  <2> QED
    BY <2>1, OrderTaken
<1>4. CASE \/ EmptySandbox \/ GoLive \/ RegisterSite \/ RegisterRaises \/ EvalDecryptFails
           \/ Crash \/ UNCHANGED vars
  <2>1. (job' = job \/ job' = None) /\ UNCHANGED <<inbox, definitions, lowered>>
    BY <1>4 DEF EmptySandbox, GoLive, GoLivePass, GoLiveFails, GoLiveRetries, GoLiveGivesUp, Raises,
         RegisterSite, RegisterRaises, EvalDecryptFails, Crash, Step, NextJob, vars, jobVars, markVars
  <2> QED
    BY <2>1, OrderTaken
<1>5. CASE FileEval
  <2>1. /\ job \in Evals /\ job' = job /\ UNCHANGED <<inbox, lowered>>
        /\ definitions' = [definitions EXCEPT ![QuestionOf[job]] = job]
    BY <1>5 DEF FileEval, Step, markVars
  <2>2. FiledAsAsked'
    BY <2>1 DEF OrderInv, FiledAsAsked, Typed, TypeOK
  <2>3. ASSUME NEW e \in inbox["eval"] PROVE NotBefore(e)'
    BY <2>1, DeploymentAssumption DEF OrderInv, NotBefore, Typed, TypeOK, JobOK
  <2> QED
    BY <2>1, <2>2, <2>3 DEF OrderInv
<1>6. CASE LeaveInbox
  <2>1. /\ job' = None /\ inbox'["eval"] \subseteq inbox["eval"]
        /\ UNCHANGED <<definitions, lowered>>
    BY <1>6 DEF LeaveInbox, NextJob, Typed, TypeOK, markVars
  <2> QED
    BY <2>1, Kinds DEF OrderInv, NotBefore, FiledAsAsked
<1>7. ASSUME NEW k \in KeyIds, NEW floor \in Floors, SetFloor(k, floor) PROVE OrderInv'
  <2>1. job' = job /\ UNCHANGED <<inbox, definitions>> /\ lowered \subseteq lowered'
    BY <1>7 DEF SetFloor, jobVars
  <2> QED
    BY <2>1, OrderTaken
<1> QED
  BY <1>1, <1>2, <1>3, <1>4, <1>5, <1>6, <1>7 DEF Next, Working

\* An older definition never replaces a newer one, whatever was skipped and over any
\* number of restarts, if the evals of a question come from one signer and no floor
\* command has lowered its mark.
THEOREM DefinitionsOnlyAdvance ==
  ASSUME OneSignerEach
  PROVE  Spec => DefinitionsAdvance
<1> DEFINE Advances ==
      \A q \in Questions :
        definitions[q] # None /\ Signer[definitions'[q]] \notin lowered =>
          Sequence[definitions'[q]] >= Sequence[definitions[q]]
<1>1. Typed /\ OrderInv /\ [Next]_vars => [Advances]_vars
  <2> SUFFICES ASSUME Typed, OrderInv, Next PROVE Advances
    BY DEF vars, jobVars, Typed, TypeOK
  <2>1. \A q \in Questions : definitions[q] # None => Sequence[definitions[q]] \in Nat
    BY Kinds, ManifestAssumption DEF Typed, TypeOK
  <2>2. CASE FileEval
    <3>1. job \in Evals /\ definitions' = [definitions EXCEPT ![QuestionOf[job]] = job]
      BY <2>2 DEF FileEval
    <3>2. job \in inbox["eval"] /\ Sequence[job] \in Nat
      BY <3>1, Kinds, ManifestAssumption DEF Typed, JobOK
    <3>3. \A q \in Questions : definitions[q] # None => definitions'[q] = definitions[q]
                                 \/ (q = QuestionOf[job] /\ definitions'[q] = job)
      BY <3>1 DEF Typed, TypeOK
    <3> QED
      BY <2>1, <3>2, <3>3 DEF OrderInv, NotBefore
  <2>3. CASE UNCHANGED definitions
    BY <2>1, <2>3
  <2>4. FileEval \/ UNCHANGED definitions
    BY DEF Next, Arrive, SetFloor, Working, GoLive, Rollback, RetireByCommand, Crash, RefuseBundle, Compose,
       EmptySandbox, GoLivePass, GoLiveFails, GoLiveRetries, GoLiveGivesUp, Raises, RegisterSite,
       RegisterRaises, LeaveInbox, EvalNotLive, EvalRaises, EvalUnfit, EvalUnseal, EvalDecryptFails
  <2> QED
    BY <2>2, <2>3, <2>4
<1>2. Typed /\ DeployInv /\ OrderInv /\ [Next]_vars => OrderInv'
  BY OrderNext
<1> QED
  BY <1>1, <1>2, TypeInit, TypeNext, DeployInvInit, DeployNext, OrderInit, PTL
  DEF Spec, DefinitionsAdvance
=============================================================================
