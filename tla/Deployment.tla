----------------------------- MODULE Deployment -----------------------------
(***************************************************************************)
(* From the inboxes to what is served: the worker (tools/worker), the      *)
(* go-live service (tools/golive), the eval intake (tools/eval_intake) and *)
(* the site registry, in one process that takes one bundle at a time, as   *)
(* scripts/run_eval_demo.py composes them.  The receiver puts bundles into *)
(* the inboxes at any time; the process may die between any two steps that *)
(* leave something on disk.                                                *)
(*                                                                         *)
(* What a bundle's bytes decrypt to, what its suite finds and whether its  *)
(* spec is supported are choices of the environment.                       *)
(***************************************************************************)
EXTENDS SiteRegistry

CONSTANTS
  Questions,     \* the question ids of eval bundles
  QuestionOf,    \* eval bundle -> question_id
  EvalSite,      \* eval bundle -> site_id of its choreography
  Fits,          \* the <<eval, revision>> pairs lint_choreography accepts
  MaxAttempts,   \* max_attempts
  MaxCrashes,    \* bound on restarts
  Floors,        \* the marks that floor commands set
  MaxFloors      \* bound on floor commands

VARIABLES
  mark,         \* the receiver's high-water mark: signer -> sequence or NoMark
  lowered,      \* history: the signers whose mark a floor command has lowered
  redone,       \* history: the bundles admitted or taken up again once finished
  inbox,        \* the worker's and the intake's inboxes
  sandbox,      \* the go-live sandboxes: bundle -> "none", "partial" or "whole"
  definitions,  \* question -> the eval bundle filed for it, or None
  job,          \* the bundle in hand, or None
  phase,        \* how far the job has come
  attempt,      \* the go-live attempt under way
  retried,      \* which of the two retries the job has used
  said,         \* the last status emitted for the job in hand
  crashes,      \* restarts so far
  floors        \* floor commands so far

jobVars == <<job, phase, attempt, retried, said>>
markVars == <<mark, lowered, floors>>
vars == <<sites, markVars, redone, inbox, sandbox, definitions, jobVars, crashes>>

Evals  == {b \in Bundles : Type[b] = "eval"}
NoMark == -1

ASSUME DeploymentAssumption ==
  /\ QuestionOf \in [Evals -> Questions]
  /\ EvalSite \in [Evals -> SiteIds]
  /\ Fits \subseteq Evals \X Revisions
  /\ MaxAttempts \in 1 .. 3
  /\ MaxCrashes \in Nat
  /\ Floors \subseteq Nat
  /\ MaxFloors \in Nat

\* WorkerStatus and IntakeStatus, and the subcode the properties tell apart.
Statuses ==
  {"none", "composed", "compose_failed", "test_fail", "retries_exhausted", "decrypt_fail",
   "timeout", "pass", "live", "filed", "unsupported", "site_not_live"}

\* "composed": about to call go-live; "unsealing": inside it, the sandbox emptied;
\* "passed": about to register; "done": about to leave the inbox.
Phases == {"idle", "composed", "unsealing", "passed", "done"}

TypeOK ==
  /\ RegistryTypeOK
  /\ mark \in [KeyIds -> Nat \cup {NoMark}]
  /\ lowered \subseteq KeyIds /\ redone \subseteq Bundles
  /\ inbox \in [{"worker", "eval"} -> SUBSET Bundles]
  /\ sandbox \in [Bundles -> {"none", "partial", "whole"}]
  /\ definitions \in [Questions -> Evals \cup {None}]
  /\ job \in Bundles \cup {None}
  /\ phase \in Phases
  /\ attempt \in 1 .. MaxAttempts /\ attempt <= 1 + Cardinality(retried)
  /\ retried \subseteq {"timeout", "runner"}
  /\ said \in Statuses
  /\ crashes \in Nat /\ floors \in Nat

Init ==
  /\ RegistryInit
  /\ mark = [k \in KeyIds |-> NoMark] /\ lowered = {} /\ redone = {}
  /\ inbox = [box \in {"worker", "eval"} |-> {}]
  /\ sandbox = [b \in Bundles |-> "none"]
  /\ definitions = [q \in Questions |-> None]
  /\ job = None /\ phase = "idle" /\ attempt = 1 /\ retried = {}
  /\ said = "none"
  /\ crashes = 0 /\ floors = 0

-----------------------------------------------------------------------------
\* What is registered or filed, and may be asked for at any time.
Filed    == {definitions[q] : q \in {p \in Questions : definitions[p] # None}}
Finished == {b \in Revisions : sites[b] # "absent"} \cup Filed

\* The receiver accepts a bundle of a higher sequence than its signer's mark and
\* dispatches it, in the place of one that lies there under its id; whatever it skips
\* is lost.
Arrive(b) ==
  /\ Sequence[b] > mark[Signer[b]]
  /\ mark' = [mark EXCEPT ![Signer[b]] = Sequence[b]]
  /\ inbox' = [inbox EXCEPT ![IF b \in Evals THEN "eval" ELSE "worker"] = @ \cup {b}]
  /\ redone' = redone \cup ({b} \cap Finished)
  /\ UNCHANGED <<sites, sandbox, definitions, jobVars, crashes, lowered, floors>>

\* A set_sequence_floor command writes the mark it is given: a lower one lets the same
\* bundles in again, and older ones.
SetFloor(k, floor) ==
  /\ phase = "idle"
  /\ floors < MaxFloors
  /\ floors' = floors + 1
  /\ mark' = [mark EXCEPT ![k] = floor]
  /\ lowered' = IF floor < mark[k] THEN lowered \cup {k} ELSE lowered
  /\ UNCHANGED <<sites, redone, inbox, sandbox, definitions, jobVars, crashes>>

Emit(status) == said' = status

\* Mutant: the next job goes on counting where this one stopped.
NextJobSameAttempt ==
  job' = None /\ phase' = "idle" /\ retried' = {} /\ said' = "none" /\ UNCHANGED attempt

\* The bundle in hand is put down, and all that is known of it with it.
NextJob == job' = None /\ phase' = "idle" /\ attempt' = 1 /\ retried' = {} /\ said' = "none"

Step(from, to) == phase = from /\ phase' = to /\ UNCHANGED <<job, attempt, retried>>

\* Mutant: whatever is in the inbox.
TakesAny(box, b) ==
  /\ phase = "idle"
  /\ b \in inbox[box]
  /\ job' = b /\ UNCHANGED <<attempt, retried>>

\* run_once: the pending bundle of lowest sequence.
Takes(box, b) ==
  /\ phase = "idle"
  /\ b \in Lowest(inbox[box])
  /\ job' = b /\ UNCHANGED <<attempt, retried>>

\* The sanity checks, the classification or the slot map refuse the bundle; the
\* flagged pattern that raises instead ends it the same way.
RefuseBundle(b) ==
  /\ Takes("worker", b)
  /\ phase' = "done"
  /\ Emit("compose_failed")
  /\ UNCHANGED <<sites, markVars, redone, inbox, sandbox, definitions, crashes>>

Compose(b) ==
  /\ Takes("worker", b)
  /\ phase' = "composed"
  /\ Emit("composed")
  /\ UNCHANGED <<sites, markVars, redone, inbox, sandbox, definitions, crashes>>

\* go_live empties the sandbox of this bundle id, whatever it held, and fills it.
EmptySandbox ==
  /\ Step("composed", "unsealing")
  /\ sandbox' = [sandbox EXCEPT ![job] = "partial"]
  /\ UNCHANGED <<sites, markVars, redone, inbox, definitions, said, crashes>>

\* Mutant: the sandbox is destroyed whatever the suite said.
GoLivePassDestroys ==
  /\ job \notin Evals
  /\ Step("unsealing", "passed")
  /\ sandbox' = [sandbox EXCEPT ![job] = "none"]
  /\ UNCHANGED <<sites, markVars, redone, inbox, definitions, said, crashes>>

GoLivePass ==
  /\ job \notin Evals
  /\ Step("unsealing", "passed")
  /\ sandbox' = [sandbox EXCEPT ![job] = "whole"]
  /\ UNCHANGED <<sites, markVars, redone, inbox, definitions, said, crashes>>

\* Failures the worker does not retry, and what each leaves of the sandbox: a blob
\* that is not its handle's returns without the rmtree that the others reach.
FinalFailures ==
  {<<"decrypt_fail", "none">>, <<"decrypt_fail", "partial">>,
   <<"compose_failed", "none">>, <<"test_fail", "none">>}

GoLiveFails ==
  \E failure \in FinalFailures :
    /\ job \notin Evals
    /\ Step("unsealing", "done")
    /\ sandbox' = [sandbox EXCEPT ![job] = failure[2]]
    /\ Emit(failure[1])
    /\ UNCHANGED <<sites, markVars, redone, inbox, definitions, crashes>>

\* What may be retried once: a timeout (the reference service never returns one), or
\* a runner error, after which go-live destroyed the sandbox.
Retryable == {<<"timeout", "partial">>, <<"runner", "none">>}

MayRetry(cause) == cause \notin retried

AttemptsLeft == attempt < MaxAttempts

GoLiveRetries ==
  \E failure \in Retryable :
    /\ job \notin Evals
    /\ phase = "unsealing"
    /\ MayRetry(failure[1])
    /\ sandbox' = [sandbox EXCEPT ![job] = failure[2]]
    /\ retried' = retried \cup {failure[1]}
    /\ \/ /\ AttemptsLeft
          /\ attempt' = attempt + 1 /\ phase' = "composed"
          /\ UNCHANGED said
       \/ /\ ~AttemptsLeft
          /\ phase' = "done" /\ UNCHANGED attempt
          /\ Emit("retries_exhausted")
    /\ UNCHANGED <<sites, markVars, redone, inbox, definitions, job, crashes>>

\* The second timeout is final, the second runner error a failed test.
GoLiveGivesUp ==
  \E failure \in Retryable :
    /\ job \notin Evals
    /\ Step("unsealing", "done")
    /\ ~MayRetry(failure[1])
    /\ sandbox' = [sandbox EXCEPT ![job] = failure[2]]
    /\ Emit(IF failure[1] = "timeout" THEN "timeout" ELSE "test_fail")
    /\ UNCHANGED <<sites, markVars, redone, inbox, definitions, crashes>>

\* Anything else that go-live or the intake's unsealing raises ends the job where it is.
Raises ==
  /\ Step("unsealing", "done")
  /\ UNCHANGED <<sites, markVars, redone, inbox, sandbox, definitions, said, crashes>>

RegisterSite ==
  /\ Step("passed", "done")
  /\ Register(job)
  /\ Emit("live")
  /\ UNCHANGED <<markVars, redone, inbox, sandbox, definitions, crashes>>

\* One of register's assertions fails, after the worker reported that go-live passed.
RegisterRaises ==
  /\ Step("passed", "done")
  /\ ~Registrable(job)
  /\ Emit("pass")
  /\ UNCHANGED <<sites, markVars, redone, inbox, sandbox, definitions, crashes>>

\* Mutant: only a job that ended in a status leaves.
LeaveInboxIfReported ==
  /\ phase = "done"
  /\ said \notin {"composed", "none"}
  /\ inbox' = [box \in DOMAIN inbox |-> inbox[box] \ {job}]
  /\ NextJob
  /\ UNCHANGED <<sites, markVars, redone, sandbox, definitions, crashes>>

\* finally: whatever happened, the bundle leaves the inbox.
LeaveInbox ==
  /\ phase = "done"
  /\ inbox' = [box \in DOMAIN inbox |-> inbox[box] \ {job}]
  /\ NextJob
  /\ UNCHANGED <<sites, markVars, redone, sandbox, definitions, crashes>>

-----------------------------------------------------------------------------
\* The intake asks for a live revision of the choreography's site: the first one in
\* the registry's order, which is open where a site has two.
LiveFor(e) == {b \in LiveRevisions : SiteOf[b] = EvalSite[e]}

EvalNotLive(e) ==
  /\ Takes("eval", e)
  /\ LiveFor(e) = {}
  /\ phase' = "done"
  /\ Emit("site_not_live")
  /\ UNCHANGED <<sites, markVars, redone, inbox, sandbox, definitions, crashes>>

\* The spec it lints against is read from the live revision's sandbox: a restart in
\* the middle of that revision's next go-live may have left none.
EvalRaises(e) ==
  /\ Takes("eval", e)
  /\ \E b \in LiveFor(e) : sandbox[b] # "whole"
  /\ phase' = "done"
  /\ UNCHANGED <<sites, markVars, redone, inbox, sandbox, definitions, said, crashes>>

EvalUnfit(e) ==
  /\ Takes("eval", e)
  /\ \E b \in LiveFor(e) : sandbox[b] # "none" /\ <<e, b>> \notin Fits
  /\ phase' = "done"
  /\ Emit("unsupported")
  /\ UNCHANGED <<sites, markVars, redone, inbox, sandbox, definitions, crashes>>

\* unseal_eval empties the sandbox of this bundle id first.
EvalUnseal(e) ==
  /\ Takes("eval", e)
  /\ \E b \in LiveFor(e) : sandbox[b] # "none" /\ <<e, b>> \in Fits
  /\ phase' = "unsealing"
  /\ sandbox' = [sandbox EXCEPT ![e] = "partial"]
  /\ UNCHANGED <<sites, markVars, redone, inbox, definitions, said, crashes>>

EvalDecryptFails ==
  /\ job \in Evals
  /\ Step("unsealing", "done")
  /\ sandbox' = [sandbox EXCEPT ![job] = "none"]
  /\ Emit("decrypt_fail")
  /\ UNCHANGED <<sites, markVars, redone, inbox, definitions, crashes>>

\* Mutant: the sandbox is filed and left to be filled later.
FileEvalUnfilled ==
  /\ job \in Evals
  /\ Step("unsealing", "done")
  /\ definitions' = [definitions EXCEPT ![QuestionOf[job]] = job]
  /\ Emit("filed")
  /\ UNCHANGED <<sites, markVars, redone, inbox, sandbox, crashes>>

FileEval ==
  /\ job \in Evals
  /\ Step("unsealing", "done")
  /\ sandbox' = [sandbox EXCEPT ![job] = "whole"]
  /\ definitions' = [definitions EXCEPT ![QuestionOf[job]] = job]
  /\ Emit("filed")
  /\ UNCHANGED <<sites, markVars, redone, inbox, crashes>>

-----------------------------------------------------------------------------
\* Between jobs the command executor may roll a revision back or retire one.
Rollback(b) ==
  /\ phase = "idle"
  /\ SetLive(b)
  /\ UNCHANGED <<markVars, redone, inbox, sandbox, definitions, jobVars, crashes>>

RetireByCommand(b) ==
  /\ phase = "idle"
  /\ sites[b] = "LIVE"
  /\ Retire(b)
  /\ UNCHANGED <<markVars, redone, inbox, sandbox, definitions, jobVars, crashes>>

\* The process dies and starts again; the directories and the files remain.
Crash ==
  /\ crashes < MaxCrashes
  /\ crashes' = crashes + 1
  /\ NextJob
  /\ redone' = redone \cup ({job} \cap Finished)
  /\ UNCHANGED <<sites, markVars, inbox, sandbox, definitions>>

GoLive == GoLivePass \/ GoLiveFails \/ GoLiveRetries \/ GoLiveGivesUp \/ Raises

Working ==
  \/ \E b \in Revisions : RefuseBundle(b) \/ Compose(b)
  \/ EmptySandbox \/ GoLive \/ RegisterSite \/ RegisterRaises \/ LeaveInbox
  \/ \E e \in Evals : EvalNotLive(e) \/ EvalRaises(e) \/ EvalUnfit(e) \/ EvalUnseal(e)
  \/ EvalDecryptFails \/ FileEval

Next ==
  \/ \E b \in Revisions \cup Evals : Arrive(b)
  \/ Working
  \/ \E b \in Revisions : Rollback(b) \/ RetireByCommand(b)
  \/ \E k \in KeyIds, floor \in Floors : SetFloor(k, floor)
  \/ Crash

Spec == Init /\ [][Next]_vars

\* The process finishes what it has begun, and polls each of its two inboxes again
\* and again, even if commands keep coming in between.
Fairness ==
  /\ WF_vars(EmptySandbox \/ GoLive \/ RegisterSite \/ RegisterRaises \/ LeaveInbox
             \/ EvalDecryptFails \/ FileEval)
  /\ SF_vars(\E b \in Revisions : RefuseBundle(b) \/ Compose(b))
  /\ SF_vars(\E e \in Evals : EvalNotLive(e) \/ EvalRaises(e) \/ EvalUnfit(e) \/ EvalUnseal(e))

FairSpec == Spec /\ Fairness

-----------------------------------------------------------------------------
\* The two ways a finished bundle comes to be done again, which empties its sandbox
\* under the registry or the definitions that point at it: its signer's mark was lowered,
\* or the process died between finishing it and taking it out of the inbox.
DoneAgain(b) == b \in redone /\ (Signer[b] \in lowered \/ crashes > 0)

\* What the registry points at can be served: every revision it ever registered, the
\* live ones and the ones a rollback may bring back, has the sandbox its suite passed in,
\* unless it was done again -- whatever else arrives, fails, is retried or dies.
RegisteredIsServable ==
  \A b \in Revisions : sites[b] # "absent" => sandbox[b] = "whole" \/ DoneAgain(b)

\* An eval definition points at a sandbox that was unsealed to the end, unless the eval
\* was done again.
FiledIsWhole ==
  \A q \in Questions :
    definitions[q] # None => sandbox[definitions[q]] = "whole" \/ DoneAgain(definitions[q])

\* "A newer revision replaces the older" and never the other way round, over a restart
\* that takes a bundle up again and whatever was skipped, unless a floor command has
\* lowered the mark of the signer, which lets an older one in.
DefinitionsAdvance ==
  [][\A q \in Questions :
       definitions[q] # None /\ Signer[definitions'[q]] \notin lowered =>
         Sequence[definitions'[q]] >= Sequence[definitions[q]]]_vars

\* "Whatever happened, the bundle leaves the inbox": also after an exception, a
\* refused registration or a restart.
InboxDrains ==
  \A b \in Revisions \cup Evals :
    b \in inbox["worker"] \cup inbox["eval"] ~> b \notin inbox["worker"] \cup inbox["eval"]
=============================================================================
