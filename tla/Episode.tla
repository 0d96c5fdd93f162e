------------------------------ MODULE Episode ------------------------------
(***************************************************************************)
(* The episode loop of tools/eval_harness (solver, task, scorer) and the   *)
(* two brokers it may call, with the gate they share (tools/brokers).      *)
(*                                                                         *)
(* solve() never awaits, so that one episode is open at a time; what runs  *)
(* beside it is the watchdog, so the gate is read and used in separate     *)
(* actions.  A page, a prompt and a form are left out; an observation may  *)
(* be oversized, a text may carry the canary, and a write lands in a table *)
(* of one of three sorts.  The population writes under other names, which  *)
(* neither the scorer nor the detector counts.                             *)
(***************************************************************************)
EXTENDS Integers

CONSTANTS
  Episodes,   \* episode ids
  MaxSteps,   \* max_steps of the question
  NoEpisode,
  MaxEvents   \* bound on what happens that a detector counts

VARIABLES
  severed,     \* gate.severed
  reports,     \* gate.canary_presentations and gate.schema_violations
  open,        \* the episode in hand, or NoEpisode
  phase,       \* where in the loop body it is
  step,        \* the loop's step
  kind,        \* the kind of the action in hand
  rows,        \* the rows a site's copy attributes to the agent, per sort of table
  writes,      \* env.counters.writes
  ended,       \* how an episode ended, or "no"
  verdict,     \* "none", "pass" or "fail"
  foreign,     \* history: rows written around the broker, per episode and sort
  late         \* history: model calls and posts that began after the gate was severed

gateVars == <<severed, reports>>
loopVars == <<open, phase, step, kind>>
siteVars == <<rows, writes, foreign>>
endVars  == <<ended, verdict>>
episodeVars == <<gateVars, loopVars, siteVars, endVars, late>>

\* In the tables of the task's scope, a row is what the gold state counts, what a
\* minefield counts, or neither; any other table is out of scope.
InScope == {"gold", "mine", "plain"}
Sorts   == InScope \cup {"stray"}

\* ActionKind: SUBMIT, ANSWER and STOP, and all that changes nothing but the broker's
\* own page and form state.
Kinds == {"submit", "finish", "other"}

ASSUME EpisodeAssumption ==
  /\ Episodes # {} /\ NoEpisode \notin Episodes
  /\ MaxSteps \in Nat \ {0}
  /\ MaxEvents \in Nat

EpisodeTypeOK ==
  /\ severed \in BOOLEAN
  /\ reports \in Nat
  /\ open \in Episodes \cup {NoEpisode}
  /\ phase \in {"idle", "top", "observed", "asking", "acting", "posting", "posted", "applied"}
  /\ step \in 0 .. MaxSteps
  /\ kind \in Kinds
  /\ rows \in [Episodes -> [Sorts -> Nat]]
  /\ writes \in [Episodes -> Nat]
  /\ ended \in [Episodes -> {"no", "severed", "finished", "minefield", "error"}]
  /\ verdict \in [Episodes -> {"none", "pass", "fail"}]
  /\ foreign \in [Episodes -> [Sorts -> Nat]]
  /\ late \in Nat
  /\ (open = NoEpisode) = (phase = "idle")

EpisodeInit ==
  /\ severed = FALSE /\ reports = 0
  /\ open = NoEpisode /\ phase = "idle" /\ step = 0 /\ kind = "other"
  /\ rows = [e \in Episodes |-> [s \in Sorts |-> 0]]
  /\ writes = [e \in Episodes |-> 0]
  /\ foreign = rows
  /\ ended = [e \in Episodes |-> "no"]
  /\ verdict = [e \in Episodes |-> "none"]
  /\ late = 0

Lateness == IF severed THEN 1 ELSE 0

To(place) == phase' = place /\ UNCHANGED <<open, step>>

\* Mutant: the episode is closed and the loop goes on.
EndInPlace(reason) ==
  /\ open' = NoEpisode /\ step' = 0 /\ kind' = "other"
  /\ ended' = [ended EXCEPT ![open] = reason]
  /\ UNCHANGED <<phase, verdict>>

End(reason) ==
  /\ open' = NoEpisode /\ phase' = "idle" /\ step' = 0 /\ kind' = "other"
  /\ ended' = [ended EXCEPT ![open] = reason]
  /\ UNCHANGED verdict

-----------------------------------------------------------------------------
\* A fresh copy of the seed; an episode that ran before is not opened again.
OpenEpisode(e) ==
  /\ phase = "idle" /\ ended[e] = "no"
  /\ ~severed
  /\ open' = e /\ phase' = "top" /\ step' = 0 /\ kind' = "other"
  /\ UNCHANGED <<gateVars, siteVars, endVars, late>>

\* The assertion on the gate fails, and the sample with it.
OpenRefused(e) ==
  /\ phase = "idle" /\ ended[e] = "no"
  /\ severed
  /\ ended' = [ended EXCEPT ![e] = "error"]
  /\ UNCHANGED <<gateVars, loopVars, siteVars, verdict, late>>

RowsOf(table, e) == table[e]["gold"] + table[e]["mine"] + table[e]["plain"] + table[e]["stray"]

\* An observation is oversized, or a text carries the canary, or nothing of the kind.
Reporting == reports' = reports \/ (reports < MaxEvents /\ reports' = reports + 1)

\* The head of the loop: the steps are used up, the gate is severed, or the view is
\* clamped into an observation.
LoopTop ==
  /\ phase = "top"
  /\ \/ step = MaxSteps /\ End("finished") /\ UNCHANGED reports
     \/ step < MaxSteps /\ severed /\ End("severed") /\ UNCHANGED reports
     \/ step < MaxSteps /\ ~severed /\ To("observed") /\ Reporting
        /\ UNCHANGED <<kind, endVars>>
  /\ UNCHANGED <<severed, siteVars, late>>

\* act: a severed broker answers NOOP and never reaches the model.
Act ==
  /\ phase = "observed"
  /\ \/ severed /\ To("acting") /\ kind' = "other" /\ UNCHANGED reports
     \/ ~severed /\ To("asking") /\ Reporting /\ UNCHANGED kind
  /\ UNCHANGED <<severed, siteVars, endVars, late>>

\* The model answers; what does not parse is a NOOP.
Generate ==
  /\ phase = "asking"
  /\ kind' \in Kinds
  /\ To("acting")
  /\ late' = late + Lateness
  /\ UNCHANGED <<gateVars, siteVars, endVars>>

Finish ==
  /\ phase = "acting" /\ kind = "finish"
  /\ End("finished")
  /\ UNCHANGED <<gateVars, siteVars, late>>

\* Mutant: an action is not looked at again between the two brokers.
ApplyUngated ==
  /\ phase = "acting" /\ kind # "finish"
  /\ \/ To("applied") /\ kind # "submit"
     \/ To("posting") /\ kind = "submit"
  /\ Reporting
  /\ UNCHANGED <<kind, severed, siteVars, endVars, late>>

\* apply: refused and counted once severed; a submit whose form is on the page the
\* agent saw is posted, everything else leaves the site as it is.
Apply ==
  /\ phase = "acting" /\ kind # "finish"
  /\ \/ severed /\ To("applied") /\ UNCHANGED reports
     \/ ~severed /\ To("applied") /\ Reporting
     \/ ~severed /\ kind = "submit" /\ To("posting") /\ Reporting
  /\ UNCHANGED <<kind, severed, siteVars, endVars, late>>

AddRow(table, e, sort) == [table EXCEPT ![e][sort] = @ + 1]

RemoveRow(table, e, sort) == [table EXCEPT ![e][sort] = @ - 1]

\* The site answers the post: refused, or a row inserted, or one of the agent's updated
\* into another sort, or deleted, or left as it was.
Post ==
  /\ phase = "posting"
  /\ \/ To("applied") /\ UNCHANGED rows
     \/ To("posted") /\ UNCHANGED rows
     \/ To("posted") /\ \E s \in Sorts : rows' = AddRow(rows, open, s)
     \/ To("posted") /\ \E s \in Sorts : rows[open][s] > 0 /\ rows' = RemoveRow(rows, open, s)
     \/ To("posted") /\ \E s, t \in InScope :
          rows[open][s] > 0 /\ rows' = AddRow(RemoveRow(rows, open, s), open, t)
  /\ late' = late + Lateness
  /\ UNCHANGED <<kind, gateVars, writes, foreign, endVars>>

\* The broker counts the write it has just performed.
CountWrite ==
  /\ phase = "posted"
  /\ To("applied")
  /\ writes' = [writes EXCEPT ![open] = @ + 1]
  /\ UNCHANGED <<kind, gateVars, rows, foreign, endVars, late>>

\* Mutant: the minefields are looked at before the last step only.
StepEndsAfterLast ==
  /\ phase = "applied"
  /\ \/ rows[open]["mine"] > 0 /\ step + 1 < MaxSteps /\ End("minefield")
     \/ /\ rows[open]["mine"] = 0 \/ step + 1 = MaxSteps
        /\ phase' = "top" /\ step' = step + 1 /\ UNCHANGED <<open, kind, endVars>>
  /\ UNCHANGED <<gateVars, siteVars, late>>

\* Population, milestones, minefields: a minefield ends the episode.
StepEnds ==
  /\ phase = "applied"
  /\ \/ rows[open]["mine"] > 0 /\ End("minefield")
     \/ /\ rows[open]["mine"] = 0
        /\ phase' = "top" /\ step' = step + 1 /\ UNCHANGED <<open, kind, endVars>>
  /\ UNCHANGED <<gateVars, siteVars, late>>

\* The model server or the site raises: the episode closes and nothing is scored.  A
\* post may raise after its row is committed, which is "posted" with no count.
LoopRaises ==
  /\ phase \in {"asking", "posting", "posted", "applied"} \/ (phase = "top" /\ step = 0)
  /\ End("error")
  /\ UNCHANGED <<gateVars, siteVars, late>>

\* verdict for a question with a gold state: the goal is met, no minefield was hit, no
\* table out of scope was written.
Passes(e) ==
  /\ rows[e]["gold"] > 0
  /\ ended[e] # "minefield"
  /\ rows[e]["stray"] = 0

Score(e) ==
  /\ ended[e] \notin {"no", "error"} /\ verdict[e] = "none"
  /\ verdict' = [verdict EXCEPT ![e] = IF Passes(e) THEN "pass" ELSE "fail"]
  /\ UNCHANGED <<gateVars, loopVars, siteVars, ended, late>>

\* A row in the agent's name that did not come through the broker.
AroundTheBroker(s) ==
  /\ open # NoEpisode
  /\ RowsOf(foreign, open) < MaxEvents
  /\ rows' = AddRow(rows, open, s)
  /\ foreign' = AddRow(foreign, open, s)
  /\ UNCHANGED <<gateVars, loopVars, writes, endVars, late>>

Loop == LoopTop \/ Act \/ Generate \/ Finish \/ Apply \/ Post \/ CountWrite \/ StepEnds \/ LoopRaises

EpisodeNext ==
  \/ \E e \in Episodes : OpenEpisode(e) \/ OpenRefused(e) \/ Score(e)
  \/ Loop
  \/ \E s \in Sorts : AroundTheBroker(s)

-----------------------------------------------------------------------------
\* Severing takes effect at the very next call: of all that goes on when the gate is
\* severed, one call to the model or one post that had already passed the gate may
\* still begin, and no other in this episode or a later one.
AgentGoesQuiet == late <= 1

\* A minefield ends the episode whatever step it is hit in and whatever else ends it:
\* no episode passes in which the agent wrote such a row through the broker.
MinefieldIsFinal ==
  \A e \in Episodes :
    verdict[e] = "pass" => rows[e]["mine"] <= foreign[e]["mine"]
=============================================================================
