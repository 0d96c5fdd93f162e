------------------------ MODULE GuardedEpisodeProofs ------------------------
(***************************************************************************)
(* Theorems about the guarded episode, for any number of episodes, steps   *)
(* and rows, and for any moment at which the gate is severed.              *)
(***************************************************************************)
EXTENDS GuardedEpisode, TLAPS

Tables == [Episodes -> [Sorts -> Nat]]

\* The sum over the sorts, and what adding or removing a row does to it.
LEMMA RowsOfType ==
  ASSUME NEW table \in Tables, NEW e \in Episodes
  PROVE  RowsOf(table, e) \in Nat
BY DEF Tables, RowsOf, Sorts, InScope

LEMMA AddRowFacts ==
  ASSUME NEW table \in Tables, NEW e \in Episodes, NEW s \in Sorts
  PROVE  /\ AddRow(table, e, s) \in Tables
         /\ RowsOf(AddRow(table, e, s), e) = RowsOf(table, e) + 1
         /\ \A o \in Episodes \ {e} : AddRow(table, e, s)[o] = table[o]
         /\ s = "mine" => AddRow(table, e, s)[e]["mine"] = table[e]["mine"] + 1
         /\ s # "mine" => AddRow(table, e, s)[e]["mine"] = table[e]["mine"]
<1>1. AddRow(table, e, s) \in Tables
  BY DEF AddRow, Tables
<1>2. /\ \A t \in Sorts \ {s} : AddRow(table, e, s)[e][t] = table[e][t]
      /\ AddRow(table, e, s)[e][s] = table[e][s] + 1
      /\ \A o \in Episodes \ {e} : AddRow(table, e, s)[o] = table[o]
  BY DEF AddRow, Tables
<1>3. /\ table[e]["gold"] \in Nat /\ table[e]["mine"] \in Nat
      /\ table[e]["plain"] \in Nat /\ table[e]["stray"] \in Nat
  BY DEF Tables, Sorts, InScope
<1>4. RowsOf(AddRow(table, e, s), e) = RowsOf(table, e) + 1
  BY <1>2, <1>3 DEF RowsOf, Sorts, InScope
<1> QED
  BY <1>1, <1>2, <1>4 DEF Sorts, InScope

LEMMA RemoveRowFacts ==
  ASSUME NEW table \in Tables, NEW e \in Episodes, NEW s \in Sorts, table[e][s] > 0
  PROVE  /\ RemoveRow(table, e, s) \in Tables
         /\ RowsOf(RemoveRow(table, e, s), e) = RowsOf(table, e) - 1
         /\ \A o \in Episodes \ {e} : RemoveRow(table, e, s)[o] = table[o]
<1>1. /\ \A t \in Sorts \ {s} : RemoveRow(table, e, s)[e][t] = table[e][t]
      /\ RemoveRow(table, e, s)[e][s] = table[e][s] - 1
      /\ \A o \in Episodes \ {e} : RemoveRow(table, e, s)[o] = table[o]
  BY DEF RemoveRow, Tables
<1>2. /\ table[e]["gold"] \in Nat /\ table[e]["mine"] \in Nat
      /\ table[e]["plain"] \in Nat /\ table[e]["stray"] \in Nat
  BY DEF Tables, Sorts, InScope
<1>3. RowsOf(RemoveRow(table, e, s), e) = RowsOf(table, e) - 1
  BY <1>1, <1>2 DEF RowsOf, Sorts, InScope
<1>4. table[e][s] - 1 \in Nat
  BY DEF Tables
<1>5. RemoveRow(table, e, s) \in Tables
  BY <1>4 DEF RemoveRow, Tables
<1> QED
  BY <1>1, <1>3, <1>5

\* What a post leaves: at most one row more, in the episode in hand only.
LEMMA PostFacts ==
  ASSUME rows \in Tables, open \in Episodes, Post
  PROVE  /\ rows' \in Tables
         /\ RowsOf(rows, open)' <= RowsOf(rows, open) + (IF phase' = "posted" THEN 1 ELSE 0)
         /\ \A o \in Episodes \ {open} : rows'[o] = rows[o]
<1> DEFINE Kept(n) == /\ rows' \in Tables
                      /\ RowsOf(rows, open)' = n
                      /\ \A o \in Episodes \ {open} : rows'[o] = rows[o]
<1>0. open' = open /\ phase' \in {"applied", "posted"}
  BY DEF Post, To
<1>1. RowsOf(rows, open) \in Nat
  BY RowsOfType
<1>2. CASE UNCHANGED rows
  <2>1. Kept(RowsOf(rows, open))
    BY <1>0, <1>2 DEF RowsOf
  <2> QED
    BY <1>1, <2>1
<1>3. ASSUME NEW s \in Sorts, phase' = "posted", rows' = AddRow(rows, open, s)
      PROVE  Kept(RowsOf(rows, open) + 1)
  BY <1>0, <1>3, AddRowFacts DEF RowsOf
<1>4. ASSUME NEW s \in Sorts, rows[open][s] > 0, rows' = RemoveRow(rows, open, s)
      PROVE  Kept(RowsOf(rows, open) - 1)
  BY <1>0, <1>4, RemoveRowFacts DEF RowsOf
<1>5. ASSUME NEW s \in InScope, NEW t \in InScope, rows[open][s] > 0,
             rows' = AddRow(RemoveRow(rows, open, s), open, t)
      PROVE  Kept(RowsOf(rows, open))
  <2>1. s \in Sorts /\ t \in Sorts
    BY DEF Sorts
  <2> DEFINE less == RemoveRow(rows, open, s)
  <2>2. less \in Tables /\ RowsOf(less, open) = RowsOf(rows, open) - 1
        /\ \A o \in Episodes \ {open} : less[o] = rows[o]
    BY <1>5, <2>1, RemoveRowFacts
  <2>3. rows' = AddRow(less, open, t)
    BY <1>5
  <2> HIDE DEF less
  <2>4. rows' \in Tables /\ RowsOf(rows', open) = RowsOf(less, open) + 1
        /\ \A o \in Episodes \ {open} : rows'[o] = less[o]
    BY <2>1, <2>2, <2>3, AddRowFacts
  <2> QED
    BY <1>0, <1>1, <2>2, <2>4 DEF RowsOf
<1>6. \/ UNCHANGED rows
      \/ phase' = "posted" /\ \E s \in Sorts : rows' = AddRow(rows, open, s)
      \/ \E s \in Sorts : rows[open][s] > 0 /\ rows' = RemoveRow(rows, open, s)
      \/ \E s, t \in InScope :
           rows[open][s] > 0 /\ rows' = AddRow(RemoveRow(rows, open, s), open, t)
  BY DEF Post, To
<1>7. CASE phase' = "posted" /\ \E s \in Sorts : rows' = AddRow(rows, open, s)
  <2>1. Kept(RowsOf(rows, open) + 1)
    BY <1>3, <1>7
  <2> QED
    BY <1>1, <1>7, <2>1
<1>8. CASE \E s \in Sorts : rows[open][s] > 0 /\ rows' = RemoveRow(rows, open, s)
  <2>1. Kept(RowsOf(rows, open) - 1)
    BY <1>4, <1>8
  <2> QED
    BY <1>1, <2>1
<1>9. CASE \E s, t \in InScope :
             rows[open][s] > 0 /\ rows' = AddRow(RemoveRow(rows, open, s), open, t)
  <2>1. Kept(RowsOf(rows, open))
    BY <1>5, <1>9
  <2> QED
    BY <1>1, <2>1
<1> QED
  BY <1>2, <1>6, <1>7, <1>8, <1>9

-----------------------------------------------------------------------------
\* Past the head of the loop there is a step to take.
StepLeft == phase \notin {"idle", "top"} => step < MaxSteps

Typed == EpisodeTypeOK /\ StepLeft

\* Every step of an episode keeps its types.
LEMMA EpisodeTypeNext ==
  ASSUME Typed, EpisodeNext
  PROVE  Typed'
<1> USE DEF Typed, StepLeft, EpisodeTypeOK, gateVars, loopVars, siteVars, endVars
<1>1. ASSUME NEW e \in Episodes, OpenEpisode(e) PROVE Typed'
  BY <1>1, EpisodeAssumption DEF OpenEpisode, Kinds
<1>2. ASSUME NEW e \in Episodes, OpenRefused(e) PROVE Typed'
  BY <1>2 DEF OpenRefused
<1>3. ASSUME NEW e \in Episodes, Score(e) PROVE Typed'
  <2>1. verdict' \in [Episodes -> {"none", "pass", "fail"}]
    BY <1>3 DEF Score
  <2> QED
    BY <1>3, <2>1 DEF Score
<1>4. ASSUME NEW reason \in {"severed", "finished", "minefield", "error"}, End(reason),
             UNCHANGED <<severed, siteVars, late>>, reports' \in Nat
      PROVE  Typed'
  <2>1. ended' \in [Episodes -> {"no", "severed", "finished", "minefield", "error"}]
    BY <1>4 DEF End
  <2>2. step' \in 0 .. MaxSteps
    BY <1>4, EpisodeAssumption DEF End
  <2> QED
    BY <1>4, <2>1, <2>2 DEF End, Kinds
<1>5. Reporting => reports' \in Nat
  BY DEF Reporting
<1>6. late + Lateness \in Nat
  BY DEF Lateness
<1>7. CASE LoopTop
  <2>1. CASE End("finished") /\ UNCHANGED reports
    BY <1>4, <1>7, <2>1 DEF LoopTop
  <2>2. CASE End("severed") /\ UNCHANGED reports
    BY <1>4, <1>7, <2>2 DEF LoopTop
  <2>3. CASE step < MaxSteps /\ To("observed") /\ Reporting /\ UNCHANGED <<kind, endVars>>
    BY <1>5, <1>7, <2>3 DEF LoopTop, To
  <2> QED
    BY <1>7, <2>1, <2>2, <2>3 DEF LoopTop
<1>8. CASE Act
  BY <1>5, <1>8 DEF Act, To, Kinds
<1>9. CASE Generate
  BY <1>6, <1>9 DEF Generate, To
<1>10. CASE Finish
  BY <1>4, <1>10 DEF Finish
<1>11. CASE Apply
  BY <1>5, <1>11 DEF Apply, To
<1>12. CASE Post
  <2>1. open \in Episodes /\ rows \in Tables
    BY <1>12 DEF Post, Tables
  <2>2. rows' \in [Episodes -> [Sorts -> Nat]]
    BY <1>12, <2>1, PostFacts DEF Tables
  <2>3. phase = "posting" /\ phase' \in {"applied", "posted"} /\ UNCHANGED <<open, step>>
    BY <1>12 DEF Post, To
  <2>4. late' \in Nat /\ UNCHANGED <<kind, gateVars, writes, foreign, endVars>>
    BY <1>6, <1>12 DEF Post
  <2> QED
    BY <2>1, <2>2, <2>3, <2>4, EpisodeAssumption
<1>13. CASE CountWrite
  <2>1. writes' \in [Episodes -> Nat]
    BY <1>13 DEF CountWrite
  <2> QED
    BY <1>13, <2>1 DEF CountWrite, To
<1>14. CASE StepEnds
  <2>1. CASE End("minefield")
    BY <1>4, <1>14, <2>1 DEF StepEnds
  <2>2. CASE phase' = "top" /\ step' = step + 1 /\ UNCHANGED <<open, kind, endVars>>
    <3>1. step' \in 0 .. MaxSteps
      BY <1>14, <2>2, EpisodeAssumption DEF StepEnds
    <3> QED
      BY <1>14, <2>2, <3>1 DEF StepEnds
  <2> QED
    BY <1>14, <2>1, <2>2 DEF StepEnds
<1>15. CASE LoopRaises
  BY <1>4, <1>15 DEF LoopRaises
<1>16. ASSUME NEW s \in Sorts, AroundTheBroker(s) PROVE Typed'
  <2>1. rows' \in [Episodes -> [Sorts -> Nat]] /\ foreign' \in [Episodes -> [Sorts -> Nat]]
    BY <1>16, AddRowFacts DEF AroundTheBroker, Tables
  <2> QED
    BY <1>16, <2>1 DEF AroundTheBroker
<1> QED
  BY <1>1, <1>2, <1>3, <1>7, <1>8, <1>9, <1>10, <1>11, <1>12, <1>13, <1>14, <1>15, <1>16
  DEF EpisodeNext, Loop

\* So does every step of the guarded episode.
LEMMA TypeNext == TypeOK /\ StepLeft /\ [Next]_vars => TypeOK' /\ StepLeft'
<1> SUFFICES ASSUME TypeOK, StepLeft, [Next]_vars PROVE TypeOK' /\ StepLeft'
  OBVIOUS
<1>1. CASE EpisodeNext /\ UNCHANGED bypassVars
  BY <1>1, EpisodeTypeNext DEF TypeOK, Typed, bypassVars
<1>2. Typed /\ UNCHANGED episodeVars => Typed'
  BY DEF Typed, EpisodeTypeOK, StepLeft, episodeVars, gateVars, loopVars, siteVars, endVars
<1>3. CASE CountRows /\ UNCHANGED episodeVars
  <2>1. open \in Episodes
    BY <1>3 DEF CountRows, TypeOK, EpisodeTypeOK
  <2>2. RowsOf(rows, open) \in Nat
    BY <2>1, RowsOfType DEF TypeOK, EpisodeTypeOK, Tables
  <2>3. counted' \in [episode : Episodes, rows : Nat] /\ peak' \in Nat /\ raced' \in BOOLEAN
    BY <1>3, <2>1, <2>2 DEF CountRows, TypeOK
  <2> QED
    BY <1>2, <1>3, <2>3 DEF TypeOK, Typed
<1>4. CASE Compare /\ UNCHANGED episodeVars
  <2>1. counted \in [episode : Episodes, rows : Nat]
    BY <1>4 DEF Compare, TypeOK
  <2>2. writes[counted.episode] \in Nat /\ counted.rows \in Nat
    BY <2>1 DEF TypeOK, EpisodeTypeOK
  <2>3. Excess \in Nat
    BY <2>2 DEF Excess
  <2>4. peak' \in Nat
    BY <1>4, <2>3 DEF Compare, TypeOK
  <2> QED
    BY <1>2, <1>4, <2>4 DEF Compare, TypeOK, Typed
<1>5. CASE Sever /\ UNCHANGED bypassVars
  BY <1>5 DEF Sever, TypeOK, EpisodeTypeOK, StepLeft, bypassVars, loopVars, siteVars, endVars
<1>6. CASE UNCHANGED vars
  BY <1>2, <1>6 DEF vars, TypeOK, Typed, bypassVars
<1> QED
  BY <1>1, <1>3, <1>4, <1>5, <1>6 DEF Next

LEMMA TypeInit == Init => TypeOK /\ StepLeft
<1> SUFFICES ASSUME Init PROVE TypeOK /\ StepLeft
  OBVIOUS
<1>1. [e \in Episodes |-> [s \in Sorts |-> 0]] \in [Episodes -> [Sorts -> Nat]]
  OBVIOUS
<1>2. /\ [e \in Episodes |-> 0] \in [Episodes -> Nat]
      /\ [e \in Episodes |-> "no"] \in [Episodes -> {"no", "severed", "finished", "minefield", "error"}]
      /\ [e \in Episodes |-> "none"] \in [Episodes -> {"none", "pass", "fail"}]
  OBVIOUS
<1>3. EpisodeTypeOK
  <2>1. rows \in [Episodes -> [Sorts -> Nat]] /\ foreign \in [Episodes -> [Sorts -> Nat]]
    BY <1>1 DEF Init, EpisodeInit
  <2>2. /\ writes \in [Episodes -> Nat]
        /\ ended \in [Episodes -> {"no", "severed", "finished", "minefield", "error"}]
        /\ verdict \in [Episodes -> {"none", "pass", "fail"}]
    BY <1>2 DEF Init, EpisodeInit
  <2>3. /\ severed \in BOOLEAN /\ reports \in Nat /\ late \in Nat
        /\ open = NoEpisode /\ phase = "idle" /\ step \in 0 .. MaxSteps /\ kind \in Kinds
    <3>1. /\ severed = FALSE /\ reports = 0 /\ late = 0 /\ step = 0
          /\ open = NoEpisode /\ phase = "idle" /\ kind = "other"
      BY DEF Init, EpisodeInit
    <3>2. MaxSteps \in Nat
      BY EpisodeAssumption
    <3>3. 0 \in 0 .. MaxSteps
      BY <3>2
    <3> QED
      BY <3>1, <3>3, Zenon DEF Kinds
  <2> QED
    BY <2>1, <2>2, <2>3 DEF EpisodeTypeOK
<1> QED
  BY <1>3 DEF Init, EpisodeInit, TypeOK, StepLeft

\* Episodes, gate and detector keep their types, for any number of episodes and steps.
THEOREM TypeCorrect == Spec => []TypeOK
<1>1. Spec => [](TypeOK /\ StepLeft)
  BY TypeInit, TypeNext, PTL DEF Spec
<1> QED
  BY <1>1, PTL

-----------------------------------------------------------------------------
\* A call that begins late is the last one: the gate is severed and no other is under way.
LastCall ==
  /\ late \in {0, 1}
  /\ late = 1 => severed /\ phase \notin {"asking", "posting"}

LEMMA LastCallNext == TypeOK /\ LastCall /\ [Next]_vars => LastCall'
<1> SUFFICES ASSUME TypeOK, LastCall, [Next]_vars PROVE LastCall'
  OBVIOUS
<1> USE DEF LastCall, gateVars
<1>1. ASSUME NEW e \in Episodes, OpenEpisode(e) \/ OpenRefused(e) \/ Score(e) PROVE LastCall'
  BY <1>1 DEF OpenEpisode, OpenRefused, Score, loopVars
<1>2. CASE LoopTop
  BY <1>2 DEF LoopTop, To, End
<1>3. CASE Act
  BY <1>3 DEF Act, To
<1>4. CASE Generate
  BY <1>4 DEF Generate, To, Lateness
<1>5. CASE Finish
  BY <1>5 DEF Finish, End
<1>6. CASE Apply
  BY <1>6 DEF Apply, To
<1>7. CASE Post
  <2>1. phase = "posting" /\ phase' \in {"applied", "posted"} /\ severed' = severed
    BY <1>7 DEF Post, To
  <2>2. late' = late + Lateness
    BY <1>7 DEF Post
  <2> QED
    BY <2>1, <2>2 DEF Lateness
<1>8. CASE CountWrite
  BY <1>8 DEF CountWrite, To
<1>9. CASE StepEnds
  BY <1>9 DEF StepEnds, End
<1>10. CASE LoopRaises
  BY <1>10 DEF LoopRaises, End
<1>11. ASSUME NEW s \in Sorts, AroundTheBroker(s) PROVE LastCall'
  BY <1>11 DEF AroundTheBroker, loopVars
<1>12. CASE Sever
  BY <1>12 DEF Sever, loopVars
<1>13. CASE UNCHANGED episodeVars
  BY <1>13 DEF episodeVars, loopVars
<1> QED
  BY <1>1, <1>2, <1>3, <1>4, <1>5, <1>6, <1>7, <1>8, <1>9, <1>10, <1>11, <1>12, <1>13
  DEF Next, EpisodeNext, Loop, vars

\* Once the gate is severed, one call to the model or one post that had passed it may
\* begin, and no other, in whatever episode.
THEOREM QuietOnceSevered == Spec => []AgentGoesQuiet
<1>1. Init => LastCall
  BY DEF Init, EpisodeInit, LastCall
<1>2. LastCall => AgentGoesQuiet
  BY DEF LastCall, AgentGoesQuiet
<1> QED
  BY <1>1, <1>2, LastCallNext, TypeCorrect, PTL DEF Spec

-----------------------------------------------------------------------------
\* A row a minefield counts is either not the broker's, or of the step in hand, or has
\* ended its episode.
Clear(e) ==
  \/ open = e /\ phase \in {"posted", "applied"}
  \/ ended[e] \in {"minefield", "error"}
  \/ rows[e]["mine"] <= foreign[e]["mine"]

MinesAreSeen ==
  /\ open \in Episodes => ended[open] = "no"
  /\ \A e \in Episodes : Clear(e)
  /\ \A e \in Episodes : verdict[e] = "pass" => ended[e] \in {"severed", "finished"}

\* Every step of an episode keeps that.
LEMMA MinesAreSeenNext == TypeOK /\ MinesAreSeen /\ [Next]_vars => MinesAreSeen'
<1> SUFFICES ASSUME TypeOK, MinesAreSeen, [Next]_vars PROVE MinesAreSeen'
  OBVIOUS
<1> USE DEF MinesAreSeen, Clear, gateVars, siteVars, endVars
<1>0. /\ ended \in [Episodes -> {"no", "severed", "finished", "minefield", "error"}]
      /\ verdict \in [Episodes -> {"none", "pass", "fail"}]
      /\ rows \in Tables /\ foreign \in Tables
      /\ open \in Episodes \cup {NoEpisode} /\ (open = NoEpisode) = (phase = "idle")
      /\ NoEpisode \notin Episodes
  BY EpisodeAssumption DEF TypeOK, EpisodeTypeOK, Tables
\* What leaves the site and the end alone, and is not at a post or just after one.
<1>1. ASSUME open' = open, phase \notin {"posted", "applied"}, UNCHANGED <<siteVars, endVars>>
      PROVE  MinesAreSeen'
  BY <1>0, <1>1
\* The end of an episode in which the minefields have been looked at.
<1>2. ASSUME NEW reason \in {"severed", "finished", "minefield", "error"}, End(reason),
             UNCHANGED siteVars, open \in Episodes,
             reason \in {"minefield", "error"} \/ rows[open]["mine"] <= foreign[open]["mine"]
      PROVE  MinesAreSeen'
  <2>1. ended' = [ended EXCEPT ![open] = reason] /\ verdict' = verdict /\ open' = NoEpisode
    BY <1>2 DEF End
  <2>2. ASSUME NEW e \in Episodes PROVE Clear(e)'
    BY <1>0, <1>2, <2>1
  <2>3. ASSUME NEW e \in Episodes, verdict'[e] = "pass" PROVE ended'[e] \in {"severed", "finished"}
    BY <1>0, <1>2, <2>1, <2>3
  <2> QED
    BY <1>0, <2>1, <2>2, <2>3
<1>3. ASSUME NEW e \in Episodes, OpenEpisode(e) PROVE MinesAreSeen'
  BY <1>0, <1>3 DEF OpenEpisode
<1>4. ASSUME NEW e \in Episodes, OpenRefused(e) PROVE MinesAreSeen'
  <2>1. ended' = [ended EXCEPT ![e] = "error"] /\ open' = open /\ open = NoEpisode
        /\ phase' = phase /\ UNCHANGED <<siteVars, verdict>>
    BY <1>0, <1>4 DEF OpenRefused, loopVars
  <2>2. ASSUME NEW o \in Episodes PROVE Clear(o)'
    BY <1>0, <2>1
  <2>3. ASSUME NEW o \in Episodes, verdict'[o] = "pass" PROVE ended'[o] \in {"severed", "finished"}
    BY <1>0, <1>4, <2>1, <2>3 DEF OpenRefused
  <2> QED
    BY <1>0, <2>1, <2>2, <2>3
<1>5. ASSUME NEW e \in Episodes, Score(e) PROVE MinesAreSeen'
  <2>1. UNCHANGED <<open, phase, siteVars, ended>>
    BY <1>5 DEF Score, loopVars
  <2>2. ASSUME NEW o \in Episodes, verdict'[o] = "pass" PROVE ended[o] \in {"severed", "finished"}
    <3>1. CASE o = e
      BY <1>0, <1>5, <2>2, <3>1 DEF Score, Passes
    <3>2. CASE o # e
      BY <1>0, <1>5, <2>2, <3>2 DEF Score
    <3> QED
      BY <3>1, <3>2
  <2> QED
    BY <1>0, <2>1, <2>2
<1>6. CASE LoopTop
  <2>1. open \in Episodes /\ phase = "top" /\ rows[open]["mine"] <= foreign[open]["mine"] /\ UNCHANGED siteVars
    BY <1>0, <1>6 DEF LoopTop
  <2>2. CASE End("finished") \/ End("severed")
    BY <1>2, <2>1, <2>2
  <2>3. CASE To("observed") /\ UNCHANGED <<kind, endVars>>
    BY <1>1, <2>1, <2>3 DEF To
  <2> QED
    BY <1>6, <2>2, <2>3 DEF LoopTop
<1>7. CASE Act
  BY <1>1, <1>7 DEF Act, To
<1>8. CASE Generate
  BY <1>1, <1>8 DEF Generate, To
<1>9. CASE Finish
  <2>1. open \in Episodes /\ rows[open]["mine"] <= foreign[open]["mine"]
    BY <1>0, <1>9 DEF Finish
  <2> QED
    BY <1>2, <1>9, <2>1 DEF Finish
<1>10. CASE Apply
  BY <1>1, <1>10 DEF Apply, To
<1>11. CASE Post
  <2>1. open \in Episodes /\ open' = open /\ phase' \in {"applied", "posted"}
        /\ UNCHANGED <<foreign, endVars>>
    BY <1>0, <1>11 DEF Post, To
  <2>2. \A o \in Episodes \ {open} : rows'[o] = rows[o]
    BY <1>0, <1>11, <2>1, PostFacts
  <2> QED
    BY <1>0, <2>1, <2>2
<1>12. CASE CountWrite
  BY <1>0, <1>12 DEF CountWrite, To
<1>13. CASE StepEnds
  <2>1. open \in Episodes /\ UNCHANGED siteVars
    BY <1>0, <1>13 DEF StepEnds
  <2>2. CASE End("minefield")
    BY <1>2, <2>1, <2>2
  <2>3. CASE rows[open]["mine"] = 0 /\ open' = open /\ UNCHANGED endVars
    <3>1. foreign[open]["mine"] \in Nat
      BY <1>0, <2>1 DEF Tables, Sorts, InScope
    <3> QED
      BY <1>0, <2>1, <2>3, <3>1
  <2> QED
    BY <1>13, <2>2, <2>3 DEF StepEnds
<1>14. CASE LoopRaises
  <2>1. open \in Episodes
    BY <1>0, <1>14 DEF LoopRaises
  <2> QED
    BY <1>2, <1>14, <2>1 DEF LoopRaises
<1>15. ASSUME NEW s \in Sorts, AroundTheBroker(s) PROVE MinesAreSeen'
  <2>1. open \in Episodes /\ rows' = AddRow(rows, open, s) /\ foreign' = AddRow(foreign, open, s)
        /\ UNCHANGED <<open, phase, endVars>>
    BY <1>0, <1>15 DEF AroundTheBroker, loopVars
  <2>2. /\ \A o \in Episodes \ {open} : rows'[o] = rows[o] /\ foreign'[o] = foreign[o]
        /\ s = "mine" => rows'[open]["mine"] = rows[open]["mine"] + 1
                         /\ foreign'[open]["mine"] = foreign[open]["mine"] + 1
        /\ s # "mine" => rows'[open]["mine"] = rows[open]["mine"]
                         /\ foreign'[open]["mine"] = foreign[open]["mine"]
    BY <1>0, <2>1, AddRowFacts
  <2>3. rows[open]["mine"] \in Nat /\ foreign[open]["mine"] \in Nat
    BY <1>0, <2>1 DEF Tables, Sorts, InScope
  <2> QED
    BY <1>0, <2>1, <2>2, <2>3
<1>16. CASE Sever
  BY <1>0, <1>16 DEF Sever, loopVars
<1>17. CASE UNCHANGED episodeVars
  BY <1>17 DEF episodeVars, loopVars
<1> QED
  BY <1>3, <1>4, <1>5, <1>6, <1>7, <1>8, <1>9, <1>10, <1>11, <1>12, <1>13, <1>14, <1>15, <1>16, <1>17
  DEF Next, EpisodeNext, Loop, vars

\* No episode passes in which the agent wrote a minefield's row through the broker, in
\* whatever step, and whatever else ended the episode.
THEOREM MinefieldsAreFinal == Spec => []MinefieldIsFinal
<1>1. Init => MinesAreSeen
  <2> SUFFICES ASSUME Init PROVE MinesAreSeen
    OBVIOUS
  <2>1. \A e \in Episodes : rows[e]["mine"] <= foreign[e]["mine"]
    <3> SUFFICES ASSUME NEW e \in Episodes PROVE rows[e]["mine"] <= foreign[e]["mine"]
      OBVIOUS
    <3>1. rows[e] = [s \in Sorts |-> 0] /\ foreign[e] = rows[e]
      BY DEF Init, EpisodeInit
    <3> QED
      BY <3>1 DEF Sorts, InScope
  <2> QED
    BY <2>1, EpisodeAssumption DEF Init, EpisodeInit, MinesAreSeen, Clear
<1>2. TypeOK /\ MinesAreSeen => MinefieldIsFinal
  BY DEF MinesAreSeen, Clear, MinefieldIsFinal
<1> QED
  BY <1>1, <1>2, MinesAreSeenNext, TypeCorrect, PTL DEF Spec

-----------------------------------------------------------------------------
\* The agent's rows are accounted for by the broker's count and by what came around it,
\* but for a post that is not counted yet; so is what D10 has counted, and what it found.
Race == IF raced THEN 1 ELSE 0

Attributed(e) ==
  \/ ended[e] = "error"
  \/ RowsOf(rows, e) <= RowsOf(foreign, e) + writes[e] + (IF open = e /\ phase = "posted" THEN 1 ELSE 0)

CountExplained ==
  counted # NotCounting =>
    counted.rows <= RowsOf(foreign, counted.episode) + writes[counted.episode] + Race

AllExplained ==
  /\ open \in Episodes => ended[open] = "no"
  /\ \A e \in Episodes : Attributed(e)
  /\ CountExplained
  /\ BypassIsExplained

\* What an episode's step may do to the four numbers: rows around the broker and counted
\* writes only grow, and the rows of the episode in hand grow with one of them or are
\* the post in hand.
LEMMA AccountsNext ==
  ASSUME TypeOK, AllExplained, EpisodeNext
  PROVE  /\ open' \in Episodes => ended'[open'] = "no"
         /\ \A e \in Episodes : Attributed(e)'
         /\ \A e \in Episodes : RowsOf(foreign, e)' >= RowsOf(foreign, e) /\ writes'[e] >= writes[e]
<1> DEFINE Goal == /\ open' \in Episodes => ended'[open'] = "no"
                   /\ \A e \in Episodes : Attributed(e)'
                   /\ \A e \in Episodes : RowsOf(foreign, e)' >= RowsOf(foreign, e) /\ writes'[e] >= writes[e]
<1> USE DEF AllExplained, Attributed, gateVars, endVars
<1>0. /\ ended \in [Episodes -> {"no", "severed", "finished", "minefield", "error"}]
      /\ rows \in Tables /\ foreign \in Tables /\ writes \in [Episodes -> Nat]
      /\ open \in Episodes \cup {NoEpisode} /\ (open = NoEpisode) = (phase = "idle")
      /\ NoEpisode \notin Episodes
      /\ \A e \in Episodes : RowsOf(rows, e) \in Nat /\ RowsOf(foreign, e) \in Nat /\ writes[e] \in Nat
  BY EpisodeAssumption, RowsOfType DEF TypeOK, EpisodeTypeOK, Tables
\* Nothing on the site moves, no post is left uncounted and no episode taken up again.
<1>1. ASSUME UNCHANGED siteVars, open' = open \/ open' = NoEpisode, phase # "posted",
             \A e \in Episodes : ended'[e] = ended[e] \/ (e = open /\ open' = NoEpisode) \/ ended'[e] = "error",
             open' = open => UNCHANGED ended
      PROVE  Goal
  <2>1. \A e \in Episodes : RowsOf(rows, e)' = RowsOf(rows, e) /\ RowsOf(foreign, e)' = RowsOf(foreign, e)
                            /\ writes'[e] = writes[e]
    BY <1>1 DEF siteVars, RowsOf
  <2> QED
    BY <1>0, <1>1, <2>1
<1>2. ASSUME NEW reason \in {"severed", "finished", "minefield", "error"}, End(reason),
             UNCHANGED siteVars, phase # "posted"
      PROVE  Goal
  <2>1. open' = NoEpisode /\ ended' = [ended EXCEPT ![open] = reason]
    BY <1>2 DEF End
  <2>2. \A e \in Episodes : ended'[e] = ended[e] \/ (e = open /\ open' = NoEpisode)
    BY <1>0, <2>1
  <2>3. open' = open => UNCHANGED ended
    BY <1>0, <2>1
  <2> QED
    BY <1>1, <1>2, <2>1, <2>2, <2>3
<1>3. ASSUME NEW e \in Episodes, OpenEpisode(e) PROVE Goal
  <2>1. UNCHANGED siteVars /\ UNCHANGED ended /\ open' = e /\ ended[e] = "no" /\ phase = "idle"
    BY <1>3 DEF OpenEpisode
  <2>2. \A o \in Episodes : RowsOf(rows, o)' = RowsOf(rows, o) /\ RowsOf(foreign, o)' = RowsOf(foreign, o)
                            /\ writes'[o] = writes[o]
    BY <2>1 DEF siteVars, RowsOf
  <2> QED
    BY <1>0, <2>1, <2>2
<1>4. ASSUME NEW e \in Episodes, OpenRefused(e) PROVE Goal
  <2>1. open' = open /\ open = NoEpisode /\ phase = "idle" /\ UNCHANGED siteVars
        /\ ended' = [ended EXCEPT ![e] = "error"]
    BY <1>0, <1>4 DEF OpenRefused, loopVars
  <2>2. \A o \in Episodes : RowsOf(rows, o)' = RowsOf(rows, o) /\ RowsOf(foreign, o)' = RowsOf(foreign, o)
                            /\ writes'[o] = writes[o]
    BY <2>1 DEF siteVars, RowsOf
  <2>3. \A o \in Episodes : ended'[o] = ended[o] \/ ended'[o] = "error"
    BY <1>0, <2>1
  <2> QED
    BY <1>0, <2>1, <2>2, <2>3
<1>5. ASSUME NEW e \in Episodes, Score(e) PROVE Goal
  <2>1. UNCHANGED <<open, phase, ended, rows, writes, foreign>>
    BY <1>5 DEF Score, loopVars, siteVars
  <2> QED
    BY <1>0, <2>1 DEF RowsOf
<1>6. CASE LoopTop
  <2>1. UNCHANGED siteVars /\ phase = "top"
    BY <1>6 DEF LoopTop
  <2>2. CASE End("finished") \/ End("severed")
    BY <1>2, <2>1, <2>2
  <2>3. CASE To("observed") /\ UNCHANGED <<kind, endVars>>
    BY <1>1, <2>1, <2>3 DEF To
  <2> QED
    BY <1>6, <2>2, <2>3 DEF LoopTop
<1>7. CASE Act
  BY <1>1, <1>7 DEF Act, To
<1>8. CASE Generate
  BY <1>1, <1>8 DEF Generate, To
<1>9. CASE Finish
  BY <1>2, <1>9 DEF Finish
<1>10. CASE Apply
  BY <1>1, <1>10 DEF Apply, To
<1>11. CASE Post
  <2>1. open \in Episodes /\ open' = open /\ phase = "posting" /\ phase' \in {"applied", "posted"}
        /\ UNCHANGED <<foreign, writes, ended>>
    BY <1>0, <1>11 DEF Post, To
  <2>2. /\ rows' \in Tables /\ \A o \in Episodes \ {open} : rows'[o] = rows[o]
        /\ RowsOf(rows, open)' <= RowsOf(rows, open) + (IF phase' = "posted" THEN 1 ELSE 0)
    BY <1>0, <1>11, <2>1, PostFacts
  <2>3. \A o \in Episodes : RowsOf(foreign, o)' = RowsOf(foreign, o) /\ writes'[o] = writes[o]
    BY <2>1 DEF RowsOf
  <2>4. \A o \in Episodes \ {open} : RowsOf(rows, o)' = RowsOf(rows, o)
    BY <2>2 DEF RowsOf
  <2>5. RowsOf(rows', open) \in Nat /\ RowsOf(rows, open)' = RowsOf(rows', open)
    BY <2>1, <2>2, RowsOfType DEF RowsOf
  <2>6. ASSUME NEW o \in Episodes \ {open} PROVE Attributed(o)'
    BY <1>0, <2>1, <2>3, <2>4
  <2>7. RowsOf(rows, open) <= RowsOf(foreign, open) + writes[open]
    BY <1>0, <2>1
  <2>8. (RowsOf(rows, open) <= RowsOf(foreign, open) + writes[open] + (IF open = open /\ phase = "posted" THEN 1 ELSE 0))'
    BY <1>0, <2>1, <2>2, <2>3, <2>5, <2>7
  <2> QED
    BY <1>0, <2>1, <2>3, <2>6, <2>8
<1>12. CASE CountWrite
  <2>1. phase = "posted" /\ phase' = "applied" /\ open' = open /\ open \in Episodes
        /\ writes' = [writes EXCEPT ![open] = @ + 1] /\ UNCHANGED <<rows, foreign, ended>>
    BY <1>0, <1>12 DEF CountWrite, To
  <2>2. \A o \in Episodes : RowsOf(rows, o)' = RowsOf(rows, o) /\ RowsOf(foreign, o)' = RowsOf(foreign, o)
    BY <2>1 DEF RowsOf
  <2>3. writes'[open] = writes[open] + 1 /\ \A o \in Episodes \ {open} : writes'[o] = writes[o]
    BY <1>0, <2>1
  <2>4. ASSUME NEW o \in Episodes \ {open} PROVE Attributed(o)'
    BY <1>0, <2>1, <2>2, <2>3
  <2>5. Attributed(open)'
    BY <1>0, <2>1, <2>2, <2>3
  <2> QED
    BY <1>0, <2>1, <2>2, <2>3, <2>4, <2>5
<1>13. CASE StepEnds
  <2>1. UNCHANGED siteVars /\ phase = "applied"
    BY <1>13 DEF StepEnds
  <2>2. CASE End("minefield")
    BY <1>2, <2>1, <2>2
  <2>3. CASE open' = open /\ UNCHANGED endVars
    BY <1>1, <2>1, <2>3
  <2> QED
    BY <1>13, <2>2, <2>3 DEF StepEnds
<1>14. CASE LoopRaises
  <2>1. open \in Episodes /\ UNCHANGED siteVars /\ open' = NoEpisode
        /\ ended' = [ended EXCEPT ![open] = "error"]
    BY <1>0, <1>14 DEF LoopRaises, End
  <2>2. \A o \in Episodes : RowsOf(rows, o)' = RowsOf(rows, o) /\ RowsOf(foreign, o)' = RowsOf(foreign, o)
                            /\ writes'[o] = writes[o]
    BY <2>1 DEF siteVars, RowsOf
  <2>3. ended'[open] = "error" /\ \A o \in Episodes \ {open} : ended'[o] = ended[o]
    BY <1>0, <2>1
  <2> QED
    BY <1>0, <2>1, <2>2, <2>3
<1>15. ASSUME NEW s \in Sorts, AroundTheBroker(s) PROVE Goal
  <2>1. open \in Episodes /\ rows' = AddRow(rows, open, s) /\ foreign' = AddRow(foreign, open, s)
        /\ UNCHANGED <<open, phase, writes, ended>>
    BY <1>0, <1>15 DEF AroundTheBroker, loopVars
  <2>2. /\ RowsOf(rows', open) = RowsOf(rows, open) + 1 /\ \A o \in Episodes \ {open} : rows'[o] = rows[o]
        /\ RowsOf(foreign', open) = RowsOf(foreign, open) + 1
        /\ \A o \in Episodes \ {open} : foreign'[o] = foreign[o]
    BY <1>0, <2>1, AddRowFacts
  <2>3. /\ RowsOf(rows, open)' = RowsOf(rows, open) + 1
        /\ RowsOf(foreign, open)' = RowsOf(foreign, open) + 1
        /\ \A o \in Episodes \ {open} : RowsOf(rows, o)' = RowsOf(rows, o)
                                        /\ RowsOf(foreign, o)' = RowsOf(foreign, o)
    BY <2>1, <2>2 DEF RowsOf
  <2>4. ASSUME NEW o \in Episodes \ {open} PROVE Attributed(o)'
    BY <1>0, <2>1, <2>3
  <2>5. Attributed(open)'
    BY <1>0, <2>1, <2>3
  <2>6. \A o \in Episodes : RowsOf(foreign, o)' >= RowsOf(foreign, o) /\ writes'[o] >= writes[o]
    BY <1>0, <2>1, <2>3
  <2> QED
    BY <1>0, <2>1, <2>4, <2>5, <2>6
<1> QED
  BY <1>3, <1>4, <1>5, <1>6, <1>7, <1>8, <1>9, <1>10, <1>11, <1>12, <1>13, <1>14, <1>15
  DEF EpisodeNext, Loop

\* Every step keeps the accounts, D10's two reads with anything in between.
LEMMA AllExplainedNext ==
  TypeOK /\ StepLeft /\ AllExplained /\ [Next]_vars => AllExplained'
<1> SUFFICES ASSUME TypeOK, StepLeft, AllExplained, [Next]_vars PROVE AllExplained'
  OBVIOUS
<1>0. /\ \A e \in Episodes : RowsOf(rows, e) \in Nat /\ RowsOf(foreign, e) \in Nat /\ writes[e] \in Nat
      /\ peak \in Nat /\ raced \in BOOLEAN /\ open \in Episodes \cup {NoEpisode}
      /\ counted \in [episode : Episodes, rows : Nat] \cup {NotCounting}
  BY RowsOfType DEF TypeOK, EpisodeTypeOK, Tables
<1>1. Race \in Nat
  BY DEF Race
<1>2. CASE UNCHANGED episodeVars
  <2>1. UNCHANGED <<open, phase, ended, rows, foreign, writes>>
    BY <1>2 DEF episodeVars, loopVars, siteVars, endVars
  <2> QED
    <3>1. /\ open' \in Episodes => ended'[open'] = "no"
          /\ \A e \in Episodes : Attributed(e)'
      BY <2>1 DEF AllExplained, Attributed, RowsOf
    <3>2. \A e \in Episodes : RowsOf(foreign, e)' = RowsOf(foreign, e) /\ writes'[e] = writes[e]
      BY <2>1 DEF RowsOf
    <3>3. CASE CountRows
      <4>1. open \in Episodes /\ counted' = [episode |-> open, rows |-> RowsOf(rows, open)] /\ peak' = peak
            /\ raced' = (raced \/ phase = "posted")
        BY <1>0, <3>3 DEF CountRows
      <4>2. RowsOf(rows, open) <= RowsOf(foreign, open) + writes[open] + (IF phase = "posted" THEN 1 ELSE 0)
        BY <4>1 DEF AllExplained, Attributed
      <4>3. Race' \in Nat /\ Race' >= Race /\ Race' >= (IF phase = "posted" THEN 1 ELSE 0)
        <5>1. CASE raced
          <6>1. raced'
            BY <4>1, <5>1
          <6> QED
            BY <5>1, <6>1 DEF Race
        <5>2. CASE ~raced /\ phase = "posted"
          <6>1. raced'
            BY <4>1, <5>2
          <6> QED
            BY <5>2, <6>1 DEF Race
        <5>3. CASE ~raced /\ phase # "posted"
          BY <4>1, <5>3 DEF Race
        <5> QED
          BY <5>1, <5>2, <5>3
      <4>4. counted'.episode = open /\ counted'.rows = RowsOf(rows, open)
        BY <4>1
      <4>5. CountExplained'
        <5>0. RowsOf(foreign, open)' = RowsOf(foreign, open)
          BY <2>1 DEF RowsOf
        <5>1. RowsOf(rows, open) <= RowsOf(foreign, open)' + writes'[open] + Race'
          BY <1>0, <2>1, <4>1, <4>2, <4>3, <5>0
        <5>2. RowsOf(foreign, counted.episode)' = RowsOf(foreign, open)'
              /\ writes'[counted'.episode] = writes'[open]
          BY <2>1, <4>4 DEF RowsOf
        <5> QED
          BY <4>4, <5>1, <5>2 DEF CountExplained
      <4>6. BypassIsExplained'
        <5>1. PICK e \in Episodes : peak <= RowsOf(foreign, e) + Race
          BY DEF AllExplained, BypassIsExplained, Race
        <5>2. peak' <= RowsOf(foreign, e)' + Race'
          BY <1>0, <1>1, <3>2, <4>1, <4>3, <5>1
        <5> QED
          BY <5>2 DEF BypassIsExplained, Race
      <4> QED
        BY <3>1, <4>5, <4>6 DEF AllExplained
    <3>4. CASE Compare
      <4>1. counted \in [episode : Episodes, rows : Nat] /\ counted # NotCounting
            /\ counted' = NotCounting /\ raced' = raced
            /\ peak' = IF Excess > peak THEN Excess ELSE peak
        BY <1>0, <3>4 DEF Compare
      <4>2. counted.rows <= RowsOf(foreign, counted.episode) + writes[counted.episode] + Race
        BY <4>1 DEF AllExplained, CountExplained
      <4>3. Excess <= RowsOf(foreign, counted.episode) + Race
        BY <1>0, <1>1, <4>1, <4>2 DEF Excess
      <4>4. PICK e \in Episodes : peak <= RowsOf(foreign, e) + Race
        BY DEF AllExplained, BypassIsExplained, Race
      <4>5. \E o \in Episodes : peak' <= RowsOf(foreign, o) + Race
        BY <4>1, <4>3, <4>4
      <4>6. BypassIsExplained'
        BY <3>2, <4>1, <4>5 DEF BypassIsExplained, Race
      <4>7. CountExplained'
        BY <4>1 DEF CountExplained, NotCounting
      <4> QED
        BY <3>1, <4>6, <4>7 DEF AllExplained
    <3>5. CASE UNCHANGED bypassVars
      BY <2>1, <3>1, <3>5 DEF AllExplained, CountExplained, BypassIsExplained, Race, RowsOf, bypassVars
    <3>6. CountRows \/ Compare \/ UNCHANGED bypassVars
      BY DEF Next, vars
    <3> QED
      BY <3>3, <3>4, <3>5, <3>6
<1> DEFINE Grows == \A e \in Episodes : RowsOf(foreign, e)' >= RowsOf(foreign, e) /\ writes'[e] >= writes[e]
<1>3. ASSUME open' \in Episodes => ended'[open'] = "no", \A e \in Episodes : Attributed(e)', Grows, TypeOK',
             UNCHANGED bypassVars
      PROVE  AllExplained'
  <2>1. counted' = counted /\ peak' = peak /\ raced' = raced /\ Race' = Race
    BY <1>3 DEF bypassVars, Race
  <2>2. \A e \in Episodes : RowsOf(foreign', e) \in Nat /\ writes'[e] \in Nat
    BY <1>3, RowsOfType DEF TypeOK, EpisodeTypeOK, Tables
  <2>3. \A e \in Episodes : RowsOf(foreign, e)' = RowsOf(foreign', e)
    BY DEF RowsOf
  <2>4. CountExplained'
    <3>1. CASE counted = NotCounting
      BY <2>1, <3>1 DEF CountExplained, NotCounting
    <3>2. CASE counted # NotCounting
      <4>1. counted.episode \in Episodes /\ counted.rows \in Nat
        BY <1>0, <3>2
      <4>2. counted.rows <= RowsOf(foreign, counted.episode) + writes[counted.episode] + Race
        BY <3>2 DEF AllExplained, CountExplained
      <4>3. counted.rows <= RowsOf(foreign', counted.episode) + writes'[counted.episode] + Race
        BY <1>0, <1>1, <1>3, <2>2, <2>3, <4>1, <4>2
      <4>4. RowsOf(foreign, counted.episode)' = RowsOf(foreign', counted.episode)
        BY <2>1 DEF RowsOf
      <4> QED
        BY <2>1, <4>3, <4>4 DEF CountExplained
    <3> QED
      BY <3>1, <3>2
  <2>5. PICK e \in Episodes : peak <= RowsOf(foreign, e) + Race
    BY DEF AllExplained, BypassIsExplained, Race
  <2>6. peak' <= RowsOf(foreign', e) + Race'
    BY <1>0, <1>1, <1>3, <2>1, <2>2, <2>3, <2>5
  <2>7. BypassIsExplained'
    BY <2>3, <2>6 DEF BypassIsExplained, Race
  <2> QED
    BY <1>3, <2>4, <2>7 DEF AllExplained
<1>4. TypeOK'
  BY TypeNext
<1>5. CASE EpisodeNext /\ UNCHANGED bypassVars
  BY <1>3, <1>4, <1>5, AccountsNext
<1>6. CASE Sever /\ UNCHANGED bypassVars
  <2>1. UNCHANGED <<open, phase, ended, rows, foreign, writes>>
    BY <1>6 DEF Sever, loopVars, siteVars, endVars
  <2>2. /\ open' \in Episodes => ended'[open'] = "no"
        /\ \A e \in Episodes : Attributed(e)'
    BY <2>1 DEF AllExplained, Attributed, RowsOf
  <2>3. Grows
    BY <1>0, <2>1 DEF RowsOf
  <2> QED
    BY <1>3, <1>4, <1>6, <2>2, <2>3
<1> QED
  BY <1>2, <1>5, <1>6 DEF Next, vars

\* What D10 finds is rows written around the broker, but for the one post it may have
\* come in the middle of.
THEOREM BypassExplained == Spec => []BypassIsExplained
<1>1. Init => AllExplained
  <2> SUFFICES ASSUME Init PROVE AllExplained
    OBVIOUS
  <2>1. TypeOK
    BY TypeInit
  <2>2. \A e \in Episodes : RowsOf(rows, e) = RowsOf(foreign, e) /\ writes[e] = 0
    BY DEF Init, EpisodeInit, RowsOf
  <2>3. \A e \in Episodes : RowsOf(rows, e) \in Nat /\ RowsOf(foreign, e) \in Nat
    BY <2>1, RowsOfType DEF TypeOK, EpisodeTypeOK, Tables
  <2>4. open = NoEpisode /\ peak = 0 /\ raced = FALSE /\ counted = NotCounting
    BY DEF Init, EpisodeInit
  <2>5. \A e \in Episodes : Attributed(e)
    <3> SUFFICES ASSUME NEW e \in Episodes
                 PROVE  RowsOf(rows, e) <= RowsOf(foreign, e) + writes[e]
                                           + (IF open = e /\ phase = "posted" THEN 1 ELSE 0)
      BY DEF Attributed
    <3>1. phase = "idle"
      BY DEF Init, EpisodeInit
    <3>2. RowsOf(foreign, e) \in Nat /\ RowsOf(rows, e) = RowsOf(foreign, e) /\ writes[e] = 0
      BY <2>2, <2>3
    <3> QED
      BY <3>1, <3>2
  <2>6. BypassIsExplained
    BY <2>3, <2>4, EpisodeAssumption DEF BypassIsExplained
  <2> QED
    BY <2>4, <2>5, <2>6, EpisodeAssumption DEF AllExplained, CountExplained
<1>2. AllExplained => BypassIsExplained
  BY DEF AllExplained
<1>3. Spec => [](TypeOK /\ StepLeft)
  BY TypeInit, TypeNext, PTL DEF Spec
<1> QED
  BY <1>1, <1>2, <1>3, AllExplainedNext, PTL DEF Spec
=============================================================================
