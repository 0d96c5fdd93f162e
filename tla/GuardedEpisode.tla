--------------------------- MODULE GuardedEpisode ---------------------------
(***************************************************************************)
(* Episodes beside a watchdog that may sever the gate at any time, as the  *)
(* halt path does, and that reads detector D10 (StateBypassDetector in     *)
(* tools/watchdog/detectors.py) over the episode in hand: first the rows   *)
(* of its databases, then the broker's counter.                            *)
(***************************************************************************)
EXTENDS Episode

VARIABLES
  counted,  \* D10 between its two reads: [episode, rows], or NotCounting
  peak,     \* D10's _peak
  raced     \* history: rows were counted while a post was not counted yet

bypassVars == <<counted, peak, raced>>
vars == <<episodeVars, bypassVars>>

NotCounting == [episode |-> NoEpisode, rows |-> 0]

TypeOK ==
  /\ EpisodeTypeOK
  /\ counted \in [episode : Episodes, rows : Nat] \cup {NotCounting}
  /\ peak \in Nat
  /\ raced \in BOOLEAN

Init ==
  /\ EpisodeInit
  /\ counted = NotCounting /\ peak = 0 /\ raced = FALSE

-----------------------------------------------------------------------------
\* list(open_episodes) is a copy: the episode may close before the second read.
CountRows ==
  /\ counted = NotCounting
  /\ open # NoEpisode
  /\ counted' = [episode |-> open, rows |-> RowsOf(rows, open)]
  /\ raced' = (raced \/ phase = "posted")
  /\ UNCHANGED peak

\* Mutant: what was written through the broker is not taken off.
ExcessOfAll == counted.rows

Excess ==
  IF counted.rows > writes[counted.episode] THEN counted.rows - writes[counted.episode] ELSE 0

Compare ==
  /\ counted # NotCounting
  /\ peak' = IF Excess > peak THEN Excess ELSE peak
  /\ counted' = NotCounting
  /\ UNCHANGED raced

\* The halt path severs the gate; there is no other way and no way back.
Sever == ~severed /\ severed' = TRUE /\ UNCHANGED <<reports, loopVars, siteVars, endVars, late>>

Next ==
  \/ EpisodeNext /\ UNCHANGED bypassVars
  \/ (CountRows \/ Compare) /\ UNCHANGED episodeVars
  \/ Sever /\ UNCHANGED bypassVars

Spec == Init /\ [][Next]_vars

-----------------------------------------------------------------------------
\* What D10 ever found is rows written around the broker, but for the one post the
\* broker may have performed and not yet counted when the rows were counted.
BypassIsExplained ==
  \E e \in Episodes : peak <= RowsOf(foreign, e) + (IF raced THEN 1 ELSE 0)
=============================================================================
