--------------------------- MODULE NumericChannel ---------------------------
(***************************************************************************)
(* The numeric egress channel from end to end: sources, sender, spool,     *)
(* diode, reader and dashboard, as scripts/run_eval_demo.py composes them  *)
(* in cross_out.  Either side may start again; the link drops and damages. *)
(***************************************************************************)
EXTENDS EgressSender, EgressReader, FiniteSets

CONSTANTS Differencing,    \* metrics whose source reports the change since it was read
          MaxItems,        \* capacity of the egress diode
          MaxSeq, MaxTotal, MaxDamaged,            \* bounds: frames, counts, damage
          MaxRestarts, MaxReaderRestarts, EventsBy \* bounds: restarts; nothing
                           \* happens outside the channel after frame EventsBy

VARIABLES total,      \* what each attached source has counted
          reported,   \* what a differencing source has already reported
          spool,      \* FrameSpool: file number -> frame
          received,   \* file names in the receiving directory
          arrived,    \* items delivered by the last tick and not yet read
          accepted,   \* history: frames accepted since the reader started
          faults      \* history: restarts of either side and damaged items

channelVars == <<total, reported, spool, received, arrived, accepted, faults>>
vars == <<sequence, cursor, lastSequence, latest, total, reported, spool,
          received, arrived, accepted, faults>>

ASSUME ChannelAssumption ==
    /\ Shown = Metrics /\ Alarms \subseteq AlwaysIds \cap Attached
    /\ Attached \subseteq Metrics /\ Differencing \subseteq Attached \cap DeltaIds
    /\ Nothing \notin Readings
    /\ MaxSeq \in Nat /\ MaxItems \in Nat /\ MaxTotal \in Nat /\ MaxRestarts \in Nat

Lower(a, b) == a < b
Link == INSTANCE Diode WITH Before <- Lower

Names  == 1 .. MaxSeq
Frames == UNION {[seq : Names, process : 0 .. MaxRestarts, slots : [M -> Readings]] :
                    M \in SUBSET Metrics}
Items  == [name : Names, frame : Frames, whole : BOOLEAN]
Zero   == [m \in Attached |-> 0]

TypeOK ==
    /\ SenderTypeOK /\ sequence <= MaxSeq
    /\ lastSequence \in 0 .. MaxSeq
    /\ latest \in [Metrics -> Readings \cup {Nothing}]
    /\ total \in [Attached -> Nat] /\ reported \in [Attached -> Nat]
    /\ DOMAIN spool \subseteq Names /\ \A n \in DOMAIN spool : spool[n] \in Frames
    /\ received \subseteq DOMAIN spool
    /\ arrived \subseteq Items /\ \A i \in arrived : i.name \in received
    /\ accepted \subseteq Frames
    /\ faults \in [sender : 0 .. MaxRestarts, reader : Nat, damage : Nat]

Init ==
    /\ SenderInit
    /\ ReaderInit
    /\ total = Zero /\ reported = Zero
    /\ spool = << >> /\ received = {} /\ arrived = {}
    /\ accepted = {}
    /\ faults = [sender |-> 0, reader |-> 0, damage |-> 0]

\* as_metrics: the running total, or the change since the last reading
Reading == [m \in Attached |-> IF m \in Differencing THEN total[m] - reported[m] ELSE total[m]]

\* Something happens inside that a source counts.
Count(m) ==
    /\ total[m] < MaxTotal /\ sequence <= EventsBy
    /\ total' = [total EXCEPT ![m] = @ + 1]
    /\ UNCHANGED <<sequence, cursor, lastSequence, latest, reported, spool, received,
                   arrived, accepted, faults>>

\* A human clears the watchdog: its indicator is zero again.
ClearAlarm(m) ==
    /\ m \in Alarms /\ total[m] > 0 /\ sequence <= EventsBy
    /\ total' = [total EXCEPT ![m] = 0]
    /\ UNCHANGED <<sequence, cursor, lastSequence, latest, reported, spool, received,
                   arrived, accepted, faults>>

\* cross_out, first line: Telemetry.tick reads every source, FrameSpool.put
\* writes the frame under the next number, over what was there.
SendFrame ==
    /\ arrived = {} /\ sequence < MaxSeq
    /\ SenderTick
    /\ reported' = [m \in Attached |-> IF m \in Differencing THEN total[m] ELSE reported[m]]
    /\ spool' = [n \in DOMAIN spool \cup {sequence + 1} |->
                    IF n = sequence + 1 THEN NextFrame(faults.sender, Reading) ELSE spool[n]]
    /\ UNCHANGED <<lastSequence, latest, total, received, arrived, accepted, faults>>

\* cross_out, second line: one tick of the diode.
Cross ==
    LET batch == Link!Batch(DOMAIN spool, received)
    IN  /\ arrived = {}
        /\ \E fate \in [batch -> Link!Fates] :
             LET damaged == {n \in batch : fate[n] = "damaged"} IN
             /\ Link!Delivered(fate) # {}
             /\ faults.damage + Cardinality(damaged) <= MaxDamaged
             /\ received' = received \cup Link!Delivered(fate)
             /\ arrived' = {[name |-> n, frame |-> spool[n], whole |-> n \notin damaged] :
                               n \in Link!Delivered(fate)}
             /\ faults' = [faults EXCEPT !.damage = @ + Cardinality(damaged)]
    /\ UNCHANGED <<sequence, cursor, lastSequence, latest, total, reported, spool, accepted>>

\* cross_out, last line: the delivered files are read in the order of their names.
Feed ==
    \E i \in arrived :
      /\ \A j \in arrived : i.name <= j.name
      /\ arrived' = arrived \ {i}
      /\ IF FrameVerdict(i.frame, i.whole) = "OK"
         THEN Take(i.frame) /\ accepted' = accepted \cup {i.frame}
         ELSE UNCHANGED <<lastSequence, latest, accepted>>
      /\ UNCHANGED <<sequence, cursor, total, reported, spool, received, faults>>

\* The inside process starts again: counts, sender and spool numbering from
\* zero, the spooled files as they are.
InsideRestarts ==
    /\ faults.sender < MaxRestarts /\ sequence <= EventsBy
    /\ SenderRestart
    /\ total' = Zero /\ reported' = Zero
    /\ faults' = [faults EXCEPT !.sender = @ + 1]
    /\ UNCHANGED <<lastSequence, latest, spool, received, arrived, accepted>>

\* The dashboard starts again; what had arrived is not read a second time.
DashboardRestarts ==
    /\ faults.reader < MaxReaderRestarts /\ sequence <= EventsBy
    /\ ReaderRestart
    /\ arrived' = {} /\ accepted' = {}
    /\ faults' = [faults EXCEPT !.reader = @ + 1]
    /\ UNCHANGED <<sequence, cursor, total, reported, spool, received>>

Next ==
    \/ \E m \in Attached : Count(m) \/ ClearAlarm(m)
    \/ SendFrame
    \/ Cross
    \/ Feed
    \/ InsideRestarts
    \/ DashboardRestarts

Spec == Init /\ [][Next]_vars

\* The inside ticks at a fixed interval; an item that is not dropped for ever
\* gets across; what has arrived is read.
Fairness == WF_vars(SendFrame) /\ WF_vars(Cross) /\ WF_vars(Feed)
FairSpec == Spec /\ Fairness
-----------------------------------------------------------------------------
(***************************************************************************)
(* Properties                                                              *)
(***************************************************************************)
Carriers(m) == {f \in accepted : m \in DOMAIN f.slots}
FreshOf(m)  == {f \in Carriers(m) : ~f.slots[m].stale}

\* What the timestamps say: g was built after f.
Newer(g, f) == g.process > f.process \/ (g.process = f.process /\ g.seq > f.seq)

\* g is no newer than f, unless the inside started again in between and g's number has
\* not reached f's.
NoNewer(g, f) == Newer(g, f) => g.process > f.process /\ g.seq <= f.seq

\* The dashboard shows of a metric the fresh reading of the newest frame that carried
\* one, or the first stale one if there was none: no loss, damage or reordering by a
\* retried item lets an older reading replace a newer one (EgressReader.feed,
\* ReadingStore.write).  A restart of the inside does: the numbers begin again, and a
\* frame of the old process that is still in the spool replaces what the new one has
\* said so far.  It takes that, and a higher number.
ShowsTheNewest ==
    \A m \in Metrics :
      \/ \E f \in FreshOf(m) : /\ latest[m] = f.slots[m]
                               /\ \A g \in FreshOf(m) : NoNewer(g, f)
      \/ /\ FreshOf(m) = {}
         /\ \E f \in Carriers(m) : /\ latest[m] = f.slots[m]
                                   /\ \A g \in Carriers(m) : NoNewer(f, g)
      \/ Carriers(m) = {} /\ latest[m] = Nothing

\* Every rotating metric rides in one of any ceil(rotating / free) frames in a
\* row, however the cursor stands when the rotation wraps (EgressSender._select).
Interval == (Len(Rotating) + Width - 1) \div Width
RotationIsFair ==
    \A m \in RotatingIds, n \in 1 .. sequence :
      n + Interval - 1 <= sequence =>
        \E k \in n .. n + Interval - 1 : m \in DOMAIN spool[k].slots

\* An alarm raised inside reaches the dashboard, over drops, damage and a
\* restart of either side, unless it is cleared or forgotten inside first.
AlarmGetsOut ==
    \A m \in Alarms : (total[m] > 0) ~> (GoToTheTerminal \/ total[m] = 0)
=============================================================================
