-------------------------- MODULE MCNumericChannel --------------------------
(***************************************************************************)
(* Instances of NumericChannel: one metric that rides always, the escape   *)
(* indicator, and three that share the other slot in rotation, one of a    *)
(* source that reports the change since it was read last and two that      *)
(* nobody writes, as the inference zone's when no cluster is attached.     *)
(***************************************************************************)
EXTENDS NumericChannel, SequencesExt

CONSTANTS esc, detections, unwritten, vacant

MCAlways      == <<esc>>
MCRotating    == <<detections, unwritten, vacant>>
MCAttached    == {esc, detections}
MCDeltaIds    == {detections, unwritten}
MCAlarms      == {esc}
MCShown       == {esc, detections, unwritten, vacant}

\* What the registry and docs say of a metric marked delta: it is the change
\* since the last frame, so the changes in the frames sent add up to the total
\* (counters.py, watchdog.py as_metrics, Telemetry.collect).
DeltasAddUp ==
    \A m \in Differencing :
      LET Change(n) == IF m \in DOMAIN spool[n].slots THEN spool[n].slots[m].value ELSE 0
      IN  (sequence > 0 /\ m \in DOMAIN spool[sequence].slots) =>
             FoldFunction(+, 0, [n \in 1 .. sequence |-> Change(n)]) = reported[m]
=============================================================================
