---------------------------- MODULE EgressReader ----------------------------
(***************************************************************************)
(* The receiving end of the numeric channel (tools/egress/reader.py and    *)
(* ReadingStore): a frame is taken whole or not at all, and the store      *)
(* keeps the latest reading of each metric.  Both are in memory; the log   *)
(* of all readings is written and never read.                              *)
(***************************************************************************)
EXTENDS Naturals

CONSTANTS Shown,       \* the metrics of the reader's registry
          Alarms,      \* sandbox.escape_indicator, sandbox.watchdog_state
          Nothing      \* of a metric nothing was read yet

VARIABLES lastSequence,   \* last_sequence, 0 for none
          latest          \* ReadingStore.latest

ReaderInit ==
    /\ lastSequence = 0
    /\ latest = [m \in Shown |-> Nothing]

\* Mutant: frames are taken in whatever order they come.
FrameVerdictAnySequence(frame, whole) ==
    CASE ~whole -> "BAD_HMAC"
      [] ~(DOMAIN frame.slots \subseteq Shown) -> "UNKNOWN_METRIC_ID"
      [] OTHER -> "OK"

\* parse_frame, in the order of its returns.  A damaged frame fails one of the
\* checks up to the HMAC, whichever byte was hit.  The timestamp is compared with
\* nothing.
FrameVerdict(frame, whole) ==
    CASE ~whole                      -> "BAD_HMAC"
      [] frame.seq <= lastSequence   -> "SEQUENCE_NOT_ADVANCING"
      [] ~(DOMAIN frame.slots \subseteq Shown) -> "UNKNOWN_METRIC_ID"
      [] OTHER                       -> "OK"

\* ReadingStore.write: a stale reading shows only where there was none
Kept(m, frame) ==
    IF m \in DOMAIN frame.slots /\ (~frame.slots[m].stale \/ latest[m] = Nothing)
    THEN frame.slots[m] ELSE latest[m]

\* EgressReader.feed and the store, for an accepted frame
Take(frame) ==
    /\ lastSequence' = frame.seq
    /\ latest' = [m \in Shown |-> Kept(m, frame)]

ReaderRestart ==
    /\ lastSequence' = 0
    /\ latest' = [m \in Shown |-> Nothing]

\* ReadingStore.go_to_the_terminal
GoToTheTerminal ==
    \E m \in Alarms : latest[m] # Nothing /\ latest[m].value # 0
=============================================================================
