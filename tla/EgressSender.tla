---------------------------- MODULE EgressSender ----------------------------
(***************************************************************************)
(* The sending end of the numeric channel (tools/egress/sender.py and      *)
(* telemetry.py).  Once per tick every attached source is read, and one    *)
(* frame of at most MaxMetrics slots is built: metrics of priority always  *)
(* ride in every frame, the others in rotation.  Everything is in memory.  *)
(*                                                                         *)
(* Telemetry.collect writes every attached metric before every frame, and  *)
(* the frame clears what is fresh; what _latest and _fresh hold between    *)
(* two frames is never read, so a frame is a function of the readings.     *)
(***************************************************************************)
EXTENDS Integers, Sequences

CONSTANTS Always, Rotating,   \* metric ids of each priority, in id order
          Attached,           \* metrics that some attached source reports
          DeltaIds,           \* metrics the registry marks as changes
          MaxMetrics,         \* slots of a frame
          IntMin, IntMax      \* the width of a value on the wire

VARIABLES sequence,   \* _sequence
          cursor      \* _rotate_cursor

\* Registry.always, Registry.rotating
AlwaysIds   == {Always[i] : i \in 1 .. Len(Always)}
RotatingIds == {Rotating[i] : i \in 1 .. Len(Rotating)}
Metrics     == AlwaysIds \cup RotatingIds

\* Registry.__post_init__: the always set fills at most half a frame.
ASSUME RegistryAssumption ==
    /\ Always \in Seq(Metrics) /\ Rotating \in Seq(Metrics)
    /\ AlwaysIds \cap RotatingIds = {}
    /\ MaxMetrics \in Nat \ {0} /\ 2 * Len(Always) <= MaxMetrics
    /\ IntMin \in Int /\ IntMax \in Int /\ IntMin <= 0 /\ 0 <= IntMax

\* MetricValue, as the reader decodes it
Readings == [value : IntMin .. IntMax, delta : BOOLEAN, stale : BOOLEAN]

SenderTypeOK == sequence \in Nat /\ cursor \in Nat

SenderInit == sequence = 0 /\ cursor = 0

\* Mutant: a value is sent as it is.
SaturatedNever(v) == v

\* EgressSender.write: saturate, never wrap
Saturated(v) == IF v > IntMax THEN IntMax ELSE IF v < IntMin THEN IntMin ELSE v

\* EgressSender._select: the slots beside the always set, and whose turn it is
Free     == MaxMetrics - Len(Always)
Width    == IF Free < Len(Rotating) THEN Free ELSE Len(Rotating)
Chosen   == {Rotating[((cursor + i) % Len(Rotating)) + 1] : i \in 0 .. Width - 1}
Selected == AlwaysIds \cup Chosen

\* Telemetry.collect, EgressSender.tick: what a slot says of a metric.  One that
\* nobody writes is sent as zero and stale.
SlotOf(m, reading) ==
    [value |-> IF m \in Attached THEN Saturated(reading[m]) ELSE 0,
     delta |-> m \in DeltaIds,
     stale |-> m \notin Attached]

\* build_frame.  `process` stands for the timestamp: which process built the frame; of
\* two frames of one process the sequence tells which is the newer.
NextFrame(process, reading) ==
    [seq |-> sequence + 1, process |-> process,
     slots |-> [m \in Selected |-> SlotOf(m, reading)]]

\* Mutant: the cursor stays, the lowest ids ride in every frame.
SenderTickLowest == sequence' = sequence + 1 /\ UNCHANGED cursor

\* EgressSender.tick
SenderTick ==
    /\ sequence' = sequence + 1
    /\ cursor' = IF Rotating = <<>> THEN cursor ELSE (cursor + Width) % Len(Rotating)

\* A new process begins with a new sender.
SenderRestart == sequence' = 0 /\ cursor' = 0
=============================================================================
