------------------------ MODULE NumericChannelProofs ------------------------
(***************************************************************************)
(* Theorems about the numeric channel, for any registry of metrics, any    *)
(* capacity of the link, and any number of frames, losses and restarts.    *)
(***************************************************************************)
EXTENDS NumericChannel, SequenceTheorems, FiniteSetTheorems, TLAPS

\* What % gives is below its divisor.
LEMMA ModRange ==
  ASSUME NEW a \in Nat, NEW b \in Nat \ {0}
  PROVE  a % b \in 0 .. b - 1
OBVIOUS

\* Whatever is counted fits the wire once it is saturated.
LEMMA SaturatedFits ==
  ASSUME NEW v \in Int
  PROVE  Saturated(v) \in IntMin .. IntMax
BY RegistryAssumption DEF Saturated

\* The slots of a frame are metrics, wherever the rotation stands.
LEMMA SelectedAreMetrics ==
  ASSUME cursor \in Nat
  PROVE  Selected \subseteq Metrics
<1>1. Len(Rotating) \in Nat /\ Len(Always) \in Nat
  BY RegistryAssumption
<1>2. ASSUME NEW i \in 0 .. Width - 1
      PROVE  Rotating[((cursor + i) % Len(Rotating)) + 1] \in RotatingIds
  <2>1. Len(Rotating) \in Nat \ {0} /\ cursor + i \in Nat
    BY <1>1, RegistryAssumption DEF Width, Free
  <2>2. (cursor + i) % Len(Rotating) \in 0 .. Len(Rotating) - 1
    BY <2>1, ModRange
  <2>3. ((cursor + i) % Len(Rotating)) + 1 \in 1 .. Len(Rotating)
    BY <2>1, <2>2
  <2> QED
    BY <2>3 DEF RotatingIds
<1> QED
  BY <1>2 DEF Selected, Chosen, Metrics

\* The cursor stays a number.
LEMMA SenderTickType ==
  ASSUME SenderTypeOK, SenderTick
  PROVE  SenderTypeOK' /\ sequence' = sequence + 1
<1>1. Len(Rotating) \in Nat /\ Len(Always) \in Nat /\ Width \in Nat
  BY RegistryAssumption DEF Width, Free
<1>2. CASE Rotating = <<>>
  BY <1>2 DEF SenderTypeOK, SenderTick
<1>3. CASE Rotating # <<>>
  <2>1. Len(Rotating) \in Nat \ {0}
    BY <1>1, <1>3, RegistryAssumption, EmptySeq
  <2>2. cursor + Width \in Nat
    BY <1>1 DEF SenderTypeOK
  <2>3. (cursor + Width) % Len(Rotating) \in 0 .. Len(Rotating) - 1
    BY <2>1, <2>2, ModRange
  <2>4. (cursor + Width) % Len(Rotating) \in Nat
    BY <2>1, <2>3
  <2> QED
    BY <1>3, <2>4 DEF SenderTypeOK, SenderTick
<1> QED
  BY <1>2, <1>3

\* What the sender makes next is a frame of the wire.
LEMMA NextFrameType ==
  ASSUME SenderTypeOK, sequence < MaxSeq, NEW process \in 0 .. MaxRestarts,
         NEW reading \in [Attached -> Int]
  PROVE  NextFrame(process, reading) \in Frames
<1>1. sequence + 1 \in Names
  BY ChannelAssumption DEF SenderTypeOK, Names
<1>2. \A m \in Metrics : SlotOf(m, reading) \in Readings
  BY SaturatedFits, RegistryAssumption DEF SlotOf, Readings
<1>3. Selected \subseteq Metrics
  BY SelectedAreMetrics DEF SenderTypeOK
<1>4. [m \in Selected |-> SlotOf(m, reading)] \in [Selected -> Readings]
  BY <1>2, <1>3
<1>5. NextFrame(process, reading) \in [seq : Names, process : 0 .. MaxRestarts, slots : [Selected -> Readings]]
  BY <1>1, <1>4 DEF NextFrame
<1> QED
  BY <1>3, <1>5 DEF Frames

-----------------------------------------------------------------------------
\* The types hold at the start.
LEMMA TypeInit == Init => TypeOK
<1> SUFFICES ASSUME Init PROVE TypeOK
  OBVIOUS
<1>1. SenderTypeOK /\ sequence <= MaxSeq /\ lastSequence \in 0 .. MaxSeq
  BY ChannelAssumption DEF Init, SenderInit, ReaderInit, SenderTypeOK
<1>2. latest \in [Metrics -> Readings \cup {Nothing}]
  BY ChannelAssumption DEF Init, ReaderInit
<1>3. total \in [Attached -> Nat] /\ reported \in [Attached -> Nat]
  BY DEF Init, Zero
<1>4. DOMAIN spool = {} /\ received = {} /\ arrived = {} /\ accepted = {}
  BY DEF Init
<1>5. faults \in [sender : 0 .. MaxRestarts, reader : Nat, damage : Nat]
  BY ChannelAssumption DEF Init
<1> QED
  BY <1>1, <1>2, <1>3, <1>4, <1>5 DEF TypeOK

\* What the reader takes keeps its types.
LEMMA TakeType ==
  ASSUME latest \in [Metrics -> Readings \cup {Nothing}], NEW f \in Frames, Take(f)
  PROVE  /\ latest' \in [Metrics -> Readings \cup {Nothing}]
         /\ lastSequence' = f.seq /\ f.seq \in Names
<1>1. PICK M \in SUBSET Metrics : f \in [seq : Names, process : 0 .. MaxRestarts, slots : [M -> Readings]]
  BY DEF Frames
<1>2. \A m \in Metrics : Kept(m, f) \in Readings \cup {Nothing}
  BY <1>1 DEF Kept
<1> QED
  BY <1>1, <1>2, ChannelAssumption DEF Take

\* Every step of either side, and of the link, keeps the types.
LEMMA TypeNext == TypeOK /\ [Next]_vars => TypeOK'
<1> SUFFICES ASSUME TypeOK, [Next]_vars PROVE TypeOK'
  OBVIOUS
<1>1. ASSUME NEW m \in Attached, Count(m) PROVE TypeOK'
  BY <1>1 DEF Count, TypeOK, SenderTypeOK
<1>2. ASSUME NEW m \in Attached, ClearAlarm(m) PROVE TypeOK'
  BY <1>2 DEF ClearAlarm, TypeOK, SenderTypeOK
<1>3. CASE SendFrame
  <2>1. SenderTypeOK' /\ sequence' <= MaxSeq
    BY <1>3, SenderTickType, ChannelAssumption DEF SendFrame, TypeOK, SenderTypeOK
  <2>2. reported' \in [Attached -> Nat]
    BY <1>3 DEF SendFrame, TypeOK
  <2>3. Reading \in [Attached -> Int]
    BY DEF Reading, TypeOK
  <2>4. NextFrame(faults.sender, Reading) \in Frames /\ sequence + 1 \in Names
    BY <1>3, <2>3, NextFrameType, ChannelAssumption DEF SendFrame, TypeOK, SenderTypeOK, Names
  <2>5. /\ DOMAIN spool' = DOMAIN spool \cup {sequence + 1}
        /\ \A n \in DOMAIN spool' : spool'[n] \in Frames
    BY <1>3, <2>4 DEF SendFrame, TypeOK
  <2>6. UNCHANGED <<lastSequence, latest, total, received, arrived, accepted, faults>>
    BY <1>3 DEF SendFrame
  <2> QED
    BY <2>1, <2>2, <2>4, <2>5, <2>6 DEF TypeOK
<1>4. CASE Cross
  <2> DEFINE batch == Link!Batch(DOMAIN spool, received)
  <2>1. batch \subseteq DOMAIN spool
    BY DEF Link!Batch, Link!Pending
  <2>2. PICK fate \in [batch -> Link!Fates] :
          /\ received' = received \cup Link!Delivered(fate)
          /\ arrived' = {[name |-> n, frame |-> spool[n],
                          whole |-> n \notin {k \in batch : fate[k] = "damaged"}] :
                            n \in Link!Delivered(fate)}
          /\ faults' = [faults EXCEPT !.damage =
                          @ + Cardinality({k \in batch : fate[k] = "damaged"})]
          /\ faults.damage + Cardinality({k \in batch : fate[k] = "damaged"}) <= MaxDamaged
    BY <1>4 DEF Cross
  <2>3. Link!Delivered(fate) \subseteq DOMAIN spool
    BY <2>1 DEF Link!Delivered
  <2> DEFINE damaged == {k \in batch : fate[k] = "damaged"}
  <2>4. Cardinality(damaged) \in Nat
    <3>1. damaged \in SUBSET (1 .. MaxSeq)
      BY <2>1 DEF TypeOK, Names
    <3>2. IsFiniteSet(1 .. MaxSeq)
      BY FS_Interval, ChannelAssumption
    <3> QED
      BY <3>1, <3>2, FS_Subset, FS_CardinalityType
  <2>5. faults' \in [sender : 0 .. MaxRestarts, reader : Nat, damage : Nat]
    BY <2>2, <2>4 DEF TypeOK
  <2>6. arrived' \subseteq Items /\ \A i \in arrived' : i.name \in received'
    <3>1. ASSUME NEW n \in Link!Delivered(fate)
          PROVE  [name |-> n, frame |-> spool[n], whole |-> n \notin damaged] \in Items
      <4>1. n \in Names /\ spool[n] \in Frames
        BY <2>3 DEF TypeOK
      <4>2. (n \notin damaged) \in BOOLEAN
        OBVIOUS
      <4> HIDE DEF damaged
      <4> QED
        BY <4>1, <4>2 DEF Items
    <3>2. \A i \in arrived' : \E n \in Link!Delivered(fate) :
            i = [name |-> n, frame |-> spool[n], whole |-> n \notin damaged]
      BY <2>2
    <3> HIDE DEF damaged
    <3>3. \A i \in arrived' : i \in Items /\ i.name \in Link!Delivered(fate)
      BY <3>1, <3>2
    <3> QED
      BY <2>2, <3>3
  <2>7. received' \subseteq DOMAIN spool
    BY <2>2, <2>3 DEF TypeOK
  <2>8. UNCHANGED <<sequence, cursor, lastSequence, latest, total, reported, spool, accepted>>
    BY <1>4 DEF Cross
  <2> QED
    BY <2>5, <2>6, <2>7, <2>8 DEF TypeOK, SenderTypeOK
<1>5. CASE Feed
  <2>1. PICK i \in arrived : arrived' = arrived \ {i} /\
          IF FrameVerdict(i.frame, i.whole) = "OK"
          THEN Take(i.frame) /\ accepted' = accepted \cup {i.frame}
          ELSE UNCHANGED <<lastSequence, latest, accepted>>
    BY <1>5 DEF Feed
  <2>2. i.frame \in Frames
    BY DEF TypeOK, Items
  <2>3. /\ latest' \in [Metrics -> Readings \cup {Nothing}]
        /\ lastSequence' \in 0 .. MaxSeq
        /\ accepted' \subseteq Frames
    BY <2>1, <2>2, TakeType, ChannelAssumption DEF TypeOK, Names
  <2>4. UNCHANGED <<sequence, cursor, total, reported, spool, received, faults>>
    BY <1>5 DEF Feed
  <2> QED
    BY <2>1, <2>3, <2>4 DEF TypeOK, SenderTypeOK
<1>6. CASE InsideRestarts
  BY <1>6, ChannelAssumption DEF InsideRestarts, SenderRestart, Zero, TypeOK, SenderTypeOK
<1>7. CASE DashboardRestarts
  BY <1>7, ChannelAssumption DEF DashboardRestarts, ReaderRestart, TypeOK, SenderTypeOK
<1>8. CASE UNCHANGED vars
  BY <1>8 DEF vars, TypeOK, SenderTypeOK
<1> QED
  BY <1>1, <1>2, <1>3, <1>4, <1>5, <1>6, <1>7, <1>8 DEF Next

\* Every variable of the channel keeps its type: no reading leaves the width of the
\* wire, no frame carries what is no metric.
THEOREM TypeCorrect == Spec => []TypeOK
BY TypeInit, TypeNext, PTL DEF Spec

-----------------------------------------------------------------------------
\* What the reader has accepted it has counted.
AcceptedBefore == \A f \in accepted : f.seq <= lastSequence

\* The dashboard shows the fresh reading of the highest number, or the stale one of the
\* lowest.
ShowsTheHighest ==
  \A m \in Metrics :
    \/ \E f \in FreshOf(m) : /\ latest[m] = f.slots[m]
                             /\ \A g \in FreshOf(m) : g.seq <= f.seq
    \/ /\ FreshOf(m) = {}
       /\ \E f \in Carriers(m) : /\ latest[m] = f.slots[m]
                                 /\ \A g \in Carriers(m) : f.seq <= g.seq
    \/ Carriers(m) = {} /\ latest[m] = Nothing

ShowsInv == ShowsTheHighest /\ AcceptedBefore

\* Fresh readings are of the carriers, and readings are not Nothing.
LEMMA Readable ==
  ASSUME TypeOK, NEW m \in Metrics, NEW f \in Carriers(m)
  PROVE  f \in Frames /\ f.slots[m] \in Readings /\ f.slots[m] # Nothing
<1>1. f \in Frames /\ m \in DOMAIN f.slots
  BY DEF TypeOK, Carriers
<1>2. PICK M \in SUBSET Metrics : f \in [seq : Names, process : 0 .. MaxRestarts, slots : [M -> Readings]]
  BY <1>1 DEF Frames
<1> QED
  BY <1>1, <1>2, ChannelAssumption

\* A frame that is newer than all that were accepted leaves the dashboard showing
\* the newest.
LEMMA TakeShows ==
  ASSUME TypeOK, ShowsInv, NEW f \in Frames, f.seq > lastSequence,
         Take(f), accepted' = accepted \cup {f}
  PROVE  ShowsInv'
<1>1. f.seq \in Nat /\ \A g \in accepted : g.seq \in Nat /\ g.seq <= f.seq
  BY DEF ShowsInv, AcceptedBefore, TypeOK, Frames, Names
<1>2. AcceptedBefore'
  BY <1>1 DEF AcceptedBefore, Take
<1>3. ASSUME NEW m \in Metrics
      PROVE  \/ \E g \in FreshOf(m)' : /\ latest'[m] = g.slots[m]
                                       /\ \A h \in FreshOf(m)' : h.seq <= g.seq
             \/ /\ FreshOf(m)' = {}
                /\ \E g \in Carriers(m)' : /\ latest'[m] = g.slots[m]
                                           /\ \A h \in Carriers(m)' : g.seq <= h.seq
             \/ Carriers(m)' = {} /\ latest'[m] = Nothing
  <2> DEFINE carries == m \in DOMAIN f.slots
             fresh   == carries /\ ~f.slots[m].stale
  <2>1. Carriers(m)' = IF carries THEN Carriers(m) \cup {f} ELSE Carriers(m)
    BY DEF Carriers
  <2>2. FreshOf(m)' = IF fresh THEN FreshOf(m) \cup {f} ELSE FreshOf(m)
    BY DEF FreshOf, Carriers
  <2>3. latest'[m] = IF carries /\ (~f.slots[m].stale \/ latest[m] = Nothing)
                     THEN f.slots[m] ELSE latest[m]
    BY ChannelAssumption DEF Take, Kept
  <2>4. FreshOf(m) \subseteq Carriers(m) /\ Carriers(m) \subseteq accepted
    BY DEF FreshOf, Carriers
  <2> HIDE DEF carries, fresh
  <2>5. CASE fresh
    BY <1>1, <2>1, <2>2, <2>3, <2>4, <2>5 DEF fresh
  <2>6. CASE ~fresh /\ FreshOf(m) # {}
    <3>1. PICK g \in FreshOf(m) : latest[m] = g.slots[m] /\ \A h \in FreshOf(m) : h.seq <= g.seq
      BY <2>4, <2>6 DEF ShowsInv, ShowsTheHighest
    <3>2. latest'[m] = latest[m]
      BY <2>3, <2>4, <2>6, <3>1, Readable DEF fresh
    <3> QED
      BY <2>2, <2>6, <3>1, <3>2
  <2>7. CASE ~fresh /\ FreshOf(m) = {} /\ Carriers(m) # {}
    <3>1. PICK g \in Carriers(m) : latest[m] = g.slots[m] /\ \A h \in Carriers(m) : g.seq <= h.seq
      BY <2>7 DEF ShowsInv, ShowsTheHighest
    <3>2. latest'[m] = latest[m]
      BY <2>3, <2>7, <3>1, Readable DEF fresh
    <3> QED
      BY <1>1, <2>1, <2>2, <2>4, <2>7, <3>1, <3>2
  <2>8. CASE ~fresh /\ Carriers(m) = {}
    <3>1. latest[m] = Nothing /\ FreshOf(m) = {}
      BY <2>4, <2>8 DEF ShowsInv, ShowsTheHighest
    <3> QED
      BY <1>1, <2>1, <2>2, <2>3, <2>8, <3>1
  <2> QED
    BY <2>4, <2>5, <2>6, <2>7, <2>8
<1> QED
  BY <1>2, <1>3 DEF ShowsInv, ShowsTheHighest

\* Every step keeps what the dashboard shows the newest of what was accepted.
LEMMA ShowsNext == TypeOK /\ ShowsInv /\ [Next]_vars => ShowsInv'
<1> SUFFICES ASSUME TypeOK, ShowsInv, [Next]_vars PROVE ShowsInv'
  OBVIOUS
<1>1. CASE UNCHANGED <<lastSequence, latest, accepted>>
  <2>1. \A m : Carriers(m)' = Carriers(m) /\ FreshOf(m)' = FreshOf(m)
    BY <1>1 DEF Carriers, FreshOf
  <2> QED
    BY <1>1, <2>1 DEF ShowsInv, ShowsTheHighest, AcceptedBefore
<1>2. CASE Feed
  <2>1. PICK i \in arrived :
          IF FrameVerdict(i.frame, i.whole) = "OK"
          THEN Take(i.frame) /\ accepted' = accepted \cup {i.frame}
          ELSE UNCHANGED <<lastSequence, latest, accepted>>
    BY <1>2 DEF Feed
  <2>2. i.frame \in Frames /\ i.frame.seq \in Nat /\ lastSequence \in Nat
    BY ChannelAssumption DEF TypeOK, Items, Frames, Names
  <2>3. CASE FrameVerdict(i.frame, i.whole) = "OK"
    <3>1. i.frame.seq > lastSequence
      BY <2>2, <2>3 DEF FrameVerdict
    <3> QED
      BY <2>1, <2>2, <2>3, <3>1, TakeShows
  <2>4. CASE FrameVerdict(i.frame, i.whole) # "OK"
    BY <1>1, <2>1, <2>4
  <2> QED
    BY <2>3, <2>4
<1>3. CASE DashboardRestarts
  <2>1. \A m : Carriers(m)' = {} /\ FreshOf(m)' = {}
    BY <1>3 DEF DashboardRestarts, Carriers, FreshOf
  <2>2. \A m \in Metrics : latest'[m] = Nothing
    BY <1>3, ChannelAssumption DEF DashboardRestarts, ReaderRestart
  <2>3. accepted' = {}
    BY <1>3 DEF DashboardRestarts
  <2> QED
    BY <2>1, <2>2, <2>3 DEF ShowsInv, ShowsTheHighest, AcceptedBefore
<1>4. Next => \/ UNCHANGED <<lastSequence, latest, accepted>> \/ Feed \/ DashboardRestarts
  BY DEF Next, Count, ClearAlarm, SendFrame, Cross, InsideRestarts
<1> QED
  BY <1>1, <1>2, <1>3, <1>4 DEF vars

\* The dashboard shows of every metric the newest fresh reading that was accepted,
\* whatever the link drops, damages or reorders; one that is newer is of a process that
\* began after the one whose reading shows, and of no higher number.
THEOREM NewestIsShown == Spec => []ShowsTheNewest
<1>1. Init => ShowsInv
  <2> SUFFICES ASSUME Init PROVE ShowsInv
    OBVIOUS
  <2>1. \A m : Carriers(m) = {} /\ FreshOf(m) = {}
    BY DEF Init, Carriers, FreshOf
  <2>2. \A m \in Metrics : latest[m] = Nothing
    BY ChannelAssumption DEF Init, ReaderInit
  <2> QED
    BY <2>1, <2>2 DEF Init, ShowsInv, ShowsTheHighest, AcceptedBefore
<1>2. TypeOK /\ ShowsInv => ShowsTheNewest
  <2> SUFFICES ASSUME TypeOK, ShowsInv PROVE ShowsTheNewest
    OBVIOUS
  <2>1. \A f \in accepted : f.seq \in Int /\ f.process \in Int
    BY DEF TypeOK, Frames, Names
  <2>2. \A m : FreshOf(m) \subseteq accepted /\ Carriers(m) \subseteq accepted
    BY DEF FreshOf, Carriers
  <2>3. \A f, g \in accepted : g.seq <= f.seq => NoNewer(g, f)
    BY <2>1 DEF NoNewer, Newer
  <2> QED
    BY <2>2, <2>3 DEF ShowsInv, ShowsTheHighest, ShowsTheNewest
<1> QED
  BY <1>1, <1>2, TypeInit, TypeNext, ShowsNext, PTL DEF Spec
-----------------------------------------------------------------------------
Round == Len(Rotating)

\* Dividing and rounding up gives frames enough for all that rotates.
LEMMA RoundedUp ==
  ASSUME NEW x \in Nat, NEW w \in Nat \ {0}
  PROVE  (x + w - 1) \div w \in Nat /\ ((x + w - 1) \div w) * w >= x
<1> DEFINE y == x + w - 1
<1>1. y \in Nat
  OBVIOUS
<1>2. y = (y \div w) * w + (y % w) /\ y % w \in 0 .. w - 1 /\ y \div w \in Int
  BY <1>1
<1>3. (y \div w) * w >= x
  BY <1>2
<1>4. y \div w >= 0
  BY <1>1
<1> QED
  BY <1>2, <1>3, <1>4

\* Below twice the divisor, % takes it away once or not at all.
LEMMA ModWrap ==
  ASSUME NEW n \in Nat \ {0}, NEW x \in 0 .. 2 * n - 1
  PROVE  x % n = IF x < n THEN x ELSE x - n
OBVIOUS

\* If anything rotates, a frame has room for some of it.
LEMMA Room ==
  ASSUME Round # 0
  PROVE  Round \in Nat \ {0} /\ Width \in 1 .. Round
BY RegistryAssumption DEF Round, Width, Free

\* How many places the i-th of the rotation stands behind the cursor.
Behind(i) == IF i >= cursor THEN i - cursor ELSE i - cursor + Round

\* The i-th of the rotation rode a frames ago, or not since the sender started; every
\* frame since has brought the cursor nearer to it.
Awaited(i, a) ==
  /\ a = sequence \/ Rotating[i + 1] \in DOMAIN spool[sequence - a].slots
  /\ a * Width + Behind(i) < Round

RotationInv ==
  /\ RotationIsFair
  /\ 1 .. sequence \subseteq DOMAIN spool
  /\ Round # 0 => cursor \in 0 .. Round - 1 /\ \A i \in 0 .. Round - 1 : \E a \in 0 .. sequence : Awaited(i, a)

\* Nothing has been sent at the start, and the cursor is at the head.
LEMMA RotationStart ==
  ASSUME TypeOK, sequence' = 0, cursor' = 0
  PROVE  RotationInv'
<1>1. RotationIsFair' /\ (1 .. sequence \subseteq DOMAIN spool)'
  <2>1. Round = 0 => RotatingIds = {}
    BY DEF Round, RotatingIds
  <2>2. Round # 0 => Interval \in Nat
    BY Room, RoundedUp DEF Interval, Round
  <2> QED
    BY <2>1, <2>2 DEF RotationIsFair
<1>2. ASSUME Round # 0, NEW i \in 0 .. Round - 1 PROVE Awaited(i, 0)'
  BY <1>2, Room DEF Awaited, Behind
<1> QED
  BY <1>1, <1>2, Room DEF RotationInv

\* What is smaller as a multiple is smaller.
LEMMA FewerFrames ==
  ASSUME NEW a \in Nat, NEW b \in Nat, NEW w \in Nat \ {0}, a * w < b * w
  PROVE  a < b
<1> SUFFICES ASSUME a >= b PROVE FALSE
  OBVIOUS
<1>1. a - b \in Nat /\ (a - b) * w >= 0
  OBVIOUS
<1>2. (a - b) * w = a * w - b * w
  OBVIOUS
<1> QED
  BY <1>1, <1>2

\* What a frame does to the spool: it is added, and carries those at the cursor.
LEMMA FrameAdded ==
  ASSUME TypeOK, 1 .. sequence \subseteq DOMAIN spool, SendFrame
  PROVE  /\ sequence' = sequence + 1 /\ 1 .. sequence' \subseteq DOMAIN spool'
         /\ \A n \in 1 .. sequence : spool'[n] = spool[n]
         /\ DOMAIN spool'[sequence'].slots = Selected
<1>1. sequence \in Nat /\ sequence' = sequence + 1
  BY DEF TypeOK, SenderTypeOK, SendFrame, SenderTick
<1>2. spool' = [n \in DOMAIN spool \cup {sequence + 1} |->
                  IF n = sequence + 1 THEN NextFrame(faults.sender, Reading) ELSE spool[n]]
  BY DEF SendFrame
<1>3. DOMAIN NextFrame(faults.sender, Reading).slots = Selected
  BY DEF NextFrame
<1> QED
  BY <1>1, <1>2, <1>3

\* Where the cursor stands after a frame, and who was at it.
LEMMA CursorMoves ==
  ASSUME TypeOK, Round # 0, cursor \in 0 .. Round - 1, SendFrame, NEW i \in 0 .. Round - 1
  PROVE  /\ cursor' \in 0 .. Round - 1
         /\ Behind(i) \in 0 .. Round - 1 /\ Behind(i)' \in 0 .. Round - 1
         /\ Behind(i) < Width => Rotating[i + 1] \in Selected
         /\ Behind(i) >= Width => Behind(i)' = Behind(i) - Width
<1>1. Round \in Nat \ {0} /\ Width \in 1 .. Round
  BY Room
<1>2. cursor' = (cursor + Width) % Round
  BY <1>1, EmptySeq DEF SendFrame, SenderTick, Round
<1>3. cursor' = IF cursor + Width < Round THEN cursor + Width ELSE cursor + Width - Round
  <2>1. cursor + Width \in 0 .. 2 * Round - 1
    BY <1>1
  <2> DEFINE x == cursor + Width
  <2>2. x % Round = IF x < Round THEN x ELSE x - Round
    <3> HIDE DEF x
    <3>1. x \in 0 .. 2 * Round - 1
      BY <2>1 DEF x
    <3> QED
      BY <1>1, <3>1, ModWrap
  <2> QED
    BY <1>1, <1>2, <2>1, <2>2
<1>4. Behind(i) \in 0 .. Round - 1
  BY <1>1 DEF Behind
<1>5. ASSUME Behind(i) < Width PROVE Rotating[i + 1] \in Selected
  <2>1. cursor + Behind(i) \in 0 .. 2 * Round - 1
    BY <1>1, <1>4
  <2>2. (cursor + Behind(i)) % Round = i
    BY <1>1, <2>1, ModWrap DEF Behind
  <2>3. Behind(i) \in 0 .. Width - 1
    BY <1>1, <1>4, <1>5
  <2> QED
    BY <2>2, <2>3 DEF Selected, Chosen, Round
<1> QED
  BY <1>1, <1>3, <1>4, <1>5 DEF Behind

\* A frame brings everyone who waits nearer, or carries it.
LEMMA AwaitedNext ==
  ASSUME TypeOK, RotationInv, Round # 0, SendFrame, NEW i \in 0 .. Round - 1
  PROVE  \E a \in 0 .. sequence' : Awaited(i, a)'
<1>1. PICK a \in 0 .. sequence : Awaited(i, a)
  BY DEF RotationInv
<1>2. Round \in Nat \ {0} /\ Width \in 1 .. Round /\ sequence \in Nat
  BY Room DEF TypeOK, SenderTypeOK
<1>3. /\ sequence' = sequence + 1
      /\ \A n \in 1 .. sequence : spool'[n] = spool[n]
      /\ DOMAIN spool'[sequence'].slots = Selected
  BY FrameAdded DEF RotationInv
<1>4. /\ Behind(i) \in 0 .. Round - 1 /\ Behind(i)' \in 0 .. Round - 1
      /\ Behind(i) < Width => Rotating[i + 1] \in Selected
      /\ Behind(i) >= Width => Behind(i)' = Behind(i) - Width
  BY CursorMoves DEF RotationInv
<1>5. CASE Behind(i) < Width
  <2>1. sequence' - 0 = sequence' /\ 0 * Width + Behind(i)' < Round
    BY <1>2, <1>3, <1>4
  <2>2. Awaited(i, 0)'
    BY <1>3, <1>4, <1>5, <2>1 DEF Awaited
  <2> QED
    BY <1>2, <1>3, <2>2
<1>6. CASE Behind(i) >= Width
  <2>1. (a + 1) * Width + Behind(i)' < Round
    <3>1. a * Width + Behind(i) < Round /\ (a + 1) * Width = a * Width + Width /\ a * Width \in Nat
      BY <1>1, <1>2 DEF Awaited
    <3> QED
      BY <1>2, <1>4, <1>6, <3>1
  <2>2. a = sequence => a + 1 = sequence'
    BY <1>3
  <2>3. ASSUME a # sequence PROVE Rotating[i + 1] \in DOMAIN spool'[sequence' - (a + 1)].slots
    <3>1. sequence - a \in 1 .. sequence /\ sequence' - (a + 1) = sequence - a
      BY <1>2, <1>3, <2>3
    <3> QED
      BY <1>1, <1>3, <2>3, <3>1 DEF Awaited
  <2>4. Awaited(i, a + 1)'
    BY <2>1, <2>2, <2>3 DEF Awaited
  <2> QED
    BY <1>2, <1>3, <2>4
<1> QED
  BY <1>2, <1>4, <1>5, <1>6

\* The newest frames in a row carry everyone, too.
LEMMA RotationSends ==
  ASSUME TypeOK, RotationInv, SendFrame
  PROVE  RotationInv'
<1>1. /\ sequence \in Nat /\ sequence' = sequence + 1 /\ 1 .. sequence' \subseteq DOMAIN spool'
      /\ \A n \in 1 .. sequence : spool'[n] = spool[n]
  BY FrameAdded DEF RotationInv, TypeOK, SenderTypeOK
<1>2. CASE Round = 0
  <2>1. RotatingIds = {}
    BY <1>2 DEF Round, RotatingIds
  <2> QED
    BY <1>1, <1>2, <2>1 DEF RotationInv, RotationIsFair
<1>3. CASE Round # 0
  <2>1. /\ Round \in Nat \ {0} /\ Width \in 1 .. Round
        /\ Interval \in Nat /\ Interval * Width >= Round
    <3>1. Round \in Nat \ {0} /\ Width \in 1 .. Round
      BY <1>3, Room
    <3>2. Round \in Nat /\ Width \in Nat \ {0}
      BY <3>1
    <3>3. /\ (Round + Width - 1) \div Width \in Nat
          /\ ((Round + Width - 1) \div Width) * Width >= Round
      BY <3>2, RoundedUp
    <3> QED
      BY <3>1, <3>3 DEF Interval, Round
  <2>2. Interval >= 1
    BY <2>1
  <2>3. cursor' \in 0 .. Round - 1
    <3>1. 0 \in 0 .. Round - 1
      BY <2>1
    <3> QED
      BY <1>3, <3>1, CursorMoves DEF RotationInv
  <2>4. \A i \in 0 .. Round - 1 : \E a \in 0 .. sequence' : Awaited(i, a)'
    BY <1>3, AwaitedNext
  <2>5. ASSUME NEW m \in RotatingIds, NEW n \in 1 .. sequence', n + Interval - 1 <= sequence'
        PROVE  \E k \in n .. n + Interval - 1 : m \in DOMAIN spool'[k].slots
    <3>1. CASE n + Interval - 1 <= sequence
      <4>1. n \in 1 .. sequence
        BY <1>1, <2>1, <2>2, <3>1
      <4>2. PICK k \in n .. n + Interval - 1 : m \in DOMAIN spool[k].slots
        BY <3>1, <4>1 DEF RotationInv, RotationIsFair
      <4>3. k \in 1 .. sequence
        BY <1>1, <2>1, <3>1, <4>1
      <4> QED
        BY <1>1, <4>2, <4>3
    <3>2. CASE n + Interval - 1 = sequence'
      <4>1. PICK i \in 0 .. Round - 1 : m = Rotating[i + 1]
        <5>1. PICK j \in 1 .. Round : m = Rotating[j]
          BY DEF RotatingIds, Round
        <5>2. j - 1 \in 0 .. Round - 1 /\ (j - 1) + 1 = j
          BY <2>1
        <5> QED
          BY <5>1, <5>2
      <4>2. PICK a \in 0 .. sequence' : Awaited(i, a)'
        BY <2>4
      <4>3. a < Interval
        <5>1. Behind(i)' \in Nat
          <6>1. Behind(i)' \in 0 .. Round - 1
            BY <1>3, CursorMoves DEF RotationInv
          <6> QED
            BY <2>1, <6>1
        <5>2. a * Width \in Nat /\ a * Width < Interval * Width
          BY <1>1, <2>1, <4>2, <5>1 DEF Awaited
        <5> QED
          BY <1>1, <2>1, <5>2, FewerFrames
      <4>4. a # sequence' /\ sequence' - a \in n .. n + Interval - 1
        BY <1>1, <2>1, <3>2, <4>3
      <4> QED
        BY <4>1, <4>2, <4>4 DEF Awaited
    <3> QED
      BY <1>1, <2>1, <2>5, <3>1, <3>2
  <2> QED
    BY <1>1, <2>3, <2>4, <2>5 DEF RotationInv, RotationIsFair
<1> QED
  BY <1>2, <1>3

\* The other steps leave the rotation alone, or begin it again.
LEMMA RotationNext == TypeOK /\ RotationInv /\ [Next]_vars => RotationInv'
<1> SUFFICES ASSUME TypeOK, RotationInv, [Next]_vars PROVE RotationInv'
  OBVIOUS
<1>1. CASE UNCHANGED <<sequence, cursor, spool>>
  BY <1>1 DEF RotationInv, RotationIsFair, Awaited, Behind
<1>2. CASE InsideRestarts
  BY <1>2, RotationStart DEF InsideRestarts, SenderRestart
<1>3. Next => SendFrame \/ InsideRestarts \/ UNCHANGED <<sequence, cursor, spool>>
  BY DEF Next, Count, ClearAlarm, Cross, Feed, DashboardRestarts
<1> QED
  BY <1>1, <1>2, <1>3, RotationSends DEF vars

\* Every rotating metric rides in one of any Interval frames of a sender in a row,
\* for any number of metrics, any slots and wherever the rotation wraps.
THEOREM EveryoneRides == Spec => []RotationIsFair
<1>1. Init => RotationInv
  <2> SUFFICES ASSUME Init PROVE RotationInv
    OBVIOUS
  <2>1. sequence = 0 /\ cursor = 0
    BY DEF Init, SenderInit
  <2>2. RotationIsFair
    BY <2>1 DEF RotationIsFair
  <2>3. ASSUME Round # 0, NEW i \in 0 .. Round - 1 PROVE Awaited(i, 0)
    BY <2>1, <2>3, Room DEF Awaited, Behind
  <2> QED
    BY <2>1, <2>2, <2>3, Room DEF RotationInv
<1>2. RotationInv => RotationIsFair
  BY DEF RotationInv
<1> QED
  BY <1>1, <1>2, TypeInit, TypeNext, RotationNext, PTL DEF Spec
=============================================================================
