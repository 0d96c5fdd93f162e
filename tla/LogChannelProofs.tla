-------------------------- MODULE LogChannelProofs --------------------------
(***************************************************************************)
(* Theorems about the log channel, for any sources and payloads, and any   *)
(* number of records, deliveries, losses and restarts.                     *)
(***************************************************************************)
EXTENDS LogChannel, FiniteSetTheorems, TLAPS

\* A record within its source's bound has a name.
LEMMA NameOfRecord ==
  ASSUME NEW r \in Records, r.seq <= MaxSeq(r.source)
  PROVE  Key(r) \in Names
<1>1. r.source \in Sources /\ r.seq \in 1 .. MaxSeq(r.source)
  BY LogAssumption DEF Records
<1> QED
  BY <1>1 DEF Names, Key

\* A name is a source and one of its numbers.
LEMMA NameFacts ==
  ASSUME NEW n \in Names
  PROVE  /\ n \in Sources \X Nat /\ n # NoName
         /\ n[2] >= 1 /\ n[2] <= MaxSeq(n[1])
<1>1. PICK s \in Sources : n \in {s} \X (1 .. MaxSeq(s))
  BY DEF Names
<1>2. MaxSeq(s) \in Nat
  BY LogAssumption
<1>3. n[1] = s /\ n[2] \in 1 .. MaxSeq(s) /\ n = <<n[1], n[2]>>
  BY <1>1
<1> QED
  BY <1>2, <1>3, LogAssumption

-----------------------------------------------------------------------------
\* An item lies under the name of its record, and there are finitely many.
Named ==
  /\ \A n \in DOMAIN inbox : Key(inbox[n].record) = n
  /\ IsFiniteSet(DOMAIN spool)

Typed == TypeOK /\ Named

\* The types hold at the start.
LEMMA TypeInit == Init => Typed
<1> SUFFICES ASSUME Init PROVE Typed
  OBVIOUS
<1>1. /\ \A s \in Sources : lastSequence[s] \in 0 .. MaxSeq(s) /\ sequence[s] \in 0 .. MaxSeq(s)
      /\ DOMAIN lastSequence = Sources /\ DOMAIN sequence = Sources /\ gaps \in Nat
  BY LogAssumption DEF Init, TierInit
<1>2. DOMAIN promoted = {} /\ quarantined = {} /\ unattributed = {}
  BY DEF Init, TierInit
<1>3. DOMAIN index = {} /\ admissions = {}
  BY DEF Init, TierInit
<1>4. DOMAIN spool = {} /\ DOMAIN inbox = {} /\ listing = {} /\ read = NoName
  BY DEF Init
<1>5. faults \in [emitter : Nat, tier : Nat, damage : Nat, clash : Nat]
  BY DEF Init
<1> QED
  BY <1>1, <1>2, <1>3, <1>4, <1>5, FS_EmptySet DEF Typed, TypeOK, Named

\* What the tier is given to ingest has a name.
LEMMA ItemFacts ==
  ASSUME Typed, NEW n \in DOMAIN inbox
  PROVE  /\ inbox[n] \in Items /\ inbox[n].record \in Records
         /\ n = Key(inbox[n].record) /\ n \in Names
         /\ inbox[n].record.source \in Sources
         /\ inbox[n].record.seq \in 1 .. MaxSeq(inbox[n].record.source)
<1>1. inbox[n] \in Items /\ n = Key(inbox[n].record) /\ n \in Names
  BY DEF Typed, TypeOK, Named
<1>2. inbox[n].record \in Records
  BY <1>1 DEF Items
<1>3. n[1] = inbox[n].record.source /\ n[2] = inbox[n].record.seq
  BY <1>1 DEF Key
<1>4. inbox[n].record.seq \in Nat /\ inbox[n].record.source \in Sources
  BY <1>2 DEF Records
<1> QED
  BY <1>1, <1>2, <1>3, <1>4, NameFacts, LogAssumption

\* An item is admitted if it came whole and its number is new, and otherwise
\* changes nothing but what is retained.
LEMMA IngestCases ==
  ASSUME Typed, NEW n \in DOMAIN inbox, NEW lost, Ingest(inbox[n], lost)
  PROVE  LET r == inbox[n].record IN
         \/ Admit(r) /\ r.seq > lastSequence[r.source]
         \/ /\ UNCHANGED <<lastSequence, gaps, promoted, quarantined, index, admissions>>
            /\ unattributed' \subseteq unattributed \cup SlicesOf(r)
<1> DEFINE r == inbox[n].record
<1>1. r.seq \in Nat /\ lastSequence[r.source] \in Nat
  BY ItemFacts, LogAssumption DEF Typed, TypeOK
<1>2. CASE RecordVerdict(inbox[n]) = "OK"
  <2>1. r.seq > lastSequence[r.source]
    BY <1>1, <1>2 DEF RecordVerdict
  <2> QED
    BY <1>2, <2>1 DEF Ingest
<1>3. CASE RecordVerdict(inbox[n]) = "LENGTH_MISMATCH"
  BY <1>3 DEF Ingest, tierVars
<1>4. CASE RecordVerdict(inbox[n]) \notin {"OK", "LENGTH_MISMATCH"}
  BY <1>4 DEF Ingest, RejectUnparsed
<1> QED
  BY <1>2, <1>3, <1>4

\* An item that is admitted keeps the types: it lies under the name of its record.
LEMMA AdmitType ==
  ASSUME Typed, NEW n \in DOMAIN inbox, Admit(inbox[n].record)
  PROVE  /\ \A s \in Sources : lastSequence'[s] \in 0 .. MaxSeq(s)
         /\ DOMAIN lastSequence' = Sources /\ gaps' \in Nat
         /\ DOMAIN promoted' \subseteq Names
         /\ \A k \in DOMAIN promoted' : promoted'[k] \in Payloads \ Implants
         /\ quarantined' \subseteq Records /\ unattributed' \subseteq Slices
         /\ DOMAIN index' \subseteq Names /\ \A k \in DOMAIN index' : index'[k] \in Nat
         /\ admissions' \subseteq Names
<1> DEFINE r == inbox[n].record
<1>1. /\ r \in Records /\ Key(r) \in Names /\ r.source \in Sources
      /\ r.seq \in 1 .. MaxSeq(r.source) /\ r.payload \in Payloads
  BY ItemFacts DEF Records
<1>2. \A s \in Sources : lastSequence[s] \in Nat /\ MaxSeq(s) \in Nat
  <2> SUFFICES ASSUME NEW s \in Sources PROVE lastSequence[s] \in Nat /\ MaxSeq(s) \in Nat
    OBVIOUS
  <2>1. MaxSeq(s) \in Nat /\ lastSequence[s] \in 0 .. MaxSeq(s)
    BY LogAssumption DEF Typed, TypeOK
  <2> QED
    BY <2>1
<1>3. Missing(r) \in Nat
  BY <1>1, <1>2 DEF Missing
<1> HIDE DEF r
<1>4. gaps' \in Nat
  BY <1>3 DEF Admit, Typed, TypeOK, r
<1>5. /\ \A s \in Sources : lastSequence'[s] \in 0 .. MaxSeq(s)
      /\ DOMAIN lastSequence' = Sources
  BY <1>1, <1>2 DEF Admit, Typed, TypeOK, r
<1>6. admissions' \subseteq Names /\ Lines(Key(r)) + 1 \in Nat
  BY <1>1 DEF Admit, Typed, TypeOK, Lines, r
<1>7. CASE r.payload \in Implants
  BY <1>1, <1>4, <1>5, <1>6, <1>7 DEF Admit, Typed, TypeOK, r
<1>8. CASE r.payload \notin Implants
  <2>1. /\ promoted' = Written(promoted, Key(r), r.payload)
        /\ index' = Written(index, Key(r), Lines(Key(r)) + 1)
        /\ UNCHANGED <<quarantined, unattributed>>
    BY <1>8 DEF Admit, r
  <2>2. /\ DOMAIN promoted' \subseteq Names
        /\ \A k \in DOMAIN promoted' : promoted'[k] \in Payloads \ Implants
    BY <1>1, <1>8, <2>1 DEF Written, Typed, TypeOK
  <2>3. DOMAIN index' \subseteq Names /\ \A k \in DOMAIN index' : index'[k] \in Nat
    BY <1>1, <1>6, <2>1 DEF Written, Typed, TypeOK
  <2> QED
    BY <1>4, <1>5, <1>6, <2>1, <2>2, <2>3 DEF Typed, TypeOK
<1> QED
  BY <1>7, <1>8

\* Every step of emitter, diode and tier keeps the types.
LEMMA TypeNext == Typed /\ [Next]_vars => Typed'
<1> SUFFICES ASSUME Typed, [Next]_vars PROVE Typed'
  OBVIOUS
<1> USE DEF Typed
<1>1. ASSUME NEW s \in Sources, NEW p \in Says(s, sequence[s] + 1), Emit(s, p) PROVE Typed'
  <2> DEFINE r == [source |-> s, seq |-> sequence[s] + 1, payload |-> p]
  <2>1. sequence[s] \in Nat /\ sequence[s] + 1 \in 1 .. MaxSeq(s)
    BY <1>1, LogAssumption DEF Emit, TypeOK
  <2>2. p \in Payloads
    BY <2>1, LogAssumption
  <2>3. r \in Records /\ Key(r) \in Names
    BY <2>1, <2>2, NameOfRecord DEF Records
  <2>4. spool' = [n \in DOMAIN spool \cup {Key(r)} |-> IF n = Key(r) THEN r ELSE spool[n]]
    BY <1>1 DEF Emit, Written
  <2>5. /\ \A t \in Sources : sequence'[t] \in 0 .. MaxSeq(t)
        /\ DOMAIN sequence' = Sources
    BY <1>1, <2>1, LogAssumption DEF Emit, TypeOK
  <2> HIDE DEF r
  <2>6. /\ DOMAIN spool' \subseteq Names
        /\ \A n \in DOMAIN spool' : spool'[n] \in Records /\ Key(spool'[n]) = n
    BY <2>3, <2>4 DEF TypeOK
  <2>7. IsFiniteSet(DOMAIN spool')
    BY <2>4, FS_AddElement DEF Named
  <2>8. DOMAIN inbox' \subseteq DOMAIN spool'
    BY <1>1, <2>4 DEF Emit, TypeOK
  <2>9. UNCHANGED <<lastSequence, gaps, promoted, quarantined, unattributed, index, admissions,
                    inbox, listing, read, faults>>
    BY <1>1 DEF Emit
  <2> QED
    BY <2>5, <2>6, <2>7, <2>8, <2>9 DEF TypeOK, Named
<1>2. ASSUME NEW s \in Sources, EmitterRestarts(s) PROVE Typed'
  <2>1. /\ \A t \in Sources : sequence'[t] \in 0 .. MaxSeq(t)
        /\ DOMAIN sequence' = Sources
    BY <1>2, LogAssumption DEF EmitterRestarts, TypeOK
  <2>2. faults' \in [emitter : Nat, tier : Nat, damage : Nat, clash : Nat]
    BY <1>2 DEF EmitterRestarts, TypeOK
  <2> QED
    BY <1>2, <2>1, <2>2 DEF EmitterRestarts, TypeOK, Named
<1>3. CASE DrainAndList
  <2> DEFINE pending == Link!Batch(DOMAIN spool, DOMAIN inbox)
  <2>1. pending \subseteq DOMAIN spool
    BY DEF Link!Batch, Link!Pending
  <2>2. PICK state \in [pending -> States] :
          /\ inbox' = [n \in DOMAIN inbox \cup pending |->
                         IF n \in pending THEN [record |-> spool[n], state |-> state[n]]
                         ELSE inbox[n]]
          /\ faults' = [faults EXCEPT !.damage = @ + Cardinality({n \in pending : state[n] # "whole"})]
    BY <1>3 DEF DrainAndList
  <2> HIDE DEF pending
  <2> DEFINE damaged == {n \in pending : state[n] # "whole"}
  <2>3. faults' = [faults EXCEPT !.damage = @ + Cardinality(damaged)] /\ damaged \in SUBSET DOMAIN spool
    BY <2>1, <2>2
  <2> HIDE DEF damaged
  <2>4. Cardinality(damaged) \in Nat
    BY <2>3, FS_Subset, FS_CardinalityType DEF Named
  <2>5. faults' \in [emitter : Nat, tier : Nat, damage : Nat, clash : Nat]
    BY <2>3, <2>4 DEF TypeOK
  <2>6. DOMAIN inbox' = DOMAIN inbox \cup pending
    BY <2>2
  <2>7. \A n \in DOMAIN inbox' : inbox'[n] \in Items /\ Key(inbox'[n].record) = n
    BY <2>1, <2>2 DEF TypeOK, Named, Items
  <2>8. listing' = DOMAIN inbox' /\ read' = NoName
    BY <1>3, <2>6 DEF DrainAndList, pending
  <2>9. DOMAIN inbox' \subseteq DOMAIN spool /\ NoName \notin DOMAIN inbox'
    BY <2>1, <2>6, NameFacts DEF TypeOK
  <2>10. UNCHANGED <<lastSequence, gaps, promoted, quarantined, unattributed, index, admissions,
                     sequence, spool>>
    BY <1>3 DEF DrainAndList
  <2> QED
    BY <2>5, <2>7, <2>8, <2>9, <2>10 DEF TypeOK, Named
<1>4. CASE IngestNext
  <2>1. PICK n \in listing :
          /\ read = NoName /\ \E lost : Ingest(inbox[n], lost)
          /\ listing' = listing \ {n} /\ read' = n
          /\ faults' \in {faults, [faults EXCEPT !.clash = @ + 1]}
          /\ UNCHANGED <<sequence, spool, inbox>>
    BY <1>4 DEF IngestNext
  <2>2. n \in DOMAIN inbox
    BY DEF TypeOK
  <2>3. /\ \A s \in Sources : lastSequence'[s] \in 0 .. MaxSeq(s)
        /\ DOMAIN lastSequence' = Sources /\ gaps' \in Nat
        /\ DOMAIN promoted' \subseteq Names
        /\ \A k \in DOMAIN promoted' : promoted'[k] \in Payloads \ Implants
        /\ quarantined' \subseteq Records /\ unattributed' \subseteq Slices
        /\ DOMAIN index' \subseteq Names /\ \A k \in DOMAIN index' : index'[k] \in Nat
        /\ admissions' \subseteq Names
    <3>1. CASE Admit(inbox[n].record)
      BY <2>2, <3>1, AdmitType
    <3>2. CASE /\ UNCHANGED <<lastSequence, gaps, promoted, quarantined, index, admissions>>
               /\ unattributed' \subseteq unattributed \cup SlicesOf(inbox[n].record)
      BY <2>2, <3>2, ItemFacts DEF TypeOK, SlicesOf, Slices
    <3> QED
      BY <2>1, <2>2, <3>1, <3>2, IngestCases
  <2> QED
    BY <2>1, <2>2, <2>3 DEF TypeOK, Named
<1>5. CASE RenameDone
  <2>1. read # NoName /\ read \notin listing /\ listing \subseteq DOMAIN inbox
    BY <1>5 DEF RenameDone, TypeOK
  <2>2. inbox' = [n \in DOMAIN inbox \ {read} |-> inbox[n]] /\ read' = NoName
    BY <1>5 DEF RenameDone
  <2>3. NoName \notin DOMAIN inbox
    BY NameFacts DEF TypeOK
  <2>4. /\ DOMAIN inbox' \subseteq DOMAIN spool /\ listing \subseteq DOMAIN inbox'
        /\ NoName \notin listing
        /\ \A n \in DOMAIN inbox' : inbox'[n] \in Items /\ Key(inbox'[n].record) = n
    BY <2>1, <2>2, <2>3 DEF TypeOK, Named
  <2>5. UNCHANGED <<lastSequence, gaps, promoted, quarantined, unattributed, index, admissions,
                    sequence, spool, listing, faults>>
    BY <1>5 DEF RenameDone
  <2> QED
    BY <2>2, <2>4, <2>5 DEF TypeOK, Named
<1>6. CASE TierRestarts
  <2>1. \A s \in Sources : lastSequence'[s] \in 0 .. MaxSeq(s)
    BY <1>6, LogAssumption DEF TierRestarts, TierRestart
  <2>2. DOMAIN lastSequence' = Sources /\ gaps' \in Nat /\ admissions' \subseteq Names
    BY <1>6 DEF TierRestarts, TierRestart
  <2>3. faults' \in [emitter : Nat, tier : Nat, damage : Nat, clash : Nat]
    BY <1>6 DEF TierRestarts, TypeOK
  <2> QED
    BY <1>6, <2>1, <2>2, <2>3 DEF TierRestarts, TierRestart, TypeOK, Named
<1>7. CASE UNCHANGED vars
  BY <1>7 DEF vars, TypeOK, Named
<1> QED
  BY <1>1, <1>2, <1>3, <1>4, <1>5, <1>6, <1>7 DEF Next

\* Every variable of the channel keeps its type: nothing is promoted in which the
\* scanner found something, and every file lies under the name of its record.
THEOREM TypeCorrect == Spec => []TypeOK
<1>1. Typed => TypeOK
  BY DEF Typed
<1> QED
  BY <1>1, TypeInit, TypeNext, PTL DEF Spec

-----------------------------------------------------------------------------
\* What was admitted is at or below the last number of its source.
AdmittedBefore == \A k \in admissions : k[2] <= lastSequence[k[1]]

\* The index has a line of a record for each time the tier had started before, and one
\* more if it took the record since.
LinesPerLife ==
  \A k \in DOMAIN index : index[k] <= faults.tier + (IF k \in admissions THEN 1 ELSE 0)

\* A number above the last one of its source is a new one, and becomes the last.
LEMMA AdmitIsNew ==
  ASSUME Typed, AdmittedBefore, NEW r \in Records, Key(r) \in Names,
         r.seq > lastSequence[r.source], Admit(r)
  PROVE  Key(r) \notin admissions /\ AdmittedBefore'
<1>1. /\ Key(r) \in Names /\ r.source \in Sources /\ r.seq \in Nat
      /\ Key(r)[1] = r.source /\ Key(r)[2] = r.seq
  BY DEF Key, Records
<1>2. /\ \A s \in Sources : lastSequence[s] \in Nat
      /\ DOMAIN lastSequence = Sources /\ admissions \subseteq Names
  BY LogAssumption DEF Typed, TypeOK
<1>3. /\ admissions' = admissions \cup {Key(r)}
      /\ lastSequence' = [lastSequence EXCEPT ![r.source] = r.seq]
  BY DEF Admit
<1>4. \A k \in admissions : /\ k # Key(r) /\ k[1] \in Sources /\ k[2] \in Nat
                            /\ k[2] <= lastSequence[k[1]]
  BY <1>1, <1>2, NameFacts DEF AdmittedBefore
<1>5. \A s \in Sources : lastSequence[s] <= lastSequence'[s] /\ lastSequence'[s] \in Nat
  BY <1>1, <1>2, <1>3
<1>6. lastSequence'[Key(r)[1]] = Key(r)[2]
  BY <1>1, <1>2, <1>3
<1>7. \A k \in admissions' : k[2] <= lastSequence'[k[1]]
  BY <1>1, <1>2, <1>3, <1>4, <1>5, <1>6
<1> QED
  BY <1>4, <1>7 DEF AdmittedBefore

\* No step indexes a number twice in the life of a tier.
LEMMA IndexNext ==
  Typed /\ LinesPerLife /\ AdmittedBefore /\ [Next]_vars => (LinesPerLife /\ AdmittedBefore)'
<1> SUFFICES ASSUME Typed, LinesPerLife, AdmittedBefore, [Next]_vars
             PROVE  LinesPerLife' /\ AdmittedBefore'
  OBVIOUS
<1>1. CASE UNCHANGED <<lastSequence, index, admissions>> /\ faults'.tier = faults.tier
  BY <1>1 DEF LinesPerLife, AdmittedBefore
<1>2. CASE IngestNext
  <2>1. PICK n \in DOMAIN inbox :
          (\E lost : Ingest(inbox[n], lost)) /\ faults'.tier = faults.tier
    BY <1>2 DEF IngestNext, Typed, TypeOK
  <2> DEFINE r == inbox[n].record
  <2>2. CASE Admit(r) /\ r.seq > lastSequence[r.source]
    <3>1. r \in Records /\ Key(r) \in Names
      BY ItemFacts
    <3> HIDE DEF r
    <3>2. Key(r) \notin admissions /\ AdmittedBefore'
      BY <2>2, <3>1, AdmitIsNew
    <3>3. /\ admissions' = admissions \cup {Key(r)}
          /\ UNCHANGED index \/ index' = Written(index, Key(r), Lines(Key(r)) + 1)
      BY <2>2 DEF Admit
    <3>4. faults.tier \in Nat /\ \A k \in DOMAIN index : index[k] \in Nat
      BY DEF Typed, TypeOK
    <3>5. Lines(Key(r)) <= faults.tier /\ Lines(Key(r)) \in Nat
      BY <3>2, <3>4 DEF Lines, LinesPerLife
    <3>6. ASSUME NEW k \in DOMAIN index'
          PROVE  index'[k] <= faults.tier + (IF k \in admissions' THEN 1 ELSE 0)
      <4>1. CASE k \in DOMAIN index /\ index'[k] = index[k]
        BY <3>3, <3>4, <4>1 DEF LinesPerLife
      <4>2. CASE k = Key(r) /\ index'[k] = Lines(Key(r)) + 1
        BY <3>3, <3>4, <3>5, <4>2
      <4> QED
        BY <3>3, <3>6, <4>1, <4>2 DEF Written
    <3> QED
      BY <2>1, <3>2, <3>6 DEF LinesPerLife
  <2>3. CASE UNCHANGED <<lastSequence, index, admissions>>
    BY <1>1, <2>1, <2>3
  <2> QED
    BY <2>1, <2>2, <2>3, IngestCases
<1>3. CASE TierRestarts
  <2>1. admissions' = {} /\ UNCHANGED index /\ faults'.tier = faults.tier + 1
    BY <1>3 DEF TierRestarts, TierRestart, Typed, TypeOK
  <2>2. faults.tier \in Nat /\ \A k \in DOMAIN index : index[k] \in Nat
    BY DEF Typed, TypeOK
  <2> QED
    BY <2>1, <2>2 DEF LinesPerLife, AdmittedBefore
<1>4. Next => \/ UNCHANGED <<lastSequence, index, admissions>> /\ faults'.tier = faults.tier
              \/ IngestNext \/ TierRestarts
  BY DEF Next, Emit, EmitterRestarts, DrainAndList, RenameDone, Typed, TypeOK
<1> QED
  BY <1>1, <1>2, <1>3, <1>4 DEF vars

\* However often a record is delivered again, the index has at most one line of it for
\* each time the tier has been started.
THEOREM EachIndexedOnce == Spec => []IndexedOnce
<1>1. Init => LinesPerLife /\ AdmittedBefore
  BY DEF Init, TierInit, LinesPerLife, AdmittedBefore
<1>2. Typed /\ LinesPerLife => IndexedOnce
  <2> SUFFICES ASSUME Typed, LinesPerLife, NEW k \in DOMAIN index
               PROVE  index[k] <= 1 + faults.tier
    BY DEF IndexedOnce
  <2>1. faults.tier \in Nat /\ index[k] \in Nat
    BY DEF Typed, TypeOK
  <2> QED
    BY <2>1 DEF LinesPerLife
<1> QED
  BY <1>1, <1>2, TypeInit, TypeNext, IndexNext, PTL DEF Spec

-----------------------------------------------------------------------------
\* As long as the tier has not started again, what is promoted is not above the
\* last number of its source.
PromotedBefore ==
  faults.tier = 0 => \A k \in DOMAIN promoted : k[2] <= lastSequence[k[1]]

\* As long as no emitter has started again, a name stands for one record, in the
\* spool, on its way and promoted.
NamesAreUnique ==
  faults.emitter = 0 =>
    /\ \A n \in DOMAIN spool : n[2] <= sequence[n[1]]
    /\ \A n \in DOMAIN inbox : inbox[n].record = spool[n]
    /\ \A k \in DOMAIN promoted : k \in DOMAIN spool /\ promoted[k] = spool[k].payload

KeepInv == PromotedBefore /\ NamesAreUnique

\* A step of the tier that promotes writes over nothing else.
LEMMA AdmitKeeps ==
  ASSUME Typed, KeepInv, NEW n \in DOMAIN inbox,
         Admit(inbox[n].record), inbox[n].record.seq > lastSequence[inbox[n].record.source],
         UNCHANGED <<sequence, spool, inbox>>,
         faults' \in {faults, [faults EXCEPT !.clash = @ + 1]}
  PROVE  /\ KeepInv'
         /\ \A k \in DOMAIN promoted :
               \/ k \in DOMAIN promoted' /\ promoted'[k] = promoted[k]
               \/ faults.emitter > 0 /\ faults.tier > 0
<1> DEFINE r == inbox[n].record
<1>1. /\ Key(r) \in Names /\ r.source \in Sources /\ r.seq \in Nat /\ Key(r) = n
      /\ Key(r)[1] = r.source /\ Key(r)[2] = r.seq
  BY ItemFacts, LogAssumption DEF Key
<1>2. /\ \A s \in Sources : lastSequence[s] \in Nat
      /\ DOMAIN lastSequence = Sources
      /\ \A k \in DOMAIN promoted : k[1] \in Sources /\ k[2] \in Nat
      /\ faults.emitter \in Nat /\ faults.tier \in Nat
      /\ n \in DOMAIN spool
      /\ faults'.emitter = faults.emitter /\ faults'.tier = faults.tier
  BY NameFacts, LogAssumption DEF Typed, TypeOK
<1>3. r.seq > lastSequence[r.source]
  OBVIOUS
<1>4. faults.emitter = 0 => r = spool[n]
  BY DEF KeepInv, NamesAreUnique
<1>5. lastSequence' = [lastSequence EXCEPT ![r.source] = r.seq]
  BY DEF Admit
<1>6. \/ UNCHANGED promoted
      \/ promoted' = [k \in DOMAIN promoted \cup {Key(r)} |->
                         IF k = Key(r) THEN r.payload ELSE promoted[k]]
  BY DEF Admit, Written
<1> HIDE DEF r
<1>7. \A s \in Sources : lastSequence[s] <= lastSequence'[s] /\ lastSequence'[s] \in Nat
  BY <1>1, <1>2, <1>3, <1>5
<1>8. lastSequence'[r.source] = r.seq
  BY <1>1, <1>2, <1>5
<1>9. PromotedBefore'
  <2>1. CASE UNCHANGED promoted
    BY <1>2, <1>7, <2>1 DEF KeepInv, PromotedBefore
  <2>2. CASE promoted' = [k \in DOMAIN promoted \cup {Key(r)} |->
                            IF k = Key(r) THEN r.payload ELSE promoted[k]]
    BY <1>1, <1>2, <1>7, <1>8, <2>2 DEF KeepInv, PromotedBefore
  <2> QED
    BY <1>6, <2>1, <2>2
<1>10. NamesAreUnique'
  BY <1>1, <1>2, <1>4, <1>6 DEF KeepInv, NamesAreUnique
<1>11. ASSUME NEW k \in DOMAIN promoted
       PROVE  \/ k \in DOMAIN promoted' /\ promoted'[k] = promoted[k]
              \/ faults.emitter > 0 /\ faults.tier > 0
  <2>1. CASE k # Key(r)
    BY <1>6, <2>1
  <2>2. CASE k = Key(r) /\ faults.tier = 0
    BY <1>1, <1>2, <1>3, <2>2 DEF KeepInv, PromotedBefore
  <2>3. CASE k = Key(r) /\ faults.emitter = 0
    BY <1>1, <1>4, <1>6, <2>3 DEF KeepInv, NamesAreUnique
  <2> QED
    BY <1>2, <2>1, <2>2, <2>3
<1> QED
  BY <1>9, <1>10, <1>11 DEF KeepInv

\* No step writes over what was promoted, and none gives a name away again.
LEMMA KeepNext ==
  Typed /\ KeepInv /\ [Next]_vars =>
    /\ KeepInv'
    /\ \A k \in DOMAIN promoted :
          \/ k \in DOMAIN promoted' /\ promoted'[k] = promoted[k]
          \/ faults.emitter > 0 /\ faults.tier > 0
<1> SUFFICES ASSUME Typed, KeepInv, [Next]_vars
             PROVE  /\ KeepInv'
                    /\ \A k \in DOMAIN promoted :
                          \/ k \in DOMAIN promoted' /\ promoted'[k] = promoted[k]
                          \/ faults.emitter > 0 /\ faults.tier > 0
  OBVIOUS
<1> USE DEF KeepInv
<1>1. ASSUME NEW s \in Sources, NEW p \in Says(s, sequence[s] + 1), Emit(s, p) PROVE KeepInv'
  <2> DEFINE r == [source |-> s, seq |-> sequence[s] + 1, payload |-> p]
  <2>1. /\ spool' = [n \in DOMAIN spool \cup {Key(r)} |-> IF n = Key(r) THEN r ELSE spool[n]]
        /\ sequence' = [sequence EXCEPT ![s] = @ + 1]
        /\ UNCHANGED <<lastSequence, promoted, inbox, faults>>
    BY <1>1 DEF Emit, Written
  <2>2. /\ \A t \in Sources : sequence[t] \in Nat
        /\ DOMAIN sequence = Sources
        /\ \A n \in DOMAIN spool : n[1] \in Sources /\ n[2] \in Nat
        /\ DOMAIN inbox \subseteq DOMAIN spool
    BY NameFacts, LogAssumption DEF Typed, TypeOK
  <2>3. Key(r)[1] = s /\ Key(r)[2] = sequence[s] + 1
    BY DEF Key
  <2> HIDE DEF r
  <2>4. PromotedBefore'
    BY <2>1 DEF PromotedBefore
  <2>5. ASSUME faults.emitter = 0
        PROVE  /\ Key(r) \notin DOMAIN spool
               /\ \A n \in DOMAIN spool' : n[2] <= sequence'[n[1]]
    <3>1. Key(r) \notin DOMAIN spool
      BY <2>2, <2>3, <2>5 DEF NamesAreUnique
    <3>2. \A t \in Sources : sequence[t] <= sequence'[t] /\ sequence'[t] \in Nat
      BY <2>1, <2>2
    <3>3. sequence'[Key(r)[1]] = Key(r)[2] /\ Key(r)[2] \in Nat
      BY <2>1, <2>2, <2>3
    <3> QED
      BY <2>1, <2>2, <2>5, <3>1, <3>2, <3>3 DEF NamesAreUnique
  <2>6. NamesAreUnique'
    BY <2>1, <2>2, <2>5 DEF NamesAreUnique
  <2> QED
    BY <2>4, <2>6
<1>2. ASSUME NEW s \in Sources, EmitterRestarts(s) PROVE KeepInv'
  <2>1. faults'.emitter # 0 /\ faults'.tier = faults.tier
    BY <1>2 DEF EmitterRestarts, Typed, TypeOK
  <2> QED
    BY <1>2, <2>1 DEF EmitterRestarts, PromotedBefore, NamesAreUnique
<1>3. CASE DrainAndList
  <2>1. PICK pending, state :
          /\ inbox' = [n \in DOMAIN inbox \cup pending |->
                         IF n \in pending THEN [record |-> spool[n], state |-> state[n]]
                         ELSE inbox[n]]
          /\ \E d : faults' = [faults EXCEPT !.damage = d]
    BY <1>3 DEF DrainAndList
  <2>2. \A n \in DOMAIN inbox' :
          \/ inbox'[n].record = spool[n]
          \/ n \in DOMAIN inbox /\ inbox'[n] = inbox[n]
    BY <2>1
  <2>3. faults'.emitter = faults.emitter /\ faults'.tier = faults.tier
    BY <2>1 DEF Typed, TypeOK
  <2>4. UNCHANGED <<lastSequence, promoted, sequence, spool>>
    BY <1>3 DEF DrainAndList
  <2> QED
    BY <2>2, <2>3, <2>4 DEF PromotedBefore, NamesAreUnique
<1>4. CASE IngestNext
  <2>1. PICK n \in DOMAIN inbox :
          /\ \E lost : Ingest(inbox[n], lost)
          /\ faults' \in {faults, [faults EXCEPT !.clash = @ + 1]}
          /\ UNCHANGED <<sequence, spool, inbox>>
    BY <1>4 DEF IngestNext, Typed, TypeOK
  <2>2. CASE UNCHANGED <<lastSequence, promoted>>
    <3>1. faults'.emitter = faults.emitter /\ faults'.tier = faults.tier
      BY <2>1 DEF Typed, TypeOK
    <3> QED
      BY <2>1, <2>2, <3>1 DEF PromotedBefore, NamesAreUnique
  <2> QED
    BY <2>1, <2>2, IngestCases, AdmitKeeps
<1>5. CASE RenameDone
  BY <1>5 DEF RenameDone, PromotedBefore, NamesAreUnique
<1>6. CASE TierRestarts
  <2>1. faults'.tier # 0 /\ faults'.emitter = faults.emitter
    BY <1>6 DEF TierRestarts, Typed, TypeOK
  <2> QED
    BY <1>6, <2>1 DEF TierRestarts, TierRestart, PromotedBefore, NamesAreUnique
<1>7. CASE UNCHANGED vars
  BY <1>7 DEF vars, PromotedBefore, NamesAreUnique
<1>8. Next => IngestNext \/ UNCHANGED promoted
  BY DEF Next, Emit, EmitterRestarts, DrainAndList, RenameDone, TierRestarts, TierRestart
<1> QED
  BY <1>1, <1>2, <1>3, <1>4, <1>5, <1>6, <1>7, <1>8 DEF Next, vars

\* A promoted record is not replaced by another of its number unless both ends have
\* started again.
THEOREM PromotedStays == Spec => PromotedIsKept
<1>1. Init => KeepInv
  <2> SUFFICES ASSUME Init PROVE KeepInv
    OBVIOUS
  <2>1. DOMAIN promoted = {} /\ DOMAIN spool = {} /\ DOMAIN inbox = {}
    BY DEF Init, TierInit
  <2> QED
    BY <2>1 DEF KeepInv, PromotedBefore, NamesAreUnique
<1> QED
  BY <1>1, TypeInit, TypeNext, KeepNext, PTL DEF Spec, PromotedIsKept

-----------------------------------------------------------------------------
\* The last number of a source was taken, and the numbers skipped are counted.
LastWasTaken ==
  \A s \in Sources : lastSequence[s] # 0 => <<s, lastSequence[s]>> \in admissions

GapInv ==
  AdmittedBefore /\ LastWasTaken /\ IsFiniteSet(Skipped) /\ GapsAreExact

\* The numbers a record jumps over are those between the last one and its own.
Between(s, a, b) == {s} \X (a + 1 .. b - 1)

\* There are as many of them as Missing says.
LEMMA BetweenCount ==
  ASSUME NEW s, NEW a \in Nat, NEW b \in Nat, a < b
  PROVE  IsFiniteSet(Between(s, a, b)) /\ Cardinality(Between(s, a, b)) = b - a - 1
<1> DEFINE I == a + 1 .. b - 1
<1>1. IsFiniteSet(I) /\ Cardinality(I) = IF a + 1 > b - 1 THEN 0 ELSE (b - 1) - (a + 1) + 1
  <2>1. a + 1 \in Int /\ b - 1 \in Int
    OBVIOUS
  <2> QED
    BY <2>1, FS_Interval
<1>2. Cardinality(I) = b - a - 1
  BY <1>1
<1>3. IsFiniteSet({s}) /\ Cardinality({s}) = 1
  BY FS_Singleton
<1>4. Between(s, a, b) = {s} \X I
  BY DEF Between
<1> HIDE DEF I
<1>5. IsFiniteSet({s} \X I) /\ Cardinality({s} \X I) = 1 * Cardinality(I)
  BY <1>1, <1>3, FS_Product
<1> QED
  BY <1>2, <1>4, <1>5

\* What is skipped once a record is taken: the numbers it jumps over as well, if its
\* source had one before.
LEMMA AdmitSkips ==
  ASSUME Typed, AdmittedBefore, LastWasTaken, NEW r \in Records, Key(r) \in Names,
         r.seq > lastSequence[r.source], Admit(r)
  PROVE  /\ LastWasTaken'
         /\ LET jumped == IF lastSequence[r.source] = 0 THEN {}
                          ELSE Between(r.source, lastSequence[r.source], r.seq)
            IN  Skipped' = Skipped \cup jumped /\ Skipped \cap jumped = {}
<1> DEFINE s == r.source
           k == Key(r)
           last == lastSequence[s]
           taken == admissions
           jumped == IF last = 0 THEN {} ELSE Between(s, last, r.seq)
<1>1. /\ s \in Sources /\ r.seq \in Nat /\ k = <<s, r.seq>> /\ k[1] = s /\ k[2] = r.seq
      /\ k \in Names /\ last \in Nat /\ last < r.seq
  BY LogAssumption DEF Records, Key, Typed, TypeOK
<1>2. /\ \A t \in Sources : lastSequence[t] \in Nat
      /\ DOMAIN lastSequence = Sources
      /\ lastSequence' = [lastSequence EXCEPT ![s] = r.seq]
      /\ admissions \subseteq Names /\ admissions' = admissions \cup {k}
  BY LogAssumption DEF Typed, TypeOK, Admit
<1>3. admissions' = taken \cup {k}
  BY <1>2
<1>4. \A a \in taken : /\ a \in Names /\ a[1] \in Sources /\ a[2] \in Nat /\ a[2] >= 1
                       /\ a[2] <= lastSequence[a[1]] /\ a = <<a[1], a[2]>>
  <2>1. \A a \in taken : a \in Names /\ a[2] <= lastSequence[a[1]]
    BY <1>2 DEF AdmittedBefore
  <2> QED
    BY <2>1, NameFacts
<1>5. last # 0 => <<s, last>> \in taken
  BY <1>1 DEF LastWasTaken
<1>6. \A n \in Names : n[1] \in Sources /\ n[2] \in Nat /\ n[2] >= 1 /\ n = <<n[1], n[2]>>
  BY NameFacts
<1>7. /\ Skipped = {n \in Names \ taken :
           \E a, b \in taken : a[1] = n[1] /\ n[1] = b[1] /\ a[2] < n[2] /\ n[2] < b[2]}
      /\ Skipped' = {n \in Names \ (taken \cup {k}) :
           \E a, b \in taken \cup {k} : a[1] = n[1] /\ n[1] = b[1] /\ a[2] < n[2] /\ n[2] < b[2]}
  <2>1. Skipped' = {n \in Names \ admissions' :
           \E a, b \in admissions' : a[1] = n[1] /\ n[1] = b[1] /\ a[2] < n[2] /\ n[2] < b[2]}
    BY DEF Skipped
  <2> QED
    BY <1>3, <2>1 DEF Skipped
<1>8. LastWasTaken'
  <2>1. ASSUME NEW t \in Sources, lastSequence'[t] # 0
        PROVE  <<t, lastSequence'[t]>> \in taken \cup {k}
    <3>1. CASE t = s
      BY <1>1, <1>2, <3>1
    <3>2. CASE t # s
      <4>1. lastSequence'[t] = lastSequence[t]
        BY <1>2, <3>2
      <4> QED
        BY <2>1, <4>1 DEF LastWasTaken
    <3> QED
      BY <3>1, <3>2
  <2> QED
    BY <1>3, <2>1 DEF LastWasTaken
<1>9. \A n : n \in jumped <=> /\ last # 0 /\ n = <<s, n[2]>> /\ n[1] = s /\ n[2] \in Nat
                              /\ last < n[2] /\ n[2] < r.seq
  <2>1. \A n : n \in Between(s, last, r.seq) <=>
                 n = <<s, n[2]>> /\ n[1] = s /\ n[2] \in last + 1 .. r.seq - 1
    BY DEF Between
  <2>2. \A m : m \in last + 1 .. r.seq - 1 <=> m \in Nat /\ last < m /\ m < r.seq
    BY <1>1
  <2> HIDE DEF s, last
  <2> QED
    BY <2>1, <2>2
<1>10. \A m \in Nat : m < r.seq /\ m >= 1 => <<s, m>> \in Names
  <2>1. r.seq <= MaxSeq(s) /\ MaxSeq(s) \in Nat
    BY <1>1, NameFacts, LogAssumption
  <2> QED
    BY <1>1, <2>1 DEF Names
<1> HIDE DEF s, k, last, taken, jumped
<1>11. ASSUME NEW n \in Skipped
       PROVE  n \in Names /\ n \notin taken /\ n \notin jumped /\ n # k
  <2>2. PICK b \in taken : n[1] = b[1] /\ n[2] < b[2] /\ n \in Names /\ n \notin taken
    BY <1>7
  <2>3. n[2] < lastSequence[n[1]]
    BY <1>2, <1>4, <1>6, <2>2
  <2>4. n[1] = s => n[2] < last
    BY <2>3 DEF last
  <2> QED
    BY <1>1, <1>6, <1>9, <2>2, <2>4
<1>12. Skipped \subseteq Skipped'
  BY <1>7, <1>11
<1>13. ASSUME NEW n \in jumped PROVE n \in Skipped'
  <2>2. /\ last # 0 /\ n = <<s, n[2]>> /\ n[1] = s /\ n[2] \in Nat /\ last < n[2] /\ n[2] < r.seq
    BY <1>9
  <2>3. n \in Names
    BY <1>1, <1>10, <2>2
  <2>4. n \notin taken
    <3>1. n \in taken => n[2] <= lastSequence[s]
      BY <1>4, <2>2
    <3> QED
      BY <1>1, <2>2, <3>1 DEF last
  <2>5. n # k
    BY <1>1, <2>2
  <2>6. <<s, last>> \in taken /\ <<s, last>>[1] = n[1] /\ <<s, last>>[2] < n[2]
    BY <1>5, <2>2
  <2>7. k[1] = n[1] /\ n[2] < k[2]
    BY <1>1, <2>2
  <2> QED
    BY <1>7, <2>3, <2>4, <2>5, <2>6, <2>7
<1>14. ASSUME NEW n \in Skipped' PROVE n \in Skipped \cup jumped
  <2>2. PICK a, b \in taken \cup {k} :
          /\ n \in Names /\ n \notin taken /\ n # k
          /\ a[1] = n[1] /\ n[1] = b[1] /\ a[2] < n[2] /\ n[2] < b[2]
    BY <1>7
  <2>3. n[1] \in Sources /\ n[2] \in Nat /\ n[2] >= 1 /\ n = <<n[1], n[2]>>
    BY <1>6, <2>2
  <2>4. a # k
    <3> SUFFICES ASSUME a = k PROVE FALSE
      OBVIOUS
    <3>1. n[1] = s /\ r.seq < n[2] /\ n[2] < b[2]
      BY <1>1, <2>2
    <3>2. b # k
      BY <1>1, <2>3, <3>1
    <3>3. b \in taken /\ b[1] = s
      BY <2>2, <3>1, <3>2
    <3>4. b[2] \in Nat /\ b[2] <= last
      BY <1>4, <3>3 DEF last
    <3> QED
      BY <1>1, <2>3, <3>1, <3>4
  <2>5. a \in taken
    BY <2>2, <2>4
  <2>6. CASE b \in taken
    BY <1>7, <2>2, <2>5, <2>6
  <2>7. CASE b = k
    <3>1. n[1] = s /\ n[2] < r.seq /\ a[1] = s
      BY <1>1, <2>2, <2>7
    <3>2. a[2] \in Nat /\ a[2] >= 1 /\ a[2] <= last
      BY <1>4, <2>5, <3>1 DEF last
    <3>3. last # 0
      BY <1>1, <3>2
    <3>4. <<s, last>> \in taken /\ <<s, last>>[1] = n[1] /\ <<s, last>>[2] = last
      BY <1>5, <3>1, <3>3
    <3>5. CASE n[2] < last
      BY <1>7, <2>2, <2>5, <3>4, <3>5
    <3>6. CASE n[2] = last
      BY <2>2, <2>3, <3>1, <3>4, <3>6
    <3>7. CASE last < n[2]
      BY <1>9, <2>3, <3>1, <3>3, <3>7
    <3> QED
      BY <1>1, <2>3, <3>5, <3>6, <3>7
  <2> QED
    BY <2>2, <2>6, <2>7
<1>15. Skipped \cap jumped = {}
  BY <1>11
<1> QED
  BY <1>8, <1>12, <1>13, <1>14, <1>15 DEF jumped, last, s

\* No step counts a number that was taken, or one twice.
LEMMA GapNext == Typed /\ LinesPerLife /\ GapInv /\ [Next]_vars => GapInv'
<1> SUFFICES ASSUME Typed, LinesPerLife, GapInv, [Next]_vars PROVE GapInv'
  OBVIOUS
<1> USE DEF GapInv
<1>1. AdmittedBefore'
  BY IndexNext
<1>2. CASE UNCHANGED <<lastSequence, gaps, admissions>>
  BY <1>1, <1>2 DEF LastWasTaken, Skipped, GapsAreExact
<1>3. CASE IngestNext
  <2>1. PICK n \in DOMAIN inbox : \E lost : Ingest(inbox[n], lost)
    BY <1>3 DEF IngestNext, Typed, TypeOK
  <2> DEFINE r == inbox[n].record
             last == lastSequence[r.source]
             jumped == IF last = 0 THEN {} ELSE Between(r.source, last, r.seq)
  <2>2. CASE Admit(r) /\ r.seq > last
    <3>1. r \in Records /\ Key(r) \in Names
      BY ItemFacts
    <3>2. last \in Nat /\ r.seq \in Nat /\ gaps \in Nat /\ gaps' = gaps + Missing(r)
      BY <2>2, <3>1, LogAssumption DEF Admit, Records, Typed, TypeOK
    <3>3. LastWasTaken' /\ Skipped' = Skipped \cup jumped /\ Skipped \cap jumped = {}
      BY <2>2, <3>1, AdmitSkips
    <3>4. IsFiniteSet(jumped) /\ Cardinality(jumped) = Missing(r)
      <4> DEFINE missing == IF last # 0 /\ r.seq > last + 1 THEN r.seq - last - 1 ELSE 0
      <4>1. Missing(r) = missing
        BY DEF Missing
      <4> HIDE DEF r, last
      <4>2. CASE last = 0
        BY <4>1, <4>2, FS_EmptySet
      <4>3. CASE last # 0
        <5>1. IsFiniteSet(Between(r.source, last, r.seq))
              /\ Cardinality(Between(r.source, last, r.seq)) = r.seq - last - 1
          BY <2>2, <3>2, BetweenCount
        <5>2. missing = r.seq - last - 1
          BY <2>2, <3>2, <4>3
        <5> QED
          BY <4>1, <4>3, <5>1, <5>2
      <4> QED
        BY <4>2, <4>3
    <3> HIDE DEF jumped
    <3>5. /\ IsFiniteSet(Skipped \cup jumped)
          /\ Cardinality(Skipped \cup jumped)
               = Cardinality(Skipped) + Cardinality(jumped) - Cardinality(Skipped \cap jumped)
      BY <3>4, FS_Union
    <3>6. /\ Cardinality(Skipped) \in Nat /\ Cardinality(jumped) \in Nat
          /\ Cardinality(Skipped \cap jumped) = 0
      BY <3>3, <3>4, FS_CardinalityType, FS_EmptySet
    <3>7. Cardinality(Skipped') = Cardinality(Skipped) + Missing(r)
      BY <3>3, <3>4, <3>5, <3>6
    <3>8. GapsAreExact'
      BY <3>2, <3>7 DEF GapsAreExact
    <3> QED
      BY <1>1, <3>3, <3>5, <3>8
  <2>3. CASE UNCHANGED <<lastSequence, gaps, admissions>>
    BY <1>2, <2>3
  <2> QED
    BY <2>1, <2>2, <2>3, IngestCases
<1>4. CASE TierRestarts
  <2>1. admissions' = {} /\ gaps' = 0 /\ \A s \in Sources : lastSequence'[s] = 0
    BY <1>4 DEF TierRestarts, TierRestart
  <2>2. Skipped' = {}
    BY <2>1 DEF Skipped
  <2> QED
    BY <1>1, <2>1, <2>2, FS_EmptySet DEF LastWasTaken, GapsAreExact
<1>5. Next => UNCHANGED <<lastSequence, gaps, admissions>> \/ IngestNext \/ TierRestarts
  BY DEF Next, Emit, EmitterRestarts, DrainAndList, RenameDone
<1> QED
  BY <1>2, <1>3, <1>4, <1>5 DEF vars

\* The count of the numbers that went missing is exact: every number between two that
\* were taken, and that was not taken, is counted once.
THEOREM MissingCountedOnce == Spec => []GapsAreExact
<1>1. Init => LinesPerLife /\ GapInv
  <2> SUFFICES ASSUME Init PROVE LinesPerLife /\ GapInv
    OBVIOUS
  <2>1. admissions = {} /\ DOMAIN index = {} /\ gaps = 0 /\ \A s \in Sources : lastSequence[s] = 0
    BY DEF Init, TierInit
  <2>2. Skipped = {}
    BY <2>1 DEF Skipped
  <2> QED
    BY <2>1, <2>2, FS_EmptySet
    DEF LinesPerLife, GapInv, AdmittedBefore, LastWasTaken, GapsAreExact
<1>2. GapInv => AdmittedBefore /\ GapsAreExact
  BY DEF GapInv
<1> QED
  BY <1>1, <1>2, TypeInit, TypeNext, IndexNext, GapNext, PTL DEF Spec
=============================================================================
