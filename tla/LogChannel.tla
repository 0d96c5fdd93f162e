----------------------------- MODULE LogChannel -----------------------------
(***************************************************************************)
(* The log channel from end to end: emitters, spool, diode, receiving      *)
(* directory and quarantine tier.  ingest_directory renames what it read,  *)
(* which frees the name, so the diode delivers every spooled file again at *)
(* its next tick: the tier sees each record once in every round, with the  *)
(* damage the link does to it that time.                                   *)
(***************************************************************************)
EXTENDS QuarantineTier, FiniteSets

CONSTANTS SourceRank(_),   \* the order of source ids in file names
          NoName,
          Says(_, _),      \* the payloads a source may emit under a number
          MaxSeq(_),       \* bounds: records of a source, damaged items, restarts,
          MaxDamaged, MaxEmitterRestarts, MaxTierRestarts,
          MaxClashes,      \* bound: instants that the clock gives twice
          MaxFaults        \* bound on all of these together, damaged items aside

VARIABLES sequence,  \* LogEmitter.sequence of each source
          spool,     \* log-transmit: file name -> record
          inbox,     \* log-receive: names of .rec files -> item
          listing,   \* ingest_directory: the names still to read
          read,      \* ingest_directory: the file read and not yet renamed
          faults     \* history: restarts of either end, damaged items, clashes

vars == <<lastSequence, gaps, promoted, quarantined, unattributed, index, admissions,
          sequence, spool, inbox, listing, read, faults>>

ASSUME LogAssumption ==
    /\ \A s \in Sources : MaxSeq(s) \in Nat /\ \A n \in 1 .. MaxSeq(s) : Says(s, n) \subseteq Payloads
    /\ NoName \notin Sources \X Nat

Names == UNION {{s} \X (1 .. MaxSeq(s)) : s \in Sources}

\* f"{source:04d}-{sequence:012d}.rec": source first, then number
NameBefore(a, b) ==
    \/ SourceRank(a[1]) < SourceRank(b[1])
    \/ a[1] = b[1] /\ a[2] < b[2]

\* drain ignores the capacity of one tick: what is deferred moves in the next.
Link == INSTANCE Diode WITH MaxItems <- Cardinality(Names), Before <- NameBefore

TypeOK ==
    /\ \A s \in Sources : lastSequence[s] \in 0 .. MaxSeq(s) /\ sequence[s] \in 0 .. MaxSeq(s)
    /\ DOMAIN lastSequence = Sources /\ DOMAIN sequence = Sources /\ gaps \in Nat
    /\ DOMAIN promoted \subseteq Names /\ \A k \in DOMAIN promoted : promoted[k] \in Payloads \ Implants
    /\ quarantined \subseteq Records /\ unattributed \subseteq Slices
    /\ DOMAIN index \subseteq Names /\ \A k \in DOMAIN index : index[k] \in Nat
    /\ admissions \subseteq Names
    /\ DOMAIN spool \subseteq Names /\ \A n \in DOMAIN spool : spool[n] \in Records /\ Key(spool[n]) = n
    /\ DOMAIN inbox \subseteq DOMAIN spool /\ \A n \in DOMAIN inbox : inbox[n] \in Items
    /\ listing \subseteq DOMAIN inbox /\ read \in DOMAIN inbox \cup {NoName} /\ read \notin listing
    /\ faults \in [emitter : Nat, tier : Nat, damage : Nat, clash : Nat]

Init ==
    /\ TierInit
    /\ sequence = [s \in Sources |-> 0]
    /\ spool = << >> /\ inbox = << >>
    /\ listing = {} /\ read = NoName
    /\ faults = [emitter |-> 0, tier |-> 0, damage |-> 0, clash |-> 0]

Faults == faults.emitter + faults.tier + faults.clash

\* LogEmitter.emit: the file is written over whatever has its name
Emit(s, p) ==
    LET r == [source |-> s, seq |-> sequence[s] + 1, payload |-> p]
    IN  /\ sequence[s] < MaxSeq(s)
        /\ sequence' = [sequence EXCEPT ![s] = @ + 1]
        /\ spool' = Written(spool, Key(r), r)
        /\ UNCHANGED <<lastSequence, gaps, promoted, quarantined, unattributed, index, admissions,
                       inbox, listing, read, faults>>

EmitterRestarts(s) ==
    /\ faults.emitter < MaxEmitterRestarts /\ Faults < MaxFaults
    /\ sequence' = [sequence EXCEPT ![s] = 0]
    /\ faults' = [faults EXCEPT !.emitter = @ + 1]
    /\ UNCHANGED <<lastSequence, gaps, promoted, quarantined, unattributed, index, admissions,
                   spool, inbox, listing, read>>

\* FakeDemoDataDiode.drain: all that is pending gets across, damaged or not; then
\* ingest_directory lists what is there.
DrainAndList ==
    LET pending == Link!Batch(DOMAIN spool, DOMAIN inbox)
    IN  /\ listing = {} /\ read = NoName
        /\ \E state \in [pending -> States] :
             LET damaged == {n \in pending : state[n] # "whole"} IN
             /\ faults.damage + Cardinality(damaged) <= MaxDamaged
             /\ inbox' = [n \in DOMAIN inbox \cup pending |->
                            IF n \in pending THEN [record |-> spool[n], state |-> state[n]]
                            ELSE inbox[n]]
             /\ faults' = [faults EXCEPT !.damage = @ + Cardinality(damaged)]
        /\ listing' = DOMAIN inbox \cup pending
        /\ UNCHANGED <<lastSequence, gaps, promoted, quarantined, unattributed, index, admissions,
                       sequence, spool, read>>

\* ingest_directory: tier.ingest of the next file in the order of names, which may write
\* one slice over another ...
IngestNext ==
    \E n \in listing :
      /\ read = NoName /\ \A k \in listing \ {n} : NameBefore(n, k)
      /\ \/ Ingest(inbox[n], {}) /\ UNCHANGED faults
         \/ \E s \in Overwritable(inbox[n]) :
              /\ faults.clash < MaxClashes /\ Faults < MaxFaults
              /\ Ingest(inbox[n], {s})
              /\ faults' = [faults EXCEPT !.clash = @ + 1]
      /\ listing' = listing \ {n} /\ read' = n
      /\ UNCHANGED <<sequence, spool, inbox>>

\* Mutant: what was read keeps its name.
RenameNothing ==
    /\ read # NoName /\ read' = NoName
    /\ UNCHANGED <<lastSequence, gaps, promoted, quarantined, unattributed, index, admissions,
                   sequence, spool, inbox, listing, faults>>

\* ... and path.rename
RenameDone ==
    /\ read # NoName
    /\ inbox' = [n \in DOMAIN inbox \ {read} |-> inbox[n]]
    /\ read' = NoName
    /\ UNCHANGED <<lastSequence, gaps, promoted, quarantined, unattributed, index, admissions,
                   sequence, spool, listing, faults>>

\* The process of the tier starts again, wherever it was.
TierRestarts ==
    /\ faults.tier < MaxTierRestarts /\ Faults < MaxFaults
    /\ TierRestart
    /\ listing' = {} /\ read' = NoName
    /\ faults' = [faults EXCEPT !.tier = @ + 1]
    /\ UNCHANGED <<sequence, spool, inbox>>

Next ==
    \/ \E s \in Sources : EmitterRestarts(s) \/ \E p \in Says(s, sequence[s] + 1) : Emit(s, p)
    \/ DrainAndList
    \/ IngestNext
    \/ RenameDone
    \/ TierRestarts

Spec == Init /\ [][Next]_vars

\* The link is drained again and again, and what is listed is read.
FairSpec == Spec /\ WF_vars(DrainAndList) /\ WF_vars(IngestNext) /\ WF_vars(RenameDone)
-----------------------------------------------------------------------------
(***************************************************************************)
(* Properties                                                              *)
(***************************************************************************)

\* However often the diode delivers a spooled record again, the index on disk has at
\* most one line of its number for each time the tier has been started: a tier that
\* starts again knows no number and indexes again what is still spooled
\* (parse_record, ingest_directory, FakeDemoDataDiode.tick).
IndexedOnce == \A k \in DOMAIN index : index[k] <= 1 + faults.tier

\* Every number that was not taken between two of its source that were is counted
\* as missing exactly once, whatever was lost, damaged, refused as a repetition or
\* numbered from one again (QuarantineTier._admit).
Skipped ==
    {n \in Names \ admissions :
        \E a, b \in admissions : a[1] = n[1] /\ n[1] = b[1] /\ a[2] < n[2] /\ n[2] < b[2]}
GapsAreExact == gaps = Cardinality(Skipped)

\* A promoted record is never replaced by another of the same number unless both
\* ends started again since (the promoted tier is write-once, QuarantineTier._admit).
PromotedIsKept ==
    [][\A k \in DOMAIN promoted :
          \/ k \in DOMAIN promoted' /\ promoted'[k] = promoted[k]
          \/ faults.emitter > 0 /\ faults.tier > 0]_vars

\* Whatever the emitters have spooled is in the end promoted, retained in quarantine, or
\* retained in slices from its first to its last, whichever way the link damages it,
\* wherever the tier restarts and whatever slice is written over: nothing is left in
\* between for ever (QuarantineTier.ingest, ingest_directory).
Settled(r) ==
    \/ Key(r) \in DOMAIN promoted /\ promoted[Key(r)] = r.payload
    \/ r \in quarantined
    \/ SlicesOf(r) \subseteq unattributed
EveryRecordSettles == []<>(\A n \in DOMAIN spool : Settled(spool[n]))
=============================================================================
