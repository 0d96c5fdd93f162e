--------------------------- MODULE QuarantineTier ---------------------------
(***************************************************************************)
(* The receiving end of the log diode (tools/log_ingest/quarantine.py):    *)
(* a record is validated and then scanned, promoted and indexed; whatever  *)
(* fails is retained in quarantine.  What it knows of each source is in    *)
(* memory, the two tiers are directories.                                  *)
(*                                                                         *)
(* A record is [source, seq, payload], an item [record, state], where the  *)
(* link may have damaged the item, or damaged its length field upwards.    *)
(***************************************************************************)
EXTENDS Naturals

CONSTANTS Sources,     \* LogSource
          Payloads,    \* contents of records
          Implants     \* those the scanner finds something in

VARIABLES lastSequence,  \* last_sequence and _highest_seen, 0 for none
          gaps,          \* counters.sequence_gaps
          promoted,      \* the promoted tier: <<source, sequence>> -> payload
          quarantined,   \* quarantine: records that were attributed
          unattributed,  \* quarantine/unattributed: slices of what failed validation
          index,         \* index.jsonl: <<source, sequence>> -> how many lines it has
          admissions     \* history: what _admit took since the tier started

tierVars == <<lastSequence, gaps, promoted, quarantined, unattributed, index, admissions>>

ASSUME PayloadAssumption == Implants \subseteq Payloads

Records == [source : Sources, seq : Nat \ {0}, payload : Payloads]
States  == {"whole", "damaged", "grown"}
Items   == [record : Records, state : States]
Key(r)  == <<r.source, r.seq>>

\* The slices retained of a record, under names made of the clock and the reason: the
\* first has the reason it was refused for, those that follow have no magic.
Slices == [record : Records, part : {"first", "following"}]

TierInit ==
    /\ lastSequence = [s \in Sources |-> 0] /\ gaps = 0
    /\ promoted = << >> /\ quarantined = {} /\ unattributed = {}
    /\ index = << >> /\ admissions = {}

\* Mutant: a repeated or overtaken number is taken again.
RecordVerdictAnySequence(item) ==
    CASE item.state = "grown"   -> "LENGTH_MISMATCH"
      [] item.state = "damaged" -> "BAD_HMAC"
      [] OTHER -> "OK"

\* parse_record, in the order of its returns.  A length field that grew asks for
\* more bytes than there are; any other damage fails the HMAC or a check before it.
RecordVerdict(item) ==
    CASE item.state = "grown"   -> "LENGTH_MISMATCH"
      [] item.state = "damaged" -> "BAD_HMAC"
      [] item.record.seq <= lastSequence[item.record.source] -> "SEQUENCE_NOT_ADVANCING"
      [] OTHER -> "OK"

\* Mutant: a tier that has heard nothing of a source counts from zero.
MissingFromZero(r) ==
    IF r.seq > lastSequence[r.source] + 1 THEN r.seq - lastSequence[r.source] - 1 ELSE 0

\* _admit: numbers missing since the last record of the source, once it had one
Missing(r) ==
    IF lastSequence[r.source] # 0 /\ r.seq > lastSequence[r.source] + 1
    THEN r.seq - lastSequence[r.source] - 1 ELSE 0

\* A file under one more name, or over the one that has it.
Written(file, k, v) == [n \in DOMAIN file \cup {k} |-> IF n = k THEN v ELSE file[n]]

\* The lines the index has of a record.
Lines(k) == IF k \in DOMAIN index THEN index[k] ELSE 0

\* Mutant: the scanner's finding is counted and the record promoted all the same.
AdmitUnscanned(r) ==
    /\ gaps' = gaps + Missing(r)
    /\ lastSequence' = [lastSequence EXCEPT ![r.source] = r.seq]
    /\ admissions' = admissions \cup {Key(r)}
    /\ promoted' = Written(promoted, Key(r), r.payload)
    /\ index' = Written(index, Key(r), Lines(Key(r)) + 1)
    /\ UNCHANGED <<quarantined, unattributed>>

\* QuarantineTier._admit: count the gap, then quarantine or promote and index
Admit(r) ==
    /\ gaps' = gaps + Missing(r)
    /\ lastSequence' = [lastSequence EXCEPT ![r.source] = r.seq]
    /\ admissions' = admissions \cup {Key(r)}
    /\ IF r.payload \in Implants
       THEN quarantined' = quarantined \cup {r} /\ UNCHANGED <<promoted, index>>
       ELSE /\ promoted' = Written(promoted, Key(r), r.payload)
            /\ index' = Written(index, Key(r), Lines(Key(r)) + 1)
            /\ UNCHANGED quarantined
    /\ UNCHANGED unattributed

\* The slices of a refused record: _reject_unparsed skips one byte after each, until
\* too few are left
SlicesOf(r) == {[record |-> r, part |-> part] : part \in {"first", "following"}}

Refused(item) == RecordVerdict(item) \notin {"OK", "LENGTH_MISMATCH"}

\* What is written over if the clock gives an instant twice: a slice like one of this
\* record's, of those that follow also one of its own.
Overwritable(item) ==
    IF Refused(item)
    THEN {s \in unattributed \cup SlicesOf(item.record) :
            s.part = "following" \/ s.record # item.record}
    ELSE {}

\* _reject_unparsed: the record is retained as it arrived, in slices as long as a header
\* and an HMAC; `lost` are the slices written over.
RejectUnparsed(item, lost) ==
    /\ unattributed' = (unattributed \cup SlicesOf(item.record)) \ lost
    /\ UNCHANGED <<lastSequence, gaps, promoted, quarantined, index, admissions>>

\* QuarantineTier.ingest, for a file that holds one record.  What may be the
\* head of a longer record is left where it is.
Ingest(item, lost) ==
    CASE RecordVerdict(item) = "OK"              -> Admit(item.record)
      [] RecordVerdict(item) = "LENGTH_MISMATCH" -> UNCHANGED tierVars
      [] OTHER                                   -> RejectUnparsed(item, lost)

\* Mutant: the tier begins by emptying its directories.
TierRestartFromNothing ==
    /\ lastSequence' = [s \in Sources |-> 0] /\ gaps' = 0 /\ admissions' = {}
    /\ promoted' = << >> /\ UNCHANGED <<quarantined, unattributed, index>>

\* A new process begins with a new tier over the same directories and the same index:
\* it has seen no number, but what it took before is still on disk.
TierRestart ==
    /\ lastSequence' = [s \in Sources |-> 0] /\ gaps' = 0 /\ admissions' = {}
    /\ UNCHANGED <<promoted, quarantined, unattributed, index>>
=============================================================================
