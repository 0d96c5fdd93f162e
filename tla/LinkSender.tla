----------------------------- MODULE LinkSender -----------------------------
(***************************************************************************)
(* tools/black_link/link.py, LinkSender: messages become fragments, and    *)
(* every tick of its own clock emits one cell, a queued fragment or cover. *)
(* A payload is abstracted to the message it was cut from.                 *)
(***************************************************************************)
EXTENDS CounterStore, Sequences, SequencesExt

CONSTANTS
  Messages,           \* the messages offered to the link, each once
  FragCount,          \* message -> the number of its fragments
  NoMessage,
  Copies,             \* copies
  MaxFragsPerMessage, \* MAX_FRAGS_PER_MESSAGE
  MaxQueued,          \* max_queued_fragments
  SeqMax              \* UINT32_MAX

VARIABLES
  queue,      \* _queue
  msgSeq,     \* _msg_seq: in memory only
  queuedMsgs, \* history: the messages ever queued
  sent        \* history, and what the network may deliver: the cells emitted

senderVars == <<queue, msgSeq, queuedMsgs, sent>>

ASSUME SenderAssumption ==
  /\ FragCount \in [Messages -> Nat \ {0}]
  /\ NoMessage \notin Messages
  /\ Copies \in Nat \ {0}
  /\ MaxFragsPerMessage \in Nat
  /\ MaxQueued \in Nat
  /\ SeqMax \in Nat

Fragments == [seq : Nat, idx : Nat, count : Nat, msg : Messages]
Cover     == [seq |-> 0, idx |-> 0, count |-> 0, msg |-> NoMessage]
Cells     == [counter : Nat, frag : Fragments \cup {Cover}]

SenderTypeOK ==
  /\ queue \in Seq(Fragments)
  /\ msgSeq \in 0 .. SeqMax
  /\ queuedMsgs \in SUBSET Messages
  /\ sent \in Seq(Cells)

SenderInit == queue = << >> /\ msgSeq = 0 /\ queuedMsgs = {} /\ sent = << >>

\* Mutant: the sequence number is read before it is incremented, so that the last
\* copy of one message and the first of the next share it.
CopyOfReusing(m, i) ==
  [seq |-> msgSeq, idx |-> i - 1, count |-> FragCount[m], msg |-> m]

\* The i-th fragment of m under the next message sequence number.
CopyOf(m, i) ==
  [seq |-> msgSeq + 1, idx |-> i - 1, count |-> FragCount[m], msg |-> m]

\* `copies` times the fragments, back to back.
FragmentsOf(m) ==
  [j \in 1 .. Copies * FragCount[m] |-> CopyOf(m, ((j - 1) % FragCount[m]) + 1)]

\* A message that does not fit is refused and leaves only a counter behind.
Enqueue(m) ==
  /\ m \in Messages \ queuedMsgs
  /\ FragCount[m] <= MaxFragsPerMessage
  /\ Len(queue) + FragCount[m] * Copies <= MaxQueued
  /\ msgSeq < SeqMax
  /\ msgSeq' = msgSeq + 1
  /\ queue' = queue \o FragmentsOf(m)
  /\ queuedMsgs' = queuedMsgs \cup {m}
  /\ UNCHANGED <<sent, counterVars>>

\* The counter of the next cell has to be reserved first.
ReserveBlock ==
  /\ Reserve
  /\ UNCHANGED senderVars

Emit(frag) == sent' = Append(sent, [counter |-> next, frag |-> frag])

TickData ==
  /\ queue # << >>
  /\ Use
  /\ Emit(Head(queue))
  /\ queue' = Tail(queue)
  /\ UNCHANGED <<msgSeq, queuedMsgs>>

TickCover ==
  /\ queue = << >>
  /\ Use
  /\ Emit(Cover)
  /\ UNCHANGED <<queue, msgSeq, queuedMsgs>>

\* The process dies and starts again: the queue is gone and the message sequence
\* begins afresh; only the counters were durable.
SenderRestart ==
  /\ CounterRestart
  /\ queue' = << >>
  /\ msgSeq' = 0
  /\ UNCHANGED <<queuedMsgs, sent>>
=============================================================================
