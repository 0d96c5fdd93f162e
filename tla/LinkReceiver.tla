---------------------------- MODULE LinkReceiver ----------------------------
(***************************************************************************)
(* tools/black_link/link.py, LinkReceiver: cells that are fresh are        *)
(* recorded and their fragments put together; complete messages come out.  *)
(* Bytes that are not a cell of this link, or whose tag does not verify,   *)
(* change nothing but drop counters and are left out.                      *)
(*                                                                         *)
(* The clock counts accepted cells and a cell opens at most one message,   *)
(* so the insertion order of _open is the order of opened_at.              *)
(***************************************************************************)
EXTENDS ReplayWindow, Sequences, FiniteSets, SequencesExt

CONSTANTS
  MaxOpen,          \* max_open_messages
  MaxOpenFrags,     \* max_open_bytes, in fragments
  MaxMessageFrags,  \* max_message_frags
  MaxCopies,        \* the 8 of _expire: the most copies a sender sends
  Slack,            \* slack_cells
  Remember          \* remember_delivered

VARIABLES
  open,       \* _open: msg_seq -> [count, openedAt, frags], frags: idx -> payload
  delivered,  \* _delivered: the last msg_seqs delivered
  clock,      \* _clock
  out,        \* history: the messages handed on, each as the set of its fragments' origins
  accepted,   \* history: the counters of the cells accepted
  reordered   \* history: some cell was accepted after a later one

receiverVars == <<open, delivered, clock, out, accepted, reordered>>

ASSUME LinkReceiverAssumption ==
  /\ {MaxOpen, MaxOpenFrags} \subseteq Nat \ {0}
  /\ {MaxMessageFrags, MaxCopies, Slack, Remember} \subseteq Nat

ReceiverTypeOK ==
  /\ DOMAIN open \subseteq Nat
  /\ \A s \in DOMAIN open :
       /\ {open[s].count, open[s].openedAt} \subseteq Nat
       /\ DOMAIN open[s].frags \subseteq 0 .. open[s].count - 1
  /\ ToSet(delivered) \subseteq Nat
  /\ Len(delivered) <= Remember
  /\ clock \in Nat
  /\ accepted \subseteq Nat
  /\ reordered \in BOOLEAN

NoneOpen == [s \in {} |-> 0]

ReceiverInit ==
  /\ open = NoneOpen
  /\ delivered = << >>
  /\ clock = 0
  /\ out = << >>
  /\ accepted = {}
  /\ reordered = FALSE

-----------------------------------------------------------------------------
Only(table, seqs) == [s \in seqs |-> table[s]]

\* Mutant: patience for one copy only.
UnexpiredOneCopy(now) ==
  {s \in DOMAIN open : now - open[s].openedAt < open[s].count + Slack}

\* _expire keeps what may still complete.
Unexpired(now) ==
  {s \in DOMAIN open : now - open[s].openedAt <= open[s].count * MaxCopies + Slack}

OpenedSince(table, s) == {r \in DOMAIN table : table[r].openedAt >= table[s].openedAt}

\* The oldest messages are abandoned until there is room for one more.
RoomForOne(table) ==
  {s \in DOMAIN table : Cardinality(OpenedSince(table, s)) < MaxOpen}

\* The fragments buffered for the messages seqs.
Held(table, seqs) == UNION {{s} \X DOMAIN table[s].frags : s \in seqs}

Buffered(table, seqs) == Cardinality(Held(table, seqs))

\* Mutant: the fragment that has just arrived is not counted.
WithinBufferBefore(table) ==
  {s \in DOMAIN table : Buffered(table, OpenedSince(table, s)) <= MaxOpenFrags + 1}

\* The oldest messages are abandoned until the buffer is within its bound.
WithinBuffer(table) ==
  {s \in DOMAIN table : Buffered(table, OpenedSince(table, s)) <= MaxOpenFrags}

\* The message f belongs to, as it stands.
PartialOf(table, f) ==
  IF f.seq \in DOMAIN table THEN table[f.seq]
  ELSE [count |-> f.count, openedAt |-> clock', frags |-> NoneOpen]

Disagrees(partial, f) ==
  \/ partial.count # f.count
  \/ f.idx \in DOMAIN partial.frags /\ partial.frags[f.idx] # f.msg

WithFragment(partial, f) ==
  [partial EXCEPT !.frags =
     [i \in DOMAIN partial.frags \cup {f.idx} |-> IF i = f.idx THEN f.msg ELSE partial.frags[i]]]

Put(table, s, partial) == [r \in DOMAIN table \cup {s} |-> IF r = s THEN partial ELSE table[r]]

\* Mutant: what was delivered is not remembered.
RememberNothing(s) == << >>

\* Mutant: a list where the code has a deque with a maximal length.
RememberAll(s) == Append(delivered, s)

\* The deque of the last Remember sequence numbers.
RememberDelivered(s) ==
  LET all == Append(delivered, s)
  IN  IF Len(all) > Remember THEN Tail(all) ELSE all

-----------------------------------------------------------------------------
\* _reassemble, once the fragment belongs to a message not delivered already and
\* `table` holds the messages still open.
Reassemble(table, f) ==
  LET room    == IF f.seq \in DOMAIN table THEN table ELSE Only(table, RoomForOne(table))
      partial == PartialOf(room, f)
      filled  == Put(room, f.seq, WithFragment(partial, f))
      kept    == Only(filled, WithinBuffer(filled))
      whole   == /\ f.seq \in DOMAIN kept
                 /\ Cardinality(DOMAIN kept[f.seq].frags) = kept[f.seq].count
  IN  \/ /\ Disagrees(partial, f)
         /\ open' = Only(room, DOMAIN room \ {f.seq})
         /\ UNCHANGED <<delivered, out>>
      \/ /\ ~Disagrees(partial, f) /\ ~whole
         /\ open' = kept
         /\ UNCHANGED <<delivered, out>>
      \/ /\ ~Disagrees(partial, f) /\ whole
         /\ open' = Only(kept, DOMAIN kept \ {f.seq})
         /\ delivered' = RememberDelivered(f.seq)
         /\ out' = Append(out, {kept[f.seq].frags[i] : i \in DOMAIN kept[f.seq].frags})

\* feed() for a cell of this link whose tag verifies.  A cell that is not fresh is
\* dropped and changes nothing.
Feed(cell) ==
  LET f == cell.frag
      survivors == Only(open, Unexpired(clock + 1))
  IN  /\ Record(cell.counter)
      /\ clock' = clock + 1
      /\ accepted' = accepted \cup {cell.counter}
      /\ reordered' = (reordered \/ cell.counter < highest)
      /\ IF f.count = 0 \/ f.seq \in ToSet(delivered) \/ f.count > MaxMessageFrags
         THEN open' = survivors /\ UNCHANGED <<delivered, out>>
         ELSE Reassemble(survivors, f)

-----------------------------------------------------------------------------
\* What was accepted once is never fresh again, however far the window has moved
\* and whatever jumps and reorderings moved it: the one thing the bitmap is for.
AcceptedStayStale == \A c \in accepted : ~Fresh(c)

\* The reassembly buffer keeps its bounds, in messages and in fragments, and never
\* holds a message already handed on.
BufferIsBounded ==
  /\ Cardinality(DOMAIN open) <= MaxOpen
  /\ Buffered(open, DOMAIN open) <= MaxOpenFrags
  /\ DOMAIN open \cap ToSet(delivered) = {}
=============================================================================
