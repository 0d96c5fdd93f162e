-------------------------- MODULE BlackLinkProofs --------------------------
(***************************************************************************)
(* Theorems about the black link, for every block size, window width,      *)
(* message set and number of restarts.                                     *)
(***************************************************************************)
EXTENDS BlackLink, SequenceTheorems, FiniteSetTheorems, WellFoundedInduction, TLAPS

\* The fragments of a message are fragments.
LEMMA FragmentsType ==
  ASSUME NEW m \in Messages, msgSeq \in Nat
  PROVE  FragmentsOf(m) \in Seq(Fragments)
<1>1. FragCount[m] \in Nat \ {0} /\ Copies \in Nat \ {0}
  BY SenderAssumption
<1>2. Copies * FragCount[m] \in Nat
  BY <1>1
<1>3. ASSUME NEW j \in 1 .. Copies * FragCount[m]
      PROVE  CopyOf(m, ((j - 1) % FragCount[m]) + 1) \in Fragments
  <2>1. j - 1 \in Nat
    BY <1>2, <1>3
  <2>2. (j - 1) % FragCount[m] \in Nat
    BY <1>1, <2>1
  <2> DEFINE r == (j - 1) % FragCount[m]
  <2>3. (r + 1) - 1 \in Nat
    <3> HIDE DEF r
    <3>1. r \in Nat
      BY <2>2 DEF r
    <3> QED
      BY <3>1
  <2> QED
    BY <1>1, <2>3 DEF CopyOf, Fragments
<1> QED
  BY <1>2, <1>3 DEF FragmentsOf

\* What the sending end owns keeps its types.
SendingTypeOK == CounterTypeOK /\ SenderTypeOK

\* Every step of the link does.
LEMMA SendingTypeNext == SendingTypeOK /\ [Next]_vars => SendingTypeOK'
<1> SUFFICES ASSUME SendingTypeOK, [Next]_vars PROVE SendingTypeOK'
  OBVIOUS
<1> USE DEF SendingTypeOK, CounterTypeOK, SenderTypeOK
<1>1. ASSUME NEW m \in Messages, Enqueue(m) PROVE SendingTypeOK'
  <2>1. FragmentsOf(m) \in Seq(Fragments)
    BY FragmentsType
  <2>2. queue' \in Seq(Fragments)
    BY <1>1, <2>1, ConcatProperties DEF Enqueue
  <2>3. msgSeq' \in 0 .. SeqMax
    BY <1>1, SenderAssumption DEF Enqueue
  <2> QED
    BY <1>1, <2>2, <2>3 DEF Enqueue, counterVars
<1>2. CASE ReserveBlock
  BY <1>2, CounterAssumption DEF ReserveBlock, Reserve, senderVars
<1>3. CASE TickData
  <2>1. Head(queue) \in Fragments /\ Tail(queue) \in Seq(Fragments)
    BY <1>3, HeadTailProperties DEF TickData
  <2>2. [counter |-> next, frag |-> Head(queue)] \in Cells
    BY <2>1 DEF Cells
  <2> QED
    BY <1>3, <2>1, <2>2 DEF TickData, Use, Emit
<1>4. CASE TickCover
  <2>1. [counter |-> next, frag |-> Cover] \in Cells
    BY DEF Cells
  <2> QED
    BY <1>4, <2>1 DEF TickCover, Use, Emit
<1>5. CASE Restart
  BY <1>5, SenderAssumption DEF Restart, SenderRestart, CounterRestart
<1>6. CASE UNCHANGED <<counterVars, senderVars>>
  BY <1>6 DEF counterVars, senderVars
<1> QED
  BY <1>1, <1>2, <1>3, <1>4, <1>5, <1>6 DEF Next, Sender, vars

\* The sending end keeps its types, over restarts too.
LEMMA SendingTypes == Spec => []SendingTypeOK
<1>1. Init => SendingTypeOK
  BY SenderAssumption
  DEF Init, CounterInit, SenderInit, SendingTypeOK, CounterTypeOK, SenderTypeOK
<1>2. SendingTypeOK /\ [Next]_vars => SendingTypeOK'
  BY SendingTypeNext
<1> QED
  BY <1>1, <1>2, PTL DEF Spec

-----------------------------------------------------------------------------
\* Nonces.  NoncesAreFresh is not inductive: a restart resumes from the file, so
\* every counter used must lie below what the file says as well as below _next, and
\* nothing may be usable that the file does not cover.
CountersAhead ==
  /\ \A i \in DOMAIN sent : sent[i].counter < next /\ sent[i].counter < reservation
  /\ next < reservedTo => reservedTo <= reservation

NonceInv == SendingTypeOK /\ CountersAhead /\ NoncesAreFresh

\* Sealing a cell under the next counter.
LEMMA UseKeepsFresh ==
  ASSUME NonceInv, Use, NEW frag, Emit(frag), sent' \in Seq(Cells)
  PROVE  CountersAhead' /\ NoncesAreFresh'
<1>1. /\ next \in Nat /\ reservation \in Nat /\ reservedTo \in Nat
      /\ sent \in Seq(Cells)
      /\ next < reservedTo /\ reservedTo <= reservation
      /\ next' = next + 1 /\ reservation' = reservation /\ reservedTo' = reservedTo
  BY DEF NonceInv, SendingTypeOK, CounterTypeOK, SenderTypeOK, Use, CountersAhead
<1>2. \A i \in DOMAIN sent : sent[i].counter \in Nat
  <2> TAKE i \in DOMAIN sent
  <2>1. sent[i] \in Cells
    BY <1>1
  <2> QED
    BY <2>1 DEF Cells
<1>3. /\ DOMAIN sent = 1 .. Len(sent)
      /\ DOMAIN sent' = 1 .. Len(sent) + 1
      /\ \A i \in DOMAIN sent : sent'[i] = sent[i]
      /\ sent'[Len(sent) + 1].counter = next
      /\ Len(sent) \in Nat
  BY <1>1 DEF Emit
<1>4. \A i \in DOMAIN sent : sent[i].counter < next /\ sent[i].counter < reservation
  BY DEF NonceInv, CountersAhead
<1>5. CountersAhead'
  BY <1>1, <1>2, <1>3, <1>4 DEF CountersAhead
<1>6. NoncesAreFresh'
  <2> SUFFICES ASSUME NEW i \in DOMAIN sent', NEW j \in DOMAIN sent',
                      sent'[i].counter = sent'[j].counter
               PROVE  i = j
    BY DEF NoncesAreFresh
  <2>1. CASE i \in DOMAIN sent /\ j \in DOMAIN sent
    BY <1>3, <2>1 DEF NonceInv, NoncesAreFresh
  <2>2. CASE i = Len(sent) + 1 \/ j = Len(sent) + 1
    BY <1>1, <1>2, <1>3, <1>4, <2>2
  <2> QED
    BY <1>3, <2>1, <2>2
<1> QED
  BY <1>5, <1>6

\* Every step, a restart among them, stays ahead of the counters used.
LEMMA NonceNext == NonceInv /\ [Next]_vars => NonceInv'
<1> SUFFICES ASSUME NonceInv, [Next]_vars PROVE CountersAhead' /\ NoncesAreFresh'
  BY SendingTypeNext DEF NonceInv
<1>1. SendingTypeOK /\ SendingTypeOK' /\ CountersAhead /\ NoncesAreFresh
  BY SendingTypeNext DEF NonceInv
<1>2. sent' \in Seq(Cells)
  BY <1>1 DEF SendingTypeOK, SenderTypeOK
<1>3. \A i \in DOMAIN sent : sent[i].counter \in Nat
  <2> TAKE i \in DOMAIN sent
  <2>1. sent[i] \in Cells
    BY <1>1 DEF SendingTypeOK, SenderTypeOK
  <2> QED
    BY <2>1 DEF Cells
<1>4. CASE TickData \/ TickCover
  BY <1>2, <1>4, UseKeepsFresh DEF TickData, TickCover
<1>5. CASE ReserveBlock
  BY <1>1, <1>3, <1>5, CounterAssumption
  DEF ReserveBlock, Reserve, senderVars, CountersAhead, NoncesAreFresh, SendingTypeOK, CounterTypeOK
<1>6. CASE Restart
  BY <1>1, <1>6 DEF Restart, SenderRestart, CounterRestart, CountersAhead, NoncesAreFresh,
       SendingTypeOK, CounterTypeOK
<1>7. ASSUME UNCHANGED <<counterVars, sent>> PROVE CountersAhead' /\ NoncesAreFresh'
  BY <1>1, <1>7 DEF counterVars, CountersAhead, NoncesAreFresh
<1>8. ASSUME NEW m \in Messages, Enqueue(m) PROVE UNCHANGED <<counterVars, sent>>
  BY <1>8 DEF Enqueue
<1>9. ASSUME (Arrive /\ UNCHANGED <<counterVars, senderVars, restarts>>) \/ UNCHANGED vars
      PROVE  UNCHANGED <<counterVars, sent>>
  BY <1>9 DEF vars, senderVars
<1> QED
  BY <1>4, <1>5, <1>6, <1>7, <1>8, <1>9 DEF Next, Sender

\* The counters used stay below the next one and below the file.
LEMMA NonceInvariant == Spec => []NonceInv
<1>1. Init => CountersAhead /\ NoncesAreFresh
  <2> SUFFICES ASSUME Init PROVE CountersAhead /\ NoncesAreFresh
    OBVIOUS
  <2>1. sent = << >> /\ next = 1 /\ reservedTo = 1
    BY DEF Init, CounterInit, SenderInit
  <2> QED
    BY <2>1 DEF CountersAhead, NoncesAreFresh
<1>2. NonceInv /\ [Next]_vars => NonceInv'
  BY NonceNext
<1>3. NonceInv <=> SendingTypeOK /\ CountersAhead /\ NoncesAreFresh
  BY DEF NonceInv
<1> QED
  BY <1>1, <1>2, <1>3, SendingTypes, PTL DEF Spec

\* No two cells are ever sealed under one nonce, whatever the block size and however
\* often and wherever the sending end restarts.
THEOREM NoNonceRepeats == Spec => []NoncesAreFresh
<1>1. NonceInv => NoncesAreFresh
  BY DEF NonceInv
<1> QED
  BY <1>1, NonceInvariant, PTL

-----------------------------------------------------------------------------
\* Replay.  AcceptedStayStale becomes inductive with what it means for the bitmap:
\* every accepted counter has either left the window below or has its bit set.
WindowRemembers ==
  /\ highest \in Nat
  /\ accepted \subseteq Nat
  /\ \A c \in accepted : c <= highest /\ (highest - c < Width => c \in seen)

\* What a higher window still covers, a lower one did.
LEMMA WindowRises ==
  ASSUME NEW low \in Nat, NEW high \in Nat, low <= high, NEW c \in Nat, NEW w \in Nat
  PROVE  high - c < w => low - c < w
  OBVIOUS

\* Recording a counter forgets only what the window has left below.
LEMMA RecordRemembers ==
  ASSUME WindowRemembers, NEW counter \in Nat, Record(counter),
         accepted' = accepted \cup {counter}
  PROVE  WindowRemembers'
<1>1. /\ highest \in Nat /\ Width \in Nat
      /\ \A c \in accepted : c \in Nat /\ c <= highest /\ (highest - c < Width => c \in seen)
  BY WidthAssumption DEF WindowRemembers
<1>2. /\ highest' = IF counter > highest THEN counter ELSE highest
      /\ seen' = {c \in seen : highest' - c < Width} \cup {counter}
  BY DEF Record
<1>3. highest' \in Nat /\ highest' >= highest /\ highest' >= counter
  BY <1>1, <1>2
<1>4. accepted' \subseteq Nat
  BY <1>1
<1>5. ASSUME NEW c \in accepted'
      PROVE  c <= highest' /\ (highest' - c < Width => c \in seen')
  <2>1. CASE c = counter
    BY <1>2, <1>3, <2>1
  <2>2. CASE c \in accepted
    <3>1. c \in Nat /\ c <= highest /\ (highest - c < Width => c \in seen)
      BY <1>1, <2>2
    <3>2. highest \in Nat /\ highest' \in Nat /\ highest <= highest' /\ Width \in Nat
      BY <1>1, <1>3
    <3>3. highest' - c < Width => highest - c < Width
      BY <3>1, <3>2, WindowRises
    <3> QED
      BY <1>2, <3>1, <3>2, <3>3
  <2> QED
    BY <1>5, <2>1, <2>2
<1> QED
  BY <1>3, <1>4, <1>5 DEF WindowRemembers

\* No other step touches the window.
LEMMA WindowNext == SendingTypeOK /\ WindowRemembers /\ [Next]_vars => WindowRemembers'
<1> SUFFICES ASSUME SendingTypeOK, WindowRemembers, [Next]_vars PROVE WindowRemembers'
  OBVIOUS
<1>1. CASE Arrive
  <2>1. PICK i \in DOMAIN sent : Feed(sent[i])
    BY <1>1 DEF Arrive
  <2>2. sent[i] \in Cells
    BY DEF SendingTypeOK, SenderTypeOK
  <2>3. sent[i].counter \in Nat
    BY <2>2 DEF Cells
  <2>4. Record(sent[i].counter) /\ accepted' = accepted \cup {sent[i].counter}
    BY <2>1 DEF Feed
  <2> QED
    BY <2>3, <2>4, RecordRemembers
<1>2. CASE UNCHANGED <<windowVars, receiverVars>>
  BY <1>2 DEF windowVars, receiverVars, WindowRemembers
<1> QED
  BY <1>1, <1>2 DEF Next, vars

\* No counter is accepted twice: a duplicate or a replay of an accepted cell is stale
\* whatever the window's width and whatever jumps and reorderings came between.
THEOREM NoCellTwice == Spec => []AcceptedStayStale
<1>1. Init => WindowRemembers
  BY DEF Init, WindowInit, ReceiverInit, WindowRemembers
<1>2. SendingTypeOK /\ WindowRemembers /\ [Next]_vars => WindowRemembers'
  BY WindowNext
<1>3. WindowRemembers => AcceptedStayStale
  BY DEF WindowRemembers, AcceptedStayStale, Fresh
<1> QED
  BY <1>1, <1>2, <1>3, SendingTypes, PTL DEF Spec

-----------------------------------------------------------------------------
(***************************************************************************)
(* What circulates: the fragments queued and the fragments emitted.        *)
(***************************************************************************)

Circulating == {queue[i] : i \in DOMAIN queue} \cup {sent[i].frag : i \in DOMAIN sent}

\* A fragment is one of those its message was cut into.
CutFrom(f) ==
  /\ f.msg \in queuedMsgs
  /\ f.count = FragCount[f.msg]
  /\ f.idx < f.count

FragmentsWhole == \A f \in Circulating : f = Cover \/ (f \in Fragments /\ CutFrom(f))

\* What FragmentsOf cuts a message into.
LEMMA FragmentsCut ==
  ASSUME NEW m \in Messages, msgSeq \in Nat, NEW j \in DOMAIN FragmentsOf(m)
  PROVE  /\ FragmentsOf(m)[j] \in Fragments
         /\ FragmentsOf(m)[j].seq = msgSeq + 1
         /\ FragmentsOf(m)[j].msg = m
         /\ FragmentsOf(m)[j].count = FragCount[m]
         /\ FragmentsOf(m)[j].idx < FragCount[m]
<1>1. FragCount[m] \in Nat \ {0} /\ Copies \in Nat \ {0}
  BY SenderAssumption
<1> DEFINE r == (j - 1) % FragCount[m]
<1>2. Copies * FragCount[m] \in Nat
  BY <1>1
<1>3. j \in 1 .. Copies * FragCount[m]
  BY DEF FragmentsOf
<1>4. j - 1 \in Nat
  BY <1>2, <1>3
<1>5. r \in 0 .. FragCount[m] - 1
  BY <1>1, <1>4
<1>6. FragmentsOf(m)[j] = CopyOf(m, r + 1)
  BY <1>3 DEF FragmentsOf
<1> HIDE DEF r
<1>7. (r + 1) - 1 = r /\ r \in Nat /\ r < FragCount[m]
  BY <1>1, <1>5
<1> QED
  BY <1>1, <1>6, <1>7 DEF CopyOf, Fragments

\* A step puts into circulation cover, or the fragments of the message it enqueues.
LEMMA CirculatingNext ==
  ASSUME SendingTypeOK, [Next]_vars, NEW f \in Circulating'
  PROVE  \/ f \in Circulating
         \/ f = Cover
         \/ \E m \in Messages : /\ Enqueue(m)
                                /\ \E j \in DOMAIN FragmentsOf(m) : f = FragmentsOf(m)[j]
<1>1. queue \in Seq(Fragments) /\ sent \in Seq(Cells) /\ msgSeq \in Nat
  BY SenderAssumption DEF SendingTypeOK, SenderTypeOK
<1>2. ASSUME NEW m \in Messages, Enqueue(m)
      PROVE  f \in Circulating \/ \E j \in DOMAIN FragmentsOf(m) : f = FragmentsOf(m)[j]
  <2> DEFINE more == FragmentsOf(m)
  <2>1. more \in Seq(Fragments)
    BY <1>1, FragmentsType
  <2>2. queue' = queue \o more /\ sent' = sent
    BY <1>2 DEF Enqueue
  <2> HIDE DEF more
  <2>3. /\ \A i \in 1 .. Len(queue) + Len(more) :
              (queue \o more)[i] = IF i <= Len(queue) THEN queue[i] ELSE more[i - Len(queue)]
        /\ Len(queue \o more) = Len(queue) + Len(more)
        /\ queue \o more \in Seq(Fragments)
    BY <1>1, <2>1, ConcatProperties
  <2>4. CASE \E i \in DOMAIN queue' : f = queue'[i]
    <3>1. PICK i \in DOMAIN queue' : f = queue'[i]
      BY <2>4
    <3>2. i \in 1 .. Len(queue) + Len(more)
      BY <2>2, <2>3, <3>1
    <3>3. CASE i <= Len(queue)
      BY <1>1, <2>2, <2>3, <3>1, <3>2, <3>3 DEF Circulating
    <3>4. CASE ~(i <= Len(queue))
      <4>1. i - Len(queue) \in DOMAIN more /\ f = more[i - Len(queue)]
        BY <1>1, <2>1, <2>2, <2>3, <3>1, <3>2, <3>4
      <4> QED
        BY <4>1 DEF more
    <3> QED
      BY <3>3, <3>4
  <2> QED
    BY <2>2, <2>4 DEF Circulating
<1>3. CASE TickData
  <2>1. queue # << >> /\ queue' = Tail(queue) /\ sent' = Append(sent, [counter |-> next, frag |-> Head(queue)])
    BY <1>3 DEF TickData, Emit
  <2>2. ASSUME NEW i \in DOMAIN queue' PROVE i + 1 \in DOMAIN queue /\ queue'[i] = queue[i + 1]
    BY <1>1, <2>1, <2>2, HeadTailProperties
  <2>3. Head(queue) = queue[1] /\ 1 \in DOMAIN queue
    BY <1>1, <2>1
  <2>4. ASSUME NEW i \in DOMAIN sent' PROVE sent'[i].frag \in Circulating
    BY <1>1, <2>1, <2>3, <2>4 DEF Circulating
  <2> QED
    BY <2>2, <2>4 DEF Circulating
<1>4. CASE TickCover
  <2>1. queue' = queue /\ sent' = Append(sent, [counter |-> next, frag |-> Cover])
    BY <1>4 DEF TickCover, Emit
  <2>2. ASSUME NEW i \in DOMAIN sent' PROVE sent'[i].frag = Cover \/ sent'[i].frag \in Circulating
    BY <1>1, <2>1, <2>2 DEF Circulating
  <2> QED
    BY <2>1, <2>2 DEF Circulating
<1>5. CASE Restart
  BY <1>5 DEF Restart, SenderRestart, Circulating
<1>6. ASSUME UNCHANGED senderVars PROVE f \in Circulating
  BY <1>6 DEF senderVars, Circulating
<1>7. ReserveBlock => UNCHANGED senderVars
  BY DEF ReserveBlock
<1> QED
  BY <1>2, <1>3, <1>4, <1>5, <1>6, <1>7 DEF Next, Sender, vars

\* Whatever circulates stays whole, over restarts too.
LEMMA FragmentsWholeInvariant == Spec => [](SendingTypeOK /\ FragmentsWhole)
<1>1. Init => FragmentsWhole
  <2> SUFFICES ASSUME Init PROVE FragmentsWhole
    OBVIOUS
  <2>1. queue = << >> /\ sent = << >>
    BY DEF Init, SenderInit
  <2> QED
    BY <2>1 DEF FragmentsWhole, Circulating
<1>2. SendingTypeOK /\ FragmentsWhole /\ [Next]_vars => FragmentsWhole'
  <2> SUFFICES ASSUME SendingTypeOK, FragmentsWhole, [Next]_vars, NEW f \in Circulating', f # Cover
               PROVE  f \in Fragments /\ CutFrom(f)'
    BY DEF FragmentsWhole
  <2>1. msgSeq \in Nat
    BY SenderAssumption DEF SendingTypeOK, SenderTypeOK
  <2>2. queuedMsgs \subseteq queuedMsgs'
    BY DEF Next, Sender, Enqueue, ReserveBlock, TickData, TickCover, Restart, SenderRestart,
           vars, senderVars
  <2>3. CASE f \in Circulating
    BY <2>2, <2>3 DEF FragmentsWhole, CutFrom
  <2>4. ASSUME NEW m \in Messages, Enqueue(m), NEW j \in DOMAIN FragmentsOf(m), f = FragmentsOf(m)[j]
        PROVE  f \in Fragments /\ CutFrom(f)'
    BY <2>1, <2>4, FragmentsCut DEF Enqueue, CutFrom
  <2> QED
    BY <2>3, <2>4, CirculatingNext
<1> QED
  BY <1>1, <1>2, SendingTypes, PTL DEF Spec

-----------------------------------------------------------------------------
(***************************************************************************)
(* The reassembly buffer.                                                  *)
(***************************************************************************)

\* Some one of any naturals is least.
LEMMA LeastExists ==
  ASSUME NEW T, T \subseteq Nat, T # {}
  PROVE  \E x \in T : \A y \in T : x <= y
<1> DEFINE R == OpToRel(<, Nat)
<1>1. IsWellFoundedOn(R, Nat)
  BY NatLessThanWellFounded
<1>2. \A x, y \in Nat : y < x => <<y, x>> \in R
  BY DEF OpToRel
<1> HIDE DEF R
<1>3. PICK x \in T : \A y \in T : ~(<<y, x>> \in R)
  BY <1>1, WFMin
<1>4. \A y \in T : ~(y < x)
  BY <1>2, <1>3
<1>5. \A y \in Nat : x \in Nat /\ ~(y < x) => x <= y
  OBVIOUS
<1> QED
  BY <1>4, <1>5

\* A function with a finite domain has a finite range.
LEMMA ImageFinite ==
  ASSUME NEW S, IsFiniteSet(S), NEW f
  PROVE  IsFiniteSet({f[x] : x \in S})
<1> DEFINE g == [x \in S |-> f[x]]
           T == {f[x] : x \in S}
<1>1. g \in Surjection(S, T)
  BY DEF Surjection
<1> QED
  BY <1>1, FS_Surjection

\* What _open may be.
Payloads == UNION {[I -> Messages] : I \in SUBSET Nat}
Partials == [count : Nat, openedAt : Nat, frags : Payloads]

IsTable(table) ==
  /\ DOMAIN table \subseteq Nat
  /\ IsFiniteSet(DOMAIN table)
  /\ \A s \in DOMAIN table :
       /\ table[s] \in Partials
       /\ DOMAIN table[s].frags \subseteq 0 .. table[s].count - 1

\* Abandoning leaves a table.
LEMMA OnlyIsTable ==
  ASSUME NEW table, IsTable(table), NEW seqs \in SUBSET DOMAIN table
  PROVE  IsTable(Only(table, seqs)) /\ DOMAIN Only(table, seqs) = seqs
<1>1. IsFiniteSet(seqs)
  BY FS_Subset DEF IsTable
<1> QED
  BY <1>1 DEF IsTable, Only

\* The buffered fragments are finitely many, and abandoning only makes them fewer.
LEMMA HeldMonotone ==
  ASSUME NEW table, IsTable(table), NEW all \in SUBSET DOMAIN table, NEW some \in SUBSET all
  PROVE  /\ Buffered(table, all) \in Nat
         /\ Buffered(table, some) \in Nat
         /\ Buffered(table, some) <= Buffered(table, all)
<1> DEFINE f == [s \in all |-> {s} \X DOMAIN table[s].frags]
           parts == {f[s] : s \in all}
<1>1. IsFiniteSet(all)
  BY FS_Subset DEF IsTable
<1>2. IsFiniteSet(parts)
  <2> HIDE DEF f
  <2> QED
    BY <1>1, ImageFinite
<1>3. ASSUME NEW s \in all PROVE IsFiniteSet(f[s])
  <2>1. table[s].count \in Nat /\ DOMAIN table[s].frags \subseteq 0 .. table[s].count - 1
    BY DEF IsTable, Partials
  <2>2. IsFiniteSet(0 .. table[s].count - 1)
    BY <2>1, FS_Interval
  <2>3. IsFiniteSet(DOMAIN table[s].frags)
    BY <2>1, <2>2, FS_Subset
  <2>4. IsFiniteSet({s})
    BY FS_Singleton
  <2> QED
    BY <2>3, <2>4, FS_Product
<1>4. \A T \in parts : IsFiniteSet(T)
  BY <1>3
<1>5. Held(table, all) = UNION parts
  BY DEF Held
<1>6. IsFiniteSet(Held(table, all))
  <2> HIDE DEF parts
  <2> QED
    BY <1>2, <1>4, <1>5, FS_UNION
<1>7. Held(table, some) \subseteq Held(table, all)
  BY DEF Held
<1>8. IsFiniteSet(Held(table, some)) /\ Cardinality(Held(table, some)) <= Cardinality(Held(table, all))
  BY <1>6, <1>7, FS_Subset
<1> QED
  BY <1>6, <1>8, FS_CardinalityType DEF Buffered

\* Of any messages open, some one was opened no later than all the others.
LEMMA OldestExists ==
  ASSUME NEW table, IsTable(table), NEW seqs \in SUBSET DOMAIN table, seqs # {}
  PROVE  \E s \in seqs : seqs \subseteq OpenedSince(table, s)
<1> DEFINE T == {table[s].openedAt : s \in seqs}
<1>1. T \subseteq Nat /\ T # {}
  BY DEF IsTable, Partials
<1>2. PICK x \in T : \A y \in T : x <= y
  <2> HIDE DEF T
  <2> QED
    BY <1>1, LeastExists
<1>3. PICK s \in seqs : x = table[s].openedAt
  OBVIOUS
<1>4. \A r \in seqs : table[r].openedAt \in Nat /\ x <= table[r].openedAt
  BY <1>1, <1>2
<1>5. x \in Nat
  BY <1>1
<1> QED
  BY <1>3, <1>4, <1>5 DEF OpenedSince

\* Abandoning the oldest makes room for one message more.
LEMMA RoomForOneFits ==
  ASSUME NEW table, IsTable(table)
  PROVE  Cardinality(RoomForOne(table)) < MaxOpen
<1> DEFINE kept == RoomForOne(table)
<1>1. kept \subseteq DOMAIN table
  BY DEF RoomForOne
<1>2. CASE kept = {}
  <2>1. Cardinality(kept) = 0 /\ 0 < MaxOpen
    BY <1>2, FS_EmptySet, LinkReceiverAssumption
  <2> QED
    BY <2>1
<1>3. CASE kept # {}
  <2>1. PICK s \in kept : kept \subseteq OpenedSince(table, s)
    <3> HIDE DEF kept
    <3> QED
      BY <1>1, <1>3, OldestExists
  <2>2. Cardinality(OpenedSince(table, s)) < MaxOpen
    BY DEF RoomForOne
  <2>3. OpenedSince(table, s) \subseteq DOMAIN table /\ IsFiniteSet(DOMAIN table)
    BY DEF OpenedSince, IsTable
  <2>4. IsFiniteSet(OpenedSince(table, s))
    BY <2>3, FS_Subset
  <2>5. Cardinality(kept) <= Cardinality(OpenedSince(table, s)) /\ IsFiniteSet(kept)
    BY <2>1, <2>4, FS_Subset
  <2> QED
    BY <2>2, <2>4, <2>5, FS_CardinalityType, LinkReceiverAssumption
<1> QED
  BY <1>2, <1>3

\* Abandoning the oldest brings the buffer within its bound.
LEMMA WithinBufferFits ==
  ASSUME NEW table, IsTable(table)
  PROVE  Buffered(table, WithinBuffer(table)) <= MaxOpenFrags
<1> DEFINE kept == WithinBuffer(table)
<1>1. kept \subseteq DOMAIN table
  BY DEF WithinBuffer
<1>2. CASE kept = {}
  <2>1. Held(table, kept) = {}
    BY <1>2 DEF Held
  <2>2. Buffered(table, kept) = 0 /\ 0 <= MaxOpenFrags
    BY <2>1, FS_EmptySet, LinkReceiverAssumption DEF Buffered
  <2> QED
    BY <2>2
<1>3. CASE kept # {}
  <2>1. PICK s \in kept : kept \subseteq OpenedSince(table, s)
    <3> HIDE DEF kept
    <3> QED
      BY <1>1, <1>3, OldestExists
  <2>2. Buffered(table, OpenedSince(table, s)) <= MaxOpenFrags
    BY DEF WithinBuffer
  <2>3. OpenedSince(table, s) \subseteq DOMAIN table
    BY DEF OpenedSince
  <2>4. /\ Buffered(table, kept) <= Buffered(table, OpenedSince(table, s))
        /\ {Buffered(table, kept), Buffered(table, OpenedSince(table, s))} \subseteq Nat
    <3> HIDE DEF kept
    <3> QED
      BY <2>1, <2>3, HeldMonotone
  <2> QED
    BY <2>2, <2>4, LinkReceiverAssumption
<1> QED
  BY <1>2, <1>3

\* What the deque of delivered sequence numbers becomes.
LEMMA RememberedSet ==
  ASSUME delivered \in Seq(Nat), Len(delivered) <= Remember, NEW s \in Nat
  PROVE  /\ RememberDelivered(s) \in Seq(Nat)
         /\ Len(RememberDelivered(s)) <= Remember
         /\ ToSet(RememberDelivered(s)) \subseteq ToSet(delivered) \cup {s}
<1> DEFINE all == Append(delivered, s)
<1>1. /\ all \in Seq(Nat) /\ all # << >>
      /\ Len(all) = Len(delivered) + 1
      /\ \A i \in 1 .. Len(all) : all[i] \in ToSet(delivered) \cup {s}
  BY DEF ToSet
<1>2. RememberDelivered(s) = IF Len(all) > Remember THEN Tail(all) ELSE all
  BY DEF RememberDelivered
<1> HIDE DEF all
<1>3. /\ Tail(all) \in Seq(Nat)
      /\ Len(Tail(all)) = Len(all) - 1
      /\ \A i \in 1 .. Len(Tail(all)) : Tail(all)[i] = all[i + 1]
  BY <1>1, HeadTailProperties
<1>4. Len(delivered) \in Nat /\ Remember \in Nat
  BY LinkReceiverAssumption
<1>5. CASE Len(all) > Remember
  <2>1. RememberDelivered(s) = Tail(all)
    BY <1>2, <1>5
  <2>2. Len(Tail(all)) <= Remember
    BY <1>1, <1>3, <1>4
  <2>3. ASSUME NEW i \in DOMAIN Tail(all) PROVE Tail(all)[i] \in ToSet(delivered) \cup {s}
    <3>1. i \in 1 .. Len(Tail(all)) /\ i + 1 \in 1 .. Len(all)
      BY <1>1, <1>3, <1>4, <2>3
    <3> QED
      BY <1>1, <1>3, <3>1
  <2> QED
    BY <1>3, <2>1, <2>2, <2>3 DEF ToSet
<1>6. CASE ~(Len(all) > Remember)
  <2>1. RememberDelivered(s) = all /\ DOMAIN all = 1 .. Len(all)
    BY <1>1, <1>2, <1>6
  <2>2. Len(all) <= Remember
    BY <1>1, <1>4, <1>6
  <2> QED
    BY <1>1, <2>1, <2>2 DEF ToSet
<1> QED
  BY <1>5, <1>6

\* What makes the bounds of the buffer and its types inductive.
Bounded(table) ==
  /\ IsTable(table)
  /\ Cardinality(DOMAIN table) <= MaxOpen
  /\ Buffered(table, DOMAIN table) <= MaxOpenFrags
  /\ DOMAIN table \cap ToSet(delivered) = {}

ReceiverInv ==
  /\ ReceiverTypeOK
  /\ delivered \in Seq(Nat)
  /\ Bounded(open)

\* Abandoning keeps the bounds.
LEMMA OnlyIsBounded ==
  ASSUME NEW table, Bounded(table), NEW seqs \in SUBSET DOMAIN table
  PROVE  Bounded(Only(table, seqs))
<1> DEFINE less == Only(table, seqs)
<1>1. IsTable(table) /\ IsTable(less) /\ DOMAIN less = seqs
  BY OnlyIsTable DEF Bounded
<1>2. Held(less, seqs) = Held(table, seqs)
  BY DEF Held, Only
<1>3. /\ Buffered(table, seqs) <= Buffered(table, DOMAIN table)
      /\ {Buffered(table, seqs), Buffered(table, DOMAIN table)} \subseteq Nat
  BY <1>1, HeldMonotone
<1>4. Cardinality(seqs) <= Cardinality(DOMAIN table) /\ IsFiniteSet(seqs) /\ IsFiniteSet(DOMAIN table)
  BY <1>1, FS_Subset DEF IsTable
<1>5. Cardinality(seqs) <= MaxOpen
  BY <1>4, FS_CardinalityType, LinkReceiverAssumption DEF Bounded
<1>6. Buffered(less, DOMAIN less) <= MaxOpenFrags
  BY <1>1, <1>2, <1>3, LinkReceiverAssumption DEF Bounded, Buffered
<1>7. DOMAIN less \cap ToSet(delivered) = {}
  BY <1>1 DEF Bounded
<1> QED
  BY <1>1, <1>5, <1>6, <1>7 DEF Bounded

\* What reassembly puts into the buffer: a message's fragment beside those it has.
LEMMA FilledIsTable ==
  ASSUME NEW room, IsTable(room), NEW f \in Fragments, f.idx < f.count, clock' \in Nat,
         ~Disagrees(PartialOf(room, f), f)
  PROVE  IsTable(Put(room, f.seq, WithFragment(PartialOf(room, f), f)))
<1> DEFINE partial == PartialOf(room, f)
           more    == WithFragment(partial, f)
<1>1. f.seq \in Nat /\ f.idx \in Nat /\ f.count \in Nat /\ f.msg \in Messages
  BY DEF Fragments
<1>2. partial \in Partials /\ DOMAIN partial.frags \subseteq 0 .. partial.count - 1
  <2>1. NoneOpen \in [{} -> Messages] /\ DOMAIN NoneOpen = {}
    BY DEF NoneOpen
  <2>2. NoneOpen \in Payloads
    BY <2>1 DEF Payloads
  <2> QED
    BY <1>1, <2>1, <2>2 DEF PartialOf, Partials, IsTable
<1>3. partial.count = f.count
  BY DEF Disagrees
<1> HIDE DEF partial
<1>4. /\ more.count = partial.count /\ more.openedAt = partial.openedAt
      /\ more.frags = [i \in DOMAIN partial.frags \cup {f.idx} |->
                         IF i = f.idx THEN f.msg ELSE partial.frags[i]]
      /\ more = [count |-> more.count, openedAt |-> more.openedAt, frags |-> more.frags]
  BY <1>2 DEF WithFragment, Partials
<1>5. DOMAIN more.frags \subseteq 0 .. more.count - 1
  <2>1. f.idx \in 0 .. partial.count - 1
    BY <1>1, <1>3
  <2> QED
    BY <1>2, <1>4, <2>1
<1>6. more.frags \in Payloads
  <2>1. PICK I \in SUBSET Nat : partial.frags \in [I -> Messages]
    BY <1>2 DEF Partials, Payloads
  <2>2. more.frags \in [I \cup {f.idx} -> Messages] /\ I \cup {f.idx} \in SUBSET Nat
    BY <1>1, <1>4, <2>1
  <2> QED
    BY <2>2 DEF Payloads
<1>7. more \in Partials
  BY <1>2, <1>4, <1>6 DEF Partials
<1> HIDE DEF more
<1>8. IsFiniteSet(DOMAIN room \cup {f.seq})
  BY FS_AddElement DEF IsTable
<1>9. IsTable(Put(room, f.seq, more))
  BY <1>1, <1>5, <1>7, <1>8 DEF IsTable, Put
<1> QED
  BY <1>9 DEF more, partial

\* Reassembly keeps the bounds.
LEMMA ReassembleIsBounded ==
  ASSUME NEW table, Bounded(table), delivered \in Seq(Nat), Len(delivered) <= Remember,
         NEW f \in Fragments, f.idx < f.count, f.seq \notin ToSet(delivered),
         clock' \in Nat, Reassemble(table, f)
  PROVE  /\ Bounded(open)'
         /\ delivered' \in Seq(Nat)
         /\ Len(delivered') <= Remember
<1> DEFINE room    == IF f.seq \in DOMAIN table THEN table ELSE Only(table, RoomForOne(table))
           partial == PartialOf(room, f)
           filled  == Put(room, f.seq, WithFragment(partial, f))
           kept    == Only(filled, WithinBuffer(filled))
<1>1. f.seq \in Nat
  BY DEF Fragments
<1>2. /\ Bounded(room)
      /\ f.seq \notin DOMAIN room => Cardinality(DOMAIN room) < MaxOpen
  <2>1. RoomForOne(table) \subseteq DOMAIN table /\ IsTable(table)
    BY DEF RoomForOne, Bounded
  <2>2. /\ Bounded(Only(table, RoomForOne(table)))
        /\ DOMAIN Only(table, RoomForOne(table)) = RoomForOne(table)
        /\ Cardinality(RoomForOne(table)) < MaxOpen
    BY <2>1, OnlyIsBounded, OnlyIsTable, RoomForOneFits
  <2> QED
    BY <2>2
<1>3. CASE Disagrees(partial, f)
  <2>1. UNCHANGED delivered /\ open' = Only(room, DOMAIN room \ {f.seq})
    BY <1>3 DEF Reassemble
  <2>2. Bounded(Only(room, DOMAIN room \ {f.seq}))
    <3> HIDE DEF room
    <3> QED
      BY <1>2, OnlyIsBounded
  <2> QED
    BY <2>1, <2>2 DEF Bounded
<1>4. CASE ~Disagrees(partial, f)
  <2>1. IsTable(filled)
    BY <1>2, <1>4, FilledIsTable DEF Bounded
  <2>2. WithinBuffer(filled) \subseteq DOMAIN filled /\ DOMAIN filled = DOMAIN room \cup {f.seq}
    BY DEF WithinBuffer, Put
  <2>3. Cardinality(DOMAIN filled) <= MaxOpen
    <3>1. /\ IsFiniteSet(DOMAIN room)
          /\ Cardinality(DOMAIN room) <= MaxOpen
          /\ MaxOpen \in Nat
      BY <1>2, LinkReceiverAssumption DEF Bounded, IsTable
    <3>2. Cardinality(DOMAIN room) \in Nat
      BY <3>1, FS_CardinalityType
    <3>3. Cardinality(DOMAIN room \cup {f.seq}) =
            IF f.seq \in DOMAIN room THEN Cardinality(DOMAIN room) ELSE Cardinality(DOMAIN room) + 1
      BY <3>1, FS_AddElement
    <3> HIDE DEF room, filled
    <3> QED
      BY <1>2, <2>2, <3>1, <3>2, <3>3
  <2>4. /\ IsTable(kept) /\ DOMAIN kept \subseteq DOMAIN filled
        /\ Cardinality(DOMAIN kept) <= MaxOpen
        /\ Buffered(kept, DOMAIN kept) <= MaxOpenFrags
    <3> HIDE DEF filled
    <3>1. IsTable(kept) /\ DOMAIN kept = WithinBuffer(filled)
      BY <2>1, <2>2, OnlyIsTable
    <3>2. IsFiniteSet(DOMAIN filled)
      BY <2>1 DEF IsTable
    <3>3. IsFiniteSet(DOMAIN kept) /\ Cardinality(DOMAIN kept) <= Cardinality(DOMAIN filled)
      BY <2>2, <3>1, <3>2, FS_Subset
    <3>4. Cardinality(DOMAIN kept) <= MaxOpen
      BY <2>3, <3>2, <3>3, FS_CardinalityType, LinkReceiverAssumption
    <3>5. Held(kept, DOMAIN kept) = Held(filled, WithinBuffer(filled))
      BY <3>1 DEF Held, Only
    <3>6. Buffered(kept, DOMAIN kept) <= MaxOpenFrags
      BY <2>1, <3>5, WithinBufferFits DEF Buffered
    <3> QED
      BY <2>2, <3>1, <3>4, <3>6
  <2>5. DOMAIN room \cap ToSet(delivered) = {}
    BY <1>2 DEF Bounded
  <2>6. \/ open' = kept /\ UNCHANGED delivered
        \/ open' = Only(kept, DOMAIN kept \ {f.seq}) /\ delivered' = RememberDelivered(f.seq)
    BY <1>4 DEF Reassemble
  <2> HIDE DEF kept, filled, room
  <2>7. CASE open' = kept /\ UNCHANGED delivered
    <3>1. DOMAIN kept \cap ToSet(delivered) = {}
      BY <2>2, <2>4, <2>5
    <3> QED
      BY <2>4, <2>7, <3>1 DEF Bounded
  <2>8. CASE open' = Only(kept, DOMAIN kept \ {f.seq}) /\ delivered' = RememberDelivered(f.seq)
    <3>1. /\ RememberDelivered(f.seq) \in Seq(Nat)
          /\ Len(RememberDelivered(f.seq)) <= Remember
          /\ ToSet(RememberDelivered(f.seq)) \subseteq ToSet(delivered) \cup {f.seq}
      BY <1>1, RememberedSet
    <3>2. IsTable(open') /\ DOMAIN open' = DOMAIN kept \ {f.seq}
      BY <2>4, <2>8, OnlyIsTable
    <3>3. DOMAIN open' \cap ToSet(delivered') = {}
      BY <2>2, <2>4, <2>5, <2>8, <3>1, <3>2
    <3>4. IsFiniteSet(DOMAIN kept)
      BY <2>4 DEF IsTable
    <3>5. Cardinality(DOMAIN open') <= MaxOpen
      BY <2>4, <3>2, <3>4, FS_Subset, FS_CardinalityType, LinkReceiverAssumption
    <3>6. Held(open', DOMAIN open') = Held(kept, DOMAIN open')
      BY <2>8, <3>2 DEF Held, Only
    <3>7. Buffered(open', DOMAIN open') <= MaxOpenFrags
      <4>1. /\ Buffered(kept, DOMAIN open') <= Buffered(kept, DOMAIN kept)
            /\ {Buffered(kept, DOMAIN open'), Buffered(kept, DOMAIN kept)} \subseteq Nat
        BY <2>4, <3>2, HeldMonotone
      <4> QED
        BY <2>4, <3>6, <4>1, LinkReceiverAssumption DEF Buffered
    <3> QED
      BY <2>8, <3>1, <3>2, <3>3, <3>5, <3>7 DEF Bounded, Buffered, Held
  <2> QED
    BY <2>6, <2>7, <2>8
<1> QED
  BY <1>3, <1>4

\* A cell that is fed keeps the types and bounds of the receiving end.
LEMMA FeedKeeps ==
  ASSUME ReceiverInv, WindowTypeOK, NEW cell \in Cells, Feed(cell),
         cell.frag = Cover \/ (cell.frag \in Fragments /\ cell.frag.idx < cell.frag.count)
  PROVE  ReceiverInv' /\ WindowTypeOK'
<1> DEFINE f == cell.frag
           survivors == Only(open, Unexpired(clock + 1))
<1>1. cell.counter \in Nat
  BY DEF Cells
<1>2. WindowTypeOK'
  BY <1>1 DEF Feed, Record, WindowTypeOK
<1>3. /\ clock \in Nat /\ accepted \subseteq Nat /\ reordered \in BOOLEAN
      /\ delivered \in Seq(Nat) /\ Len(delivered) <= Remember
      /\ Bounded(open)
  BY DEF ReceiverInv, ReceiverTypeOK
<1>4. clock' \in Nat /\ accepted' \subseteq Nat /\ reordered' \in BOOLEAN
  <2>1. clock' = clock + 1 /\ accepted' = accepted \cup {cell.counter}
    BY DEF Feed
  <2>2. reordered' = (reordered \/ cell.counter < highest)
    BY DEF Feed
  <2>3. reordered' \in BOOLEAN
    BY <2>2
  <2>4. clock \in Nat /\ accepted \subseteq Nat
    BY <1>3
  <2>5. clock' \in Nat
    BY <2>1, <2>4
  <2>6. accepted' \subseteq Nat
    BY <1>1, <2>1, <2>4
  <2> QED
    BY <2>3, <2>5, <2>6
<1>5. Bounded(survivors)
  <2>1. Unexpired(clock + 1) \subseteq DOMAIN open
    BY DEF Unexpired
  <2> QED
    BY <1>3, <2>1, OnlyIsBounded
<1>6. Bounded(open)' /\ delivered' \in Seq(Nat) /\ Len(delivered') <= Remember
  <2>1. CASE f.count = 0 \/ f.seq \in ToSet(delivered) \/ f.count > MaxMessageFrags
    <3>1. open' = survivors /\ UNCHANGED delivered
      BY <2>1 DEF Feed
    <3> HIDE DEF survivors
    <3> QED
      BY <1>3, <1>5, <3>1 DEF Bounded
  <2>2. CASE ~(f.count = 0 \/ f.seq \in ToSet(delivered) \/ f.count > MaxMessageFrags)
    <3>1. Reassemble(survivors, f)
      BY <2>2 DEF Feed
    <3>2. f \in Fragments /\ f.idx < f.count
      BY <2>2 DEF Cover
    <3> HIDE DEF survivors, f
    <3> QED
      BY <1>3, <1>4, <1>5, <2>2, <3>1, <3>2, ReassembleIsBounded
  <2> QED
    BY <2>1, <2>2
<1>7. ToSet(delivered') \subseteq Nat
  BY <1>6 DEF ToSet
<1>8. /\ DOMAIN open' \subseteq Nat
      /\ \A s \in DOMAIN open' :
           /\ {open'[s].count, open'[s].openedAt} \subseteq Nat
           /\ DOMAIN open'[s].frags \subseteq 0 .. open'[s].count - 1
  BY <1>6 DEF Bounded, IsTable, Partials
<1> QED
  BY <1>2, <1>4, <1>6, <1>7, <1>8 DEF ReceiverInv, ReceiverTypeOK

\* The inductive invariant of the link as a whole.
LinkInv == SendingTypeOK /\ FragmentsWhole /\ WindowTypeOK /\ ReceiverInv /\ restarts \in Nat

\* It holds of every state.
LEMMA LinkInvariant == Spec => []LinkInv
<1>1. Init => WindowTypeOK /\ ReceiverInv /\ restarts \in Nat
  <2> SUFFICES ASSUME Init PROVE WindowTypeOK /\ ReceiverInv /\ restarts \in Nat
    OBVIOUS
  <2>1. /\ open = NoneOpen /\ DOMAIN NoneOpen = {} /\ delivered = << >> /\ clock = 0
        /\ accepted = {} /\ reordered = FALSE
    BY DEF Init, ReceiverInit, NoneOpen
  <2>2. IsTable(open)
    BY <2>1, FS_EmptySet DEF IsTable
  <2>3. Held(open, DOMAIN open) = {} /\ ToSet(delivered) = {}
    BY <2>1 DEF Held, ToSet
  <2>4. DOMAIN open = {} /\ Cardinality(DOMAIN open) = 0 /\ Buffered(open, DOMAIN open) = 0
    BY <2>1, <2>3, FS_EmptySet DEF Buffered
  <2>5. Bounded(open)
    BY <2>2, <2>4, LinkReceiverAssumption DEF Bounded
  <2>6. Len(delivered) <= Remember /\ delivered \in Seq(Nat)
    BY <2>1, LinkReceiverAssumption
  <2>7. ReceiverTypeOK
    BY <2>1, <2>3, <2>4, <2>6 DEF ReceiverTypeOK
  <2> QED
    BY <2>5, <2>6, <2>7 DEF Init, WindowInit, WindowTypeOK, ReceiverInv
<1>2. LinkInv /\ [Next]_vars => WindowTypeOK' /\ ReceiverInv' /\ (restarts \in Nat)'
  <2> SUFFICES ASSUME LinkInv, [Next]_vars
               PROVE  WindowTypeOK' /\ ReceiverInv' /\ (restarts \in Nat)'
    OBVIOUS
  <2>1. (restarts \in Nat)'
    BY DEF LinkInv, Next, Restart, vars
  <2>2. CASE Arrive
    <3>1. PICK i \in DOMAIN sent : Feed(sent[i])
      BY <2>2 DEF Arrive
    <3>2. sent[i] \in Cells
      BY DEF LinkInv, SendingTypeOK, SenderTypeOK
    <3>3. sent[i].frag = Cover \/ (sent[i].frag \in Fragments /\ sent[i].frag.idx < sent[i].frag.count)
      BY DEF LinkInv, FragmentsWhole, Circulating, CutFrom
    <3> QED
      BY <2>1, <3>1, <3>2, <3>3, FeedKeeps DEF LinkInv
  <2>3. CASE UNCHANGED <<windowVars, receiverVars>>
    <3>1. /\ UNCHANGED <<open, delivered, clock, accepted, reordered>>
          /\ UNCHANGED <<highest, seen>>
      BY <2>3 DEF windowVars, receiverVars
    <3>2. WindowTypeOK'
      BY <3>1 DEF LinkInv, WindowTypeOK
    <3>3. ReceiverInv'
      BY <3>1 DEF LinkInv, ReceiverInv, ReceiverTypeOK, Bounded, IsTable, Buffered, Held
    <3> QED
      BY <2>1, <3>2, <3>3
  <2> QED
    BY <2>2, <2>3 DEF Next, vars
<1>3. LinkInv <=> (SendingTypeOK /\ FragmentsWhole) /\ WindowTypeOK /\ ReceiverInv /\ restarts \in Nat
  BY DEF LinkInv
<1> QED
  BY <1>1, <1>2, <1>3, FragmentsWholeInvariant, PTL DEF Spec

\* Every variable of the link keeps its type: in particular the buffer never holds a
\* fragment beyond its message's count, and the deque of delivered messages never
\* outgrows remember_delivered.
THEOREM TypeCorrect == Spec => []TypeOK
<1>1. LinkInv => TypeOK
  BY DEF LinkInv, TypeOK, SendingTypeOK, ReceiverInv
<1> QED
  BY <1>1, LinkInvariant, PTL

\* The reassembly buffer keeps both its bounds and never holds a message already
\* handed on, whatever the network does and however often the sending end restarts.
THEOREM BufferKeepsItsBounds == Spec => []BufferIsBounded
<1>1. LinkInv => BufferIsBounded
  BY DEF LinkInv, ReceiverInv, Bounded, BufferIsBounded
<1> QED
  BY <1>1, LinkInvariant, PTL

-----------------------------------------------------------------------------
(***************************************************************************)
(* A link whose sending end does not restart implements the channel.       *)
(* First what it emits: cells in the order of their counters, the cells of *)
(* a message back to back, and one number to a message.                    *)
(***************************************************************************)

SeqAt(i) == sent[i].frag.seq

\* The i-th cell has counter i.
CountersCount ==
  /\ next = Len(sent) + 1
  /\ \A i \in DOMAIN sent : sent[i].counter = i

\* Message sequence numbers rise along the queue, and what is queued comes after what
\* was emitted.
NumbersRise ==
  /\ \A i, j \in DOMAIN queue : i <= j => queue[i].seq <= queue[j].seq
  /\ \A i \in DOMAIN sent, j \in DOMAIN queue : SeqAt(i) <= queue[j].seq

\* Between two cells of a message there are only cells of that message, and once its
\* cells have begun nothing else is emitted until they are out.
BackToBack ==
  /\ \A i, j, k \in DOMAIN sent :
       i <= j /\ j <= k /\ SeqAt(i) = SeqAt(k) /\ SeqAt(i) # 0 => SeqAt(j) = SeqAt(i)
  /\ \A i, j \in DOMAIN sent, k \in DOMAIN queue :
       i <= j /\ SeqAt(i) = queue[k].seq => SeqAt(j) = SeqAt(i)

\* A number belongs to one message and a message has one number.
OneNumberEach ==
  /\ \A f \in Circulating : f # Cover => f.seq \in 1 .. msgSeq
  /\ \A f, g \in Circulating : f # Cover /\ g # Cover => (f.seq = g.seq <=> f.msg = g.msg)

StreamInv == CountersCount /\ NumbersRise /\ BackToBack /\ OneNumberEach

\* A message enqueued gets a number of its own.
LEMMA EnqueueKeepsOneNumberEach ==
  ASSUME SendingTypeOK, [Next]_vars, FragmentsWhole, OneNumberEach, NEW m \in Messages, Enqueue(m)
  PROVE  OneNumberEach'
<1>1. msgSeq \in Nat /\ msgSeq' = msgSeq + 1 /\ m \notin queuedMsgs
  BY SenderAssumption DEF SendingTypeOK, SenderTypeOK, Enqueue
<1>2. ASSUME NEW f \in Circulating', f # Cover
      PROVE  \/ f \in Circulating /\ f.seq \in 1 .. msgSeq /\ f.msg # m
             \/ f.seq = msgSeq + 1 /\ f.msg = m
  <2>1. CASE f \in Circulating
    BY <1>1, <1>2, <2>1 DEF OneNumberEach, FragmentsWhole, CutFrom
  <2>2. CASE \E j \in DOMAIN FragmentsOf(m) : f = FragmentsOf(m)[j]
    BY <1>1, <2>2, FragmentsCut
  <2>3. ASSUME NEW n \in Messages, Enqueue(n) PROVE FragmentsOf(n) = FragmentsOf(m)
    <3>1. n \notin queuedMsgs /\ queuedMsgs \cup {n} = queuedMsgs \cup {m}
      BY <2>3 DEF Enqueue
    <3> QED
      BY <1>1, <3>1
  <2> QED
    BY <1>2, <2>1, <2>2, <2>3, CirculatingNext
<1> QED
  BY <1>1, <1>2 DEF OneNumberEach

\* Without a restart the stream keeps its order.
LEMMA StreamNext ==
  ASSUME ~Restart, LinkInv, StreamInv, [Next]_vars
  PROVE  StreamInv'
<1>1. /\ queue \in Seq(Fragments) /\ sent \in Seq(Cells) /\ msgSeq \in Nat
      /\ SendingTypeOK /\ FragmentsWhole
  BY SenderAssumption DEF LinkInv, SendingTypeOK, SenderTypeOK
<1>2. /\ \A i \in DOMAIN queue : queue[i].seq \in 1 .. msgSeq
      /\ \A i \in DOMAIN sent : SeqAt(i) \in 0 .. msgSeq
  <2>1. \A f \in Circulating : f.seq \in 0 .. msgSeq
    BY <1>1 DEF StreamInv, OneNumberEach, Cover
  <2>2. \A i \in DOMAIN queue : queue[i] \in Circulating /\ queue[i] # Cover
    BY <1>1, SenderAssumption DEF Circulating, Fragments, Cover
  <2> QED
    BY <1>1, <2>1, <2>2 DEF StreamInv, OneNumberEach, Circulating, SeqAt
<1>3. ASSUME NEW m \in Messages, Enqueue(m)
      PROVE  StreamInv'
  <2>1. OneNumberEach'
    BY <1>1, <1>3, EnqueueKeepsOneNumberEach DEF StreamInv
  <2>2. FragmentsOf(m) \in Seq(Fragments)
    BY <1>1, FragmentsType
  <2>3. \A j \in DOMAIN FragmentsOf(m) : FragmentsOf(m)[j].seq = msgSeq + 1
    BY <1>1, FragmentsCut
  <2>4. queue' = queue \o FragmentsOf(m) /\ sent' = sent /\ next' = next
    BY <1>3 DEF Enqueue, counterVars
  <2>5. /\ queue' \in Seq(Fragments)
        /\ \A k \in DOMAIN queue' :
             \/ k \in DOMAIN queue /\ queue'[k] = queue[k]
             \/ k > Len(queue) /\ queue'[k].seq = msgSeq + 1
    <3> DEFINE more == FragmentsOf(m)
    <3> HIDE DEF more
    <3>1. more \in Seq(Fragments) /\ queue' = queue \o more /\ \A j \in DOMAIN more : more[j].seq = msgSeq + 1
      BY <2>2, <2>3, <2>4 DEF more
    <3> QED
      BY <1>1, <3>1, ConcatProperties
  <2>6. NumbersRise'
    <3>1. \A k \in DOMAIN queue' : queue'[k].seq \in Nat /\ k \in Nat
      <4>1. DOMAIN queue' \subseteq Nat /\ \A k \in DOMAIN queue' : queue'[k] \in Fragments
        BY <2>5
      <4> QED
        BY <4>1 DEF Fragments
    <3>2. ASSUME NEW i \in DOMAIN queue', NEW j \in DOMAIN queue', i <= j
          PROVE  queue'[i].seq <= queue'[j].seq
      <4>1. CASE j \in DOMAIN queue /\ queue'[j] = queue[j]
        <5>1. i \in DOMAIN queue /\ queue'[i] = queue[i]
          BY <1>1, <2>5, <3>1, <3>2, <4>1
        <5> QED
          BY <3>2, <4>1, <5>1 DEF StreamInv, NumbersRise
      <4>2. CASE queue'[j].seq = msgSeq + 1
        <5>1. queue'[i].seq <= msgSeq + 1
          BY <1>1, <1>2, <2>5
        <5> QED
          BY <4>2, <5>1
      <4> QED
        BY <2>5, <4>1, <4>2
    <3>3. ASSUME NEW i \in DOMAIN sent, NEW j \in DOMAIN queue' PROVE SeqAt(i) <= queue'[j].seq
      BY <1>1, <1>2, <2>5 DEF StreamInv, NumbersRise
    <3> QED
      BY <2>4, <3>2, <3>3 DEF NumbersRise, SeqAt
  <2>7. BackToBack'
    BY <1>1, <1>2, <2>4, <2>5 DEF StreamInv, BackToBack, SeqAt
  <2>8. CountersCount'
    BY <2>4 DEF StreamInv, CountersCount
  <2> QED
    BY <2>1, <2>6, <2>7, <2>8 DEF StreamInv
<1>4. ASSUME TickData \/ TickCover PROVE OneNumberEach'
  <2>1. msgSeq' = msgSeq
    BY <1>4 DEF TickData, TickCover
  <2>2. ~\E m \in Messages : Enqueue(m)
    BY <1>1, <2>1 DEF Enqueue
  <2>3. \A f \in Circulating' : f \in Circulating \/ f = Cover
    BY <1>1, <2>2, CirculatingNext
  <2> QED
    BY <2>1, <2>3 DEF StreamInv, OneNumberEach
<1>5. CASE TickData
  <2>1. /\ queue # << >> /\ queue' = Tail(queue) /\ next' = next + 1
        /\ sent' = Append(sent, [counter |-> next, frag |-> Head(queue)])
    BY <1>5 DEF TickData, Emit, Use
  <2>2. /\ 1 \in DOMAIN queue /\ Head(queue) = queue[1]
        /\ \A k \in DOMAIN queue' : k \in Nat /\ k + 1 \in DOMAIN queue /\ queue'[k] = queue[k + 1]
    BY <1>1, <2>1, HeadTailProperties
  <2>3. /\ DOMAIN sent = 1 .. Len(sent) /\ DOMAIN sent' = 1 .. Len(sent) + 1
        /\ Len(sent') = Len(sent) + 1 /\ Len(sent) \in Nat
        /\ \A i \in DOMAIN sent : sent'[i] = sent[i]
        /\ sent'[Len(sent) + 1] = [counter |-> next, frag |-> queue[1]]
    BY <1>1, <2>1, <2>2
  <2>4. CountersCount'
    BY <2>1, <2>3 DEF StreamInv, CountersCount
  <2>0. /\ \A i \in DOMAIN sent : SeqAt(i)' = SeqAt(i)
        /\ \A i \in DOMAIN sent' : i = Len(sent) + 1 => SeqAt(i)' = queue[1].seq
    BY <2>3 DEF SeqAt
  <2>5. NumbersRise'
    <3>1. ASSUME NEW i \in DOMAIN queue', NEW j \in DOMAIN queue', i <= j
          PROVE  queue'[i].seq <= queue'[j].seq
      <4>1. i + 1 <= j + 1
        BY <2>2, <3>1
      <4> QED
        BY <2>2, <4>1 DEF StreamInv, NumbersRise
    <3>2. ASSUME NEW i \in DOMAIN sent', NEW j \in DOMAIN queue'
          PROVE  SeqAt(i)' <= queue'[j].seq
      <4>1. queue'[j] = queue[j + 1] /\ j + 1 \in DOMAIN queue /\ 1 <= j + 1
        BY <1>1, <2>2
      <4>2. CASE i \in DOMAIN sent
        BY <2>0, <4>1, <4>2 DEF StreamInv, NumbersRise
      <4>3. CASE i = Len(sent) + 1
        BY <2>2, <2>0, <4>1, <4>3 DEF StreamInv, NumbersRise
      <4> QED
        BY <2>3, <4>2, <4>3
    <3> QED
      BY <3>1, <3>2 DEF NumbersRise
  <2>6. BackToBack'
    <3>1. ASSUME NEW i \in DOMAIN sent', NEW j \in DOMAIN sent', NEW k \in DOMAIN sent',
                 i <= j, j <= k, SeqAt(i)' = SeqAt(k)', SeqAt(i)' # 0
          PROVE  SeqAt(j)' = SeqAt(i)'
      <4>1. i \in Nat /\ j \in Nat /\ k \in Nat
        BY <2>3
      <4>2. CASE k \in DOMAIN sent
        <5>1. i \in DOMAIN sent /\ j \in DOMAIN sent
          BY <2>3, <3>1, <4>2
        <5> QED
          BY <2>0, <3>1, <4>2, <5>1 DEF StreamInv, BackToBack
      <4>3. CASE k = Len(sent) + 1 /\ i \in DOMAIN sent /\ j \in DOMAIN sent
        BY <2>2, <2>0, <3>1, <4>3 DEF StreamInv, BackToBack
      <4>4. CASE i = k \/ j = k
        <5>1. j = k \/ i = j
          BY <3>1, <4>1, <4>4
        <5> QED
          BY <3>1, <5>1
      <4> QED
        BY <2>3, <3>1, <4>1, <4>2, <4>3, <4>4
    <3>2. ASSUME NEW i \in DOMAIN sent', NEW j \in DOMAIN sent', NEW k \in DOMAIN queue',
                 i <= j, SeqAt(i)' = queue'[k].seq
          PROVE  SeqAt(j)' = SeqAt(i)'
      <4>1. CASE i = Len(sent) + 1
        BY <2>3, <3>2, <4>1
      <4>2. CASE i \in DOMAIN sent
        <5>1. SeqAt(i)' = SeqAt(i) /\ SeqAt(i) = queue[k + 1].seq /\ k + 1 \in DOMAIN queue
          BY <2>2, <2>3, <3>2, <4>2 DEF SeqAt
        <5>2. SeqAt(i) <= queue[1].seq /\ queue[1].seq <= queue[k + 1].seq
          BY <1>1, <2>2, <4>2, <5>1 DEF StreamInv, NumbersRise
        <5>3. SeqAt(i) = queue[1].seq
          BY <1>2, <2>2, <4>2, <5>1, <5>2
        <5>4. CASE j \in DOMAIN sent
          BY <2>3, <3>2, <4>2, <5>1, <5>4 DEF StreamInv, BackToBack, SeqAt
        <5>5. CASE j = Len(sent) + 1
          BY <2>3, <5>1, <5>3, <5>5 DEF SeqAt
        <5> QED
          BY <2>3, <3>2, <5>4, <5>5
      <4> QED
        BY <2>3, <4>1, <4>2
    <3> QED
      BY <3>1, <3>2 DEF BackToBack
  <2> QED
    BY <1>4, <1>5, <2>4, <2>5, <2>6 DEF StreamInv
<1>6. CASE TickCover
  <2>1. /\ queue = << >> /\ queue' = queue /\ next' = next + 1
        /\ sent' = Append(sent, [counter |-> next, frag |-> Cover])
    BY <1>6 DEF TickCover, Emit, Use
  <2>2. /\ DOMAIN sent = 1 .. Len(sent) /\ DOMAIN sent' = 1 .. Len(sent) + 1
        /\ Len(sent') = Len(sent) + 1 /\ Len(sent) \in Nat
        /\ \A i \in DOMAIN sent : sent'[i] = sent[i]
        /\ sent'[Len(sent) + 1].counter = next
        /\ sent'[Len(sent) + 1].frag.seq = 0
    BY <1>1, <2>1 DEF Cover
  <2>3. CountersCount'
    BY <2>1, <2>2 DEF StreamInv, CountersCount
  <2>4. DOMAIN queue' = {}
    BY <2>1
  <2>5. NumbersRise'
    BY <2>4 DEF NumbersRise
  <2>6. BackToBack'
    BY <1>2, <2>2, <2>4 DEF StreamInv, BackToBack, SeqAt
  <2> QED
    BY <1>4, <1>6, <2>3, <2>5, <2>6 DEF StreamInv
<1>7. ASSUME UNCHANGED <<next, queue, msgSeq, sent>> PROVE StreamInv'
  BY <1>7 DEF StreamInv, CountersCount, NumbersRise, BackToBack, OneNumberEach, SeqAt, Circulating
<1>8. ReserveBlock => UNCHANGED <<next, queue, msgSeq, sent>>
  BY DEF ReserveBlock, Reserve, senderVars
<1> QED
  BY <1>3, <1>5, <1>6, <1>7, <1>8 DEF Next, Sender, vars, counterVars, senderVars

-----------------------------------------------------------------------------
\* What a fragment makes of the message it belongs to: the fragment beside those
\* held in `table`.
Grown(table, f, partial) ==
  /\ partial.count = f.count
  /\ DOMAIN partial.frags \subseteq 0 .. f.count - 1
  /\ f.idx \in DOMAIN partial.frags /\ partial.frags[f.idx] = f.msg
  /\ \A x \in DOMAIN partial.frags \ {f.idx} :
       /\ f.seq \in DOMAIN table /\ x \in DOMAIN table[f.seq].frags
       /\ partial.frags[x] = table[f.seq].frags[x]

\* What a fragment does: a message in the buffer is as it was or has grown by it, and
\* a message handed on has grown by it to all its fragments.
LEMMA ReassembleOutcome ==
  ASSUME NEW table, IsTable(table), NEW f \in Fragments, f.idx < f.count, clock' \in Nat,
         Reassemble(table, f)
  PROVE  /\ \A s \in DOMAIN open' :
              \/ s \in DOMAIN table /\ open'[s] = table[s]
              \/ s = f.seq /\ Grown(table, f, open'[s])
         /\ \/ UNCHANGED <<delivered, out>>
            \/ \E partial : /\ Grown(table, f, partial)
                            /\ DOMAIN partial.frags = 0 .. f.count - 1
                            /\ out' = Append(out, {partial.frags[x] : x \in DOMAIN partial.frags})
                            /\ delivered' = RememberDelivered(f.seq)
<1> DEFINE room    == IF f.seq \in DOMAIN table THEN table ELSE Only(table, RoomForOne(table))
           partial == PartialOf(room, f)
           more    == WithFragment(partial, f)
           filled  == Put(room, f.seq, more)
           kept    == Only(filled, WithinBuffer(filled))
<1>1. f.seq \in Nat /\ f.idx \in Nat /\ f.count \in Nat /\ f.msg \in Messages
  BY DEF Fragments
<1>2. /\ IsTable(room) /\ DOMAIN room \subseteq DOMAIN table
      /\ \A s \in DOMAIN room : room[s] = table[s]
      /\ f.seq \in DOMAIN room <=> f.seq \in DOMAIN table
  <2>1. RoomForOne(table) \subseteq DOMAIN table
    BY DEF RoomForOne
  <2>2. IsTable(Only(table, RoomForOne(table))) /\ DOMAIN Only(table, RoomForOne(table)) = RoomForOne(table)
    BY <2>1, OnlyIsTable
  <2> QED
    BY <2>1, <2>2 DEF Only
<1>3. CASE Disagrees(partial, f)
  <2>1. UNCHANGED <<delivered, out>> /\ open' = Only(room, DOMAIN room \ {f.seq})
    BY <1>3 DEF Reassemble
  <2> HIDE DEF room
  <2> QED
    BY <1>2, <2>1 DEF Only
<1>4. CASE ~Disagrees(partial, f)
  <2>1. IsTable(filled)
    BY <1>2, <1>4, FilledIsTable
  <2>2. DOMAIN filled = DOMAIN room \cup {f.seq} /\ WithinBuffer(filled) \subseteq DOMAIN filled
    BY DEF Put, WithinBuffer
  <2>3. /\ \A s \in DOMAIN filled : s # f.seq => filled[s] = room[s]
        /\ filled[f.seq] = more
    BY DEF Put
  <2>4. IsTable(kept) /\ DOMAIN kept \subseteq DOMAIN filled /\ \A s \in DOMAIN kept : kept[s] = filled[s]
    <3> HIDE DEF filled
    <3> QED
      BY <2>1, <2>2, OnlyIsTable DEF Only
  <2>5. Grown(table, f, more)
    <3>1. more \in Partials /\ DOMAIN more.frags \subseteq 0 .. more.count - 1
      BY <2>1, <2>2, <2>3 DEF IsTable
    <3>2. /\ f.seq \in DOMAIN room => partial = room[f.seq]
          /\ f.seq \notin DOMAIN room => partial = [count |-> f.count, openedAt |-> clock', frags |-> NoneOpen]
      BY DEF PartialOf
    <3>3. partial \in Partials
      <4>1. NoneOpen \in [{} -> Messages]
        BY DEF NoneOpen
      <4>2. NoneOpen \in Payloads
        BY <4>1 DEF Payloads
      <4> HIDE DEF room, partial
      <4>3. CASE f.seq \in DOMAIN room
        BY <1>2, <3>2, <4>3 DEF IsTable
      <4>4. CASE f.seq \notin DOMAIN room
        BY <1>1, <3>2, <4>2, <4>4 DEF Partials
      <4> QED
        BY <4>3, <4>4
    <3>4. partial.count = f.count
      BY <1>4 DEF Disagrees
    <3> HIDE DEF room, partial
    <3>5. /\ more.count = partial.count
          /\ more.frags = [x \in DOMAIN partial.frags \cup {f.idx} |->
                             IF x = f.idx THEN f.msg ELSE partial.frags[x]]
      BY <3>3 DEF WithFragment, Partials
    <3>6. f.seq \notin DOMAIN room => DOMAIN partial.frags = {}
      BY <3>2 DEF NoneOpen
    <3> HIDE DEF more
    <3>7. \A x \in DOMAIN more.frags \ {f.idx} :
            x \in DOMAIN partial.frags /\ more.frags[x] = partial.frags[x]
      BY <3>5
    <3>8. f.idx \in DOMAIN more.frags /\ more.frags[f.idx] = f.msg
      BY <3>5
    <3> QED
      BY <1>2, <3>1, <3>2, <3>4, <3>5, <3>6, <3>7, <3>8 DEF Grown
  <2>6. \/ open' = kept /\ UNCHANGED <<delivered, out>>
        \/ /\ open' = Only(kept, DOMAIN kept \ {f.seq})
           /\ f.seq \in DOMAIN kept
           /\ Cardinality(DOMAIN kept[f.seq].frags) = kept[f.seq].count
           /\ delivered' = RememberDelivered(f.seq)
           /\ out' = Append(out, {kept[f.seq].frags[i] : i \in DOMAIN kept[f.seq].frags})
    BY <1>4 DEF Reassemble
  <2> HIDE DEF kept, filled, more, partial, room
  <2>7. \A s \in DOMAIN open' : s \in DOMAIN kept /\ open'[s] = kept[s]
    BY <2>6 DEF Only
  <2>8. \A s \in DOMAIN open' :
          \/ s \in DOMAIN table /\ open'[s] = table[s]
          \/ s = f.seq /\ Grown(table, f, open'[s])
    BY <1>2, <2>2, <2>3, <2>4, <2>5, <2>7
  <2>9. CASE ~UNCHANGED <<delivered, out>>
    <3>1. /\ f.seq \in DOMAIN kept /\ kept[f.seq] = more
          /\ Cardinality(DOMAIN more.frags) = more.count
          /\ delivered' = RememberDelivered(f.seq)
          /\ out' = Append(out, {more.frags[x] : x \in DOMAIN more.frags})
      BY <2>3, <2>4, <2>6, <2>9
    <3>2. more.count = f.count /\ DOMAIN more.frags \subseteq 0 .. f.count - 1
      BY <2>5 DEF Grown
    <3>3. IsFiniteSet(0 .. f.count - 1) /\ Cardinality(0 .. f.count - 1) = f.count
      <4>1. f.count \in Nat /\ f.count - 1 \in Int /\ 0 \in Int /\ ~(0 > f.count - 1)
        BY <1>1
      <4>2. /\ IsFiniteSet(0 .. f.count - 1)
            /\ Cardinality(0 .. f.count - 1) = IF 0 > f.count - 1 THEN 0 ELSE (f.count - 1) - 0 + 1
        BY <4>1, FS_Interval
      <4> QED
        BY <4>1, <4>2
    <3>4. DOMAIN more.frags = 0 .. f.count - 1
      BY <3>1, <3>2, <3>3, FS_Subset
    <3> QED
      BY <2>5, <2>8, <3>1, <3>4
  <2> QED
    BY <2>8, <2>9
<1> QED
  BY <1>3, <1>4

-----------------------------------------------------------------------------
\* A cell that is no longer fresh never is again.
LEMMA StaleStays ==
  ASSUME WindowTypeOK, NEW counter \in Nat, Record(counter), NEW c \in Nat
  PROVE  /\ ~Fresh(c) => ~Fresh(c)'
         /\ ~Fresh(counter)'
         /\ highest' \in Nat /\ highest <= highest' /\ counter <= highest'
<1>1. /\ highest \in Nat /\ Width \in Nat /\ Width > 0
      /\ highest' = IF counter > highest THEN counter ELSE highest
      /\ \A d : d \in seen' <=> (d \in seen /\ highest' - d < Width) \/ d = counter
  BY WidthAssumption DEF WindowTypeOK, Record
<1>2. highest' \in Nat /\ highest <= highest' /\ counter <= highest'
  BY <1>1
<1>3. ~Fresh(counter)'
  BY <1>1, <1>2 DEF Fresh
<1>4. ASSUME ~Fresh(c) PROVE ~Fresh(c)'
  <2>1. CASE c = 0
    BY <2>1 DEF Fresh
  <2>2. CASE c # 0
    <3>1. c <= highest /\ (highest - c < Width => c \in seen)
      BY <1>4, <2>2 DEF Fresh
    <3>2. c <= highest' /\ (highest' - c < Width => highest - c < Width)
      BY <1>1, <1>2, <3>1
    <3>3. highest' - c < Width => c \in seen'
      BY <1>1, <3>1, <3>2
    <3> QED
      BY <3>2, <3>3 DEF Fresh
  <2> QED
    BY <2>1, <2>2
<1> QED
  BY <1>2, <1>3, <1>4

\* Two stretches of cells, each shorter than the window, hold fewer than two windows.
LEMMA TwoStretches ==
  ASSUME NEW n \in Nat, NEW g \in [1 .. n -> Nat],
         \A j, k \in 1 .. n : g[j] = g[k] => j = k,
         NEW a \in Nat, NEW b \in Nat,
         \A k \in 2 .. n : \/ a - Width < g[k] /\ g[k] < a
                           \/ b < g[k] /\ g[k] < b + Width
  PROVE  n < 2 * Width
<1>0. Width \in Nat /\ Width >= 1
  BY WidthAssumption
<1> DEFINE A == a - Width + 1 .. a - 1
           B == b + 1 .. b + Width - 1
           Y == A \cup B
           h == [k \in 2 .. n |-> g[k]]
<1>1. IsFiniteSet(A) /\ Cardinality(A) = Width - 1
  <2>1. a - Width + 1 \in Int /\ a - 1 \in Int
    BY <1>0
  <2>2. Cardinality(A) = IF a - Width + 1 > a - 1 THEN 0 ELSE (a - 1) - (a - Width + 1) + 1
    BY <2>1, FS_Interval
  <2>3. IsFiniteSet(A)
    BY <2>1, FS_Interval
  <2>4. (IF a - Width + 1 > a - 1 THEN 0 ELSE (a - 1) - (a - Width + 1) + 1) = Width - 1
    BY <1>0
  <2> QED
    BY <2>2, <2>3, <2>4
<1>2. IsFiniteSet(B) /\ Cardinality(B) = Width - 1
  <2>1. b + 1 \in Int /\ b + Width - 1 \in Int
    BY <1>0
  <2>2. Cardinality(B) = IF b + 1 > b + Width - 1 THEN 0 ELSE (b + Width - 1) - (b + 1) + 1
    BY <2>1, FS_Interval
  <2>3. IsFiniteSet(B)
    BY <2>1, FS_Interval
  <2>4. (IF b + 1 > b + Width - 1 THEN 0 ELSE (b + Width - 1) - (b + 1) + 1) = Width - 1
    BY <1>0
  <2> QED
    BY <2>2, <2>3, <2>4
<1>3. IsFiniteSet(Y) /\ Cardinality(Y) <= (Width - 1) + (Width - 1)
  <2> HIDE DEF A, B
  <2>1. /\ IsFiniteSet(A \cup B)
        /\ Cardinality(A \cup B) = Cardinality(A) + Cardinality(B) - Cardinality(A \cap B)
    BY <1>1, <1>2, FS_Union
  <2>2. IsFiniteSet(A \cap B)
    BY <1>1, FS_Intersection
  <2>3. Cardinality(A \cap B) \in Nat
    BY <2>2, FS_CardinalityType
  <2> QED
    BY <1>0, <1>1, <1>2, <2>1, <2>3
<1>4. h \in Injection(2 .. n, Y)
  <2>1. ASSUME NEW k \in 2 .. n PROVE g[k] \in Y
    <3>1. g[k] \in Nat
      OBVIOUS
    <3> QED
      BY <1>0, <2>1, <3>1
  <2>2. 2 .. n \subseteq 1 .. n
    OBVIOUS
  <2> HIDE DEF Y
  <2>3. h \in [2 .. n -> Y]
    BY <2>1
  <2>4. \A j, k \in 2 .. n : h[j] = h[k] => j = k
    BY <2>2
  <2> HIDE DEF h
  <2> QED
    BY <2>3, <2>4 DEF Injection, IsInjective
<1>5. Cardinality(2 .. n) <= Cardinality(Y)
  <2> HIDE DEF Y, h
  <2> QED
    BY <1>3, <1>4, FS_Injection
<1>6. n <= 1 \/ Cardinality(2 .. n) = n - 1
  <2>1. Cardinality(2 .. n) = IF 2 > n THEN 0 ELSE n - 2 + 1
    BY FS_Interval
  <2> QED
    BY <2>1
<1>7. Cardinality(Y) \in Nat
  <2> HIDE DEF Y
  <2> QED
    BY <1>3, FS_CardinalityType
<1> HIDE DEF Y
<1> QED
  BY <1>0, <1>3, <1>5, <1>6, <1>7

\* The cells that completed the messages in a list, each accepted while the ones
\* before it in the list were behind the window's front.
Completed(list, high, g) ==
  /\ g \in [1 .. Len(list) -> DOMAIN sent]
  /\ \A k \in 1 .. Len(list) : g[k] <= high /\ SeqAt(g[k]) = list[k] /\ list[k] # 0
  /\ \A j, k \in 1 .. Len(list) : j < k => g[j] < g[k] + Width
  /\ \A j, k \in 1 .. Len(list) : list[j] = list[k] => j = k

\* By the time two windows' worth of messages was delivered the first of them has no
\* cell left that the window would take, and none to come.
LEMMA ForgottenIsStale ==
  ASSUME sent \in Seq(Cells), queue \in Seq(Fragments), StreamInv,
         NEW list \in Seq(Nat), Len(list) >= 2 * Width, NEW high \in Nat,
         NEW g, Completed(list, high, g)
  PROVE  /\ \A i \in DOMAIN sent : SeqAt(i) = list[1] => high - i >= Width
         /\ \A k \in DOMAIN queue : queue[k].seq # list[1]
<1> DEFINE n == Len(list)
<1>1. /\ n \in Nat /\ n >= 2 * Width /\ Width \in Nat /\ Width >= 1 /\ 1 \in 1 .. n
      /\ g \in [1 .. n -> Nat]
      /\ \A k \in 1 .. n : g[k] \in DOMAIN sent /\ g[k] \in Nat
      /\ DOMAIN sent \subseteq Nat
  <2>1. n \in Nat /\ n >= 2 * Width /\ Width \in Nat /\ Width >= 1
    BY WidthAssumption
  <2>2. 1 \in 1 .. n
    <3> HIDE DEF n
    <3> QED
      BY <2>1
  <2>3. DOMAIN sent \subseteq Nat
    OBVIOUS
  <2>4. g \in [1 .. n -> DOMAIN sent]
    BY DEF Completed
  <2> HIDE DEF n
  <2> QED
    BY <2>1, <2>2, <2>3, <2>4
<1>2. \A j, k \in 1 .. n : g[j] = g[k] => j = k
  BY DEF Completed
<1>3. ASSUME NEW k \in 2 .. n PROVE k \in 1 .. n /\ g[1] - Width < g[k] /\ SeqAt(g[k]) # list[1]
  <2>1. k \in 1 .. n /\ 1 \in 1 .. n /\ 1 < k /\ k # 1
    <3> HIDE DEF n
    <3> QED
      BY <1>1, <1>3
  <2>2. g[1] < g[k] + Width /\ SeqAt(g[k]) = list[k] /\ list[k] # list[1]
    BY <2>1 DEF Completed
  <2>3. g[1] \in Nat /\ g[k] \in Nat
    BY <1>1, <2>1
  <2> QED
    BY <1>1, <2>1, <2>2, <2>3
<1>4. ASSUME NEW i \in DOMAIN sent, SeqAt(i) = list[1], high - i < Width PROVE FALSE
  <2>1. ASSUME NEW k \in 2 .. n
        PROVE  \/ g[1] - Width < g[k] /\ g[k] < g[1]
               \/ i < g[k] /\ g[k] < i + Width
    <3>1. /\ g[1] \in DOMAIN sent /\ g[k] \in DOMAIN sent /\ k \in 1 .. n
          /\ g[1] \in Nat /\ g[k] \in Nat /\ i \in Nat
      BY <1>1, <1>3
    <3>2. g[k] < i + Width
      BY <1>1, <1>4, <3>1 DEF Completed
    <3>3. SeqAt(g[1]) = SeqAt(i) /\ SeqAt(i) # 0
      BY <1>1, <1>4 DEF Completed
    <3>4. ~(g[1] <= g[k] /\ g[k] <= i)
      BY <1>3, <1>4, <3>1, <3>3 DEF StreamInv, BackToBack
    <3>5. Width \in Nat /\ g[1] - Width < g[k]
      BY <1>1, <1>3
    <3> DEFINE a == g[1]
               b == g[k]
    <3>6. /\ a \in Nat /\ b \in Nat /\ i \in Nat /\ Width \in Nat /\ a - Width < b
          /\ b < i + Width /\ ~(a <= b /\ b <= i)
      BY <3>1, <3>2, <3>4, <3>5
    <3> HIDE DEF a, b
    <3>7. \/ a - Width < b /\ b < a
          \/ i < b /\ b < i + Width
      BY <3>6
    <3> QED
      BY <3>7 DEF a, b
  <2>2. i \in Nat /\ g[1] \in Nat
    BY <1>1
  <2> HIDE DEF n
  <2>3. n < 2 * Width
    BY <1>1, <1>2, <2>1, <2>2, TwoStretches
  <2> QED
    BY <1>1, <2>3
<1>5. ASSUME NEW q \in DOMAIN queue, queue[q].seq = list[1] PROVE FALSE
  <2>1. ASSUME NEW k \in 2 .. n
        PROVE  g[1] - Width < g[k] /\ g[k] < g[1]
    <3>1. /\ g[1] \in DOMAIN sent /\ g[k] \in DOMAIN sent /\ k \in 1 .. n
          /\ g[1] \in Nat /\ g[k] \in Nat
      BY <1>1, <1>3
    <3>2. SeqAt(g[1]) = queue[q].seq
      BY <1>1, <1>5 DEF Completed
    <3>3. ~(g[1] <= g[k])
      BY <1>3, <1>5, <3>1, <3>2 DEF StreamInv, BackToBack
    <3> QED
      BY <1>3, <3>1, <3>3
  <2>2. g[1] \in Nat
    BY <1>1
  <2> HIDE DEF n
  <2>3. n < 2 * Width
    BY <1>1, <1>2, <2>1, <2>2, TwoStretches
  <2> QED
    BY <1>1, <2>3
<1>6. \A i \in DOMAIN sent : high - i < Width \/ high - i >= Width
  BY <1>1
<1> QED
  BY <1>4, <1>5, <1>6

-----------------------------------------------------------------------------
\* What feeding the i-th cell does to the buffer and to what is handed on.
LEMMA FeedOutcome ==
  ASSUME LinkInv, StreamInv, NEW i \in DOMAIN sent, Feed(sent[i])
  PROVE  /\ Record(i) /\ i \in Nat
         /\ \A s \in DOMAIN open' :
              \/ s \in DOMAIN open /\ open'[s] = open[s]
              \/ s = SeqAt(i) /\ sent[i].frag # Cover /\ Grown(open, sent[i].frag, open'[s])
         /\ \/ UNCHANGED <<delivered, out>>
            \/ /\ sent[i].frag # Cover /\ SeqAt(i) \notin ToSet(delivered)
               /\ delivered' = RememberDelivered(SeqAt(i))
               /\ \E partial : /\ Grown(open, sent[i].frag, partial)
                               /\ DOMAIN partial.frags = 0 .. sent[i].frag.count - 1
                               /\ out' = Append(out, {partial.frags[x] : x \in DOMAIN partial.frags})
<1> DEFINE f == sent[i].frag
           survivors == Only(open, Unexpired(clock + 1))
<1>1. Record(i) /\ i \in Nat
  BY DEF Feed, StreamInv, CountersCount, LinkInv, SendingTypeOK, SenderTypeOK
<1>2. /\ Unexpired(clock + 1) \subseteq DOMAIN open /\ IsTable(open)
      /\ clock' \in Nat
  BY DEF Unexpired, LinkInv, ReceiverInv, ReceiverTypeOK, Bounded, Feed
<1>3. /\ IsTable(survivors) /\ DOMAIN survivors \subseteq DOMAIN open
      /\ \A s \in DOMAIN survivors : survivors[s] = open[s]
  BY <1>2, OnlyIsTable DEF Only
<1>4. CASE f.count = 0 \/ f.seq \in ToSet(delivered) \/ f.count > MaxMessageFrags
  <2>1. open' = survivors /\ UNCHANGED <<delivered, out>>
    BY <1>4 DEF Feed
  <2> HIDE DEF survivors
  <2> QED
    BY <1>1, <1>3, <2>1
<1>5. CASE ~(f.count = 0 \/ f.seq \in ToSet(delivered) \/ f.count > MaxMessageFrags)
  <2>1. Reassemble(survivors, f)
    BY <1>5 DEF Feed
  <2>2. f # Cover /\ f \in Fragments /\ f.idx < f.count
    <3>1. f # Cover
      BY <1>5 DEF Cover
    <3>2. f \in Circulating
      BY DEF Circulating
    <3> QED
      BY <3>1, <3>2 DEF LinkInv, FragmentsWhole, CutFrom
  <2>3. \A partial : Grown(survivors, f, partial) => Grown(open, f, partial)
    <3> HIDE DEF survivors, f
    <3> QED
      BY <1>3 DEF Grown
  <2>4. f.seq \notin ToSet(delivered)
    BY <1>5
  <2> HIDE DEF survivors, f
  <2>5. /\ \A s \in DOMAIN open' :
             \/ s \in DOMAIN survivors /\ open'[s] = survivors[s]
             \/ s = f.seq /\ Grown(survivors, f, open'[s])
        /\ \/ UNCHANGED <<delivered, out>>
           \/ \E partial : /\ Grown(survivors, f, partial)
                           /\ DOMAIN partial.frags = 0 .. f.count - 1
                           /\ out' = Append(out, {partial.frags[x] : x \in DOMAIN partial.frags})
                           /\ delivered' = RememberDelivered(f.seq)
    BY <1>2, <1>3, <2>1, <2>2, ReassembleOutcome
  <2>6. \A s \in DOMAIN open' :
             \/ s \in DOMAIN open /\ open'[s] = open[s]
             \/ s = f.seq /\ Grown(open, f, open'[s])
    BY <1>3, <2>3, <2>5
  <2>7. \/ UNCHANGED <<delivered, out>>
        \/ /\ delivered' = RememberDelivered(f.seq)
           /\ \E partial : /\ Grown(open, f, partial)
                           /\ DOMAIN partial.frags = 0 .. f.count - 1
                           /\ out' = Append(out, {partial.frags[x] : x \in DOMAIN partial.frags})
    BY <2>3, <2>5
  <2> QED
    BY <1>1, <2>2, <2>4, <2>6, <2>7 DEF f, SeqAt
<1> QED
  BY <1>4, <1>5

\* A message in the buffer holds fragments of the one message that has its number.
GenuineOpen ==
  \A s \in DOMAIN open :
    \E i \in DOMAIN sent : /\ SeqAt(i) = s /\ sent[i].frag # Cover
                           /\ \A x \in DOMAIN open[s].frags : open[s].frags[x] = sent[i].frag.msg

\* What came out is a message that was put in.
WholeOut == out \in Seq({{m} : m \in queuedMsgs})

\* A cell fed keeps the buffer genuine, and what it completes is its own message.
LEMMA FeedIsGenuine ==
  ASSUME LinkInv, StreamInv, GenuineOpen, WholeOut,
         NEW i \in DOMAIN sent, Feed(sent[i]), UNCHANGED <<counterVars, senderVars>>
  PROVE  /\ GenuineOpen' /\ WholeOut'
         /\ \/ UNCHANGED <<delivered, out>>
            \/ /\ sent[i].frag # Cover /\ SeqAt(i) \notin ToSet(delivered)
               /\ sent[i].frag.msg \in queuedMsgs
               /\ delivered' = RememberDelivered(SeqAt(i))
               /\ out' = Append(out, {sent[i].frag.msg})
<1> DEFINE f == sent[i].frag
<1>1. sent' = sent /\ queuedMsgs' = queuedMsgs
  BY DEF senderVars
<1>2. ASSUME f # Cover, NEW partial, Grown(open, f, partial)
      PROVE  \A x \in DOMAIN partial.frags : partial.frags[x] = f.msg
  <2> TAKE x \in DOMAIN partial.frags
  <2>1. CASE x = f.idx
    BY <1>2, <2>1 DEF Grown
  <2>2. CASE x # f.idx
    <3>1. /\ f.seq \in DOMAIN open /\ x \in DOMAIN open[f.seq].frags
          /\ partial.frags[x] = open[f.seq].frags[x]
      BY <1>2, <2>2 DEF Grown
    <3>2. PICK j \in DOMAIN sent : /\ SeqAt(j) = f.seq /\ sent[j].frag # Cover
                                   /\ open[f.seq].frags[x] = sent[j].frag.msg
      BY <3>1 DEF GenuineOpen
    <3>3. f \in Circulating /\ sent[j].frag \in Circulating
      BY DEF Circulating
    <3>4. sent[j].frag.msg = f.msg
      BY <1>2, <3>2, <3>3 DEF StreamInv, OneNumberEach, SeqAt
    <3> QED
      BY <3>1, <3>2, <3>4
  <2> QED
    BY <2>1, <2>2
<1>3. /\ \A s \in DOMAIN open' :
           \/ s \in DOMAIN open /\ open'[s] = open[s]
           \/ s = SeqAt(i) /\ f # Cover /\ Grown(open, f, open'[s])
      /\ \/ UNCHANGED <<delivered, out>>
         \/ /\ f # Cover /\ SeqAt(i) \notin ToSet(delivered)
            /\ delivered' = RememberDelivered(SeqAt(i))
            /\ \E partial : /\ Grown(open, f, partial)
                            /\ DOMAIN partial.frags = 0 .. f.count - 1
                            /\ out' = Append(out, {partial.frags[x] : x \in DOMAIN partial.frags})
  BY FeedOutcome
<1>4. GenuineOpen'
  <2> SUFFICES ASSUME NEW s \in DOMAIN open'
               PROVE  \E j \in DOMAIN sent : /\ SeqAt(j) = s /\ sent[j].frag # Cover
                        /\ \A x \in DOMAIN open'[s].frags : open'[s].frags[x] = sent[j].frag.msg
    BY <1>1 DEF GenuineOpen, SeqAt
  <2>1. CASE s \in DOMAIN open /\ open'[s] = open[s]
    BY <2>1 DEF GenuineOpen
  <2>2. CASE s = SeqAt(i) /\ f # Cover /\ Grown(open, f, open'[s])
    BY <1>2, <2>2
  <2> QED
    BY <1>3, <2>1, <2>2
<1>5. CASE UNCHANGED <<delivered, out>>
  BY <1>1, <1>4, <1>5 DEF WholeOut
<1>6. CASE ~UNCHANGED <<delivered, out>>
  <2>1. PICK partial : /\ Grown(open, f, partial)
                       /\ out' = Append(out, {partial.frags[x] : x \in DOMAIN partial.frags})
    BY <1>3, <1>6
  <2>2. f # Cover
    BY <1>3, <1>6
  <2>3. f.idx \in DOMAIN partial.frags /\ \A x \in DOMAIN partial.frags : partial.frags[x] = f.msg
    BY <1>2, <2>1, <2>2 DEF Grown
  <2>4. {partial.frags[x] : x \in DOMAIN partial.frags} = {f.msg}
    BY <2>3
  <2>5. f.msg \in queuedMsgs
    <3>1. f \in Circulating
      BY DEF Circulating
    <3> QED
      BY <2>2, <3>1 DEF LinkInv, FragmentsWhole, CutFrom
  <2>6. out' = Append(out, {f.msg})
    BY <2>1, <2>4
  <2>7. WholeOut'
    <3> DEFINE S == {{m} : m \in queuedMsgs}
    <3>1. {f.msg} \in S /\ out \in Seq(S)
      BY <2>5 DEF WholeOut
    <3>2. out' \in Seq(S)
      <4> HIDE DEF S
      <4> QED
        BY <2>6, <3>1
    <3> QED
      BY <1>1, <3>2 DEF WholeOut
  <2> QED
    BY <1>3, <1>4, <1>6, <2>2, <2>5, <2>6, <2>7
<1> QED
  BY <1>5, <1>6

\* What all of this needs of a step.
BaseInv == LinkInv /\ StreamInv /\ GenuineOpen /\ WholeOut

\* The cells emitted stay, the messages queued stay, and the sending end's own steps
\* leave the receiving end alone.
LEMMA SentStays ==
  ASSUME SendingTypeOK, [Next]_vars
  PROVE  /\ \A i \in DOMAIN sent : i \in DOMAIN sent' /\ sent'[i] = sent[i]
         /\ queuedMsgs \subseteq queuedMsgs'
         /\ Arrive \/ UNCHANGED <<windowVars, receiverVars>>
<1>1. sent \in Seq(Cells)
  BY DEF SendingTypeOK, SenderTypeOK
<1>2. ASSUME NEW frag, Emit(frag) PROVE \A i \in DOMAIN sent : i \in DOMAIN sent' /\ sent'[i] = sent[i]
  BY <1>1, <1>2 DEF Emit
<1>3. \A i \in DOMAIN sent : i \in DOMAIN sent' /\ sent'[i] = sent[i]
  BY <1>2 DEF Next, Sender, Enqueue, ReserveBlock, TickData, TickCover, Restart, SenderRestart,
              vars, senderVars
<1>4. queuedMsgs \subseteq queuedMsgs'
  BY DEF Next, Sender, Enqueue, ReserveBlock, TickData, TickCover, Restart, SenderRestart,
         vars, senderVars
<1> QED
  BY <1>3, <1>4 DEF Next, vars

\* The buffer stays genuine and what is handed on stays whole.
LEMMA BaseNext ==
  ASSUME ~Restart, BaseInv, [Next]_vars
  PROVE  StreamInv' /\ GenuineOpen' /\ WholeOut'
<1>1. StreamInv'
  BY StreamNext DEF BaseInv
<1>2. CASE Arrive /\ UNCHANGED <<counterVars, senderVars>>
  <2>1. PICK i \in DOMAIN sent : Feed(sent[i])
    BY <1>2 DEF Arrive
  <2> QED
    BY <1>1, <1>2, <2>1, FeedIsGenuine DEF BaseInv
<1>3. CASE UNCHANGED <<windowVars, receiverVars>>
  <2>1. /\ open' = open /\ out' = out
        /\ \A i \in DOMAIN sent : i \in DOMAIN sent' /\ sent'[i] = sent[i]
        /\ queuedMsgs \subseteq queuedMsgs'
    BY <1>3, SentStays DEF receiverVars, BaseInv, LinkInv
  <2>2. GenuineOpen'
    BY <2>1 DEF GenuineOpen, SeqAt, BaseInv
  <2>3. WholeOut'
    <3> DEFINE S == {{m} : m \in queuedMsgs}
               T == {{m} : m \in queuedMsgs'}
    <3>1. S \subseteq T /\ out \in Seq(S)
      BY <2>1 DEF BaseInv, WholeOut
    <3>2. out \in Seq(T)
      <4> HIDE DEF S, T
      <4> QED
        BY <3>1, SeqMonotonic
    <3> QED
      BY <2>1, <3>2 DEF WholeOut
  <2> QED
    BY <1>1, <2>2, <2>3
<1> QED
  BY <1>2, <1>3 DEF Next, vars

\* A step after which there was no restart was none, and there was none before it.
LEMMA NoRestartYet ==
  ASSUME restarts \in Nat, [Next]_vars, restarts' = 0
  PROVE  restarts = 0 /\ ~Restart
BY DEF Next, Restart, vars

\* All of this holds of a link as long as its sending end has not started again.
LEMMA BaseInvariant == Spec => [](LinkInv /\ (restarts = 0 => BaseInv))
<1>1. Init => StreamInv /\ GenuineOpen /\ WholeOut
  <2> SUFFICES ASSUME Init PROVE StreamInv /\ GenuineOpen /\ WholeOut
    OBVIOUS
  <2>1. /\ queue = << >> /\ sent = << >> /\ next = 1 /\ out = << >> /\ open = NoneOpen
    BY DEF Init, CounterInit, SenderInit, ReceiverInit
  <2>2. DOMAIN sent = {} /\ DOMAIN queue = {} /\ DOMAIN open = {} /\ Len(sent) = 0
    BY <2>1 DEF NoneOpen
  <2>3. StreamInv
    BY <2>1, <2>2 DEF StreamInv, CountersCount, NumbersRise, BackToBack, OneNumberEach, Circulating
  <2>4. GenuineOpen
    BY <2>2 DEF GenuineOpen
  <2>5. WholeOut
    BY <2>1 DEF WholeOut
  <2> QED
    BY <2>3, <2>4, <2>5
<1> DEFINE Inv == restarts = 0 => StreamInv /\ GenuineOpen /\ WholeOut
<1>2. LinkInv /\ Inv /\ [Next]_vars => Inv'
  <2> SUFFICES ASSUME LinkInv, Inv, [Next]_vars, restarts' = 0
               PROVE  StreamInv' /\ GenuineOpen' /\ WholeOut'
    OBVIOUS
  <2>1. restarts = 0 /\ ~Restart
    BY NoRestartYet DEF LinkInv
  <2> QED
    BY <2>1, BaseNext DEF BaseInv
<1>3. LinkInv /\ Inv => (restarts = 0 => BaseInv)
  BY DEF BaseInv
<1>4. Init => Inv
  BY <1>1
<1> HIDE DEF Inv
<1> QED
  BY <1>2, <1>3, <1>4, LinkInvariant, PTL DEF Spec

\* A sending end that may not start again never does.
LEMMA NeverRestarts == ASSUME MaxRestarts = 0 PROVE Spec => [](restarts = 0)
<1>1. Init => restarts = 0
  BY DEF Init
<1>2. restarts = 0 /\ [Next]_vars => (restarts = 0)'
  BY DEF Next, Restart, vars
<1> QED
  BY <1>1, <1>2, PTL DEF Spec

\* No cell the window would still take belongs to a message handed on, unless the
\* receiving end remembers that message.
Unsaid ==
  \A i \in DOMAIN sent :
    sent[i].frag # Cover /\ Fresh(i) /\ SeqAt(i) \notin ToSet(delivered) =>
      {sent[i].frag.msg} \notin ToSet(out)

\* The last messages handed on are the ones the receiving end remembers.
LastRemembered ==
  /\ Len(delivered) = Len(out) \/ (Len(delivered) = Remember /\ Len(delivered) < Len(out))
  /\ \A k \in 1 .. Len(delivered) :
       \E i \in DOMAIN sent : /\ sent[i].frag # Cover
                              /\ SeqAt(i) = delivered[k]
                              /\ out[Len(out) - Len(delivered) + k] = {sent[i].frag.msg}

\* A message whose number is not remembered is not one of the last Remember handed on.
LEMMA NotRemembered ==
  ASSUME BaseInv, LastRemembered, NEW i \in DOMAIN sent, sent[i].frag # Cover,
         SeqAt(i) \notin ToSet(delivered), NEW k \in DOMAIN out, k + Remember > Len(out)
  PROVE  out[k] # {sent[i].frag.msg}
<1> SUFFICES ASSUME out[k] = {sent[i].frag.msg} PROVE FALSE
  OBVIOUS
<1>1. delivered \in Seq(Nat) /\ Remember \in Nat
  BY LinkReceiverAssumption DEF BaseInv, LinkInv, ReceiverInv
<1>2. Len(out) \in Nat /\ DOMAIN out = 1 .. Len(out)
  <2> DEFINE S == {{n} : n \in queuedMsgs}
  <2>1. out \in Seq(S)
    BY DEF BaseInv, WholeOut
  <2> HIDE DEF S
  <2> QED
    BY <2>1
<1> DEFINE d == Len(out) - Len(delivered)
<1> DEFINE At(x, j) == /\ sent[j].frag # Cover
                       /\ SeqAt(j) = delivered[x]
                       /\ out[d + x] = {sent[j].frag.msg}
<1>3. k - d \in 1 .. Len(delivered) /\ d + (k - d) = k
  BY <1>1, <1>2 DEF LastRemembered
<1>4. \A x \in 1 .. Len(delivered) : \E j \in DOMAIN sent : At(x, j)
  BY DEF LastRemembered
<1>5. PICK j \in DOMAIN sent : At(k - d, j)
  <2> HIDE DEF At, d
  <2> QED
    BY <1>3, <1>4
<1>6. sent[j].frag # Cover /\ SeqAt(j) = delivered[k - d] /\ out[k] = {sent[j].frag.msg}
  <2> HIDE DEF d
  <2> QED
    BY <1>3, <1>5
<1>7. sent[j].frag.msg = sent[i].frag.msg
  BY <1>6
<1>8. sent[i].frag \in Circulating /\ sent[j].frag \in Circulating
  BY DEF Circulating
<1>9. SeqAt(i) = SeqAt(j)
  BY <1>6, <1>7, <1>8 DEF BaseInv, StreamInv, OneNumberEach, SeqAt
<1> QED
  BY <1>1, <1>3, <1>6, <1>9 DEF ToSet

\* Every step of a link is a step of the channel or leaves it alone.
LEMMA StepImplements ==
  ASSUME BaseInv, LastRemembered, DeliversOnce => Unsaid, [Next]_vars
  PROVE  [Channel!Next]_<<{{m} : m \in queuedMsgs}, out>>
<1> DEFINE offered == {{m} : m \in queuedMsgs}
<1>1. CASE Arrive /\ UNCHANGED <<counterVars, senderVars>>
  <2>1. PICK i \in DOMAIN sent : Feed(sent[i])
    BY <1>1 DEF Arrive
  <2>2. queuedMsgs' = queuedMsgs
    BY <1>1 DEF senderVars
  <2>3. CASE UNCHANGED out
    BY <2>2, <2>3
  <2>4. CASE ~UNCHANGED out
    <3>1. /\ sent[i].frag # Cover /\ SeqAt(i) \notin ToSet(delivered)
          /\ sent[i].frag.msg \in queuedMsgs
          /\ out' = Append(out, {sent[i].frag.msg})
      BY <1>1, <2>1, <2>4, FeedIsGenuine DEF BaseInv
    <3>2. Record(i)
      BY <2>1, FeedOutcome DEF BaseInv
    <3>3. Fresh(i)
      BY <3>2 DEF Record
    <3>4. DeliversOnce => {sent[i].frag.msg} \notin ToSet(out)
      BY <3>1, <3>3 DEF Unsaid
    <3>5. sent[i].frag.msg \in Messages
      BY <3>1 DEF BaseInv, LinkInv, SendingTypeOK, SenderTypeOK
    <3>6. ~Channel!Recent({sent[i].frag.msg})
      BY <3>1, NotRemembered DEF Channel!Recent
    <3>7. Channel!Deliver({sent[i].frag.msg})
      BY <2>2, <3>1, <3>4, <3>6 DEF Channel!Deliver, Channel!ToSet, ToSet
    <3> QED
      BY <3>5, <3>7 DEF Channel!Next
  <2> QED
    BY <2>3, <2>4
<1>2. ASSUME NEW m \in Messages, Enqueue(m), UNCHANGED receiverVars
      PROVE  Channel!Next
  <2>1. m \notin queuedMsgs /\ queuedMsgs' = queuedMsgs \cup {m} /\ out' = out
    BY <1>2 DEF Enqueue, receiverVars
  <2>2. Channel!Offer({m})
    BY <2>1 DEF Channel!Offer
  <2> QED
    BY <2>2 DEF Channel!Next
<1>3. ASSUME UNCHANGED <<queuedMsgs, out>> PROVE UNCHANGED <<offered, out>>
  BY <1>3
<1> QED
  BY <1>1, <1>2, <1>3
  DEF Next, Sender, ReserveBlock, TickData, TickCover, Restart, SenderRestart,
      vars, senderVars, receiverVars

\* What the deque holds after one more: all but the first, if it was full.
LEMMA RememberedExactly ==
  ASSUME delivered \in Seq(Nat), NEW s \in Nat
  PROVE  LET all == Append(delivered, s)
         IN  /\ all \in Seq(Nat) /\ Len(all) = Len(delivered) + 1
             /\ \A k \in 1 .. Len(all) : all[k] = IF k = Len(all) THEN s ELSE delivered[k]
             /\ \/ RememberDelivered(s) = all
                \/ /\ Len(all) > Remember
                   /\ RememberDelivered(s) = Tail(all)
                   /\ Len(Tail(all)) = Len(all) - 1
                   /\ \A k \in 1 .. Len(Tail(all)) : Tail(all)[k] = all[k + 1]
<1> DEFINE all == Append(delivered, s)
<1>1. /\ all \in Seq(Nat) /\ all # << >> /\ Len(all) = Len(delivered) + 1
      /\ \A k \in 1 .. Len(all) : all[k] = IF k = Len(all) THEN s ELSE delivered[k]
  <2>1. /\ all \in Seq(Nat) /\ Len(all) = Len(delivered) + 1 /\ Len(delivered) \in Nat
        /\ \A k \in 1 .. Len(all) : all[k] = IF k = Len(all) THEN s ELSE delivered[k]
    OBVIOUS
  <2> HIDE DEF all
  <2> QED
    BY <2>1
<1>2. RememberDelivered(s) = IF Len(all) > Remember THEN Tail(all) ELSE all
  BY DEF RememberDelivered
<1> HIDE DEF all
<1>3. /\ Len(Tail(all)) = Len(all) - 1
      /\ \A k \in 1 .. Len(Tail(all)) : Tail(all)[k] = all[k + 1]
  BY <1>1, HeadTailProperties
<1>4. \/ RememberDelivered(s) = all
      \/ /\ Len(all) > Remember
         /\ RememberDelivered(s) = Tail(all)
         /\ Len(Tail(all)) = Len(all) - 1
         /\ \A k \in 1 .. Len(Tail(all)) : Tail(all)[k] = all[k + 1]
  BY <1>2, <1>3
<1> QED
  BY <1>1, <1>4 DEF all

\* What is handed on is remembered, and what it pushes out of the memory is the oldest.
LEMMA LastRememberedNext ==
  ASSUME BaseInv, LastRemembered, [Next]_vars
  PROVE  LastRemembered'
<1>1. /\ sent \in Seq(Cells) /\ delivered \in Seq(Nat) /\ Len(delivered) <= Remember
      /\ Remember \in Nat
  BY LinkReceiverAssumption
  DEF BaseInv, LinkInv, ReceiverInv, ReceiverTypeOK, SendingTypeOK, SenderTypeOK
<1>2. CASE UNCHANGED <<delivered, out>>
  <2>1. \A i \in DOMAIN sent : i \in DOMAIN sent' /\ sent'[i] = sent[i]
    BY SentStays DEF BaseInv, LinkInv
  <2> QED
    BY <1>2, <2>1 DEF LastRemembered, SeqAt
<1>3. CASE ~UNCHANGED <<delivered, out>>
  <2>1. Arrive /\ UNCHANGED <<counterVars, senderVars>>
    BY <1>3 DEF Next, Restart, vars, receiverVars
  <2>2. PICK i \in DOMAIN sent : Feed(sent[i])
    BY <2>1 DEF Arrive
  <2> DEFINE s   == SeqAt(i)
             m   == sent[i].frag.msg
             all == Append(delivered, s)
  <2>3. /\ sent[i].frag # Cover
        /\ delivered' = RememberDelivered(s) /\ out' = Append(out, {m})
    BY <1>3, <2>1, <2>2, FeedIsGenuine DEF BaseInv
  <2>4. sent' = sent
    BY <2>1 DEF senderVars
  <2>5. s \in Nat
    <3>1. sent[i].frag \in Circulating
      BY DEF Circulating
    <3> QED
      BY <2>3, <3>1, SenderAssumption
      DEF StreamInv, OneNumberEach, SeqAt, BaseInv, LinkInv, SendingTypeOK, SenderTypeOK
  <2>6. /\ Len(out) \in Nat /\ Len(out') = Len(out) + 1
        /\ \A k \in 1 .. Len(out) : out'[k] = out[k]
        /\ out'[Len(out) + 1] = {m}
    <3> DEFINE S == {{n} : n \in queuedMsgs}
    <3>1. out \in Seq(S)
      BY DEF BaseInv, WholeOut
    <3> HIDE DEF S, m
    <3> QED
      BY <2>3, <3>1
  <2>7. /\ all \in Seq(Nat) /\ Len(all) = Len(delivered) + 1
        /\ \A k \in 1 .. Len(all) : all[k] = IF k = Len(all) THEN s ELSE delivered[k]
        /\ \/ delivered' = all
           \/ /\ Len(all) > Remember
              /\ delivered' = Tail(all)
              /\ Len(Tail(all)) = Len(all) - 1
              /\ \A k \in 1 .. Len(Tail(all)) : Tail(all)[k] = all[k + 1]
    BY <1>1, <2>3, <2>5, RememberedExactly
  <2> DEFINE d == Len(out) - Len(delivered)
  <2>8. d \in Nat
    BY <1>1, <2>6 DEF LastRemembered
  <2>9. \A k \in 1 .. Len(all) :
          \E j \in DOMAIN sent : /\ sent[j].frag # Cover
                                 /\ SeqAt(j) = all[k]
                                 /\ out'[d + k] = {sent[j].frag.msg}
    <3> SUFFICES ASSUME NEW k \in 1 .. Len(all)
                 PROVE  \E j \in DOMAIN sent : /\ sent[j].frag # Cover
                                               /\ SeqAt(j) = all[k]
                                               /\ out'[d + k] = {sent[j].frag.msg}
      OBVIOUS
    <3>1. CASE k = Len(all)
      <4>1. d + k = Len(out) + 1 /\ all[k] = s
        BY <1>1, <2>6, <2>7, <3>1
      <4> QED
        BY <2>3, <2>6, <4>1
    <3>2. CASE k # Len(all)
      <4>1. k \in 1 .. Len(delivered) /\ all[k] = delivered[k] /\ d + k \in 1 .. Len(out)
        BY <1>1, <2>6, <2>7, <2>8, <3>2
      <4>2. out'[d + k] = out[d + k]
        BY <2>6, <4>1
      <4> QED
        BY <4>1, <4>2 DEF LastRemembered
    <3> QED
      BY <3>1, <3>2
  <2>12. Len(delivered) \in Nat /\ Len(all) \in Nat /\ Len(all) = Len(delivered) + 1
    BY <1>1, <2>7
  <2>13. Len(delivered) = Len(out) \/ (Len(delivered) = Remember /\ Len(delivered) < Len(out))
    BY DEF LastRemembered
  <2> HIDE DEF all
  <2>10. CASE delivered' = all
    <3>1. Len(delivered') = Len(delivered) + 1 /\ Len(out') - Len(delivered') = d
      <4>1. Len(delivered') = Len(delivered) + 1
        BY <2>10, <2>12
      <4> QED
        BY <2>6, <2>12, <4>1
    <3>2. Len(delivered') = Len(out') \/ (Len(delivered') = Remember /\ Len(delivered') < Len(out'))
      <4>1. Len(all) <= Remember
        <5>1. Len(all) > Remember => Len(Tail(all)) = Len(all) - 1
          BY <2>12, HeadTailProperties, <2>7
        <5>2. Len(all) > Remember => all = Tail(all)
          BY <2>3, <2>10 DEF RememberDelivered, all
        <5>3. Len(all) > Remember => Len(Tail(all)) = Len(all)
          BY <5>2
        <5> QED
          BY <1>1, <2>12, <5>1, <5>3
      <4> QED
        BY <1>1, <2>6, <2>12, <2>13, <3>1, <4>1, <2>10
    <3>3. \A k \in 1 .. Len(delivered') :
            \E j \in DOMAIN sent : /\ sent[j].frag # Cover
                                   /\ SeqAt(j) = delivered'[k]
                                   /\ out'[Len(out') - Len(delivered') + k] = {sent[j].frag.msg}
      <4> HIDE DEF d
      <4> QED
        BY <2>9, <2>10, <3>1
    <3> QED
      BY <2>4, <3>2, <3>3 DEF LastRemembered, SeqAt
  <2>11. CASE ~(delivered' = all)
    <3>1. /\ Len(delivered') = Len(delivered) /\ Len(delivered) \in Nat
          /\ Len(out') - Len(delivered') = d + 1
          /\ Len(delivered) = Remember
      <4>1. Len(all) > Remember /\ Len(delivered') = Len(all) - 1
        BY <2>7, <2>11
      <4>2. Len(delivered') = Len(delivered)
        BY <2>12, <4>1
      <4>3. Len(delivered) = Remember
        BY <1>1, <2>12, <4>1
      <4> QED
        BY <2>6, <2>12, <4>2, <4>3
    <3>2. ASSUME NEW k \in 1 .. Len(delivered')
          PROVE  \E j \in DOMAIN sent : /\ sent[j].frag # Cover
                                        /\ SeqAt(j) = delivered'[k]
                                        /\ out'[(d + 1) + k] = {sent[j].frag.msg}
      <4>1. k + 1 \in 1 .. Len(all) /\ delivered'[k] = all[k + 1] /\ d + (k + 1) = (d + 1) + k
        <5>1. k \in 1 .. Len(Tail(all)) /\ Len(Tail(all)) = Len(all) - 1 /\ delivered' = Tail(all)
          BY <2>7, <2>11, <3>2
        <5>2. delivered'[k] = all[k + 1]
          BY <2>7, <2>11, <5>1
        <5> HIDE DEF d
        <5> QED
          BY <2>8, <2>12, <5>1, <5>2
      <4> HIDE DEF d
      <4> QED
        BY <2>9, <4>1
    <3>3. Len(delivered') = Remember /\ Len(delivered') < Len(out')
      BY <1>1, <2>6, <2>13, <3>1
    <3>4. \A k \in 1 .. Len(delivered') :
            \E j \in DOMAIN sent : /\ sent[j].frag # Cover
                                   /\ SeqAt(j) = delivered'[k]
                                   /\ out'[Len(out') - Len(delivered') + k] = {sent[j].frag.msg}
      <4> HIDE DEF d
      <4> QED
        BY <3>1, <3>2
    <3> QED
      BY <2>4, <3>3, <3>4 DEF LastRemembered, SeqAt
  <2> QED
    BY <2>10, <2>11
<1> QED
  BY <1>2, <1>3

-----------------------------------------------------------------------------
(***************************************************************************)
(* Once, for a link that sends several copies: a receiving end that        *)
(* remembers two windows' worth of messages forgets none too early.        *)
(***************************************************************************)

\* Inductively: what was handed on is remembered or has nothing left to come, because
\* the cells that completed the messages remembered were taken in an order the window
\* allows.
OnceInv ==
  /\ \A i \in DOMAIN sent :
       sent[i].frag # Cover /\ {sent[i].frag.msg} \in ToSet(out) =>
         SeqAt(i) \in ToSet(delivered) \/ ~Fresh(i)
  /\ \A k \in DOMAIN queue :
       {queue[k].msg} \in ToSet(out) => queue[k].seq \in ToSet(delivered)
  /\ \E g : Completed(delivered, highest, g)

\* A cell that completes a message joins the ones that completed those before it.
LEMMA CompletedNext ==
  ASSUME BaseInv, NEW i \in DOMAIN sent, Record(i), sent[i].frag # Cover,
         SeqAt(i) \notin ToSet(delivered), NEW g, Completed(delivered, highest, g)
  PROVE  LET all == Append(delivered, SeqAt(i))
             h == [k \in 1 .. Len(all) |-> IF k = Len(all) THEN i ELSE g[k]]
         IN  Completed(all, highest', h)
<1> DEFINE all == Append(delivered, SeqAt(i))
           h == [k \in 1 .. Len(all) |-> IF k = Len(all) THEN i ELSE g[k]]
           n == Len(delivered)
<1>1. /\ delivered \in Seq(Nat) /\ sent \in Seq(Cells) /\ highest \in Nat /\ Width \in Nat /\ Width >= 1
      /\ i \in Nat /\ WindowTypeOK
  BY WidthAssumption
  DEF BaseInv, LinkInv, ReceiverInv, WindowTypeOK, SendingTypeOK, SenderTypeOK
<1>2. SeqAt(i) \in Nat /\ SeqAt(i) # 0
  <2>1. sent[i].frag \in Circulating
    BY DEF Circulating
  <2>2. SeqAt(i) \in 1 .. msgSeq /\ msgSeq \in Nat
    BY <2>1, SenderAssumption
    DEF BaseInv, StreamInv, OneNumberEach, SeqAt, LinkInv, SendingTypeOK, SenderTypeOK
  <2> QED
    BY <2>2
<1>3. /\ all \in Seq(Nat) /\ Len(all) = n + 1 /\ n \in Nat
      /\ \A k \in 1 .. n : k \in 1 .. n + 1 /\ k # n + 1 /\ all[k] = delivered[k]
      /\ all[n + 1] = SeqAt(i)
  BY <1>1, <1>2
<1>4. highest' \in Nat /\ highest <= highest' /\ i <= highest'
  BY <1>1, StaleStays
<1>5. \A c \in Nat : c <= highest => c < i + Width
  <2>1. i <= highest => highest - i < Width
    BY DEF Record, Fresh
  <2> QED
    BY <1>1, <2>1
<1>6. /\ g \in [1 .. n -> DOMAIN sent]
      /\ \A k \in 1 .. n : g[k] <= highest /\ SeqAt(g[k]) = delivered[k] /\ delivered[k] # 0
      /\ \A j, k \in 1 .. n : j < k => g[j] < g[k] + Width
      /\ \A j, k \in 1 .. n : delivered[j] = delivered[k] => j = k
      /\ \A k \in 1 .. n : g[k] \in Nat
  <2>1. g \in [1 .. n -> DOMAIN sent] /\ DOMAIN sent \subseteq Nat
    BY <1>1 DEF Completed
  <2> QED
    BY <2>1 DEF Completed
<1>7. \A k \in 1 .. n : delivered[k] # SeqAt(i)
  BY <1>1 DEF ToSet
<1> HIDE DEF all, n
<1>8. /\ h \in [1 .. n + 1 -> DOMAIN sent]
      /\ \A k \in 1 .. n : h[k] = g[k]
      /\ h[n + 1] = i
  BY <1>3, <1>6
<1> HIDE DEF h
<1>9. \A k \in 1 .. n + 1 : k \in 1 .. n \/ k = n + 1
  BY <1>3
<1>10. \A k \in 1 .. n + 1 : h[k] <= highest' /\ SeqAt(h[k]) = all[k] /\ all[k] # 0
  <2> SUFFICES ASSUME NEW k \in 1 .. n + 1
               PROVE  h[k] <= highest' /\ SeqAt(h[k]) = all[k] /\ all[k] # 0
    OBVIOUS
  <2>1. CASE k \in 1 .. n
    <3>1. h[k] = g[k] /\ all[k] = delivered[k]
      BY <1>3, <1>8, <2>1
    <3>2. g[k] \in Nat /\ g[k] <= highest /\ SeqAt(g[k]) = delivered[k] /\ delivered[k] # 0
      BY <1>6, <2>1
    <3>3. g[k] <= highest'
      BY <1>1, <1>4, <3>2
    <3> QED
      BY <3>1, <3>2, <3>3
  <2>2. CASE k = n + 1
    BY <1>2, <1>3, <1>4, <1>8, <2>2
  <2> QED
    BY <1>9, <2>1, <2>2
<1>11. \A j, k \in 1 .. n + 1 : j < k => h[j] < h[k] + Width
  <2> SUFFICES ASSUME NEW j \in 1 .. n + 1, NEW k \in 1 .. n + 1, j < k PROVE h[j] < h[k] + Width
    OBVIOUS
  <2>1. j \in 1 .. n
    BY <1>3
  <2>2. CASE k \in 1 .. n
    BY <1>6, <1>8, <2>1, <2>2
  <2>3. CASE k = n + 1
    BY <1>5, <1>6, <1>8, <2>1, <2>3
  <2> QED
    BY <1>9, <2>2, <2>3
<1>12. \A j, k \in 1 .. n + 1 : all[j] = all[k] => j = k
  BY <1>3, <1>6, <1>7, <1>9
<1>13. Completed(all, highest', h)
  BY <1>3, <1>8, <1>10, <1>11, <1>12 DEF Completed
<1> QED
  BY <1>13 DEF all, h

\* Forgetting the first leaves the rest of the list in order.
LEMMA CompletedTail ==
  ASSUME sent \in Seq(Cells), NEW list \in Seq(Nat), NEW less \in Seq(Nat),
         Len(less) = Len(list) - 1, \A k \in 1 .. Len(less) : less[k] = list[k + 1],
         NEW high, NEW g, Completed(list, high, g)
  PROVE  Completed(less, high, [k \in 1 .. Len(less) |-> g[k + 1]])
<1> DEFINE n == Len(list)
           h == [k \in 1 .. Len(less) |-> g[k + 1]]
<1>1. /\ n \in Nat /\ Len(less) = n - 1
      /\ \A k \in 1 .. Len(less) : k \in Nat /\ k + 1 \in 1 .. n /\ h[k] = g[k + 1]
  OBVIOUS
<1>2. h \in [1 .. Len(less) -> DOMAIN sent]
  BY <1>1 DEF Completed
<1>3. \A k \in 1 .. Len(less) : h[k] <= high /\ SeqAt(h[k]) = less[k] /\ less[k] # 0
  BY <1>1 DEF Completed
<1>4. \A j, k \in 1 .. Len(less) : j < k => h[j] < h[k] + Width
  <2> SUFFICES ASSUME NEW j \in 1 .. Len(less), NEW k \in 1 .. Len(less), j < k
               PROVE  h[j] < h[k] + Width
    OBVIOUS
  <2>1. j + 1 < k + 1
    BY <1>1
  <2> QED
    BY <1>1, <2>1 DEF Completed
<1>5. \A j, k \in 1 .. Len(less) : less[j] = less[k] => j = k
  <2> SUFFICES ASSUME NEW j \in 1 .. Len(less), NEW k \in 1 .. Len(less), less[j] = less[k]
               PROVE  j = k
    OBVIOUS
  <2>1. list[j + 1] = list[k + 1] /\ j + 1 \in 1 .. n /\ k + 1 \in 1 .. n
    BY <1>1
  <2>2. j + 1 = k + 1
    BY <2>1 DEF Completed
  <2> QED
    BY <1>1, <2>2
<1> HIDE DEF h
<1>6. Completed(less, high, h)
  BY <1>2, <1>3, <1>4, <1>5 DEF Completed
<1> QED
  BY <1>6 DEF h

\* Feeding a cell keeps it so.
LEMMA OnceFeed ==
  ASSUME 2 * Width <= Remember + 1, BaseInv, OnceInv, NEW i \in DOMAIN sent, Feed(sent[i]),
         UNCHANGED <<counterVars, senderVars>>
  PROVE  OnceInv'
<1>1. /\ sent \in Seq(Cells) /\ queue \in Seq(Fragments) /\ delivered \in Seq(Nat)
      /\ WindowTypeOK /\ StreamInv
      /\ Remember \in Nat /\ Remember >= 1 /\ Width \in Nat /\ Width >= 1
      /\ DOMAIN sent \subseteq Nat
  <2>1. Remember \in Nat /\ Width \in Nat /\ Width >= 1
    BY WidthAssumption, LinkReceiverAssumption
  <2>2. Remember >= 1
    BY <2>1
  <2>3. /\ sent \in Seq(Cells) /\ queue \in Seq(Fragments) /\ delivered \in Seq(Nat)
        /\ WindowTypeOK /\ StreamInv
    BY DEF BaseInv, LinkInv, ReceiverInv, SendingTypeOK, SenderTypeOK
  <2> QED
    BY <2>1, <2>2, <2>3
<1>2. sent' = sent /\ queue' = queue
  BY DEF senderVars
<1>3. Record(i) /\ i \in Nat
  BY FeedOutcome DEF BaseInv
<1>4. /\ \A c \in DOMAIN sent : ~Fresh(c) => ~Fresh(c)'
      /\ ~Fresh(i)' /\ highest' \in Nat /\ highest \in Nat /\ highest <= highest'
  BY <1>1, <1>3, StaleStays DEF WindowTypeOK
<1>5. PICK g : Completed(delivered, highest, g)
  BY DEF OnceInv
<1>6. CASE UNCHANGED <<delivered, out>>
  <2>1. \A k \in 1 .. Len(delivered) : g[k] \in Nat
    BY <1>1, <1>5 DEF Completed
  <2>2. \A k \in 1 .. Len(delivered) : g[k] <= highest => g[k] <= highest'
    BY <1>4, <2>1
  <2>3. Completed(delivered, highest', g)
    BY <1>5, <2>2 DEF Completed
  <2>4. Completed(delivered, highest, g)'
    BY <1>2, <1>6, <2>3 DEF Completed, SeqAt
  <2> QED
    BY <1>2, <1>4, <1>6, <2>4 DEF OnceInv, SeqAt
<1>7. CASE ~UNCHANGED <<delivered, out>>
  <2> DEFINE s   == SeqAt(i)
             m   == sent[i].frag.msg
             all == Append(delivered, s)
             h   == [k \in 1 .. Len(all) |-> IF k = Len(all) THEN i ELSE g[k]]
  <2>1. /\ sent[i].frag # Cover /\ s \notin ToSet(delivered)
        /\ delivered' = RememberDelivered(s) /\ out' = Append(out, {m})
    BY <1>7, FeedIsGenuine DEF BaseInv
  <2>2. Completed(all, highest', h)
    BY <1>3, <1>5, <2>1, CompletedNext
  <2>3. s \in Nat
    <3>1. sent[i].frag \in Circulating
      BY DEF Circulating
    <3> QED
      BY <1>1, <2>1, <3>1, SenderAssumption
      DEF StreamInv, OneNumberEach, SeqAt, BaseInv, LinkInv, SendingTypeOK, SenderTypeOK
  <2>4. /\ all \in Seq(Nat) /\ Len(all) = Len(delivered) + 1
        /\ \A k \in 1 .. Len(all) : all[k] = IF k = Len(all) THEN s ELSE delivered[k]
        /\ \/ delivered' = all
           \/ /\ Len(all) > Remember
              /\ delivered' = Tail(all)
              /\ Len(Tail(all)) = Len(all) - 1
              /\ \A k \in 1 .. Len(Tail(all)) : Tail(all)[k] = all[k + 1]
    BY <1>1, <2>1, <2>3, RememberedExactly
  <2>5. ToSet(out') = ToSet(out) \cup {{m}}
    <3>1. out \in Seq({{n} : n \in queuedMsgs})
      BY DEF BaseInv, WholeOut
    <3> HIDE DEF m
    <3> QED
      BY <2>1, <3>1 DEF ToSet
  <2> HIDE DEF h
  <2>6. \E x : Completed(delivered', highest', x)
    <3>1. CASE delivered' = all
      BY <2>2, <3>1
    <3>2. CASE ~(delivered' = all)
      <4>1. Tail(all) \in Seq(Nat)
        BY <2>4
      <4> HIDE DEF all
      <4>2. Completed(Tail(all), highest', [k \in 1 .. Len(Tail(all)) |-> h[k + 1]])
        BY <1>1, <2>2, <2>4, <3>2, <4>1, CompletedTail
      <4> QED
        BY <2>4, <3>2, <4>2
    <3> QED
      BY <3>1, <3>2
  <2> HIDE DEF all
  <2>7. s \in ToSet(delivered')
    <3>1. Len(all) \in 1 .. Len(all) /\ all[Len(all)] = s /\ Len(all) \in Nat
      BY <1>1, <2>4
    <3>2. CASE delivered' = all
      BY <2>4, <3>1, <3>2 DEF ToSet
    <3>3. CASE ~(delivered' = all)
      <4>1. Len(all) - 1 \in 1 .. Len(Tail(all)) /\ (Len(all) - 1) + 1 = Len(all)
        BY <1>1, <2>4, <3>1, <3>3
      <4>2. Tail(all)[Len(all) - 1] = s
        BY <2>4, <3>1, <3>3, <4>1
      <4>3. Len(all) - 1 \in DOMAIN Tail(all)
        BY <2>4, <3>3, <4>1
      <4> QED
        BY <2>4, <3>3, <4>2, <4>3 DEF ToSet
    <3> QED
      BY <3>2, <3>3
  <2>8. ASSUME NEW x \in ToSet(delivered), x \notin ToSet(delivered')
        PROVE  x = all[1] /\ Len(all) >= 2 * Width
    <3>1. PICK k \in 1 .. Len(delivered) : x = delivered[k]
      BY <1>1 DEF ToSet
    <3>2. k \in 1 .. Len(all) /\ all[k] = x /\ k \in Nat /\ Len(delivered) \in Nat
      BY <1>1, <2>4, <3>1
    <3>3. ~(delivered' = all)
      BY <2>4, <2>8, <3>2 DEF ToSet
    <3>4. k = 1
      <4>1. SUFFICES ASSUME k # 1 PROVE FALSE
        OBVIOUS
      <4>2. k - 1 \in 1 .. Len(Tail(all)) /\ (k - 1) + 1 = k
        BY <2>4, <3>1, <3>2, <3>3, <4>1
      <4>3. Tail(all)[k - 1] = x /\ k - 1 \in DOMAIN Tail(all)
        BY <2>4, <3>2, <3>3, <4>2
      <4> QED
        BY <2>4, <2>8, <3>3, <4>3 DEF ToSet
    <3>5. Len(all) >= 2 * Width
      BY <1>1, <2>4, <3>2, <3>3
    <3> QED
      BY <3>2, <3>4, <3>5
  <2>9. ASSUME NEW x \in ToSet(delivered), x \notin ToSet(delivered')
        PROVE  /\ \A c \in DOMAIN sent : SeqAt(c) = x => ~Fresh(c)'
               /\ \A k \in DOMAIN queue : queue[k].seq # x
    <3>1. /\ \A c \in DOMAIN sent : SeqAt(c) = x => highest' - c >= Width
          /\ \A k \in DOMAIN queue : queue[k].seq # x
      BY <1>1, <1>4, <2>2, <2>4, <2>8, <2>9, ForgottenIsStale
    <3>2. \A c \in DOMAIN sent : highest' - c >= Width => c <= highest' /\ ~(highest' - c < Width)
      BY <1>1, <1>4
    <3> QED
      BY <3>1, <3>2 DEF Fresh
  <2>10. \A f \in Circulating : f # Cover /\ f.msg = m => f.seq = s
    <3>1. sent[i].frag \in Circulating
      BY DEF Circulating
    <3> QED
      BY <1>1, <2>1, <3>1 DEF StreamInv, OneNumberEach, SeqAt
  <2>11. ASSUME NEW c \in DOMAIN sent, sent[c].frag # Cover, {sent[c].frag.msg} \in ToSet(out')
         PROVE  SeqAt(c) \in ToSet(delivered') \/ ~Fresh(c)'
    <3>1. CASE sent[c].frag.msg = m
      <4>1. sent[c].frag \in Circulating
        BY DEF Circulating
      <4> QED
        BY <2>7, <2>10, <2>11, <3>1, <4>1 DEF SeqAt
    <3>2. CASE sent[c].frag.msg # m
      <4>1. SeqAt(c) \in ToSet(delivered) \/ ~Fresh(c)
        BY <2>5, <2>11, <3>2 DEF OnceInv
      <4> QED
        BY <1>4, <2>9, <4>1
    <3> QED
      BY <3>1, <3>2
  <2>12. ASSUME NEW k \in DOMAIN queue, {queue[k].msg} \in ToSet(out')
         PROVE  queue[k].seq \in ToSet(delivered')
    <3>1. queue[k] \in Circulating /\ queue[k] # Cover
      BY <1>1, SenderAssumption DEF Circulating, Fragments, Cover
    <3>2. CASE queue[k].msg = m
      BY <2>7, <2>10, <3>1, <3>2
    <3>3. CASE queue[k].msg # m
      <4>1. queue[k].seq \in ToSet(delivered)
        BY <2>5, <2>12, <3>3 DEF OnceInv
      <4> QED
        BY <2>9, <4>1
    <3> QED
      BY <3>2, <3>3
  <2>13. \E x : Completed(delivered, highest, x)'
    BY <1>2, <2>6 DEF Completed, SeqAt
  <2>14. \A c \in DOMAIN sent : sent[c].frag # Cover /\ {sent[c].frag.msg} \in ToSet(out)' =>
           SeqAt(c)' \in ToSet(delivered)' \/ ~Fresh(c)'
    BY <1>2, <2>11 DEF SeqAt
  <2> QED
    BY <1>2, <2>12, <2>13, <2>14 DEF OnceInv
<1> QED
  BY <1>6, <1>7

\* What the sending end emits was queued, or is cover.
LEMMA EmittedWasQueued ==
  ASSUME SendingTypeOK, [Next]_vars
  PROVE  /\ \A i \in DOMAIN sent' :
              \/ i \in DOMAIN sent /\ sent'[i] = sent[i]
              \/ sent'[i].frag = Cover
              \/ i = Len(sent) + 1 /\ queue # << >> /\ 1 \in DOMAIN queue /\ sent'[i].frag = queue[1]
                 /\ queue' = Tail(queue)
         /\ \A k \in DOMAIN queue' :
              \/ \E j \in DOMAIN queue : queue'[k] = queue[j]
              \/ \E m \in Messages : /\ Enqueue(m)
                                     /\ \E j \in DOMAIN FragmentsOf(m) : queue'[k] = FragmentsOf(m)[j]
<1>1. queue \in Seq(Fragments) /\ sent \in Seq(Cells) /\ msgSeq \in Nat
  BY SenderAssumption DEF SendingTypeOK, SenderTypeOK
<1>2. ASSUME NEW m \in Messages, Enqueue(m), NEW k \in DOMAIN queue'
      PROVE  \/ \E j \in DOMAIN queue : queue'[k] = queue[j]
             \/ \E j \in DOMAIN FragmentsOf(m) : queue'[k] = FragmentsOf(m)[j]
  <2> DEFINE more == FragmentsOf(m)
  <2>1. more \in Seq(Fragments)
    BY <1>1, FragmentsType
  <2>2. queue' = queue \o more
    BY <1>2 DEF Enqueue
  <2> HIDE DEF more
  <2>3. /\ queue' \in Seq(Fragments) /\ Len(queue') = Len(queue) + Len(more)
        /\ \A i \in 1 .. Len(queue) + Len(more) :
             queue'[i] = IF i <= Len(queue) THEN queue[i] ELSE more[i - Len(queue)]
    BY <1>1, <2>1, <2>2, ConcatProperties
  <2>4. k \in 1 .. Len(queue) + Len(more) /\ Len(queue) \in Nat /\ Len(more) \in Nat
    BY <1>1, <2>1, <2>3
  <2>5. CASE k <= Len(queue)
    BY <1>1, <2>3, <2>4, <2>5
  <2>6. CASE ~(k <= Len(queue))
    <3>1. k - Len(queue) \in DOMAIN more /\ queue'[k] = more[k - Len(queue)]
      BY <2>1, <2>3, <2>4, <2>6
    <3> QED
      BY <3>1 DEF more
  <2> QED
    BY <2>5, <2>6
<1>3. CASE TickData
  <2>1. queue # << >> /\ queue' = Tail(queue) /\ sent' = Append(sent, [counter |-> next, frag |-> Head(queue)])
    BY <1>3 DEF TickData, Emit
  <2>2. /\ 1 \in DOMAIN queue /\ Head(queue) = queue[1]
        /\ \A k \in DOMAIN queue' : k + 1 \in DOMAIN queue /\ queue'[k] = queue[k + 1]
    BY <1>1, <2>1, HeadTailProperties
  <2>3. ASSUME NEW i \in DOMAIN sent'
        PROVE  \/ i \in DOMAIN sent /\ sent'[i] = sent[i]
               \/ i = Len(sent) + 1 /\ sent'[i].frag = queue[1]
    BY <1>1, <2>1, <2>2, <2>3
  <2> QED
    BY <2>1, <2>2, <2>3
<1>4. CASE TickCover
  <2>1. queue' = queue /\ sent' = Append(sent, [counter |-> next, frag |-> Cover])
    BY <1>4 DEF TickCover, Emit
  <2>2. ASSUME NEW i \in DOMAIN sent'
        PROVE  \/ i \in DOMAIN sent /\ sent'[i] = sent[i]
               \/ sent'[i].frag = Cover
    BY <1>1, <2>1, <2>2
  <2> QED
    BY <2>1, <2>2
<1>5. CASE Restart
  BY <1>5 DEF Restart, SenderRestart
<1>6. ASSUME UNCHANGED <<queue, sent>>
      PROVE  /\ \A i \in DOMAIN sent' : i \in DOMAIN sent /\ sent'[i] = sent[i]
             /\ \A k \in DOMAIN queue' : k \in DOMAIN queue /\ queue'[k] = queue[k]
  BY <1>6
<1>7. ASSUME NEW m \in Messages, Enqueue(m)
      PROVE  \A i \in DOMAIN sent' : i \in DOMAIN sent /\ sent'[i] = sent[i]
  BY <1>7 DEF Enqueue
<1> QED
  BY <1>2, <1>3, <1>4, <1>5, <1>6, <1>7 DEF Next, Sender, ReserveBlock, vars, senderVars

\* What was never queued has not come out.
LEMMA NewIsUnsaid ==
  ASSUME WholeOut, NEW m, m \notin queuedMsgs
  PROVE  {m} \notin ToSet(out)
<1> DEFINE S == {{n} : n \in queuedMsgs}
<1>1. out \in Seq(S)
  BY DEF WholeOut
<1>2. \A x \in ToSet(out) : x \in S
  <2> HIDE DEF S
  <2> QED
    BY <1>1 DEF ToSet
<1>3. {m} \notin S
  OBVIOUS
<1> HIDE DEF S
<1> QED
  BY <1>2, <1>3

\* No other step forgets or hands on anything.
LEMMA OnceNext ==
  ASSUME 2 * Width <= Remember + 1, BaseInv, OnceInv, [Next]_vars
  PROVE  OnceInv'
<1>1. CASE Arrive /\ UNCHANGED <<counterVars, senderVars>>
  <2>1. PICK i \in DOMAIN sent : Feed(sent[i])
    BY <1>1 DEF Arrive
  <2> QED
    BY <1>1, <2>1, OnceFeed
<1>2. CASE UNCHANGED <<windowVars, receiverVars>>
  <2>1. /\ SendingTypeOK /\ queue \in Seq(Fragments) /\ msgSeq \in Nat /\ WholeOut
    BY SenderAssumption DEF BaseInv, LinkInv, SendingTypeOK, SenderTypeOK
  <2>2. delivered' = delivered /\ out' = out /\ highest' = highest /\ seen' = seen
    BY <1>2 DEF windowVars, receiverVars
  <2>3. ASSUME NEW i \in DOMAIN sent', sent'[i].frag # Cover, {sent'[i].frag.msg} \in ToSet(out)
        PROVE  sent'[i].frag.seq \in ToSet(delivered) \/ ~Fresh(i)
    <3>1. CASE i \in DOMAIN sent /\ sent'[i] = sent[i]
      BY <2>3, <3>1 DEF OnceInv, SeqAt
    <3>2. CASE 1 \in DOMAIN queue /\ sent'[i].frag = queue[1]
      BY <2>3, <3>2 DEF OnceInv
    <3> QED
      BY <2>1, <2>3, <3>1, <3>2, EmittedWasQueued
  <2>4. ASSUME NEW k \in DOMAIN queue', {queue'[k].msg} \in ToSet(out)
        PROVE  queue'[k].seq \in ToSet(delivered)
    <3>1. CASE \E j \in DOMAIN queue : queue'[k] = queue[j]
      BY <2>4, <3>1 DEF OnceInv
    <3>2. ASSUME NEW m \in Messages, Enqueue(m),
                 NEW j \in DOMAIN FragmentsOf(m), queue'[k] = FragmentsOf(m)[j]
          PROVE  FALSE
      <4>1. queue'[k].msg = m /\ m \notin queuedMsgs
        BY <2>1, <3>2, FragmentsCut DEF Enqueue
      <4> QED
        BY <2>1, <2>4, <4>1, NewIsUnsaid
    <3> QED
      BY <2>1, <3>1, <3>2, EmittedWasQueued
  <2>5. PICK g : Completed(delivered, highest, g)
    BY DEF OnceInv
  <2>6. Completed(delivered, highest, g)'
    <3>1. \A i \in DOMAIN sent : i \in DOMAIN sent' /\ sent'[i] = sent[i]
      BY <2>1, SentStays
    <3>2. \A k \in 1 .. Len(delivered) : g[k] \in DOMAIN sent
      BY <2>5 DEF Completed
    <3> QED
      BY <2>2, <2>5, <3>1, <3>2 DEF Completed, SeqAt
  <2>7. \A i : Fresh(i)' <=> Fresh(i)
    BY <2>2 DEF Fresh
  <2> QED
    BY <2>2, <2>3, <2>4, <2>6, <2>7 DEF OnceInv, SeqAt
<1> QED
  BY <1>1, <1>2 DEF Next, vars

-----------------------------------------------------------------------------
(***************************************************************************)
(* Once, for a link that sends one copy: whatever the receiving end        *)
(* remembers, the cells of a message handed on are spent.                  *)
(***************************************************************************)

SamePart(f, g) == f.seq = g.seq /\ f.idx = g.idx

\* Every part of a message is in one cell emitted or in one fragment queued.
OneCellEach ==
  /\ \A i, j \in DOMAIN sent :
       SamePart(sent[i].frag, sent[j].frag) /\ sent[i].frag # Cover /\ sent[j].frag # Cover => i = j
  /\ \A j, k \in DOMAIN queue : SamePart(queue[j], queue[k]) => j = k
  /\ \A i \in DOMAIN sent, k \in DOMAIN queue :
       sent[i].frag # Cover => ~SamePart(sent[i].frag, queue[k])

\* The cells of the parts a message in the buffer has are spent.
PartsSpent(s, parts) ==
  /\ \A i \in DOMAIN sent :
       sent[i].frag # Cover /\ SeqAt(i) = s /\ sent[i].frag.idx \in parts => ~Fresh(i)
  /\ \A k \in DOMAIN queue : ~(queue[k].seq = s /\ queue[k].idx \in parts)

HeldSpent == \A s \in DOMAIN open : PartsSpent(s, DOMAIN open[s].frags)

\* So are all cells of a message handed on.
SaidSpent ==
  /\ \A i \in DOMAIN sent :
       sent[i].frag # Cover /\ {sent[i].frag.msg} \in ToSet(out) => ~Fresh(i)
  /\ \A k \in DOMAIN queue : {queue[k].msg} \notin ToSet(out)

SpentInv == OneCellEach /\ HeldSpent /\ SaidSpent

\* One copy of a message holds every part once.
LEMMA OnePartEach ==
  ASSUME Copies = 1, msgSeq \in Nat, NEW m \in Messages,
         NEW j \in DOMAIN FragmentsOf(m), NEW k \in DOMAIN FragmentsOf(m),
         FragmentsOf(m)[j].idx = FragmentsOf(m)[k].idx
  PROVE  j = k
<1> DEFINE n == FragCount[m]
<1>1. n \in Nat /\ n >= 1
  BY SenderAssumption
<1>2. DOMAIN FragmentsOf(m) = 1 .. n
  <2>1. Copies * n = n
    BY <1>1
  <2> QED
    BY <2>1 DEF FragmentsOf
<1>3. ASSUME NEW a \in 1 .. n PROVE FragmentsOf(m)[a].idx = a - 1
  <2>1. FragmentsOf(m)[a] = CopyOf(m, ((a - 1) % n) + 1)
    BY <1>2 DEF FragmentsOf
  <2>2. a - 1 \in Nat /\ a - 1 < n
    <3> HIDE DEF n
    <3> QED
      BY <1>1
  <2>3. (a - 1) % n = a - 1
    <3> DEFINE b == a - 1
    <3>1. b \in Nat /\ b < n
      BY <2>2
    <3> HIDE DEF b, n
    <3>2. b % n = b
      BY <1>1, <3>1
    <3> QED
      BY <3>2 DEF b
  <2>4. CopyOf(m, (a - 1) + 1).idx = a - 1
    <3>1. CopyOf(m, (a - 1) + 1).idx = ((a - 1) + 1) - 1
      BY DEF CopyOf
    <3> QED
      BY <2>2, <3>1
  <2> QED
    BY <2>1, <2>3, <2>4
<1> QED
  BY <1>1, <1>2, <1>3

\* Feeding a cell spends it, and with the last part of a message all its cells.
LEMMA SpentFeed ==
  ASSUME BaseInv, SpentInv, NEW i \in DOMAIN sent, Feed(sent[i]),
         UNCHANGED <<counterVars, senderVars>>
  PROVE  SpentInv'
<1> DEFINE f == sent[i].frag
<1>1. /\ sent' = sent /\ queue' = queue
      /\ sent \in Seq(Cells) /\ queue \in Seq(Fragments) /\ WindowTypeOK /\ DOMAIN sent \subseteq Nat
  <2>1. sent \in Seq(Cells) /\ queue \in Seq(Fragments) /\ WindowTypeOK
    BY DEF BaseInv, LinkInv, SendingTypeOK, SenderTypeOK
  <2> QED
    BY <2>1 DEF senderVars
<1>2. Record(i) /\ i \in Nat
  BY FeedOutcome DEF BaseInv
<1>3. /\ \A c \in DOMAIN sent : ~Fresh(c) => ~Fresh(c)'
      /\ ~Fresh(i)'
  BY <1>1, <1>2, StaleStays
<1>4. OneCellEach'
  BY <1>1 DEF SpentInv, OneCellEach
<1>5. ASSUME NEW s \in DOMAIN open
      PROVE  PartsSpent(s, DOMAIN open[s].frags)
  BY DEF SpentInv, HeldSpent
<1>6. ASSUME f # Cover, NEW partial, Grown(open, f, partial)
      PROVE  /\ \A c \in DOMAIN sent :
                  sent[c].frag # Cover /\ SeqAt(c) = f.seq /\ sent[c].frag.idx \in DOMAIN partial.frags =>
                    ~Fresh(c)'
             /\ \A k \in DOMAIN queue :
                  ~(queue[k].seq = f.seq /\ queue[k].idx \in DOMAIN partial.frags)
  <2>1. \A x \in DOMAIN partial.frags : x # f.idx => f.seq \in DOMAIN open /\ x \in DOMAIN open[f.seq].frags
    BY <1>6 DEF Grown
  <2>2. ASSUME NEW c \in DOMAIN sent, sent[c].frag # Cover, SeqAt(c) = f.seq,
               sent[c].frag.idx \in DOMAIN partial.frags
        PROVE  ~Fresh(c)'
    <3>1. CASE sent[c].frag.idx = f.idx
      <4>1. c = i
        BY <1>6, <2>2, <3>1 DEF SpentInv, OneCellEach, SamePart, SeqAt
      <4> QED
        BY <1>3, <4>1
    <3>2. CASE sent[c].frag.idx # f.idx
      BY <1>3, <1>5, <2>1, <2>2, <3>2 DEF PartsSpent
    <3> QED
      BY <3>1, <3>2
  <2>3. ASSUME NEW k \in DOMAIN queue, queue[k].seq = f.seq, queue[k].idx \in DOMAIN partial.frags
        PROVE  FALSE
    <3>1. CASE queue[k].idx = f.idx
      BY <1>6, <2>3, <3>1 DEF SpentInv, OneCellEach, SamePart
    <3>2. CASE queue[k].idx # f.idx
      BY <1>5, <2>1, <2>3, <3>2 DEF PartsSpent
    <3> QED
      BY <3>1, <3>2
  <2> QED
    BY <2>2, <2>3
<1>7. /\ \A s \in DOMAIN open' :
           \/ s \in DOMAIN open /\ open'[s] = open[s]
           \/ s = SeqAt(i) /\ f # Cover /\ Grown(open, f, open'[s])
      /\ \/ UNCHANGED <<delivered, out>>
         \/ \E partial : f # Cover /\ Grown(open, f, partial) /\ DOMAIN partial.frags = 0 .. f.count - 1
  BY FeedOutcome DEF BaseInv
<1>8. HeldSpent'
  <2> SUFFICES ASSUME NEW s \in DOMAIN open' PROVE PartsSpent(s, DOMAIN open[s].frags)'
    BY DEF HeldSpent
  <2>1. CASE s \in DOMAIN open /\ open'[s] = open[s]
    BY <1>1, <1>3, <1>5, <2>1 DEF PartsSpent, SeqAt
  <2>2. CASE s = SeqAt(i) /\ f # Cover /\ Grown(open, f, open'[s])
    <3>1. /\ \A c \in DOMAIN sent :
               sent[c].frag # Cover /\ SeqAt(c) = f.seq /\ sent[c].frag.idx \in DOMAIN open'[s].frags =>
                 ~Fresh(c)'
          /\ \A k \in DOMAIN queue :
               ~(queue[k].seq = f.seq /\ queue[k].idx \in DOMAIN open'[s].frags)
      BY <1>6, <2>2
    <3> QED
      BY <1>1, <2>2, <3>1 DEF PartsSpent, SeqAt
  <2> QED
    BY <1>7, <2>1, <2>2
<1>9. CASE UNCHANGED <<delivered, out>>
  <2>1. SaidSpent'
    BY <1>1, <1>3, <1>9 DEF SpentInv, SaidSpent
  <2> QED
    BY <1>4, <1>8, <2>1 DEF SpentInv
<1>10. CASE ~UNCHANGED <<delivered, out>>
  <2>1. PICK partial : f # Cover /\ Grown(open, f, partial) /\ DOMAIN partial.frags = 0 .. f.count - 1
    BY <1>7, <1>10
  <2>2. out' = Append(out, {f.msg})
    BY <1>10, FeedIsGenuine DEF BaseInv
  <2>3. ToSet(out') = ToSet(out) \cup {{f.msg}}
    <3>1. out \in Seq({{n} : n \in queuedMsgs})
      BY DEF BaseInv, WholeOut
    <3> HIDE DEF f
    <3> QED
      BY <2>2, <3>1 DEF ToSet
  <2>4. ASSUME NEW g \in Circulating, g # Cover, g.msg = f.msg
        PROVE  g.seq = f.seq /\ g.idx \in DOMAIN partial.frags
    <3>1. f \in Circulating
      BY DEF Circulating
    <3>2. g.seq = f.seq
      BY <2>1, <2>4, <3>1 DEF BaseInv, StreamInv, OneNumberEach
    <3>3. g.idx \in Nat /\ g.idx < g.count /\ g.count = f.count /\ g.count \in Nat
      BY <2>1, <2>4, <3>1 DEF BaseInv, LinkInv, FragmentsWhole, CutFrom, Fragments
    <3>4. g.idx \in 0 .. f.count - 1
      BY <3>3
    <3> QED
      BY <2>1, <3>2, <3>4
  <2>5. ASSUME NEW c \in DOMAIN sent, sent[c].frag # Cover, {sent[c].frag.msg} \in ToSet(out')
        PROVE  ~Fresh(c)'
    <3>1. CASE sent[c].frag.msg = f.msg
      <4>1. sent[c].frag \in Circulating
        BY DEF Circulating
      <4>2. SeqAt(c) = f.seq /\ sent[c].frag.idx \in DOMAIN partial.frags
        BY <2>4, <2>5, <3>1, <4>1 DEF SeqAt
      <4> QED
        BY <1>6, <2>1, <2>5, <4>2
    <3>2. CASE sent[c].frag.msg # f.msg
      BY <1>3, <2>3, <2>5, <3>2 DEF SpentInv, SaidSpent
    <3> QED
      BY <3>1, <3>2
  <2>6. ASSUME NEW k \in DOMAIN queue, {queue[k].msg} \in ToSet(out')
        PROVE  FALSE
    <3>1. queue[k] \in Circulating /\ queue[k] # Cover
      BY <1>1, SenderAssumption DEF Circulating, Fragments, Cover
    <3>2. CASE queue[k].msg = f.msg
      <4>1. queue[k].seq = f.seq /\ queue[k].idx \in DOMAIN partial.frags
        BY <2>4, <3>1, <3>2
      <4> QED
        BY <1>6, <2>1, <4>1
    <3>3. CASE queue[k].msg # f.msg
      BY <2>3, <2>6, <3>3 DEF SpentInv, SaidSpent
    <3> QED
      BY <3>2, <3>3
  <2>7. SaidSpent'
    BY <1>1, <2>5, <2>6 DEF SaidSpent
  <2> QED
    BY <1>4, <1>8, <2>7 DEF SpentInv
<1> QED
  BY <1>9, <1>10

\* Enqueueing a message adds every part of it once, under a number of its own.
LEMMA EnqueueIsOneCellEach ==
  ASSUME Copies = 1, BaseInv, OneCellEach, NEW m \in Messages, Enqueue(m)
  PROVE  OneCellEach'
<1> DEFINE more == FragmentsOf(m)
           n    == Len(queue)
<1>1. queue \in Seq(Fragments) /\ sent \in Seq(Cells) /\ msgSeq \in Nat /\ n \in Nat
  BY SenderAssumption DEF BaseInv, LinkInv, SendingTypeOK, SenderTypeOK
<1>2. more \in Seq(Fragments)
  BY <1>1, FragmentsType
<1>3. /\ \A j \in DOMAIN more : more[j].seq = msgSeq + 1
      /\ \A j, k \in DOMAIN more : more[j].idx = more[k].idx => j = k
  BY <1>1, FragmentsCut, OnePartEach
<1>4. sent' = sent /\ queue' = queue \o more
  BY DEF Enqueue
<1>5. /\ \A i \in DOMAIN sent : sent[i].frag # Cover => sent[i].frag.seq # msgSeq + 1
      /\ \A k \in DOMAIN queue : queue[k].seq # msgSeq + 1
  <2>1. \A f \in Circulating : f # Cover => f.seq # msgSeq + 1
    BY <1>1 DEF BaseInv, StreamInv, OneNumberEach
  <2>2. \A k \in DOMAIN queue : queue[k] # Cover
    BY <1>1, SenderAssumption DEF Fragments, Cover
  <2> QED
    BY <2>1, <2>2 DEF Circulating
<1> HIDE DEF more
<1>6. ASSUME NEW k \in DOMAIN queue'
      PROVE  \/ k \in DOMAIN queue /\ k <= n /\ queue'[k] = queue[k]
             \/ k > n /\ k - n \in DOMAIN more /\ queue'[k] = more[k - n]
  <2>1. /\ queue' \in Seq(Fragments) /\ Len(queue') = n + Len(more)
        /\ \A i \in 1 .. n + Len(more) : queue'[i] = IF i <= n THEN queue[i] ELSE more[i - n]
    BY <1>1, <1>2, <1>4, ConcatProperties
  <2>2. k \in 1 .. n + Len(more) /\ Len(more) \in Nat
    BY <1>2, <2>1
  <2> QED
    BY <1>1, <1>2, <2>1, <2>2
<1>7. DOMAIN queue' \subseteq Nat
  <2>1. queue' \in Seq(Fragments)
    BY <1>1, <1>2, <1>4, ConcatProperties
  <2> QED
    BY <2>1
<1>8. ASSUME NEW j \in DOMAIN queue', NEW k \in DOMAIN queue', SamePart(queue'[j], queue'[k])
      PROVE  j = k
  <2>1. CASE j <= n /\ k <= n
    BY <1>1, <1>6, <1>7, <1>8, <2>1 DEF OneCellEach
  <2>2. CASE j > n /\ k > n
    <3>1. j - n \in DOMAIN more /\ k - n \in DOMAIN more /\ more[j - n].idx = more[k - n].idx
      BY <1>1, <1>6, <1>7, <1>8, <2>2 DEF SamePart
    <3>2. j - n = k - n
      BY <1>3, <3>1
    <3> QED
      BY <1>1, <1>7, <3>2
  <2>3. CASE (j <= n /\ k > n) \/ (j > n /\ k <= n)
    BY <1>1, <1>3, <1>5, <1>6, <1>7, <1>8, <2>3 DEF SamePart
  <2> QED
    BY <1>1, <1>7, <2>1, <2>2, <2>3
<1>9. ASSUME NEW i \in DOMAIN sent, NEW k \in DOMAIN queue', sent[i].frag # Cover
      PROVE  ~SamePart(sent[i].frag, queue'[k])
  BY <1>3, <1>5, <1>6, <1>9 DEF SamePart, OneCellEach
<1> QED
  BY <1>4, <1>8, <1>9 DEF OneCellEach

\* Emitting the head of the queue moves one part from the queue to the cells.
LEMMA TickIsOneCellEach ==
  ASSUME BaseInv, OneCellEach, TickData
  PROVE  OneCellEach'
<1>1. queue \in Seq(Fragments) /\ sent \in Seq(Cells)
  BY DEF BaseInv, LinkInv, SendingTypeOK, SenderTypeOK
<1>2. queue # << >> /\ queue' = Tail(queue) /\ sent' = Append(sent, [counter |-> next, frag |-> Head(queue)])
  BY DEF TickData, Emit
<1>3. /\ 1 \in DOMAIN queue /\ Head(queue) = queue[1]
      /\ \A k \in DOMAIN queue' : k \in Nat /\ k >= 1 /\ k + 1 \in DOMAIN queue /\ queue'[k] = queue[k + 1]
  BY <1>1, <1>2, HeadTailProperties
<1>4. \A i \in DOMAIN sent' :
        \/ i \in DOMAIN sent /\ sent'[i].frag = sent[i].frag
        \/ i = Len(sent) + 1 /\ sent'[i].frag = queue[1]
  BY <1>1, <1>2, <1>3
<1>5. ASSUME NEW i \in DOMAIN sent', NEW j \in DOMAIN sent',
             SamePart(sent'[i].frag, sent'[j].frag), sent'[i].frag # Cover, sent'[j].frag # Cover
      PROVE  i = j
  <2>1. SamePart(sent'[j].frag, sent'[i].frag)
    BY <1>5 DEF SamePart
  <2> QED
    BY <1>3, <1>4, <1>5, <2>1 DEF OneCellEach
<1>6. ASSUME NEW j \in DOMAIN queue', NEW k \in DOMAIN queue', SamePart(queue'[j], queue'[k])
      PROVE  j = k
  <2>1. j + 1 = k + 1
    BY <1>3, <1>6 DEF OneCellEach
  <2> QED
    BY <1>3, <2>1
<1>7. ASSUME NEW i \in DOMAIN sent', NEW k \in DOMAIN queue', sent'[i].frag # Cover,
             SamePart(sent'[i].frag, queue'[k])
      PROVE  FALSE
  <2>1. CASE i \in DOMAIN sent /\ sent'[i].frag = sent[i].frag
    BY <1>3, <1>7, <2>1 DEF OneCellEach
  <2>2. CASE sent'[i].frag = queue[1]
    <3>1. 1 = k + 1
      BY <1>3, <1>7, <2>2 DEF OneCellEach
    <3> QED
      BY <1>3, <3>1
  <2> QED
    BY <1>4, <2>1, <2>2
<1> QED
  BY <1>5, <1>6, <1>7 DEF OneCellEach

\* The sending end's own steps spend nothing and repeat nothing.
LEMMA SpentSend ==
  ASSUME MaxRestarts = 0, Copies = 1, BaseInv, SpentInv, [Next]_vars,
         UNCHANGED <<windowVars, receiverVars>>
  PROVE  SpentInv'
<1>1. /\ SendingTypeOK /\ queue \in Seq(Fragments) /\ sent \in Seq(Cells) /\ msgSeq \in Nat
      /\ WholeOut /\ restarts \in Nat
  BY SenderAssumption DEF BaseInv, LinkInv, SendingTypeOK, SenderTypeOK
<1>2. /\ open' = open /\ out' = out /\ highest' = highest /\ seen' = seen
      /\ \A i : Fresh(i)' <=> Fresh(i)
  BY DEF windowVars, receiverVars, Fresh
<1>3. \A i \in DOMAIN sent' :
        \/ i \in DOMAIN sent /\ sent'[i] = sent[i]
        \/ sent'[i].frag = Cover
        \/ 1 \in DOMAIN queue /\ sent'[i].frag = queue[1]
  BY <1>1, EmittedWasQueued
<1>4. ASSUME NEW k \in DOMAIN queue'
      PROVE  \/ \E j \in DOMAIN queue : queue'[k] = queue[j]
             \/ \E m \in Messages : m \notin queuedMsgs /\ queue'[k].msg = m /\ queue'[k].seq = msgSeq + 1
  <2>1. ASSUME NEW m \in Messages, Enqueue(m), NEW j \in DOMAIN FragmentsOf(m)
        PROVE  m \notin queuedMsgs /\ FragmentsOf(m)[j].msg = m /\ FragmentsOf(m)[j].seq = msgSeq + 1
    BY <1>1, <2>1, FragmentsCut DEF Enqueue
  <2> QED
    BY <1>1, <2>1, EmittedWasQueued
<1>5. OneCellEach'
  <2>1. ASSUME NEW m \in Messages, Enqueue(m) PROVE OneCellEach'
    BY <2>1, EnqueueIsOneCellEach DEF SpentInv
  <2>2. CASE TickData
    BY <2>2, TickIsOneCellEach DEF SpentInv
  <2>3. CASE TickCover
    <3>1. queue' = queue /\ sent' = Append(sent, [counter |-> next, frag |-> Cover])
      BY <2>3 DEF TickCover, Emit
    <3>2. \A i \in DOMAIN sent' : (i \in DOMAIN sent /\ sent'[i] = sent[i]) \/ sent'[i].frag = Cover
      BY <1>1, <3>1
    <3> QED
      BY <3>1, <3>2 DEF SpentInv, OneCellEach
  <2>4. ~Restart
    BY <1>1 DEF Restart
  <2>5. ASSUME UNCHANGED <<queue, sent>> PROVE OneCellEach'
    BY <2>5 DEF SpentInv, OneCellEach
  <2> QED
    BY <2>1, <2>2, <2>3, <2>4, <2>5 DEF Next, Sender, Arrive, ReserveBlock, vars, senderVars
<1>6. ASSUME NEW s \in DOMAIN open PROVE s # msgSeq + 1
  <2>1. PICK i \in DOMAIN sent : SeqAt(i) = s /\ sent[i].frag # Cover
    BY DEF BaseInv, GenuineOpen
  <2>2. sent[i].frag \in Circulating
    BY DEF Circulating
  <2> QED
    BY <1>1, <2>1, <2>2 DEF BaseInv, StreamInv, OneNumberEach, SeqAt
<1>7. HeldSpent'
  <2> SUFFICES ASSUME NEW s \in DOMAIN open PROVE PartsSpent(s, DOMAIN open[s].frags)'
    BY <1>2 DEF HeldSpent
  <2>1. PartsSpent(s, DOMAIN open[s].frags)
    BY DEF SpentInv, HeldSpent
  <2>2. ASSUME NEW i \in DOMAIN sent', sent'[i].frag # Cover, sent'[i].frag.seq = s,
               sent'[i].frag.idx \in DOMAIN open[s].frags
        PROVE  ~Fresh(i)
    BY <1>3, <2>1, <2>2 DEF PartsSpent, SeqAt
  <2>3. ASSUME NEW k \in DOMAIN queue', queue'[k].seq = s, queue'[k].idx \in DOMAIN open[s].frags
        PROVE  FALSE
    BY <1>4, <1>6, <2>1, <2>3 DEF PartsSpent
  <2> QED
    BY <1>2, <2>2, <2>3 DEF PartsSpent, SeqAt
<1>8. SaidSpent'
  <2>1. ASSUME NEW i \in DOMAIN sent', sent'[i].frag # Cover, {sent'[i].frag.msg} \in ToSet(out)
        PROVE  ~Fresh(i)
    BY <1>3, <2>1 DEF SpentInv, SaidSpent
  <2>2. ASSUME NEW k \in DOMAIN queue', {queue'[k].msg} \in ToSet(out)
        PROVE  FALSE
    BY <1>1, <1>4, <2>2, NewIsUnsaid DEF SpentInv, SaidSpent
  <2> QED
    BY <1>2, <2>1, <2>2 DEF SaidSpent
<1> QED
  BY <1>5, <1>7, <1>8 DEF SpentInv

\* Feeding a cell or any other step, for a link of one copy.
LEMMA SpentNext ==
  ASSUME MaxRestarts = 0, Copies = 1, BaseInv, SpentInv, [Next]_vars
  PROVE  SpentInv'
<1>1. CASE Arrive /\ UNCHANGED <<counterVars, senderVars>>
  <2>1. PICK i \in DOMAIN sent : Feed(sent[i])
    BY <1>1 DEF Arrive
  <2> QED
    BY <1>1, <2>1, SpentFeed
<1>2. CASE UNCHANGED <<windowVars, receiverVars>>
  BY <1>2, SpentSend
<1> QED
  BY <1>1, <1>2 DEF Next, vars

\* Without restarts every link implements the channel, whatever its window, its copies
\* and its memory: what comes out was put in, whole, and not again while the receiving
\* end remembers it.  A link that sends one copy, or remembers one message less than
\* twice its window is wide, hands a message on once and never again.
ChannelInv ==
  /\ LastRemembered
  /\ 2 * Width <= Remember + 1 => OnceInv
  /\ Copies = 1 => SpentInv

THEOREM LinkImplementsChannel ==
  ASSUME MaxRestarts = 0
  PROVE  Spec => ChannelSpec
<1>1. Init => ChannelInv
  <2> SUFFICES ASSUME Init PROVE ChannelInv
    OBVIOUS
  <2>1. queue = << >> /\ sent = << >> /\ delivered = << >> /\ out = << >> /\ open = NoneOpen
    BY DEF Init, SenderInit, ReceiverInit
  <2>2. DOMAIN sent = {} /\ DOMAIN queue = {} /\ DOMAIN open = {} /\ Len(delivered) = 0 /\ Len(out) = 0
    BY <2>1 DEF NoneOpen
  <2>3. Completed(delivered, highest, << >>)
    BY <2>1, <2>2 DEF Completed
  <2>4. OnceInv
    BY <2>2, <2>3 DEF OnceInv
  <2>5. SpentInv
    BY <2>2 DEF SpentInv, OneCellEach, HeldSpent, SaidSpent
  <2>6. LastRemembered
    BY <2>2 DEF LastRemembered
  <2> QED
    BY <2>4, <2>5, <2>6 DEF ChannelInv
<1>2. BaseInv /\ ChannelInv /\ [Next]_vars => ChannelInv'
  BY LastRememberedNext, OnceNext, SpentNext DEF ChannelInv
<1>3. ChannelInv => LastRemembered /\ (DeliversOnce => Unsaid)
  BY DEF ChannelInv, DeliversOnce, OnceInv, SpentInv, SaidSpent, Unsaid
<1>4. BaseInv /\ ChannelInv /\ [Next]_vars => [Channel!Next]_<<{{m} : m \in queuedMsgs}, out>>
  BY <1>3, StepImplements
<1>5. Init => Channel!Init
  BY DEF Init, SenderInit, ReceiverInit, Channel!Init
<1>6. Spec => []BaseInv
  BY BaseInvariant, NeverRestarts, PTL
<1> QED
  BY <1>1, <1>2, <1>4, <1>5, <1>6, PTL DEF Spec, ChannelSpec, Channel!Spec

-----------------------------------------------------------------------------
(***************************************************************************)
(* Filling gaps.  CopiesFillGaps needs what becomes of the message whose   *)
(* cells are coming in: while nothing is reordered it is in the buffer,    *)
(* with every part that got through, later than all others there, and not  *)
(* for longer than its cells take; so it is neither expired nor abandoned  *)
(* before its last part.                                                   *)
(***************************************************************************)

\* The stream: the cells emitted, then the fragments queued.
Total == Len(sent) + Len(queue)

InStream(p) == IF p <= Len(sent) THEN sent[p].frag ELSE queue[p - Len(sent)]

\* The fragments of a message, all its copies, lie within their number of places.
Together ==
  \A p, q \in 1 .. Total :
    InStream(p) # Cover /\ InStream(p).seq = InStream(q).seq =>
      q - p < Copies * InStream(p).count

\* A step leaves the stream alone, or adds cover, or the fragments of a message.
LEMMA StreamGrows ==
  ASSUME ~Restart, SendingTypeOK, [Next]_vars
  PROVE  /\ Total \in Nat /\ Total' \in Nat /\ Total <= Total'
         /\ \A p \in 1 .. Total : InStream(p)' = InStream(p)
         /\ \/ Total' = Total
            \/ Total' = Total + 1 /\ \A p \in {Total + 1} : InStream(p)' = Cover
            \/ \E m \in Messages :
                 /\ Enqueue(m) /\ Total' = Total + Len(FragmentsOf(m))
                 /\ \A p \in Total + 1 .. Total' :
                      /\ p - Total \in DOMAIN FragmentsOf(m)
                      /\ InStream(p)' = FragmentsOf(m)[p - Total]
<1>1. /\ queue \in Seq(Fragments) /\ sent \in Seq(Cells) /\ msgSeq \in Nat
      /\ Len(queue) \in Nat /\ Len(sent) \in Nat /\ Total \in Nat
  BY SenderAssumption DEF SendingTypeOK, SenderTypeOK, Total
<1>2. ASSUME NEW m \in Messages, Enqueue(m)
      PROVE  /\ Total' = Total + Len(FragmentsOf(m)) /\ Len(FragmentsOf(m)) \in Nat
             /\ \A p \in 1 .. Total : InStream(p)' = InStream(p)
             /\ \A p \in Total + 1 .. Total' : /\ p - Total \in DOMAIN FragmentsOf(m)
                                               /\ InStream(p)' = FragmentsOf(m)[p - Total]
  <2> DEFINE more == FragmentsOf(m)
  <2>1. more \in Seq(Fragments)
    BY <1>1, FragmentsType
  <2>2. queue' = queue \o more /\ sent' = sent
    BY <1>2 DEF Enqueue
  <2> HIDE DEF more
  <2>3. /\ Len(more) \in Nat /\ DOMAIN more = 1 .. Len(more)
        /\ Len(queue') = Len(queue) + Len(more)
        /\ \A i \in 1 .. Len(queue) + Len(more) :
             queue'[i] = IF i <= Len(queue) THEN queue[i] ELSE more[i - Len(queue)]
    BY <1>1, <2>1, <2>2, ConcatProperties
  <2>4. Total' = Total + Len(more)
    BY <1>1, <2>2, <2>3 DEF Total
  <2>5. ASSUME NEW p \in 1 .. Total PROVE InStream(p)' = InStream(p)
    <3>1. CASE p <= Len(sent)
      BY <2>2, <3>1 DEF InStream
    <3>2. CASE ~(p <= Len(sent))
      <4>1. p - Len(sent) \in 1 .. Len(queue) + Len(more) /\ p - Len(sent) <= Len(queue)
        BY <1>1, <2>3, <3>2 DEF Total
      <4> QED
        BY <2>2, <2>3, <3>2, <4>1 DEF InStream
    <3> QED
      BY <3>1, <3>2
  <2>6. ASSUME NEW p \in Total + 1 .. Total'
        PROVE  p - Total \in DOMAIN more /\ InStream(p)' = more[p - Total]
    <3> DEFINE k == p - Len(sent)
    <3>1. /\ p \in Int /\ ~(p <= Len(sent)) /\ k \in 1 .. Len(queue) + Len(more) /\ ~(k <= Len(queue))
          /\ k - Len(queue) = p - Total /\ p - Total \in 1 .. Len(more)
      BY <1>1, <2>3, <2>4 DEF Total
    <3> HIDE DEF k
    <3>2. queue'[k] = more[p - Total]
      BY <2>3, <3>1
    <3> QED
      BY <2>2, <2>3, <3>1, <3>2 DEF InStream, k
  <2> QED
    BY <2>3, <2>4, <2>5, <2>6 DEF more
<1>3. CASE TickData
  <2>1. /\ queue # << >> /\ queue' = Tail(queue)
        /\ sent' = Append(sent, [counter |-> next, frag |-> Head(queue)])
    BY <1>3 DEF TickData, Emit
  <2>2. /\ 1 \in DOMAIN queue /\ Head(queue) = queue[1] /\ Len(queue') = Len(queue) - 1 /\ Len(queue) >= 1
        /\ \A k \in 1 .. Len(queue) - 1 : queue'[k] = queue[k + 1]
    BY <1>1, <2>1, HeadTailProperties
  <2>3. /\ Len(sent') = Len(sent) + 1
        /\ \A i \in 1 .. Len(sent) : sent'[i] = sent[i]
        /\ sent'[Len(sent) + 1].frag = queue[1]
    BY <1>1, <2>1, <2>2
  <2>4. Total' = Total
    BY <1>1, <2>2, <2>3 DEF Total
  <2>5. ASSUME NEW p \in 1 .. Total PROVE InStream(p)' = InStream(p)
    <3>1. CASE p <= Len(sent)
      BY <1>1, <2>3, <3>1 DEF InStream
    <3>2. CASE p = Len(sent) + 1
      <4>1. p <= Len(sent') /\ ~(p <= Len(sent)) /\ p - Len(sent) = 1
        BY <1>1, <2>3, <3>2
      <4> QED
        BY <2>3, <3>2, <4>1 DEF InStream
    <3>3. CASE p > Len(sent) + 1
      <4> DEFINE k == p - Len(sent) - 1
      <4>1. /\ ~(p <= Len(sent')) /\ ~(p <= Len(sent)) /\ p - Len(sent') = k /\ p - Len(sent) = k + 1
            /\ k \in 1 .. Len(queue) - 1
        BY <1>1, <2>3, <3>3 DEF Total
      <4> HIDE DEF k
      <4> QED
        BY <2>2, <4>1 DEF InStream
    <3>4. p <= Len(sent) \/ p = Len(sent) + 1 \/ p > Len(sent) + 1
      BY <1>1
    <3> QED
      BY <3>1, <3>2, <3>3, <3>4
  <2> QED
    BY <1>1, <2>4, <2>5
<1>4. CASE TickCover
  <2>1. queue = << >> /\ queue' = queue /\ sent' = Append(sent, [counter |-> next, frag |-> Cover])
    BY <1>4 DEF TickCover, Emit
  <2>2. /\ Len(queue) = 0 /\ Len(queue') = 0 /\ Len(sent') = Len(sent) + 1
        /\ \A i \in 1 .. Len(sent) : sent'[i] = sent[i]
        /\ sent'[Len(sent) + 1].frag = Cover
    BY <1>1, <2>1
  <2>3. Total = Len(sent) /\ Total' = Len(sent')
    BY <1>1, <2>2 DEF Total
  <2>4. ASSUME NEW p \in 1 .. Total PROVE InStream(p)' = InStream(p)
    BY <1>1, <2>2, <2>3 DEF InStream
  <2>5. ASSUME NEW p \in {Total + 1} PROVE InStream(p)' = Cover
    BY <1>1, <2>2, <2>3 DEF InStream
  <2> QED
    BY <1>1, <2>2, <2>3, <2>4, <2>5
<1>5. CASE UNCHANGED <<queue, sent>>
  BY <1>1, <1>5 DEF Total, InStream
<1>6. \/ \E m \in Messages : Enqueue(m)
      \/ TickData
      \/ TickCover
      \/ UNCHANGED <<queue, sent>>
  BY DEF Next, Sender, ReserveBlock, vars, senderVars
<1> QED
  BY <1>1, <1>2, <1>3, <1>4, <1>5, <1>6

\* So the fragments of a message stay together.
LEMMA TogetherNext ==
  ASSUME ~Restart, LinkInv, StreamInv, Together, [Next]_vars
  PROVE  Together'
<1>1. /\ queue \in Seq(Fragments) /\ sent \in Seq(Cells) /\ msgSeq \in Nat /\ SendingTypeOK
      /\ Copies \in Nat \ {0}
  BY SenderAssumption DEF LinkInv, SendingTypeOK, SenderTypeOK
<1>2. ASSUME NEW p \in 1 .. Total, InStream(p) # Cover
      PROVE  InStream(p).seq \in 1 .. msgSeq
  <2>1. InStream(p) \in Circulating
    <3>1. CASE p <= Len(sent)
      BY <1>1, <3>1 DEF InStream, Circulating
    <3>2. CASE ~(p <= Len(sent))
      <4>1. p - Len(sent) \in DOMAIN queue
        BY <1>1, <3>2 DEF Total
      <4> QED
        BY <3>2, <4>1 DEF InStream, Circulating
    <3> QED
      BY <3>1, <3>2
  <2> QED
    BY <1>2, <2>1 DEF StreamInv, OneNumberEach
<1>3. Cover.seq = 0
  BY DEF Cover
<1>4. /\ Total \in Nat /\ Total' \in Nat /\ Total <= Total'
      /\ \A p \in 1 .. Total : InStream(p)' = InStream(p)
      /\ \/ Total' = Total
         \/ Total' = Total + 1 /\ \A x \in {Total + 1} : InStream(x)' = Cover
         \/ \E m \in Messages :
              /\ Enqueue(m) /\ Total' = Total + Len(FragmentsOf(m))
              /\ \A p \in Total + 1 .. Total' :
                   /\ p - Total \in DOMAIN FragmentsOf(m)
                   /\ InStream(p)' = FragmentsOf(m)[p - Total]
  BY <1>1, StreamGrows
<1> SUFFICES ASSUME NEW p \in 1 .. Total', NEW q \in 1 .. Total',
                    InStream(p)' # Cover, InStream(p)'.seq = InStream(q)'.seq
             PROVE  q - p < Copies * InStream(p)'.count
  BY DEF Together
<1>5. CASE p \in 1 .. Total /\ q \in 1 .. Total
  BY <1>4, <1>5 DEF Together
<1>6. CASE Total' = Total + 1 /\ \A x \in {Total + 1} : InStream(x)' = Cover
  <2>1. p # Total + 1
    BY <1>6
  <2>2. p \in 1 .. Total /\ InStream(p)'.seq # 0
    <3>1. p \in 1 .. Total
      BY <1>4, <1>6, <2>1
    <3> QED
      BY <1>1, <1>2, <1>4, <3>1
  <2>3. q # Total + 1
    BY <1>3, <1>6, <2>2
  <2> QED
    BY <1>4, <1>5, <1>6, <2>2, <2>3
<1>7. ASSUME NEW m \in Messages, Enqueue(m), Total' = Total + Len(FragmentsOf(m)),
             \A x \in Total + 1 .. Total' : /\ x - Total \in DOMAIN FragmentsOf(m)
                                            /\ InStream(x)' = FragmentsOf(m)[x - Total]
      PROVE  q - p < Copies * InStream(p)'.count
  <2>1. FragCount[m] \in Nat \ {0} /\ Copies * FragCount[m] \in Nat
    BY <1>1, SenderAssumption
  <2>2. Len(FragmentsOf(m)) = Copies * FragCount[m]
    BY <2>1 DEF FragmentsOf
  <2>3. ASSUME NEW x \in Total + 1 .. Total'
        PROVE  InStream(x)'.seq = msgSeq + 1 /\ InStream(x)'.count = FragCount[m]
    BY <1>1, <1>7, <2>3, FragmentsCut
  <2>4. ASSUME NEW x \in 1 .. Total PROVE InStream(x)'.seq # msgSeq + 1
    BY <1>1, <1>2, <1>3, <1>4, <2>4
  <2>5. CASE p > Total /\ q > Total
    <3>1. p \in Total + 1 .. Total' /\ q \in Total + 1 .. Total'
      BY <1>4, <2>5
    <3>2. InStream(p)'.count = FragCount[m]
      BY <2>3, <3>1
    <3> DEFINE n == Copies * FragCount[m]
    <3>3. q - p < n
      <4> HIDE DEF n
      <4>1. n \in Nat /\ Total' = Total + n
        BY <1>7, <2>1, <2>2 DEF n
      <4> QED
        BY <1>4, <3>1, <4>1
    <3> QED
      BY <3>2, <3>3
  <2>6. CASE (p > Total /\ q <= Total) \/ (p <= Total /\ q > Total)
    <3>1. \/ p \in Total + 1 .. Total' /\ q \in 1 .. Total
          \/ p \in 1 .. Total /\ q \in Total + 1 .. Total'
      BY <1>4, <2>6
    <3> QED
      BY <2>3, <2>4, <3>1
  <2> QED
    BY <1>4, <1>5, <2>5, <2>6
<1> QED
  BY <1>4, <1>5, <1>6, <1>7

\* What reassembly makes of the message a fragment belongs to.
LEMMA WithFragmentFacts ==
  ASSUME NEW table, IsTable(table), NEW f \in Fragments, clock' \in Nat
  PROVE  LET partial == PartialOf(table, f)
             more    == WithFragment(partial, f)
         IN  /\ partial \in Partials
             /\ more.count = partial.count /\ more.openedAt = partial.openedAt
             /\ DOMAIN more.frags = DOMAIN partial.frags \cup {f.idx}
<1> DEFINE partial == PartialOf(table, f)
           more    == WithFragment(partial, f)
<1>1. f.count \in Nat
  BY DEF Fragments
<1>2. partial \in Partials
  <2>1. NoneOpen \in [{} -> Messages]
    BY DEF NoneOpen
  <2>2. NoneOpen \in Payloads
    BY <2>1 DEF Payloads
  <2>3. CASE f.seq \in DOMAIN table
    BY <2>3 DEF PartialOf, IsTable
  <2>4. CASE f.seq \notin DOMAIN table
    BY <1>1, <2>2, <2>4 DEF PartialOf, Partials
  <2> QED
    BY <2>3, <2>4
<1> HIDE DEF partial
<1>3. /\ more.count = partial.count /\ more.openedAt = partial.openedAt
      /\ more.frags = [i \in DOMAIN partial.frags \cup {f.idx} |->
                         IF i = f.idx THEN f.msg ELSE partial.frags[i]]
  BY <1>2 DEF WithFragment, Partials
<1> HIDE DEF more
<1>4. DOMAIN more.frags = DOMAIN partial.frags \cup {f.idx}
  BY <1>3
<1> QED
  BY <1>2, <1>3, <1>4 DEF more, partial

\* No message in the buffer was opened later than now.
LEMMA ReassembleAges ==
  ASSUME NEW table, IsTable(table), NEW f \in Fragments, clock' \in Nat, Reassemble(table, f),
         \A s \in DOMAIN table : table[s].openedAt <= clock'
  PROVE  \A s \in DOMAIN open' : open'[s].openedAt <= clock'
<1> DEFINE room    == IF f.seq \in DOMAIN table THEN table ELSE Only(table, RoomForOne(table))
           partial == PartialOf(room, f)
           more    == WithFragment(partial, f)
           filled  == Put(room, f.seq, more)
           kept    == Only(filled, WithinBuffer(filled))
<1>1. IsTable(room) /\ \A s \in DOMAIN room : room[s].openedAt <= clock'
  <2>1. RoomForOne(table) \subseteq DOMAIN table
    BY DEF RoomForOne
  <2>2. IsTable(Only(table, RoomForOne(table)))
    BY <2>1, OnlyIsTable
  <2> QED
    BY <2>1, <2>2 DEF Only
<1>2. more.openedAt <= clock'
  <2>1. partial.openedAt <= clock'
    <3> HIDE DEF room
    <3> QED
      BY <1>1 DEF PartialOf
  <2>2. more.openedAt = partial.openedAt
    <3> HIDE DEF room
    <3> QED
      BY <1>1, WithFragmentFacts
  <2> QED
    BY <2>1, <2>2
<1>3. \A s \in DOMAIN filled : filled[s].openedAt <= clock'
  <2> HIDE DEF room, more
  <2> QED
    BY <1>1, <1>2 DEF Put
<1>4. \A s \in DOMAIN kept : kept[s].openedAt <= clock'
  <2> HIDE DEF filled
  <2> QED
    BY <1>3 DEF Only, WithinBuffer
<1>5. \/ open' = Only(room, DOMAIN room \ {f.seq})
      \/ open' = kept
      \/ open' = Only(kept, DOMAIN kept \ {f.seq})
  BY DEF Reassemble
<1> HIDE DEF room, kept
<1> QED
  BY <1>1, <1>4, <1>5 DEF Only

\* A fragment of the message opened last is neither refused nor abandoned: it completes
\* its message or stays in the buffer beside the parts that were there.
LEMMA ReassembleFills ==
  ASSUME NEW table, IsTable(table), NEW f \in Fragments, f.idx < f.count, clock' \in Nat,
         Reassemble(table, f), ~Disagrees(PartialOf(table, f), f), f.count <= MaxOpenFrags,
         \A r \in DOMAIN table \ {f.seq} : table[r].openedAt < PartialOf(table, f).openedAt
  PROVE  \/ \E parts : out' = Append(out, parts)
         \/ /\ f.seq \in DOMAIN open'
            /\ open'[f.seq].openedAt = PartialOf(table, f).openedAt
            /\ DOMAIN open'[f.seq].frags = DOMAIN PartialOf(table, f).frags \cup {f.idx}
            /\ DOMAIN open'[f.seq].frags # 0 .. f.count - 1
            /\ \A r \in DOMAIN open' \ {f.seq} : open'[r].openedAt < open'[f.seq].openedAt
<1> DEFINE room    == IF f.seq \in DOMAIN table THEN table ELSE Only(table, RoomForOne(table))
           partial == PartialOf(table, f)
           more    == WithFragment(partial, f)
           filled  == Put(room, f.seq, more)
           kept    == Only(filled, WithinBuffer(filled))
<1>1. f.seq \in Nat /\ f.idx \in Nat /\ f.count \in Nat
  BY DEF Fragments
<1>2. /\ IsTable(room) /\ DOMAIN room \subseteq DOMAIN table
      /\ \A s \in DOMAIN room : room[s] = table[s]
      /\ f.seq \in DOMAIN room <=> f.seq \in DOMAIN table
  <2>1. RoomForOne(table) \subseteq DOMAIN table
    BY DEF RoomForOne
  <2>2. IsTable(Only(table, RoomForOne(table))) /\ DOMAIN Only(table, RoomForOne(table)) = RoomForOne(table)
    BY <2>1, OnlyIsTable
  <2> QED
    BY <2>1, <2>2 DEF Only
<1>3. PartialOf(room, f) = partial
  <2> HIDE DEF room
  <2> QED
    BY <1>2 DEF PartialOf
<1>4. IsTable(filled)
  <2>1. IsTable(Put(room, f.seq, WithFragment(PartialOf(room, f), f)))
    <3> HIDE DEF room
    <3> QED
      BY <1>2, <1>3, FilledIsTable
  <2> QED
    BY <1>3, <2>1
<1>5. /\ partial \in Partials /\ more.openedAt = partial.openedAt /\ more.count = f.count
      /\ DOMAIN more.frags = DOMAIN partial.frags \cup {f.idx}
  <2>1. partial.count = f.count
    BY DEF Disagrees
  <2> QED
    BY <2>1, WithFragmentFacts
<1>6. \/ /\ open' = kept
         /\ ~(f.seq \in DOMAIN kept /\ Cardinality(DOMAIN kept[f.seq].frags) = kept[f.seq].count)
      \/ \E parts : out' = Append(out, parts)
  BY <1>3 DEF Reassemble
<1>7. /\ DOMAIN filled = DOMAIN room \cup {f.seq} /\ filled[f.seq] = more
      /\ \A s \in DOMAIN room \ {f.seq} : filled[s] = table[s]
  <2> HIDE DEF room, more
  <2> QED
    BY <1>2 DEF Put
<1> HIDE DEF room, partial, more, filled
<1>8. partial.openedAt \in Nat
  BY <1>5 DEF Partials
<1>9. \A r \in DOMAIN filled \ {f.seq} : filled[r].openedAt < more.openedAt
  BY <1>2, <1>5, <1>7 DEF partial
<1>10. OpenedSince(filled, f.seq) = {f.seq}
  <2>1. \A r \in DOMAIN filled : filled[r].openedAt \in Nat
    BY <1>4 DEF IsTable, Partials
  <2>2. \A r \in DOMAIN filled \ {f.seq} : ~(filled[r].openedAt >= filled[f.seq].openedAt)
    BY <1>7, <1>9, <2>1
  <2> QED
    BY <1>7, <2>1, <2>2 DEF OpenedSince
<1>11. /\ IsFiniteSet(DOMAIN more.frags) /\ Cardinality(DOMAIN more.frags) <= f.count
       /\ Cardinality(DOMAIN more.frags) \in Nat
       /\ DOMAIN more.frags = 0 .. f.count - 1 => Cardinality(DOMAIN more.frags) = f.count
  <2>1. DOMAIN more.frags \subseteq 0 .. f.count - 1
    BY <1>4, <1>5, <1>7 DEF IsTable
  <2>2. IsFiniteSet(0 .. f.count - 1) /\ Cardinality(0 .. f.count - 1) = f.count
    <3>1. f.count - 1 \in Int /\ 0 \in Int /\ ~(0 > f.count - 1)
      BY <1>1
    <3>2. /\ IsFiniteSet(0 .. f.count - 1)
          /\ Cardinality(0 .. f.count - 1) = IF 0 > f.count - 1 THEN 0 ELSE (f.count - 1) - 0 + 1
      BY <3>1, FS_Interval
    <3> QED
      BY <1>1, <3>1, <3>2
  <2> QED
    BY <2>1, <2>2, FS_Subset, FS_CardinalityType
<1>12. Buffered(filled, {f.seq}) <= MaxOpenFrags
  <2>1. Held(filled, {f.seq}) = {f.seq} \X DOMAIN more.frags
    BY <1>7 DEF Held
  <2>2. IsFiniteSet({f.seq}) /\ Cardinality({f.seq}) = 1
    BY FS_Singleton
  <2>3. Cardinality({f.seq} \X DOMAIN more.frags) = 1 * Cardinality(DOMAIN more.frags)
    <3> DEFINE S == {f.seq}
               T == DOMAIN more.frags
    <3>1. IsFiniteSet(S) /\ IsFiniteSet(T) /\ Cardinality(S) = 1
      BY <1>11, <2>2
    <3> HIDE DEF S, T
    <3>2. Cardinality(S \X T) = Cardinality(S) * Cardinality(T)
      BY <3>1, FS_Product
    <3> QED
      BY <3>1, <3>2 DEF S, T
  <2>4. Buffered(filled, {f.seq}) = 1 * Cardinality(DOMAIN more.frags)
    BY <2>1, <2>3 DEF Buffered
  <2> QED
    BY <1>1, <1>11, <2>4, LinkReceiverAssumption
<1>13. /\ DOMAIN kept \subseteq DOMAIN filled /\ f.seq \in DOMAIN kept
       /\ \A r \in DOMAIN kept : kept[r] = filled[r]
  BY <1>7, <1>10, <1>12 DEF Only, WithinBuffer
<1> HIDE DEF kept
<1>14. CASE \E parts : out' = Append(out, parts)
  BY <1>14
<1>15. CASE ~\E parts : out' = Append(out, parts)
  <2>1. open' = kept /\ Cardinality(DOMAIN more.frags) # f.count
    BY <1>5, <1>6, <1>7, <1>13, <1>15
  <2> QED
    BY <1>5, <1>7, <1>9, <1>11, <1>13, <2>1 DEF partial
<1> QED
  BY <1>14, <1>15

\* The cells of a message that were accepted, and the parts they hold.
Taken(m) == {i \in accepted \cap DOMAIN sent : sent[i].frag.msg = m}

Parts(m) == {sent[i].frag.idx : i \in Taken(m)}

\* What was queued is short enough.
ShortEnough == \A m \in queuedMsgs : FragCount[m] <= MaxFragsPerMessage

AcceptedBelow == accepted \subseteq DOMAIN sent /\ highest \in accepted \cup {0}

\* A number remembered as delivered is that of a message handed on.
NumbersSaid ==
  \A s \in ToSet(delivered) :
    \E i \in DOMAIN sent : /\ SeqAt(i) = s /\ sent[i].frag # Cover
                           /\ {sent[i].frag.msg} \in ToSet(out)

\* What is in the buffer came in an accepted cell.
HeldTaken ==
  \A s \in DOMAIN open :
    /\ DOMAIN open[s].frags # {} /\ open[s].openedAt <= clock
    /\ \A x \in DOMAIN open[s].frags :
         \E i \in accepted \cap DOMAIN sent :
           /\ SeqAt(i) = s /\ sent[i].frag # Cover
           /\ sent[i].frag.idx = x /\ sent[i].frag.count = open[s].count

\* The message with number s, some of whose cells were accepted and the last of them at
\* `high`, is in the buffer with all its parts, the latest there, since a cell of it.
Underway(s, m, high) ==
  /\ s \in DOMAIN open
  /\ DOMAIN open[s].frags = Parts(m)
  /\ \A r \in DOMAIN open \ {s} : open[r].openedAt < open[s].openedAt
  /\ \E i \in Taken(m) : clock - open[s].openedAt <= high - i

\* The message whose cell was last accepted has come out or is under way.
LatestUnderway ==
  highest \in DOMAIN sent /\ sent[highest].frag # Cover =>
    \/ {sent[highest].frag.msg} \in ToSet(out)
    \/ Underway(SeqAt(highest), sent[highest].frag.msg, highest)

\* A message all of whose parts got through has come out.
GapsFilled == \A m \in queuedMsgs : 0 .. FragCount[m] - 1 \subseteq Parts(m) => {m} \in ToSet(out)

FillInv ==
  /\ Together /\ ShortEnough /\ WindowRemembers /\ AcceptedBelow /\ NumbersSaid /\ HeldTaken
  /\ ~reordered => LatestUnderway /\ GapsFilled

\* What the cells of a link are.
LEMMA CellFacts ==
  ASSUME BaseInv, ShortEnough, NEW i \in DOMAIN sent, sent[i].frag # Cover
  PROVE  /\ i \in Nat /\ sent[i].counter = i
         /\ sent[i].frag \in Fragments /\ sent[i].frag.msg \in queuedMsgs \cap Messages
         /\ sent[i].frag.count = FragCount[sent[i].frag.msg]
         /\ sent[i].frag.count \in Nat \ {0} /\ sent[i].frag.count <= MaxFragsPerMessage
         /\ sent[i].frag.idx \in 0 .. sent[i].frag.count - 1
         /\ SeqAt(i) # 0
         /\ \A j \in DOMAIN sent :
              /\ SeqAt(j) = SeqAt(i) => sent[j].frag # Cover
              /\ sent[j].frag.msg = sent[i].frag.msg <=> SeqAt(j) = SeqAt(i)
<1> DEFINE f == sent[i].frag
<1>1. sent \in Seq(Cells) /\ queuedMsgs \subseteq Messages /\ msgSeq \in Nat
  BY SenderAssumption DEF BaseInv, LinkInv, SendingTypeOK, SenderTypeOK
<1>2. i \in Nat /\ sent[i].counter = i
  BY <1>1 DEF BaseInv, StreamInv, CountersCount
<1>3. f \in Circulating /\ \A j \in DOMAIN sent : sent[j].frag \in Circulating
  BY DEF Circulating
<1>4. f \in Fragments /\ f.msg \in queuedMsgs /\ f.count = FragCount[f.msg] /\ f.idx < f.count
  BY <1>3 DEF BaseInv, LinkInv, FragmentsWhole, CutFrom
<1>5. f.msg \in Messages /\ f.count \in Nat \ {0} /\ f.count <= MaxFragsPerMessage
  BY <1>1, <1>4, SenderAssumption DEF ShortEnough
<1>6. f.idx \in 0 .. f.count - 1
  BY <1>4, <1>5 DEF Fragments
<1>7. f.seq \in 1 .. msgSeq
  BY <1>3 DEF BaseInv, StreamInv, OneNumberEach
<1>8. ASSUME NEW j \in DOMAIN sent
      PROVE  /\ SeqAt(j) = SeqAt(i) => sent[j].frag # Cover
             /\ sent[j].frag.msg = f.msg <=> SeqAt(j) = SeqAt(i)
  <2>1. Cover.seq = 0 /\ Cover.msg = NoMessage /\ NoMessage \notin Messages
    BY SenderAssumption DEF Cover
  <2>2. CASE sent[j].frag = Cover
    BY <1>5, <1>7, <2>1, <2>2 DEF SeqAt
  <2>3. CASE sent[j].frag # Cover
    BY <1>3, <2>3 DEF BaseInv, StreamInv, OneNumberEach, SeqAt
  <2> QED
    BY <2>2, <2>3
<1>9. SeqAt(i) # 0
  BY <1>1, <1>7 DEF SeqAt
<1> QED
  BY <1>2, <1>4, <1>5, <1>6, <1>8, <1>9

\* While nothing is reordered the message a cell belongs to is under way, if an earlier
\* cell of it was accepted, and not in the buffer if none was.
LEMMA WhereItStands ==
  ASSUME BaseInv, FillInv, ~reordered, NEW i \in DOMAIN sent, highest < i,
         sent[i].frag # Cover, {sent[i].frag.msg} \notin ToSet(out)
  PROVE  \/ Underway(SeqAt(i), sent[i].frag.msg, highest)
         \/ Taken(sent[i].frag.msg) = {} /\ SeqAt(i) \notin DOMAIN open
<1> DEFINE f == sent[i].frag
<1>1. /\ highest \in Nat /\ i \in Nat /\ accepted \subseteq DOMAIN sent /\ highest \in accepted \cup {0}
      /\ \A c \in accepted : c <= highest
      /\ \A c \in DOMAIN sent : c \in Nat /\ c >= 1
  <2>1. sent \in Seq(Cells)
    BY DEF BaseInv, LinkInv, SendingTypeOK, SenderTypeOK
  <2> QED
    BY <2>1 DEF FillInv, WindowRemembers, AcceptedBelow
<1>2. \A j \in DOMAIN sent : sent[j].frag.msg = f.msg <=> SeqAt(j) = SeqAt(i)
  BY CellFacts DEF FillInv
<1>3. SeqAt(i) # 0 /\ \A j \in DOMAIN sent : SeqAt(j) = SeqAt(i) => sent[j].frag # Cover
  BY CellFacts DEF FillInv
<1>4. CASE Taken(f.msg) # {}
  <2>1. PICK j \in Taken(f.msg) : TRUE
    BY <1>4
  <2>2. j \in accepted /\ j \in DOMAIN sent /\ SeqAt(j) = SeqAt(i)
    BY <1>2, <2>1 DEF Taken
  <2>3. j <= highest /\ highest \in DOMAIN sent /\ highest <= i
    BY <1>1, <2>2
  <2>4. SeqAt(highest) = SeqAt(i)
    BY <1>3, <2>2, <2>3 DEF BaseInv, StreamInv, BackToBack
  <2>5. sent[highest].frag # Cover /\ sent[highest].frag.msg = f.msg
    BY <1>2, <1>3, <2>3, <2>4
  <2> QED
    BY <2>3, <2>4, <2>5 DEF FillInv, LatestUnderway
<1>5. CASE Taken(f.msg) = {}
  <2>1. SUFFICES ASSUME SeqAt(i) \in DOMAIN open PROVE FALSE
    BY <1>5
  <2>2. PICK x \in DOMAIN open[SeqAt(i)].frags : TRUE
    BY <2>1 DEF FillInv, HeldTaken
  <2>3. PICK j \in accepted \cap DOMAIN sent : SeqAt(j) = SeqAt(i)
    BY <2>1, <2>2 DEF FillInv, HeldTaken
  <2>4. j \in Taken(f.msg)
    BY <1>2, <2>3 DEF Taken
  <2> QED
    BY <1>5, <2>4
<1> QED
  BY <1>4, <1>5

\* A message under way has not expired when its next cell comes.
LEMMA NotExpired ==
  ASSUME Copies <= MaxCopies, BaseInv, FillInv, NEW i \in DOMAIN sent, highest < i,
         sent[i].frag # Cover, Underway(SeqAt(i), sent[i].frag.msg, highest)
  PROVE  SeqAt(i) \in Unexpired(clock + 1) /\ open[SeqAt(i)].count = sent[i].frag.count
<1> DEFINE f == sent[i].frag
           num == SeqAt(i)
<1>1. num \in DOMAIN open /\ \E j \in Taken(f.msg) : clock - open[num].openedAt <= highest - j
  BY DEF Underway
<1>2. PICK j \in Taken(f.msg) : clock - open[num].openedAt <= highest - j
  BY <1>1
<1>3. j \in DOMAIN sent /\ sent[j].frag.msg = f.msg
  BY <1>2 DEF Taken
<1>4. /\ f.count \in Nat \ {0} /\ f.count = FragCount[f.msg]
      /\ \A k \in DOMAIN sent : sent[k].frag.msg = f.msg <=> SeqAt(k) = num
      /\ \A k \in DOMAIN sent : SeqAt(k) = num => sent[k].frag # Cover
  BY CellFacts DEF FillInv
<1>5. \A k \in DOMAIN sent : SeqAt(k) = num => sent[k].frag.count = f.count
  <2> TAKE k \in DOMAIN sent
  <2> HAVE SeqAt(k) = num
  <2>1. sent[k].frag # Cover /\ sent[k].frag.msg = f.msg
    BY <1>4
  <2>2. sent[k].frag.count = FragCount[sent[k].frag.msg]
    BY <2>1, CellFacts DEF FillInv
  <2> QED
    BY <1>4, <2>1, <2>2
<1>6. open[num].count = f.count
  <2>1. PICK x \in DOMAIN open[num].frags : TRUE
    BY <1>1 DEF FillInv, HeldTaken
  <2>2. PICK k \in accepted \cap DOMAIN sent : SeqAt(k) = num /\ sent[k].frag.count = open[num].count
    BY <1>1, <2>1 DEF FillInv, HeldTaken
  <2> QED
    BY <1>5, <2>2
<1>7. i - j < Copies * f.count
  <2>1. sent \in Seq(Cells) /\ queue \in Seq(Fragments)
    BY DEF BaseInv, LinkInv, SendingTypeOK, SenderTypeOK
  <2>2. j \in 1 .. Total /\ i \in 1 .. Total /\ j <= Len(sent) /\ i <= Len(sent)
    BY <1>3, <2>1 DEF Total
  <2>3. InStream(j) = sent[j].frag /\ InStream(i) = f
    BY <2>2 DEF InStream
  <2>4. SeqAt(j) = num /\ sent[j].frag # Cover /\ sent[j].frag.count = f.count
    BY <1>3, <1>4, <1>5
  <2> QED
    BY <2>2, <2>3, <2>4 DEF FillInv, Together, SeqAt
<1>8. Copies * f.count <= f.count * MaxCopies
  <2> DEFINE n == f.count
  <2>1. n \in Nat /\ Copies \in Nat /\ MaxCopies \in Nat
    BY <1>4, SenderAssumption, LinkReceiverAssumption
  <2> HIDE DEF n
  <2>2. Copies * n <= n * MaxCopies
    BY <2>1
  <2> QED
    BY <2>2 DEF n
<1>9. clock \in Nat /\ open[num].openedAt \in Nat /\ highest \in Nat /\ Slack \in Nat /\ i \in Nat /\ j \in Nat
  <2>1. sent \in Seq(Cells)
    BY DEF BaseInv, LinkInv, SendingTypeOK, SenderTypeOK
  <2>2. i \in Nat /\ j \in Nat
    BY <1>3, <2>1
  <2> QED
    BY <1>1, <2>2, LinkReceiverAssumption
    DEF BaseInv, LinkInv, ReceiverInv, ReceiverTypeOK, WindowTypeOK
<1>10. (clock + 1) - open[num].openedAt <= open[num].count * MaxCopies + Slack
  <2> DEFINE a == Copies * f.count
             b == f.count * MaxCopies
  <2>1. a \in Nat /\ b \in Nat /\ i - j < a /\ a <= b
    BY <1>4, <1>7, <1>8, SenderAssumption, LinkReceiverAssumption
  <2>2. (clock + 1) - open[num].openedAt <= b + Slack
    <3> HIDE DEF a, b, num
    <3> QED
      BY <1>2, <1>9, <2>1
  <2> QED
    BY <1>6, <2>2
<1>11. num \in Unexpired(clock + 1)
  <2>1. num \in DOMAIN open
    BY <1>1
  <2> HIDE DEF num
  <2> QED
    BY <1>10, <2>1 DEF Unexpired
<1> QED
  BY <1>6, <1>11

\* So the cell brings its message out or adds its part to those that got through.
LEMMA FeedFills ==
  ASSUME Copies <= MaxCopies, MaxFragsPerMessage <= MaxMessageFrags,
         MaxFragsPerMessage <= MaxOpenFrags, BaseInv, FillInv, ~reordered,
         NEW i \in DOMAIN sent, highest < i, Feed(sent[i]), UNCHANGED <<counterVars, senderVars>>,
         sent[i].frag # Cover, {sent[i].frag.msg} \notin ToSet(out)
  PROVE  \/ {sent[i].frag.msg} \in ToSet(out')
         \/ /\ SeqAt(i) \in DOMAIN open'
            /\ DOMAIN open'[SeqAt(i)].frags = Parts(sent[i].frag.msg) \cup {sent[i].frag.idx}
            /\ DOMAIN open'[SeqAt(i)].frags # 0 .. sent[i].frag.count - 1
            /\ \A r \in DOMAIN open' \ {SeqAt(i)} : open'[r].openedAt < open'[SeqAt(i)].openedAt
            /\ \E j \in Taken(sent[i].frag.msg) \cup {i} : clock' - open'[SeqAt(i)].openedAt <= i - j
<1> DEFINE f         == sent[i].frag
           num       == SeqAt(i)
           survivors == Only(open, Unexpired(clock + 1))
<1>1. /\ f \in Fragments /\ f.idx < f.count /\ f.count \in Nat \ {0} /\ f.seq = num
      /\ f.count <= MaxFragsPerMessage /\ f.idx \in 0 .. f.count - 1
      /\ \A j \in DOMAIN sent : sent[j].frag.msg = f.msg <=> SeqAt(j) = num
  <2>1. /\ f \in Fragments /\ f.count \in Nat \ {0} /\ f.count <= MaxFragsPerMessage
        /\ f.idx \in 0 .. f.count - 1
        /\ \A j \in DOMAIN sent : sent[j].frag.msg = f.msg <=> SeqAt(j) = num
    BY CellFacts DEF FillInv
  <2>2. f.idx < f.count
    BY <2>1
  <2> QED
    BY <2>1, <2>2 DEF SeqAt
<1>2. /\ clock \in Nat /\ clock' = clock + 1 /\ highest \in Nat /\ i \in Nat /\ IsTable(open)
      /\ out \in Seq({{m} : m \in queuedMsgs})
      /\ \A s \in DOMAIN open : open[s].openedAt \in Nat /\ open[s].openedAt <= clock
  <2>1. IsTable(open) /\ clock \in Nat /\ highest \in Nat /\ out \in Seq({{m} : m \in queuedMsgs})
    BY DEF BaseInv, LinkInv, ReceiverInv, ReceiverTypeOK, Bounded, WindowTypeOK, WholeOut
  <2>2. i \in Nat
    BY CellFacts DEF FillInv
  <2> QED
    BY <2>1, <2>2 DEF IsTable, Partials, FillInv, HeldTaken, Feed
<1>3. num \notin ToSet(delivered)
  <2> SUFFICES ASSUME num \in ToSet(delivered) PROVE FALSE
    OBVIOUS
  <2>1. PICK j \in DOMAIN sent : SeqAt(j) = num /\ {sent[j].frag.msg} \in ToSet(out)
    BY DEF FillInv, NumbersSaid
  <2> QED
    BY <1>1, <2>1
<1>4. Reassemble(survivors, f)
  <2>1. ~(f.count = 0 \/ f.seq \in ToSet(delivered) \/ f.count > MaxMessageFrags)
    <3>1. MaxFragsPerMessage \in Nat /\ MaxMessageFrags \in Nat
      BY SenderAssumption, LinkReceiverAssumption
    <3> QED
      BY <1>1, <1>3, <3>1
  <2> QED
    BY <2>1 DEF Feed
<1>5. /\ IsTable(survivors) /\ DOMAIN survivors = Unexpired(clock + 1)
      /\ Unexpired(clock + 1) \subseteq DOMAIN open
      /\ \A s \in DOMAIN survivors : survivors[s] = open[s]
  <2>1. Unexpired(clock + 1) \subseteq DOMAIN open
    BY DEF Unexpired
  <2> QED
    BY <1>2, <2>1, OnlyIsTable DEF Only
<1> HIDE DEF survivors
<1> DEFINE partial == PartialOf(survivors, f)
<1>6. /\ ~Disagrees(partial, f)
      /\ DOMAIN partial.frags = Parts(f.msg)
      /\ \A r \in DOMAIN survivors \ {num} : survivors[r].openedAt < partial.openedAt
      /\ \E j \in Taken(f.msg) \cup {i} : clock' - partial.openedAt <= i - j
  <2>1. CASE Underway(num, f.msg, highest)
    <3>1. num \in Unexpired(clock + 1) /\ open[num].count = f.count
      BY <2>1, NotExpired
    <3>2. partial = open[num]
      BY <1>1, <1>5, <3>1 DEF PartialOf
    <3>3. ~Disagrees(partial, f)
      <4>1. \A x \in DOMAIN open[num].frags : open[num].frags[x] = f.msg
        <5>1. PICK j \in DOMAIN sent : /\ SeqAt(j) = num
                                       /\ \A x \in DOMAIN open[num].frags : open[num].frags[x] = sent[j].frag.msg
          BY <1>5, <3>1 DEF BaseInv, GenuineOpen
        <5> QED
          BY <1>1, <5>1
      <4> QED
        BY <3>1, <3>2, <4>1 DEF Disagrees
    <3>4. PICK j \in Taken(f.msg) : clock - open[num].openedAt <= highest - j
      BY <2>1 DEF Underway
    <3>5. clock' - open[num].openedAt <= i - j
      <4>1. j \in Nat
        <5>1. sent \in Seq(Cells) /\ j \in DOMAIN sent
          BY DEF Taken, BaseInv, LinkInv, SendingTypeOK, SenderTypeOK
        <5> QED
          BY <5>1
      <4>2. open[num].openedAt \in Nat
        BY <1>2, <1>5, <3>1
      <4> HIDE DEF num
      <4> QED
        BY <1>2, <3>4, <4>1, <4>2
    <3>6. DOMAIN open[num].frags = Parts(f.msg) /\ \A r \in DOMAIN open \ {num} : open[r].openedAt < open[num].openedAt
      BY <2>1 DEF Underway
    <3> HIDE DEF num, partial
    <3> QED
      BY <1>5, <3>2, <3>3, <3>5, <3>6
  <2>2. CASE Taken(f.msg) = {} /\ num \notin DOMAIN open
    <3>1. partial = [count |-> f.count, openedAt |-> clock', frags |-> NoneOpen]
      BY <1>1, <1>5, <2>2 DEF PartialOf
    <3>2. DOMAIN partial.frags = {} /\ partial.count = f.count /\ partial.openedAt = clock'
      BY <3>1 DEF NoneOpen
    <3> HIDE DEF partial, num
    <3>3. ~Disagrees(partial, f)
      BY <3>2 DEF Disagrees
    <3>4. Parts(f.msg) = {}
      BY <2>2 DEF Parts
    <3>5. \A r \in DOMAIN survivors : survivors[r].openedAt < clock'
      BY <1>2, <1>5
    <3>6. clock' - clock' <= i - i
      BY <1>2
    <3> QED
      BY <3>2, <3>3, <3>4, <3>5, <3>6
  <2> QED
    BY <2>1, <2>2, WhereItStands
<1>7. \/ \E parts : out' = Append(out, parts)
      \/ /\ f.seq \in DOMAIN open'
         /\ open'[f.seq].openedAt = partial.openedAt
         /\ DOMAIN open'[f.seq].frags = DOMAIN partial.frags \cup {f.idx}
         /\ DOMAIN open'[f.seq].frags # 0 .. f.count - 1
         /\ \A r \in DOMAIN open' \ {f.seq} : open'[r].openedAt < open'[f.seq].openedAt
  <2>1. f.count <= MaxOpenFrags
    <3>1. MaxFragsPerMessage \in Nat /\ MaxOpenFrags \in Nat
      BY SenderAssumption, LinkReceiverAssumption
    <3> QED
      BY <1>1, <3>1
  <2>2. clock' \in Nat
    BY <1>2
  <2> HIDE DEF f
  <2> QED
    BY <1>1, <1>4, <1>5, <1>6, <2>1, <2>2, ReassembleFills
<1>8. CASE \E parts : out' = Append(out, parts)
  <2>1. out' # out
    <3>1. PICK parts : out' = Append(out, parts)
      BY <1>8
    <3>2. Len(out') = Len(out) + 1 /\ Len(out) \in Nat
      BY <1>2, <3>1
    <3> QED
      BY <3>2
  <2>2. out' = Append(out, {f.msg})
    BY <2>1, FeedIsGenuine DEF BaseInv
  <2>3. {f.msg} \in ToSet(out')
    <3> DEFINE x == {f.msg}
    <3>1. out' = Append(out, x)
      BY <2>2
    <3> HIDE DEF x
    <3>2. Len(out) + 1 \in DOMAIN out' /\ out'[Len(out) + 1] = x
      BY <1>2, <3>1
    <3>3. x \in ToSet(out')
      BY <3>2 DEF ToSet
    <3> QED
      BY <3>3 DEF x
  <2> QED
    BY <2>3
<1>9. CASE ~\E parts : out' = Append(out, parts)
  <2> HIDE DEF partial
  <2>1. /\ num \in DOMAIN open'
        /\ open'[num].openedAt = partial.openedAt
        /\ DOMAIN open'[num].frags = DOMAIN partial.frags \cup {f.idx}
        /\ DOMAIN open'[num].frags # 0 .. f.count - 1
        /\ \A r \in DOMAIN open' \ {num} : open'[r].openedAt < open'[num].openedAt
    BY <1>1, <1>7, <1>9
  <2> QED
    BY <1>6, <2>1
<1> QED
  BY <1>8, <1>9

\* What an accepted cell does to the records of what was accepted.
LEMMA FeedRecords ==
  ASSUME BaseInv, FillInv, NEW i \in DOMAIN sent, Feed(sent[i]),
         UNCHANGED <<counterVars, senderVars>>
  PROVE  /\ sent' = sent /\ queue' = queue /\ queuedMsgs' = queuedMsgs
         /\ i \in Nat /\ i # highest /\ highest \in Nat
         /\ accepted' = accepted \cup {i}
         /\ clock \in Nat /\ clock' = clock + 1
         /\ reordered' = (reordered \/ i < highest)
         /\ highest' = IF i > highest THEN i ELSE highest
         /\ ToSet(out) \subseteq ToSet(out')
         /\ \A m : Taken(m)' = Taken(m) \cup (IF sent[i].frag.msg = m THEN {i} ELSE {})
<1>1. sent' = sent /\ queue' = queue /\ queuedMsgs' = queuedMsgs
  BY DEF senderVars
<1>2. i \in Nat /\ i >= 1 /\ sent[i].counter = i
  <2>1. sent \in Seq(Cells)
    BY DEF BaseInv, LinkInv, SendingTypeOK, SenderTypeOK
  <2> QED
    BY <2>1 DEF BaseInv, StreamInv, CountersCount
<1>3. /\ accepted' = accepted \cup {i} /\ clock' = clock + 1 /\ Record(i)
      /\ reordered' = (reordered \/ i < highest)
  BY <1>2 DEF Feed
<1>4. highest \in Nat /\ clock \in Nat
  BY DEF BaseInv, LinkInv, WindowTypeOK, ReceiverInv, ReceiverTypeOK
<1>5. i # highest
  <2> SUFFICES ASSUME i = highest PROVE FALSE
    OBVIOUS
  <2>1. highest \in accepted
    BY <1>2 DEF FillInv, AcceptedBelow
  <2>2. highest - highest < Width
    BY <1>4, WidthAssumption
  <2>3. highest \in seen
    BY <2>1, <2>2 DEF FillInv, WindowRemembers
  <2> QED
    BY <1>3, <1>4, <2>3 DEF Record, Fresh
<1>6. highest' = IF i > highest THEN i ELSE highest
  BY <1>3 DEF Record
<1>7. ToSet(out) \subseteq ToSet(out')
  <2>1. \/ out' = out
        \/ out' = Append(out, {sent[i].frag.msg})
    BY FeedIsGenuine DEF BaseInv
  <2>2. out \in Seq({{m} : m \in queuedMsgs})
    BY DEF BaseInv, WholeOut
  <2> DEFINE x == {sent[i].frag.msg}
             S == {{m} : m \in queuedMsgs}
  <2>3. ASSUME out' = Append(out, x) PROVE ToSet(out) \subseteq ToSet(out')
    <3> HIDE DEF x, S
    <3>1. \A k \in DOMAIN out : k \in DOMAIN out' /\ out'[k] = out[k]
      BY <2>2, <2>3
    <3> QED
      BY <3>1 DEF ToSet
  <2> QED
    BY <2>1, <2>3
<1>8. ASSUME NEW m PROVE Taken(m)' = Taken(m) \cup (IF sent[i].frag.msg = m THEN {i} ELSE {})
  BY <1>1, <1>3 DEF Taken
<1> QED
  BY <1>1, <1>2, <1>3, <1>4, <1>5, <1>6, <1>7, <1>8

\* The buffer holds only what came in an accepted cell, and nothing from later than now.
LEMMA FeedHeld ==
  ASSUME BaseInv, FillInv, NEW i \in DOMAIN sent, Feed(sent[i]),
         UNCHANGED <<counterVars, senderVars>>
  PROVE  HeldTaken'
<1> DEFINE f         == sent[i].frag
           survivors == Only(open, Unexpired(clock + 1))
<1>1. sent' = sent /\ accepted' = accepted \cup {i} /\ clock \in Nat /\ clock' = clock + 1
  BY FeedRecords
<1>2. /\ IsTable(open) /\ HeldTaken
      /\ \A s \in DOMAIN open : open[s].openedAt \in Nat /\ open[s].openedAt <= clock
  <2>1. IsTable(open)
    BY DEF BaseInv, LinkInv, ReceiverInv, Bounded
  <2> QED
    BY <2>1 DEF IsTable, Partials, FillInv, HeldTaken
<1>3. /\ IsTable(survivors) /\ DOMAIN survivors \subseteq DOMAIN open
      /\ \A s \in DOMAIN survivors : survivors[s].openedAt <= clock'
  <2>1. Unexpired(clock + 1) \subseteq DOMAIN open
    BY DEF Unexpired
  <2>2. /\ IsTable(survivors) /\ DOMAIN survivors = Unexpired(clock + 1)
        /\ \A s \in DOMAIN survivors : survivors[s] = open[s]
    BY <1>2, <2>1, OnlyIsTable DEF Only
  <2> HIDE DEF survivors
  <2> QED
    BY <1>1, <1>2, <2>1, <2>2
<1>4. \A s \in DOMAIN open' : open'[s].openedAt <= clock'
  <2>1. CASE open' = survivors
    <3> HIDE DEF survivors
    <3> QED
      BY <1>3, <2>1
  <2>2. CASE f.count # 0 /\ Reassemble(survivors, f)
    <3>1. f # Cover
      BY <2>2 DEF Cover
    <3>2. f \in Fragments /\ clock' \in Nat
      BY <1>1, <3>1, CellFacts DEF FillInv
    <3> HIDE DEF survivors, f
    <3> QED
      BY <1>3, <2>2, <3>2, ReassembleAges
  <2> QED
    BY <2>1, <2>2 DEF Feed
<1>5. \A s \in DOMAIN open' :
         \/ s \in DOMAIN open /\ open'[s] = open[s]
         \/ s = SeqAt(i) /\ f # Cover /\ Grown(open, f, open'[s])
  BY FeedOutcome DEF BaseInv
<1>6. ASSUME NEW s \in DOMAIN open'
      PROVE  /\ DOMAIN open'[s].frags # {}
             /\ \A x \in DOMAIN open'[s].frags :
                  \E j \in (accepted \cup {i}) \cap DOMAIN sent :
                    /\ SeqAt(j) = s /\ sent[j].frag # Cover
                    /\ sent[j].frag.idx = x /\ sent[j].frag.count = open'[s].count
  <2>1. CASE s \in DOMAIN open /\ open'[s] = open[s]
    BY <1>2, <2>1 DEF HeldTaken
  <2>2. CASE s = SeqAt(i) /\ f # Cover /\ Grown(open, f, open'[s])
    <3>1. f.idx \in DOMAIN open'[s].frags /\ open'[s].count = f.count
      BY <2>2 DEF Grown
    <3>2. ASSUME NEW x \in DOMAIN open'[s].frags, x # f.idx
          PROVE  \E j \in accepted \cap DOMAIN sent :
                   /\ SeqAt(j) = s /\ sent[j].frag # Cover
                   /\ sent[j].frag.idx = x /\ sent[j].frag.count = f.count
      <4>1. s \in DOMAIN open /\ x \in DOMAIN open[s].frags
        BY <2>2, <3>2 DEF Grown, SeqAt
      <4>2. PICK j \in accepted \cap DOMAIN sent : /\ SeqAt(j) = s /\ sent[j].frag # Cover
                                                   /\ sent[j].frag.idx = x
        BY <1>2, <4>1 DEF HeldTaken
      <4>3. sent[j].frag.msg = f.msg
        BY <2>2, <4>2, CellFacts DEF FillInv
      <4>4. sent[j].frag.count = FragCount[sent[j].frag.msg] /\ f.count = FragCount[f.msg]
        BY <2>2, <4>2, CellFacts DEF FillInv
      <4> QED
        BY <4>2, <4>3, <4>4
    <3> QED
      BY <2>2, <3>1, <3>2
  <2> QED
    BY <1>5, <2>1, <2>2
<1> QED
  BY <1>1, <1>4, <1>6 DEF HeldTaken, SeqAt

\* A number remembered is still that of a message handed on.
LEMMA FeedSaid ==
  ASSUME BaseInv, FillInv, NEW i \in DOMAIN sent, Feed(sent[i]),
         UNCHANGED <<counterVars, senderVars>>
  PROVE  NumbersSaid'
<1>1. sent' = sent /\ ToSet(out) \subseteq ToSet(out')
  BY FeedRecords
<1>2. CASE UNCHANGED <<delivered, out>>
  BY <1>1, <1>2 DEF FillInv, NumbersSaid, SeqAt
<1>3. CASE /\ sent[i].frag # Cover
           /\ delivered' = RememberDelivered(SeqAt(i))
           /\ out' = Append(out, {sent[i].frag.msg})
  <2>1. SeqAt(i) \in Nat
    <3>1. sent[i].frag \in Fragments
      BY <1>3, CellFacts DEF FillInv
    <3> QED
      BY <3>1 DEF Fragments, SeqAt
  <2>2. ToSet(delivered') \subseteq ToSet(delivered) \cup {SeqAt(i)}
    <3>1. delivered \in Seq(Nat) /\ Len(delivered) <= Remember
      BY DEF BaseInv, LinkInv, ReceiverInv, ReceiverTypeOK
    <3> QED
      BY <1>3, <2>1, <3>1, RememberedSet
  <2>3. {sent[i].frag.msg} \in ToSet(out')
    <3> DEFINE x == {sent[i].frag.msg}
               S == {{m} : m \in queuedMsgs}
    <3>1. out' = Append(out, x) /\ out \in Seq(S)
      BY <1>3 DEF BaseInv, WholeOut
    <3> HIDE DEF x, S
    <3>2. Len(out) + 1 \in DOMAIN out' /\ out'[Len(out) + 1] = x
      BY <3>1
    <3>3. x \in ToSet(out')
      BY <3>2 DEF ToSet
    <3> QED
      BY <3>3 DEF x
  <2> QED
    BY <1>1, <1>3, <2>2, <2>3 DEF FillInv, NumbersSaid, SeqAt
<1> QED
  BY <1>2, <1>3, FeedIsGenuine DEF BaseInv

\* A cell that comes in order leaves its message handed on or under way.
LEMMA FeedInOrder ==
  ASSUME Copies <= MaxCopies, MaxFragsPerMessage <= MaxMessageFrags,
         MaxFragsPerMessage <= MaxOpenFrags, BaseInv, FillInv, NEW i \in DOMAIN sent,
         Feed(sent[i]), UNCHANGED <<counterVars, senderVars>>, ~reordered'
  PROVE  LatestUnderway' /\ GapsFilled'
<1> DEFINE f == sent[i].frag
<1>1. /\ sent' = sent /\ queuedMsgs' = queuedMsgs /\ ToSet(out) \subseteq ToSet(out')
      /\ ~reordered /\ highest < i /\ highest' = i
      /\ \A m : Taken(m)' = Taken(m) \cup (IF f.msg = m THEN {i} ELSE {})
  <2>1. /\ sent' = sent /\ queuedMsgs' = queuedMsgs /\ ToSet(out) \subseteq ToSet(out')
        /\ i \in Nat /\ i # highest /\ highest \in Nat
        /\ reordered' = (reordered \/ i < highest)
        /\ highest' = IF i > highest THEN i ELSE highest
    BY FeedRecords
  <2>2. \A m : Taken(m)' = Taken(m) \cup (IF f.msg = m THEN {i} ELSE {})
    BY FeedRecords
  <2>3. ~reordered /\ ~(i < highest)
    BY <2>1, Zenon
  <2>4. highest < i /\ highest' = i
    BY <2>1, <2>3
  <2> QED
    BY <2>1, <2>2, <2>3, <2>4
<1>2. \A m : f.msg # m => Parts(m)' = Parts(m)
  <2> SUFFICES ASSUME NEW m, f.msg # m PROVE Parts(m)' = Parts(m)
    OBVIOUS
  <2>1. Taken(m)' = Taken(m)
    BY <1>1
  <2> HIDE DEF f
  <2> QED
    BY <1>1, <2>1 DEF Parts
<1>3. Parts(f.msg)' = Parts(f.msg) \cup {f.idx} /\ Taken(f.msg)' = Taken(f.msg) \cup {i}
  <2> DEFINE m == f.msg
  <2>1. Taken(m)' = Taken(m) \cup {i} /\ f = sent[i].frag
    BY <1>1
  <2>2. sent' = sent
    BY <1>1
  <2>3. {sent[j].frag.idx : j \in Taken(m) \cup {i}} = {sent[j].frag.idx : j \in Taken(m)} \cup {f.idx}
    BY <2>1
  <2>4. Parts(m)' = {sent[j].frag.idx : j \in Taken(m) \cup {i}}
    BY <2>1, <2>2 DEF Parts
  <2> QED
    BY <1>1, <2>1, <2>3, <2>4 DEF Parts
<1>4. GapsFilled /\ queuedMsgs \subseteq Messages
  BY <1>1 DEF FillInv, BaseInv, LinkInv, SendingTypeOK, SenderTypeOK
<1>5. ASSUME NEW m \in queuedMsgs, f.msg # m, 0 .. FragCount[m] - 1 \subseteq Parts(m)'
      PROVE  {m} \in ToSet(out')
  <2>1. 0 .. FragCount[m] - 1 \subseteq Parts(m)
    BY <1>2, <1>5
  <2> QED
    BY <1>1, <1>4, <2>1 DEF GapsFilled
<1>6. CASE f = Cover
  <2>1. f.msg \notin queuedMsgs
    BY <1>4, <1>6, SenderAssumption DEF Cover
  <2>2. GapsFilled'
    BY <1>1, <1>5, <2>1 DEF GapsFilled
  <2>3. LatestUnderway'
    BY <1>1, <1>6 DEF LatestUnderway
  <2> QED
    BY <2>2, <2>3
<1>7. CASE f # Cover /\ {f.msg} \in ToSet(out')
  <2>1. GapsFilled'
    BY <1>1, <1>5, <1>7 DEF GapsFilled
  <2>2. LatestUnderway'
    BY <1>1, <1>7 DEF LatestUnderway
  <2> QED
    BY <2>1, <2>2
<1>8. CASE f # Cover /\ {f.msg} \notin ToSet(out')
  <2>1. /\ SeqAt(i) \in DOMAIN open'
        /\ DOMAIN open'[SeqAt(i)].frags = Parts(f.msg)'
        /\ DOMAIN open'[SeqAt(i)].frags # 0 .. f.count - 1
        /\ \A r \in DOMAIN open' \ {SeqAt(i)} : open'[r].openedAt < open'[SeqAt(i)].openedAt
        /\ \E j \in Taken(f.msg)' : clock' - open'[SeqAt(i)].openedAt <= i - j
    <3>1. {f.msg} \notin ToSet(out)
      BY <1>1, <1>8
    <3>2. /\ SeqAt(i) \in DOMAIN open'
          /\ DOMAIN open'[SeqAt(i)].frags = Parts(f.msg) \cup {f.idx}
          /\ DOMAIN open'[SeqAt(i)].frags # 0 .. f.count - 1
          /\ \A r \in DOMAIN open' \ {SeqAt(i)} : open'[r].openedAt < open'[SeqAt(i)].openedAt
          /\ \E j \in Taken(f.msg) \cup {i} : clock' - open'[SeqAt(i)].openedAt <= i - j
      BY <1>1, <1>8, <3>1, FeedFills
    <3> QED
      BY <1>3, <3>2
  <2>2. f.count = FragCount[f.msg]
    BY <1>8, CellFacts DEF FillInv
  <2>3. Parts(f.msg)' \subseteq 0 .. f.count - 1
    <3>1. f.idx \in 0 .. f.count - 1
      BY <1>8, CellFacts DEF FillInv
    <3>2. ASSUME NEW j \in Taken(f.msg) PROVE sent[j].frag.idx \in 0 .. f.count - 1
      <4>1. j \in DOMAIN sent /\ sent[j].frag.msg = f.msg
        BY DEF Taken
      <4>2. SeqAt(j) = SeqAt(i)
        BY <1>8, <4>1, CellFacts DEF FillInv
      <4>3. sent[j].frag # Cover
        BY <1>8, <4>1, <4>2, CellFacts DEF FillInv
      <4>4. sent[j].frag.idx \in 0 .. sent[j].frag.count - 1 /\ sent[j].frag.count = FragCount[f.msg]
        BY <4>1, <4>3, CellFacts DEF FillInv
      <4> QED
        BY <2>2, <4>4
    <3>3. Parts(f.msg) \subseteq 0 .. f.count - 1
      BY <3>2 DEF Parts
    <3> QED
      BY <1>3, <3>1, <3>3
  <2>4. ~(0 .. f.count - 1 \subseteq Parts(f.msg)')
    BY <2>1, <2>3
  <2>5. GapsFilled'
    BY <1>1, <1>5, <2>2, <2>4 DEF GapsFilled
  <2>6. LatestUnderway'
    <3>1. SeqAt(highest)' = SeqAt(i) /\ sent'[highest'].frag = f
      BY <1>1 DEF SeqAt
    <3>2. Underway(SeqAt(i), f.msg, i)'
      BY <1>1, <2>1 DEF Underway, SeqAt
    <3> QED
      BY <1>1, <3>1, <3>2 DEF LatestUnderway, Underway, SeqAt
  <2> QED
    BY <2>5, <2>6
<1> QED
  BY <1>6, <1>7, <1>8

\* A cell fed keeps the invariant.
LEMMA FillFeed ==
  ASSUME Copies <= MaxCopies, MaxFragsPerMessage <= MaxMessageFrags,
         MaxFragsPerMessage <= MaxOpenFrags, BaseInv, FillInv, NEW i \in DOMAIN sent,
         Feed(sent[i]), UNCHANGED <<counterVars, senderVars>>
  PROVE  FillInv'
<1>1. /\ sent' = sent /\ queue' = queue /\ queuedMsgs' = queuedMsgs
      /\ i \in Nat /\ accepted' = accepted \cup {i}
      /\ highest' = IF i > highest THEN i ELSE highest
  BY FeedRecords
<1>2. Together' /\ ShortEnough'
  BY <1>1 DEF FillInv, Together, Total, InStream, ShortEnough
<1>3. WindowRemembers'
  <2>1. Record(i)
    BY FeedOutcome DEF BaseInv
  <2> QED
    BY <1>1, <2>1, RecordRemembers DEF FillInv
<1>4. AcceptedBelow'
  BY <1>1 DEF FillInv, AcceptedBelow
<1> QED
  BY <1>2, <1>3, <1>4, FeedSaid, FeedHeld, FeedInOrder DEF FillInv

\* The sending end's steps keep it too: what is queued now has no part through yet.
LEMMA FillSend ==
  ASSUME ~Restart, BaseInv, FillInv, [Next]_vars, UNCHANGED <<windowVars, receiverVars>>
  PROVE  FillInv'
<1>1. SendingTypeOK /\ sent \in Seq(Cells) /\ queuedMsgs \subseteq Messages
  BY DEF BaseInv, LinkInv, SendingTypeOK, SenderTypeOK
<1>2. /\ \A j \in DOMAIN sent : j \in DOMAIN sent' /\ sent'[j] = sent[j]
      /\ queuedMsgs \subseteq queuedMsgs'
  BY <1>1, SentStays
<1>3. /\ highest' = highest /\ seen' = seen /\ open' = open /\ delivered' = delivered
      /\ clock' = clock /\ out' = out /\ accepted' = accepted /\ reordered' = reordered
  BY DEF windowVars, receiverVars
<1>4. Together'
  BY TogetherNext DEF BaseInv, FillInv
<1>5. \A m \in queuedMsgs' : m \in queuedMsgs \/ Enqueue(m)
  BY DEF Next, Sender, Enqueue, ReserveBlock, TickData, TickCover, vars, senderVars, Arrive
<1>6. ShortEnough'
  BY <1>5 DEF FillInv, ShortEnough, Enqueue
<1>7. WindowRemembers'
  BY <1>3 DEF FillInv, WindowRemembers
<1>8. accepted \subseteq DOMAIN sent /\ AcceptedBelow'
  BY <1>2, <1>3 DEF FillInv, AcceptedBelow
<1>9. NumbersSaid'
  <2> SUFFICES ASSUME NEW s \in ToSet(delivered)
               PROVE  \E j \in DOMAIN sent' : /\ sent'[j].frag.seq = s /\ sent'[j].frag # Cover
                                              /\ {sent'[j].frag.msg} \in ToSet(out)
    BY <1>3 DEF NumbersSaid, SeqAt
  <2>1. PICK j \in DOMAIN sent : /\ SeqAt(j) = s /\ sent[j].frag # Cover
                                 /\ {sent[j].frag.msg} \in ToSet(out)
    BY DEF FillInv, NumbersSaid
  <2> QED
    BY <1>2, <2>1 DEF SeqAt
<1>10. HeldTaken'
  BY <1>2, <1>3 DEF FillInv, HeldTaken, SeqAt
<1>11. ASSUME NEW m PROVE Taken(m)' = Taken(m) /\ Parts(m)' = Parts(m)
  <2>1. Taken(m)' = Taken(m)
    BY <1>2, <1>3, <1>8 DEF Taken
  <2>2. \A j \in Taken(m) : j \in DOMAIN sent
    BY DEF Taken
  <2> QED
    BY <1>2, <2>1, <2>2 DEF Parts
<1>12. ASSUME ~reordered PROVE LatestUnderway' /\ GapsFilled'
  <2>1. LatestUnderway'
    <3>1. CASE highest \in DOMAIN sent
      <4>1. sent'[highest] = sent[highest]
        BY <1>2, <3>1
      <4>2. CASE sent[highest].frag # Cover /\ Underway(SeqAt(highest), sent[highest].frag.msg, highest)
        <5> DEFINE s == SeqAt(highest)
                   m == sent[highest].frag.msg
                   h == highest
        <5>1. Underway(s, m, h)
          BY <4>2
        <5>2. Taken(m)' = Taken(m) /\ Parts(m)' = Parts(m)
          BY <1>3, <1>11, <4>1
        <5>3. s' = s /\ m' = m /\ h' = h
          BY <1>3, <4>1 DEF SeqAt
        <5> HIDE DEF s, m, h
        <5>4. Underway(s, m, h)'
          BY <1>3, <5>1, <5>2, <5>3 DEF Underway
        <5> QED
          BY <5>4 DEF LatestUnderway, s, m, h
      <4>3. CASE sent[highest].frag = Cover
        BY <1>3, <4>1, <4>3 DEF LatestUnderway
      <4>4. CASE {sent[highest].frag.msg} \in ToSet(out)
        BY <1>3, <4>1, <4>4 DEF LatestUnderway
      <4> QED
        BY <1>12, <3>1, <4>2, <4>3, <4>4 DEF FillInv, LatestUnderway
    <3>2. CASE highest \notin DOMAIN sent
      <4>1. highest = 0
        BY <1>8, <3>2 DEF FillInv, AcceptedBelow
      <4>2. sent' \in Seq(Cells)
        BY <1>1, SendingTypeNext DEF SendingTypeOK, SenderTypeOK
      <4>3. 0 \notin DOMAIN sent'
        BY <4>2
      <4> QED
        BY <1>3, <4>1, <4>3 DEF LatestUnderway
    <3> QED
      BY <3>1, <3>2
  <2>2. GapsFilled'
    <3> SUFFICES ASSUME NEW m \in queuedMsgs', 0 .. FragCount[m] - 1 \subseteq Parts(m)
                 PROVE  {m} \in ToSet(out)
      BY <1>3, <1>11 DEF GapsFilled
    <3>1. CASE m \in queuedMsgs
      BY <1>12, <3>1 DEF FillInv, GapsFilled
    <3>2. CASE m \notin queuedMsgs
      <4>1. Enqueue(m)
        BY <1>5, <3>2
      <4>2. 0 \in 0 .. FragCount[m] - 1
        <5>1. FragCount[m] \in Nat \ {0}
          BY <4>1, SenderAssumption DEF Enqueue
        <5> QED
          BY <5>1
      <4>3. PICK j \in Taken(m) : TRUE
        BY <4>2 DEF Parts
      <4>4. j \in DOMAIN sent /\ sent[j].frag.msg = m /\ m \in Messages
        BY <4>1, <4>3 DEF Taken, Enqueue
      <4>5. sent[j].frag # Cover
        BY <4>4, SenderAssumption DEF Cover
      <4> QED
        BY <3>2, <4>4, <4>5, CellFacts DEF FillInv
    <3> QED
      BY <3>1, <3>2
  <2> QED
    BY <2>1, <2>2
<1> QED
  BY <1>3, <1>4, <1>6, <1>7, <1>8, <1>9, <1>10, <1>12 DEF FillInv

\* So does every step of a link whose sending end has not started again.
LEMMA FillNext ==
  ASSUME Copies <= MaxCopies, MaxFragsPerMessage <= MaxMessageFrags,
         MaxFragsPerMessage <= MaxOpenFrags, ~Restart, BaseInv, FillInv, [Next]_vars
  PROVE  FillInv'
<1>1. CASE Arrive /\ UNCHANGED <<counterVars, senderVars>>
  <2>1. PICK i \in DOMAIN sent : Feed(sent[i])
    BY <1>1 DEF Arrive
  <2> QED
    BY <1>1, <2>1, FillFeed
<1>2. CASE UNCHANGED <<windowVars, receiverVars>>
  BY <1>2, FillSend
<1> QED
  BY <1>1, <1>2 DEF Next, vars

\* The parts that got through are those of the cells taken.
LEMMA ThroughIsParts ==
  ASSUME BaseInv, NEW m, GotThrough(m)
  PROVE  0 .. FragCount[m] - 1 \subseteq Parts(m)
<1> SUFFICES ASSUME NEW k \in 0 .. FragCount[m] - 1 PROVE k \in Parts(m)
  OBVIOUS
<1>1. PICK j \in DOMAIN sent : /\ sent[j].frag.msg = m /\ sent[j].frag.idx = k
                               /\ sent[j].counter \in accepted
  BY DEF GotThrough
<1>2. sent[j].counter = j
  BY DEF BaseInv, StreamInv, CountersCount
<1>3. j \in Taken(m)
  BY <1>1, <1>2 DEF Taken
<1> QED
  BY <1>1, <1>3 DEF Parts

\* The copies of a message fill each other's gaps.  On a link that neither restarted its
\* sending end nor reordered its cells, a message every part of which got through in some
\* copy has been handed on, whatever was lost, duplicated, expired or abandoned meanwhile:
\* for every number of copies, every window and however little is remembered as delivered.
\* Assumed of the two ends' settings: no more copies than the receiving end is patient
\* for, and no message too long for it or for its buffer.
THEOREM GapsAreFilled ==
  ASSUME Copies <= MaxCopies, MaxFragsPerMessage <= MaxMessageFrags,
         MaxFragsPerMessage <= MaxOpenFrags
  PROVE  Spec => []CopiesFillGaps
<1>1. Init => FillInv
  <2> SUFFICES ASSUME Init PROVE FillInv
    OBVIOUS
  <2>1. /\ queue = << >> /\ sent = << >> /\ queuedMsgs = {} /\ out = << >> /\ open = NoneOpen
        /\ delivered = << >> /\ accepted = {} /\ highest = 0
    BY DEF Init, SenderInit, WindowInit, ReceiverInit
  <2>2. DOMAIN sent = {} /\ DOMAIN open = {} /\ Total = 0 /\ ToSet(delivered) = {}
    BY <2>1 DEF NoneOpen, Total, ToSet
  <2>3. Together /\ ShortEnough /\ WindowRemembers /\ AcceptedBelow /\ NumbersSaid /\ HeldTaken
    BY <2>1, <2>2 DEF Together, ShortEnough, WindowRemembers, AcceptedBelow, NumbersSaid, HeldTaken
  <2>4. LatestUnderway /\ GapsFilled
    BY <2>1, <2>2 DEF LatestUnderway, GapsFilled
  <2> QED
    BY <2>3, <2>4 DEF FillInv
<1> DEFINE Inv == restarts = 0 => FillInv
<1>2. LinkInv /\ (restarts = 0 => BaseInv) /\ Inv /\ [Next]_vars => Inv'
  <2> SUFFICES ASSUME LinkInv, restarts = 0 => BaseInv, Inv, [Next]_vars, restarts' = 0
               PROVE  FillInv'
    OBVIOUS
  <2>1. restarts = 0 /\ ~Restart
    BY NoRestartYet DEF LinkInv
  <2> QED
    BY <2>1, FillNext
<1>3. LinkInv /\ (restarts = 0 => BaseInv) /\ Inv => CopiesFillGaps
  <2> SUFFICES ASSUME BaseInv, FillInv, ~reordered, NEW m \in queuedMsgs, GotThrough(m)
               PROVE  {m} \in ToSet(out)
    BY DEF CopiesFillGaps
  <2> QED
    BY ThroughIsParts DEF FillInv, GapsFilled
<1>4. Init => Inv
  BY <1>1
<1> HIDE DEF Inv
<1> QED
  BY <1>2, <1>3, <1>4, BaseInvariant, PTL DEF Spec
=============================================================================
