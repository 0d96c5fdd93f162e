------------------------------ MODULE BlackLink ------------------------------
(***************************************************************************)
(* A black link: the sending end, a network that loses, duplicates and     *)
(* reorders its cells, and the receiving end.  Nothing flows back.  The    *)
(* sending end may die and start again; the receiving end is one           *)
(* long-running process (its window lives only as long as it does).        *)
(***************************************************************************)
EXTENDS LinkSender, LinkReceiver

CONSTANT MaxRestarts     \* bound on restarts of the sending end

VARIABLE restarts

vars == <<counterVars, senderVars, windowVars, receiverVars, restarts>>

ASSUME RestartAssumption == MaxRestarts \in Nat

TypeOK ==
  /\ CounterTypeOK
  /\ SenderTypeOK
  /\ WindowTypeOK
  /\ ReceiverTypeOK
  /\ restarts \in Nat

Init ==
  /\ CounterInit
  /\ SenderInit
  /\ WindowInit
  /\ ReceiverInit
  /\ restarts = 0

Sender ==
  \/ \E m \in Messages : Enqueue(m)
  \/ ReserveBlock
  \/ TickData
  \/ TickCover

\* Any cell ever sent may arrive, any number of times.
Arrive ==
  \E i \in DOMAIN sent : Feed(sent[i])

Restart ==
  /\ restarts < MaxRestarts
  /\ restarts' = restarts + 1
  /\ SenderRestart

Next ==
  \/ Sender /\ UNCHANGED <<windowVars, receiverVars, restarts>>
  \/ Arrive /\ UNCHANGED <<counterVars, senderVars, restarts>>
  \/ Restart /\ UNCHANGED <<windowVars, receiverVars>>

Spec == Init /\ [][Next]_vars

-----------------------------------------------------------------------------
\* No two cells were sealed under one counter, before and after any number of
\* restarts and wherever in a block they fall: the nonce of the AEAD never repeats.
NoncesAreFresh ==
  \A i, j \in DOMAIN sent : sent[i].counter = sent[j].counter => i = j

\* A link that neither restarted its sending end nor reordered its cells fills the
\* gaps of one copy from another: a message of which every fragment got through in
\* some copy is handed on, whatever other cells were lost and whatever messages the
\* buffer abandoned meanwhile.
GotThrough(m) ==
  \A i \in 0 .. FragCount[m] - 1 :
    \E j \in DOMAIN sent : /\ sent[j].frag.msg = m
                           /\ sent[j].frag.idx = i
                           /\ sent[j].counter \in accepted

CopiesFillGaps ==
  ~reordered /\ restarts = 0 =>
    \A m \in queuedMsgs : GotThrough(m) => {m} \in ToSet(out)

\* Whether the constants rule out a second delivery: one copy, or a memory of one
\* message less than twice the window is wide.  The code's defaults send one copy; its
\* memory of 256 is no match for a window of 1024 once copies are asked for.
DeliversOnce == Copies = 1 \/ 2 * Width <= Remember + 1

\* A link whose sending end does not restart implements the abstract channel: what comes
\* out was put in, whole -- a message is the set of the one origin all its fragments
\* have --, not again while it is remembered, and once where DeliversOnce.
Channel == INSTANCE MessageChannel WITH
  Messages  <- {{m} : m \in Messages},
  Memory    <- Remember,
  Once      <- DeliversOnce,
  offered   <- {{m} : m \in queuedMsgs},
  delivered <- out

ChannelSpec == Channel!Spec
=============================================================================
