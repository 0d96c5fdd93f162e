--------------------------- MODULE MessageChannel ---------------------------
(***************************************************************************)
(* What a black link promises (remote-link-spec 4.4): a message may be     *)
(* lost and messages may overtake each other, but what comes out was put   *)
(* in, and whole.  How often it may come out is two constants: never again *)
(* within Memory deliveries, and, where Once holds, never again at all.    *)
(***************************************************************************)
EXTENDS Naturals, Sequences, SequencesExt

CONSTANTS Messages, Memory, Once

VARIABLES
  offered,     \* the messages the sending end took
  delivered    \* the messages the receiving end handed on, in order

Init == offered = {} /\ delivered = << >>

Offer(m) ==
  /\ m \notin offered
  /\ offered' = offered \cup {m}
  /\ UNCHANGED delivered

\* m is one of the last Memory messages delivered.
Recent(m) == \E k \in DOMAIN delivered : k + Memory > Len(delivered) /\ delivered[k] = m

Deliver(m) ==
  /\ m \in offered
  /\ ~Recent(m)
  /\ Once => m \notin ToSet(delivered)
  /\ delivered' = Append(delivered, m)
  /\ UNCHANGED offered

Next == \E m \in Messages : Offer(m) \/ Deliver(m)

Spec == Init /\ [][Next]_<<offered, delivered>>
=============================================================================
