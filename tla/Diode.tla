------------------------------- MODULE Diode -------------------------------
(***************************************************************************)
(* The simulated data diode (tools/fake_demo_data_diode): a one-way mover  *)
(* of files between two directories.  The sending side is never written,   *)
(* so a tick looks at the files whose names the receiving side does not    *)
(* hold, in the order of their names, up to its capacity.  An item that is *)
(* dropped or deferred is looked at again; one that was delivered, damaged *)
(* or not, occupies its name for as long as the receiving side keeps it.   *)
(***************************************************************************)
EXTENDS Naturals, FiniteSets

CONSTANTS MaxItems,        \* max_items_per_tick
          Before(_, _)     \* the order of names

\* FakeDemoDataDiode.tick: the pending items, without what was delivered already
Pending(sent, received) == sent \ received

\* Mutant: the capacity is applied before the names are compared.
BatchThenPending(sent, received) ==
    {n \in sent : Cardinality({k \in sent : Before(k, n)}) < MaxItems} \ received

\* FakeDemoDataDiode.tick: those within the capacity of this tick
Batch(sent, received) ==
    LET pending == Pending(sent, received)
    IN  {n \in pending : Cardinality({k \in pending : Before(k, n)}) < MaxItems}

\* What the draws of tick and _deliver make of an item.  Frames and records fit
\* their links, so the fate of an oversize item is left out.
Fates == {"whole", "damaged", "dropped"}

\* TransferRecord.delivered
Delivered(fate) == {n \in DOMAIN fate : fate[n] # "dropped"}
=============================================================================
