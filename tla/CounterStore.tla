---------------------------- MODULE CounterStore ----------------------------
(***************************************************************************)
(* tools/black_link/link.py, CounterStore: the cell counters of a link's   *)
(* sending end.  A block of counters is reserved on disk before any of     *)
(* them is used; a restart skips what is left of the block.                *)
(*                                                                         *)
(* take() is two steps here when it has to reserve: the process may die    *)
(* after the new reservation replaced the old one and before the first     *)
(* counter of it is used.                                                  *)
(***************************************************************************)
EXTENDS Integers

CONSTANTS
  Block,        \* COUNTER_BLOCK
  CounterMax    \* UINT64_MAX; the sender refuses to reserve past it

VARIABLES
  reservation,   \* the file: counters from here on were never used
  next,          \* _next
  reservedTo     \* _reserved_to: next up to here may be used

counterVars == <<reservation, next, reservedTo>>

ASSUME CounterAssumption ==
  /\ Block \in Nat \ {0}
  /\ CounterMax \in Nat

CounterTypeOK ==
  /\ reservation \in Nat
  /\ next \in Nat
  /\ reservedTo \in Nat

\* No file yet: the counters start at 1 (0 is the receiver's floor).
CounterInit == reservation = 1 /\ next = 1 /\ reservedTo = 1

\* Mutant: the file records where the block begins.
ReserveFromHere ==
  /\ next >= reservedTo
  /\ next + Block <= CounterMax
  /\ reservation' = next
  /\ reservedTo' = next + Block
  /\ UNCHANGED next

Reserve ==
  /\ next >= reservedTo
  /\ next + Block <= CounterMax
  /\ reservation' = next + Block
  /\ reservedTo' = next + Block
  /\ UNCHANGED next

\* The rest of take: counter `next` is used.
Use ==
  /\ next < reservedTo
  /\ next' = next + 1
  /\ UNCHANGED <<reservation, reservedTo>>

\* __init__ after a restart reads the file and has nothing reserved.
CounterRestart ==
  /\ next' = reservation
  /\ reservedTo' = reservation
  /\ UNCHANGED reservation
=============================================================================
