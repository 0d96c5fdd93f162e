---------------------------- MODULE ReplayWindow ----------------------------
(***************************************************************************)
(* tools/black_link/link.py, ReplayWindow: a sliding window over the cell  *)
(* counters.  The bitmap is the set of the counters its bits stand for.    *)
(***************************************************************************)
EXTENDS Integers

CONSTANT Width     \* REPLAY_WINDOW

VARIABLES
  highest,   \* the highest counter recorded
  seen       \* the counters of the window whose bit is set

windowVars == <<highest, seen>>

ASSUME WidthAssumption == Width \in Nat \ {0}

WindowTypeOK == highest \in Nat /\ seen \in SUBSET Nat

WindowInit == highest = 0 /\ seen = {}

\* Mutant: the window is one wider than its bitmap.
FreshOneTooFar(counter) ==
  /\ counter # 0
  /\ counter <= highest => highest - counter <= Width /\ counter \notin seen

Fresh(counter) ==
  /\ counter # 0
  /\ counter <= highest => highest - counter < Width /\ counter \notin seen

\* The shift drops what leaves the window, a jump past it everything.
Record(counter) ==
  /\ Fresh(counter)
  /\ highest' = IF counter > highest THEN counter ELSE highest
  /\ seen' = {c \in seen : highest' - c < Width} \cup {counter}
=============================================================================
