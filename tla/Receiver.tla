------------------------------ MODULE Receiver ------------------------------
(***************************************************************************)
(* tools/receiver/receive.py: the verification chain for arriving bundles, *)
(* its durable sequence marks and the keys it trusts.  The transport is    *)
(* one-way and never acknowledged, so any archive may arrive any number of *)
(* times, in any order, or never.                                          *)
(*                                                                         *)
(* receive() is two steps here, because the mark is durable before the     *)
(* bundle is dispatched and the process may die in between.                *)
(***************************************************************************)
EXTENDS BundleManifest

CONSTANT
  ProvisionedTypes   \* key id -> the types it may sign from the start, {} if not provisioned

VARIABLES
  highWater,    \* sequence-high-water.json: key id -> the last recorded sequence, or NoMark
  rotatedKeys,  \* rotated-verify-keys.json: key id -> types, {} if not rotated in
  verifyKeys,   \* verify_keys in memory: key id -> types, {} if unknown
  unpacked,     \* the bundle verified and not yet dispatched, or None
  inbox,        \* box -> the bundles waiting in it
  quarantine,   \* the archives in the quarantine directory
  accepted,     \* history: how many times each bundle was accepted
  lowered       \* history: the keys whose mark a floor command has lowered

receiverVars ==
  <<highWater, rotatedKeys, verifyKeys, unpacked, inbox, quarantine, accepted, lowered>>

NoMark == -1     \* no mark is recorded for the key
Boxes  == {"command", "eval", "worker"}

ASSUME ReceiverAssumption == ProvisionedTypes \in [KeyIds -> SUBSET Types]

Known(k) == verifyKeys[k] # {}

ReceiverTypeOK ==
  /\ highWater \in [KeyIds -> Nat \cup {NoMark}]
  /\ rotatedKeys \in [KeyIds -> SUBSET Types]
  /\ verifyKeys \in [KeyIds -> SUBSET Types]
  /\ unpacked \in Bundles \cup {None}
  /\ inbox \in [Boxes -> SUBSET Bundles]
  /\ quarantine \in SUBSET Bundles
  /\ accepted \in [Bundles -> Nat]
  /\ lowered \in SUBSET KeyIds

ReceiverInit ==
  /\ highWater = [k \in KeyIds |-> NoMark]
  /\ rotatedKeys = [k \in KeyIds |-> {}]
  /\ verifyKeys = ProvisionedTypes
  /\ unpacked = None
  /\ inbox = [box \in Boxes |-> {}]
  /\ quarantine = {}
  /\ accepted = [b \in Bundles |-> 0]
  /\ lowered = {}

-----------------------------------------------------------------------------
\* Mutant: an off-by-one in the replay check.
StaleButEqual(b) ==
  highWater[Signer[b]] # NoMark /\ Sequence[b] < highWater[Signer[b]]

\* Step 3: the sequence does not advance the persisted mark of its signer.
Replayed(b) ==
  highWater[Signer[b]] # NoMark /\ Sequence[b] <= highWater[Signer[b]]

\* Mutant: a known key may sign any type.
AuthenticAnyType(b) == Known(Signer[b]) /\ Defect[b] # "signature"

\* Step 2: a known key, a good signature, and a type the key may sign.
Authentic(b) ==
  /\ Known(Signer[b])
  /\ Defect[b] # "signature"
  /\ Type[b] \in verifyKeys[Signer[b]]

\* _unpack and _verify in the order of their returns.  The linter opens
\* spec/site.json and tests/suite.json without asking whether the archive has
\* them, so a signed bundle without them raises out of receive().
Verdict(b) ==
  IF Defect[b] = "layout" THEN "REJECT_LAYOUT"
  ELSE IF ~Authentic(b) THEN "REJECT_SIGNATURE"
  ELSE IF Replayed(b) THEN "REJECT_REPLAY"
  ELSE [sound |-> "OK", hash |-> "REJECT_HASH_MISMATCH", lint |-> "REJECT_LINT",
        unlintable |-> "raises"][Defect[b]]

Rejections == {"REJECT_LAYOUT", "REJECT_SIGNATURE", "REJECT_REPLAY",
               "REJECT_HASH_MISMATCH", "REJECT_LINT"}

\* The chain ends in _record_sequence: the mark is on disk, the bundle is not yet
\* in an inbox.
Accept(b) ==
  /\ unpacked = None
  /\ Verdict(b) = "OK"
  /\ highWater' = [highWater EXCEPT ![Signer[b]] = Sequence[b]]
  /\ unpacked' = b
  /\ accepted' = [accepted EXCEPT ![b] = @ + 1]
  /\ UNCHANGED <<rotatedKeys, verifyKeys, inbox, quarantine, lowered>>

Reject(b) ==
  /\ unpacked = None
  /\ Verdict(b) \in Rejections
  /\ quarantine' = quarantine \cup {b}
  /\ UNCHANGED <<highWater, rotatedKeys, verifyKeys, unpacked, inbox, accepted, lowered>>

\* An unlintable bundle leaves none of the modelled state behind: not its mark,
\* not a quarantine entry, not a dispatched directory.

BoxOf(b) == IF Type[b] \in {"command", "eval"} THEN Type[b] ELSE "worker"

\* _dispatch: one rename; a directory already there under the same bundle id is
\* removed first, so a pending copy is replaced.
Dispatch ==
  /\ unpacked # None
  /\ inbox' = [inbox EXCEPT ![BoxOf(unpacked)] = @ \cup {unpacked}]
  /\ unpacked' = None
  /\ UNCHANGED <<highWater, rotatedKeys, verifyKeys, quarantine, accepted, lowered>>

\* A consumer's rmtree of a bundle's inbox directory.
Discard(box, b) == inbox' = [inbox EXCEPT ![box] = @ \ {b}]

-----------------------------------------------------------------------------
\* set_sequence_floor writes the mark it is given, lower or higher.
SetSequenceFloor(k, floor) ==
  /\ highWater' = [highWater EXCEPT ![k] = floor]
  /\ lowered' = IF floor < highWater[k] THEN lowered \cup {k} ELSE lowered
  /\ UNCHANGED <<rotatedKeys, verifyKeys, unpacked, inbox, quarantine, accepted>>

\* Mutant: the rotated-in key is trusted in memory and never written.
AddVerifyKeyVolatile(k, types) ==
  /\ ~Known(k)
  /\ verifyKeys' = [verifyKeys EXCEPT ![k] = types]
  /\ UNCHANGED <<highWater, rotatedKeys, unpacked, inbox, quarantine, accepted, lowered>>

AddVerifyKey(k, types) ==
  /\ ~Known(k)
  /\ verifyKeys' = [verifyKeys EXCEPT ![k] = types]
  /\ rotatedKeys' = [rotatedKeys EXCEPT ![k] = types]
  /\ UNCHANGED <<highWater, unpacked, inbox, quarantine, accepted, lowered>>

\* The process dies and starts again: __init__ reads the rotated keys back beside
\* the provisioned ones; what was unpacked is never looked at again.
ReceiverRestart ==
  /\ unpacked' = None
  /\ verifyKeys' = [k \in KeyIds |-> IF rotatedKeys[k] # {} THEN rotatedKeys[k]
                                     ELSE ProvisionedTypes[k]]
  /\ UNCHANGED <<highWater, rotatedKeys, inbox, quarantine, accepted, lowered>>

-----------------------------------------------------------------------------
\* "This kills replay": a bundle delivered again, in any order and across any
\* number of restarts, is accepted once -- as long as no floor command has lowered
\* its signer's mark.
AcceptedOnce ==
  \A b \in Bundles : accepted[b] > 1 => Signer[b] \in lowered
=============================================================================
