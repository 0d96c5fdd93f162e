--------------------------- MODULE BundleManifest ---------------------------
(***************************************************************************)
(* What the components inside the airgap read in a bundle's manifest.      *)
(* A bundle is an immutable archive: its manifest is signed once, outside, *)
(* and every copy of it carries the same fields, so the fields are         *)
(* constant functions of the bundle's id.  Payloads, hashes and signatures *)
(* are abstracted to Defect, the first check of the receiver's chain that  *)
(* the archive's own bytes fail.                                           *)
(***************************************************************************)
EXTENDS Integers

CONSTANTS
  Bundles,      \* the archives that were ever signed or forged outside
  KeyIds,       \* the signer_key_id values they name
  RunIds,       \* the run ids that commands name
  SiteIds,      \* the sites that revisions belong to
  Hostnames,    \* the hostnames that site specs ask for
  None,         \* no bundle, no run, no key
  Signer,       \* bundle -> signer_key_id
  Sequence,     \* bundle -> sequence
  Type,         \* bundle -> type
  Defect,       \* bundle -> what its bytes fail, or "sound"
  SiteOf,       \* revision -> site_id
  HostOf,       \* revision -> hostname of its site spec
  Supersedes,   \* revision -> the revision it replaces, or None
  Command       \* command bundle -> its command

Types   == {"site", "index_only", "eval", "command"}
Defects == {"sound", "layout", "signature", "hash", "lint", "unlintable"}

\* What the worker turns into a registered revision, and what the executor applies.
Revisions == {b \in Bundles : Type[b] \in {"site", "index_only"}}
Commands  == {b \in Bundles : Type[b] = "command"}

Ops == {"start_run", "stop_run", "set_live", "retire", "set_sequence_floor",
        "rotate_verification_key"}

\* ROLE_TYPES: which bundle types a rotated-in key may sign, by declared role.
RoleTypes == [pipeline |-> {"site", "index_only"}, dev |-> {"command"}]

\* The union of the parameter sets of the six operations.  `exact` says that the
\* command carries its operation's keys and no other; `form` is what base64
\* decoding makes of a rotated-in key.
CommandBody ==
  [op : Ops, exact : BOOLEAN, run : RunIds \cup {None}, sites : SUBSET SiteIds,
   target : Bundles \cup {None}, key : KeyIds \cup {None}, floor : Nat,
   role : {"pipeline", "dev"}, form : {"key", "wrong_length", "undecodable"}]

ASSUME ManifestAssumption ==
  /\ Signer \in [Bundles -> KeyIds]
  /\ Sequence \in [Bundles -> Nat]
  /\ Type \in [Bundles -> Types]
  /\ Defect \in [Bundles -> Defects]
  /\ SiteOf \in [Revisions -> SiteIds]
  /\ HostOf \in [Revisions -> Hostnames]
  /\ Supersedes \in [Revisions -> Bundles \cup {None}]
  /\ Command \in [Commands -> CommandBody]
  /\ \A c \in Commands : Command[c].exact =>
       /\ Command[c].op \in {"start_run", "stop_run"} => Command[c].run \in RunIds
       /\ Command[c].op \in {"set_sequence_floor", "rotate_verification_key"}
            => Command[c].key \in KeyIds
  /\ None \notin Bundles
  /\ None \notin RunIds
  /\ None \notin KeyIds

\* pending(): an inbox is read lowest sequence first, whoever signed.  Equal
\* sequences (two signers) are ordered by directory name; the choice is left open.
Lowest(inbox) == {b \in inbox : \A other \in inbox : Sequence[b] <= Sequence[other]}
=============================================================================
