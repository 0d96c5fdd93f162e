---------------------------- MODULE SiteRegistry ----------------------------
(***************************************************************************)
(* tools/registry/registry.py: which revision of which site is live.       *)
(* A record's site_id, hostname and supersedes come from the bundle it was *)
(* registered for and never change, so the registry's state is the status  *)
(* of every revision.  Each operation ends in one _flush (write a          *)
(* temporary file, rename it over the old one), so what a restart reads is *)
(* the state before the operation or the state after it: the operations    *)
(* are atomic and the state survives a restart.                            *)
(***************************************************************************)
EXTENDS BundleManifest, FiniteSets

VARIABLE sites      \* revision -> "absent", "LIVE" or "RETIRED"

SiteStatuses == {"absent", "LIVE", "RETIRED"}

RegistryTypeOK == sites \in [Revisions -> SiteStatuses]

RegistryInit == sites = [b \in Revisions |-> "absent"]

LiveRevisions == {b \in Revisions : sites[b] = "LIVE"}

\* live_for_hostname, as the set of its candidates: the code asserts that there
\* is at most one.
Holders(h) == {b \in LiveRevisions : HostOf[b] = h}

LiveSites == {SiteOf[b] : b \in LiveRevisions}

\* Mutant: a revision may supersede a revision of another site.
RegistrableOverAnySite(b) ==
  /\ sites[b] = "absent"
  /\ Supersedes[b] # None => Supersedes[b] \in Revisions /\ sites[Supersedes[b]] # "absent"
  /\ Holders(HostOf[b]) \subseteq {Supersedes[b]}

\* Mutant: the hostname check is forgotten.
RegistrableAnyHost(b) ==
  /\ sites[b] = "absent"
  /\ Supersedes[b] # None => Supersedes[b] \in Revisions

\* The assertions of register: a revision is registered once, supersedes names a
\* registered revision of the same site, and the hostname is free or is held by
\* the revision superseded.
Registrable(b) ==
  /\ sites[b] = "absent"
  /\ Supersedes[b] # None =>
       /\ Supersedes[b] \in Revisions
       /\ sites[Supersedes[b]] # "absent"
       /\ SiteOf[Supersedes[b]] = SiteOf[b]
  /\ Holders(HostOf[b]) \subseteq {Supersedes[b]}

Register(b) ==
  /\ b \in Revisions
  /\ Registrable(b)
  /\ sites' = [s \in Revisions |-> IF s = b THEN "LIVE"
                                   ELSE IF s = Supersedes[b] THEN "RETIRED"
                                   ELSE sites[s]]

\* Mutant: the holder of the hostname stays live.
SetLiveKeepsHolder(b) ==
  /\ b \in Revisions
  /\ sites[b] = "RETIRED"
  /\ sites' = [sites EXCEPT ![b] = "LIVE"]

SetLive(b) ==
  /\ b \in Revisions
  /\ sites[b] = "RETIRED"
  /\ sites' = [s \in Revisions |-> IF s = b THEN "LIVE"
                                   ELSE IF s \in Holders(HostOf[b]) THEN "RETIRED"
                                   ELSE sites[s]]

Retire(b) ==
  /\ b \in Revisions
  /\ sites[b] # "absent"
  /\ sites' = [sites EXCEPT ![b] = "RETIRED"]

\* One live revision per hostname or none: what live_for_hostname asserts and
\* inside DNS answers from, whatever registrations, rollbacks and retirements
\* came before (register, set_live and retire each keep it only given the others).
OneLivePerHostname ==
  \A b, c \in LiveRevisions : HostOf[b] = HostOf[c] => b = c
=============================================================================
