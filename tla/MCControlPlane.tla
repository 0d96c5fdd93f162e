--------------------------- MODULE MCControlPlane ---------------------------
(***************************************************************************)
(* The archives of the control plane's runs.  A cfg picks the ones it      *)
(* needs by giving Bundles its value.                                      *)
(*   pipe   the pipeline's key: sites      dev   the dev key: commands     *)
(*   rot    the offline rotation key       next  a key not yet trusted     *)
(***************************************************************************)
EXTENDS ControlPlane

Site(key, seq, site, host, supersedes) ==
  [signer |-> key, seq |-> seq, type |-> "site", defect |-> "sound",
   site |-> site, host |-> host, supersedes |-> supersedes]

Order(key, seq, op) ==
  [signer |-> key, seq |-> seq, type |-> "command", defect |-> "sound",
   op |-> op, exact |-> TRUE, run |-> None, sites |-> {}, target |-> None,
   key |-> None, floor |-> 0, role |-> "pipeline", form |-> "key"]

Archive ==
  [ r1     |-> Site("pipe", 1, "siteA", "a", None),
    r2     |-> Site("pipe", 2, "siteA", "a", "r1"),
    thief  |-> Site("pipe", 3, "siteB", "a", "r2"),
    r3     |-> Site("pipe", 4, "siteB", "a", None),
    late   |-> Site("pipe", 2, "siteA", "a", None),
    n1     |-> Site("next", 1, "siteB", "b", None),
    wrong  |-> Site("dev", 8, "siteB", "b", None),
    floor  |-> [Order("dev", 1, "set_sequence_floor") EXCEPT !.key = "pipe", !.floor = 1],
    rotate |-> [Order("rot", 1, "rotate_verification_key") EXCEPT !.key = "next"],
    rogue  |-> [Order("dev", 2, "rotate_verification_key") EXCEPT !.key = "next"],
    back   |-> [Order("dev", 1, "set_live") EXCEPT !.target = "r1"],
    retire |-> [Order("dev", 2, "retire") EXCEPT !.target = "r2"],
    start  |-> [Order("dev", 3, "start_run") EXCEPT !.run = "run1", !.sites = {"siteA"}],
    stop   |-> [Order("dev", 4, "stop_run") EXCEPT !.run = "run1"] ]

MCSigner   == [b \in Bundles |-> Archive[b].signer]
MCSequence == [b \in Bundles |-> Archive[b].seq]
MCType     == [b \in Bundles |-> Archive[b].type]
MCDefect   == [b \in Bundles |-> Archive[b].defect]

MCRevisions  == {b \in Bundles : Archive[b].type = "site"}
MCSiteOf     == [b \in MCRevisions |-> Archive[b].site]
MCHostOf     == [b \in MCRevisions |-> Archive[b].host]
MCSupersedes == [b \in MCRevisions |-> Archive[b].supersedes]

MCCommand ==
  [b \in Bundles \ MCRevisions |->
     [f \in {"op", "exact", "run", "sites", "target", "key", "floor", "role", "form"} |->
        Archive[b][f]]]

MCProvisionedTypes ==
  [k \in KeyIds |-> CASE k = "pipe" -> {"site", "index_only"}
                      [] k \in {"dev", "rot"} -> {"command"}
                      [] OTHER -> {}]

\* The directory of rejected archives is never read again: states that differ in
\* it alone have the same future, and the site run counts them once.
ButQuarantine ==
  <<highWater, rotatedKeys, verifyKeys, unpacked, inbox, accepted, lowered,
    sites, haltVars, execVars>>
=============================================================================
