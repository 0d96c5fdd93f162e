---------------------------- MODULE MCDeployment ----------------------------
(***************************************************************************)
(* Two revisions of one site, the second superseding the first, and two    *)
(* evals for one question about it: the first fits only the first          *)
(* revision.                                                               *)
(***************************************************************************)
EXTENDS Deployment

MCSigner     == [b \in Bundles |-> IF b \in {"e1", "e2"} THEN "dev" ELSE "pipe"]
MCSequence   == [b \in Bundles |-> IF b \in {"r1", "e1"} THEN 1 ELSE 2]
MCType       == [b \in Bundles |-> IF b \in {"e1", "e2"} THEN "eval" ELSE "site"]
MCDefect     == [b \in Bundles |-> "sound"]
MCRevisions  == Bundles \ {"e1", "e2"}
MCSiteOf     == [b \in MCRevisions |-> "siteA"]
MCHostOf     == [b \in MCRevisions |-> "a"]
MCSupersedes == [b \in MCRevisions |-> IF b = "r2" THEN "r1" ELSE None]
MCCommand    == [b \in {} |-> 0]
MCEvals      == Bundles \ MCRevisions
MCQuestionOf == [e \in MCEvals |-> "q"]
MCEvalSite   == [e \in MCEvals |-> "siteA"]
MCFits       == {<<"e1", "r1">>, <<"e2", "r1">>, <<"e2", "r2">>} \cap (MCEvals \X MCRevisions)
=============================================================================
