----------------------------- MODULE MCHaltPath -----------------------------
(***************************************************************************)
(* A counter somebody else exports to a file, then the gate's own count of *)
(* schema violations.                                                      *)
(***************************************************************************)
EXTENDS HaltPath

MCDetectors == <<"flow", "schema">>
=============================================================================
