---------------------------- MODULE MCLogChannel ----------------------------
(***************************************************************************)
(* Two sources: the eval loop emits three records, the first of either of  *)
(* two contents, so that a number may be used for both; the worker         *)
(* emits one, in which the scanner finds something.                        *)
(***************************************************************************)
EXTENDS LogChannel

CONSTANTS eval_loop, worker

MCRank(s) == IF s = eval_loop THEN 1 ELSE 2
MCMaxSeq(s) == IF s = eval_loop THEN 3 ELSE 1
MCSays(s, n) == IF s = worker THEN {"implant"} ELSE IF n = 1 THEN {"text", "other"} ELSE {"text"}
=============================================================================
