---------------------------- MODULE MCBlackLink ----------------------------
(***************************************************************************)
(* Messages for the black link's runs: "long" and "next" take two cells    *)
(* each, "wide" and "broad" three, any other takes one.                    *)
(***************************************************************************)
EXTENDS BlackLink

MCFragCount ==
  [m \in Messages |-> CASE m \in {"long", "next"} -> 2 [] m \in {"wide", "broad"} -> 3 [] OTHER -> 1]
=============================================================================
