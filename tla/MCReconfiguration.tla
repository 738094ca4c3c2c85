------------------------- MODULE MCReconfiguration -------------------------
(***************************************************************************)
(* Two flows, of two segments and of one, over two links.  In one topology *)
(* each has a link of its own to its sink; in the other they meet on link  *)
(* 1, and the flow "a" crosses two links.                                  *)
(***************************************************************************)
EXTENDS Reconfiguration

Two == [f \in {"a", "b"} |-> IF f = "a" THEN 2 ELSE 1]
MCTopologies ==
  {[f \in {"a", "b"} |-> IF f = "a" THEN {<<1>>} ELSE {<<2>>}],
   [f \in {"a", "b"} |-> IF f = "a" THEN {<<2, 1>>} ELSE {<<1>>}]}
=============================================================================
