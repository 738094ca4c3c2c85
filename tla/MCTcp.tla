------------------------------- MODULE MCTcp -------------------------------
(***************************************************************************)
(* One flow over one link, long enough for a loss to be followed by three  *)
(* segments that arrive, so that it goes through fast recovery.            *)
(***************************************************************************)
EXTENDS Reconfiguration

MCSegments == [f \in Flows |-> 5]
MCTopologies == {[f \in Flows |-> {<<1>>}]}
=============================================================================
