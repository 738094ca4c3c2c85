------------------------------- MODULE MCNdp -------------------------------
(***************************************************************************)
(* An incast of two flows through a queue that holds one packet and one    *)
(* header, so that the third packet to arrive returns a header.            *)
(***************************************************************************)
EXTENDS Ndp

CONSTANTS Single, Scattered  \* the packets of the first flow with either strategy

MCSettings ==
  {[single |-> TRUE, flow_size |-> <<Single, 1>>],
   [single |-> FALSE, flow_size |-> <<Scattered, 1>>]}
MCSize == <<3, 3>>
=============================================================================
