-------------------------- MODULE MCLosslessNetwork --------------------------
(***************************************************************************)
(* Lossless instances.                                                     *)
(*   Neighbours: the switch of a passes its packets on to a switch and to  *)
(*     two hosts, as many queues as may empty an input queue while a sends *)
(*     one packet.  The host c sends to b the other way, through the same  *)
(*     two switches.                                                       *)
(*   OneSwitch: a sends to c and b to d.                                   *)
(***************************************************************************)
EXTENDS LosslessNetwork

Neighbours == <<<<"a", "s", "t", "c">>, <<"c", "t", "s", "b">>, <<"a", "s", "b">>, <<"a", "s", "d">>>>
NeighboursPackets == <<3, 3, 1, 1>>

\* To bound the states, what a sends to the hosts of its switch and what c sends are
\* not in the same behaviour.
Apart == toSend[2] = Packets[2] \/ (toSend[3] = Packets[3] /\ toSend[4] = Packets[4])
ApartSpec == Init /\ [][Next /\ Apart']_vars /\ Fairness

OneSwitch == <<<<"a", "s", "c">>, <<"b", "s", "d">>>>
OneSwitchPackets == <<5, 5>>
=============================================================================
