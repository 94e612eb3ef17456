---------------------------- MODULE MCBluetooth ----------------------------
(* Instances of Bluetooth for TLC. *)
EXTENDS Bluetooth

\* Bert is the central.
MCRank == [n \in Node |-> IF n = "bert" THEN 2 ELSE 1]

\* Anna may begin again with another bid while what she dropped lives on.
MCMaxPeers == [n \in Node |-> IF n = "anna" THEN 2 ELSE 1]
MCMaxBid == [n \in Node |-> IF n = "anna" THEN 2 ELSE 1]
=============================================================================
