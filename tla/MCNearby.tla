------------------------------ MODULE MCNearby ------------------------------
(* Instances of Nearby for TLC. *)
EXTENDS Nearby

\* The announcer's machine has two networks (docker's is the second), the
\* others have one.
MCNets ==
  [n \in Announcer \cup Foreign \cup {Searcher} |->
     IF n \in Announcer THEN <<"lan", "docker">> ELSE <<"lan">>]

\* The announcer says what Bluetooth may find, too.
MCSays == [r \in Announcer \cup Foreign |-> IF r \in Foreign THEN "card" ELSE "invite"]
=============================================================================
