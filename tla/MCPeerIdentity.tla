--------------------------- MODULE MCPeerIdentity ----------------------------
(* Instances of PeerIdentity for TLC. *)
EXTENDS PeerIdentity

MCProfiles ==
  [c \in Client |-> Pubkey \cap IF c = "anna" THEN {"anna", "annas work"} ELSE {c}]

\* Anna comes back with another token, to a bert who stays.
MCMaxConns == [c \in Client |-> IF c = "anna" THEN 2 ELSE 1]
=============================================================================
