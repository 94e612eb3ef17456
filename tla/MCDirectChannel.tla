--------------------------- MODULE MCDirectChannel ---------------------------
(* Instances of DirectChannel for TLC. *)
EXTENDS DirectChannel

\* Anna comes back with another token, to a bert who stays.
MCMaxConns == [c \in Client |-> IF c = "anna" THEN 2 ELSE 1]
MCMaxPeers == [c \in Client |-> 1]

\* Bert's token is between Anna's: each creates the channel once.
MCRank == [t \in Token |-> IF t[1] = "bert" THEN 2 ELSE 2 * t[2] - 1]

\* The other way round: Anna comes back with a lesser token than Bert's.
MCRankFalls == [t \in Token |-> IF t[1] = "bert" THEN 2 ELSE 5 - 2 * t[2]]
=============================================================================
