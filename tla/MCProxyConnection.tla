-------------------------- MODULE MCProxyConnection --------------------------
(* Instances of ProxyConnection for TLC. *)
EXTENDS ProxyConnection, TLC

\* Sockets and timeouts are told apart by identity alone.
Symmetry == Permutations(Socket) \cup Permutations(Timer)
=============================================================================
