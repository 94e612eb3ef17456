---------------------------- MODULE MCReassembler ----------------------------
(* Instances of Reassembler for TLC. *)
EXTENDS MessageParts, TLC

\* Authors are told apart by identity alone.
Symmetry == Permutations(Author)
=============================================================================
