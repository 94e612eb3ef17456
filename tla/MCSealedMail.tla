---------------------------- MODULE MCSealedMail ----------------------------
(***************************************************************************)
(* A message with bytes in two pieces for two identities, and two short    *)
(* ones, one of them with bytes, for the second identity alone.            *)
(***************************************************************************)
EXTENDS SealedMail, TLC

CONSTANTS ana, bea, room, photo, note

MCTo == room :> <<ana, bea>> @@ photo :> <<bea>> @@ note :> <<bea>>
MCPieces == room :> 2 @@ photo :> 1 @@ note :> 1
=============================================================================
