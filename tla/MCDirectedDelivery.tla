------------------------- MODULE MCDirectedDelivery --------------------------
(* Instances of DirectedDelivery for TLC: what may wait in the proxy's queue,  *)
(* and what only a direct channel may carry.                                   *)
EXTENDS DirectedDelivery

MCPieces == [m \in Msg |-> 2]
MCFits == [m \in Msg |-> IF m = "film" THEN "direct" ELSE "queue"]
=============================================================================
