--------------------------- MODULE ClientRequests ----------------------------
(***************************************************************************)
(* The requests of a client (Requests.tla) under names of their own: the   *)
(* module that proves what holds of a client's connection takes them, too. *)
(***************************************************************************)
CONSTANT Request

\* Those of Requests; `told` are its promises, for connect() has some, too.
VARIABLES link, pending, timers, told, wire, carried

Req == INSTANCE Requests WITH promise <- told

RequestsSpec == Req!Spec
RequestsFairSpec == Req!FairSpec

\* An entry and a timeout exactly for who waits: see Requests.
Bookkeeping == Req!Bookkeeping

\* close() leaves nobody waiting: see Requests.
NobodyWaitsAfterClose == Req!NobodyWaitsAfterClose

\* What a caller is told is what Answers promises: see Requests.
ImplementsAnswers == Req!ImplementsAnswers

\* And a caller is told: see Requests.
EveryRequestSettles == Req!EveryRequestSettles
=============================================================================
