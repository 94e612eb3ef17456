------------------------------- MODULE Answers -------------------------------
(***************************************************************************)
(* What the promise of a request to the proxy promises its caller: it      *)
(* settles, once; it resolves only if the proxy did what was asked; and    *)
(* where it says that nothing was done, nothing was nor will be.           *)
(* Requests.tla implements it.                                             *)
(***************************************************************************)
CONSTANT Request

VARIABLES
  outcome,   \* what the caller has been told
  carried    \* the requests the proxy has carried out

vars == <<outcome, carried>>

\* "doubt": the promise rejects and the request may or may not be carried out.
Outcome == {"none", "waiting", "resolved", "not done", "doubt"}

Init ==
  /\ outcome = [r \in Request |-> "none"]
  /\ carried = {}

\* A request that cannot leave is told so at once.
Ask(r) ==
  /\ outcome[r] = "none"
  /\ \E o \in {"waiting", "not done"} : outcome' = [outcome EXCEPT ![r] = o]
  /\ UNCHANGED carried

\* The proxy may do it when the caller no longer waits.
CarryOut(r) ==
  /\ outcome[r] \in {"waiting", "doubt"}
  /\ carried' = carried \cup {r}
  /\ UNCHANGED outcome

Settle(r) ==
  /\ outcome[r] = "waiting"
  /\ \E o \in IF r \in carried THEN {"resolved", "doubt"} ELSE {"not done", "doubt"} :
       outcome' = [outcome EXCEPT ![r] = o]
  /\ UNCHANGED carried

\* All that wait at once, when the caller closes the client.
GiveUp ==
  /\ outcome' = [r \in Request |-> IF outcome[r] = "waiting" THEN "doubt" ELSE outcome[r]]
  /\ UNCHANGED carried

Next == GiveUp \/ \E r \in Request : Ask(r) \/ CarryOut(r) \/ Settle(r)

Steps == Init /\ [][Next]_vars

Settles == \A r \in Request : outcome[r] = "waiting" ~> outcome[r] # "waiting"

Spec == Steps /\ Settles
=============================================================================
