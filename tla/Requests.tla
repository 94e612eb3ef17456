------------------------------ MODULE Requests -------------------------------
(***************************************************************************)
(* The requests of a client to its proxy (src/src/client.js): _request,    *)
(* this._pending, the answers and errors that settle them, the timeout of  *)
(* each and what close() does with all.  Everything the proxy is asked     *)
(* (publish, list, identify, turn-credentials, pair-code, encpub, ...)     *)
(* goes through here.  The proxy and the connection are the environment.   *)
(*                                                                         *)
(* A request stands for its `id`, which is used once: this._nextId lives   *)
(* as long as the client.                                                  *)
(***************************************************************************)
CONSTANT Request

VARIABLES
  link,      \* readyState of this.ws, and whether it was the app that closed it
  pending,   \* the keys of this._pending
  timers,    \* the requests whose 10 s timeout is armed
  promise,   \* the promise of each request
  wire,      \* the frames on this.ws, either way
  carried    \* history: what the proxy has carried out

vars == <<link, pending, timers, promise, wire, carried>>

\* Ways a promise settles: "resolved", or rejected with the error's `code`.
Settled == {"resolved", "NOT_CONNECTED", "REQUEST_TIMEOUT", "CONNECTION_CLOSED", "refused"}

\* "answer" has the type the request expects, "stray" its id and another type.
Kind == {"request", "answer", "stray", "error"}
Frame == [id : Request, kind : Kind]
Of(r, kind) == [id |-> r, kind |-> kind]

TypeOK ==
  /\ link \in {"open", "lost", "closing", "closed"}
  /\ pending \subseteq Request
  /\ timers \subseteq Request
  /\ promise \in [Request -> {"none", "waiting"} \cup Settled]
  /\ wire \subseteq Frame
  /\ carried \subseteq Request

Init ==
  /\ link = "open"
  /\ pending = {}
  /\ timers = {}
  /\ promise = [r \in Request |-> "none"]
  /\ wire = {}
  /\ carried = {}

-----------------------------------------------------------------------------
(* The client *)

\* _request(): the frame leaves, or the request leaves nothing behind.
Ask(r) ==
  /\ promise[r] = "none"
  /\ IF link = "open"
       THEN /\ pending' = pending \cup {r}
            /\ timers' = timers \cup {r}
            /\ promise' = [promise EXCEPT ![r] = "waiting"]
            /\ wire' = wire \cup {Of(r, "request")}
       ELSE /\ promise' = [promise EXCEPT ![r] = "NOT_CONNECTED"]
            /\ UNCHANGED <<pending, timers, wire>>
  /\ UNCHANGED <<link, carried>>

\* Seeded fault: the entry goes and its timeout stays.
BugSettle(r, as) ==
  /\ pending' = pending \ {r}
  /\ promise' = [promise EXCEPT ![r] = as]
  /\ UNCHANGED timers

\* What ends a request: its timeout, its entry and its promise go together.
Settle(r, as) ==
  /\ pending' = pending \ {r}
  /\ timers' = timers \ {r}
  /\ promise' = [promise EXCEPT ![r] = as]

\* Seeded fault: any frame with its id answers a request.
BugAnswers(f) == f.kind # "error"

\* `expectedType`
Answers(f) == f.kind = "answer"

\* Seeded fault: a frame of another type disarms the timeout all the same.
BugIgnore(r) == timers' = timers \ {r} /\ UNCHANGED <<pending, promise>>

\* A frame nobody waits for.
Ignore(r) == UNCHANGED <<pending, timers, promise>>

\* _resolvePending and _rejectPending: nobody waits for a late answer, and a
\* frame of another type leaves the request waiting.
Arrive(f) ==
  /\ f \in wire /\ f.kind # "request"
  /\ link \in {"open", "closing"}
  /\ wire' = wire \ {f}
  /\ CASE f.id \in pending /\ Answers(f)        -> Settle(f.id, "resolved")
       [] f.id \in pending /\ f.kind = "error"  -> Settle(f.id, "refused")
       [] OTHER                                 -> Ignore(f.id)
  /\ UNCHANGED <<link, carried>>

TimesOut(r) ==
  /\ r \in timers
  /\ Settle(r, "REQUEST_TIMEOUT")
  /\ UNCHANGED <<link, wire, carried>>

\* Seeded fault: close() leaves what waits to its timeouts.
BugRejectNothing == UNCHANGED <<pending, timers, promise>>

\* _rejectAllPending()
RejectAllPending ==
  /\ pending' = {}
  /\ timers' = timers \ pending
  /\ promise' = [r \in Request |-> IF r \in pending THEN "CONNECTION_CLOSED" ELSE promise[r]]

\* close().  What is on the socket already may still get to the other end.
Close ==
  /\ link' = IF link = "open" THEN "closing" ELSE IF link = "lost" THEN "closed" ELSE link
  /\ RejectAllPending
  /\ UNCHANGED <<wire, carried>>

-----------------------------------------------------------------------------
(* The connection (ProxyConnection.tla) and the proxy *)

\* The connection ends, or is given up for dead, and takes its frames with it;
\* what waits goes on waiting.
LinkEnds ==
  /\ link \in {"open", "closing"}
  /\ link' = IF link = "open" THEN "lost" ELSE "closed"
  /\ wire' = {}
  /\ UNCHANGED <<pending, timers, promise, carried>>

\* By a retry, or because the app calls connect().
LinkReopens ==
  /\ link \in {"lost", "closed"}
  /\ link' = "open"
  /\ UNCHANGED <<pending, timers, promise, wire, carried>>

\* The proxy carries a request out and says so.
ProxyCarriesOut(r) ==
  /\ Of(r, "request") \in wire
  /\ wire' = (wire \ {Of(r, "request")}) \cup {Of(r, "answer")}
  /\ carried' = carried \cup {r}
  /\ UNCHANGED <<link, pending, timers, promise>>

\* It refuses it.
ProxyRefuses(r) ==
  /\ Of(r, "request") \in wire
  /\ wire' = (wire \ {Of(r, "request")}) \cup {Of(r, "error")}
  /\ UNCHANGED <<link, pending, timers, promise, carried>>

\* It says something else of a request it has yet to see to.
ProxySaysElse(r) ==
  /\ Of(r, "request") \in wire
  /\ wire' = wire \cup {Of(r, "stray")}
  /\ UNCHANGED <<link, pending, timers, promise, carried>>

-----------------------------------------------------------------------------

Next ==
  \/ \E r \in Request : Ask(r)
  \/ \E f \in wire : Arrive(f)
  \/ \E r \in Request : TimesOut(r)
  \/ Close
  \/ LinkEnds
  \/ LinkReopens
  \/ \E r \in Request : ProxyCarriesOut(r)
  \/ \E r \in Request : ProxyRefuses(r)
  \/ \E r \in Request : ProxySaysElse(r)

Spec == Init /\ [][Next]_vars

\* Armed timeouts fire; nobody need answer.
FairSpec == Spec /\ \A r \in Request : WF_vars(TimesOut(r))

-----------------------------------------------------------------------------

\* Whoever waits has an entry to be found by and a timeout to be saved by, and
\* nothing outlives its request: neither an entry nor a timer that would keep
\* the process alive, whichever of answer, error, timeout and close() came first.
Bookkeeping ==
  LET waiting == {r \in Request : promise[r] = "waiting"}
  IN pending = waiting /\ timers = waiting

\* close() leaves nobody waiting for what is no longer going to come: until
\* there is a connection again, no request waits nor starts to.
NobodyWaitsAfterClose ==
  link \in {"closing", "closed"} => \A r \in Request : promise[r] # "waiting"

\* What the caller is told in the terms of Answers.
OutcomeOf(p) ==
  CASE p \in {"none", "waiting", "resolved"}                 -> p
    [] p \in {"NOT_CONNECTED", "refused"}                    -> "not done"
    [] p \in {"REQUEST_TIMEOUT", "CONNECTION_CLOSED"}        -> "doubt"

A == INSTANCE Answers WITH outcome <- [r \in Request |-> OutcomeOf(promise[r])]

\* Requests implements the steps of Answers: a promise settles once; what
\* resolves was done; NOT_CONNECTED and the proxy's refusal mean it was not and
\* will not be, so that it is safe to ask again.
ImplementsAnswers == A!Steps

\* And its promise to settle: no answer, error, stray frame, lost connection
\* or close(), in whatever order, leaves a caller waiting for ever.
EveryRequestSettles == A!Settles
=============================================================================
