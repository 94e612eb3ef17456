----------------------------- MODULE PeerIdentity ----------------------------
(***************************************************************************)
(* Whose token is this?  The greeting of src/src/client.js: helloTo, the   *)
(* `__cc_hello__` frame and _onHello, whoIs, forgetToken, and what is left *)
(* of them when a connection or an app ends.  Clients greet each other     *)
(* through the proxy, which is the environment.                            *)
(*                                                                         *)
(* A token is a connection of a client and is not used again.  What a      *)
(* greeting says its sender understands (`speaks`) is the same for every   *)
(* client of a version and is left out.                                    *)
(***************************************************************************)
EXTENDS Integers, FiniteSets

CONSTANTS
  Client,     \* the clients
  Pubkey,     \* identities
  Profiles,   \* the identities each client can identify as
  Nobody,     \* null, where an identity may stand
  MaxConns    \* bound: connections of each client

ASSUME IdentityAssumption ==
  /\ Nobody \notin Pubkey
  /\ Profiles \in [Client -> SUBSET Pubkey]
  /\ MaxConns \in [Client -> Nat]

Token == UNION {{c} \X (1 .. MaxConns[c]) : c \in Client}

VARIABLES
  conns,         \* how many connections each client has had
  up,            \* its last one is open
  identified,    \* and the proxy has its identity
  myPublickey,   \* this.myPublickey
  tokenPubkeys,  \* this._tokenPubkeys
  helloSent,     \* this._helloSent
  asking,        \* the tokens whoIs() is waiting for
  frames,        \* the greetings on their way
  notices,       \* the `disconnected` frames on their way
  fresh,         \* history: the app's first connection, nothing forgotten yet, no
                 \* change of profile and no identification refused
  met            \* history: <<c, d>> if c has greeted d over their connections
                 \* of now, both identified

vars == <<conns, up, identified, myPublickey, tokenPubkeys, helloSent, asking,
          frames, notices, fresh, met>>
connVars == <<conns, up, identified, fresh>>

Hello == [from : Token, to : Token, publickey : Pubkey]

TypeOK ==
  /\ conns \in [Client -> Nat]
  /\ \A c \in Client : conns[c] <= MaxConns[c]
  /\ up \in [Client -> BOOLEAN]
  /\ identified \in [Client -> BOOLEAN]
  /\ myPublickey \in [Client -> Pubkey \cup {Nobody}]
  /\ tokenPubkeys \in [Client -> [Token -> Pubkey \cup {Nobody}]]
  /\ helloSent \in [Client -> SUBSET Token]
  /\ asking \in [Client -> SUBSET Token]
  /\ frames \subseteq Hello
  /\ notices \subseteq Client \X Token
  /\ fresh \in [Client -> BOOLEAN]
  /\ met \subseteq Client \X Client
  \* A greeting with no identity says nothing: nobody has sent one.
  /\ \A c \in Client : helloSent[c] # {} => myPublickey[c] # Nobody

Init ==
  /\ conns = [c \in Client |-> 0]
  /\ up = [c \in Client |-> FALSE]
  /\ identified = [c \in Client |-> FALSE]
  /\ myPublickey = [c \in Client |-> Nobody]
  /\ tokenPubkeys = [c \in Client |-> [t \in Token |-> Nobody]]
  /\ helloSent = [c \in Client |-> {}]
  /\ asking = [c \in Client |-> {}]
  /\ frames = {}
  /\ notices = {}
  /\ fresh = [c \in Client |-> TRUE]
  /\ met = {}

-----------------------------------------------------------------------------
(* Helpers *)

MyToken(c) == <<c, conns[c]>>
Owner(t) == t[1]
IsAlive(t) == up[Owner(t)] /\ t = MyToken(Owner(t))

\* A greeting on the wire.  The proxy delivers nothing for a connection that
\* has not identified, and drops what goes to a token that is gone.
Travels(c, t) == up[c] /\ identified[c] /\ IsAlive(t)

\* What remains in transit of a set of frames when c sends helloTo(t).
WithHello(inTransit, c, t) ==
  IF Travels(c, t)
    THEN inTransit \cup {[from |-> MyToken(c), to |-> t, publickey |-> myPublickey[c]]}
    ELSE inTransit

\* helloTo(t): t counts as greeted whether or not anything could leave.
HelloTo(c, t) ==
  /\ helloSent' = [helloSent EXCEPT ![c] = @ \cup {t}]
  /\ frames' = WithHello(frames, c, t)
  /\ met' = IF Travels(c, t) /\ identified[Owner(t)] THEN met \cup {<<c, Owner(t)>>} ELSE met

\* What a client's connection takes with it when it ends.
Disconnected(c) ==
  /\ up' = [up EXCEPT ![c] = FALSE]
  /\ identified' = [identified EXCEPT ![c] = FALSE]
  /\ frames' = {f \in frames : Owner(f.from) # c /\ Owner(f.to) # c}
  /\ met' = {pair \in met : c \notin {pair[1], pair[2]}}

\* The proxy tells those who share a channel with c; which those are, the
\* model leaves open.  Notices on their way to c are lost with its connection.
Notified(c) ==
  \E told \in SUBSET {d \in Client \ {c} : up[d]} :
    notices' = {n \in notices : n[1] # c} \cup (told \X {MyToken(c)})

-----------------------------------------------------------------------------
(* The connections *)

Connect(c) ==
  /\ ~up[c]
  /\ conns[c] < MaxConns[c]
  /\ up' = [up EXCEPT ![c] = TRUE]
  /\ conns' = [conns EXCEPT ![c] = @ + 1]
  /\ UNCHANGED <<identified, myPublickey, tokenPubkeys, helloSent, asking,
                 frames, notices, fresh, met>>

\* Nothing in the client is forgotten when its connection ends.
Drop(c) ==
  /\ up[c]
  /\ Disconnected(c)
  /\ Notified(c)
  /\ fresh' = [fresh EXCEPT ![c] = FALSE]
  /\ UNCHANGED <<conns, myPublickey, tokenPubkeys, helloSent, asking>>

\* The app starts again with a new client object.
Restart(c) ==
  /\ up[c]
  /\ Disconnected(c)
  /\ Notified(c)
  /\ myPublickey' = [myPublickey EXCEPT ![c] = Nobody]
  /\ tokenPubkeys' = [tokenPubkeys EXCEPT ![c] = [t \in Token |-> Nobody]]
  /\ helloSent' = [helloSent EXCEPT ![c] = {}]
  /\ asking' = [asking EXCEPT ![c] = {}]
  /\ fresh' = [fresh EXCEPT ![c] = TRUE]
  /\ UNCHANGED conns

\* identify() that the proxy accepts: the identity counts from the request on.
Identify(c, pk) ==
  /\ up[c]
  /\ pk \in Profiles[c]
  /\ myPublickey[c] # pk \/ ~identified[c]
  /\ identified' = [identified EXCEPT ![c] = TRUE]
  /\ myPublickey' = [myPublickey EXCEPT ![c] = pk]
  /\ fresh' = [fresh EXCEPT ![c] = @ /\ myPublickey[c] \in {Nobody, pk}]
  /\ UNCHANGED <<conns, up, tokenPubkeys, helloSent, asking, frames, notices, met>>

\* The proxy refuses it, but the client goes on saying it is pk.
IdentifyRefused(c, pk) ==
  /\ up[c]
  /\ pk \in Profiles[c]
  /\ myPublickey[c] # pk
  /\ myPublickey' = [myPublickey EXCEPT ![c] = pk]
  /\ fresh' = [fresh EXCEPT ![c] = FALSE]
  /\ UNCHANGED <<conns, up, identified, tokenPubkeys, helloSent, asking, frames, notices, met>>

-----------------------------------------------------------------------------
(* The greeting *)

\* The tokens a client may have come by: anyone's, of now or of before.
Seen == {t \in Token : t[2] <= conns[Owner(t)]}

\* helloTo(t), by the app.
Greet(c, t) ==
  /\ t \in Seen /\ Owner(t) # c
  /\ myPublickey[c] # Nobody
  /\ HelloTo(c, t)
  /\ UNCHANGED <<connVars, myPublickey, tokenPubkeys, asking, notices>>

\* whoIs(t), when nobody has said yet.  (Before identify() it only waits.)
WhoIs(c, t) ==
  /\ t \in Seen /\ Owner(t) # c
  /\ myPublickey[c] # Nobody
  /\ tokenPubkeys[c][t] = Nobody
  /\ asking' = [asking EXCEPT ![c] = @ \cup {t}]
  /\ HelloTo(c, t)
  /\ UNCHANGED <<connVars, myPublickey, tokenPubkeys, notices>>

\* whoIs resolves with null after `timeoutMs`.
WhoIsTimesOut(c, t) ==
  /\ t \in asking[c]
  /\ asking' = [asking EXCEPT ![c] = @ \ {t}]
  /\ UNCHANGED <<connVars, myPublickey, tokenPubkeys, helloSent, frames, notices, met>>

\* Seeded fault: the last greeting wins.
BugConflicts(c, f) == FALSE

\* `hello_conflict`
Conflicts(c, f) == tokenPubkeys[c][f.from] \notin {Nobody, f.publickey}

\* Seeded fault: every greeting is answered.
BugAnswers(c, t) == myPublickey[c] # Nobody

\* Seeded fault: a greeting from a token that has greeted before goes unanswered.
BugAnswersTheFirst(c, t) ==
  t \notin helloSent[c] /\ myPublickey[c] # Nobody /\ tokenPubkeys[c][t] = Nobody

\* A greeting is answered once.
Answers(c, t) == t \notin helloSent[c] /\ myPublickey[c] # Nobody

\* _onHello
OnHello(c, f) ==
  /\ f \in frames
  /\ c = Owner(f.to)
  /\ IF Conflicts(c, f)
       THEN /\ frames' = frames \ {f}
            /\ UNCHANGED <<tokenPubkeys, helloSent, asking, met>>
       ELSE /\ tokenPubkeys' = [tokenPubkeys EXCEPT ![c][f.from] = f.publickey]
            /\ asking' = [asking EXCEPT ![c] = @ \ {f.from}]
            /\ IF Answers(c, f.from)
                 THEN /\ helloSent' = [helloSent EXCEPT ![c] = @ \cup {f.from}]
                      /\ frames' = WithHello(frames \ {f}, c, f.from)
                 ELSE /\ frames' = frames \ {f}
                      /\ UNCHANGED helloSent
            /\ UNCHANGED met
  /\ UNCHANGED <<connVars, myPublickey, notices>>

-----------------------------------------------------------------------------
(* Forgetting *)

\* What forgetToken(t) deletes.
ForgetsToken(c, t) ==
  /\ tokenPubkeys' = [tokenPubkeys EXCEPT ![c][t] = Nobody]
  /\ helloSent' = [helloSent EXCEPT ![c] = @ \ {t}]

\* forgetToken(t), by the app.
ForgetToken(c, t) ==
  /\ t \in helloSent[c] \/ tokenPubkeys[c][t] # Nobody
  /\ ForgetsToken(c, t)
  /\ fresh' = [fresh EXCEPT ![c] = FALSE]
  /\ UNCHANGED <<conns, up, identified, myPublickey, asking, frames, notices, met>>

\* The `disconnected` frame of t.
PeerGone(c, t) ==
  /\ <<c, t>> \in notices
  /\ notices' = notices \ {<<c, t>>}
  /\ ForgetsToken(c, t)
  /\ UNCHANGED <<connVars, myPublickey, asking, frames, met>>

-----------------------------------------------------------------------------

Connections ==
  \/ \E c \in Client : Connect(c)
  \/ \E c \in Client : Drop(c)
  \/ \E c \in Client : Restart(c)
  \/ \E c \in Client, pk \in Pubkey : Identify(c, pk)
  \/ \E c \in Client, pk \in Pubkey : IdentifyRefused(c, pk)

Asks ==
  \/ \E c \in Client, t \in Token : Greet(c, t)
  \/ \E c \in Client, t \in Token : WhoIs(c, t)
  \/ \E c \in Client, t \in Token : ForgetToken(c, t)

Hears ==
  \/ \E c \in Client, f \in frames : OnHello(c, f)
  \/ \E c \in Client, t \in Token : PeerGone(c, t)
  \/ \E c \in Client, t \in Token : WhoIsTimesOut(c, t)

Next == Connections \/ Asks \/ Hears

Spec == Init /\ [][Next]_vars

\* What is on the wire arrives.
FairSpec == Spec /\ \A f \in Hello : WF_vars(\E c \in Client : OnHello(c, f))

-----------------------------------------------------------------------------

\* A greeting between c and d, over the connections they have now.
Between(c, d) == \E f \in frames : {Owner(f.from), Owner(f.to)} = {c, d}

Knows(c, d) == tokenPubkeys[c][MyToken(d)] # Nobody

\* "It is enough that one of the two ends greets": once a greeting between two
\* identified apps has come and gone, each knows the other's identity; here,
\* for apps on their first connection, that have forgotten nobody, have not
\* changed profile and were not refused one.
OneGreetingSuffices ==
  \A c, d \in Client :
    <<c, d>> \in met /\ fresh[c] /\ fresh[d] /\ ~Between(c, d) => Knows(c, d) /\ Knows(d, c)

\* A token does not change owner: no greeting, repeated, late or crossed with
\* a change of profile, replaces what a token's first one said.
TokenKeepsOwner ==
  [][ \A c \in Client, t \in Token :
        tokenPubkeys[c][t] # Nobody /\ tokenPubkeys'[c][t] # Nobody
          => tokenPubkeys'[c][t] = tokenPubkeys[c][t] ]_vars

\* "It does not bounce for ever": greetings die out when the apps ask nothing.
GreetingsDieOut == <>[][~Asks]_vars => <>[](frames = {})
=============================================================================
