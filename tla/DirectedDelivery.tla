-------------------------- MODULE DirectedDelivery ---------------------------
(***************************************************************************)
(* How one client gets messages to one identity (src/src/client.js): the   *)
(* ladder direct channel, live through the proxy, proxy's queue of the     *)
(* identity; the watch that notices a token that has died; messages sent   *)
(* in pieces.  The proxy, the direct channel and the recipient's           *)
(* connections are the environment; the recipient's client is only its     *)
(* Reassembler, which Reassembler.tla details.                             *)
(*                                                                         *)
(* Tokens are numbered in the order the proxy gives them out.  A wire is a *)
(* set: nothing here depends on the order of frames.                       *)
(***************************************************************************)
EXTENDS Integers, FiniteSets

CONSTANTS
  Msg,              \* the messages the application sends
  Pieces,           \* how many pieces each is sent in
  Fits,             \* the cheapest of "queue", "relay", "direct" it fits in
  MaxToken,         \* bound: connections the recipient has
  MaxOwnToken,      \* bound: connections the sender has
  SealNamesSender   \* the envelope says who sealed it (SealingBridge.senderOf)

ASSUME DeliveryAssumption ==
  /\ Pieces \in [Msg -> Nat \ {0}]
  /\ Fits \in [Msg -> {"queue", "relay", "direct"}]
  /\ \A m \in Msg : Pieces[m] = 1 => Fits[m] = "queue"
  /\ MaxToken \in Nat \ {0}
  /\ MaxOwnToken \in Nat \ {0}
  /\ SealNamesSender \in BOOLEAN

Token == 1..MaxToken
ByPubkey == 0                       \* the address of an identity's queue
Piece == UNION {{m} \X (1..Pieces[m]) : m \in Msg}

VARIABLES
  link,       \* sender: readyState of this.ws
  ownToken,   \* sender: its token, this.token
  state,      \* sender: the sendSealedTo or sendSealed call of each message
  target,     \* sender: the token that call addresses, or ByPubkey
  cursor,     \* sender: the pieces its loop has sent
  watch,      \* sender: this._tokenWatch
  channel,    \* per token: our token in its direct channel, 0 if none is usable
  token,      \* recipient: its latest token
  online,     \* recipient: that connection is up and identified
  copies,     \* where the pieces are (Place below)
  delivered,  \* recipient: how often the app got each message
  lost        \* history: what became of a piece that is nowhere

senderVars == <<link, ownToken, state, target, cursor, watch>>
recipientVars == <<token, online>>
vars == <<link, ownToken, state, target, cursor, watch, channel,
          token, online, copies, delivered, lost>>

(***************************************************************************)
(* Where a piece can be, and what its tag says there:                      *)
(*   "up"       on the sender's socket; the token it is addressed to       *)
(*   "bounced"  refused, its `message_sent` reply on the way back          *)
(*   "channel"  on the direct channel; that channel's token                *)
(*   "down"     on the recipient's socket; the sender's name, see NameOf   *)
(*   "queue"    in the proxy's queue of the identity                       *)
(*   "held"     in the recipient's Reassembler; the sender's name          *)
(***************************************************************************)
Place == {"up", "bounced", "channel", "down", "queue", "held"}
Copy == [piece : Piece, place : Place, tag : Nat]
Made(p, place, tag) == [piece |-> p, place |-> place, tag |-> tag]

\* What can become of a piece: a connection broke with it on the wire; its
\* reply came when nobody waited for it any more; the app was told; the
\* recipient's app ended, or waited too long, with only part of the message.
Fate == {"no", "link", "late", "told", "restart", "idle"}

TypeOK ==
  /\ link \in {"open", "closing", "closed"}
  /\ ownToken \in 1..MaxOwnToken
  /\ state \in [Msg -> {"idle", "sending", "sent", "failed"}]
  /\ target \in [Msg -> Token \cup {ByPubkey}]
  /\ cursor \in [Msg -> Nat]
  /\ \A m \in Msg : cursor[m] <= Pieces[m]
  /\ watch \subseteq Piece
  /\ channel \in [Token -> 0..MaxOwnToken]
  /\ token \in Token
  /\ online \in BOOLEAN
  /\ copies \subseteq Copy
  /\ delivered \in [Msg -> Nat]
  /\ lost \in [Piece -> Fate]

\* Both ends connected, nothing sent yet.
Init ==
  /\ link = "open"
  /\ ownToken = 1
  /\ state = [m \in Msg |-> "idle"]
  /\ target = [m \in Msg |-> ByPubkey]
  /\ cursor = [m \in Msg |-> 0]
  /\ watch = {}
  /\ channel = [t \in Token |-> 0]
  /\ token = 1
  /\ online = TRUE
  /\ copies = {}
  /\ delivered = [m \in Msg |-> 0]
  /\ lost = [p \in Piece |-> "no"]

-----------------------------------------------------------------------------
(* Helpers *)

\* The name under which the recipient's Reassembler groups what arrives: who
\* sealed it if the envelope says so, else `from_publickey` if the proxy put
\* it (it does by pubkey), else the sender's token.
NameOf(viaPubkey, from) == IF SealNamesSender \/ viaPubkey THEN 0 ELSE from

Move(c, place, tag) == copies' = (copies \ {c}) \cup {Made(c.piece, place, tag)}

Losing(gone, fate) ==
  lost' = [p \in Piece |-> IF \E c \in gone : c.piece = p THEN fate ELSE lost[p]]

Lose(gone, fate) == copies' = copies \ gone /\ Losing(gone, fate)

At(places) == {c \in copies : c.place \in places}

\* The proxy's `to` reaches a token only over the connection it stands for.
TokenAlive(t) == online /\ t = token

-----------------------------------------------------------------------------
(* The sender *)

\* sendSealedTo(t, m): what goes over no relay needs a direct channel now.
SendSealedTo(m, t) ==
  /\ state[m] = "idle"
  /\ t \in 1..token
  /\ Fits[m] = "direct" => channel[t] # 0
  /\ state' = [state EXCEPT ![m] = "sending"]
  /\ target' = [target EXCEPT ![m] = t]
  /\ UNCHANGED <<link, ownToken, cursor, watch, channel, recipientVars,
                 copies, delivered, lost>>

\* sendSealed([pk], m): `too-big-for-queue` is thrown before anything leaves.
SendSealed(m) ==
  /\ state[m] = "idle"
  /\ Fits[m] = "queue"
  /\ state' = [state EXCEPT ![m] = "sending"]
  /\ UNCHANGED <<link, ownToken, target, cursor, watch, channel, recipientVars,
                 copies, delivered, lost>>

LastPiece(m, i) == i = Pieces[m]

\* One turn of the loop, which awaits the sealing of each piece.
Sends(m, place, tag) ==
  /\ cursor' = [cursor EXCEPT ![m] = @ + 1]
  /\ state' = [state EXCEPT ![m] = IF LastPiece(m, cursor'[m]) THEN "sent" ELSE @]
  /\ copies' = copies \cup {Made(<<m, cursor'[m]>>, place, tag)}
  /\ UNCHANGED <<link, ownToken, target, channel, recipientVars, delivered, lost>>

\* _tryDirect, and sendDirect for one piece of several: the channel took it.
SendOnChannel(m) ==
  /\ state[m] = "sending"
  /\ target[m] # ByPubkey
  /\ channel[target[m]] # 0
  /\ Sends(m, "channel", target[m])
  /\ UNCHANGED watch

\* Seeded fault: a piece that fell off its direct channel always goes by proxy.
BugRelayAnything(m) == TRUE

\* `relayFallback`
MayRelay(m) == Fits[m] # "direct"

\* _sendToTokenOrQueue without a direct channel.
SendToToken(m) ==
  /\ state[m] = "sending"
  /\ target[m] # ByPubkey
  /\ channel[target[m]] = 0
  /\ MayRelay(m)
  /\ link = "open"
  /\ Sends(m, "up", target[m])
  /\ watch' = watch \cup {<<m, cursor'[m]>>}

\* _sendByPubkeyRaw in the loop of sendSealed.
SendToPubkey(m) ==
  /\ state[m] = "sending"
  /\ target[m] = ByPubkey
  /\ link = "open"
  /\ Sends(m, "up", ByPubkey)
  /\ UNCHANGED watch

\* `direct-lost` or NOT_CONNECTED: the call rejects and its loop ends there.
SendThrows(m) ==
  /\ state[m] = "sending"
  /\ target[m] # ByPubkey => channel[target[m]] = 0
  /\ ~MayRelay(m) \/ link # "open"
  /\ state' = [state EXCEPT ![m] = "failed"]
  /\ UNCHANGED <<link, ownToken, target, cursor, watch, channel, recipientVars,
                 copies, delivered, lost>>

\* `queueFallback`
MayQueue(p) == Fits[p[1]] = "queue"

\* Seeded fault: nobody listens to `message_sent`, as before _tokenFailed.
BugIgnoreFailure(c) ==
  copies' = copies \ {c} /\ UNCHANGED <<watch, lost>>

\* _tokenFailed: the refused piece goes by pubkey, unless it may not or cannot.
TokenFailed(c) ==
  /\ watch' = watch \ {c.piece}
  /\ IF c.piece \notin watch THEN Lose({c}, "late")
     ELSE IF MayQueue(c.piece) /\ link = "open"
       THEN Move(c, "up", ByPubkey) /\ UNCHANGED lost
       ELSE Lose({c}, "told")

\* `message_sent` with the token in `failed` arrives.
MessageSent(c) ==
  /\ c \in At({"bounced"})
  /\ link # "closed"
  /\ TokenFailed(c)
  /\ UNCHANGED <<link, ownToken, state, target, cursor, channel, recipientVars, delivered>>

\* Seeded fault: 15 s of silence are taken for a failure and the piece sent again.
BugResendOnSilence(p) == copies' = copies \cup {Made(p, "up", ByPubkey)}

\* What the 15 s timeout does with the piece: nothing.  Silence means it arrived.
OnSilence(p) == UNCHANGED copies

\* The 15 s timeout of one watch.
WatchExpires(p) ==
  /\ p \in watch
  /\ watch' = watch \ {p}
  /\ OnSilence(p)
  /\ UNCHANGED <<link, ownToken, state, target, cursor, channel, recipientVars, delivered, lost>>

-----------------------------------------------------------------------------
(* The sender's connection (ProxyConnection.tla) *)

LinkCloses ==
  /\ link = "open"
  /\ link' = "closing"
  /\ UNCHANGED <<ownToken, state, target, cursor, watch, channel, recipientVars,
                 copies, delivered, lost>>

\* What was on the way in either direction goes with it.
LinkEnds ==
  /\ link # "closed"
  /\ link' = "closed"
  /\ Lose(At({"up", "bounced"}), "link")
  /\ UNCHANGED <<ownToken, state, target, cursor, watch, channel, recipientVars, delivered>>

LinkReopens ==
  /\ link = "closed"
  /\ ownToken < MaxOwnToken
  /\ link' = "open"
  /\ ownToken' = ownToken + 1
  /\ UNCHANGED <<state, target, cursor, watch, channel, recipientVars,
                 copies, delivered, lost>>

-----------------------------------------------------------------------------
(* The proxy and the direct channel, as the client sees them *)

ProxyRoutes(c) ==
  /\ c \in At({"up"})
  /\ CASE c.tag = ByPubkey /\ online   -> Move(c, "down", NameOf(TRUE, ownToken))
       [] c.tag = ByPubkey /\ ~online  -> Move(c, "queue", 0)
       [] TokenAlive(c.tag)            -> Move(c, "down", NameOf(FALSE, ownToken))
       [] OTHER                        -> Move(c, "bounced", 0)
  /\ UNCHANGED <<senderVars, channel, recipientVars, delivered, lost>>

ChannelOpens ==
  /\ online /\ link = "open"
  /\ channel[token] = 0
  /\ channel' = [channel EXCEPT ![token] = ownToken]
  /\ UNCHANGED <<senderVars, recipientVars, copies, delivered, lost>>

ChannelCloses(t) ==
  /\ channel[t] # 0
  /\ channel' = [channel EXCEPT ![t] = 0]
  /\ Lose({c \in At({"channel"}) : c.tag = t}, "link")
  /\ UNCHANGED <<senderVars, recipientVars, delivered>>

-----------------------------------------------------------------------------
(* The recipient *)

\* Its connection ends but its app lives on: direct channels and half-received
\* messages survive.
RecipientDrops ==
  /\ online
  /\ online' = FALSE
  /\ Lose(At({"down"}), "link")
  /\ UNCHANGED <<senderVars, channel, token, delivered>>

\* Its app ends: everything it held in memory is gone.
RecipientEnds ==
  /\ online' = FALSE
  /\ channel' = [t \in Token |-> 0]
  /\ copies' = copies \ At({"down", "channel", "held"})
  /\ lost' = [p \in Piece |->
                IF \E c \in At({"down", "channel"}) : c.piece = p THEN "link"
                ELSE IF \E c \in At({"held"}) : c.piece = p THEN "restart" ELSE lost[p]]
  /\ UNCHANGED <<senderVars, token, delivered>>

\* It connects and identifies; the proxy empties its queue towards it.
RecipientReturns ==
  /\ ~online
  /\ token < MaxToken
  /\ online' = TRUE
  /\ token' = token + 1
  /\ copies' = (copies \ At({"queue"}))
               \cup {Made(c.piece, "down", NameOf(TRUE, 0)) : c \in At({"queue"})}
  /\ UNCHANGED <<senderVars, channel, delivered, lost>>

\* _handOpened: the message if this piece completes it, else the Reassembler.
HandOpened(c, name) ==
  LET m == c.piece[1]
      held == {d \in At({"held"}) : d.tag = name /\ d.piece[1] = m}
  IN IF Cardinality(held) + 1 = Pieces[m]
       THEN /\ copies' = copies \ (held \cup {c})
            /\ delivered' = [delivered EXCEPT ![m] = @ + 1]
       ELSE /\ Move(c, "held", name)
            /\ UNCHANGED delivered

ReceiveFromProxy(c) ==
  /\ c \in At({"down"})
  /\ HandOpened(c, c.tag)
  /\ UNCHANGED <<senderVars, channel, recipientVars, lost>>

ReceiveFromChannel(c) ==
  /\ c \in At({"channel"})
  /\ HandOpened(c, NameOf(FALSE, channel[c.tag]))
  /\ UNCHANGED <<senderVars, channel, recipientVars, lost>>

\* The Reassembler waited RECV_IDLE_MS for the next piece.
ReassemblyExpires(d) ==
  /\ d \in At({"held"})
  /\ Lose({c \in At({"held"}) : c.tag = d.tag /\ c.piece[1] = d.piece[1]}, "idle")
  /\ UNCHANGED <<senderVars, channel, recipientVars, delivered>>

-----------------------------------------------------------------------------

Sender ==
  \/ \E m \in Msg, t \in Token : SendSealedTo(m, t)
  \/ \E m \in Msg : SendSealed(m)
  \/ \E m \in Msg : SendOnChannel(m)
  \/ \E m \in Msg : SendToToken(m)
  \/ \E m \in Msg : SendToPubkey(m)
  \/ \E m \in Msg : SendThrows(m)
  \/ \E c \in copies : MessageSent(c)
  \/ \E p \in Piece : WatchExpires(p)

Environment ==
  \/ LinkCloses
  \/ LinkEnds
  \/ LinkReopens
  \/ \E c \in copies : ProxyRoutes(c)
  \/ ChannelOpens
  \/ \E t \in Token : ChannelCloses(t)

Recipient ==
  \/ RecipientDrops
  \/ RecipientEnds
  \/ RecipientReturns
  \/ \E c \in copies : ReceiveFromProxy(c)
  \/ \E c \in copies : ReceiveFromChannel(c)
  \/ \E c \in copies : ReassemblyExpires(c)

Next == Sender \/ Environment \/ Recipient

Spec == Init /\ [][Next]_vars

(***************************************************************************)
(* Whatever is on a wire gets to its other end, or that end is seen to     *)
(* fail; nothing obliges anybody to send, to reconnect, or to give up.     *)
(***************************************************************************)
Fairness ==
  /\ WF_vars(\E c \in copies : ProxyRoutes(c))
  /\ WF_vars(\E c \in copies : MessageSent(c))
  /\ WF_vars(\E c \in copies : ReceiveFromProxy(c))
  /\ WF_vars(\E c \in copies : ReceiveFromChannel(c))

FairSpec == Spec /\ Fairness

-----------------------------------------------------------------------------

Sent(p) == p[2] <= cursor[p[1]]
CopiesOf(p) == {c \in copies : c.piece = p}
Count(condition) == IF condition THEN 1 ELSE 0

\* Every piece that left is in exactly one place: on its way, waiting, with
\* the app, or lost for a cause the model names.  A dead token swallows
\* nothing, and no retreat from one rung of the ladder to the next, no late
\* answer and no reconnection of either end makes a second copy.
Conserved ==
  \A p \in Piece :
    Cardinality(CopiesOf(p)) + Count(lost[p] # "no") + delivered[p[1]]
      = Count(Sent(p) \/ delivered[p[1]] > 0)

\* What does not fit in the proxy's queue never waits there, and what is too
\* big for the relay never crosses the proxy, however its token or its direct
\* channel dies in the middle of it.
WithinLimits ==
  \A c \in copies :
    /\ c.place = "queue" \/ (c.place = "up" /\ c.tag = ByPubkey) => Fits[c.piece[1]] = "queue"
    /\ c.place \in {"up", "bounced"} => Fits[c.piece[1]] # "direct"

\* Of a message that was sent in full, every piece gets to the app of a
\* recipient that comes back and stays, unless the model names what lost it:
\* not the death of its token, whenever that happens, nor the wait in the queue.
Settled(p) == delivered[p[1]] > 0 \/ lost[p] # "no" \/ \E c \in CopiesOf(p) : c.place = "held"

Arrives ==
  <>[]online =>
    \A m \in Msg : Fits[m] = "queue" =>
      (state[m] = "sent" ~> \A p \in Piece : p[1] = m => Settled(p))

\* "A dead token does not swallow the message": all of a message sent by
\* token has left, no connection lost a piece of it, the sender was told of no
\* failure, nothing is under way any more, and yet the app does not have it.
DeadTokenDoesNotSwallow ==
  \A m \in Msg :
    (/\ state[m] = "sent"
     /\ target[m] # ByPubkey
     /\ \A p \in Piece : p[1] = m => lost[p] \in {"no", "restart"}
     /\ \A c \in copies : c.piece[1] = m => c.place = "held")
    => delivered[m] > 0
=============================================================================
