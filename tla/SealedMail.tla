----------------------------- MODULE SealedMail -----------------------------
(***************************************************************************)
(* sendSealed to several identities at once, and the opening of what they  *)
(* receive (client.js: sendSealed, _sealerFor, _deliver, _openMessageKey). *)
(*                                                                         *)
(* The keys of all recipients are looked up first.  Then the pieces are    *)
(* sealed one after the other, for one recipient after the other, and each *)
(* is handed to the socket as soon as it is sealed.  At the other end each *)
(* envelope is opened by itself, at its own pace; a message with bytes has *)
(* a key of its own, which is opened once and remembered.                  *)
(*                                                                         *)
(* The limits of a message's size, the ways of delivery and the joining of *)
(* pieces are in DirectedDelivery and Reassembler.                         *)
(***************************************************************************)
EXTENDS Integers, FiniteSets, Sequences, SequencesExt

CONSTANTS
  Identity,   \* the recipients
  Call,       \* calls of sendSealed, each with a message of its own
  To,         \* toPubkeys of each call
  Pieces,     \* how many pieces the message takes
  Bytes,      \* the calls whose message carries bytes
  MaxKeys,    \* how many message keys _msgKeys remembers
  MaxTroubles \* bound: losses of the connection, refusals of a vault

Piece == UNION {{c} \X (1 .. Pieces[c]) : c \in Call}

ASSUME SealedMailAssumptions ==
  /\ IsFiniteSet(Identity) /\ IsFiniteSet(Call)
  /\ To \in [Call -> Seq(Identity)]
  /\ \A c \in Call : To[c] # <<>> /\ IsInjective(To[c])
  /\ Pieces \in [Call -> Nat \ {0}]
  /\ Bytes \subseteq Call
  /\ MaxKeys \in Nat \ {0}
  /\ MaxTroubles \in Nat

VARIABLES
  call,     \* each call: where it is, the lookups it awaits, whom it serves, with what
  link,     \* the sender's connection: its readyState is OPEN
  wire,     \* what it holds that the proxy has not read
  post,     \* what the proxy has for each identity
  mail,     \* each piece at each recipient
  keys,     \* _msgKeys of each recipient, oldest first
  vault,    \* the openings of message keys that are awaited
  refused,  \* those that failed
  app,      \* the messages handed to the app, in order
  sent,     \* history: what has been handed to the socket
  arrived,  \* history: what arrived at each recipient, in order
  troubles  \* history: how often something went wrong

vars == <<call, link, wire, post, mail, keys, vault, refused, app, sent, arrived, troubles>>

\* One recipient's opening of a message's key, numbered as they are begun.
Ask == [call : Bytes, n : Nat \ {0}]

Init ==
  /\ call = [c \in Call |-> [step |-> "new", lookups |-> {}, to |-> 1, piece |-> 0]]
  /\ link = TRUE
  /\ wire = <<>>
  /\ post = [i \in Identity |-> <<>>]
  /\ mail = [i \in Identity |-> [p \in Piece |-> [step |-> "away", ask |-> 0]]]
  /\ keys = [i \in Identity |-> <<>>]
  /\ vault = [i \in Identity |-> {}]
  /\ refused = [i \in Identity |-> {}]
  /\ app = [i \in Identity |-> <<>>]
  /\ sent = {}
  /\ arrived = [i \in Identity |-> <<>>]
  /\ troubles = 0

Trouble == troubles < MaxTroubles /\ troubles' = troubles + 1

receiving == <<mail, keys, vault, refused, app, arrived>>
sending == <<call, link, wire, post, sent>>

-----------------------------------------------------------------------------
(* The sender.                                                             *)

\* sendSealed: encPubOf for every recipient (Promise.all).
SendSealed(c) ==
  /\ call[c].step = "new"
  /\ call' = [call EXCEPT ![c].step = "keys", ![c].lookups = ToSet(To[c])]
  /\ UNCHANGED <<link, wire, post, sent, receiving, troubles>>

BugEagerRoom(c, left) == IF call[c].step = "keys" THEN "sealing" ELSE call[c].step

\* Only when all keys are there does the sending begin.
AllKeys(c, left) == IF left = {} /\ call[c].step = "keys" THEN "sealing" ELSE call[c].step

KeyFound(c, i) ==
  /\ i \in call[c].lookups
  /\ LET left == call[c].lookups \ {i}
     IN call' = [call EXCEPT ![c].lookups = left, ![c].step = AllKeys(c, left)]
  /\ UNCHANGED <<link, wire, post, sent, receiving, troubles>>

\* One lookup fails: the call rejects, and what the others say is not waited for.
KeyMissing(c, i) ==
  /\ i \in call[c].lookups
  /\ call' = [call EXCEPT ![c].lookups = @ \ {i}, ![c].step = "unknown"]
  /\ UNCHANGED <<link, wire, post, sent, receiving, troubles>>

\* _sealerFor: with bytes it makes the message's key and seals it.
SealerReady(c) ==
  /\ call[c].step = "sealing" /\ call[c].piece = 0
  /\ call' = [call EXCEPT ![c].piece = 1]
  /\ UNCHANGED <<link, wire, post, sent, receiving, troubles>>

BugPieceByPiece(c) ==
  LET r == call[c] IN
  IF r.to < Len(To[c]) THEN [r EXCEPT !.to = @ + 1]
  ELSE IF r.piece < Pieces[c] THEN [r EXCEPT !.to = 1, !.piece = @ + 1]
  ELSE [r EXCEPT !.step = "done"]

\* The loops of sendSealed: the next piece, the next recipient, the end.
Onward(c) ==
  LET r == call[c] IN
  IF r.piece < Pieces[c] THEN [r EXCEPT !.piece = @ + 1]
  ELSE IF r.to < Len(To[c]) THEN [r EXCEPT !.to = @ + 1, !.piece = 0]
  ELSE [r EXCEPT !.step = "done"]

\* A piece is sealed: _sendByPubkeyRaw, which throws without a connection.
PieceSealed(c) ==
  LET e == [to |-> To[c][call[c].to], piece |-> <<c, call[c].piece>>]
  IN /\ call[c].step = "sealing" /\ call[c].piece > 0
     /\ \/ /\ link
           /\ wire' = Append(wire, e)
           /\ sent' = sent \cup {e}
           /\ call' = [call EXCEPT ![c] = Onward(c)]
        \/ /\ ~link
           /\ call' = [call EXCEPT ![c].step = "failed"]
           /\ UNCHANGED <<wire, sent>>
     /\ UNCHANGED <<link, post, receiving, troubles>>

\* The vault does not seal (a text is not sealed before its first piece).
SealFails(c) ==
  /\ call[c].step = "sealing" /\ (c \in Bytes \/ call[c].piece > 0)
  /\ call' = [call EXCEPT ![c].step = "failed"]
  /\ Trouble
  /\ UNCHANGED <<link, wire, post, sent, receiving>>

\* The connection is lost with what it holds, or is back.
LinkDown ==
  /\ link
  /\ link' = FALSE
  /\ wire' = <<>>
  /\ Trouble
  /\ UNCHANGED <<call, post, sent, receiving>>

LinkUp ==
  /\ ~link
  /\ link' = TRUE
  /\ UNCHANGED <<call, wire, post, sent, receiving, troubles>>

\* The proxy reads a frame.
ProxyReads ==
  /\ wire # <<>>
  /\ post' = [post EXCEPT ![Head(wire).to] = Append(@, Head(wire).piece)]
  /\ wire' = Tail(wire)
  /\ UNCHANGED <<call, link, sent, receiving, troubles>>

-----------------------------------------------------------------------------
(* A recipient.                                                            *)

Cached(i, c) == {n \in 1 .. Len(keys[i]) : keys[i][n].call = c}

\* No message has two entries (a Map).
Without(s, c) ==
  IF \E n \in 1 .. Len(s) : s[n].call = c
  THEN RemoveAt(s, CHOOSE n \in 1 .. Len(s) : s[n].call = c) ELSE s

\* Room for one more: the oldest of too many goes.
Remember(s, a) ==
  LET all == Append(s, a) IN IF Len(all) > MaxKeys THEN Tail(all) ELSE all

\* The openings of this message's key begun so far.
Begun(i, c) == Cardinality({mail[i][p].ask : p \in {q \in Piece : q[1] = c}} \ {0})

\* _deliver of a text: it is being opened.
TextArrives(i) ==
  /\ post[i] # <<>> /\ Head(post[i])[1] \notin Bytes
  /\ mail' = [mail EXCEPT ![i][Head(post[i])].step = "body"]
  /\ post' = [post EXCEPT ![i] = Tail(@)]
  /\ arrived' = [arrived EXCEPT ![i] = Append(@, Head(post[i]))]
  /\ UNCHANGED <<call, link, wire, keys, vault, refused, app, sent, troubles>>

\* _deliver of bytes: it awaits its message's key, being opened, open, or (if that
\* were remembered) refused.
BytesArrive(i) ==
  /\ post[i] # <<>> /\ Head(post[i])[1] \in Bytes
  /\ LET p == Head(post[i])
         c == p[1]
         a == [call |-> c, n |-> Begun(i, c) + 1]
     IN \/ /\ Cached(i, c) = {}
           /\ mail' = [mail EXCEPT ![i][p] = [step |-> "key", ask |-> a.n]]
           /\ vault' = [vault EXCEPT ![i] = @ \cup {a}]
           /\ keys' = [keys EXCEPT ![i] = Remember(@, a)]
        \/ \E n \in Cached(i, c) :
             /\ mail' = [mail EXCEPT ![i][p] =
                           [step |-> CASE keys[i][n] \in vault[i] -> "key"
                                       [] keys[i][n] \in refused[i] -> "bad"
                                       [] OTHER -> "body",
                            ask |-> keys[i][n].n]]
             /\ UNCHANGED <<vault, keys>>
  /\ post' = [post EXCEPT ![i] = Tail(@)]
  /\ arrived' = [arrived EXCEPT ![i] = Append(@, Head(post[i]))]
  /\ UNCHANGED <<call, link, wire, refused, app, sent, troubles>>

BugFirstGoesOn(i, a, step) ==
  [mail EXCEPT ![i] = [p \in Piece |->
     IF /\ p[1] = a.call /\ @[p] = [step |-> "key", ask |-> a.n]
        /\ \A q \in Piece : q[1] = p[1] /\ @[q] = @[p] => p[2] <= q[2]
     THEN [@[p] EXCEPT !.step = step] ELSE @[p]]]

\* All that await an opening go on.
Settle(i, a, step) ==
  [mail EXCEPT ![i] = [p \in Piece |->
     IF p[1] = a.call /\ @[p] = [step |-> "key", ask |-> a.n] THEN [@[p] EXCEPT !.step = step]
     ELSE @[p]]]

KeyOpened(i, a) ==
  /\ a \in vault[i]
  /\ vault' = [vault EXCEPT ![i] = @ \ {a}]
  /\ mail' = Settle(i, a, "body")
  /\ UNCHANGED <<keys, refused, app, arrived, sending, troubles>>

BugRefusalRemembered(i, c) == keys[i]

\* A refusal is not remembered (by the message's name, whichever opening it is of).
Forget(i, c) == Without(keys[i], c)

KeyRefused(i, a) ==
  /\ a \in vault[i]
  /\ vault' = [vault EXCEPT ![i] = @ \ {a}]
  /\ refused' = [refused EXCEPT ![i] = @ \cup {a}]
  /\ mail' = Settle(i, a, "bad")
  /\ keys' = [keys EXCEPT ![i] = Forget(i, a.call)]
  /\ Trouble
  /\ UNCHANGED <<app, arrived, sending>>

\* What is open goes to the app, or to the other pieces of its message; the last
\* of them takes the message to the app (_handOpened).
Handed(i, p) ==
  IF \A q \in Piece : q[1] = p[1] /\ q # p => mail[i][q].step = "in"
  THEN Append(app[i], p[1]) ELSE app[i]

Opened(i, p) ==
  /\ mail[i][p].step = "body"
  /\ mail' = [mail EXCEPT ![i][p].step = "in"]
  /\ app' = [app EXCEPT ![i] = Handed(i, p)]
  /\ UNCHANGED <<keys, vault, refused, arrived, sending, troubles>>

\* The vault does not open a text, or the bytes do not decrypt.
OpenFails(i, p) ==
  /\ mail[i][p].step = "body"
  /\ mail' = [mail EXCEPT ![i][p].step = "bad"]
  /\ Trouble
  /\ UNCHANGED <<keys, vault, refused, app, arrived, sending>>

\* What a call awaits, and what a recipient has to do.
Settles(c) ==
  \/ \E i \in Identity : KeyFound(c, i) \/ KeyMissing(c, i)
  \/ SealerReady(c) \/ PieceSealed(c) \/ SealFails(c)

Receives(i) ==
  \/ TextArrives(i) \/ BytesArrive(i)
  \/ \E a \in vault[i] : KeyOpened(i, a) \/ KeyRefused(i, a)
  \/ \E p \in Piece : Opened(i, p) \/ OpenFails(i, p)

Next ==
  \/ \E c \in Call : SendSealed(c) \/ Settles(c)
  \/ LinkDown \/ LinkUp \/ ProxyReads
  \/ \E i \in Identity : Receives(i)

Spec == Init /\ [][Next]_vars

\* Lookups settle, vaults answer, what is on the wire is read and delivered.
FairSpec ==
  /\ Spec
  /\ \A c \in Call : WF_vars(Settles(c))
  /\ WF_vars(ProxyReads)
  /\ \A i \in Identity : WF_vars(Receives(i))

-----------------------------------------------------------------------------
(* Types, and the limit of the keys remembered.                            *)

TypeOK ==
  /\ call \in [Call -> [step : {"new", "keys", "unknown", "sealing", "failed", "done"},
                        lookups : SUBSET Identity, to : Nat \ {0}, piece : Nat]]
  /\ link \in BOOLEAN
  /\ wire \in Seq([to : Identity, piece : Piece])
  /\ post \in [Identity -> Seq(Piece)]
  /\ mail \in [Identity -> [Piece -> [step : {"away", "key", "body", "in", "bad"}, ask : Nat]]]
  /\ keys \in [Identity -> Seq(Ask)] /\ \A i \in Identity : Len(keys[i]) <= MaxKeys
  /\ vault \in [Identity -> SUBSET Ask]
  /\ refused \in [Identity -> SUBSET Ask]
  /\ app \in [Identity -> Seq(Call)]
  /\ sent \subseteq [to : Identity, piece : Piece]
  /\ arrived \in [Identity -> Seq(Piece)]
  /\ troubles \in 0 .. MaxTroubles

-----------------------------------------------------------------------------
(* Properties.                                                             *)

SentTo(c, i) == {k \in 1 .. Pieces[c] : [to |-> i, piece |-> <<c, k>>] \in sent}

\* While a key is missing, or if one is, nothing of the message has left for
\* anybody; and a recipient is served only when those before it have everything
\* (so a call that fails halfway leaves one of them, at most, with a part).
ServedInTurn ==
  \A c \in Call :
    /\ call[c].step \in {"new", "keys", "unknown"} => \A i \in Identity : SentTo(c, i) = {}
    /\ \A m, n \in 1 .. Len(To[c]) :
         m < n /\ SentTo(c, To[c][n]) # {} => SentTo(c, To[c][m]) = 1 .. Pieces[c]
    /\ call[c].step = "done" => \A n \in 1 .. Len(To[c]) : SentTo(c, To[c][n]) = 1 .. Pieces[c]

\* A vault that refuses to open a message's key does not condemn the pieces that
\* arrive afterwards: no refusal is remembered (_openMessageKey).
NoRefusalKept ==
  \A i \in Identity : \A n \in 1 .. Len(keys[i]) : keys[i][n] \notin refused[i]

\* Once the keys of all are known, the message gets to every recipient's app unless
\* something goes wrong, whatever is forgotten of the messages' keys meanwhile.
RoomIsServed ==
  \A c \in Call :
    call[c].step = "sealing" ~> \/ troubles > 0
                                \/ \A i \in ToSet(To[c]) : c \in ToSet(app[i])

\* sendSealed's comment (client.js:870): to send to those it could and fail for the
\* rest would leave the app with half the room without the message and no way to
\* know which half.
NoHalfRoom ==
  \A c \in Call : call[c].step = "failed" =>
    \/ \A i \in ToSet(To[c]) : SentTo(c, i) = {}
    \/ \A i \in ToSet(To[c]) : SentTo(c, i) = 1 .. Pieces[c]

ArrivedAt(i, c) == {n \in 1 .. Len(arrived[i]) : arrived[i][n][1] = c}

\* The comment of _open (client.js:2044-2045): frames are read at once, since to read them
\* asynchronously would disorder what comes behind.  Messages that arrived one
\* after the other, the one whole before the other began, are handed in that order.
HandedInOrder ==
  \A i \in Identity : \A m, n \in 1 .. Len(app[i]) :
    m < n => \E j \in ArrivedAt(i, app[i][m]), k \in ArrivedAt(i, app[i][n]) : j < k
=============================================================================
