# The proxy client in TLA+

A specification of `@dotrino/proxy-client`, the library through which Dotrino
applications reach each other: a WebSocket to a proxy, direct channels beside it
when they can be had, messages sealed end to end. The modules are translated
from `src/src/*.js`; TLC checks them on small instances and TLAPS proves the
properties that matter most for all sizes.

Paths are relative to the repository's root, except that `client.js`, `parts.js`,
`webrtc.js`, `signature.js`, `ble/` and `lan/` stand for files of `src/src/`.

## The system

JavaScript runs one callback at a time, to its end. All concurrency is between
callbacks: socket events, timers, promises that resume after an `await`, calls
of the application; and between this process, the proxy and the other clients.
In the modules one callback (or the part of an `async` function between two
`await`s) is one action. Where a callback emits an event and goes on, the
application's handlers run in between and may call back.

| Component | State it keeps | Operations | What makes it correct |
|---|---|---|---|
| Connection (`client.js`: connect, close, updateConfig, `_open`, listeners, heartbeat, `_scheduleReconnect`) | `ws`, `_connected`, `_reconnectAttempts`, `_reconnectTimer`, `_hbTimer`, `_hbDeadTimer`, a connect timeout per socket, `token`, `_connectResolve/_connectReject` | the app's calls, four socket events, three kinds of timer | one live socket, one retry, no retry after `close()`, no silent end of a chain of retries, a dead connection is noticed |
| Requests (`_request`, `_resolvePending`, `_rejectPending`, `_rejectAllPending`) | `_pending`, `_nextId`, a 10 s timer each | ask; answers, errors and stray frames; timeout; close | each promise settles once and in time, and what it says is true |
| Directed delivery (`sendSealed`, `sendSealedTo`, `sendToOrQueue`, `_sendPiece`, `_sendToTokenOrQueue`, `_tokenFailed`) | `_tokenWatch`, loops suspended between pieces | the ladder: direct channel, live by token, queue by pubkey | nothing lost without a cause the sender or the log can name, nothing twice, size limits of each rung |
| Messages in parts (`parts.js`) | `_open`, `_chars`, a timer per message | `add`, expiry | the memory bound is exact, every unfinished message expires, a whole is whole |
| Greeting (`helloTo`, `_onHello`, `whoIs`, `forgetToken`, `identify`) | `_tokenPubkeys`, `_helloSent`, `_tokenSpeaks`, `myPublickey` | greet, answer once, ask, forget, `disconnected` | one greeting informs both ends, no echo, a token keeps its owner |
| Frame dispatch (`_handleFrame`) | none of its own | one case per frame | each frame reaches the part above that it concerns |
| WebRTC manager (`webrtc.js`, and what drives it in `client.js`) | `peers` (a `PeerState` per token), `closed` | `trySend`, `connect`, signals, the platform's callbacks, `closePeer`, `closeAll`, `reopen` | both ends end up with one channel, whoever asked first; offers do not cross; nothing stays open after close |
| Bluetooth (`ble/manager.js`, `ble/wire.js`; BlueZ and D-Bus below) | peers, ephemeral keys, record counters, scan state | offer, search, probe, greet, records, ends | a channel opens at both ends with one key, records stay in step, what ended holds nothing, no search, link or wait is kept for nobody |
| LAN discovery (`lan/mdns.js`; `discoverNearby`) | per socket a queue of what it still has to send; per search what it asked, read and found | announce, answer, say farewell; ask, read, end; both media into one list | a packet names the address of the interface it leaves by; who is there is found; a search ends and leaves no socket open |
| Sealing (`sealing.js`; `sendSealed`, `_sealerFor`, `_deliver`, `_openMessageKey`) | `_msgKeys` | look up all keys, seal piece by piece, open each envelope by itself | nothing leaves before all keys are known; a refusal to open is not remembered; everybody gets it |
| Key pair (`signature.js`) | `cachedKeypair`, what the store keeps | load, make, keep, remember | one identity, the same after a restart |
| Encryption keys (`encpub.js`, `encPubOf`, `learnEncPub`, `forgetEncPub`, `announceEncPub`) | `_encPubs`, `_encPubInflight` | look up, share a lookup, learn, forget, announce | a key that is forgotten does not come back, who waits has a lookup |
| Binary packing (`binpack.js`) | none | pack, unpack, frames | decode inverts encode |
| Statistics (`stats.js`, `stats-log.js`) | counters, registry of transports, log | count, register, write, trim | the registry holds live clients only |
| TURN (`getTurnCredentials`, `enableTurn`) | `_turn`, `_turnTimer`, the servers of the WebRTC manager | fetch, renew, ask again later | one timer, none after close; the relay is not given up for good |
| Push, wake, scheduled messages, pairing, channels | none in the client | requests to the proxy | those of requests |
| Shared instance (`index.js`), service worker (`sw/`) | the singleton | get; notify | — |

How they meet: `_handleFrame` calls `_onHello`, `_tokenFailed`, `_deliver`,
`_resolvePending`; `_deliver` hands parts to the Reassembler; `close()` ends
requests, retries, TURN and direct channels; everything that sends asks
`_sendRaw`, which looks at `ws.readyState`. `disconnected` frames make the
greeting and the direct channels forget a token. The proxy is outside the
repository: it gives out tokens, routes by token (and refuses with
`message_sent`), routes or queues by pubkey, and answers requests. Its actions
are the modules' environment, as permissive as the client's own code allows it
to be.

What is hard: late events of sockets already given up; retries that meet the
application's own calls; timeouts that meet late answers; a token that dies
while a message for it is on the way, in pieces, over several routes; greetings
that cross; memory limits kept by counters; answers to lookups that were overtaken by events;
timers that renew themselves; awaits between reading a store and writing it; one
link shared by several users. `PROJECT.json` lists each hazard at
its line.

## Modules

| Module | Models | Extends / composed with |
|---|---|---|
| `ProxyConnection` | the connection's lifecycle | |
| `Answers` | what a request's promise promises (abstract) | |
| `Requests` | requests, detailed | `A == INSTANCE Answers` with what the caller is told |
| `DirectedDelivery` | the ladder of delivery between two identities | the recipient's half uses the Reassembler's grouping |
| `Reassembler` | messages in parts | |
| `PeerIdentity` | greetings among clients | |
| `DirectChannel` | the WebRTC managers of several clients | |
| `Bluetooth` | the Bluetooth managers of several devices, with what BlueZ does with their links | |
| `EncPubs` | the lookups and announcements of encryption keys | |
| `TurnRelay` | the TURN relay and its renewal | |
| `Services` | both over one connection, as `identify()` sets them going and `close()` ends them | `Keys == INSTANCE EncPubs`, `Turn == INSTANCE TurnRelay` |
| `LocalNetwork` | mDNS: who announces, who searches, what is on the air | |
| `Nearby` | `discoverNearby()`: the local network and Bluetooth into one list | `Lan == INSTANCE LocalNetwork` |
| `SealedMail` | `sendSealed` to several identities, and the opening of what arrives | |
| `Keypair` | the key pair of a client with several tabs | |
| `BluezLinks` | the links to one device over BlueZ that a search, a channel and `discover()` share | |
| `ClientRequests`, `MessageParts` | nothing of their own: names for `Requests` and `Reassembler` that clash with nobody's | `Req == INSTANCE Requests`, `Parts == INSTANCE Reassembler` |
| `*_proofs` | theorems about the modules they extend: `ProxyConnection_proofs` extends `ClientRequests`, too, and `DirectedDelivery_proofs` `MessageParts` | TLAPS |
| `MC*` | symmetry and function-valued constants for TLC | |

**ProxyConnection.** A socket is an identity, since what the code must get right
is which socket an event belongs to: the guard `ws !== this.ws` of every
listener is the test `s = ws`. `sock` is what the platform does with each
socket; `openTimer` its connect timeout; `retryTimers` the armed timeouts that
call `_open()`, kept apart from `reconnectTimer`, the handle that can cancel
them, because losing the handle is the bug to look for. `connect()` is two
actions by its early return, `close()` and `updateConfig()` one each, every
listener and timer callback one, or two where it emits an event and goes on: the
application's handlers run in between and may call `connect()`, `close()` or
`updateConfig()`, and `rest` says what is then left of the callback, with its
locals. (After `connect` and the `connected` frame nothing is left that a handler
could disturb.) `overtaken` is history: a retry was armed after a handler of the
same callback had called `connect()` or `close()`; the code lets that happen, and
`NoOrphanSocket`, `SingleRetry`, `ReleasedIsFinal` and part of `HeartbeatWatches`
are about everything else. The limit of attempts is a variable, since
`updateConfig()` changes it. Bound: `connect()` is called from a handler while no
timeout is armed but the one it clears (`MayCallBack`). Left out of `close()` and `connect()`: what
they do to TURN, WebRTC and Bluetooth, and (in this module) to requests. `released`
is history: `close()` was the application's last word.

**Requests.** `Ask` is `_request` with its failing path (`_sendRaw` throws, the
entry goes). `Arrive` is a frame with an id: `_resolvePending` compares the type,
`_rejectPending` does not. The connection is four values: open, lost, and after
`close()` closing and closed; a closing socket still delivers what was on the
wire, and the client listens. `LinkEnds` leaves what waits waiting, as the code
does. `Answers` tells the caller only: resolved means done, "not done" means it
was not and will not be, "doubt" means either.

**DirectedDelivery.** A message is sent in pieces to one recipient identity, by
token (`SendSealedTo`) or by pubkey (`SendSealed`). Its size is abstracted to
what it fits in. The loop of `sendSealedTo` awaits between pieces, so one turn
of the loop is one action, and everything may happen in between: the direct
channel opens or closes, the token dies, either connection is replaced, the
refusal of an earlier piece arrives. Each copy of a piece is in one place:
on the sender's socket, refused, on the channel, on the recipient's socket, in
the proxy's queue, or held by the recipient's Reassembler under the name the
code would give its sender (`NameOf`). `lost` is history: why a piece is
nowhere. `sendSealed` to several identities is in `SealedMail`; plain `send()` is left out.

**Reassembler.** `add` is cut into its five ends, in the order the code tries
them. A part's content is its length, which is what the bound counts. A part's
index and count are whatever the other side wrote, within one of every limit.
`timers` counts armed timeouts per key so that a leaked one can be seen.
`clear()` is not modelled: nothing in the library calls it.

**PeerIdentity.** A token is a client and the number of its connection. `Drop`
keeps `_tokenPubkeys` and `_helloSent`, as the code does (the comment at
`client.js:170` says they are emptied on reconnection; nothing empties them).
`Restart` is a new client object. The proxy delivers nothing for a connection
that has not identified, and drops greetings to dead tokens. `fresh` and `met`
are history for the properties' preconditions. `forgetToken()` without argument
is left out, as is `speaks`.

**DirectChannel.** A peer is a `PeerState` with its `RTCPeerConnection` and its
channel, since the callbacks close over all three: a peer taken out of the map
lives on until they are done, and a new one for the same token may be there
meanwhile. The descriptions being applied are `jobs`, done in order, as the
platform's chain of operations does; `_describe`'s count is the number of those
that are not the adding of candidates. A token is a client and the number of its
connection, and `Rank` orders the tokens, so a client that comes back may have
the other role. A description or a candidate stands for the peer that wrote it.
`born` is history: which token its client had when a peer was made.
What the platform does (a pair of connections that hold each other's
descriptions and candidates finds a way, or one end fails, or is seen to be
over) is external, as permissive as the standard. `disturbed` is history:
something went against the channels. Left out: sending, the policy of
`acceptFrom`, the ICE servers and the route that came out, the absence of an
implementation, and what `_upgradeDirect` remembers.

**Bluetooth.** A peer is a `BlePeer` object. The promises of a negotiation close
over it, so one that was dropped or closed lives on until they are done; each
part of an `async` function between two `await`s is one action (`making`,
`deriving`, `queue`, the jobs of a link and `probe` are what is awaited). An
ephemeral key pair stands for the peer it was made for, so two ends have the
same key when each derived it from the other's half. `Become` says what follows
at once from what a method did to a peer: `_release` hangs up its link and takes
it from its central, and the search ends with the last peer that wants a device
(`_removeScan`). Two devices share one physical link at most, as in BlueZ: who
finds it up shares it and does not cut it (`bluez.js:237`). `opening` is what
`_prepareBluetooth` awaits, so that close() and connect() can come in between.
A search outlives `stop()` (`scan`): one that was asked of the adapter starts and is
then stopped, one asked afterwards finds no adapter and fails (`failing`).
`troubles` is history and bound at once: how often something has failed, timed
out, been lost or been ended on purpose. `rekeyed` is history: a second signal
came while the key was derived from the first; then the peer is keyed twice,
forgets its first link and leaves its first bid in `wanted`, so the properties
about keys and links leave such peers, and such a link (`forgotten`), out; and
that a wait has its search is said of the peers in the map only (see the dropped
central below). Left
out: `announce` and `discover`, `acceptFrom`, how a record is cut into chunks, a
client that changes its token, and records that wait behind the one being opened
when the link is cut (they are lost with it).

**EncPubs, TurnRelay, Services.** The keys of an identity are numbered in the
order it announces them, so "older than what was forgotten" is `<`. A lookup is
one value per identity, since `_encPubInflight` shares it: the resolver, then the
proxy, then the verification. `announcing` are this client's announcements, which
may overlap: how many are asked and which keys are stored. A statement is not
dated, so the proxy may answer with an older one of the identity's, and the
client takes it (`client.js:1437`; the library trusts the proxy for the latest).
`floor` is history: the oldest key that may be held since
`forgetEncPub`, unless a lookup was under way then, which the code lets put back
what it had asked for before (`client.js:1345`), or the proxy answers with an
older statement, or the app brings a key itself. In `TurnRelay` a
run is one call of `enableTurn()` together with the timer it leaves behind;
nothing keeps runs from overlapping, and `crossed` says that they have, or that
`close()` came during one. `ended` says that a request failed that nobody
repeats. `Services` puts both on one connection: the proxy's acknowledgement of
`identify()` sets both going, a loss and `close()` reach both.

**LocalNetwork, Nearby.** A socket sends on every network its machine is in, one
after another, since the outgoing interface is a setting of the socket: `queue`
is what waits, `iface` the setting, `handed` what `send()` has and has not let
go. A datagram stands for what it says: a question for anybody or for the text of
one name, an announcement with its text or without, a text, a farewell. Foreign
responders give their text to who asks only. `steady` is history: who has been
there since the search began. `Nearby` adds `discoverNearby()`, with what the
Bluetooth search hands it. Left out: the DNS wire format, how a text is cut into
strings, the question for the list of all services.

**SealedMail.** One call is `sendSealed` with a message of its own. The lookups
of all recipients, the sealing of the message's key and of each piece are what
is awaited. At a recipient each piece is where its `_deliver` is: awaiting the
message's key, being opened, handed on, refused. An opening of a message's key is
numbered, because one that was forgotten may be begun again while the first is
under way. Left out: size limits and the ways of delivery (`DirectedDelivery`),
memory bounds of what is half there (`Reassembler`), recipients whose key the
caller gave by hand.

**Keypair.** Tabs and workers are realms; each call of a function that needs the
pair is a task that loads it, with one step per `await`. The store is IndexedDB
or `localStorage`, or one given by `setKeypairStore`, whose writes may be said to
be done in another order than they were. A pair is a number. Left out: a store
replaced during a load, and what the cryptography does.

**BluezLinks.** A visit is one probe of the search for peers, or one of
`discover()`: it waits for the lock of `_withConnectLock`, connects or finds the
device connected, reads, and closes its link or keeps it for a channel. All links
of a device are one connection of BlueZ's, and its notifications go to one
handler (`valueHandlers`), whoever subscribed last. Replies and signals come over
one bus in order, so a call is answered by what BlueZ has at that place.

## What TLC checks

| Run | Instance | Shows |
|---|---|---|
| `Connection` | 2 sockets, 2 retry timers, limits 1 and 2; 146,128 states | `NoOrphanSocket`, `SingleRetry`, `ReleasedIsFinal`, `HeartbeatWatches`, `NoSilentGiveUp`, `RetriesFollowALoss`, `OutageEnds`, `HalfOpenIsNoticed` |
| `Requests` | 2 requests; 1,516 states | `Bookkeeping`, `NobodyWaitsAfterClose`, refinement of `Answers` (`ImplementsAnswers`, `EveryRequestSettles`) |
| `Reassembler` | 2 senders, 1 id, 3 parts of at most 2 characters, limit 4; 5,951 states | `Accounting`, `OneTimerEach`, `WholeIsWhole` |
| `Delivery` | "photo" (2 pieces, fits the queue) and "film" (2 pieces, direct only), 2 connections each side; 1.63 million states | `Conserved`, `WithinLimits`, `Arrives` |
| `Identity` | 2 clients, one with 2 profiles and 2 connections, one with 1 of each; 81,265 states | `OneGreetingSuffices`, `TokenKeepsOwner`, `GreetingsDieOut` |
| `DirectChannel` | 2 clients, one with 2 connections, a peer each at a time; 70,376 states | `NothingLeftOpen`, `CandidatesNotStranded`, `OffersDoNotCross`, `DirectIsReached` |
| `DirectFallen` | as DirectChannel | a counterexample to `FallenChannelIsTriedAgain` |
| `Bluetooth` | a peripheral with 2 peers at a time and 2 bids, a central with 1 of each, 2 records each, 1 trouble; 141,708 states | `NothingKeptForNobody`, `NobodyWaitsForEver`, `InStep`, `ChannelIsReached` |
| `Services` | one identity announced here and elsewhere, 2 keys, 2 callers that wait, 2 runs of TURN; 1,556,184 states | `ForgetTakesEffect`, `WaitersHaveLookup`, `InOrder`, `RenewalGoesOn`, `ComesBackOn` |
| `Nearby` | an announcer in 2 networks, a foreign responder, a search that asks twice, 1 datagram lost; 600,209 states | `OwnAddress`, `SearchFinds`, `SearchesEnd` |
| `SealedMail` | a message with bytes in 2 pieces for two, two short ones (one with bytes) for the second, 1 key remembered, 1 trouble; 329,158 states | `ServedInTurn`, `NoRefusalKept`, `RoomIsServed` |
| `KeypairRestart` | 2 tabs, one call each, every kind of store | a counterexample to `SurvivesARestart` |

The type invariants of the modules hold on these instances too.

More configurations lie beside these, to be run by hand (`tlc -config X.cfg M`).
They are not in `PROJECT.json`'s list of runs: `Keypair.cfg` (2 tabs with 2 calls
each, 3 pairs, 1 fault; 389,166 states; `OneIdentity` and `RemembersWhatIsKept`
hold), `BluezLinks.cfg` (2 probes, one `discover()`; 12,823 states; `TypeOK`,
`KeptIsUp`, `LookingCutsNoChannel` and `EverybodyHasATurn` hold), and one
counterexample each from `ConnectionToken.cfg` and `ConnectionCallbacks.cfg` (with
`MCProxyConnection`; the second has `NobodyIsOrphaned` as well, in the other's place),
`DeliveryParts.cfg` (`MCDirectedDelivery`), `SealedHalf.cfg` and `SealedOrder.cfg`
(`MCSealedMail`), `NearbyMedium.cfg` (`MCNearby`), `BluezDeaf.cfg` (`BluezLinks`),
`BluetoothReopens.cfg` (`MCBluetooth`), `KeypairCalls.cfg` (`Keypair`) and
`OffersCross.cfg` (`MCDirectChannel`), for what the section on words and code says.

Why the bounds are enough. Two sockets: the current one and the one it replaced
or gave up, whose events are still to come; sockets that are over
return to the pool, so chains of any length are explored. With three the safety
properties hold, too (229,194 states with symmetry). Two retry timers: one
more than the code arms unless a handler calls `connect()` under it. Limits 1 and
2: the first retry, the last, and a limit lowered below the count. Three parts: first, middle, last. Limit 4 with parts of 2: one sender
alone can hit it, and both together. Two connections of each client in delivery,
and of the one that comes back in greeting: the token that dies and the one that
takes its place. Greetings
and requests do not influence each other beyond two. In `DirectChannel` the
client that comes back has its second token on the other side of the other's in
the order, so both roles occur at both ends; the safety properties hold in the
other order too (77,822 states); one peer each at a time means that the peer of
the old token is gone before the one of the new token is made. With
two peers for the client that stays, which lets them live together, the safety
properties hold too (2.3 million states, too many to check the liveness on).
In `Bluetooth` two peers of one device are the one in the map and the one it
replaced, two records the hello and one after it, two bids the one that was
signalled and the one that is on the air. One trouble, at any point, is the
least that makes every action happen; with two peers at both ends or with two
troubles the safety properties hold too (6.2 and 4.4 million states).
In `Services` two keys are the one forgotten and the one after it, two callers
the one that begins a lookup and the one that shares it, two runs the one whose
timer is armed and the one that is called meanwhile. `EncPubs` alone, with two
identities that both announce, and `TurnRelay` alone hold what they promise too
(527,268 and 3,810 states). `KeysAreTheirs`, which is proved, holds in this
instance, too. In `Nearby` the second network is what makes the setting of the
interface matter, the second question what repairs the one loss, and the foreign
responder what makes the search ask for texts. In `SealedMail` two pieces for two
recipients are the least for a call to fail between pieces and between
recipients; the other two messages overtake, and push the room's key out of a
memory that has place for one; one trouble, anywhere, is what makes a call fail.
Two tabs and three pairs are the least for one tab's pair to be written over the
other's and a third to be made; two visits that keep a link and one that only
looks are all the ways of sharing one.

The runs of `Delivery`, `Identity`, `DirectChannel` (and `DirectFallen`),
`Bluetooth`, `Services`, `Nearby` and `SealedMail` do not check deadlock: their
counters of connections, bids, keys, questions and troubles are bounded, and a
system in which everything sent has arrived and every connection was used has
nothing to do. The other runs check it.

### Fairness

- `ProxyConnection`: armed timers fire, handlers return, a socket that fired `error` fires
  `close` (the WebSocket standard). Nothing is assumed of the network, nor of
  the application. Sockets already given up finish closing: they only return
  identities to the pool.
- `Requests`: armed timeouts fire; nobody need answer.
- `DirectedDelivery`: what is on a wire reaches the other end or that end is
  seen to fail. Nobody is obliged to send, reconnect or give up.
- `PeerIdentity`: what is on the wire arrives or is dropped.
- `DirectChannel`: signals arrive, and the platform ends what it began: it
  applies descriptions, announces candidates, finds a way or gives up. Nobody is
  obliged to send, and nothing has to fail.

- `Bluetooth`: signals arrive, keys are made and derived, the adapter searches and
  stops, reports a device that is near and reads it, records are sealed, written
  and opened, and a link that is to be cut is cut. No timer has to strike (it
  would end a wait by failing it), nobody is obliged to offer or to send.
- `Services`: a run of TURN goes on: its signature is made, its question is
  answered or times out, its timer fires. Nothing is assumed of the network.
- `Nearby`: timers fire, sockets let go what they were given, what is on the air
  arrives or is lost, and a Bluetooth search ends after its time.
- `SealedMail`: what a call awaits settles, well or badly, the proxy reads what is
  on the wire, and a recipient goes on with what it has. No single outcome is
  fair, so nothing has to succeed.
- `BluezLinks`: every call over the bus is answered, well or badly.

### Where the code and its words part

Each of these is a property of a module; the configuration named with it gives the
counterexample. `DirectFallen` and `KeypairRestart` are in the list of runs.

- `FallenChannelIsTriedAgain` (`DirectFallen`): a peer whose connection failed
  stays in the map, and `connect()` finds in it a connection and a channel (both
  over), so that nothing is created, nothing is signalled and the promise never
  settles (`webrtc.js:470`), while `client.js:637` says the next message tries
  again and `client.js:663` that a failure rejects.
- `SurvivesARestart` (`KeypairRestart`): two tabs that start together for the
  first time make a pair each, and the one whose pair was written over is somebody
  else at its next start (`signature.js:192`), while `README.md:483` says the pair
  is a stable identity between sessions. In one tab alone (`KeypairCalls`) two
  first calls at once get different pairs, while `test/signature.test.mjs:62` says
  "the same key between calls".
- `ConnectYieldsToken` (`ConnectionToken`): `connect()` called after `open` and
  before the proxy's greeting resolves with an old token or null
  (`client.js:484`), while `test/reconnect.test.mjs:40` says it resolves with the
  greeting.
- `CloseIsLast` (`ConnectionCallbacks`): `_scheduleReconnect()` emits `reconnecting`
  before it has the handle of the timeout (`client.js:2173`), so `close()` in a
  handler of that event has nothing to clear, and the retry is armed after it and
  connects again, while the comment at `client.js:2082` says that what the app
  closes has `autoReconnect` off and is therefore not retried.
- `NobodyIsOrphaned` (`ConnectionCallbacks`, in its place): `connect()` in a handler
  of `disconnect` opens a socket, and the retry that the same callback arms
  afterwards (`client.js:2104`, `2164`) replaces it once it is open without closing
  it (`client.js:2038` closes one that is CONNECTING only), while `client.js:485`
  says that `connect()` makes a pending retry needless, and `client.js:2036` that no
  socket is left open without an owner. After it `_connected` is true of a socket that is
  still connecting.
- `DeadTokenDoesNotSwallow` (`DeliveryParts`): piece 1 is held by an app that then
  ends, piece 2 is refused and goes by pubkey to the app's next life, which never
  completes the message (`client.js:1068`), while the comment at `client.js:1017`
  says a dead token does not swallow a message.
- `NoHalfRoom` (`SealedHalf`): `sendSealed` to several looks all keys up first, but
  a vault that refuses or a connection that is lost between the recipients leaves
  the first served and the call rejected (`client.js:879`), while the comment at
  `client.js:873` says all is resolved before anything is sent so that the app is
  not left with half the room.
- `HandedInOrder` (`SealedOrder`): each envelope is opened by itself, so a message
  that takes longer is handed to the app after one that came later
  (`client.js:1534`), while `client.js:2044` takes frames as ArrayBuffer so as not
  to put them out of order.
- `OneMediumIsEnough` (`NearbyMedium`): when the adapter refuses to search,
  `discoverNearby()` rejects though the local network is being searched
  (`client.js:461`), while `docs/lan.md:65` says a medium that fails does not bring
  the other down.
- `ChannelHears` (`BluezDeaf`): a probe or a `discover()` of a device with an open
  channel stops the notifications when it closes its own link, and the channel
  hears nothing more (`ble/bluez.js:294`), while `ble/bluez.js:237` says the shared
  link is spared so as not to cut its channel.

- `ClosedStaysClosed` (`BluetoothReopens`): `_onRecord` returns at once if the
  channel is closed (`ble/manager.js:333`), and `_identify` passes over a peer that
  does not wait for its central (`:294`), but both look before the record is opened
  and not after. A peer that is closed while its greeting is being opened opens all
  the same (`_open`, `:503`): the app is told `bluetooth_open` of a channel that it
  closed and that is no longer in the map.
- `OffersNeverCross` (`OffersCross`): a peer whose client has got another token
  since may still create the channel while the other end, which compares the new
  tokens, creates one too, and the offers cross (`webrtc.js:470`), while the comment
  at `webrtc.js:480` says that one alone creates the channel, so there are no
  crossed offers. `polite` was settled with the tokens of then, so both may be
  impolite, ignore each other's offer (`webrtc.js:555`) and wait for a channel that
  never opens.
  `OffersDoNotCross` says it of peers made with the tokens both still have, while
  both are online.

Others the models have, and no property is made of:

- `connect()` in a handler of `error` is rejected with the error of the attempt
  before it, for the callback goes on and settles whatever promise is waiting by then
  (`client.js:2069`, `2118`).
- `stop()` while a Bluetooth hello is being opened: `_identify` goes on, gives the
  closed peer its `central` (`ble/manager.js:299`) and asks the
  adapter, which is null by then, for the size of a chunk (`:300`). So the peer keeps
  a central that nobody clears (`late`, which `Released` leaves out), and the call
  throws, nothing catches it, and the central's chain is at its end (`thrown`);
  what a host makes of the unhandled rejection is not modelled.
- In `ble/manager.js` an offer that arrives while ours still awaits its ephemeral
  key replaces our negotiation, and if our offer leaves afterwards the ends derive
  different keys until the timers strike, while the comment at line 188 has crossed
  offers lead to the same key. With three devices a hello can be stored just after
  `_retryHellos` has looked for it. `ChannelIsReached` counts the first as trouble,
  and the second needs more devices than the run has.
- A Bluetooth central's peer that was dropped before its key was derived becomes
  keyed all the same, and looks for its device (`ble/manager.js:203-217`). `stop()`
  closes the peers of the map only (`ble/manager.js:129-137`), so this one outlives
  it, and after the next start waits for its device, with no search going on, until
  its timer strikes. `ScanHasSearcher` says it of the peers in the map.
- After `forgetToken()` at one end, the other end, which has greeted before, does
  not answer again (`client.js:1193`), while the doc of `forgetToken` offers it for
  asking again.
- `client.js:170` says that `_tokenPubkeys` and `_helloSent` are emptied on
  reconnection; nothing empties them.
- `forgetEncPub()` during a lookup: the lookup puts the old key back.
  `client.js:152` has in the cache only what passed `readEncPubStatement`; the
  resolver's answers, and the own key, are there without.
- `enableTurn()` that overlaps itself leaves two chains of renewals; a renewal in
  flight at `close()` arms a timer afterwards; a refusal because it is disabled
  leaves the relay's servers in use; a soft retry that fails ends the chain.
- An announcer that answers within the 50 ms of its farewell is announced again,
  for the time its answers live.

Hazards of this code that no listed run has a property for (`PROJECT.json` lists
the forty that one covers):

- a second `connect()` while the first waits takes its place, and the first promise
  never settles (`client.js:487`; `ConnectOpen` does it, and no doc promises more);
- the maps of greetings across reconnection and `forgetToken()` (`client.js:170`,
  `1143`; see above);
- pieces of one message that came by different routes (`client.js:1563`,
  `DeliveryParts`);
- two links on one connection, the connection cut under them, and the lock of the
  probes (`ble/bluez.js:294`, `295`, `344`, `ble/manager.js:558`: `BluezLinks` and
  `BluezDeaf`, by hand);
- a key store that cannot be read once, whose pair is then replaced for good
  (`signature.js:149`, a documented choice; `OneIdentity` leaves failures out).

## What is proved

TLAPS proves, for all values of the constants under each module's named
assumption (finiteness where a cardinality is taken, sentinels outside their
sets, limits natural numbers):

- `ProxyConnection_proofs`: `TypeOK` and all of `Connection`'s safety properties. The argument
  is one inductive invariant (`IInv`) of who owns which socket and which timer. Two
  of its parts are the properties themselves, `SingleRetry` and `HeartbeatWatches`,
  neither inductive alone: that a retry is armed only when the current socket is over
  needs what `connected` says of the socket (`OpenMeansConnected`), and what is true
  while the handlers of an event run: what the callback's locals say (`RestIsTrue`),
  that no retry is armed and no attempt under way unless a handler has called the
  client (`NothingBegunYet`), that a live socket is in `ws` or about to be closed by
  the heartbeat (`LiveIsOwned`), and that `close()` between `reconnecting` and the
  arming came from a handler (`CloseWasCalled`). `NoSilentGiveUp` and
  `RetriesFollowALoss` hold whatever the handlers call.

  Then `Requests`, as `ClientRequests` names it (`told` is its `promise`, since the
  connection has promises, too): `TypeOK`, `Bookkeeping`,
  `NobodyWaitsAfterClose` and the refinement `ImplementsAnswers`. The refinement
  needs an invariant over the frames: an answer or a settled refusal on the wire
  means the proxy has, or has not, carried the request out, and no request is on
  the wire twice.
- `DirectedDelivery_proofs`: `TypeOK`, `WithinLimits` and `Conserved`, for any
  messages, pieces, tokens and connections. The invariant adds to the types that
  a direct channel is a token's (`ChannelTags`), how far each call is and what it
  may address (`Calls`), that no piece is in two places (`OneCopy`), that what left
  is somewhere, lost for a cause, or with the app and then nowhere else
  (`Accounted`), and that no message is handed over twice (`DeliveredOnce`). The
  lemma `Complete` carries the one step about cardinalities: pieces held under one
  name are of different numbers, so as many as the message has are the message.

  Then the `Reassembler`, as `MessageParts` names it: all of its properties, for any
  number of senders, ids and parts. `Accounting` speaks of sums as cardinalities of sets of stored
  characters, since sums over functions would need induction over data; the
  lemmas say how such a set changes when a part is added and when a message is
  dropped.
- `PeerIdentity_proofs`: `TypeOK` (with: nobody without an identity has greeted),
  `TokenKeepsOwner` and `OneGreetingSuffices`. The invariant of the last (`GInv`)
  follows a greeting from its start: what is held or on the way is of connections
  there have been, and a greeting on the way is between two that last
  (`TokensAreOfNow`); an app that has kept its first connection and profile has one
  name everywhere (`OneFace`); whom it has greeted knows it, or is about to
  (`GreetingArrives`); and who has met has greeted, and is greeted back or has yet
  to be reached (`GreetingAnswered`). When nothing is between the two any more the
  property is what is left.
- `DirectChannel_proofs`: `TypeOK`, `NothingLeftOpen`, `CandidatesNotStranded` and
  `OffersDoNotCross`, for any clients, tokens and peers. The invariant (`Inv`) is
  about one peer at a time (`Sound`): out of the map it is either untouched or being closed, and what is
  being closed is closed unless a description is in flight; a connection that is
  closed has none in flight. The lemmas follow each operation on one peer's record,
  and `MapOK` says what relates the peers: one of a token, none in a closed manager.
  Candidates are `Kept`: whatever waits while a description is there is about to be
  added, a job that no operation but its own takes away.

  `OffersDoNotCross` needs more of two ends with the tokens they still have. Who
  creates the channel is a `Creator`: it has one offer to make, or is making it, or
  has made it, and has none to answer. The other is a `Taker`: it makes none, and
  has one to answer at most. Between the two there is never more than one offer:
  none on its way while it is to be made, and once it is being answered no other
  comes (`Spent`). An end may be made long before the other (`LoneOK`) or again
  after the other, and an offer on its way is of a peer that is there (`PostedOK`).
  `Bounded` says why a new token starts with a clean sheet: nobody has heard of it,
  and who is offline hears nothing. What every step does to one peer's part in this is `Moves`, and
  `StepOffers`, `CreateOffers` and `TakeOffers` carry the pair through a step, the
  making of a peer and the arrival of an offer.
- `Services_proofs`: every behaviour of the composition is one of each part
  (`ComposesBoth`), so that each part's invariants are proved on its own steps;
  then `TypeOK`, `KeysAreTheirs`, `ForgetTakesEffect`, `WaitersHaveLookup`,
  `InOrder` and `RenewalGoesOn`. `KeysAreTheirs` is about steps: a key that comes to
  be remembered has been announced by its identity, or the app's resolver has just
  named it. It needs that what the proxy has stored for this client
  (`StoredIsAnnounced`) and what is being verified (`VerifiesNoOlder`: no older than
  `floor`, no newer than what the proxy has) has been announced by then, which
  `ForgetTakesEffect` needs, too; TURN's two need what a run may be doing when the relay is
  not active, and after `close()`, unless runs have overlapped (`RunsAsTheyShould`).
- `Nearby_proofs`: `TypeOK`, `OwnAddress`, `ListIsWhole` and `SearchFinds`, for any
  networks, announcers and searches. The first three are inductive together; the
  lemmas say what `sendAll` puts into a queue and what the datagrams of a packet are.

  `SearchFinds` is about the end of a search, so its invariant (`FInv`) follows what
  is under way until then. `Way` counts how often something said by one machine to
  another is between `sendAll` and its arrival: in the queue, handed to `send()`, on
  the air. A socket's own steps take nothing from it (`WayMoves`), and this is where
  `OwnAddress` is needed: a packet that left by another interface would be counted
  and reach nobody. For an announcer that was there all along and has not been read,
  each question is still a question or an answer under way, or was lost
  (`AnnouncersHeard`, a sum of such counts against `asks` and `lost`). A foreign
  responder is asked for its text once, so for it one thing at a time is under way
  and a single loss may break the chain (`ForeignHeard`); that is why its bound in
  `SearchFinds` is 1 where an announcer's is `MaxAsks`. When all is quiet nothing is
  under way (`WayQuiet`), and what is left of the two is `SearchFinds`.
- `SealedMail_proofs`: `TypeOK`, `ServedInTurn` and `NoRefusalKept`, for any
  identities, calls, recipients and pieces. What a call has sent is told by how far
  its loop has come (`Progress`), and it sends nothing twice, so what is on the way
  has not arrived before (`OnTheWay`). That is what numbers the openings of a
  message's key without a gap (`Openings`): one that is begun has a number no
  refused one has, so a late refusal cannot be of the opening that is remembered.
- `Bluetooth_proofs`: `TypeOK`, `NobodyWaitsForEver`, `NothingKeptForNobody` and
  `InStep`, for any devices, tokens and bounds. None of the first three is inductive,
  and they do not part: `BTInv` joins what is true of one peer (`AllFit`: what it waits for will come,
  and what ended holds nothing), of a link and its peers (`LinkHasOwner`,
  `OwnerIsCentral`), of a probe between two awaits (`ProbesInHand`: a link it opened
  is in its hand, or its peer's), of the search (`ScanHasSearcher`, `CentralsWant`)
  and of a device that is off (`SwitchedOff`, `OffIsHung`: its links are all being
  cut, which is why a probe that survives `stop()` leaves no link behind). Most steps
  are one peer that changes, with what `Become` says follows; `Keeps` says which
  changes of a peer disturb nobody else, and one lemma (`OneBecomesWithLink`) carries
  them all.

  `InStep` speaks of the two ends of a channel and of what is between them, and needs
  an invariant of its own (`ChannelInv`, on top of `BTInv`). Of the keys: a signal on a
  wire, a key being made and a key in use are of the half that their sender has sent
  and will not send again (`SignalsTied`, `HalvesTied`, `KeysTied`), and `Early` says
  what a peer may not have before it has a key. Of the records: each is of a peer for
  one that it made its key for (`RecordsOK`); those of one peer for another are in
  their order, and from the first on the way none is missing up to the last one sealed
  (`Run`), so that what is appended and what is taken keeps the rest a run. A record
  that was taken is followed by the next (`Taken`). Of the ends: who is open expects
  the counter of what is being opened for it, or of the first on its way
  (`Expects`). The hard case is a peripheral that opens with a hello whose link was
  lost meanwhile: nothing of its central may come any more, neither on this link
  nor on the next, which is so because the central was told of the end, or had no
  link yet (`Speakers`).
  The lemmas come in two layers: what a change of one peer and one link does to
  `ChannelInv` (`QuietGoesOn`, `AttachStep`, `SealedStep`, `DropStep`, `LostStep`,
  `HeldStep`, `OpenedStep`, stated over any peers, links and wires), and one lemma per
  action (`...Channels`) that finds its change among them. At the end `RunCounts`
  turns a run into the counting of `InStep`, by a bijection between the records
  before one and the counters before its own.

The proofs found four of the models' statements to be wrong, and the code to be
looked at: `ScanHasSearcher` as it was first stated (the dropped central above),
`OffersDoNotCross` without the tokens (`OffersNeverCross`), and `OffersDoNotCross`
with an end that is offline. That one takes five connections of one client and four
peers of the other, more than the run has: a peer that outlives several tokens may
send offers in more than one role, and of three that are taken before the first is
answered the last `_describe('answer')` finds nothing to answer and makes an offer
(`setLocalDescription()` without an argument, `webrtc.js:565`). With both ends
online and current it is proved not to happen.

The fourth is `InStep`, which was said of every open channel. The run is too small to
refute it; two devices with two peers each and three records do, in 34 steps: a
central's peer is opening the greeting when it is dropped for a new offer, the peer
that takes its place attaches the same link and takes the notifications (there is one
listener per device, `ble/bluez.js:289`), and then the dropped one opens
(`ClosedStaysClosed`), while its records go to the other. Of a central it is therefore
said while it has the notifications. The proof also led to `Identified`, which had a
peripheral answer after `stop()` where the code throws, and to `HasLink`, which had it
notify without an adapter; both are now as the code is.

Only model-checked:

- `Keypair` and `BluezLinks`, whose runs are by hand.
- Every liveness property (`OutageEnds`, `HalfOpenIsNoticed`, `Arrives`,
  `GreetingsDieOut`, `EveryRequestSettles`, `DirectIsReached`, `ChannelIsReached`,
  `ComesBackOn`, `SearchesEnd`, `RoomIsServed`, `EverybodyHasATurn`): the prover does
  not handle fairness and ENABLED.

## Plan

Done: the connection, the requests, delivery, parts, greeting, the direct channels
over WebRTC and Bluetooth, encryption keys, TURN, the local network, sealed mail
for several, the key pair. Next, in this order:

1. Three Bluetooth devices, and `discover()` as a second listener of the search in
   `Bluetooth` itself; the records of several channels cut into chunks and
   notified to every central (`ble/wire.js:246-305`).
2. `send()` with what `_upgradeDirect` remembers (`_rtcTried`); push and wake
   subscriptions across a change of identity; the registry and log of statistics.
3. Pure algorithms against reference definitions: how a message is cut and joined
   (`parts.js:74-94`), `txtEntries` and `fromTxt` (`lan/mdns.js`), `binpack.js`
   frames.
4. Proofs: the safety properties of `Keypair` and `BluezLinks`.

## Not modelled

Cryptography (`sealing.js`, `signature.js`, `canonical.js`), whose failures are
visible to the models only as an envelope that does not open or a statement that
does not verify; `dbus.js`, what `bluez.js` says over it, and the DNS wire format
of `lan/mdns.js`, input and output to the operating system; the service worker;
formats, logging and statistics' wording; requests whose life cycle is that of
`Requests` and that keep nothing in the client (push, wake, scheduled messages,
pairing codes, channels); and what the plan still has ahead.
