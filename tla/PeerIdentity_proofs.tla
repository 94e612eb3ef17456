------------------------- MODULE PeerIdentity_proofs --------------------------
(***************************************************************************)
(* Proofs about PeerIdentity.tla: its types, that a token keeps its owner, *)
(* and that one greeting suffices for both ends to know each other.        *)
(***************************************************************************)
EXTENDS PeerIdentity, TLAPS

\* Types alone do not survive a greeting: the token it comes from must be one
\* of a connection its sender has had, and its sender must have an identity.
Greetable ==
  \A c \in Client :
    /\ up[c] => conns[c] \in 1 .. MaxConns[c]
    /\ identified[c] => myPublickey[c] \in Pubkey

IInv == TypeOK /\ Greetable

-----------------------------------------------------------------------------

\* Init establishes the invariant.
LEMMA InvInit == Init => IInv
  BY IdentityAssumption DEF Init, IInv, TypeOK, Greetable, Token

\* The token of a client that has had a connection is a token.
LEMMA MyTokenIsAToken ==
  ASSUME NEW c \in Client, conns[c] \in 1 .. MaxConns[c]
  PROVE  MyToken(c) \in Token /\ Owner(MyToken(c)) = c
  BY DEF MyToken, Token, Owner

\* What a greeting leaves in transit is greetings.
LEMMA WithHelloType ==
  ASSUME IInv, NEW S, S \subseteq Hello, NEW c \in Client, NEW t \in Token
  PROVE  WithHello(S, c, t) \subseteq Hello
<1>1. CASE Travels(c, t)
  <2>1. MyToken(c) \in Token /\ myPublickey[c] \in Pubkey
    BY <1>1, MyTokenIsAToken DEF IInv, Greetable, Travels
  <2> QED
    BY <2>1 DEF WithHello, Hello
<1>2. CASE ~Travels(c, t)
  BY <1>2 DEF WithHello
<1> QED
  BY <1>1, <1>2

\* helloTo, by a client with an identity, keeps the types of what it changes.
LEMMA HelloToType ==
  ASSUME IInv, NEW c \in Client, NEW t \in Token, HelloTo(c, t), myPublickey[c] # Nobody,
         UNCHANGED myPublickey
  PROVE  /\ helloSent' \in [Client -> SUBSET Token]
         /\ frames' \subseteq Hello
         /\ met' \subseteq Client \X Client
         /\ \A d \in Client : helloSent'[d] # {} => myPublickey'[d] # Nobody
<1>1. frames \subseteq Hello /\ helloSent \in [Client -> SUBSET Token]
  BY DEF IInv, TypeOK
<1>2. frames' \subseteq Hello
  BY <1>1, WithHelloType DEF HelloTo
<1>3. Owner(t) \in Client
  BY DEF Owner, Token
<1>4. met' \subseteq Client \X Client
  BY <1>3 DEF HelloTo, IInv, TypeOK
<1>5. \A d \in Client : helloSent'[d] # {} => myPublickey'[d] # Nobody
  BY <1>1 DEF HelloTo, IInv, TypeOK
<1> QED
  BY <1>1, <1>2, <1>4, <1>5 DEF HelloTo

\* What ends with a connection leaves no notice of anything but a token.
LEMMA NotifiedType ==
  ASSUME IInv, NEW c \in Client, up[c], Notified(c)
  PROVE  notices' \subseteq Client \X Token
  BY MyTokenIsAToken DEF Notified, IInv, TypeOK, Greetable

\* A step keeps the invariant.
LEMMA InvStep == IInv /\ [Next]_vars => IInv'
<1> SUFFICES ASSUME IInv, [Next]_vars PROVE IInv'
  OBVIOUS
<1>i. TypeOK /\ Greetable
  BY DEF IInv
<1>a. (\A c \in Client : MaxConns[c] \in Nat) /\ Nobody \notin Pubkey /\ \A c \in Client : Profiles[c] \subseteq Pubkey
  BY IdentityAssumption DEF IdentityAssumption
<1>1. ASSUME NEW c \in Client, Connect(c) PROVE IInv'
  BY <1>1, <1>i, <1>a DEF Connect, IInv, TypeOK, Greetable
<1>2. ASSUME NEW c \in Client, Drop(c) PROVE IInv'
  <2>1. notices' \subseteq Client \X Token
    BY <1>2, NotifiedType DEF Drop
  <2> QED
    BY <1>2, <1>i, <2>1 DEF Drop, Disconnected, IInv, TypeOK, Greetable
<1>3. ASSUME NEW c \in Client, Restart(c) PROVE IInv'
  <2>1. notices' \subseteq Client \X Token
    BY <1>3, NotifiedType DEF Restart
  <2> QED
    BY <1>3, <1>i, <2>1 DEF Restart, Disconnected, IInv, TypeOK, Greetable
<1>4. ASSUME NEW c \in Client, NEW pk \in Pubkey, Identify(c, pk) PROVE IInv'
  BY <1>4, <1>i, <1>a DEF Identify, IInv, TypeOK, Greetable
<1>5. ASSUME NEW c \in Client, NEW pk \in Pubkey, IdentifyRefused(c, pk) PROVE IInv'
  BY <1>5, <1>i, <1>a DEF IdentifyRefused, IInv, TypeOK, Greetable
<1>6. ASSUME NEW c \in Client, NEW t \in Token, Greet(c, t) PROVE IInv'
  BY <1>6, <1>i, HelloToType DEF Greet, connVars, IInv, TypeOK, Greetable
<1>7. ASSUME NEW c \in Client, NEW t \in Token, WhoIs(c, t) PROVE IInv'
  BY <1>7, <1>i, HelloToType DEF WhoIs, connVars, IInv, TypeOK, Greetable
<1>8. ASSUME NEW c \in Client, NEW t \in Token, WhoIsTimesOut(c, t) PROVE IInv'
  BY <1>8, <1>i DEF WhoIsTimesOut, connVars, IInv, TypeOK, Greetable
<1>9. ASSUME NEW c \in Client, NEW f \in frames, OnHello(c, f) PROVE IInv'
  <2>1. f.from \in Token /\ f.publickey \in Pubkey
    BY <1>i DEF TypeOK, Hello
  <2>2. frames \ {f} \subseteq Hello
    BY <1>i DEF TypeOK
  <2>3. WithHello(frames \ {f}, c, f.from) \subseteq Hello
    BY <2>1, <2>2, WithHelloType
  <2>4. CASE Conflicts(c, f)
    BY <1>9, <1>i, <2>2, <2>4 DEF OnHello, connVars, IInv, TypeOK, Greetable
  <2>5. CASE ~Conflicts(c, f)
    <3>1. frames' \subseteq Hello
      BY <1>9, <2>2, <2>3, <2>5 DEF OnHello
    <3>2. helloSent' \in [Client -> SUBSET Token]
      <4>1. helloSent \in [Client -> SUBSET Token]
        BY <1>i DEF TypeOK
      <4> QED
        BY <1>9, <2>1, <2>5, <4>1 DEF OnHello
    <3>3. \A d \in Client : helloSent'[d] # {} => myPublickey'[d] # Nobody
      <4>1. myPublickey' = myPublickey /\ \A d \in Client : helloSent[d] # {} => myPublickey[d] # Nobody
        BY <1>9, <1>i DEF OnHello, TypeOK
      <4>2. CASE Answers(c, f.from)
        BY <1>9, <1>i, <2>5, <4>1, <4>2 DEF OnHello, TypeOK, Answers
      <4>3. CASE ~Answers(c, f.from)
        BY <1>9, <2>5, <4>1, <4>3 DEF OnHello
      <4> QED
        BY <4>2, <4>3
    <3>4. tokenPubkeys' \in [Client -> [Token -> Pubkey \cup {Nobody}]]
      <4>1. tokenPubkeys' = [tokenPubkeys EXCEPT ![c][f.from] = f.publickey]
        BY <1>9, <2>5 DEF OnHello
      <4>2. tokenPubkeys \in [Client -> [Token -> Pubkey \cup {Nobody}]]
        BY <1>i DEF TypeOK
      <4> QED
        BY <2>1, <4>1, <4>2
    <3>5. asking' \in [Client -> SUBSET Token] /\ met' = met
      BY <1>9, <1>i, <2>5 DEF OnHello, TypeOK
    <3> QED
      BY <1>9, <1>i, <3>1, <3>2, <3>3, <3>4, <3>5 DEF OnHello, connVars, IInv, TypeOK, Greetable
  <2> QED
    BY <2>4, <2>5
<1>10. ASSUME NEW c \in Client, NEW t \in Token, ForgetToken(c, t) PROVE IInv'
  BY <1>10, <1>i DEF ForgetToken, ForgetsToken, IInv, TypeOK, Greetable
<1>11. ASSUME NEW c \in Client, NEW t \in Token, PeerGone(c, t) PROVE IInv'
  BY <1>11, <1>i DEF PeerGone, ForgetsToken, connVars, IInv, TypeOK, Greetable
<1>12. CASE UNCHANGED vars
  BY <1>12, <1>i DEF vars, IInv, TypeOK, Greetable
<1> QED
  BY <1>1, <1>2, <1>3, <1>4, <1>5, <1>6, <1>7, <1>8, <1>9, <1>10, <1>11, <1>12
     DEF Next, Connections, Asks, Hears

\* The invariant holds throughout.
LEMMA IInvHolds == Spec => []IInv
  BY InvInit, InvStep, PTL DEF Spec

\* Types, and no greeting ever sent by a client that has no identity to say.
THEOREM IdentityTypeCorrect == Spec => []TypeOK
<1>1. IInv => TypeOK
  BY DEF IInv
<1> QED
  BY <1>1, IInvHolds, PTL

-----------------------------------------------------------------------------

\* What a client holds of a token changes only by forgetting it or by learning
\* it when nothing was held.
Keeps ==
  \A c \in Client, t \in Token :
    tokenPubkeys[c][t] # Nobody /\ tokenPubkeys'[c][t] # Nobody
      => tokenPubkeys'[c][t] = tokenPubkeys[c][t]

\* No step changes the owner of a token.
LEMMA KeepsStep == IInv /\ [Next]_vars => Keeps
<1> SUFFICES ASSUME IInv, [Next]_vars PROVE Keeps
  OBVIOUS
<1>i. tokenPubkeys \in [Client -> [Token -> Pubkey \cup {Nobody}]]
  BY DEF IInv, TypeOK
<1>1. ASSUME NEW c \in Client, Restart(c) PROVE Keeps
  BY <1>1, <1>i DEF Restart, Keeps
<1>2. ASSUME NEW c \in Client, NEW t \in Token, ForgetsToken(c, t) PROVE Keeps
  BY <1>2, <1>i DEF ForgetsToken, Keeps
<1>3. ASSUME NEW c \in Client, NEW f \in frames, OnHello(c, f) PROVE Keeps
  <2>1. f.from \in Token
    BY DEF IInv, TypeOK, Hello
  <2>2. CASE Conflicts(c, f)
    BY <1>3, <2>2 DEF OnHello, Keeps
  <2>3. CASE ~Conflicts(c, f)
    <3>1. tokenPubkeys' = [tokenPubkeys EXCEPT ![c][f.from] = f.publickey]
      BY <1>3, <2>3 DEF OnHello
    <3>2. tokenPubkeys[c][f.from] \in {Nobody, f.publickey}
      BY <2>3 DEF Conflicts
    <3> QED
      BY <1>i, <2>1, <3>1, <3>2 DEF Keeps
  <2> QED
    BY <2>2, <2>3
<1>4. CASE UNCHANGED tokenPubkeys
  BY <1>4 DEF Keeps
<1>5. ASSUME NEW c \in Client,
             \/ Connect(c) \/ Drop(c)
             \/ \E pk \in Pubkey : Identify(c, pk) \/ IdentifyRefused(c, pk)
             \/ \E t \in Token : Greet(c, t) \/ WhoIs(c, t) \/ WhoIsTimesOut(c, t)
      PROVE  UNCHANGED tokenPubkeys
  BY <1>5 DEF Connect, Drop, Identify, IdentifyRefused, Greet, WhoIs, WhoIsTimesOut
<1> QED
  BY <1>1, <1>2, <1>3, <1>4, <1>5
     DEF Next, Connections, Asks, Hears, ForgetToken, PeerGone, vars

\* A token does not change owner.
THEOREM TokenKeepsOwnerHolds == Spec => TokenKeepsOwner
<1>1. IInv /\ [Next]_vars => [Keeps]_vars
  BY KeepsStep
<1>2. Spec => [][Keeps]_vars
  BY <1>1, IInvHolds, PTL DEF Spec
<1> QED
  BY <1>2 DEF TokenKeepsOwner, Keeps

-----------------------------------------------------------------------------
(* One greeting suffices.                                                    *)

\* A client that the proxy has identified is connected.
IdentifiedIsUp == \A c \in Client : identified[c] => up[c]

\* A greeting between two connections that last.
Lasts(f) == IsAlive(f.from) /\ IsAlive(f.to) /\ Owner(f.from) # Owner(f.to)

\* Whatever is held, greeted, on its way or told of concerns connections there
\* have been; greetings are between those that last, notices are of those that
\* do not.
TokensAreOfNow ==
  /\ \A c \in Client, t \in Token :
       tokenPubkeys[c][t] # Nobody \/ t \in helloSent[c] => t \in Seen /\ Owner(t) # c
  /\ \A f \in frames : Lasts(f)
  /\ \A c \in Client, t \in Token : <<c, t>> \in notices => t \in Seen /\ ~IsAlive(t)

\* An app on its first connection that has forgotten nobody, changed no profile
\* and was refused none says one thing of itself, and the proxy agrees.
OneFace ==
  \A c \in Client : fresh[c] =>
    /\ myPublickey[c] # Nobody => up[c] /\ identified[c]
    /\ \A f \in frames : Owner(f.from) = c => f.publickey = myPublickey[c]
    /\ up[c] => \A d \in Client : tokenPubkeys[d][MyToken(c)] \in {Nobody, myPublickey[c]}

\* Who has met is there.
MetAreThere ==
  \A c, d \in Client : <<c, d>> \in met =>
    c # d /\ up[c] /\ up[d] /\ identified[c] /\ identified[d]

OnTheWay(c, d) == \E f \in frames : f.from = MyToken(c) /\ f.to = MyToken(d)
HasGreeted(c, d) == MyToken(d) \in helloSent[c]

\* Whom such an app has greeted knows it, or is about to.
GreetingArrives ==
  \A c, d \in Client :
    c # d /\ fresh[c] /\ fresh[d] /\ up[d] /\ HasGreeted(c, d) => OnTheWay(c, d) \/ Knows(d, c)

\* And greets it too, or has yet to be reached.
GreetingAnswered ==
  \A c, d \in Client :
    <<c, d>> \in met /\ fresh[c] /\ fresh[d]
      => HasGreeted(c, d) /\ (OnTheWay(c, d) \/ HasGreeted(d, c))

GInv ==
  /\ IInv
  /\ IdentifiedIsUp
  /\ TokensAreOfNow
  /\ OneFace
  /\ MetAreThere
  /\ GreetingArrives
  /\ GreetingAnswered

\* Nobody has been connected, so nothing is held of anybody.
LEMMA GreetingInit == Init => GInv
<1> SUFFICES ASSUME Init PROVE GInv
  OBVIOUS
<1>1. IInv
  BY InvInit
<1> QED
  BY <1>1 DEF Init, GInv, IdentifiedIsUp, TokensAreOfNow, OneFace, MetAreThere,
              GreetingArrives, GreetingAnswered, HasGreeted, Seen

\* The token a client has now.
LEMMA TokenOfNow ==
  ASSUME GInv, NEW c \in Client, up[c]
  PROVE  MyToken(c) \in Token /\ Owner(MyToken(c)) = c /\ IsAlive(MyToken(c))
BY MyTokenIsAToken DEF GInv, IInv, Greetable, IsAlive, Owner, MyToken

\* A step by which connections neither come nor go, and notices only get lost.
LEMMA QuietTokens ==
  ASSUME GInv, UNCHANGED <<conns, up>>, notices' \subseteq notices,
         \A c \in Client, t \in Token :
            tokenPubkeys'[c][t] # Nobody \/ t \in helloSent'[c] =>
              \/ tokenPubkeys[c][t] # Nobody \/ t \in helloSent[c]
              \/ t \in Seen /\ Owner(t) # c,
         \A f \in frames' : f \in frames \/ Lasts(f)
  PROVE  TokensAreOfNow'
<1>1. Seen' = Seen /\ \A t \in Token : IsAlive(t)' <=> IsAlive(t)
  BY DEF Seen, IsAlive, MyToken, Owner
<1>2. \A f \in frames' : Lasts(f)'
  BY DEF Lasts, IsAlive, MyToken, Owner, GInv, TokensAreOfNow
<1> QED
  BY <1>1, <1>2 DEF GInv, TokensAreOfNow

\* A connection ends.
LEMMA EndingTokens ==
  ASSUME GInv, NEW c \in Client, up[c], Disconnected(c), Notified(c), UNCHANGED conns,
         \A d \in Client, t \in Token :
            tokenPubkeys'[d][t] # Nobody \/ t \in helloSent'[d] =>
              tokenPubkeys[d][t] # Nobody \/ t \in helloSent[d]
  PROVE  TokensAreOfNow'
<1>1. /\ up' = [up EXCEPT ![c] = FALSE] /\ up \in [Client -> BOOLEAN]
      /\ frames' = {f \in frames : Owner(f.from) # c /\ Owner(f.to) # c}
  BY DEF Disconnected, GInv, IInv, TypeOK
<1>2. Seen' = Seen
  BY DEF Seen, Owner
<1>3. \A t \in Token : Owner(t) # c => (IsAlive(t)' <=> IsAlive(t))
  BY <1>1 DEF IsAlive, MyToken, Owner
<1>4. \A t \in Token : Owner(t) = c => ~IsAlive(t)'
  BY <1>1 DEF IsAlive, Owner
<1>5. \A f \in frames' : /\ f \in frames /\ f.from \in Token /\ f.to \in Token
                         /\ Owner(f.from) # c /\ Owner(f.to) # c
  BY <1>1 DEF GInv, IInv, TypeOK, Hello
<1>6. \A d \in Client, t \in Token : <<d, t>> \in notices' => <<d, t>> \in notices \/ t = MyToken(c)
  BY DEF Notified
<1>7. MyToken(c) \in Seen /\ Owner(MyToken(c)) = c
  BY TokenOfNow DEF Seen, MyToken, Owner, GInv, IInv, TypeOK
<1>8. \A d \in Client, t \in Token : <<d, t>> \in notices' => t \in Seen' /\ ~IsAlive(t)'
  BY <1>2, <1>3, <1>4, <1>6, <1>7 DEF GInv, TokensAreOfNow
<1>9. \A f \in frames' : Lasts(f)'
  BY <1>3, <1>5 DEF Lasts, GInv, TokensAreOfNow
<1> QED
  BY <1>2, <1>8, <1>9 DEF GInv, TokensAreOfNow

\* What helloTo(t) leaves on its way: what was, and the greeting if it travels.
LEMMA Sends ==
  ASSUME GInv, NEW S \in SUBSET frames, NEW c \in Client, NEW t \in Token, Owner(t) # c
  PROVE  \A f \in WithHello(S, c, t) : f \in frames \/ Lasts(f)
BY TokenOfNow DEF WithHello, Travels, Lasts

\* No step leaves anything of a connection there has not been, nor a greeting
\* of one that is over.
LEMMA TokensStep == GInv /\ [Next]_vars => TokensAreOfNow'
<1> SUFFICES ASSUME GInv, [Next]_vars PROVE TokensAreOfNow'
  OBVIOUS
<1>i. TypeOK
  BY DEF GInv, IInv
<1>1. ASSUME NEW c \in Client, Connect(c) PROVE TokensAreOfNow'
  <2>1. /\ up' = [up EXCEPT ![c] = TRUE] /\ conns' = [conns EXCEPT ![c] = @ + 1]
        /\ ~up[c] /\ UNCHANGED <<tokenPubkeys, helloSent, frames, notices>>
    BY <1>1 DEF Connect
  <2>2. Seen \subseteq Seen'
    BY <1>i, <2>1 DEF Seen, Owner, Token, TypeOK
  <2>3. \A t \in Token : IsAlive(t) => IsAlive(t)'
    BY <1>i, <2>1 DEF IsAlive, MyToken, Owner, Token, TypeOK
  <2>4. \A t \in Seen : ~IsAlive(t) => ~IsAlive(t)'
    <3> SUFFICES ASSUME NEW t \in Seen, IsAlive(t)', ~IsAlive(t) PROVE FALSE
      OBVIOUS
    <3>1. Owner(t) \in Client /\ t[2] <= conns[Owner(t)] /\ t = <<Owner(t), conns'[Owner(t)]>>
      BY DEF Seen, IsAlive, MyToken, Owner, Token
    <3>2. Owner(t) = c
      BY <1>i, <2>1, <3>1 DEF IsAlive, MyToken, Owner, TypeOK
    <3> QED
      BY <1>i, <2>1, <3>1, <3>2 DEF TypeOK
  <2>5. \A f \in frames : f.from \in Token /\ f.to \in Token
    BY <1>i DEF TypeOK, Hello
  <2> QED
    BY <2>1, <2>2, <2>3, <2>4, <2>5 DEF Lasts, GInv, TokensAreOfNow
<1>2. ASSUME NEW c \in Client, Drop(c) PROVE TokensAreOfNow'
  BY <1>2, EndingTokens DEF Drop
<1>3. ASSUME NEW c \in Client, Restart(c) PROVE TokensAreOfNow'
  <2>1. \A d \in Client, t \in Token :
            tokenPubkeys'[d][t] # Nobody \/ t \in helloSent'[d] =>
              tokenPubkeys[d][t] # Nobody \/ t \in helloSent[d]
    BY <1>3, <1>i DEF Restart, TypeOK
  <2> QED
    BY <1>3, <2>1, EndingTokens DEF Restart
<1>4. ASSUME NEW c \in Client, NEW t \in Token, HelloTo(c, t), t \in Seen, Owner(t) # c,
             UNCHANGED <<conns, up, tokenPubkeys, notices>>
      PROVE  TokensAreOfNow'
  <2>1. helloSent' = [helloSent EXCEPT ![c] = @ \cup {t}] /\ frames' = WithHello(frames, c, t)
    BY <1>4 DEF HelloTo
  <2>2. \A f \in frames' : f \in frames \/ Lasts(f)
    BY <1>4, <2>1, Sends
  <2>3. \A d \in Client, u \in Token : u \in helloSent'[d] => u \in helloSent[d] \/ (u = t /\ d = c)
    BY <1>i, <2>1 DEF TypeOK
  <2> QED
    BY <1>4, <2>2, <2>3, QuietTokens
<1>5. ASSUME NEW c \in Client, NEW f \in frames, OnHello(c, f) PROVE TokensAreOfNow'
  <2>1. /\ f.from \in Token /\ IsAlive(f.from) /\ Owner(f.from) # c
    BY <1>5, <1>i DEF TypeOK, Hello, OnHello, Lasts, GInv, TokensAreOfNow
  <2>2. f.from \in Seen
    BY <1>i, <2>1 DEF Seen, IsAlive, MyToken, Owner, Token, TypeOK
  <2>3. UNCHANGED <<conns, up, notices>>
    BY <1>5 DEF OnHello, connVars
  <2>4. \A g \in frames' : g \in frames \/ Lasts(g)
    BY <1>5, <2>1, Sends DEF OnHello
  <2>5. \A d \in Client, u \in Token :
          /\ tokenPubkeys'[d][u] # Nobody => tokenPubkeys[d][u] # Nobody \/ (u = f.from /\ d = c)
          /\ u \in helloSent'[d] => u \in helloSent[d] \/ (u = f.from /\ d = c)
    BY <1>5, <1>i, <2>1 DEF OnHello, TypeOK
  <2> QED
    BY <2>1, <2>2, <2>3, <2>4, <2>5, QuietTokens
<1>6. ASSUME NEW c \in Client, NEW t \in Token, ForgetsToken(c, t),
             UNCHANGED <<conns, up, frames>>, notices' \subseteq notices
      PROVE  TokensAreOfNow'
  <2>1. \A d \in Client, u \in Token :
          /\ tokenPubkeys'[d][u] # Nobody => tokenPubkeys[d][u] # Nobody
          /\ u \in helloSent'[d] => u \in helloSent[d]
    BY <1>6, <1>i DEF ForgetsToken, TypeOK
  <2> QED
    BY <1>6, <2>1, QuietTokens
<1>7. CASE UNCHANGED <<conns, up, tokenPubkeys, helloSent, frames, notices>>
  BY <1>7, QuietTokens
<1>8. ASSUME NEW c \in Client, NEW t \in Token, Greet(c, t) \/ WhoIs(c, t) PROVE TokensAreOfNow'
  BY <1>4, <1>8 DEF Greet, WhoIs, connVars
<1>9. ASSUME NEW c \in Client, NEW t \in Token, ForgetToken(c, t) \/ PeerGone(c, t)
      PROVE  TokensAreOfNow'
  BY <1>6, <1>9 DEF ForgetToken, PeerGone, connVars
<1>10. ASSUME NEW c \in Client,
              \/ \E pk \in Pubkey : Identify(c, pk) \/ IdentifyRefused(c, pk)
              \/ \E t \in Token : WhoIsTimesOut(c, t)
       PROVE  TokensAreOfNow'
  BY <1>7, <1>10 DEF Identify, IdentifyRefused, WhoIsTimesOut, connVars
<1>11. CASE UNCHANGED vars
  BY <1>7, <1>11 DEF vars
<1> QED
  BY <1>1, <1>2, <1>3, <1>5, <1>8, <1>9, <1>10, <1>11 DEF Next, Connections, Asks, Hears

\* Who is identified is connected, and who has met is there.
LEMMA MetStep == GInv /\ [Next]_vars => IdentifiedIsUp' /\ MetAreThere'
<1> SUFFICES ASSUME GInv, [Next]_vars PROVE IdentifiedIsUp' /\ MetAreThere'
  OBVIOUS
<1>i. TypeOK /\ IdentifiedIsUp /\ MetAreThere
  BY DEF GInv, IInv
<1> USE DEF IdentifiedIsUp, MetAreThere
<1>1. ASSUME NEW c \in Client, Connect(c) PROVE IdentifiedIsUp' /\ MetAreThere'
  BY <1>1, <1>i DEF Connect, TypeOK
<1>2. ASSUME NEW c \in Client, Drop(c) \/ Restart(c) PROVE IdentifiedIsUp' /\ MetAreThere'
  <2>1. Disconnected(c)
    BY <1>2 DEF Drop, Restart
  <2>2. \A a, b \in Client : <<a, b>> \in met' => <<a, b>> \in met /\ a # c /\ b # c
    BY <2>1 DEF Disconnected
  <2> QED
    BY <1>i, <2>1, <2>2 DEF Disconnected, TypeOK
<1>3. ASSUME NEW c \in Client, NEW pk \in Pubkey, Identify(c, pk)
      PROVE  IdentifiedIsUp' /\ MetAreThere'
  BY <1>3, <1>i DEF Identify, TypeOK
<1>4. ASSUME NEW c \in Client, NEW t \in Token, Greet(c, t) \/ WhoIs(c, t)
      PROVE  IdentifiedIsUp' /\ MetAreThere'
  <2>1. Owner(t) # c /\ HelloTo(c, t) /\ UNCHANGED <<up, identified>>
    BY <1>4 DEF Greet, WhoIs, connVars
  <2>2. \A a, b \in Client : <<a, b>> \in met' =>
           <<a, b>> \in met \/ (a = c /\ b = Owner(t) /\ Travels(c, t) /\ identified[Owner(t)])
    BY <2>1 DEF HelloTo
  <2> QED
    BY <1>i, <2>1, <2>2 DEF Travels, IsAlive
<1>5. CASE UNCHANGED <<up, identified, met>>
  BY <1>5, <1>i
<1>6. ASSUME NEW c \in Client,
             \/ \E pk \in Pubkey : IdentifyRefused(c, pk)
             \/ \E f \in frames : OnHello(c, f)
             \/ \E t \in Token : ForgetToken(c, t) \/ PeerGone(c, t) \/ WhoIsTimesOut(c, t)
      PROVE  UNCHANGED <<up, identified, met>>
  BY <1>6 DEF IdentifyRefused, OnHello, ForgetToken, PeerGone, WhoIsTimesOut, connVars
<1>7. CASE UNCHANGED vars
  BY <1>5, <1>7 DEF vars
<1> QED
  BY <1>1, <1>2, <1>3, <1>4, <1>5, <1>6, <1>7 DEF Next, Connections, Asks, Hears

\* What is sent of an app's own is what it says now.
LEMMA SendsOwn ==
  ASSUME GInv, NEW S \in SUBSET frames, NEW c \in Client, NEW t \in Token
  PROVE  \A f \in WithHello(S, c, t) :
            \/ f \in frames
            \/ Owner(f.from) = c /\ f.publickey = myPublickey[c]
BY TokenOfNow DEF WithHello, Travels

\* Nor another name for a client that has only had one.
LEMMA OneFaceStep == GInv /\ [Next]_vars => OneFace'
<1> SUFFICES ASSUME GInv, [Next]_vars PROVE OneFace'
  OBVIOUS
<1>i. TypeOK /\ OneFace
  BY DEF GInv, IInv
<1>1. ASSUME NEW c \in Client, Connect(c) PROVE OneFace'
  <2>1. /\ up' = [up EXCEPT ![c] = TRUE] /\ conns' = [conns EXCEPT ![c] = @ + 1]
        /\ ~up[c] /\ conns[c] < MaxConns[c]
        /\ UNCHANGED <<tokenPubkeys, frames, identified, myPublickey, fresh>>
    BY <1>1 DEF Connect
  <2>2. MyToken(c)' \in Token /\ MyToken(c)' \notin Seen
    <3>1. MyToken(c)' = <<c, conns[c] + 1>> /\ conns[c] \in Nat /\ MaxConns[c] \in Nat
      BY <1>i, <2>1, IdentityAssumption DEF MyToken, TypeOK
    <3>2. <<c, conns[c] + 1>> \in {c} \X (1 .. MaxConns[c])
      BY <2>1, <3>1
    <3>3. <<c, conns[c] + 1>> \in Token
      BY <3>2 DEF Token
    <3> QED
      BY <3>1, <3>3 DEF Seen, Owner
  <2>3. \A d \in Client : tokenPubkeys[d][MyToken(c)'] = Nobody
    BY <2>2 DEF GInv, TokensAreOfNow
  <2>4. \A d \in Client : d # c => MyToken(d)' = MyToken(d) /\ up'[d] = up[d]
    BY <1>i, <2>1 DEF MyToken, TypeOK
  <2> QED
    BY <1>i, <2>1, <2>3, <2>4 DEF OneFace, TypeOK
<1>2. ASSUME NEW c \in Client, Drop(c) \/ Restart(c) PROVE OneFace'
  <2>1. /\ up' = [up EXCEPT ![c] = FALSE] /\ identified' = [identified EXCEPT ![c] = FALSE]
        /\ frames' = {f \in frames : Owner(f.from) # c /\ Owner(f.to) # c}
        /\ UNCHANGED conns
    BY <1>2 DEF Drop, Restart, Disconnected
  <2>2. \A d \in Client : d # c =>
           /\ fresh'[d] = fresh[d] /\ myPublickey'[d] = myPublickey[d]
           /\ up'[d] = up[d] /\ identified'[d] = identified[d] /\ MyToken(d)' = MyToken(d)
    BY <1>2, <1>i, <2>1 DEF Drop, Restart, TypeOK, MyToken
  <2>3. \A d \in Client, t \in Token : tokenPubkeys'[d][t] \in {Nobody, tokenPubkeys[d][t]}
    BY <1>2, <1>i DEF Drop, Restart, TypeOK
  <2>4. fresh'[c] => myPublickey'[c] = Nobody
    BY <1>2, <1>i DEF Drop, Restart, TypeOK
  <2>5. \A d \in Client : up[d] => MyToken(d) \in Token
    BY TokenOfNow
  <2>6. up'[c] = FALSE
    BY <1>i, <2>1 DEF TypeOK
  <2> SUFFICES ASSUME NEW d \in Client, fresh'[d]
               PROVE  /\ myPublickey'[d] # Nobody => up'[d] /\ identified'[d]
                      /\ \A f \in frames' : Owner(f.from) = d => f.publickey = myPublickey'[d]
                      /\ up'[d] => \A e \in Client :
                           tokenPubkeys'[e][MyToken(d)'] \in {Nobody, myPublickey'[d]}
    BY DEF OneFace
  <2>7. CASE d = c
    BY <2>1, <2>4, <2>6, <2>7
  <2>8. CASE d # c
    BY <1>i, <2>1, <2>2, <2>3, <2>5, <2>8 DEF OneFace
  <2> QED
    BY <2>7, <2>8
<1>3. ASSUME NEW c \in Client, NEW pk \in Pubkey, Identify(c, pk) PROVE OneFace'
  <2>1. /\ identified' = [identified EXCEPT ![c] = TRUE]
        /\ myPublickey' = [myPublickey EXCEPT ![c] = pk]
        /\ fresh' = [fresh EXCEPT ![c] = @ /\ myPublickey[c] \in {Nobody, pk}]
        /\ up[c] /\ UNCHANGED <<conns, up, tokenPubkeys, frames>>
    BY <1>3 DEF Identify
  <2>2. \A f \in frames : f.publickey # Nobody
    BY <1>i, IdentityAssumption DEF TypeOK, Hello
  <2>3. \A d \in Client : MyToken(d)' = MyToken(d)
    BY <2>1 DEF MyToken
  <2> SUFFICES ASSUME NEW d \in Client, fresh'[d]
               PROVE  /\ myPublickey'[d] # Nobody => up'[d] /\ identified'[d]
                      /\ \A f \in frames' : Owner(f.from) = d => f.publickey = myPublickey'[d]
                      /\ up'[d] => \A e \in Client :
                           tokenPubkeys'[e][MyToken(d)'] \in {Nobody, myPublickey'[d]}
    BY DEF OneFace
  <2>7. CASE d = c
    <3>1. fresh[c] /\ myPublickey[c] \in {Nobody, pk} /\ myPublickey'[c] = pk /\ identified'[c]
      BY <1>i, <2>1, <2>7 DEF TypeOK
    <3> QED
      BY <1>i, <2>1, <2>2, <2>3, <2>7, <3>1 DEF OneFace
  <2>8. CASE d # c
    <3>1. fresh[d] /\ myPublickey'[d] = myPublickey[d] /\ identified'[d] = identified[d]
      BY <1>i, <2>1, <2>8 DEF TypeOK
    <3> QED
      BY <1>i, <2>1, <2>3, <3>1 DEF OneFace
  <2> QED
    BY <2>7, <2>8
<1>4. ASSUME NEW c \in Client, fresh'[c] = FALSE, fresh' = [fresh EXCEPT ![c] = FALSE],
             \A d \in Client : d # c => myPublickey'[d] = myPublickey[d],
             \A d \in Client, t \in Token : tokenPubkeys'[d][t] \in {Nobody, tokenPubkeys[d][t]},
             UNCHANGED <<conns, up, identified, frames>>
      PROVE  OneFace'
  <2>1. \A d \in Client : fresh'[d] => d # c /\ fresh[d]
    BY <1>4, <1>i DEF TypeOK
  <2>2. \A d \in Client : MyToken(d)' = MyToken(d)
    BY <1>4 DEF MyToken
  <2> QED
    BY <1>4, <1>i, <2>1, <2>2, TokenOfNow DEF OneFace
<1>5. ASSUME UNCHANGED <<connVars, myPublickey>>,
             \A f \in frames' : f \in frames
                \/ (\E c \in Client : Owner(f.from) = c /\ f.publickey = myPublickey[c]),
             \A d \in Client, t \in Token :
                \/ tokenPubkeys'[d][t] \in {Nobody, tokenPubkeys[d][t]}
                \/ \E f \in frames : f.from = t /\ f.publickey = tokenPubkeys'[d][t]
      PROVE  OneFace'
  <2>1. \A d \in Client : MyToken(d)' = MyToken(d)
    BY <1>5 DEF MyToken, connVars
  <2> QED
    BY <1>5, <1>i, <2>1, TokenOfNow DEF OneFace, connVars
<1>6. ASSUME NEW c \in Client, NEW pk \in Pubkey, IdentifyRefused(c, pk) PROVE OneFace'
  BY <1>4, <1>6, <1>i DEF IdentifyRefused, TypeOK
<1>7. ASSUME NEW c \in Client, NEW t \in Token, Greet(c, t) \/ WhoIs(c, t) PROVE OneFace'
  <2>1. frames' = WithHello(frames, c, t) /\ UNCHANGED <<connVars, myPublickey, tokenPubkeys>>
    BY <1>7 DEF Greet, WhoIs, HelloTo
  <2> QED
    BY <1>5, <2>1, SendsOwn
<1>8. ASSUME NEW c \in Client, NEW f \in frames, OnHello(c, f) PROVE OneFace'
  <2>1. f.from \in Token
    BY <1>i DEF TypeOK, Hello
  <2>2. \A g \in frames' : g \in frames
                \/ (\E d \in Client : Owner(g.from) = d /\ g.publickey = myPublickey[d])
    BY <1>8, <2>1, SendsOwn DEF OnHello
  <2>3. \A d \in Client, t \in Token :
           \/ tokenPubkeys'[d][t] = tokenPubkeys[d][t]
           \/ f.from = t /\ f.publickey = tokenPubkeys'[d][t]
    BY <1>8, <1>i, <2>1 DEF OnHello, TypeOK
  <2> QED
    BY <1>5, <1>8, <2>2, <2>3 DEF OnHello
<1>9. ASSUME NEW c \in Client, NEW t \in Token, ForgetsToken(c, t)
      PROVE  \A d \in Client, u \in Token : tokenPubkeys'[d][u] \in {Nobody, tokenPubkeys[d][u]}
  BY <1>9, <1>i DEF ForgetsToken, TypeOK
<1>10. ASSUME NEW c \in Client, NEW t \in Token, ForgetToken(c, t) PROVE OneFace'
  BY <1>4, <1>9, <1>10, <1>i DEF ForgetToken, TypeOK
<1>11. ASSUME NEW c \in Client, NEW t \in Token, PeerGone(c, t) PROVE OneFace'
  BY <1>5, <1>9, <1>11 DEF PeerGone
<1>12. CASE UNCHANGED <<connVars, myPublickey, tokenPubkeys, frames>>
  BY <1>5, <1>12
<1>13. ASSUME NEW c \in Client, NEW t \in Token, WhoIsTimesOut(c, t) PROVE OneFace'
  BY <1>12, <1>13 DEF WhoIsTimesOut
<1>14. CASE UNCHANGED vars
  BY <1>12, <1>14 DEF vars, connVars
<1> QED
  BY <1>1, <1>2, <1>3, <1>6, <1>7, <1>8, <1>10, <1>11, <1>13, <1>14
     DEF Next, Connections, Asks, Hears

\* A greeting that travels is on its way.
LEMMA TravelsSends ==
  ASSUME NEW S, NEW c, NEW t, Travels(c, t)
  PROVE  \E f \in WithHello(S, c, t) : f.from = MyToken(c) /\ f.to = t
<1> DEFINE hello == [from |-> MyToken(c), to |-> t, publickey |-> myPublickey[c]]
<1>1. hello \in WithHello(S, c, t)
  BY DEF WithHello
<1>2. hello.from = MyToken(c) /\ hello.to = t
  OBVIOUS
<1> QED
  BY <1>1, <1>2

\* What greeting somebody leaves on its way.
LEMMA GreetingTravels ==
  ASSUME GInv, NEW S \in SUBSET frames, NEW c \in Client, NEW d \in Client,
         fresh[c], myPublickey[c] # Nobody, up[d]
  PROVE  \E f \in WithHello(S, c, MyToken(d)) : f.from = MyToken(c) /\ f.to = MyToken(d)
<1>1. Travels(c, MyToken(d))
  BY TokenOfNow DEF Travels, GInv, OneFace
<1> QED
  BY <1>1, TravelsSends

\* To greet takes nothing off its way.
LEMMA StaysOnTheWay ==
  ASSUME NEW S, NEW c, NEW t
  PROVE  S \subseteq WithHello(S, c, t)
BY DEF WithHello

\* A greeting that arrives leaves the others on their way.
LEMMA OthersStayOnTheWay ==
  ASSUME GInv, NEW x \in Client, NEW f \in frames, OnHello(x, f)
  PROVE  /\ frames \ {f} \subseteq frames'
         /\ \A d \in Client, t \in Token : tokenPubkeys[d][t] # Nobody => tokenPubkeys'[d][t] # Nobody
         /\ tokenPubkeys'[x][f.from] # Nobody
         /\ \A d \in Client : helloSent[d] \subseteq helloSent'[d]
         /\ f.from \in Token /\ f.to \in Token /\ x = Owner(f.to)
<1>1. /\ f.from \in Token /\ f.to \in Token /\ f.publickey \in Pubkey
      /\ tokenPubkeys \in [Client -> [Token -> Pubkey \cup {Nobody}]]
      /\ helloSent \in [Client -> SUBSET Token]
  BY DEF GInv, IInv, TypeOK, Hello
<1>2. Nobody \notin Pubkey
  BY IdentityAssumption
<1>3. frames \ {f} \subseteq frames'
  BY DEF OnHello, WithHello
<1>4. \/ tokenPubkeys' = tokenPubkeys /\ tokenPubkeys[x][f.from] # Nobody
      \/ tokenPubkeys' = [tokenPubkeys EXCEPT ![x][f.from] = f.publickey]
  BY DEF OnHello, Conflicts
<1>5. helloSent' = helloSent \/ helloSent' = [helloSent EXCEPT ![x] = @ \cup {f.from}]
  BY DEF OnHello
<1> QED
  BY <1>1, <1>2, <1>3, <1>4, <1>5 DEF OnHello

\* A greeting of such clients stays on its way until it is known.
LEMMA ArrivesStep == GInv /\ [Next]_vars => GreetingArrives'
<1> SUFFICES ASSUME GInv, [Next]_vars PROVE GreetingArrives'
  OBVIOUS
<1>i. TypeOK /\ GreetingArrives
  BY DEF GInv, IInv
<1> DEFINE Arrives(a, b) == a # b /\ fresh[a] /\ fresh[b] /\ up[b] /\ HasGreeted(a, b)
                              => OnTheWay(a, b) \/ Knows(b, a)
<1>0. \A a, b \in Client : Arrives(a, b)
  BY <1>i DEF GreetingArrives
<1>g. \A a \in Client : fresh[a] /\ helloSent[a] # {} =>
        up[a] /\ myPublickey[a] # Nobody /\ MyToken(a) \in Token
  BY <1>i, TokenOfNow DEF TypeOK, GInv, OneFace
<1>1. ASSUME NEW c \in Client, Connect(c) PROVE GreetingArrives'
  <2>1. /\ up' = [up EXCEPT ![c] = TRUE] /\ conns' = [conns EXCEPT ![c] = @ + 1]
        /\ ~up[c] /\ UNCHANGED <<tokenPubkeys, helloSent, frames, fresh>>
    BY <1>1 DEF Connect
  <2>2. \A a \in Client : ~HasGreeted(a, c)'
    <3>1. MyToken(c)' \notin Seen
      BY <1>i, <2>1 DEF MyToken, Seen, Owner, TypeOK
    <3> QED
      BY <1>i, <2>1, <3>1 DEF HasGreeted, GInv, TokensAreOfNow, TypeOK
  <2>3. \A a \in Client : a # c => MyToken(a)' = MyToken(a) /\ up'[a] = up[a]
    BY <1>i, <2>1 DEF MyToken, TypeOK
  <2>4. ASSUME NEW a \in Client, NEW b \in Client, b # c PROVE Arrives(a, b)'
    BY <1>0, <1>g, <2>1, <2>3, <2>4 DEF HasGreeted, OnTheWay, Knows
  <2> QED
    BY <2>2, <2>4 DEF GreetingArrives
<1>2. ASSUME NEW c \in Client, Drop(c) \/ Restart(c) PROVE GreetingArrives'
  <2>1. /\ up' = [up EXCEPT ![c] = FALSE]
        /\ frames' = {f \in frames : Owner(f.from) # c /\ Owner(f.to) # c}
        /\ UNCHANGED conns
    BY <1>2 DEF Drop, Restart, Disconnected
  <2>2. \A d \in Client : d # c =>
           /\ fresh'[d] = fresh[d] /\ up'[d] = up[d]
           /\ helloSent'[d] = helloSent[d] /\ tokenPubkeys'[d] = tokenPubkeys[d]
    BY <1>2, <1>i, <2>1 DEF Drop, Restart, TypeOK
  <2>3. ~up'[c] /\ (fresh'[c] => helloSent'[c] = {})
    BY <1>2, <1>i, <2>1 DEF Drop, Restart, TypeOK
  <2>4. \A d \in Client : MyToken(d)' = MyToken(d) /\ Owner(MyToken(d)) = d
    BY <2>1 DEF MyToken, Owner
  <2>5. ASSUME NEW a \in Client, NEW b \in Client, a # c, b # c PROVE Arrives(a, b)'
    BY <1>0, <2>1, <2>2, <2>4, <2>5 DEF HasGreeted, OnTheWay, Knows
  <2>6. ASSUME NEW a \in Client, NEW b \in Client, a = c \/ b = c PROVE Arrives(a, b)'
    BY <2>3, <2>6 DEF HasGreeted
  <2> QED
    BY <2>5, <2>6 DEF GreetingArrives
<1>3. ASSUME UNCHANGED <<conns, up, tokenPubkeys, helloSent, frames>>,
             \A a \in Client : fresh'[a] => fresh[a]
      PROVE  GreetingArrives'
  BY <1>3, <1>0 DEF GreetingArrives, HasGreeted, OnTheWay, Knows, MyToken
<1>4. ASSUME NEW c \in Client, NEW t \in Token, Greet(c, t) \/ WhoIs(c, t)
      PROVE  GreetingArrives'
  <2>1. /\ helloSent' = [helloSent EXCEPT ![c] = @ \cup {t}] /\ frames' = WithHello(frames, c, t)
        /\ myPublickey[c] # Nobody
        /\ UNCHANGED <<connVars, tokenPubkeys>>
    BY <1>4 DEF Greet, WhoIs, HelloTo
  <2>2. \A a \in Client : MyToken(a)' = MyToken(a)
    BY <2>1 DEF MyToken, connVars
  <2>3. frames \subseteq frames'
    BY <2>1, StaysOnTheWay
  <2>4. ASSUME NEW a \in Client, NEW b \in Client PROVE Arrives(a, b)'
    <3>1. CASE a = c /\ MyToken(b) = t
      BY <2>1, <2>2, <3>1, GreetingTravels DEF connVars, OnTheWay
    <3>2. CASE ~(a = c /\ MyToken(b) = t)
      <4>1. HasGreeted(a, b)' => HasGreeted(a, b)
        BY <1>i, <2>1, <2>2, <3>2 DEF HasGreeted, TypeOK
      <4> QED
        BY <1>0, <2>1, <2>2, <2>3, <4>1 DEF connVars, OnTheWay, Knows
    <3> QED
      BY <3>1, <3>2
  <2> QED
    BY <2>4 DEF GreetingArrives
<1>5. ASSUME NEW c \in Client, NEW f \in frames, OnHello(c, f) PROVE GreetingArrives'
  <2>1. /\ frames \ {f} \subseteq frames'
        /\ \A d \in Client, t \in Token : tokenPubkeys[d][t] # Nobody => tokenPubkeys'[d][t] # Nobody
        /\ tokenPubkeys'[c][f.from] # Nobody
        /\ f.from \in Token /\ f.to \in Token /\ c = Owner(f.to)
    BY <1>5, OthersStayOnTheWay
  <2>2. UNCHANGED <<connVars, myPublickey>>
    BY <1>5 DEF OnHello
  <2>3. \A a \in Client : MyToken(a)' = MyToken(a)
    BY <2>2 DEF MyToken, connVars
  <2>4. ASSUME NEW a \in Client, NEW b \in Client PROVE Arrives(a, b)'
    <3> SUFFICES ASSUME a # b, fresh[a], fresh[b], up[b], HasGreeted(a, b)'
                 PROVE  OnTheWay(a, b)' \/ Knows(b, a)'
      BY <2>2 DEF connVars
    <3>1. CASE HasGreeted(a, b)
      <4>1. MyToken(a) \in Token
        BY <1>g, <3>1 DEF HasGreeted
      <4>2. CASE Knows(b, a)
        BY <2>1, <2>3, <4>1, <4>2 DEF Knows
      <4>3. CASE \E g \in frames : g # f /\ g.from = MyToken(a) /\ g.to = MyToken(b)
        BY <2>1, <2>3, <4>3 DEF OnTheWay
      <4>4. CASE f.from = MyToken(a) /\ f.to = MyToken(b)
        BY <2>1, <2>3, <4>4 DEF Knows, MyToken, Owner
      <4> QED
        BY <1>0, <3>1, <4>2, <4>3, <4>4 DEF OnTheWay
    <3>2. CASE ~HasGreeted(a, b)
      <4>1. /\ a = c /\ MyToken(b) = f.from /\ myPublickey[c] # Nobody
            /\ frames' = WithHello(frames \ {f}, c, f.from)
        BY <1>5, <1>i, <2>1, <2>3, <3>2 DEF OnHello, HasGreeted, Answers, TypeOK
      <4> QED
        BY <2>3, <4>1, GreetingTravels DEF OnTheWay
    <3> QED
      BY <3>1, <3>2
  <2> QED
    BY <2>4 DEF GreetingArrives
<1>6. ASSUME NEW c \in Client, NEW t \in Token, ForgetToken(c, t) PROVE GreetingArrives'
  <2>1. \A d \in Client :
          /\ fresh'[d] => d # c /\ fresh[d]
          /\ d # c => helloSent'[d] = helloSent[d] /\ tokenPubkeys'[d] = tokenPubkeys[d]
    BY <1>6, <1>i DEF ForgetToken, ForgetsToken, TypeOK
  <2>2. UNCHANGED <<conns, up, frames>>
    BY <1>6 DEF ForgetToken
  <2> QED
    BY <1>0, <2>1, <2>2 DEF GreetingArrives, HasGreeted, OnTheWay, Knows, MyToken
<1>7. ASSUME NEW c \in Client, NEW t \in Token, PeerGone(c, t) PROVE GreetingArrives'
  <2>1. ~IsAlive(t)
    BY <1>7 DEF PeerGone, GInv, TokensAreOfNow
  <2>2. \A d \in Client :
          /\ helloSent'[d] \subseteq helloSent[d]
          /\ \A u \in Token : u # t => tokenPubkeys'[d][u] = tokenPubkeys[d][u]
    BY <1>7, <1>i DEF PeerGone, ForgetsToken, TypeOK
  <2>3. UNCHANGED <<connVars, frames>>
    BY <1>7 DEF PeerGone
  <2>4. ASSUME NEW a \in Client, NEW b \in Client PROVE Arrives(a, b)'
    <3>1. fresh[a] /\ HasGreeted(a, b) => MyToken(a) \in Token /\ MyToken(a) # t
      BY <1>g, <2>1, TokenOfNow DEF HasGreeted
    <3> QED
      BY ZenonT(40), <1>0, <2>2, <2>3, <3>1 DEF HasGreeted, OnTheWay, Knows, MyToken, connVars
  <2> QED
    BY <2>4 DEF GreetingArrives
<1>8. ASSUME NEW c \in Client,
             \/ \E pk \in Pubkey : Identify(c, pk) \/ IdentifyRefused(c, pk)
             \/ \E t \in Token : WhoIsTimesOut(c, t)
      PROVE  GreetingArrives'
  <2>1. \A a \in Client : fresh'[a] => fresh[a]
    BY <1>8, <1>i DEF Identify, IdentifyRefused, WhoIsTimesOut, connVars, TypeOK
  <2> QED
    BY <1>3, <1>8, <2>1 DEF Identify, IdentifyRefused, WhoIsTimesOut, connVars
<1>9. CASE UNCHANGED vars
  BY <1>3, <1>9 DEF vars
<1> QED
  BY <1>1, <1>2, <1>4, <1>5, <1>6, <1>7, <1>8, <1>9 DEF Next, Connections, Asks, Hears

\* And who has met greets, or is being reached.
LEMMA AnsweredStep == GInv /\ [Next]_vars => GreetingAnswered'
<1> SUFFICES ASSUME GInv, [Next]_vars PROVE GreetingAnswered'
  OBVIOUS
<1>i. TypeOK /\ GreetingAnswered /\ MetAreThere
  BY DEF GInv, IInv
<1> DEFINE Answered(a, b) == <<a, b>> \in met /\ fresh[a] /\ fresh[b]
                               => HasGreeted(a, b) /\ (OnTheWay(a, b) \/ HasGreeted(b, a))
<1>0. \A a, b \in Client : Answered(a, b)
  BY <1>i DEF GreetingAnswered
<1>1. ASSUME NEW c \in Client, Connect(c) PROVE GreetingAnswered'
  <2>1. /\ conns' = [conns EXCEPT ![c] = @ + 1]
        /\ ~up[c] /\ UNCHANGED <<helloSent, frames, fresh, met>>
    BY <1>1 DEF Connect
  <2>2. \A a \in Client : a # c => MyToken(a)' = MyToken(a)
    BY <1>i, <2>1 DEF MyToken, TypeOK
  <2>3. ASSUME NEW a \in Client, NEW b \in Client PROVE Answered(a, b)'
    BY <1>0, <1>i, <2>1, <2>2 DEF MetAreThere, HasGreeted, OnTheWay
  <2> QED
    BY <2>3 DEF GreetingAnswered
<1>2. ASSUME NEW c \in Client, Drop(c) \/ Restart(c) PROVE GreetingAnswered'
  <2>1. /\ frames' = {f \in frames : Owner(f.from) # c /\ Owner(f.to) # c}
        /\ \A a, b \in Client : <<a, b>> \in met' => <<a, b>> \in met /\ a # c /\ b # c
        /\ UNCHANGED conns
    BY <1>2 DEF Drop, Restart, Disconnected
  <2>2. \A d \in Client : d # c => fresh'[d] = fresh[d] /\ helloSent'[d] = helloSent[d]
    BY <1>2, <1>i, <2>1 DEF Drop, Restart, TypeOK
  <2>3. \A d \in Client : MyToken(d)' = MyToken(d) /\ Owner(MyToken(d)) = d
    BY <2>1 DEF MyToken, Owner
  <2>4. ASSUME NEW a \in Client, NEW b \in Client PROVE Answered(a, b)'
    BY <1>0, <2>1, <2>2, <2>3 DEF HasGreeted, OnTheWay
  <2> QED
    BY <2>4 DEF GreetingAnswered
<1>3. ASSUME UNCHANGED <<conns, helloSent, frames, met>>,
             \A a \in Client : fresh'[a] => fresh[a]
      PROVE  GreetingAnswered'
  BY <1>3, <1>0 DEF GreetingAnswered, HasGreeted, OnTheWay, MyToken
<1>4. ASSUME NEW c \in Client, NEW t \in Token, Greet(c, t) \/ WhoIs(c, t)
      PROVE  GreetingAnswered'
  <2>1. /\ helloSent' = [helloSent EXCEPT ![c] = @ \cup {t}] /\ frames' = WithHello(frames, c, t)
        /\ UNCHANGED connVars
    BY <1>4 DEF Greet, WhoIs, HelloTo
  <2>2. \A a \in Client : MyToken(a)' = MyToken(a) /\ helloSent[a] \subseteq helloSent'[a]
    BY <1>i, <2>1 DEF MyToken, connVars, TypeOK
  <2>3. frames \subseteq frames'
    BY <2>1, StaysOnTheWay
  <2>4. ASSUME NEW a \in Client, NEW b \in Client PROVE Answered(a, b)'
    <3>1. CASE <<a, b>> \in met
      BY <1>0, <2>1, <2>2, <2>3, <3>1 DEF HasGreeted, OnTheWay, connVars
    <3>2. CASE <<a, b>> \in met' /\ <<a, b>> \notin met
      <4>1. a = c /\ b = Owner(t) /\ Travels(c, t)
        BY <1>4, <3>2 DEF Greet, WhoIs, HelloTo
      <4>2. t = MyToken(b) /\ t \in helloSent'[c]
        BY <1>i, <2>1, <4>1 DEF Travels, IsAlive, TypeOK
      <4>3. \E f \in frames' : f.from = MyToken(c) /\ f.to = t
        BY <2>1, <4>1, TravelsSends
      <4> QED
        BY <2>2, <4>1, <4>2, <4>3 DEF HasGreeted, OnTheWay
    <3> QED
      BY <3>1, <3>2
  <2> QED
    BY <2>4 DEF GreetingAnswered
<1>5. ASSUME NEW c \in Client, NEW f \in frames, OnHello(c, f) PROVE GreetingAnswered'
  <2>1. /\ frames \ {f} \subseteq frames'
        /\ \A d \in Client : helloSent[d] \subseteq helloSent'[d]
        /\ f.from \in Token /\ f.to \in Token /\ c = Owner(f.to)
    BY <1>5, OthersStayOnTheWay
  <2>2. UNCHANGED <<connVars, myPublickey, met>>
    BY <1>5 DEF OnHello
  <2>3. \A a \in Client : MyToken(a)' = MyToken(a)
    BY <2>2 DEF MyToken, connVars
  <2>4. ASSUME NEW a \in Client, NEW b \in Client PROVE Answered(a, b)'
    <3> SUFFICES ASSUME <<a, b>> \in met, fresh[a], fresh[b]
                 PROVE  HasGreeted(a, b)' /\ (OnTheWay(a, b)' \/ HasGreeted(b, a)')
      BY <2>2 DEF connVars
    <3>1. HasGreeted(a, b)'
      BY <1>0, <2>1, <2>3 DEF HasGreeted
    <3>2. CASE HasGreeted(b, a)
      BY <2>1, <2>3, <3>1, <3>2 DEF HasGreeted
    <3>3. CASE \E g \in frames : g # f /\ g.from = MyToken(a) /\ g.to = MyToken(b)
      BY <2>1, <2>3, <3>1, <3>3 DEF OnTheWay
    <3>4. CASE f.from = MyToken(a) /\ f.to = MyToken(b)
      <4>1. c = b /\ up[a] /\ identified[b]
        BY <1>i, <2>1, <3>4 DEF MyToken, Owner, MetAreThere
      <4>2. Owner(f.from) = a
        BY <3>4 DEF MyToken, Owner
      <4>3. ~Conflicts(c, f)
        BY <3>4, <4>1, <4>2 DEF Conflicts, GInv, OneFace
      <4>4. myPublickey[c] # Nobody
        BY <4>1, IdentityAssumption DEF GInv, IInv, Greetable
      <4>5. f.from \in helloSent'[c]
        BY <1>5, <1>i, <4>3, <4>4 DEF OnHello, Answers, TypeOK
      <4> QED
        BY <2>3, <3>1, <3>4, <4>1, <4>5 DEF HasGreeted
    <3> QED
      BY <1>0, <3>2, <3>3, <3>4 DEF OnTheWay
  <2> QED
    BY <2>4 DEF GreetingAnswered
<1>6. ASSUME NEW c \in Client, NEW t \in Token, ForgetToken(c, t) PROVE GreetingAnswered'
  <2>1. \A d \in Client :
          /\ fresh'[d] => d # c /\ fresh[d]
          /\ d # c => helloSent'[d] = helloSent[d]
    BY <1>6, <1>i DEF ForgetToken, ForgetsToken, TypeOK
  <2>2. UNCHANGED <<conns, frames, met>>
    BY <1>6 DEF ForgetToken
  <2> QED
    BY <1>0, <2>1, <2>2 DEF GreetingAnswered, HasGreeted, OnTheWay, MyToken
<1>7. ASSUME NEW c \in Client, NEW t \in Token, PeerGone(c, t) PROVE GreetingAnswered'
  <2>1. ~IsAlive(t)
    BY <1>7 DEF PeerGone, GInv, TokensAreOfNow
  <2>2. \A d \in Client, u \in Token : u # t /\ u \in helloSent[d] => u \in helloSent'[d]
    BY <1>7, <1>i DEF PeerGone, ForgetsToken, TypeOK
  <2>3. UNCHANGED <<connVars, frames, met>>
    BY <1>7 DEF PeerGone
  <2>4. \A a, b \in Client : <<a, b>> \in met =>
          MyToken(a) \in Token /\ MyToken(a) # t /\ MyToken(b) \in Token /\ MyToken(b) # t
    BY <1>i, <2>1, TokenOfNow DEF MetAreThere
  <2> QED
    BY <1>0, <2>2, <2>3, <2>4 DEF GreetingAnswered, HasGreeted, OnTheWay, MyToken, connVars
<1>8. ASSUME NEW c \in Client,
             \/ \E pk \in Pubkey : Identify(c, pk) \/ IdentifyRefused(c, pk)
             \/ \E t \in Token : WhoIsTimesOut(c, t)
      PROVE  GreetingAnswered'
  <2>1. \A a \in Client : fresh'[a] => fresh[a]
    BY <1>8, <1>i DEF Identify, IdentifyRefused, WhoIsTimesOut, connVars, TypeOK
  <2> QED
    BY <1>3, <1>8, <2>1 DEF Identify, IdentifyRefused, WhoIsTimesOut, connVars
<1>9. CASE UNCHANGED vars
  BY <1>3, <1>9 DEF vars
<1> QED
  BY <1>1, <1>2, <1>4, <1>5, <1>6, <1>7, <1>8, <1>9 DEF Next, Connections, Asks, Hears

\* Together they always hold.
LEMMA GInvHolds == Spec => []GInv
<1>1. GInv /\ [Next]_vars => GInv'
  BY InvStep, TokensStep, MetStep, OneFaceStep, ArrivesStep, AnsweredStep DEF GInv
<1> QED
  BY <1>1, GreetingInit, PTL DEF Spec

\* It is enough that one of the two ends greets.
THEOREM OneGreetingSufficesHolds == Spec => []OneGreetingSuffices
<1>1. ASSUME GInv PROVE OneGreetingSuffices
  <2> SUFFICES ASSUME NEW c \in Client, NEW d \in Client, <<c, d>> \in met, fresh[c], fresh[d],
                      ~Between(c, d)
               PROVE  Knows(c, d) /\ Knows(d, c)
    BY DEF OneGreetingSuffices
  <2>1. ~OnTheWay(c, d) /\ ~OnTheWay(d, c)
    BY DEF OnTheWay, Between, MyToken, Owner
  <2>2. HasGreeted(c, d) /\ HasGreeted(d, c) /\ c # d /\ up[c] /\ up[d]
    BY <1>1, <2>1 DEF GInv, GreetingAnswered, MetAreThere
  <2> QED
    BY <1>1, <2>1, <2>2 DEF GInv, GreetingArrives
<1> QED
  BY <1>1, GInvHolds, PTL
=============================================================================
