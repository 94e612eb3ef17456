----------------------- MODULE DirectedDelivery_proofs -----------------------
(* Proofs about DirectedDelivery: for any messages, pieces and connections, a *)
(* piece that left is in one place, and in none it does not fit in; and about *)
(* the Reassembler of the recipient, for any senders, ids and limits.         *)
EXTENDS DirectedDelivery, MessageParts, FiniteSetTheorems, TLAPS

\* Only tokens have direct channels.
ChannelTags == \A c \in copies : c.place = "channel" => c.tag \in Token

\* A call sends its pieces in order, once, and has checked what it may address.
Calls ==
  \A m \in Msg :
    /\ state[m] = "idle" => cursor[m] = 0 /\ target[m] = ByPubkey
    /\ state[m] = "sending" => cursor[m] < Pieces[m]
    /\ state[m] # "idle" /\ target[m] = ByPubkey => Fits[m] = "queue"

\* Nothing is in two places.
OneCopy == \A c, d \in copies : c.piece = d.piece => c = d

IsHere(p) == \E c \in copies : c.piece = p

\* What is somewhere or lost has left and is not with the app, not even with the
\* rest of its message; what has left is somewhere, lost, or with the
\* app, which has nothing else.
Accounted ==
  \A p \in Piece :
    /\ IsHere(p) => Sent(p) /\ lost[p] = "no" /\ delivered[p[1]] = 0
    /\ lost[p] # "no" => Sent(p) /\ delivered[p[1]] = 0
    /\ delivered[p[1]] > 0 => Sent(p)
    /\ Sent(p) => IsHere(p) \/ lost[p] # "no" \/ delivered[p[1]] > 0

DeliveredOnce == \A m \in Msg : delivered[m] \in {0, 1}

Places == OneCopy /\ Accounted /\ DeliveredOnce

IInv == TypeOK /\ ChannelTags /\ Calls /\ Places /\ WithinLimits

-----------------------------------------------------------------------------
(* Pieces and copies *)

\* A piece is a message and a number.
LEMMA PieceIs ==
  ASSUME NEW p
  PROVE  p \in Piece <=> \E m \in Msg : \E i \in 1 .. Pieces[m] : p = <<m, i>>
  BY DEF Piece

\* Its parts.
LEMMA PieceParts ==
  ASSUME NEW p \in Piece
  PROVE  p[1] \in Msg /\ p[2] \in 1 .. Pieces[p[1]] /\ p = <<p[1], p[2]>>
<1>1. PICK m \in Msg : \E i \in 1 .. Pieces[m] : p = <<m, i>>
  BY PieceIs
<1> QED
  BY <1>1

\* What is made for a piece is a copy of it.
LEMMA MadeIs ==
  ASSUME NEW p \in Piece, NEW place \in Place, NEW tag \in Nat
  PROVE  /\ Made(p, place, tag) \in Copy
         /\ Made(p, place, tag).piece = p
         /\ Made(p, place, tag).place = place
         /\ Made(p, place, tag).tag = tag
  BY DEF Made, Copy

\* Where a piece is, moved, it is alone.
LEMMA MoveKeeps ==
  ASSUME TypeOK, Places, NEW c \in copies, NEW place \in Place, NEW tag \in Nat,
         Move(c, place, tag), UNCHANGED <<cursor, delivered, lost>>
  PROVE  Places'
<1> DEFINE new == Made(c.piece, place, tag)
<1>1. c.piece \in Piece
  BY DEF TypeOK, Copy
<1>2. new.piece = c.piece
  BY <1>1, MadeIs
<1>3. copies' = (copies \ {c}) \cup {new}
  BY DEF Move
<1> HIDE DEF new
<1>4. OneCopy'
  BY <1>2, <1>3 DEF Places, OneCopy
<1>5. \A p : IsHere(p)' <=> IsHere(p)
  BY <1>2, <1>3 DEF IsHere
<1>6. Accounted' /\ DeliveredOnce'
  BY <1>5 DEF Places, Accounted, DeliveredOnce, Sent
<1> QED
  BY <1>4, <1>6 DEF Places

\* What is lost is nowhere.
LEMMA LoseKeeps ==
  ASSUME TypeOK, Places, NEW gone \in SUBSET copies, NEW fate, fate # "no",
         Lose(gone, fate), UNCHANGED <<cursor, delivered>>
  PROVE  Places'
<1>1. copies' = copies \ gone
  BY DEF Lose
<1>2. \A p \in Piece : lost'[p] = IF \E c \in gone : c.piece = p THEN fate ELSE lost[p]
  BY DEF Lose, Losing
<1>3. OneCopy'
  BY <1>1 DEF Places, OneCopy
<1>4. \A p \in Piece : IsHere(p)' <=> IsHere(p) /\ ~\E c \in gone : c.piece = p
  BY <1>1 DEF IsHere, Places, OneCopy
<1>5. \A p \in Piece : (\E c \in gone : c.piece = p) => IsHere(p)
  BY DEF IsHere
<1>6. Accounted'
  BY <1>2, <1>4, <1>5 DEF Places, Accounted, Sent
<1> QED
  BY <1>3, <1>6 DEF Places, DeliveredOnce

\* Types of what is lost.
LEMMA LoseType ==
  ASSUME TypeOK, NEW gone, NEW fate \in Fate, Lose(gone, fate)
  PROVE  copies' \subseteq copies /\ lost' \in [Piece -> Fate]
  BY DEF Lose, Losing, TypeOK

\* Types of what is moved.
LEMMA MoveType ==
  ASSUME TypeOK, NEW c \in copies, NEW place \in Place, NEW tag \in Nat, Move(c, place, tag)
  PROVE  copies' \subseteq Copy
<1>1. c.piece \in Piece
  BY DEF TypeOK, Copy
<1> QED
  BY <1>1, MadeIs DEF Move, TypeOK

\* All the numbers but one.
LEMMA AllButOne ==
  ASSUME NEW n \in Nat \ {0}, NEW i \in 1 .. n
  PROVE  IsFiniteSet((1 .. n) \ {i}) /\ Cardinality((1 .. n) \ {i}) = n - 1
<1>1. n \in Int /\ 1 \in Int
  OBVIOUS
<1>2. IsFiniteSet(1 .. n) /\ Cardinality(1 .. n) = IF 1 > n THEN 0 ELSE n - 1 + 1
  BY <1>1, FS_Interval, Zenon
<1>3. Cardinality(1 .. n) = n
  BY <1>2
<1>4. /\ IsFiniteSet((1 .. n) \ {i})
      /\ Cardinality((1 .. n) \ {i}) = IF i \in 1 .. n THEN Cardinality(1 .. n) - 1
                                     ELSE Cardinality(1 .. n)
  BY <1>2, FS_RemoveElement, Zenon
<1> QED
  BY <1>3, <1>4

\* The pieces that wait with the same name are of different numbers; together with
\* one more, as many as the message has are all the message has.
LEMMA Complete ==
  ASSUME DeliveryAssumption, TypeOK, Places, NEW c \in copies, NEW held \in SUBSET copies,
         c \notin held, \A d \in held : d.piece[1] = c.piece[1],
         Cardinality(held) + 1 = Pieces[c.piece[1]]
  PROVE  \A p \in Piece : p[1] = c.piece[1] => \E d \in held \cup {c} : d.piece = p
<1> DEFINE m == c.piece[1]
           T == (1 .. Pieces[m]) \ {c.piece[2]}
           f == [d \in held |-> d.piece[2]]
<1>1. \A d \in copies : d.piece \in Piece /\ d.piece[1] \in Msg
                        /\ d.piece[2] \in 1 .. Pieces[d.piece[1]]
                        /\ d.piece = <<d.piece[1], d.piece[2]>>
  BY PieceParts DEF TypeOK, Copy
<1>2. Pieces[m] \in Nat \ {0}
  BY <1>1 DEF DeliveryAssumption
<1>3. IsFiniteSet(T) /\ Cardinality(T) = Pieces[m] - 1
  BY <1>1, <1>2, AllButOne
<1>4. \A d \in held : d.piece[2] \in T
  BY <1>1 DEF Places, OneCopy
<1>5. \A d, e \in held : d.piece[2] = e.piece[2] => d = e
  BY <1>1 DEF Places, OneCopy
<1>6. f \in Injection(held, T)
  BY <1>4, <1>5 DEF Injection, IsInjective
<1>7. IsFiniteSet(held) /\ (Cardinality(held) = Cardinality(T) <=> f \in Surjection(held, T))
  BY <1>3, <1>6, FS_Injection
<1>8. Cardinality(held) \in Nat
  BY <1>7, FS_CardinalityType
<1>9. f \in Surjection(held, T)
  BY <1>2, <1>3, <1>7, <1>8
<1>10. \A i \in T : \E d \in held : d.piece[2] = i
  BY <1>9 DEF Surjection
<1>11. SUFFICES ASSUME NEW p \in Piece, p[1] = m PROVE \E d \in held \cup {c} : d.piece = p
  OBVIOUS
<1>12. p[2] \in 1 .. Pieces[m] /\ p = <<m, p[2]>>
  BY <1>11, PieceParts
<1>13. CASE p[2] = c.piece[2]
  BY <1>1, <1>12, <1>13
<1>14. CASE p[2] # c.piece[2]
  <2>1. PICK d \in held : d.piece[2] = p[2]
    BY <1>10, <1>12, <1>14
  <2> QED
    BY <1>1, <1>12, <2>1
<1> QED
  BY <1>13, <1>14

\* A message is handed over when, and only when, all of it is there.
LEMMA HandKeeps ==
  ASSUME DeliveryAssumption, TypeOK, Places, NEW c \in copies, NEW name \in Nat,
         c.place # "held", HandOpened(c, name), UNCHANGED <<cursor, lost>>
  PROVE  Places'
<1> DEFINE m == c.piece[1]
           held == {d \in At({"held"}) : d.tag = name /\ d.piece[1] = m}
<1>1. held \in SUBSET copies /\ c \notin held /\ \A d \in held : d.piece[1] = m
  BY DEF At
<1>2. c.piece \in Piece
  BY DEF TypeOK, Copy
<1>3. CASE Cardinality(held) + 1 = Pieces[m]
  <2>1. copies' = copies \ (held \cup {c}) /\ delivered' = [delivered EXCEPT ![m] = @ + 1]
    BY <1>3 DEF HandOpened
  <2>2. \A p \in Piece : p[1] = m => \E d \in held \cup {c} : d.piece = p
    BY <1>1, <1>3, Complete
  <2> HIDE DEF held
  <2>3. OneCopy'
    BY <2>1 DEF Places, OneCopy
  <2>4. ASSUME NEW p \in Piece, p[1] = m
        PROVE  IsHere(p) /\ ~IsHere(p)' /\ Sent(p) /\ lost[p] = "no"
               /\ delivered[m] = 0 /\ delivered'[m] = 1
    <3>1. PICK d \in held \cup {c} : d.piece = p
      BY <2>2, <2>4
    <3>2. d \in copies
      BY <1>1, <3>1
    <3>3. IsHere(p)
      BY <3>1, <3>2 DEF IsHere
    <3>4. ~IsHere(p)'
      BY <2>1, <3>1, <3>2 DEF IsHere, Places, OneCopy
    <3>5. Sent(p) /\ lost[p] = "no" /\ delivered[m] = 0
      BY <2>4, <3>3 DEF Places, Accounted
    <3>6. m \in Msg
      BY <1>2, PieceParts
    <3> QED
      BY <2>1, <3>3, <3>4, <3>5, <3>6 DEF TypeOK
  <2>5. ASSUME NEW p \in Piece, p[1] # m
        PROVE  (IsHere(p)' <=> IsHere(p)) /\ delivered'[p[1]] = delivered[p[1]]
    <3>1. IsHere(p)' <=> IsHere(p)
      BY <1>1, <2>1, <2>5 DEF IsHere
    <3>2. p[1] \in Msg
      BY PieceParts
    <3> QED
      BY <2>1, <2>5, <3>1, <3>2 DEF TypeOK
  <2>6. Accounted'
    BY <2>4, <2>5 DEF Places, Accounted, Sent
  <2>7. DeliveredOnce'
    <3>1. m \in Msg /\ delivered[m] = 0
      BY <1>2, <2>4, PieceParts
    <3> QED
      BY <2>1, <3>1 DEF TypeOK, Places, DeliveredOnce
  <2> QED
    BY <2>3, <2>6, <2>7 DEF Places
<1>4. CASE Cardinality(held) + 1 # Pieces[m]
  <2>1. Move(c, "held", name) /\ UNCHANGED delivered
    BY <1>4 DEF HandOpened
  <2> QED
    BY <2>1, MoveKeeps DEF Place
<1> QED
  BY <1>3, <1>4

\* And it keeps types.
LEMMA HandType ==
  ASSUME TypeOK, NEW c \in copies, NEW name \in Nat, HandOpened(c, name)
  PROVE  copies' \subseteq Copy /\ delivered' \in [Msg -> Nat]
<1> DEFINE held == {d \in At({"held"}) : d.tag = name /\ d.piece[1] = c.piece[1]}
<1>1. CASE Cardinality(held) + 1 = Pieces[c.piece[1]]
  <2>1. /\ copies' = copies \ (held \cup {c})
        /\ delivered' = [delivered EXCEPT ![c.piece[1]] = @ + 1]
    BY <1>1 DEF HandOpened
  <2>2. c.piece[1] \in Msg
    BY PieceParts DEF TypeOK, Copy
  <2> QED
    BY <2>1, <2>2 DEF TypeOK
<1>2. CASE Cardinality(held) + 1 # Pieces[c.piece[1]]
  BY <1>2, MoveType DEF HandOpened, TypeOK, Place
<1> QED
  BY <1>1, <1>2

\* A turn of the sending loop makes a copy of a piece that never left before.
LEMMA SendsKeeps ==
  ASSUME DeliveryAssumption, TypeOK, Calls, Places,
         NEW m \in Msg, NEW place \in Place, NEW tag \in Nat,
         state[m] = "sending", Sends(m, place, tag)
  PROVE  Calls' /\ Places'
<1>0. PICK i \in Nat : i = cursor[m] + 1
  BY DEF TypeOK
<1> DEFINE new == Made(<<m, i>>, place, tag)
<1>1. cursor[m] \in Nat /\ Pieces[m] \in Nat /\ i = cursor[m] + 1 /\ i \in 1 .. Pieces[m]
  BY <1>0 DEF TypeOK, Calls, DeliveryAssumption
<1>2. <<m, i>> \in Piece
  BY <1>1, PieceIs
<1>3. cursor' = [cursor EXCEPT ![m] = i] /\ UNCHANGED <<target, delivered, lost>>
  BY <1>1 DEF Sends
<1>4. cursor'[m] = i
  BY <1>3 DEF TypeOK
<1>5. copies' = copies \cup {new} /\ new.piece = <<m, i>>
  BY <1>2, <1>4, MadeIs DEF Sends
<1>6. state' = [state EXCEPT ![m] = IF i = Pieces[m] THEN "sent" ELSE "sending"]
  BY <1>4 DEF Sends, LastPiece
<1>7. Calls'
  BY <1>1, <1>3, <1>6 DEF Calls, TypeOK
<1> HIDE DEF new
<1>8. ~Sent(<<m, i>>) /\ Sent(<<m, i>>)'
  <2>1. <<m, i>>[1] = m /\ <<m, i>>[2] = i
    OBVIOUS
  <2>2. ~(i <= cursor[m]) /\ i <= cursor'[m]
    BY <1>1, <1>4
  <2> QED
    BY <2>1, <2>2 DEF Sent
<1>9. ~IsHere(<<m, i>>) /\ lost[<<m, i>>] = "no"
  BY <1>2, <1>8 DEF Places, Accounted
<1>10. OneCopy'
  BY <1>5, <1>9 DEF Places, OneCopy, IsHere
<1>11. \A p : IsHere(p)' <=> IsHere(p) \/ p = <<m, i>>
  BY <1>5 DEF IsHere
<1>12. \A p \in Piece : p # <<m, i>> => (Sent(p)' <=> Sent(p))
  <2>1. SUFFICES ASSUME NEW p \in Piece, p # <<m, i>> PROVE Sent(p)' <=> Sent(p)
    OBVIOUS
  <2>2. p[1] \in Msg /\ p[2] \in 1 .. Pieces[p[1]] /\ p = <<p[1], p[2]>>
    BY PieceParts
  <2>3. CASE p[1] = m
    BY <1>1, <1>4, <2>1, <2>2, <2>3 DEF Sent
  <2>4. CASE p[1] # m
    BY <1>3, <2>2, <2>4 DEF Sent, TypeOK
  <2> QED
    BY <2>3, <2>4
<1>13. delivered[m] = 0
  <2>1. delivered[m] = delivered[<<m, i>>[1]]
    OBVIOUS
  <2> QED
    BY <1>2, <1>8, <2>1 DEF Places, Accounted, DeliveredOnce
<1>14. Accounted'
  <2>1. ASSUME NEW p \in Piece, p # <<m, i>>
        PROVE  (Sent(p)' <=> Sent(p)) /\ (IsHere(p)' <=> IsHere(p))
    BY <1>11, <1>12, <2>1
  <2>2. IsHere(<<m, i>>)' /\ lost'[<<m, i>>] = "no" /\ delivered'[<<m, i>>[1]] = 0
    BY <1>3, <1>9, <1>11, <1>13
  <2> QED
    BY <1>3, <1>8, <2>1, <2>2 DEF Places, Accounted
<1> QED
  BY <1>3, <1>7, <1>10, <1>14 DEF Places, DeliveredOnce

-----------------------------------------------------------------------------
(* The invariant *)

\* Init establishes it.
LEMMA InvInit == Init => IInv
<1> SUFFICES ASSUME Init PROVE IInv
  OBVIOUS
<1>1. TypeOK
  BY DeliveryAssumption DEF Init, TypeOK, Token, ByPubkey, Fate
<1>2. ChannelTags /\ OneCopy /\ WithinLimits
  BY DEF Init, ChannelTags, OneCopy, WithinLimits
<1>3. Calls /\ DeliveredOnce
  BY DEF Init, Calls, DeliveredOnce
<1>4. Accounted
  <2>1. SUFFICES ASSUME NEW p \in Piece
        PROVE  ~IsHere(p) /\ lost[p] = "no" /\ ~Sent(p) /\ delivered[p[1]] = 0
    BY DEF Accounted
  <2>2. p[1] \in Msg /\ p[2] \in 1 .. Pieces[p[1]] /\ Pieces[p[1]] \in Nat
    BY PieceParts, DeliveryAssumption
  <2> QED
    BY <2>2 DEF Init, IsHere, Sent
<1> QED
  BY <1>1, <1>2, <1>3, <1>4 DEF IInv, Places

\* Names and channels are numbers.
LEMMA NameType ==
  ASSUME NEW from \in Nat
  PROVE  NameOf(TRUE, from) \in Nat /\ NameOf(FALSE, from) \in Nat
  BY DEF NameOf

\* A call, a connection or a channel changes no copy.
LEMMA NothingMoves ==
  ASSUME IInv, UNCHANGED <<cursor, copies, delivered, lost>>
  PROVE  ChannelTags' /\ Places' /\ WithinLimits'
  BY DEF IInv, ChannelTags, Places, OneCopy, Accounted, IsHere, Sent, DeliveredOnce, WithinLimits

\* Every step of the sender keeps the invariant.
LEMMA SenderStep == IInv /\ Sender => IInv'
<1> SUFFICES ASSUME IInv, Sender PROVE IInv'
  OBVIOUS
<1> USE DeliveryAssumption
<1>t. TypeOK /\ ChannelTags /\ Calls /\ Places /\ WithinLimits
  BY DEF IInv
<1>1. ASSUME NEW m \in Msg, NEW t \in Token, SendSealedTo(m, t) PROVE IInv'
  <2>1. TypeOK'
    BY <1>t, <1>1 DEF SendSealedTo, TypeOK, recipientVars
  <2>2. Calls'
    BY <1>t, <1>1 DEF SendSealedTo, Calls, TypeOK, Token, ByPubkey
  <2> QED
    BY <1>1, <2>1, <2>2, NothingMoves DEF IInv, SendSealedTo
<1>2. ASSUME NEW m \in Msg, SendSealed(m) PROVE IInv'
  <2>1. TypeOK'
    BY <1>t, <1>2 DEF SendSealed, TypeOK, recipientVars
  <2>2. Calls'
    BY <1>t, <1>2 DEF SendSealed, Calls, TypeOK
  <2> QED
    BY <1>2, <2>1, <2>2, NothingMoves DEF IInv, SendSealed
<1>s. ASSUME NEW m \in Msg, NEW place \in {"channel", "up"}, NEW tag \in Token \cup {ByPubkey},
             state[m] = "sending", Sends(m, place, tag), watch' \subseteq Piece,
             place = "channel" => tag \in Token,
             place = "up" => Fits[m] # "direct" /\ (tag = ByPubkey => Fits[m] = "queue")
      PROVE  IInv'
  <2>0. place \in Place /\ tag \in Nat
    BY DEF Place, Token, ByPubkey
  <2>1. Calls' /\ Places'
    BY <1>t, <1>s, <2>0, SendsKeeps
  <2>2. PICK p \in Piece : p = <<m, cursor'[m]>>
    <3>1. cursor'[m] \in 1 .. Pieces[m]
      BY <1>t, <1>s DEF Sends, Calls, TypeOK
    <3> QED
      BY <3>1, PieceIs
  <2>3. copies' = copies \cup {Made(p, place, tag)} /\ p[1] = m
    BY <1>s, <2>2 DEF Sends
  <2>4. /\ Made(p, place, tag) \in Copy
        /\ Made(p, place, tag).piece = p
        /\ Made(p, place, tag).place = place
        /\ Made(p, place, tag).tag = tag
    BY <2>0, MadeIs
  <2>5. TypeOK'
    <3>1. cursor' \in [Msg -> Nat] /\ \A n \in Msg : cursor'[n] <= Pieces[n]
      BY <1>t, <1>s DEF Sends, Calls, TypeOK
    <3>2. state' \in [Msg -> {"idle", "sending", "sent", "failed"}]
      BY <1>t, <1>s DEF Sends, TypeOK
    <3>3. copies' \subseteq Copy
      BY <1>t, <2>3, <2>4 DEF TypeOK
    <3> QED
      BY <1>t, <1>s, <3>1, <3>2, <3>3 DEF Sends, TypeOK, recipientVars
  <2>6. ChannelTags'
    BY <1>t, <1>s, <2>3, <2>4 DEF ChannelTags
  <2>7. WithinLimits'
    BY <1>t, <1>s, <2>3, <2>4 DEF WithinLimits
  <2> QED
    BY <2>1, <2>5, <2>6, <2>7 DEF IInv
<1>p. ASSUME NEW m \in Msg, NEW place, NEW tag, state[m] = "sending", Sends(m, place, tag)
      PROVE  <<m, cursor'[m]>> \in Piece
  <2>1. cursor'[m] \in 1 .. Pieces[m]
    BY <1>t, <1>p DEF Sends, Calls, TypeOK
  <2> QED
    BY <2>1, PieceIs
<1>3. ASSUME NEW m \in Msg, SendOnChannel(m) PROVE IInv'
  <2>1. target[m] \in Token /\ watch' \subseteq Piece
    BY <1>t, <1>3 DEF SendOnChannel, TypeOK
  <2> QED
    BY <1>3, <2>1, <1>s DEF SendOnChannel
<1>4. ASSUME NEW m \in Msg, SendToToken(m) PROVE IInv'
  <2>1. target[m] \in Token /\ target[m] # ByPubkey
    BY <1>t, <1>4 DEF SendToToken, TypeOK
  <2>2. watch' \subseteq Piece
    BY <1>t, <1>4, <1>p DEF SendToToken, TypeOK
  <2> QED
    BY <1>4, <2>1, <2>2, <1>s DEF SendToToken, MayRelay
<1>5. ASSUME NEW m \in Msg, SendToPubkey(m) PROVE IInv'
  <2>1. Fits[m] = "queue" /\ watch' \subseteq Piece
    BY <1>t, <1>5 DEF SendToPubkey, Calls, TypeOK
  <2> QED
    BY <1>5, <2>1, <1>s DEF SendToPubkey
<1>6. ASSUME NEW m \in Msg, SendThrows(m) PROVE IInv'
  <2>1. TypeOK'
    BY <1>t, <1>6 DEF SendThrows, TypeOK, recipientVars
  <2>2. Calls'
    BY <1>t, <1>6 DEF SendThrows, Calls, TypeOK
  <2> QED
    BY <1>6, <2>1, <2>2, NothingMoves DEF IInv, SendThrows
<1>7. ASSUME NEW c \in copies, MessageSent(c) PROVE IInv'
  <2>1. /\ watch' \subseteq Piece
        /\ UNCHANGED <<link, ownToken, state, target, cursor, channel, recipientVars, delivered>>
    BY <1>t, <1>7 DEF MessageSent, TokenFailed, TypeOK
  <2>2. Calls'
    BY <1>t, <2>1 DEF Calls
  <2>3. ASSUME NEW fate \in {"late", "told"}, Lose({c}, fate) PROVE IInv'
    <3>1. Places'
      BY <1>t, <2>1, <2>3, LoseKeeps
    <3>2. copies' \subseteq copies /\ lost' \in [Piece -> Fate]
      BY <1>t, <2>3, LoseType DEF Fate
    <3>3. TypeOK'
      BY <1>t, <2>1, <3>2 DEF TypeOK, recipientVars
    <3> QED
      BY <1>t, <2>2, <3>1, <3>2, <3>3 DEF IInv, ChannelTags, WithinLimits
  <2>4. CASE MayQueue(c.piece) /\ Move(c, "up", ByPubkey) /\ UNCHANGED lost
    <3>1. "up" \in Place /\ ByPubkey \in Nat /\ c.piece \in Piece
      BY <1>t DEF Place, ByPubkey, TypeOK, Copy
    <3>2. Places'
      BY <1>t, <2>1, <2>4, <3>1, MoveKeeps
    <3>3. copies' \subseteq Copy
      BY <1>t, <2>4, <3>1, MoveType
    <3>4. TypeOK'
      BY <1>t, <2>1, <2>4, <3>3 DEF TypeOK, recipientVars
    <3>5. ChannelTags' /\ WithinLimits'
      BY <1>t, <2>4, <3>1, MadeIs DEF ChannelTags, WithinLimits, Move, MayQueue
    <3> QED
      BY <2>2, <3>2, <3>4, <3>5 DEF IInv
  <2> QED
    BY <1>7, <2>3, <2>4 DEF MessageSent, TokenFailed
<1>8. ASSUME NEW p \in Piece, WatchExpires(p) PROVE IInv'
  <2>1. TypeOK'
    BY <1>t, <1>8 DEF WatchExpires, OnSilence, TypeOK, recipientVars
  <2>2. Calls'
    BY <1>t, <1>8 DEF WatchExpires, Calls
  <2> QED
    BY <1>8, <2>1, <2>2, NothingMoves DEF IInv, WatchExpires, OnSilence
<1> QED
  BY <1>1, <1>2, <1>3, <1>4, <1>5, <1>6, <1>7, <1>8 DEF Sender

\* Where there is room: what a piece may become without crossing a limit.
LEMMA MoveWithinLimits ==
  ASSUME IInv, NEW c \in copies, NEW place \in Place \ {"channel"}, NEW tag \in Nat,
         Move(c, place, tag),
         UNCHANGED <<senderVars, channel, recipientVars, delivered, lost>>,
         place = "queue" => Fits[c.piece[1]] = "queue",
         place = "bounced" => Fits[c.piece[1]] # "direct",
         place # "up"
  PROVE  IInv'
<1>1. c.piece \in Piece
  BY DEF IInv, TypeOK, Copy
<1>2. Places'
  BY MoveKeeps DEF IInv, senderVars
<1>3. copies' \subseteq Copy
  BY MoveType DEF IInv
<1>4. TypeOK'
  BY <1>3 DEF IInv, TypeOK, senderVars, recipientVars
<1>5. Calls'
  BY DEF IInv, Calls, senderVars
<1>6. ChannelTags' /\ WithinLimits'
  BY <1>1, MadeIs DEF IInv, ChannelTags, WithinLimits, Move
<1> QED
  BY <1>2, <1>4, <1>5, <1>6 DEF IInv

\* What a connection or a wait loses takes nothing else with it.
LEMMA LoseWithinLimits ==
  ASSUME IInv, NEW gone \in SUBSET copies, NEW fate \in Fate \ {"no"}, Lose(gone, fate),
         UNCHANGED <<state, target, cursor, delivered>>,
         link' \in {"open", "closing", "closed"}, UNCHANGED <<ownToken, watch>>,
         channel' \in [Token -> 0 .. MaxOwnToken], UNCHANGED token, online' \in BOOLEAN
  PROVE  IInv'
<1>1. Places'
  BY LoseKeeps DEF IInv
<1>2. copies' \subseteq copies /\ lost' \in [Piece -> Fate]
  BY LoseType DEF IInv
<1>3. TypeOK'
  BY <1>2 DEF IInv, TypeOK
<1>4. Calls'
  BY DEF IInv, Calls
<1> QED
  BY <1>1, <1>2, <1>3, <1>4 DEF IInv, ChannelTags, WithinLimits

\* Every step of the proxy, the connections and the channels keeps it.
LEMMA EnvironmentStep == IInv /\ Environment => IInv'
<1> SUFFICES ASSUME IInv, Environment PROVE IInv'
  OBVIOUS
<1> USE DeliveryAssumption
<1>t. TypeOK /\ ChannelTags /\ Calls /\ Places /\ WithinLimits
  BY DEF IInv
<1>1. CASE LinkCloses \/ LinkReopens \/ ChannelOpens
  <2>1. TypeOK'
    BY <1>t, <1>1 DEF LinkCloses, LinkReopens, ChannelOpens, TypeOK, recipientVars, senderVars
  <2>2. /\ Calls'
        /\ UNCHANGED <<cursor, copies, delivered, lost>>
    BY <1>t, <1>1 DEF LinkCloses, LinkReopens, ChannelOpens, Calls, senderVars
  <2> QED
    BY <2>1, <2>2, NothingMoves DEF IInv
<1>2. CASE LinkEnds
  <2>1. At({"up", "bounced"}) \in SUBSET copies /\ "link" \in Fate \ {"no"}
    BY DEF At, Fate
  <2>2. channel' \in [Token -> 0 .. MaxOwnToken] /\ online' \in BOOLEAN /\ token' = token
    BY <1>t, <1>2 DEF LinkEnds, TypeOK, recipientVars
  <2> QED
    BY <1>2, <2>1, <2>2, LoseWithinLimits DEF LinkEnds
<1>3. ASSUME NEW c \in copies, ProxyRoutes(c) PROVE IInv'
  <2>1. c.place = "up" /\ UNCHANGED <<senderVars, channel, recipientVars, delivered, lost>>
    BY <1>3 DEF ProxyRoutes, At
  <2>2. /\ c.tag = ByPubkey => Fits[c.piece[1]] = "queue"
        /\ Fits[c.piece[1]] # "direct"
    BY <1>t, <2>1 DEF WithinLimits
  <2>3. NameOf(TRUE, ownToken) \in Nat /\ NameOf(FALSE, ownToken) \in Nat
    <3>1. ownToken \in Nat
      BY <1>t DEF TypeOK
    <3> QED
      BY <3>1, NameType
  <2>4. CASE \E tag \in Nat : Move(c, "down", tag)
    BY <2>1, <2>4, MoveWithinLimits DEF Place
  <2>5. CASE c.tag = ByPubkey /\ Move(c, "queue", 0)
    BY <2>1, <2>2, <2>5, MoveWithinLimits DEF Place
  <2>6. CASE Move(c, "bounced", 0)
    BY <2>1, <2>2, <2>6, MoveWithinLimits DEF Place
  <2>7. \/ Move(c, "down", NameOf(TRUE, ownToken))
        \/ Move(c, "down", NameOf(FALSE, ownToken))
        \/ c.tag = ByPubkey /\ Move(c, "queue", 0)
        \/ Move(c, "bounced", 0)
    BY <1>3 DEF ProxyRoutes
  <2> QED
    BY <2>3, <2>4, <2>5, <2>6, <2>7
<1>4. ASSUME NEW t \in Token, ChannelCloses(t) PROVE IInv'
  <2>1. {c \in At({"channel"}) : c.tag = t} \in SUBSET copies /\ "link" \in Fate \ {"no"}
    BY DEF At, Fate
  <2>2. /\ link' \in {"open", "closing", "closed"}
        /\ channel' \in [Token -> 0 .. MaxOwnToken]
        /\ online' \in BOOLEAN
        /\ UNCHANGED <<ownToken, state, target, cursor, watch, token, delivered>>
    BY <1>t, <1>4 DEF ChannelCloses, TypeOK, recipientVars, senderVars
  <2> QED
    BY <1>4, <2>1, <2>2, LoseWithinLimits DEF ChannelCloses
<1> QED
  BY <1>1, <1>2, <1>3, <1>4 DEF Environment

\* Every step of the recipient keeps it.
LEMMA RecipientStep == IInv /\ Recipient => IInv'
<1> SUFFICES ASSUME IInv, Recipient PROVE IInv'
  OBVIOUS
<1> USE DeliveryAssumption
<1>t. TypeOK /\ ChannelTags /\ Calls /\ Places /\ WithinLimits
  BY DEF IInv
<1>1. CASE RecipientDrops
  <2>1. At({"down"}) \in SUBSET copies /\ "link" \in Fate \ {"no"}
    BY DEF At, Fate
  <2>2. /\ link' \in {"open", "closing", "closed"}
        /\ channel' \in [Token -> 0 .. MaxOwnToken]
        /\ online' \in BOOLEAN
        /\ UNCHANGED <<ownToken, state, target, cursor, watch, token, delivered>>
    BY <1>t, <1>1 DEF RecipientDrops, TypeOK, senderVars
  <2> QED
    BY <1>1, <2>1, <2>2, LoseWithinLimits DEF RecipientDrops
<1>2. CASE RecipientEnds
  <2> DEFINE gone == At({"down", "channel", "held"})
  <2>1. copies' = copies \ gone /\ gone \subseteq copies
    BY <1>2 DEF RecipientEnds, At
  <2>2. \A p \in Piece :
          /\ (\E c \in gone : c.piece = p) => lost'[p] \in Fate \ {"no"}
          /\ ~(\E c \in gone : c.piece = p) => lost'[p] = lost[p]
    BY <1>2 DEF RecipientEnds, At, Fate
  <2>3. UNCHANGED <<senderVars, token, delivered>> /\ online' = FALSE
    BY <1>2 DEF RecipientEnds
  <2>4. TypeOK'
    <3>1. lost' \in [Piece -> Fate]
      <4>1. lost' = [p \in Piece |-> lost'[p]]
        BY <1>2 DEF RecipientEnds
      <4> QED
        BY <1>t, <2>2, <4>1 DEF TypeOK
    <3>2. channel' \in [Token -> 0 .. MaxOwnToken]
      BY <1>2 DEF RecipientEnds
    <3> QED
      BY <1>t, <2>1, <2>3, <3>1, <3>2 DEF TypeOK, senderVars
  <2> HIDE DEF gone
  <2>5. \A p \in Piece : IsHere(p)' <=> IsHere(p) /\ ~\E c \in gone : c.piece = p
    BY <1>t, <2>1 DEF IsHere, Places, OneCopy
  <2>6. \A p \in Piece : (\E c \in gone : c.piece = p) => IsHere(p)
    BY <2>1 DEF IsHere
  <2>7. Accounted'
    BY <1>t, <2>2, <2>3, <2>5, <2>6 DEF Places, Accounted, Sent, senderVars
  <2>8. OneCopy' /\ DeliveredOnce' /\ Calls' /\ ChannelTags' /\ WithinLimits'
    BY <1>t, <2>1, <2>3
    DEF Places, OneCopy, DeliveredOnce, Calls, ChannelTags, WithinLimits, senderVars
  <2> QED
    BY <2>4, <2>7, <2>8 DEF IInv, Places
<1>3. CASE RecipientReturns
  <2> DEFINE again(c) == Made(c.piece, "down", NameOf(TRUE, 0))
  <2>1. copies' = (copies \ At({"queue"})) \cup {again(c) : c \in At({"queue"})}
    BY <1>3 DEF RecipientReturns
  <2>2. \A c \in copies : /\ again(c) \in Copy
                          /\ again(c).piece = c.piece
                          /\ again(c).place = "down"
    <3>1. NameOf(TRUE, 0) \in Nat /\ "down" \in Place
      BY NameType DEF Place
    <3>2. \A name \in Nat, p \in Piece :
            /\ Made(p, "down", name) \in Copy
            /\ Made(p, "down", name).piece = p
            /\ Made(p, "down", name).place = "down"
      BY <3>1, MadeIs
    <3>3. \A c \in copies : c.piece \in Piece
      BY <1>t DEF TypeOK, Copy
    <3> QED
      BY <3>1, <3>2, <3>3
  <2> HIDE DEF again
  <2>3. UNCHANGED <<senderVars, channel, delivered, lost>> /\ online' = TRUE /\ token' \in Token
    BY <1>t, <1>3 DEF RecipientReturns, TypeOK, Token
  <2>4. TypeOK'
    <3>1. copies' \subseteq Copy
      BY <1>t, <2>1, <2>2 DEF TypeOK, At
    <3> QED
      BY <1>t, <2>3, <3>1 DEF TypeOK, senderVars
  <2>5. OneCopy'
    BY <1>t, <2>1, <2>2 DEF Places, OneCopy, At
  <2>6. \A p : IsHere(p)' <=> IsHere(p)
    BY <2>1, <2>2 DEF IsHere, At
  <2>7. Accounted' /\ DeliveredOnce' /\ Calls'
    BY <1>t, <2>3, <2>6 DEF Places, Accounted, DeliveredOnce, Sent, Calls, senderVars
  <2>8. ChannelTags' /\ WithinLimits'
    BY <1>t, <2>1, <2>2 DEF ChannelTags, WithinLimits, At
  <2> QED
    BY <2>4, <2>5, <2>7, <2>8 DEF IInv, Places
<1>h. ASSUME NEW c \in copies, NEW name \in Nat, c.place # "held", HandOpened(c, name),
             UNCHANGED <<senderVars, channel, recipientVars, lost>>
      PROVE  IInv'
  <2>1. Places'
    BY <1>t, <1>h, HandKeeps DEF senderVars
  <2>2. copies' \subseteq Copy /\ delivered' \in [Msg -> Nat]
    BY <1>t, <1>h, HandType
  <2>3. TypeOK' /\ Calls'
    BY <1>t, <1>h, <2>2 DEF TypeOK, Calls, senderVars, recipientVars
  <2>4. \A d \in copies' : d \in copies \/ d.place = "held"
    <3>1. c.piece \in Piece /\ "held" \in Place
      BY <1>t DEF TypeOK, Copy, Place
    <3> QED
      BY <1>h, <3>1, MadeIs DEF HandOpened, Move
  <2>5. ChannelTags' /\ WithinLimits'
    BY <1>t, <2>4 DEF ChannelTags, WithinLimits
  <2> QED
    BY <2>1, <2>3, <2>5 DEF IInv
<1>4. ASSUME NEW c \in copies, ReceiveFromProxy(c) PROVE IInv'
  <2>1. c.tag \in Nat /\ c.place # "held"
    BY <1>t, <1>4 DEF ReceiveFromProxy, At, TypeOK, Copy
  <2> QED
    BY <1>4, <1>h, <2>1 DEF ReceiveFromProxy
<1>5. ASSUME NEW c \in copies, ReceiveFromChannel(c) PROVE IInv'
  <2>1. c.tag \in Token /\ c.place # "held"
    BY <1>t, <1>5 DEF ReceiveFromChannel, At, ChannelTags
  <2>2. channel[c.tag] \in Nat
    BY <1>t, <2>1 DEF TypeOK
  <2>3. NameOf(FALSE, channel[c.tag]) \in Nat
    BY <2>2, NameType
  <2> QED
    BY <1>5, <1>h, <2>1, <2>3 DEF ReceiveFromChannel
<1>6. ASSUME NEW d \in copies, ReassemblyExpires(d) PROVE IInv'
  <2>1. /\ {c \in At({"held"}) : c.tag = d.tag /\ c.piece[1] = d.piece[1]} \in SUBSET copies
        /\ "idle" \in Fate \ {"no"}
    BY DEF At, Fate
  <2>2. /\ link' \in {"open", "closing", "closed"}
        /\ channel' \in [Token -> 0 .. MaxOwnToken]
        /\ online' \in BOOLEAN
        /\ UNCHANGED <<ownToken, state, target, cursor, watch, token, delivered>>
    BY <1>t, <1>6 DEF ReassemblyExpires, TypeOK, recipientVars, senderVars
  <2> QED
    BY <1>6, <2>1, <2>2, LoseWithinLimits DEF ReassemblyExpires
<1> QED
  BY <1>1, <1>2, <1>3, <1>4, <1>5, <1>6 DEF Recipient

\* The invariant holds of every behaviour.
LEMMA Invariant == Spec => []IInv
<1>1. IInv /\ UNCHANGED vars => IInv'
  <2> SUFFICES ASSUME IInv, UNCHANGED vars PROVE IInv'
    OBVIOUS
  <2>1. TypeOK' /\ Calls'
    BY DEF IInv, TypeOK, Calls, vars, recipientVars
  <2> QED
    BY <2>1, NothingMoves DEF IInv, vars
<1>2. IInv /\ [Next]_vars => IInv'
  BY <1>1, SenderStep, EnvironmentStep, RecipientStep DEF Next
<1> QED
  BY <1>2, InvInit, PTL DEF Spec

-----------------------------------------------------------------------------

\* For any messages, pieces and connections every variable keeps its type.
THEOREM DeliveryTypeCorrect == Spec => []TypeOK
<1>1. IInv => TypeOK
  BY DEF IInv
<1> QED
  BY <1>1, Invariant, PTL

\* No step down the ladder, from the direct channel to the relay or to the queue,
\* takes a piece to where it does not fit.
THEOREM WithinLimitsHolds == Spec => []WithinLimits
<1>1. IInv => WithinLimits
  BY DEF IInv
<1> QED
  BY <1>1, Invariant, PTL

\* Neither _tokenFailed nor any reconnection of either end makes a second copy of a
\* piece, hands a message over twice, or lets a piece go without a named cause.
THEOREM ConservedHolds == Spec => []Conserved
<1>1. ASSUME IInv, NEW p \in Piece
      PROVE  Cardinality(CopiesOf(p)) + Count(lost[p] # "no") + delivered[p[1]]
               = Count(Sent(p) \/ delivered[p[1]] > 0)
  <2>1. delivered[p[1]] \in {0, 1}
    BY <1>1, PieceParts DEF IInv, Places, DeliveredOnce
  <2>2. CASE IsHere(p)
    <3>1. PICK c \in copies : c.piece = p
      BY <2>2 DEF IsHere
    <3>2. CopiesOf(p) = {c}
      BY <1>1, <3>1 DEF CopiesOf, IInv, Places, OneCopy
    <3>3. Cardinality(CopiesOf(p)) = 1
      BY <3>2, FS_Singleton
    <3> QED
      BY <1>1, <2>2, <3>3 DEF IInv, Places, Accounted, Count
  <2>3. CASE ~IsHere(p)
    <3>1. CopiesOf(p) = {}
      BY <2>3 DEF CopiesOf, IsHere
    <3>2. Cardinality(CopiesOf(p)) = 0
      BY <3>1, FS_EmptySet
    <3> QED
      BY <1>1, <2>1, <2>3, <3>2 DEF IInv, Places, Accounted, Count
  <2> QED
    BY <2>2, <2>3
<1>2. IInv => Conserved
  BY <1>1 DEF Conserved
<1> QED
  BY <1>2, Invariant, PTL

-----------------------------------------------------------------------------
(* The Reassembler of a recipient (Reassembler.tla), for any senders, ids and *)
(* limits: what it counts, what it keeps and for how long, what it hands over. *)

\* How an instance counts is how this module does.
LEMMA PartsCount ==
  \A S : (Parts!IsFiniteSet(S) <=> IsFiniteSet(S)) /\ Parts!Cardinality(S) = Cardinality(S)
BY DEF Parts!IsFiniteSet, IsFiniteSet, Parts!Cardinality, Cardinality

\* How many the numbers up to one are.
LEMMA UpTo ==
  \A n \in Nat :
    /\ IsFiniteSet(1 .. n) /\ Cardinality(1 .. n) = n
    /\ IsFiniteSet(0 .. n - 1) /\ Cardinality(0 .. n - 1) = n
<1>1. SUFFICES ASSUME NEW n \in Nat
               PROVE  /\ IsFiniteSet(1 .. n) /\ Cardinality(1 .. n) = n
                      /\ IsFiniteSet(0 .. n - 1) /\ Cardinality(0 .. n - 1) = n
  OBVIOUS
<1>2. n \in Int /\ n - 1 \in Int /\ 1 \in Int /\ 0 \in Int
  OBVIOUS
<1>3. IsFiniteSet(1 .. n) /\ Cardinality(1 .. n) = IF 1 > n THEN 0 ELSE n - 1 + 1
  BY <1>2, FS_Interval, Zenon
<1>4. IsFiniteSet(0 .. n - 1) /\ Cardinality(0 .. n - 1) = IF 0 > n - 1 THEN 0 ELSE n - 1 - 0 + 1
  BY <1>2, FS_Interval, Zenon
<1>5. QED
  BY <1>3, <1>4

\* A key without a message keeps nothing.
ClosedIsEmpty == \A k \in Parts!Key : ~Parts!IsOpen(k) => entry[k] = Parts!NoEntry

\* What is true of the table, the counters and the timers together, with the
\* assumption on the constants that every lemma uses.
PartsInv ==
  /\ Parts!ReassemblerAssumption
  /\ Parts!TypeOK /\ ClosedIsEmpty /\ Parts!Accounting /\ Parts!OneTimerEach /\ Parts!Unfinished

-----------------------------------------------------------------------------
(* What the counters count *)

\* What a table keeps is finite, so that it can be counted.
LEMMA StoredFinite ==
  ASSUME Parts!ReassemblerAssumption, NEW table, NEW keys \in SUBSET Parts!Key
  PROVE  IsFiniteSet(Parts!StoredIn(table, keys))
<1>1. IsFiniteSet(Author \X Id)
  BY PartsCount, FS_Product DEF Parts!ReassemblerAssumption
<1>2. IsFiniteSet(keys)
  BY <1>1, FS_Subset DEF Parts!Key
<1>3. IsFiniteSet(Parts!Index) /\ IsFiniteSet(1 .. MaxPartChars)
  BY PartsCount, UpTo DEF Parts!ReassemblerAssumption, Parts!Index
<1>4. IsFiniteSet(Parts!Index \X (1 .. MaxPartChars))
  BY <1>3, FS_Product
<1>5. IsFiniteSet(keys \X (Parts!Index \X (1 .. MaxPartChars)))
  BY <1>2, <1>4, FS_Product
<1>6. Parts!StoredIn(table, keys) \in SUBSET (keys \X (Parts!Index \X (1 .. MaxPartChars)))
  BY DEF Parts!StoredIn
<1>7. QED
  BY <1>5, <1>6, FS_Subset

\* A part of `len` characters at an empty index adds just those.
LEMMA StoredPut ==
  ASSUME Parts!ReassemblerAssumption, NEW e \in [Parts!Key -> Parts!Entry],
         NEW f \in [Parts!Key -> Parts!Entry],
         NEW keys \in SUBSET Parts!Key, NEW k \in keys,
         NEW i \in Parts!Index, NEW len \in 0 .. MaxPartChars,
         e[k].got[i] = Parts!Missing,
         f[k].got = [e[k].got EXCEPT ![i] = len],
         \A l \in Parts!Key \ {k} : f[l].got = e[l].got
  PROVE  Cardinality(Parts!StoredIn(f, keys)) = Cardinality(Parts!StoredIn(e, keys)) + len
<1> DEFINE part == {k} \X ({i} \X (1 .. len))
<1>1. IsFiniteSet(part) /\ Cardinality(part) = len
  <2>1. IsFiniteSet(1 .. len) /\ Cardinality(1 .. len) = len
    BY PartsCount, UpTo DEF Parts!ReassemblerAssumption
  <2>2. IsFiniteSet({i}) /\ Cardinality({i}) = 1 /\ IsFiniteSet({k}) /\ Cardinality({k}) = 1
    BY FS_Singleton
  <2>3. IsFiniteSet({i} \X (1 .. len)) /\ Cardinality({i} \X (1 .. len)) = len
    BY <2>1, <2>2, FS_Product
  <2>4. QED
    BY <2>2, <2>3, FS_Product
<1>2. Parts!StoredIn(f, keys) = Parts!StoredIn(e, keys) \cup part
  <2> SUFFICES ASSUME NEW x
               PROVE  x \in Parts!StoredIn(f, keys) <=> x \in Parts!StoredIn(e, keys) \cup part
    OBVIOUS
  <2>1. CASE x \notin keys \X (Parts!Index \X (1 .. MaxPartChars))
    BY <2>1 DEF Parts!ReassemblerAssumption, Parts!StoredIn
  <2>2. CASE x \in keys \X (Parts!Index \X (1 .. MaxPartChars))
    <3>1. PICK l \in keys, j \in Parts!Index, c \in 1 .. MaxPartChars : x = <<l, <<j, c>>>>
      BY <2>2
    <3>2. /\ x \in Parts!StoredIn(f, keys) <=> c <= f[l].got[j]
          /\ x \in Parts!StoredIn(e, keys) <=> c <= e[l].got[j]
          /\ x \in part <=> l = k /\ j = i /\ c <= len
      BY <3>1 DEF Parts!StoredIn
    <3>3. e[k].got \in [Parts!Index -> Parts!Missing .. MaxPartChars]
      BY DEF Parts!Entry
    <3>4. CASE l = k /\ j = i
      BY <3>2, <3>3, <3>4 DEF Parts!Missing
    <3>5. CASE l = k /\ j # i
      BY <3>2, <3>3, <3>5
    <3>6. CASE l # k
      BY <3>2, <3>6
    <3>7. QED
      BY <3>4, <3>5, <3>6
  <2>3. QED
    BY <2>1, <2>2
<1>3. Parts!StoredIn(e, keys) \cap part = {}
  BY DEF Parts!StoredIn, Parts!Missing
<1>4. IsFiniteSet(Parts!StoredIn(e, keys))
  BY StoredFinite
<1>5. Cardinality(Parts!StoredIn(e, keys) \cap part) = 0 /\ Cardinality(Parts!StoredIn(e, keys)) \in Nat
  BY <1>3, <1>4, FS_EmptySet, FS_CardinalityType
<1> HIDE DEF part
<1>6. Cardinality(Parts!StoredIn(e, keys) \cup part)
        = Cardinality(Parts!StoredIn(e, keys)) + Cardinality(part)
            - Cardinality(Parts!StoredIn(e, keys) \cap part)
  BY <1>1, <1>4, FS_Union
<1>7. QED
  BY <1>1, <1>2, <1>5, <1>6

\* What is kept under some keys depends on those keys alone.
LEMMA StoredSame ==
  ASSUME NEW e, NEW f, NEW keys, \A l \in keys : f[l].got = e[l].got
  PROVE  Parts!StoredIn(f, keys) = Parts!StoredIn(e, keys)
BY DEF Parts!StoredIn

\* Dropping a message frees just what it kept.
LEMMA StoredDrop ==
  ASSUME Parts!ReassemblerAssumption, NEW e \in [Parts!Key -> Parts!Entry], NEW k \in Parts!Key
  PROVE  LET f == [e EXCEPT ![k] = Parts!NoEntry]
         IN  /\ Cardinality(Parts!StoredIn(f, Parts!Key))
                  = Cardinality(Parts!StoredIn(e, Parts!Key))
                      - Cardinality(Parts!StoredIn(e, {k}))
             /\ Cardinality(Parts!StoredIn(f, {k})) = 0
<1> DEFINE f == [e EXCEPT ![k] = Parts!NoEntry]
<1>1. f[k] = Parts!NoEntry /\ \A l \in Parts!Key \ {k} : f[l] = e[l]
  OBVIOUS
<1>2. Parts!StoredIn(f, Parts!Key) = Parts!StoredIn(e, Parts!Key) \ Parts!StoredIn(e, {k})
  <2>1. ASSUME NEW x \in Parts!Key \X (Parts!Index \X (1 .. MaxPartChars))
        PROVE  x \in Parts!StoredIn(f, Parts!Key) <=>
                 x \in Parts!StoredIn(e, Parts!Key) /\ x \notin Parts!StoredIn(e, {k})
    <3>1. CASE x[1] = k
      BY <1>1, <3>1 DEF Parts!StoredIn, Parts!NoEntry, Parts!Missing
    <3>2. CASE x[1] # k
      BY <1>1, <3>2 DEF Parts!StoredIn
    <3>3. QED
      BY <3>1, <3>2
  <2>2. QED
    BY <2>1 DEF Parts!StoredIn
<1>3. Parts!StoredIn(e, Parts!Key) \cap Parts!StoredIn(e, {k}) = Parts!StoredIn(e, {k})
  BY DEF Parts!StoredIn
<1>4. Parts!StoredIn(f, {k}) = {}
  BY <1>1 DEF Parts!StoredIn, Parts!NoEntry, Parts!Missing
<1>5. IsFiniteSet(Parts!StoredIn(e, Parts!Key))
  BY StoredFinite
<1>6. Cardinality(Parts!StoredIn(e, Parts!Key) \ Parts!StoredIn(e, {k}))
        = Cardinality(Parts!StoredIn(e, Parts!Key))
            - Cardinality(Parts!StoredIn(e, Parts!Key) \cap Parts!StoredIn(e, {k}))
  BY <1>5, FS_Difference
<1>7. QED
  BY <1>2, <1>3, <1>4, <1>6, FS_EmptySet, Zenon

\* The parts that came can be counted.
LEMMA ReceivedFinite ==
  ASSUME Parts!ReassemblerAssumption, NEW k \in Parts!Key
  PROVE  IsFiniteSet(Parts!Received(k)) /\ (Cardinality(Parts!Received(k)) = 0 <=> Parts!Received(k) = {})
<1>1. IsFiniteSet(Parts!Index)
  BY PartsCount, UpTo DEF Parts!ReassemblerAssumption, Parts!Index
<1>2. Parts!Received(k) \in SUBSET Parts!Index
  BY DEF Parts!Received
<1>3. IsFiniteSet(Parts!Received(k))
  BY <1>1, <1>2, FS_Subset
<1>4. QED
  BY <1>3, FS_EmptySet

-----------------------------------------------------------------------------
(* The inductive invariant *)

\* Nothing is open to begin with.
LEMMA PartsInit == Parts!ReassemblerAssumption /\ Parts!Init => PartsInv
<1> SUFFICES ASSUME Parts!ReassemblerAssumption, Parts!Init PROVE PartsInv
  OBVIOUS
<1>1. Parts!NoEntry \in Parts!Entry
  BY DEF Parts!ReassemblerAssumption, Parts!NoEntry, Parts!Entry, Parts!Missing, Parts!Index
<1>2. Parts!TypeOK
  BY <1>1 DEF Parts!Init, Parts!TypeOK, Parts!Saying
<1>3. ClosedIsEmpty /\ Parts!OneTimerEach
  BY DEF Parts!Init, ClosedIsEmpty, Parts!OneTimerEach, Parts!IsOpen, Parts!NoEntry
<1>4. \A keys \in SUBSET Parts!Key : Parts!StoredIn(entry, keys) = {}
  BY DEF Parts!Init, Parts!StoredIn, Parts!NoEntry, Parts!Missing
<1>5. Parts!Accounting
  <2>1. Cardinality(Parts!StoredIn(entry, Parts!Key)) = 0
    BY <1>4, FS_EmptySet
  <2>2. ASSUME NEW k \in Parts!Key
        PROVE  entry[k].chars = 0 /\ Cardinality(Parts!StoredIn(entry, {k})) = 0
    <3>1. Parts!StoredIn(entry, {k}) = {}
      BY <1>4
    <3>2. QED
      BY <3>1, FS_EmptySet DEF Parts!Init, Parts!NoEntry
  <2>3. QED
    BY PartsCount, <2>1, <2>2 DEF Parts!ReassemblerAssumption, Parts!Init, Parts!Accounting
<1>6. \A k \in Parts!Key : Parts!Received(k) = {}
  BY DEF Parts!Init, Parts!Received, Parts!NoEntry
<1>7. Parts!Unfinished
  BY PartsCount, <1>6, FS_EmptySet DEF Parts!Init, Parts!Unfinished, Parts!IsOpen, Parts!NoEntry
<1>8. QED
  BY <1>2, <1>3, <1>5, <1>7 DEF PartsInv

\* Dropping a message, open or not, leaves everything in order.
LEMMA DropStep ==
  ASSUME PartsInv, NEW k \in Parts!Key, Parts!Drop(k, entry[k].chars), said' \in Parts!Saying
  PROVE  PartsInv'
<1> USE DEF PartsInv
<1>1. Parts!NoEntry \in Parts!Entry
  BY DEF Parts!ReassemblerAssumption, Parts!NoEntry, Parts!Entry, Parts!Missing, Parts!Index
<1>2. entry' \in [Parts!Key -> Parts!Entry] /\ entry' = [entry EXCEPT ![k] = Parts!NoEntry]
  BY <1>1 DEF Parts!Drop, Parts!TypeOK
<1>3. entry'[k] = Parts!NoEntry /\ \A l \in Parts!Key \ {k} : entry'[l] = entry[l]
  BY <1>2 DEF Parts!TypeOK
<1>4. /\ Cardinality(Parts!StoredIn(entry', Parts!Key))
           = Cardinality(Parts!StoredIn(entry, Parts!Key)) - Cardinality(Parts!StoredIn(entry, {k}))
      /\ Cardinality(Parts!StoredIn(entry', {k})) = 0
  BY <1>2, StoredDrop DEF Parts!TypeOK
<1>5. pending' = Cardinality(Parts!StoredIn(entry', Parts!Key))
  BY PartsCount, <1>4 DEF Parts!Accounting, Parts!Drop
<1>6. pending' \in Nat
  BY <1>5, StoredFinite, FS_CardinalityType
<1>7. Parts!TypeOK'
  BY <1>2, <1>6 DEF Parts!TypeOK, Parts!Drop, Parts!Disarm
<1>8. ClosedIsEmpty'
  BY <1>3 DEF ClosedIsEmpty, Parts!IsOpen
<1>9. Parts!Accounting'
  <2>1. \A l \in Parts!Key : entry'[l].chars = Cardinality(Parts!StoredIn(entry', {l}))
    <3> SUFFICES ASSUME NEW l \in Parts!Key
                 PROVE  entry'[l].chars = Cardinality(Parts!StoredIn(entry', {l}))
      OBVIOUS
    <3>1. CASE l = k
      BY <3>1, <1>3, <1>4 DEF Parts!NoEntry
    <3>2. CASE l # k
      <4>1. Parts!StoredIn(entry', {l}) = Parts!StoredIn(entry, {l})
        BY <3>2, <1>3, StoredSame
      <4>2. QED
        BY PartsCount, <3>2, <4>1, <1>3 DEF Parts!Accounting
    <3>3. QED
      BY <3>1, <3>2
  <2>2. pending' <= RecvMaxChars
    <3>1. entry[k].chars \in Nat
      BY DEF Parts!TypeOK, Parts!Entry
    <3>2. QED
      BY <3>1, <1>6 DEF Parts!ReassemblerAssumption, Parts!Accounting, Parts!Drop, Parts!TypeOK
  <2>3. QED
    BY PartsCount, <2>1, <2>2, <1>5 DEF Parts!Accounting
<1>10. Parts!OneTimerEach'
  BY <1>3 DEF Parts!OneTimerEach, Parts!IsOpen, Parts!Drop, Parts!Disarm, Parts!TypeOK,
     Parts!NoEntry
<1>11. Parts!Unfinished'
  <2> SUFFICES ASSUME NEW l \in Parts!Key
               PROVE  /\ entry'[l].count = Cardinality(Parts!Received(l)')
                      /\ Parts!IsOpen(l)' => Parts!Received(l)' # {} /\ entry'[l].count < entry'[l].n
                      /\ Parts!Received(l)' \subseteq 0 .. entry'[l].n - 1
    BY PartsCount DEF Parts!Unfinished
  <2>1. CASE l = k
    <3>1. Parts!Received(l)' = {}
      BY <2>1, <1>3 DEF Parts!Received, Parts!NoEntry
    <3>2. QED
      BY <2>1, <3>1, <1>3, FS_EmptySet DEF Parts!IsOpen, Parts!NoEntry
  <2>2. CASE l # k
    <3>1. Parts!Received(l)' = Parts!Received(l) /\ entry'[l] = entry[l] /\ Parts!IsOpen(l)' = Parts!IsOpen(l)
      BY <2>2, <1>3 DEF Parts!Received, Parts!IsOpen
    <3>2. QED
      BY PartsCount, <3>1 DEF Parts!Unfinished
  <2>3. QED
    BY <2>1, <2>2
<1>12. QED
  BY <1>7, <1>8, <1>9, <1>10, <1>11

\* The entry add() works on differs from the key's only in being open.
LEMMA EntryForFacts ==
  ASSUME PartsInv, NEW k \in Parts!Key, NEW part \in Parts!Part,
         Parts!Valid(part), Parts!Agrees(k, part)
  PROVE  /\ Parts!EntryFor(k, part) \in Parts!Entry
         /\ Parts!EntryFor(k, part).n = part.n
         /\ Parts!EntryFor(k, part).got = entry[k].got
         /\ Parts!EntryFor(k, part).count = entry[k].count
         /\ Parts!EntryFor(k, part).chars = entry[k].chars
         /\ ~Parts!IsOpen(k) => entry[k].count = 0
         /\ part.i \in Parts!Index /\ part.n \in 2 .. MaxParts /\ part.i \in 0 .. part.n - 1
<1> USE DEF PartsInv
<1>1. part.i \in Parts!Index /\ part.n \in 2 .. MaxParts /\ part.i \in 0 .. part.n - 1
  BY DEF Parts!ReassemblerAssumption, Parts!Valid, Parts!Index
<1>2. CASE Parts!IsOpen(k)
  BY <1>1, <1>2 DEF Parts!EntryFor, Parts!Agrees, Parts!TypeOK
<1>3. CASE ~Parts!IsOpen(k)
  <2>1. entry[k] = Parts!NoEntry
    BY <1>3 DEF ClosedIsEmpty
  <2>2. Parts!EntryFor(k, part) = [Parts!NoEntry EXCEPT !.n = part.n, !.bin = part.bin]
    BY <1>3 DEF Parts!EntryFor
  <2>3. part.bin \in BOOLEAN
    BY DEF Parts!Part
  <2>4. Parts!EntryFor(k, part) = [n |-> part.n, bin |-> part.bin, got |-> Parts!NoEntry.got,
                             count |-> 0, chars |-> 0]
    BY <2>2 DEF Parts!NoEntry
  <2>5. Parts!NoEntry.got \in [Parts!Index -> Parts!Missing .. MaxPartChars]
    BY DEF Parts!ReassemblerAssumption, Parts!NoEntry, Parts!Missing
  <2>6. part.n \in 0 .. MaxParts
    BY <1>1
  <2>7. Parts!EntryFor(k, part) \in Parts!Entry
    BY <2>3, <2>4, <2>5, <2>6 DEF Parts!Entry
  <2>8. QED
    BY <1>1, <1>3, <2>1, <2>4, <2>7 DEF Parts!NoEntry
<1>4. QED
  BY <1>1, <1>2, <1>3

\* Keeping a part leaves everything in order.
LEMMA KeepStep ==
  ASSUME PartsInv, NEW k \in Parts!Key, NEW part \in Parts!Part, Parts!Keep(k, part)
  PROVE  PartsInv'
<1> USE DEF PartsInv
<1> DEFINE a == Parts!EntryFor(k, part)
<1>1. /\ a \in Parts!Entry /\ a.n = part.n /\ a.got = entry[k].got
      /\ a.count = entry[k].count /\ a.chars = entry[k].chars
      /\ part.i \in Parts!Index /\ part.n \in 2 .. MaxParts /\ part.i \in 0 .. part.n - 1
      /\ ~Parts!IsOpen(k) => entry[k].count = 0
  BY EntryForFacts DEF Parts!Keep, Parts!Accepts
<1>2. part.len \in 0 .. MaxPartChars
  BY DEF Parts!Part
<1>3. ASSUME ~Parts!New(k, part) PROVE PartsInv'
  <2>1. Parts!WithPart(k, part) = a /\ Parts!Added(k, part) = 0 /\ part.i \in Parts!Received(k)
    BY <1>1, <1>3 DEF Parts!WithPart, Parts!Added, Parts!New, Parts!Received
  <2>2. entry[k].count # 0
    BY PartsCount, <2>1, ReceivedFinite DEF Parts!Unfinished
  <2>3. Parts!IsOpen(k) /\ a = entry[k]
    BY <1>1, <2>2 DEF Parts!EntryFor
  <2>4. entry' = entry /\ pending' = pending /\ timers' = timers
    <3>1. entry' = entry
      BY <2>1, <2>3 DEF Parts!Keep, Parts!TypeOK
    <3>2. pending' = pending
      BY <2>1 DEF Parts!Keep, Parts!TypeOK
    <3>3. timers' = timers
      BY <2>3 DEF Parts!Keep, Parts!Rearm, Parts!OneTimerEach, Parts!TypeOK
    <3>4. QED
      BY <3>1, <3>2, <3>3
  <2>5. said' \in Parts!Saying
    BY DEF Parts!Keep, Parts!Saying
  <2>6. Parts!TypeOK' /\ ClosedIsEmpty' /\ Parts!OneTimerEach'
    BY <2>4, <2>5 DEF Parts!TypeOK, ClosedIsEmpty, Parts!OneTimerEach, Parts!IsOpen
  <2>7. Parts!Accounting'
    BY <2>4 DEF Parts!Accounting, Parts!StoredIn
  <2>8. Parts!Unfinished'
    BY <2>4 DEF Parts!Unfinished, Parts!IsOpen, Parts!Received
  <2>9. QED
    BY <2>6, <2>7, <2>8
<1>4. ASSUME Parts!New(k, part) PROVE PartsInv'
  <2> DEFINE b == [n |-> a.n, bin |-> a.bin, got |-> [a.got EXCEPT ![part.i] = part.len],
                   count |-> a.count + 1, chars |-> a.chars + part.len]
  <2>1. /\ entry' = [entry EXCEPT ![k] = b]
        /\ pending' = pending + part.len
        /\ pending + part.len <= RecvMaxChars
        /\ b.count # part.n
    BY <1>2, <1>4
    DEF Parts!ReassemblerAssumption, Parts!Keep, Parts!Accepts, Parts!Exceeds, Parts!WithPart, Parts!Added, Parts!TypeOK
  <2>2. /\ b \in Parts!Entry /\ b.n = part.n /\ b.count = entry[k].count + 1
        /\ b.chars = entry[k].chars + part.len
        /\ b.got = [entry[k].got EXCEPT ![part.i] = part.len]
    <3> HIDE DEF a
    <3>1. [a.got EXCEPT ![part.i] = part.len] \in [Parts!Index -> Parts!Missing .. MaxPartChars]
      BY <1>1, <1>2 DEF Parts!Entry, Parts!Missing
    <3>2. a.count + 1 \in Nat /\ a.chars + part.len \in Nat
      BY <1>1, <1>2 DEF Parts!Entry
    <3>3. a.n \in 0 .. MaxParts /\ a.bin \in BOOLEAN
      BY <1>1 DEF Parts!Entry
    <3>4. b \in Parts!Entry
      BY <3>1, <3>2, <3>3 DEF Parts!Entry
    <3>5. QED
      BY <1>1, <3>4
  <2> HIDE DEF b, a
  <2>3. /\ entry' \in [Parts!Key -> Parts!Entry]
        /\ entry'[k] = b
        /\ \A l \in Parts!Key \ {k} : entry'[l] = entry[l]
    BY <2>1, <2>2 DEF Parts!TypeOK
  <2>4. Parts!TypeOK'
    <3>1. pending' \in Nat
      BY <1>2, <2>1 DEF Parts!TypeOK
    <3>2. timers' \in [Parts!Key -> Nat]
      BY DEF Parts!TypeOK, Parts!Keep, Parts!Rearm
    <3>3. said' \in Parts!Saying
      BY DEF Parts!Keep, Parts!Saying
    <3>4. QED
      BY <2>3, <3>1, <3>2, <3>3 DEF Parts!TypeOK
  <2>5. entry'[k].n # 0
    BY <1>1, <2>2, <2>3
  <2>6. ClosedIsEmpty'
    BY <2>3, <2>5 DEF ClosedIsEmpty, Parts!IsOpen
  <2>7. Parts!OneTimerEach'
    BY <2>3, <2>5 DEF Parts!OneTimerEach, Parts!IsOpen, Parts!Keep, Parts!Rearm, Parts!TypeOK
  <2>8. Parts!Accounting'
    <3>1. entry[k].got[part.i] = Parts!Missing
      BY <1>1, <1>4 DEF Parts!New, a
    <3>2. \A keys \in SUBSET Parts!Key : k \in keys =>
             Cardinality(Parts!StoredIn(entry', keys)) = Cardinality(Parts!StoredIn(entry, keys)) + part.len
      <4> SUFFICES ASSUME NEW keys \in SUBSET Parts!Key, k \in keys
                   PROVE  Cardinality(Parts!StoredIn(entry', keys))
                            = Cardinality(Parts!StoredIn(entry, keys)) + part.len
        OBVIOUS
      <4>1. \A l \in Parts!Key \ {k} : entry'[l].got = entry[l].got
        BY <2>3
      <4>2. entry'[k].got = [entry[k].got EXCEPT ![part.i] = part.len]
        BY <2>2, <2>3
      <4>3. QED
        BY <1>1, <1>2, <2>3, <3>1, <4>1, <4>2, StoredPut DEF Parts!TypeOK
    <3>3. pending' = Cardinality(Parts!StoredIn(entry', Parts!Key))
      BY PartsCount, <2>1, <3>2 DEF Parts!Accounting
    <3>4. ASSUME NEW l \in Parts!Key PROVE entry'[l].chars = Cardinality(Parts!StoredIn(entry', {l}))
      <4>1. CASE l = k
        BY PartsCount, <4>1, <2>2, <2>3, <3>2 DEF Parts!Accounting
      <4>2. CASE l # k
        <5>1. Parts!StoredIn(entry', {l}) = Parts!StoredIn(entry, {l})
          BY <4>2, <2>3, StoredSame
        <5>2. QED
          BY PartsCount, <4>2, <5>1, <2>3 DEF Parts!Accounting
      <4>3. QED
        BY <4>1, <4>2
    <3>5. QED
      BY PartsCount, <2>1, <3>3, <3>4 DEF Parts!Accounting
  <2>9. Parts!Unfinished'
    <3> SUFFICES ASSUME NEW l \in Parts!Key
                 PROVE  /\ entry'[l].count = Cardinality(Parts!Received(l)')
                        /\ Parts!IsOpen(l)' => Parts!Received(l)' # {} /\ entry'[l].count < entry'[l].n
                        /\ Parts!Received(l)' \subseteq 0 .. entry'[l].n - 1
      BY PartsCount DEF Parts!Unfinished
    <3>1. CASE l = k
      <4>1. Parts!Received(k)' = Parts!Received(k) \cup {part.i} /\ part.i \notin Parts!Received(k)
        <5>1. entry[k].got \in [Parts!Index -> Parts!Missing .. MaxPartChars]
          BY DEF Parts!TypeOK, Parts!Entry
        <5>2. QED
          BY <1>1, <1>2, <1>4, <2>2, <2>3, <5>1 DEF Parts!Received, Parts!New, Parts!Missing, a
      <4>2. IsFiniteSet(Parts!Received(k)) /\ Cardinality(Parts!Received(k)) = entry[k].count
        BY PartsCount, ReceivedFinite DEF Parts!Unfinished
      <4>3. Cardinality(Parts!Received(k)') = entry[k].count + 1
        BY <4>1, <4>2, FS_AddElement
      <4>4. Parts!Received(k)' \subseteq 0 .. part.n - 1
        <5>1. CASE Parts!IsOpen(k)
          BY <5>1, <1>1, <4>1 DEF Parts!Unfinished, Parts!EntryFor, a
        <5>2. CASE ~Parts!IsOpen(k)
          <6>1. Parts!Received(k) = {}
            BY <5>2 DEF ClosedIsEmpty, Parts!Received, Parts!NoEntry
          <6>2. QED
            BY <6>1, <4>1, <1>1
        <5>3. QED
          BY <5>1, <5>2
      <4>5. Cardinality(Parts!Received(k)') <= part.n
        <5>1. IsFiniteSet(0 .. part.n - 1) /\ Cardinality(0 .. part.n - 1) = part.n
          BY PartsCount, <1>1, UpTo DEF Parts!ReassemblerAssumption
        <5>2. QED
          BY <5>1, <4>4, FS_Subset
      <4>6. entry[k].count \in Nat
        BY DEF Parts!TypeOK, Parts!Entry
      <4>7. b.count < part.n
        BY <1>1, <2>1, <2>2, <4>3, <4>5, <4>6
      <4>8. QED
        BY <3>1, <2>2, <2>3, <4>1, <4>3, <4>4, <4>7
    <3>2. CASE l # k
      <4>1. Parts!Received(l)' = Parts!Received(l) /\ entry'[l] = entry[l] /\ Parts!IsOpen(l)' = Parts!IsOpen(l)
        BY <3>2, <2>3 DEF Parts!Received, Parts!IsOpen
      <4>2. QED
        BY PartsCount, <4>1 DEF Parts!Unfinished
    <3>3. QED
      BY <3>1, <3>2
  <2>10. QED
    BY <2>4, <2>6, <2>7, <2>8, <2>9
<1>5. QED
  BY <1>3, <1>4

\* Each end of add, and the timeout, keeps the invariant.
LEMMA PartsStep == PartsInv /\ [Parts!Next]_Parts!vars => PartsInv'
<1> SUFFICES ASSUME PartsInv, [Parts!Next]_Parts!vars PROVE PartsInv'
  OBVIOUS
<1>1. ASSUME NEW k \in Parts!Key, NEW part \in Parts!Part, Parts!RejectMalformed(k, part)
      PROVE  PartsInv'
  BY PartsCount, <1>1 DEF Parts!RejectMalformed, Parts!Saying, PartsInv, Parts!TypeOK,
     ClosedIsEmpty, Parts!Accounting, Parts!OneTimerEach,
              Parts!Unfinished, Parts!IsOpen, Parts!Received, Parts!StoredIn
<1>2. ASSUME NEW k \in Parts!Key, NEW part \in Parts!Part, Parts!RejectDisagreeing(k, part)
      PROVE  PartsInv'
  BY <1>2, DropStep DEF Parts!RejectDisagreeing, Parts!Saying
<1>3. ASSUME NEW k \in Parts!Key, NEW part \in Parts!Part, Parts!RejectTooMuch(k, part)
      PROVE  PartsInv'
  BY <1>3, DropStep DEF Parts!RejectTooMuch, Parts!Saying
<1>4. ASSUME NEW k \in Parts!Key, NEW part \in Parts!Part, Parts!Keep(k, part) PROVE PartsInv'
  BY <1>4, KeepStep
<1>5. ASSUME NEW k \in Parts!Key, NEW part \in Parts!Part, Parts!Join(k, part) PROVE PartsInv'
  <2>1. Parts!WithPart(k, part).chars - Parts!Added(k, part) = entry[k].chars
    <3>1. Parts!EntryFor(k, part).chars = entry[k].chars
      BY <1>5, EntryForFacts DEF Parts!Join, Parts!Accepts
    <3>2. entry[k].chars \in Nat /\ part.len \in Nat
      BY DEF PartsInv, Parts!TypeOK, Parts!Entry, Parts!Part
    <3>3. QED
      BY <3>1, <3>2 DEF Parts!WithPart, Parts!Added
  <2>2. Parts!Drop(k, entry[k].chars) /\ said' \in Parts!Saying
    BY <1>5, <2>1 DEF Parts!Join, Parts!Saying
  <2>3. QED
    BY <2>2, DropStep
<1>6. ASSUME NEW k \in Parts!Key, Parts!Expire(k) PROVE PartsInv'
  BY <1>6, DropStep DEF Parts!Expire, Parts!Saying
<1>7. CASE UNCHANGED Parts!vars
  BY <1>7 DEF Parts!vars, PartsInv, Parts!TypeOK, ClosedIsEmpty, Parts!Accounting,
     Parts!OneTimerEach,
              Parts!Unfinished, Parts!IsOpen, Parts!Received, Parts!StoredIn
<1>8. QED
  BY <1>1, <1>2, <1>3, <1>4, <1>5, <1>6, <1>7 DEF Parts!Next

\* So it always holds.
LEMMA PartsInvHolds == PartsSpec => []PartsInv
BY PartsAssumption, PartsInit, PartsStep, PTL DEF PartsSpec, Parts!Spec

-----------------------------------------------------------------------------
(* What holds of every Reassembler *)

\* The table, the counters and the timers always have their types: in
\* particular _chars never goes below zero.
THEOREM ReassemblerTypeCorrect == PartsSpec => []Parts!TypeOK
BY PartsInvHolds, PTL DEF PartsInv

\* The memory bound counts just what is kept, and is kept to.
THEOREM AccountingHolds == PartsSpec => []Accounting
BY PartsInvHolds, PTL DEF PartsInv, Accounting

\* Every unfinished message has one timeout, and nothing else has any.
THEOREM OneTimerEachHolds == PartsSpec => []OneTimerEach
BY PartsInvHolds, PTL DEF PartsInv, OneTimerEach

\* What is open lacks a part, and its count is that of the different parts.
THEOREM UnfinishedHolds == PartsSpec => []Unfinished
BY PartsInvHolds, PTL DEF PartsInv, Unfinished

\* If a part makes its message whole, all the others were there.
LEMMA JoinIsWhole ==
  ASSUME PartsInv, NEW k \in Parts!Key, NEW part \in Parts!Part, Parts!Join(k, part)
  PROVE  \E last \in Parts!Index :
           /\ Parts!IsOpen(k) /\ ~Parts!IsOpen(k)'
           /\ Parts!Received(k) = (0 .. entry[k].n - 1) \ {last}
<1> USE DEF PartsInv
<1>1. /\ Parts!EntryFor(k, part).n = part.n
      /\ Parts!EntryFor(k, part).got = entry[k].got
      /\ Parts!EntryFor(k, part).count = entry[k].count
      /\ ~Parts!IsOpen(k) => entry[k].count = 0
      /\ part.i \in Parts!Index /\ part.n \in 2 .. MaxParts /\ part.i \in 0 .. part.n - 1
  BY EntryForFacts DEF Parts!Join, Parts!Accepts
<1>2. entry[k].count \in Nat
  BY DEF Parts!TypeOK, Parts!Entry
<1>3. Parts!IsOpen(k) /\ Parts!New(k, part) /\ entry[k].count + 1 = part.n
  BY <1>1, <1>2 DEF Parts!Join, Parts!WithPart, Parts!Unfinished, Parts!EntryFor
<1>4. entry[k].n = part.n
  BY <1>1, <1>3 DEF Parts!EntryFor
<1>5. Parts!Received(k) \subseteq 0 .. part.n - 1 /\ part.i \notin Parts!Received(k)
  BY <1>1, <1>3, <1>4 DEF Parts!Unfinished, Parts!Received, Parts!New
<1>6. IsFiniteSet(Parts!Received(k)) /\ Cardinality(Parts!Received(k)) + 1 = part.n
  BY PartsCount, <1>3, ReceivedFinite DEF Parts!Unfinished
<1>7. Cardinality(Parts!Received(k) \cup {part.i}) = part.n
  BY <1>5, <1>6, FS_AddElement
<1>8. IsFiniteSet(0 .. part.n - 1) /\ Cardinality(0 .. part.n - 1) = part.n
  BY PartsCount, <1>1, UpTo DEF Parts!ReassemblerAssumption
<1>9. Parts!Received(k) \cup {part.i} = 0 .. part.n - 1
  <2>1. Parts!Received(k) \cup {part.i} \in SUBSET (0 .. part.n - 1)
    BY <1>1, <1>5
  <2>2. QED
    BY <2>1, <1>7, <1>8, FS_Subset
<1>10. Parts!Received(k) = (0 .. entry[k].n - 1) \ {part.i}
  BY <1>4, <1>5, <1>9
<1>11. ~Parts!IsOpen(k)'
  BY DEF Parts!Join, Parts!Drop, Parts!IsOpen, Parts!TypeOK, Parts!NoEntry
<1>12. QED
  BY <1>1, <1>3, <1>10, <1>11

\* A message is handed over only when it is complete.
THEOREM WholeIsWholeHolds == PartsSpec => WholeIsWhole
<1>1. PartsInv /\ [Parts!Next]_Parts!vars =>
        [ said' = "whole" =>
            \E k \in Parts!Key : \E last \in Parts!Index :
              /\ Parts!IsOpen(k) /\ ~Parts!IsOpen(k)'
              /\ Parts!Received(k) = (0 .. entry[k].n - 1) \ {last} ]_Parts!vars
  <2> SUFFICES ASSUME PartsInv, Parts!Next, said' = "whole"
               PROVE  \E k \in Parts!Key : \E last \in Parts!Index :
                        /\ Parts!IsOpen(k) /\ ~Parts!IsOpen(k)'
                        /\ Parts!Received(k) = (0 .. entry[k].n - 1) \ {last}
    OBVIOUS
  <2>1. PICK k \in Parts!Key, part \in Parts!Part : Parts!Join(k, part)
    BY DEF Parts!Next, Parts!RejectMalformed, Parts!RejectDisagreeing, Parts!RejectTooMuch,
           Parts!Keep, Parts!Expire
  <2>2. QED
    BY <2>1, JoinIsWhole
<1>2. QED
  BY <1>1, PartsInvHolds, PTL DEF WholeIsWhole, Parts!WholeIsWhole, PartsSpec, Parts!Spec
=============================================================================
