-------------------------- MODULE SealedMail_proofs ---------------------------
(***************************************************************************)
(* Proofs about SealedMail, for any identities, calls, recipients and      *)
(* pieces: its types, that sendSealed serves its recipients in turn, and   *)
(* that no refusal to open a message's key is remembered.                  *)
(*                                                                         *)
(* What a call has sent is told by how far it has come (Progress); what it *)
(* sends it has not sent before, and until it is read by its recipient     *)
(* nothing is asked for it (OnTheWay), so that the openings of a message's *)
(* key are numbered without a gap and none has the number of one that      *)
(* failed (Openings).                                                      *)
(***************************************************************************)
EXTENDS SealedMail, FiniteSetTheorems, TLAPS

Envelope == [to : Identity, piece : Piece]
Slot == [step : {"away", "key", "body", "in", "bad"}, ask : Nat]
CallState == [step : {"new", "keys", "unknown", "sealing", "failed", "done"},
              lookups : SUBSET Identity, to : Nat \ {0}, piece : Nat]

\* How far a call has come is what it has sent.
Reached(c, r) ==
  /\ r.to \in 1 .. Len(To[c]) /\ r.piece \in 0 .. Pieces[c]
  /\ r.step \notin {"keys", "unknown"} => r.lookups = {}
  /\ r.step \in {"new", "keys", "unknown"} =>
       r.to = 1 /\ r.piece = 0 /\ \A e \in sent : e.piece[1] # c
  /\ r.step \in {"sealing", "failed"} =>
       \A m \in 1 .. Len(To[c]) :
         SentTo(c, To[c][m]) = IF m < r.to THEN 1 .. Pieces[c]
                               ELSE IF m = r.to THEN 1 .. r.piece - 1 ELSE {}
  /\ r.step = "done" => \A m \in 1 .. Len(To[c]) : SentTo(c, To[c][m]) = 1 .. Pieces[c]

Progress == \A c \in Call : Reached(c, call[c])

\* What was sent is once at most on the wire or in the post, and then not yet in
\* the mail.
Untouched(i, p) == mail[i][p] = [step |-> "away", ask |-> 0]

OnTheWay ==
  /\ \A m \in 1 .. Len(wire) :
       /\ wire[m] \in sent
       /\ Untouched(wire[m].to, wire[m].piece)
       /\ \A n \in 1 .. Len(wire) : wire[m] = wire[n] => m = n
       /\ \A n \in 1 .. Len(post[wire[m].to]) : post[wire[m].to][n] # wire[m].piece
  /\ \A i \in Identity : \A m \in 1 .. Len(post[i]) :
       /\ [to |-> i, piece |-> post[i][m]] \in sent
       /\ Untouched(i, post[i][m])
       /\ \A n \in 1 .. Len(post[i]) : post[i][m] = post[i][n] => m = n
  /\ \A i \in Identity, p \in Piece : [to |-> i, piece |-> p] \notin sent => Untouched(i, p)

\* The openings of a message's key are numbered from one on, and none is kept
\* that failed, nor two of a message.
Asks(i, c) == {mail[i][p].ask : p \in {q \in Piece : q[1] = c}} \ {0}

Remembers(i) == {keys[i][n] : n \in 1 .. Len(keys[i])}

Openings ==
  \A i \in Identity :
    /\ \A c \in Call : Asks(i, c) = 1 .. Begun(i, c) /\ Begun(i, c) \in Nat
    /\ \A a \in vault[i] \cup refused[i] \cup Remembers(i) : a.n <= Begun(i, a.call)
    /\ refused[i] \cap Remembers(i) = {}
    /\ \A m, n \in 1 .. Len(keys[i]) : keys[i][m].call = keys[i][n].call => m = n

MailInv == TypeOK /\ Progress /\ OnTheWay /\ Openings

-----------------------------------------------------------------------------
(* Pieces, and entries of sequences.                                       *)

\* A piece is of a call, and is one of its pieces.
LEMMA PieceParts ==
  ASSUME NEW p \in Piece
  PROVE  p[1] \in Call /\ p[2] \in 1 .. Pieces[p[1]] /\ p = <<p[1], p[2]>>
BY DEF Piece

\* What is numbered as a piece of a call is one.
LEMMA PieceOf ==
  ASSUME NEW c \in Call, NEW k \in 1 .. Pieces[c]
  PROVE  <<c, k>> \in Piece
BY DEF Piece

\* Two sequences joined, entry by entry.
LEMMA Joined ==
  ASSUME NEW S, NEW a \in Seq(S), NEW b \in Seq(S)
  PROVE  /\ a \o b \in Seq(S) /\ Len(a \o b) = Len(a) + Len(b)
         /\ \A m \in 1 .. Len(a) + Len(b) :
              (a \o b)[m] = IF m <= Len(a) THEN a[m] ELSE b[m - Len(a)]
<1>1. a \o b \in Seq(S) /\ Len(a \o b) = Len(a) + Len(b)
  OBVIOUS
<1>2. ASSUME NEW m \in 1 .. Len(a) + Len(b)
      PROVE  (a \o b)[m] = IF m <= Len(a) THEN a[m] ELSE b[m - Len(a)]
  OBVIOUS
<1> QED BY <1>1, <1>2

\* A sequence with one entry more.
LEMMA Appended ==
  ASSUME NEW S, NEW s \in Seq(S), NEW a \in S
  PROVE  /\ Append(s, a) \in Seq(S) /\ Len(Append(s, a)) = Len(s) + 1
         /\ Append(s, a) # <<>>
         /\ \A m \in 1 .. Len(s) + 1 : Append(s, a)[m] = IF m <= Len(s) THEN s[m] ELSE a
<1>1. Append(s, a) \in Seq(S) /\ Len(Append(s, a)) = Len(s) + 1
  OBVIOUS
<1>2. Append(s, a) # <<>>
  OBVIOUS
<1>3. \A m \in 1 .. Len(s) + 1 : Append(s, a)[m] = IF m <= Len(s) THEN s[m] ELSE a
  OBVIOUS
<1> QED BY <1>1, <1>2, <1>3

\* An entry goes: the rest stays, in order.
LEMMA EntryRemoved ==
  ASSUME NEW S, NEW s \in Seq(S), NEW n \in 1 .. Len(s)
  PROVE  /\ RemoveAt(s, n) \in Seq(S)
         /\ Len(RemoveAt(s, n)) = Len(s) - 1
         /\ \A m \in 1 .. Len(s) - 1 : RemoveAt(s, n)[m] = IF m < n THEN s[m] ELSE s[m + 1]
<1> DEFINE a == SubSeq(s, 1, n - 1)
           b == SubSeq(s, n + 1, Len(s))
<1>1. a \in Seq(S) /\ Len(a) = n - 1 /\ \A m \in 1 .. n - 1 : a[m] = s[m]
  OBVIOUS
<1>2. b \in Seq(S) /\ Len(b) = Len(s) - n /\ \A m \in 1 .. Len(s) - n : b[m] = s[n + m]
  OBVIOUS
<1>3. RemoveAt(s, n) = a \o b
  BY DEF RemoveAt
<1> HIDE DEF a, b
<1>4. /\ a \o b \in Seq(S) /\ Len(a \o b) = Len(a) + Len(b)
      /\ \A m \in 1 .. Len(a) + Len(b) : (a \o b)[m] = IF m <= Len(a) THEN a[m] ELSE b[m - Len(a)]
  BY <1>1, <1>2, Joined
<1>5. ASSUME NEW m \in 1 .. Len(s) - 1
      PROVE  RemoveAt(s, n)[m] = IF m < n THEN s[m] ELSE s[m + 1]
  <2>1. CASE m < n
    BY <1>1, <1>2, <1>3, <1>4, <2>1
  <2>2. CASE ~(m < n)
    <3>1. m - Len(a) \in 1 .. Len(s) - n /\ n + (m - Len(a)) = m + 1
      BY <1>1, <2>2
    <3> QED BY <1>1, <1>2, <1>3, <1>4, <2>2, <3>1
  <2> QED BY <2>1, <2>2
<1> QED BY <1>1, <1>2, <1>3, <1>4, <1>5

\* A message's key is forgotten: what is left was there before, is of other
\* messages, and has no more entries of a message than it had.
LEMMA Forgotten ==
  ASSUME NEW s \in Seq(Ask), NEW c \in Bytes,
         \A m, n \in 1 .. Len(s) : s[m].call = s[n].call => m = n
  PROVE  LET t == Without(s, c) IN
         /\ t \in Seq(Ask) /\ Len(t) <= Len(s)
         /\ \A n \in 1 .. Len(t) : t[n].call # c /\ \E m \in 1 .. Len(s) : t[n] = s[m]
         /\ \A m, n \in 1 .. Len(t) : t[m].call = t[n].call => m = n
<1> DEFINE t == Without(s, c)
<1>1. CASE ~\E n \in 1 .. Len(s) : s[n].call = c
  BY <1>1 DEF Without
<1>2. CASE \E n \in 1 .. Len(s) : s[n].call = c
  <2> DEFINE n == CHOOSE n \in 1 .. Len(s) : s[n].call = c
  <2>1. n \in 1 .. Len(s) /\ s[n].call = c
    BY <1>2
  <2>2. t = RemoveAt(s, n)
    BY <1>2 DEF Without
  <2> HIDE DEF t, n
  <2>3. /\ t \in Seq(Ask) /\ Len(t) = Len(s) - 1
        /\ \A m \in 1 .. Len(t) : t[m] = IF m < n THEN s[m] ELSE s[m + 1]
    BY <2>1, <2>2, EntryRemoved
  <2> DEFINE Old(m) == IF m < n THEN m ELSE m + 1
  <2>4. \A m \in 1 .. Len(t) : Old(m) \in 1 .. Len(s) /\ Old(m) # n /\ t[m] = s[Old(m)]
    BY <2>1, <2>3
  <2>5. \A m, k \in 1 .. Len(t) : Old(m) = Old(k) => m = k
    BY <2>1, <2>3
  <2> HIDE DEF Old
  <2>6. \A m \in 1 .. Len(t) : t[m].call # c
    BY <2>1, <2>4
  <2>7. \A m, k \in 1 .. Len(t) : t[m].call = t[k].call => m = k
    BY <2>4, <2>5
  <2>8. Len(t) <= Len(s)
    BY <2>3
  <2> QED BY <2>3, <2>4, <2>6, <2>7, <2>8 DEF t
<1> QED BY <1>1, <1>2

NoTwo(s) == \A m, n \in 1 .. Len(s) : s[m].call = s[n].call => m = n
NotAmong(s, a) == \A m \in 1 .. Len(s) : s[m].call # a.call
OfThese(t, s, a) == \A n \in 1 .. Len(t) : t[n] = a \/ \E m \in 1 .. Len(s) : t[n] = s[m]

\* A key is remembered: one more, at the cost of the oldest of too many.
LEMMA Remembered ==
  ASSUME NEW s \in Seq(Ask), NEW a \in Ask, Len(s) <= MaxKeys, MaxKeys \in Nat \ {0},
         NotAmong(s, a), NoTwo(s)
  PROVE  LET t == Remember(s, a) IN
         t \in Seq(Ask) /\ Len(t) <= MaxKeys /\ OfThese(t, s, a) /\ NoTwo(t)
<1> DEFINE all == Append(s, a)
           t == Remember(s, a)
<1>1. /\ all \in Seq(Ask) /\ Len(all) = Len(s) + 1 /\ all # <<>>
      /\ \A m \in 1 .. Len(all) : all[m] = IF m <= Len(s) THEN s[m] ELSE a
  BY Appended
<1>2. t = IF Len(all) > MaxKeys THEN Tail(all) ELSE all
  BY DEF Remember
<1> HIDE DEF all, t
<1>3. \A m, n \in 1 .. Len(all) : all[m].call = all[n].call => m = n
  BY <1>1 DEF NotAmong, NoTwo
<1>4. \A n \in 1 .. Len(all) : all[n] = a \/ \E m \in 1 .. Len(s) : all[n] = s[m]
  BY <1>1
<1>5. CASE ~(Len(all) > MaxKeys)
  BY <1>1, <1>2, <1>3, <1>4, <1>5 DEF t, OfThese, NoTwo
<1>6. CASE Len(all) > MaxKeys
  <2>1. /\ t \in Seq(Ask) /\ Len(t) = Len(all) - 1
        /\ \A m \in 1 .. Len(t) : m + 1 \in 1 .. Len(all) /\ t[m] = all[m + 1]
    BY <1>1, <1>2, <1>6
  <2>2. \A n \in 1 .. Len(t) : t[n] = a \/ \E m \in 1 .. Len(s) : t[n] = s[m]
    BY <1>4, <2>1
  <2>3. \A m, n \in 1 .. Len(t) : t[m].call = t[n].call => m = n
    BY <1>3, <2>1
  <2>4. Len(t) <= MaxKeys
    BY <1>1, <2>1
  <2> QED BY <2>1, <2>2, <2>3, <2>4 DEF t, OfThese, NoTwo
<1> QED BY <1>5, <1>6

\* One piece of a recipient's mail changes ...
LEMMA MailSet ==
  ASSUME mail \in [Identity -> [Piece -> Slot]], NEW i \in Identity, NEW p \in Piece,
         NEW v \in Slot, mail' = [mail EXCEPT ![i][p] = v]
  PROVE  /\ mail' \in [Identity -> [Piece -> Slot]]
         /\ \A j \in Identity, q \in Piece :
              mail'[j][q] = IF j = i /\ q = p THEN v ELSE mail[j][q]
<1>1. [mail[i] EXCEPT ![p] = v] \in [Piece -> Slot]
  OBVIOUS
<1>2. mail' = [mail EXCEPT ![i] = [mail[i] EXCEPT ![p] = v]]
  OBVIOUS
<1> QED BY <1>1, <1>2

\* ... or those of its pieces that wait for a key.
LEMMA MailSettled ==
  ASSUME mail \in [Identity -> [Piece -> Slot]], NEW i \in Identity, NEW a,
         NEW step \in {"body", "bad"}, mail' = Settle(i, a, step)
  PROVE  /\ mail' \in [Identity -> [Piece -> Slot]]
         /\ \A j \in Identity, q \in Piece :
              /\ mail'[j][q].ask = mail[j][q].ask
              /\ mail[j][q].step = "away" => mail'[j][q] = mail[j][q]
<1> DEFINE New(p) == IF p[1] = a.call /\ mail[i][p] = [step |-> "key", ask |-> a.n]
                     THEN [mail[i][p] EXCEPT !.step = step] ELSE mail[i][p]
<1>1. \A p \in Piece : mail[i][p] \in Slot
  OBVIOUS
<1>2. \A p \in Piece : New(p) \in Slot /\ New(p).ask = mail[i][p].ask
                       /\ (mail[i][p].step = "away" => New(p) = mail[i][p])
  BY <1>1 DEF Slot
<1>3. mail' = [mail EXCEPT ![i] = [p \in Piece |-> New(p)]]
  BY DEF Settle
<1> HIDE DEF New
<1>4. \A j \in Identity, q \in Piece : mail'[j][q] = IF j = i THEN New(q) ELSE mail[j][q]
  BY <1>3
<1>5. mail' \in [Identity -> [Piece -> Slot]]
  BY <1>2, <1>3
<1> QED BY <1>2, <1>4, <1>5

-----------------------------------------------------------------------------
(* Types.                                                                  *)

\* The types, with the names of the records above.
LEMMA MailTypes ==
  TypeOK <=>
    /\ call \in [Call -> CallState]
    /\ link \in BOOLEAN
    /\ wire \in Seq(Envelope)
    /\ post \in [Identity -> Seq(Piece)]
    /\ mail \in [Identity -> [Piece -> Slot]]
    /\ keys \in [Identity -> Seq(Ask)] /\ \A i \in Identity : Len(keys[i]) <= MaxKeys
    /\ vault \in [Identity -> SUBSET Ask]
    /\ refused \in [Identity -> SUBSET Ask]
    /\ app \in [Identity -> Seq(Call)]
    /\ sent \subseteq Envelope
    /\ arrived \in [Identity -> Seq(Piece)]
    /\ troubles \in 0 .. MaxTroubles
BY DEF TypeOK, CallState, Envelope, Slot

\* At first nothing is asked, sent or on its way.
LEMMA MailInitOK == Init => MailInv
<1> SUFFICES ASSUME Init PROVE MailInv
  OBVIOUS
<1> USE DEF Init
<1>1. TypeOK
  <2>1. call \in [Call -> CallState]
    BY DEF CallState
  <2>2. mail \in [Identity -> [Piece -> Slot]]
    BY DEF Slot
  <2>3. troubles \in 0 .. MaxTroubles /\ \A i \in Identity : Len(keys[i]) <= MaxKeys
    BY SealedMailAssumptions DEF SealedMailAssumptions
  <2> QED BY <2>1, <2>2, <2>3, MailTypes
<1>2. Progress
  <2> SUFFICES ASSUME NEW c \in Call
               PROVE  1 \in 1 .. Len(To[c]) /\ 0 \in 0 .. Pieces[c]
    BY DEF Progress, Reached
  <2>1. To[c] \in Seq(Identity) /\ To[c] # <<>> /\ Pieces[c] \in Nat
    BY SealedMailAssumptions DEF SealedMailAssumptions
  <2> QED BY <2>1
<1>3. OnTheWay
  BY DEF OnTheWay, Untouched
<1>4. Openings
  <2> SUFFICES ASSUME NEW i \in Identity, NEW c \in Call
               PROVE  Asks(i, c) = 1 .. Begun(i, c) /\ Begun(i, c) \in Nat
    BY DEF Openings, Remembers
  <2>1. Asks(i, c) = {} /\ Begun(i, c) = Cardinality(Asks(i, c))
    BY DEF Asks, Begun
  <2>2. Begun(i, c) = 0
    BY <2>1, FS_EmptySet
  <2> QED BY <2>1, <2>2
<1> QED BY <1>1, <1>2, <1>3, <1>4 DEF MailInv

\* A call's record changes.
LEMMA CallSet ==
  ASSUME call \in [Call -> CallState], NEW c \in Call, NEW r, r \in CallState,
         call' = [call EXCEPT ![c] = r]
  PROVE  /\ call' \in [Call -> CallState]
         /\ \A d \in Call : call'[d] = IF d = c THEN r ELSE call[d]
OBVIOUS

\* What a call does at each of its steps.
LEMMA SendSealedIs ==
  ASSUME call \in [Call -> CallState], NEW c \in Call, SendSealed(c)
  PROVE  \E r \in CallState :
           /\ call' = [call EXCEPT ![c] = r] /\ call[c].step = "new" /\ r.step = "keys"
           /\ r.to = call[c].to /\ r.piece = call[c].piece
<1> DEFINE left == ToSet(To[c])
           r == [call[c] EXCEPT !.step = "keys", !.lookups = left]
<1>1. left \in SUBSET Identity
  BY SealedMailAssumptions DEF ToSet, SealedMailAssumptions
<1>2. call' = [call EXCEPT ![c] = r] /\ call[c].step = "new"
  BY DEF SendSealed
<1> HIDE DEF left
<1>3. r \in CallState /\ r.step = "keys" /\ r.to = call[c].to /\ r.piece = call[c].piece
  BY <1>1 DEF CallState
<1> QED BY <1>2, <1>3

\* ... a lookup is answered; only the last of them lets the sealing begin.
LEMMA KeyAnswerIs ==
  ASSUME call \in [Call -> CallState], NEW c \in Call, NEW i \in Identity,
         KeyFound(c, i) \/ KeyMissing(c, i)
  PROVE  \E r \in CallState :
           /\ call' = [call EXCEPT ![c] = r] /\ call[c].lookups # {}
           /\ r.to = call[c].to /\ r.piece = call[c].piece
           /\ r.step \in {call[c].step, "unknown"} \/ (call[c].step = "keys" /\ r.step = "sealing")
           /\ r.step \notin {"keys", "unknown"} =>
                r.lookups = {} \/ call[c].step \notin {"keys", "unknown"}
<1> DEFINE left == call[c].lookups \ {i}
           u == [call[c] EXCEPT !.lookups = left, !.step = AllKeys(c, left)]
           v == [call[c] EXCEPT !.lookups = left, !.step = "unknown"]
<1>0. left \in SUBSET Identity /\ call[c] \in CallState /\ call[c].lookups # {}
  BY DEF CallState, KeyFound, KeyMissing
<1>1. AllKeys(c, left) = IF left = {} /\ call[c].step = "keys" THEN "sealing" ELSE call[c].step
  BY DEF AllKeys
<1>2. call' = [call EXCEPT ![c] = u] \/ call' = [call EXCEPT ![c] = v]
  BY DEF KeyFound, KeyMissing
<1> HIDE DEF left
<1>3. /\ u \in CallState /\ u.to = call[c].to /\ u.piece = call[c].piece
      /\ u.lookups = left /\ u.step = AllKeys(c, left)
  BY <1>0, <1>1 DEF CallState
<1>4. /\ v \in CallState /\ v.to = call[c].to /\ v.piece = call[c].piece
      /\ v.lookups = left /\ v.step = "unknown"
  BY <1>0 DEF CallState
<1> HIDE DEF u, v
<1> QED BY <1>0, <1>1, <1>2, <1>3, <1>4

\* Onward: the next piece, the next recipient, the end.
LEMMA OnwardIs ==
  ASSUME NEW c \in Call, call[c] \in CallState,
         call[c].step = "sealing", call[c].to \in 1 .. Len(To[c]),
         call[c].piece \in 1 .. Pieces[c]
  PROVE  LET r == call[c]
             s == Onward(c)
         IN /\ s \in CallState /\ s.lookups = r.lookups
            /\ s.to \in 1 .. Len(To[c]) /\ s.piece \in 0 .. Pieces[c]
            /\ \/ r.piece < Pieces[c] /\ s.step = "sealing" /\ s.to = r.to /\ s.piece = r.piece + 1
               \/ /\ r.piece = Pieces[c] /\ r.to < Len(To[c])
                  /\ s.step = "sealing" /\ s.to = r.to + 1 /\ s.piece = 0
               \/ r.piece = Pieces[c] /\ r.to = Len(To[c]) /\ s.step = "done"
<1> DEFINE r == call[c]
<1>0. Pieces[c] \in Nat /\ Len(To[c]) \in Nat
  BY SealedMailAssumptions DEF SealedMailAssumptions
<1>1. r.to \in Nat /\ r.piece \in Nat /\ r.lookups \in SUBSET Identity
  BY DEF CallState
<1> DEFINE more == r.piece + 1
           next == r.to + 1
<1>a. more \in Nat /\ next \in Nat \ {0} /\ more = r.piece + 1 /\ next = r.to + 1
  BY <1>1
<1>2. CASE r.piece < Pieces[c]
  <2>1. Onward(c) = [r EXCEPT !.piece = more]
    BY <1>2 DEF Onward
  <2> HIDE DEF more
  <2>2. /\ Onward(c) \in CallState /\ Onward(c).lookups = r.lookups /\ Onward(c).to = r.to
        /\ Onward(c).step = "sealing" /\ Onward(c).piece = more
    BY <1>a, <2>1 DEF CallState
  <2> QED BY <1>0, <1>1, <1>2, <1>a, <2>2
<1>3. CASE ~(r.piece < Pieces[c]) /\ r.to < Len(To[c])
  <2>1. Onward(c) = [r EXCEPT !.to = next, !.piece = 0]
    BY <1>3 DEF Onward
  <2>b. next \in Nat \ {0} /\ r.step = "sealing" /\ r \in CallState /\ 0 \in Nat
    BY <1>a
  <2> HIDE DEF next, more, r
  <2>2. /\ Onward(c) \in CallState /\ Onward(c).lookups = r.lookups /\ Onward(c).to = next
        /\ Onward(c).step = "sealing" /\ Onward(c).piece = 0
    BY <2>b, <2>1 DEF CallState
  <2> QED BY <1>0, <1>1, <1>3, <1>a, <2>2 DEF r
<1>4. CASE ~(r.piece < Pieces[c]) /\ ~(r.to < Len(To[c]))
  <2>1. Onward(c) = [r EXCEPT !.step = "done"]
    BY <1>4 DEF Onward
  <2> HIDE DEF more, next
  <2>2. /\ Onward(c) \in CallState /\ Onward(c).lookups = r.lookups /\ Onward(c).to = r.to
        /\ Onward(c).step = "done" /\ Onward(c).piece = r.piece
    BY <2>1 DEF CallState
  <2> QED BY <1>0, <1>1, <1>4, <2>2
<1> QED BY <1>2, <1>3, <1>4

\* A piece sealed for the recipient whose turn it is.
Sealed(c) == [to |-> To[c][call[c].to], piece |-> <<c, call[c].piece>>]

\* It is put on the wire, or without a connection the call fails.
LEMMA PieceSealedIs ==
  ASSUME MailInv, NEW c \in Call, PieceSealed(c)
  PROVE  /\ call[c] \in CallState /\ call[c].step = "sealing"
         /\ call[c].to \in 1 .. Len(To[c]) /\ call[c].piece \in 1 .. Pieces[c]
         /\ Sealed(c) \in Envelope
         /\ Sealed(c).to = To[c][call[c].to] /\ Sealed(c).piece = <<c, call[c].piece>>
         /\ \/ /\ wire' = Append(wire, Sealed(c)) /\ sent' = sent \cup {Sealed(c)}
               /\ call' = [call EXCEPT ![c] = Onward(c)]
            \/ /\ call' = [call EXCEPT ![c] = [call[c] EXCEPT !.step = "failed"]]
               /\ UNCHANGED <<wire, sent>>
         /\ UNCHANGED <<link, post, receiving, troubles>>
<1>0. To[c] \in Seq(Identity) /\ Pieces[c] \in Nat
  BY SealedMailAssumptions DEF SealedMailAssumptions
<1>1. /\ call[c] \in CallState /\ call[c].step = "sealing" /\ call[c].piece > 0
      /\ call[c].to \in 1 .. Len(To[c]) /\ call[c].piece \in 0 .. Pieces[c]
  BY MailTypes DEF MailInv, Progress, Reached, PieceSealed
<1>2. call[c].piece \in 1 .. Pieces[c]
  BY <1>0, <1>1
<1>3. To[c][call[c].to] \in Identity /\ <<c, call[c].piece>> \in Piece
  BY <1>0, <1>1, <1>2, PieceOf
<1>4. \/ /\ wire' = Append(wire, Sealed(c)) /\ sent' = sent \cup {Sealed(c)}
         /\ call' = [call EXCEPT ![c] = Onward(c)]
      \/ /\ call' = [call EXCEPT ![c] = [call[c] EXCEPT !.step = "failed"]]
         /\ UNCHANGED <<wire, sent>>
  BY DEF PieceSealed, Sealed
<1>5. UNCHANGED <<link, post, receiving, troubles>>
  BY DEF PieceSealed
<1> QED BY <1>1, <1>2, <1>3, <1>4, <1>5 DEF Sealed, Envelope

\* A call goes on with its sealing, or gives it up.
LEMMA SealerIs ==
  ASSUME call \in [Call -> CallState], NEW c \in Call, SealerReady(c) \/ SealFails(c)
  PROVE  \E r \in CallState :
           /\ call' = [call EXCEPT ![c] = r] /\ call[c].step = "sealing"
           /\ r.to = call[c].to /\ r.lookups = call[c].lookups
           /\ \/ r.step = "failed" /\ r.piece = call[c].piece
              \/ r.step = "sealing" /\ r.piece = 1 /\ call[c].piece = 0
<1> DEFINE u == [call[c] EXCEPT !.piece = 1]
           v == [call[c] EXCEPT !.step = "failed"]
<1>1. /\ u \in CallState /\ u.step = call[c].step /\ u.piece = 1
      /\ u.to = call[c].to /\ u.lookups = call[c].lookups
  BY DEF CallState
<1>2. /\ v \in CallState /\ v.step = "failed" /\ v.piece = call[c].piece
      /\ v.to = call[c].to /\ v.lookups = call[c].lookups
  BY DEF CallState
<1>3. CASE SealerReady(c)
  <2>1. call' = [call EXCEPT ![c] = u] /\ call[c].step = "sealing" /\ call[c].piece = 0
    BY <1>3 DEF SealerReady
  <2> HIDE DEF u, v
  <2> QED BY <1>1, <2>1
<1>4. CASE SealFails(c)
  <2>1. call' = [call EXCEPT ![c] = v] /\ call[c].step = "sealing"
    BY <1>4 DEF SealFails
  <2> HIDE DEF u, v
  <2> QED BY <1>2, <2>1
<1> QED BY <1>3, <1>4

-----------------------------------------------------------------------------
(* The sender's steps.                                                     *)

\* A call changes and nothing is sent: the others' progress is what it was.
LEMMA CallProgress ==
  ASSUME MailInv, NEW c \in Call, NEW r \in CallState, UNCHANGED sent,
         call' = [call EXCEPT ![c] = r], Reached(c, r)
  PROVE  call' \in [Call -> CallState] /\ Progress'
<1>1. /\ call' \in [Call -> CallState]
      /\ \A d \in Call : call'[d] = IF d = c THEN r ELSE call[d]
  BY MailTypes, CallSet DEF MailInv
<1>2. ASSUME NEW d \in Call PROVE Reached(d, call'[d])
  BY <1>1 DEF MailInv, Progress
<1>3. ASSUME NEW d \in Call PROVE Reached(d, call[d])'
  BY <1>2 DEF Reached, SentTo
<1> QED BY <1>1, <1>3 DEF Progress

\* What nothing was sent of has reached nobody.
LEMMA NothingSent ==
  ASSUME NEW c \in Call, \A e \in sent : e.piece[1] # c
  PROVE  \A i \in Identity : SentTo(c, i) = {}
<1> SUFFICES ASSUME NEW i \in Identity, NEW k \in SentTo(c, i) PROVE FALSE
  OBVIOUS
<1> QED BY DEF SentTo

\* It was not sent before.
LEMMA SealedNotSent ==
  ASSUME MailInv, NEW c \in Call, call[c].step = "sealing",
         call[c].piece \in 1 .. Pieces[c], call[c].to \in 1 .. Len(To[c])
  PROVE  Sealed(c) \notin sent
<1> DEFINE i == To[c][call[c].to]
           k == call[c].piece
<1>1. SentTo(c, i) = 1 .. k - 1
  BY DEF MailInv, Progress, Reached
<1>2. k \notin 1 .. k - 1
  BY SealedMailAssumptions DEF SealedMailAssumptions
<1>3. [to |-> i, piece |-> <<c, k>>] \notin sent
  BY <1>1, <1>2 DEF SentTo
<1> QED BY <1>3 DEF Sealed

\* One call more has sent a piece: its progress is one piece more.
LEMMA SentProgress ==
  ASSUME MailInv, NEW c \in Call, call[c].step = "sealing",
         call[c].piece \in 1 .. Pieces[c], call[c].to \in 1 .. Len(To[c]),
         sent' = sent \cup {Sealed(c)}, call' = [call EXCEPT ![c] = Onward(c)]
  PROVE  call' \in [Call -> CallState] /\ Progress'
<1> DEFINE r == call[c]
           s == Onward(c)
<1>0. /\ To[c] \in Seq(Identity) /\ Len(To[c]) \in Nat /\ Pieces[c] \in Nat
      /\ \A m, n \in 1 .. Len(To[c]) : To[c][m] = To[c][n] => m = n
  BY SealedMailAssumptions DEF SealedMailAssumptions, IsInjective
<1>1. r \in CallState /\ Reached(c, r)
  BY MailTypes DEF MailInv, Progress
<1>2. /\ s \in CallState /\ s.lookups = r.lookups
      /\ s.to \in 1 .. Len(To[c]) /\ s.piece \in 0 .. Pieces[c]
      /\ \/ r.piece < Pieces[c] /\ s.step = "sealing" /\ s.to = r.to /\ s.piece = r.piece + 1
         \/ /\ r.piece = Pieces[c] /\ r.to < Len(To[c])
            /\ s.step = "sealing" /\ s.to = r.to + 1 /\ s.piece = 0
         \/ r.piece = Pieces[c] /\ r.to = Len(To[c]) /\ s.step = "done"
  BY <1>1, OnwardIs
<1> HIDE DEF s
<1>3. /\ call' \in [Call -> CallState]
      /\ \A d \in Call : call'[d] = IF d = c THEN s ELSE call[d]
  BY <1>2, MailTypes, CallSet DEF MailInv, s
<1>4. \A d \in Call, i \in Identity :
        SentTo(d, i)' = IF d = c /\ i = To[c][r.to] THEN SentTo(d, i) \cup {r.piece}
                        ELSE SentTo(d, i)
  <2> SUFFICES ASSUME NEW d \in Call, NEW i \in Identity
               PROVE  SentTo(d, i)' = IF d = c /\ i = To[c][r.to]
                                      THEN SentTo(d, i) \cup {r.piece} ELSE SentTo(d, i)
    OBVIOUS
  <2>1. \A k \in 1 .. Pieces[d] :
          [to |-> i, piece |-> <<d, k>>] = Sealed(c) <=> d = c /\ i = To[c][r.to] /\ k = r.piece
    BY DEF Sealed
  <2>2. \A k \in 1 .. Pieces[d] :
          [to |-> i, piece |-> <<d, k>>] \in sent' <=>
            \/ [to |-> i, piece |-> <<d, k>>] \in sent
            \/ d = c /\ i = To[c][r.to] /\ k = r.piece
    BY <2>1
  <2> QED BY <2>2 DEF SentTo
<1>5. \A m \in 1 .. Len(To[c]) :
        SentTo(c, To[c][m])' = IF m < r.to THEN 1 .. Pieces[c]
                               ELSE IF m = r.to THEN 1 .. r.piece ELSE {}
  <2> SUFFICES ASSUME NEW m \in 1 .. Len(To[c])
               PROVE  SentTo(c, To[c][m])' = IF m < r.to THEN 1 .. Pieces[c]
                                             ELSE IF m = r.to THEN 1 .. r.piece ELSE {}
    OBVIOUS
  <2>1. SentTo(c, To[c][m]) = IF m < r.to THEN 1 .. Pieces[c]
                              ELSE IF m = r.to THEN 1 .. r.piece - 1 ELSE {}
    BY <1>1 DEF Reached
  <2>2. To[c][m] \in Identity /\ (To[c][m] = To[c][r.to] <=> m = r.to)
    BY <1>0
  <2>3. (1 .. r.piece - 1) \cup {r.piece} = 1 .. r.piece
    BY <1>0
  <2>4. m = r.to => ~(m < r.to)
    BY <1>0
  <2> QED BY <1>4, <2>1, <2>2, <2>3, <2>4
<1>6. Reached(c, call[c])'
  <2>0. call'[c] = s
    BY <1>3
  <2>1. (\A e \in sent : e.piece[1] # c)' => s.step \notin {"new", "keys", "unknown"}
    BY <1>2
  <2>2. s.lookups = {}
    BY <1>1, <1>2 DEF Reached
  <2>3. CASE r.piece < Pieces[c] /\ s.step = "sealing" /\ s.to = r.to /\ s.piece = r.piece + 1
    <3>1. s.piece - 1 = r.piece
      BY <2>3, <1>0
    <3> QED BY <1>2, <1>5, <2>0, <2>2, <2>3, <3>1 DEF Reached
  <2>4. CASE /\ r.piece = Pieces[c] /\ r.to < Len(To[c])
             /\ s.step = "sealing" /\ s.to = r.to + 1 /\ s.piece = 0
    <3>1. \A m \in 1 .. Len(To[c]) :
            /\ m < s.to <=> m < r.to \/ m = r.to
            /\ 1 .. s.piece - 1 = {}
      BY <1>0, <2>4
    <3>2. \A m \in 1 .. Len(To[c]) :
            SentTo(c, To[c][m])' = IF m < s.to THEN 1 .. Pieces[c]
                                   ELSE IF m = s.to THEN 1 .. s.piece - 1 ELSE {}
      BY <1>5, <2>4, <3>1
    <3> QED BY <1>2, <2>0, <2>2, <2>4, <3>2 DEF Reached
  <2>5. CASE r.piece = Pieces[c] /\ r.to = Len(To[c]) /\ s.step = "done"
    <3>1. \A m \in 1 .. Len(To[c]) : m < r.to \/ m = r.to
      BY <1>0, <2>5
    <3>2. \A m \in 1 .. Len(To[c]) : SentTo(c, To[c][m])' = 1 .. Pieces[c]
      BY <1>5, <2>5, <3>1
    <3> QED BY <1>2, <2>0, <2>2, <2>5, <3>2 DEF Reached
  <2> QED BY <1>2, <2>3, <2>4, <2>5
<1>7. ASSUME NEW d \in Call, d # c PROVE Reached(d, call[d])'
  <2>1. Reached(d, call[d]) /\ call'[d] = call[d]
    BY <1>3, <1>7 DEF MailInv, Progress
  <2>2. \A i \in Identity : SentTo(d, i)' = SentTo(d, i)
    BY <1>4, <1>7
  <2>3. \A m \in 1 .. Len(To[d]) : To[d][m] \in Identity
    BY SealedMailAssumptions DEF SealedMailAssumptions
  <2>4. (\A e \in sent : e.piece[1] # d) => (\A e \in sent : e.piece[1] # d)'
    BY <1>7 DEF Sealed
  <2>5. ASSUME call[d].step \in {"sealing", "failed"}, NEW m \in 1 .. Len(To[d])
        PROVE  SentTo(d, To[d][m])' = IF m < call[d].to THEN 1 .. Pieces[d]
                                      ELSE IF m = call[d].to THEN 1 .. call[d].piece - 1 ELSE {}
    BY <2>1, <2>2, <2>3, <2>5 DEF Reached
  <2>6. ASSUME call[d].step = "done", NEW m \in 1 .. Len(To[d])
        PROVE  SentTo(d, To[d][m])' = 1 .. Pieces[d]
    BY <2>1, <2>2, <2>3, <2>6 DEF Reached
  <2> QED BY <2>1, <2>4, <2>5, <2>6 DEF Reached
<1> QED BY <1>3, <1>6, <1>7 DEF Progress

-----------------------------------------------------------------------------
(* What is on the way.                                                     *)

\* Nothing new on the wire or in the post, and what was untouched still is.
LEMMA SameWay ==
  ASSUME MailInv, UNCHANGED <<wire, post, sent>>,
         \A i \in Identity, p \in Piece : Untouched(i, p) => Untouched(i, p)'
  PROVE  OnTheWay'
<1>0. \A m \in 1 .. Len(wire) : wire[m] \in Envelope
  BY MailTypes DEF MailInv
<1>1. \A m \in 1 .. Len(wire) : wire[m].to \in Identity /\ wire[m].piece \in Piece
  BY <1>0 DEF Envelope
<1>2. \A i \in Identity : \A m \in 1 .. Len(post[i]) : post[i][m] \in Piece
  BY MailTypes DEF MailInv
<1> HIDE DEF Untouched
<1>3. \A m \in 1 .. Len(wire) :
        /\ wire[m] \in sent
        /\ Untouched(wire[m].to, wire[m].piece)'
        /\ \A n \in 1 .. Len(wire) : wire[m] = wire[n] => m = n
        /\ \A n \in 1 .. Len(post[wire[m].to]) : post[wire[m].to][n] # wire[m].piece
  BY <1>1 DEF MailInv, OnTheWay
<1>4. \A i \in Identity : \A m \in 1 .. Len(post[i]) :
        /\ [to |-> i, piece |-> post[i][m]] \in sent
        /\ Untouched(i, post[i][m])'
        /\ \A n \in 1 .. Len(post[i]) : post[i][m] = post[i][n] => m = n
  BY <1>2 DEF MailInv, OnTheWay
<1>5. \A i \in Identity, p \in Piece :
        [to |-> i, piece |-> p] \notin sent => Untouched(i, p)'
  BY DEF MailInv, OnTheWay
<1> QED BY <1>3, <1>4, <1>5 DEF OnTheWay, Untouched

\* A piece not sent before is put on the wire.
LEMMA SentWay ==
  ASSUME MailInv, NEW e \in Envelope, e \notin sent, wire' = Append(wire, e),
         sent' = sent \cup {e}, UNCHANGED <<post, mail>>
  PROVE  OnTheWay' /\ wire' \in Seq(Envelope)
<1>1. /\ wire' \in Seq(Envelope) /\ Len(wire') = Len(wire) + 1
      /\ \A m \in 1 .. Len(wire) + 1 : wire'[m] = IF m <= Len(wire) THEN wire[m] ELSE e
  BY MailTypes, Appended DEF MailInv
<1>2. Len(wire) \in Nat /\ e.to \in Identity /\ e.piece \in Piece
      /\ e = [to |-> e.to, piece |-> e.piece]
  BY MailTypes DEF MailInv, Envelope
<1>3. \A m \in 1 .. Len(wire) : wire[m] \in sent /\ wire[m] # e
  BY DEF MailInv, OnTheWay
<1>4. Untouched(e.to, e.piece) /\ \A n \in 1 .. Len(post[e.to]) : post[e.to][n] # e.piece
  BY <1>2 DEF MailInv, OnTheWay
<1> USE DEF Untouched
<1>5. ASSUME NEW m \in 1 .. Len(wire')
      PROVE  /\ wire'[m] \in sent'
             /\ mail[wire'[m].to][wire'[m].piece] = [step |-> "away", ask |-> 0]
             /\ \A n \in 1 .. Len(wire') : wire'[m] = wire'[n] => m = n
             /\ \A n \in 1 .. Len(post[wire'[m].to]) : post[wire'[m].to][n] # wire'[m].piece
  <2>1. CASE m <= Len(wire)
    <3>1. m \in 1 .. Len(wire) /\ wire'[m] = wire[m]
      BY <1>1, <2>1
    <3>2. ASSUME NEW n \in 1 .. Len(wire'), wire'[m] = wire'[n] PROVE m = n
      <4>1. wire'[n] # e
        BY <1>3, <3>1, <3>2
      <4>2. n \in 1 .. Len(wire) /\ wire'[n] = wire[n]
        BY <1>1, <1>2, <4>1
      <4> QED BY <3>1, <3>2, <4>2 DEF MailInv, OnTheWay
    <3>3. /\ wire[m] \in sent /\ Untouched(wire[m].to, wire[m].piece)
          /\ \A n \in 1 .. Len(post[wire[m].to]) : post[wire[m].to][n] # wire[m].piece
      BY <3>1 DEF MailInv, OnTheWay
    <3> QED BY <3>1, <3>2, <3>3
  <2>2. CASE ~(m <= Len(wire))
    <3>1. wire'[m] = e /\ m = Len(wire) + 1
      BY <1>1, <1>2, <2>2
    <3>2. ASSUME NEW n \in 1 .. Len(wire'), wire'[m] = wire'[n] PROVE m = n
      <4>1. ~(n <= Len(wire))
        BY <1>1, <1>2, <1>3, <3>1, <3>2
      <4> QED BY <1>1, <1>2, <3>1, <4>1
    <3> QED BY <1>4, <3>1, <3>2
  <2> QED BY <2>1, <2>2
<1>6. \A i \in Identity : \A m \in 1 .. Len(post[i]) :
        /\ [to |-> i, piece |-> post[i][m]] \in sent'
        /\ mail[i][post[i][m]] = [step |-> "away", ask |-> 0]
        /\ \A n \in 1 .. Len(post[i]) : post[i][m] = post[i][n] => m = n
  BY DEF MailInv, OnTheWay
<1>7. \A i \in Identity, p \in Piece :
        [to |-> i, piece |-> p] \notin sent' => mail[i][p] = [step |-> "away", ask |-> 0]
  BY DEF MailInv, OnTheWay
<1> QED BY <1>1, <1>5, <1>6, <1>7 DEF OnTheWay

\* The wire is lost, and with it only what was on it.
LEMMA Lost ==
  ASSUME MailInv, wire' = <<>>, UNCHANGED <<post, mail, sent>>
  PROVE  OnTheWay' /\ wire' \in Seq(Envelope)
BY DEF MailInv, OnTheWay, Untouched

\* The rest of a sequence.
LEMMA Rest ==
  ASSUME NEW S, NEW s \in Seq(S), s # <<>>
  PROVE  /\ Len(s) \in Nat /\ 1 \in 1 .. Len(s) /\ Head(s) = s[1] /\ Head(s) \in S
         /\ Tail(s) \in Seq(S) /\ Len(Tail(s)) = Len(s) - 1
         /\ \A m \in 1 .. Len(Tail(s)) :
              m + 1 \in 1 .. Len(s) /\ m + 1 # 1 /\ Tail(s)[m] = s[m + 1]
<1>1. Len(s) \in Nat /\ 1 \in 1 .. Len(s) /\ Head(s) = s[1] /\ Head(s) \in S
  OBVIOUS
<1>2. Tail(s) \in Seq(S) /\ Len(Tail(s)) = Len(s) - 1
  OBVIOUS
<1>3. ASSUME NEW m \in 1 .. Len(Tail(s))
      PROVE  m + 1 \in 1 .. Len(s) /\ m + 1 # 1 /\ Tail(s)[m] = s[m + 1]
  BY <1>1, <1>2
<1> QED BY <1>1, <1>2, <1>3

\* The proxy reads the first frame of the wire.
LEMMA ReadWay ==
  ASSUME MailInv, wire # <<>>, wire' = Tail(wire),
         post' = [post EXCEPT ![Head(wire).to] = Append(@, Head(wire).piece)],
         UNCHANGED <<mail, sent>>
  PROVE  OnTheWay' /\ wire' \in Seq(Envelope) /\ post' \in [Identity -> Seq(Piece)]
<1> DEFINE e == Head(wire)
           q == post[e.to]
<1>1. /\ wire' \in Seq(Envelope) /\ e = wire[1] /\ e \in Envelope
      /\ 1 \in 1 .. Len(wire)
      /\ \A m \in 1 .. Len(wire') : m + 1 \in 1 .. Len(wire) /\ m + 1 # 1 /\ wire'[m] = wire[m + 1]
  BY MailTypes, Rest DEF MailInv
<1>2. /\ e \in sent /\ Untouched(e.to, e.piece)
      /\ \A n \in 1 .. Len(q) : q[n] # e.piece
  BY <1>1 DEF MailInv, OnTheWay
<1>3. e.to \in Identity /\ e.piece \in Piece /\ e = [to |-> e.to, piece |-> e.piece]
  BY <1>1 DEF Envelope
<1>4. post \in [Identity -> Seq(Piece)] /\ q \in Seq(Piece) /\ Len(q) \in Nat
  BY <1>3, MailTypes DEF MailInv
<1>5. \A m \in 1 .. Len(wire') : wire'[m] \in Envelope /\ wire'[m] # e
  BY <1>1 DEF MailInv, OnTheWay
<1> DEFINE qq == Append(q, e.piece)
<1>6. /\ qq \in Seq(Piece) /\ Len(qq) = Len(q) + 1
      /\ \A m \in 1 .. Len(q) + 1 : qq[m] = IF m <= Len(q) THEN q[m] ELSE e.piece
  BY <1>3, <1>4, Appended
<1>7. post' = [post EXCEPT ![e.to] = qq]
  OBVIOUS
<1> HIDE DEF e, q, qq
<1>8. /\ post' \in [Identity -> Seq(Piece)]
      /\ \A i \in Identity : post'[i] = IF i = e.to THEN qq ELSE post[i]
  BY <1>3, <1>4, <1>6, <1>7
<1>9. ASSUME NEW i \in Identity, NEW m \in 1 .. Len(post'[i])
      PROVE  /\ [to |-> i, piece |-> post'[i][m]] \in sent
             /\ Untouched(i, post'[i][m])
             /\ \A n \in 1 .. Len(post'[i]) : post'[i][m] = post'[i][n] => m = n
  <2>1. CASE i # e.to
    <3>1. post'[i] = post[i]
      BY <1>8, <2>1
    <3> QED BY <3>1 DEF MailInv, OnTheWay
  <2>2. CASE i = e.to
    <3>1. post'[i] = qq /\ post[i] = q
      BY <1>8, <2>2 DEF q
    <3>4. \A k \in 1 .. Len(q) :
            /\ [to |-> i, piece |-> q[k]] \in sent /\ Untouched(i, q[k])
            /\ \A n \in 1 .. Len(q) : q[k] = q[n] => k = n
      BY <3>1 DEF MailInv, OnTheWay
    <3>2. CASE m <= Len(q)
      <4>1. m \in 1 .. Len(q) /\ qq[m] = q[m] /\ q[m] # e.piece
        BY <1>2, <1>4, <1>6, <3>1, <3>2
      <4>2. ASSUME NEW n \in 1 .. Len(qq), qq[m] = qq[n] PROVE m = n
        <5>1. n \in 1 .. Len(q) /\ qq[n] = q[n]
          BY <1>4, <1>6, <4>1, <4>2
        <5> QED BY <3>4, <4>1, <4>2, <5>1
      <4> QED BY <3>1, <3>4, <4>1, <4>2
    <3>3. CASE ~(m <= Len(q))
      <4>1. m = Len(q) + 1 /\ qq[m] = e.piece
        BY <1>4, <1>6, <3>1, <3>3
      <4>2. ASSUME NEW n \in 1 .. Len(qq), qq[m] = qq[n] PROVE m = n
        <5>1. \A k \in 1 .. Len(q) : qq[k] = q[k] /\ q[k] # e.piece
          BY <1>2, <1>4, <1>6
        <5>2. qq[n] = e.piece
          BY <4>1, <4>2
        <5>3. n \notin 1 .. Len(q)
          BY <5>1, <5>2
        <5> QED BY <1>4, <1>6, <4>1, <5>3
      <4> QED BY <1>2, <1>3, <2>2, <3>1, <4>1, <4>2
    <3> QED BY <3>2, <3>3
  <2> QED BY <2>1, <2>2
<1>10. ASSUME NEW m \in 1 .. Len(wire')
       PROVE  /\ wire'[m] \in sent
              /\ Untouched(wire'[m].to, wire'[m].piece)
              /\ \A n \in 1 .. Len(wire') : wire'[m] = wire'[n] => m = n
              /\ \A n \in 1 .. Len(post'[wire'[m].to]) : post'[wire'[m].to][n] # wire'[m].piece
  <2> DEFINE f == wire'[m]
  <2>1. f \in sent /\ Untouched(f.to, f.piece) /\ f = wire[m + 1] /\ m + 1 \in 1 .. Len(wire)
    BY <1>1 DEF MailInv, OnTheWay
  <2>2. f.to \in Identity /\ f.piece \in Piece /\ f = [to |-> f.to, piece |-> f.piece]
    BY <1>5 DEF Envelope
  <2>3. \A n \in 1 .. Len(post[f.to]) : post[f.to][n] # f.piece
    BY <2>1 DEF MailInv, OnTheWay
  <2>4. f.to = e.to => f.piece # e.piece
    BY <1>3, <1>5, <2>2
  <2>5. ASSUME NEW n \in 1 .. Len(wire'), f = wire'[n] PROVE m = n
    <3>1. wire[m + 1] = wire[n + 1] /\ n + 1 \in 1 .. Len(wire)
      BY <1>1, <2>1, <2>5
    <3>2. m + 1 = n + 1
      BY <2>1, <3>1 DEF MailInv, OnTheWay
    <3>3. Len(wire') \in Nat
      BY <1>1
    <3> QED BY <3>2, <3>3
  <2> HIDE DEF f
  <2>6. ASSUME NEW n \in 1 .. Len(post'[f.to]) PROVE post'[f.to][n] # f.piece
    <3>1. CASE f.to # e.to
      BY <1>8, <2>2, <2>3, <2>6, <3>1
    <3>2. CASE f.to = e.to
      <4>1. post'[f.to] = qq /\ post[f.to] = q
        BY <1>8, <2>2, <3>2 DEF q
      <4> QED BY <1>4, <1>6, <2>3, <2>4, <2>6, <3>2, <4>1
    <3> QED BY <3>1, <3>2
  <2> QED BY <2>1, <2>5, <2>6 DEF f
<1>11. \A i \in Identity, p \in Piece : [to |-> i, piece |-> p] \notin sent => Untouched(i, p)
  BY DEF MailInv, OnTheWay
<1> QED BY <1>1, <1>8, <1>9, <1>10, <1>11 DEF OnTheWay, Untouched

\* A piece leaves the post for the mail, where only it is touched.
LEMMA ArrivalWay ==
  ASSUME MailInv, NEW i \in Identity, post[i] # <<>>, post' = [post EXCEPT ![i] = Tail(@)],
         NEW v \in Slot, mail' = [mail EXCEPT ![i][Head(post[i])] = v],
         UNCHANGED <<wire, sent>>
  PROVE  /\ OnTheWay' /\ post' \in [Identity -> Seq(Piece)]
         /\ Head(post[i]) \in Piece /\ Untouched(i, Head(post[i]))
<1> DEFINE p == Head(post[i])
<1>0. post \in [Identity -> Seq(Piece)] /\ post[i] \in Seq(Piece)
      /\ mail \in [Identity -> [Piece -> Slot]]
  BY MailTypes DEF MailInv
<1>1. /\ p = post[i][1] /\ p \in Piece /\ 1 \in 1 .. Len(post[i]) /\ Tail(post[i]) \in Seq(Piece)
      /\ \A m \in 1 .. Len(Tail(post[i])) :
           m + 1 \in 1 .. Len(post[i]) /\ m + 1 # 1 /\ Tail(post[i])[m] = post[i][m + 1]
  BY <1>0, Rest
<1>2. /\ post' \in [Identity -> Seq(Piece)]
      /\ \A j \in Identity : post'[j] = IF j = i THEN Tail(post[i]) ELSE post[j]
  BY <1>0, <1>1
<1>3. [to |-> i, piece |-> p] \in sent /\ Untouched(i, p)
  BY <1>1 DEF MailInv, OnTheWay
<1>4. mail' = [mail EXCEPT ![i][p] = v]
  OBVIOUS
<1> HIDE DEF p
<1>5. \A j \in Identity, q \in Piece : mail'[j][q] = IF j = i /\ q = p THEN v ELSE mail[j][q]
  BY <1>0, <1>1, <1>4, MailSet
<1>6. \A j \in Identity, q \in Piece : Untouched(j, q) /\ ~(j = i /\ q = p) => Untouched(j, q)'
  BY <1>5 DEF Untouched
<1>7. ASSUME NEW j \in Identity, NEW m \in 1 .. Len(post'[j])
      PROVE  /\ [to |-> j, piece |-> post'[j][m]] \in sent
             /\ post'[j][m] \in Piece /\ ~(j = i /\ post'[j][m] = p)
             /\ Untouched(j, post'[j][m])
             /\ \A n \in 1 .. Len(post'[j]) : post'[j][m] = post'[j][n] => m = n
  <2>1. CASE j # i
    <3>1. post'[j] = post[j] /\ post[j] \in Seq(Piece)
      BY <1>0, <1>2, <2>1
    <3>2. post'[j][m] \in Piece
      BY <3>1
    <3> QED BY <2>1, <3>1, <3>2 DEF MailInv, OnTheWay
  <2>2. CASE j = i
    <3>1. post'[j] = Tail(post[i])
      BY <1>2, <2>2
    <3>2. m + 1 \in 1 .. Len(post[i]) /\ m + 1 # 1 /\ post'[j][m] = post[i][m + 1]
      BY <1>1, <3>1
    <3>3. post[i][m + 1] # p
      BY <1>1, <3>2 DEF MailInv, OnTheWay
    <3>4. post[i][m + 1] \in Piece
      BY <1>0, <3>2
    <3>5. ASSUME NEW n \in 1 .. Len(post'[j]), post'[j][m] = post'[j][n] PROVE m = n
      <4>1. n + 1 \in 1 .. Len(post[i]) /\ post'[j][n] = post[i][n + 1]
        BY <1>1, <3>1
      <4>2. m + 1 = n + 1
        BY <3>2, <3>5, <4>1 DEF MailInv, OnTheWay
      <4>3. Len(post'[j]) \in Nat
        BY <1>1, <3>1
      <4> QED BY <4>2, <4>3
    <3> QED BY <2>2, <3>2, <3>3, <3>4, <3>5 DEF MailInv, OnTheWay
  <2> QED BY <2>1, <2>2
<1>8. ASSUME NEW m \in 1 .. Len(wire)
      PROVE  /\ wire[m].to \in Identity /\ wire[m].piece \in Piece
             /\ ~(wire[m].to = i /\ wire[m].piece = p)
             /\ \A n \in 1 .. Len(post'[wire[m].to]) : post'[wire[m].to][n] # wire[m].piece
  <2>0. wire[m] \in Envelope
    BY MailTypes DEF MailInv
  <2>1. wire[m].to \in Identity /\ wire[m].piece \in Piece
    BY <2>0 DEF Envelope
  <2>2. \A n \in 1 .. Len(post[wire[m].to]) : post[wire[m].to][n] # wire[m].piece
    BY DEF MailInv, OnTheWay
  <2>3. ~(wire[m].to = i /\ wire[m].piece = p)
    BY <1>1, <2>2
  <2>4. CASE wire[m].to # i
    BY <1>2, <2>1, <2>2, <2>3, <2>4
  <2>5. CASE wire[m].to = i
    BY <1>1, <1>2, <2>1, <2>2, <2>3, <2>5
  <2> QED BY <2>1, <2>3, <2>4, <2>5
<1>9. \A m \in 1 .. Len(wire) :
        /\ wire[m] \in sent /\ Untouched(wire[m].to, wire[m].piece)
        /\ \A n \in 1 .. Len(wire) : wire[m] = wire[n] => m = n
  BY DEF MailInv, OnTheWay
<1>10. \A j \in Identity, q \in Piece :
         [to |-> j, piece |-> q] \notin sent => Untouched(j, q) /\ ~(j = i /\ q = p)
  BY <1>3 DEF MailInv, OnTheWay
<1> DEFINE U(j, q) == mail'[j][q] = [step |-> "away", ask |-> 0]
<1>11. \A m \in 1 .. Len(wire) : U(wire[m].to, wire[m].piece)
  BY <1>6, <1>8, <1>9 DEF Untouched
<1>12. \A j \in Identity : \A m \in 1 .. Len(post'[j]) : U(j, post'[j][m])
  BY <1>6, <1>7 DEF Untouched
<1>13. \A j \in Identity, q \in Piece : [to |-> j, piece |-> q] \notin sent => U(j, q)
  BY <1>6, <1>10 DEF Untouched
<1>14. OnTheWay'
  BY <1>7, <1>8, <1>9, <1>11, <1>12, <1>13 DEF OnTheWay, Untouched
<1> QED BY <1>1, <1>2, <1>3, <1>14 DEF p

-----------------------------------------------------------------------------
(* The openings of messages' keys.                                         *)

\* No piece asks for anything new.
LEMMA SameAsks ==
  ASSUME \A i \in Identity, p \in Piece : mail'[i][p].ask = mail[i][p].ask
  PROVE  \A i \in Identity, c \in Call : Asks(i, c)' = Asks(i, c) /\ Begun(i, c)' = Begun(i, c)
<1> SUFFICES ASSUME NEW i \in Identity, NEW c \in Call
             PROVE  Asks(i, c)' = Asks(i, c) /\ Begun(i, c)' = Begun(i, c)
  OBVIOUS
<1>1. Asks(i, c)' = Asks(i, c)
  BY DEF Asks
<1>2. Begun(i, c) = Cardinality(Asks(i, c)) /\ Begun(i, c)' = Cardinality(Asks(i, c)')
  BY DEF Begun, Asks
<1> QED BY <1>1, <1>2

\* A piece asks for the first time: its message has that opening too.
LEMMA MoreAsks ==
  ASSUME MailInv, NEW i \in Identity, NEW p \in Piece, NEW v \in Slot, v.ask # 0,
         mail[i][p].ask = 0,
         \A j \in Identity, q \in Piece :
           mail'[j][q] = IF j = i /\ q = p THEN v ELSE mail[j][q],
         v.ask <= Begun(i, p[1]) + 1
  PROVE  /\ \A j \in Identity, c \in Call :
              Asks(j, c)' = 1 .. Begun(j, c)' /\ Begun(j, c)' \in Nat /\ Begun(j, c)' >= Begun(j, c)
         /\ v.ask <= Begun(i, p[1])'
<1>0. p[1] \in Call /\ v.ask \in Nat
  BY PieceParts DEF Slot
<1> DEFINE b == Begun(i, p[1])
<1>1. \A j \in Identity, c \in Call : Asks(j, c) = 1 .. Begun(j, c) /\ Begun(j, c) \in Nat
  BY DEF MailInv, Openings
<1>2. \A j \in Identity, c \in Call :
        Begun(j, c) = Cardinality(Asks(j, c)) /\ Begun(j, c)' = Cardinality(Asks(j, c)')
  BY DEF Begun, Asks
<1>3. ASSUME NEW j \in Identity, NEW c \in Call, j # i \/ c # p[1]
      PROVE  Asks(j, c)' = Asks(j, c)
  <2>1. \A n : n \in Asks(j, c)' <=> n # 0 /\ \E q \in Piece : q[1] = c /\ n = mail'[j][q].ask
    BY DEF Asks
  <2>2. \A n : n \in Asks(j, c) <=> n # 0 /\ \E q \in Piece : q[1] = c /\ n = mail[j][q].ask
    BY DEF Asks
  <2>3. \A q \in Piece : q[1] = c => mail'[j][q].ask = mail[j][q].ask
    BY <1>3
  <2>4. \A n : n \in Asks(j, c)' <=> n \in Asks(j, c)
    BY <2>1, <2>2, <2>3
  <2> QED BY <2>4
<1>4. Asks(i, p[1])' = Asks(i, p[1]) \cup {v.ask}
  <2>1. \A n : n \in Asks(i, p[1])' <=> n # 0 /\ \E q \in Piece : q[1] = p[1] /\ n = mail'[i][q].ask
    BY DEF Asks
  <2>2. \A n : n \in Asks(i, p[1]) <=> n # 0 /\ \E q \in Piece : q[1] = p[1] /\ n = mail[i][q].ask
    BY DEF Asks
  <2>3. \A q \in Piece : mail'[i][q].ask = IF q = p THEN v.ask ELSE mail[i][q].ask
    OBVIOUS
  <2>4. \A n : n \in Asks(i, p[1])' <=> n \in Asks(i, p[1]) \/ n = v.ask
    BY <2>1, <2>2, <2>3
  <2> QED BY <2>4
<1>5. Asks(i, p[1])' = 1 .. b \/ (v.ask = b + 1 /\ Asks(i, p[1])' = 1 .. b + 1)
  <2>1. b \in Nat /\ v.ask \in 1 .. b + 1
    BY <1>0, <1>1
  <2>2. CASE v.ask = b + 1
    <3>1. (1 .. b) \cup {b + 1} = 1 .. b + 1
      BY <2>1
    <3> QED BY <1>0, <1>1, <1>4, <2>2, <3>1
  <2>3. CASE v.ask # b + 1
    <3>1. v.ask \in 1 .. b
      BY <2>1, <2>3
    <3> QED BY <1>0, <1>1, <1>4, <3>1
  <2> QED BY <2>2, <2>3
<1>6. /\ Asks(i, p[1])' = 1 .. Begun(i, p[1])' /\ Begun(i, p[1])' \in Nat
      /\ Begun(i, p[1])' >= b /\ v.ask <= Begun(i, p[1])'
  <2>1. b \in Nat /\ v.ask \in 1 .. b + 1
    BY <1>0, <1>1
  <2> HIDE DEF b
  <2>2. Cardinality(1 .. b) = b /\ Cardinality(1 .. b + 1) = b + 1
    BY <2>1, FS_Interval
  <2>3. CASE Asks(i, p[1])' = 1 .. b
    <3>1. Begun(i, p[1])' = b
      BY <1>0, <1>2, <2>2, <2>3
    <3>2. v.ask \in 1 .. b
      BY <1>4, <2>3
    <3> QED BY <2>1, <2>3, <3>1, <3>2
  <2>4. CASE v.ask = b + 1 /\ Asks(i, p[1])' = 1 .. b + 1
    <3>1. Begun(i, p[1])' = b + 1
      BY <1>0, <1>2, <2>2, <2>4
    <3> QED BY <2>1, <2>4, <3>1
  <2> QED BY <1>5, <2>3, <2>4 DEF b
<1>7. ASSUME NEW j \in Identity, NEW c \in Call
      PROVE  Asks(j, c)' = 1 .. Begun(j, c)' /\ Begun(j, c)' \in Nat /\ Begun(j, c)' >= Begun(j, c)
  <2>1. CASE j = i /\ c = p[1]
    BY <1>6, <2>1
  <2>2. CASE j # i \/ c # p[1]
    BY <1>1, <1>2, <1>3, <2>2
  <2> QED BY <2>1, <2>2
<1> QED BY <1>6, <1>7

\* The openings there are, are of messages with bytes.
LEMMA OpeningsType ==
  ASSUME MailInv
  PROVE  \A i \in Identity : \A a \in vault[i] \cup refused[i] \cup Remembers(i) :
           a \in Ask /\ a.call \in Call /\ a.n \in Nat
<1>1. \A a \in Ask : a.call \in Call /\ a.n \in Nat
  BY SealedMailAssumptions DEF Ask, SealedMailAssumptions
<1>2. \A i \in Identity :
        vault[i] \subseteq Ask /\ refused[i] \subseteq Ask /\ Remembers(i) \subseteq Ask
  BY MailTypes DEF MailInv, Remembers
<1> QED BY <1>1, <1>2

\* Nothing is asked, refused or remembered.
LEMMA SameOpenings ==
  ASSUME MailInv,
         \A i \in Identity, p \in Piece : mail'[i][p].ask = mail[i][p].ask,
         \A i \in Identity : vault'[i] \subseteq vault[i], UNCHANGED <<refused, keys>>
  PROVE  Openings'
<1>1. \A i \in Identity, c \in Call : Asks(i, c)' = Asks(i, c) /\ Begun(i, c)' = Begun(i, c)
  BY SameAsks
<1>2. \A i \in Identity : \A a \in vault[i] \cup refused[i] \cup Remembers(i) : a.call \in Call
  BY OpeningsType
<1>3. \A i \in Identity : Remembers(i)' = Remembers(i)
  BY DEF Remembers
<1>4. \A i \in Identity, c \in Call : Asks(i, c)' = 1 .. Begun(i, c)' /\ Begun(i, c)' \in Nat
  BY <1>1 DEF MailInv, Openings
<1>5. ASSUME NEW i \in Identity, NEW a \in vault'[i] \cup refused[i] \cup Remembers(i)
      PROVE  a.n <= Begun(i, a.call)'
  <2>1. a \in vault[i] \cup refused[i] \cup Remembers(i) /\ a.call \in Call
    BY <1>2
  <2> QED BY <1>1, <2>1 DEF MailInv, Openings
<1>6. \A i \in Identity :
        /\ refused[i] \cap Remembers(i) = {}
        /\ \A m, n \in 1 .. Len(keys[i]) : keys[i][m].call = keys[i][n].call => m = n
  BY DEF MailInv, Openings
<1> QED BY <1>3, <1>4, <1>5, <1>6 DEF Openings

\* An opening fails: it is among the refused, and its message's key forgotten.
LEMMA RefusedOpenings ==
  ASSUME MailInv, NEW i \in Identity, NEW a \in vault[i],
         \A j \in Identity, p \in Piece : mail'[j][p].ask = mail[j][p].ask,
         vault' = [vault EXCEPT ![i] = @ \ {a}],
         refused' = [refused EXCEPT ![i] = @ \cup {a}],
         keys' = [keys EXCEPT ![i] = Forget(i, a.call)]
  PROVE  /\ Openings' /\ keys' \in [Identity -> Seq(Ask)]
         /\ \A j \in Identity : Len(keys'[j]) <= MaxKeys
<1> DEFINE t == Without(keys[i], a.call)
<1>0. /\ keys \in [Identity -> Seq(Ask)] /\ vault \in [Identity -> SUBSET Ask]
      /\ refused \in [Identity -> SUBSET Ask]
      /\ \A j \in Identity : Len(keys[j]) <= MaxKeys
  BY MailTypes DEF MailInv
<1>1. \A j \in Identity, c \in Call : Asks(j, c)' = Asks(j, c) /\ Begun(j, c)' = Begun(j, c)
  BY SameAsks
<1>2. \A b \in Ask : b.call \in Call /\ b.call \in Bytes
  BY SealedMailAssumptions DEF Ask, SealedMailAssumptions
<1>3. keys[i] \in Seq(Ask) /\ a \in Ask /\ a.call \in Bytes
  BY <1>0, <1>2
<1>4. \A m, n \in 1 .. Len(keys[i]) : keys[i][m].call = keys[i][n].call => m = n
  BY DEF MailInv, Openings
<1>5. /\ t \in Seq(Ask) /\ Len(t) <= Len(keys[i])
      /\ \A n \in 1 .. Len(t) : t[n].call # a.call /\ \E m \in 1 .. Len(keys[i]) : t[n] = keys[i][m]
      /\ \A m, n \in 1 .. Len(t) : t[m].call = t[n].call => m = n
  BY <1>3, <1>4, Forgotten
<1>6. keys' = [keys EXCEPT ![i] = t]
  BY DEF Forget
<1> HIDE DEF t
<1>7. /\ keys' \in [Identity -> Seq(Ask)]
      /\ \A j \in Identity : keys'[j] = IF j = i THEN t ELSE keys[j]
  BY <1>0, <1>5, <1>6
<1>8. \A j \in Identity : Len(keys'[j]) <= MaxKeys
  <2> SUFFICES ASSUME NEW j \in Identity PROVE Len(keys'[j]) <= MaxKeys
    OBVIOUS
  <2>1. Len(keys[i]) <= MaxKeys /\ Len(keys[i]) \in Nat /\ Len(t) \in Nat /\ MaxKeys \in Nat
    BY SealedMailAssumptions, <1>0, <1>3, <1>5 DEF SealedMailAssumptions
  <2> QED BY <1>0, <1>5, <1>7, <2>1
<1>9. \A j \in Identity :
        /\ vault'[j] \subseteq vault[j]
        /\ refused'[j] = IF j = i THEN refused[i] \cup {a} ELSE refused[j]
  BY <1>0
<1>10. \A j \in Identity, c \in Call : Asks(j, c)' = 1 .. Begun(j, c)' /\ Begun(j, c)' \in Nat
  BY <1>1 DEF MailInv, Openings
<1>11. \A j \in Identity :
         /\ Remembers(j)' \subseteq Remembers(j)
         /\ j = i => \A b \in Remembers(j)' : b # a
  <2> SUFFICES ASSUME NEW j \in Identity, NEW n \in 1 .. Len(keys'[j])
               PROVE  keys'[j][n] \in Remembers(j) /\ (j = i => keys'[j][n] # a)
    BY DEF Remembers
  <2>1. CASE j # i
    BY <1>7, <2>1 DEF Remembers
  <2>2. CASE j = i
    <3>1. keys'[j] = t
      BY <1>7, <2>2
    <3> QED BY <1>5, <2>2, <3>1 DEF Remembers
  <2> QED BY <2>1, <2>2
<1>12. ASSUME NEW j \in Identity, NEW b \in vault'[j] \cup refused'[j] \cup Remembers(j)'
       PROVE  b.n <= Begun(j, b.call)'
  <2>1. b \in vault[j] \cup refused[j] \cup Remembers(j)
    BY <1>9, <1>11
  <2>2. b.call \in Call
    BY <2>1, OpeningsType
  <2> QED BY <1>1, <2>1, <2>2 DEF MailInv, Openings
<1>13. \A j \in Identity : refused'[j] \cap Remembers(j)' = {}
  BY <1>9, <1>11 DEF MailInv, Openings
<1>14. \A j \in Identity : \A m, n \in 1 .. Len(keys'[j]) :
         keys'[j][m].call = keys'[j][n].call => m = n
  <2> SUFFICES ASSUME NEW j \in Identity
               PROVE  \A m, n \in 1 .. Len(keys'[j]) : keys'[j][m].call = keys'[j][n].call => m = n
    OBVIOUS
  <2>1. CASE j # i
    <3>1. keys'[j] = keys[j]
      BY <1>7, <2>1
    <3> QED BY <3>1 DEF MailInv, Openings
  <2>2. CASE j = i
    BY <1>5, <1>7, <2>2
  <2> QED BY <2>1, <2>2
<1> QED BY <1>7, <1>8, <1>10, <1>12, <1>13, <1>14 DEF Openings

\* A piece with bytes arrives, and its message's key is not there: it is asked for,
\* under a number no opening has had.
LEMMA AskedOpenings ==
  ASSUME MailInv, NEW i \in Identity, NEW p \in Piece, p[1] \in Bytes,
         Untouched(i, p), Cached(i, p[1]) = {}, NEW a, a = [call |-> p[1], n |-> Begun(i, p[1]) + 1],
         mail' = [mail EXCEPT ![i][p] = [step |-> "key", ask |-> a.n]],
         vault' = [vault EXCEPT ![i] = @ \cup {a}],
         keys' = [keys EXCEPT ![i] = Remember(@, a)], UNCHANGED refused
  PROVE  /\ Openings' /\ a \in Ask /\ keys' \in [Identity -> Seq(Ask)]
         /\ \A j \in Identity : Len(keys'[j]) <= MaxKeys
<1> DEFINE t == Remember(keys[i], a)
           v == [step |-> "key", ask |-> a.n]
<1>0. /\ keys \in [Identity -> Seq(Ask)] /\ vault \in [Identity -> SUBSET Ask]
      /\ refused \in [Identity -> SUBSET Ask] /\ mail \in [Identity -> [Piece -> Slot]]
      /\ \A j \in Identity : Len(keys[j]) <= MaxKeys
  BY MailTypes DEF MailInv
<1>1. p[1] \in Call /\ Begun(i, p[1]) \in Nat
  BY SealedMailAssumptions DEF SealedMailAssumptions, MailInv, Openings
<1>2. a \in Ask /\ a.call = p[1] /\ a.n = Begun(i, p[1]) + 1 /\ a.n \in Nat \ {0}
  BY <1>1 DEF Ask
<1>3. v \in Slot /\ v.ask = a.n /\ mail[i][p].ask = 0
  BY <1>2 DEF Slot, Untouched
<1> HIDE DEF v
<1>4. \A j \in Identity, q \in Piece : mail'[j][q] = IF j = i /\ q = p THEN v ELSE mail[j][q]
  BY <1>0, <1>3, MailSet DEF v
<1>5. /\ \A j \in Identity, c \in Call :
           Asks(j, c)' = 1 .. Begun(j, c)' /\ Begun(j, c)' \in Nat /\ Begun(j, c)' >= Begun(j, c)
      /\ a.n <= Begun(i, p[1])'
  <2>1. v.ask <= Begun(i, p[1]) + 1 /\ v.ask # 0
    BY <1>1, <1>2, <1>3
  <2> QED BY <1>3, <1>4, <2>1, MoreAsks
<1>6. \A b \in Ask : b.call \in Call
  BY SealedMailAssumptions DEF Ask, SealedMailAssumptions
<1>7. \A j \in Identity, c \in Call : Begun(j, c) \in Nat
  BY DEF MailInv, Openings
<1>8. keys[i] \in Seq(Ask) /\ \A m \in 1 .. Len(keys[i]) : keys[i][m].call # a.call
  BY <1>0, <1>2 DEF Cached
<1>9. \A m, n \in 1 .. Len(keys[i]) : keys[i][m].call = keys[i][n].call => m = n
  BY DEF MailInv, Openings
<1>10. /\ t \in Seq(Ask) /\ Len(t) <= MaxKeys
       /\ \A n \in 1 .. Len(t) : t[n] = a \/ \E m \in 1 .. Len(keys[i]) : t[n] = keys[i][m]
       /\ \A m, n \in 1 .. Len(t) : t[m].call = t[n].call => m = n
  <2>1. MaxKeys \in Nat \ {0} /\ Len(keys[i]) <= MaxKeys
    BY SealedMailAssumptions, <1>0 DEF SealedMailAssumptions
  <2>2. a \in Ask /\ NotAmong(keys[i], a)
    BY <1>2, <1>8 DEF NotAmong
  <2>3. keys[i] \in Seq(Ask) /\ NoTwo(keys[i])
    BY <1>8, <1>9 DEF NoTwo
  <2> HIDE DEF t
  <2>4. LET u == Remember(keys[i], a) IN
        u \in Seq(Ask) /\ Len(u) <= MaxKeys /\ OfThese(u, keys[i], a) /\ NoTwo(u)
    BY <2>1, <2>2, <2>3, Remembered, Zenon
  <2> QED BY <2>4 DEF t, OfThese, NoTwo
<1> HIDE DEF t
<1>11. /\ keys' \in [Identity -> Seq(Ask)]
       /\ \A j \in Identity : keys'[j] = IF j = i THEN t ELSE keys[j]
       /\ \A j \in Identity : Len(keys'[j]) <= MaxKeys
  <2>1. keys' = [keys EXCEPT ![i] = t]
    BY DEF t
  <2>2. \A j \in Identity : keys'[j] = IF j = i THEN t ELSE keys[j]
    BY <1>0, <2>1
  <2> QED BY <1>0, <1>10, <2>1, <2>2
<1>12. \A j \in Identity : vault'[j] = IF j = i THEN vault[i] \cup {a} ELSE vault[j]
  BY <1>0
<1>13. \A j \in Identity : \A b \in vault[j] \cup refused[j] \cup Remembers(j) :
         b \in Ask /\ b.n \in Nat /\ b.n <= Begun(j, b.call) /\ b.n <= Begun(j, b.call)'
  <2> SUFFICES ASSUME NEW j \in Identity, NEW b \in vault[j] \cup refused[j] \cup Remembers(j)
               PROVE  b \in Ask /\ b.n \in Nat /\ b.n <= Begun(j, b.call) /\ b.n <= Begun(j, b.call)'
    OBVIOUS
  <2>1. b \in Ask /\ b.call \in Call /\ b.n \in Nat
    BY OpeningsType
  <2>2. b.n <= Begun(j, b.call)
    BY DEF MailInv, Openings
  <2>3. /\ Begun(j, b.call) \in Nat /\ Begun(j, b.call)' \in Nat
        /\ Begun(j, b.call)' >= Begun(j, b.call)
    BY <1>5, <1>7, <2>1
  <2> QED BY <2>1, <2>2, <2>3
<1>14. a \notin refused[i]
  BY <1>1, <1>2, <1>13
<1>15. \A j \in Identity : Remembers(j)' \subseteq Remembers(j) \cup (IF j = i THEN {a} ELSE {})
  <2> SUFFICES ASSUME NEW j \in Identity, NEW n \in 1 .. Len(keys'[j])
               PROVE  keys'[j][n] \in Remembers(j) \/ (j = i /\ keys'[j][n] = a)
    BY DEF Remembers
  <2>1. CASE j # i
    BY <1>11, <2>1 DEF Remembers
  <2>2. CASE j = i
    <3>1. keys'[j] = t
      BY <1>11, <2>2
    <3> QED BY <1>10, <2>2, <3>1 DEF Remembers
  <2> QED BY <2>1, <2>2
<1>16. ASSUME NEW j \in Identity, NEW b \in vault'[j] \cup refused[j] \cup Remembers(j)'
       PROVE  b.n <= Begun(j, b.call)'
  <2>1. b \in vault[j] \cup refused[j] \cup Remembers(j) \/ (j = i /\ b = a)
    BY <1>12, <1>15
  <2> QED BY <1>2, <1>5, <1>13, <2>1
<1>17. \A j \in Identity : refused[j] \cap Remembers(j)' = {}
  BY <1>14, <1>15 DEF MailInv, Openings
<1>18. \A j \in Identity : \A m, n \in 1 .. Len(keys'[j]) :
         keys'[j][m].call = keys'[j][n].call => m = n
  <2> SUFFICES ASSUME NEW j \in Identity
               PROVE  \A m, n \in 1 .. Len(keys'[j]) : keys'[j][m].call = keys'[j][n].call => m = n
    OBVIOUS
  <2>1. CASE j # i
    <3>1. keys'[j] = keys[j]
      BY <1>11, <2>1
    <3> QED BY <3>1 DEF MailInv, Openings
  <2>2. CASE j = i
    BY <1>10, <1>11, <2>2
  <2> QED BY <2>1, <2>2
<1> QED BY <1>2, <1>5, <1>11, <1>16, <1>17, <1>18 DEF Openings

\* ... or it is: the piece awaits, or has, what was asked for before.
LEMMA CachedOpenings ==
  ASSUME MailInv, NEW i \in Identity, NEW p \in Piece,
         Untouched(i, p), NEW n \in Cached(i, p[1]), NEW v \in Slot, v.ask = keys[i][n].n,
         mail' = [mail EXCEPT ![i][p] = v], UNCHANGED <<vault, keys, refused>>
  PROVE  Openings'
<1>0. /\ keys \in [Identity -> Seq(Ask)] /\ vault \in [Identity -> SUBSET Ask]
      /\ refused \in [Identity -> SUBSET Ask] /\ mail \in [Identity -> [Piece -> Slot]]
  BY MailTypes DEF MailInv
<1>1. n \in 1 .. Len(keys[i]) /\ keys[i][n].call = p[1] /\ keys[i][n] \in Ask
  BY <1>0 DEF Cached
<1>2. v.ask \in Nat \ {0} /\ mail[i][p].ask = 0
  BY <1>1 DEF Ask, Untouched
<1>3. v.ask <= Begun(i, p[1]) /\ Begun(i, p[1]) \in Nat
  <2>1. p[1] \in Call
    BY PieceParts
  <2>2. keys[i][n] \in Remembers(i)
    BY <1>1 DEF Remembers
  <2> QED BY <1>1, <2>1, <2>2 DEF MailInv, Openings
<1>4. \A j \in Identity, q \in Piece : mail'[j][q] = IF j = i /\ q = p THEN v ELSE mail[j][q]
  BY <1>0, MailSet
<1>5. \A j \in Identity, c \in Call :
        Asks(j, c)' = 1 .. Begun(j, c)' /\ Begun(j, c)' \in Nat /\ Begun(j, c)' >= Begun(j, c)
  <2>1. v.ask <= Begun(i, p[1]) + 1 /\ v.ask # 0
    BY <1>2, <1>3
  <2> QED BY <1>2, <1>4, <2>1, MoreAsks
<1>6. \A j \in Identity, c \in Call : Begun(j, c) \in Nat
  BY DEF MailInv, Openings
<1>7. ASSUME NEW j \in Identity, NEW b \in vault[j] \cup refused[j] \cup Remembers(j)
      PROVE  b.n <= Begun(j, b.call)'
  <2>1. b.n \in Nat /\ b.call \in Call
    BY OpeningsType
  <2>2. b.n <= Begun(j, b.call)
    BY DEF MailInv, Openings
  <2>3. /\ Begun(j, b.call) \in Nat /\ Begun(j, b.call)' \in Nat
        /\ Begun(j, b.call)' >= Begun(j, b.call)
    BY <1>5, <1>6, <2>1
  <2> QED BY <2>1, <2>2, <2>3
<1>8. \A j \in Identity : Remembers(j)' = Remembers(j)
  BY DEF Remembers
<1>9. \A j \in Identity :
        /\ refused[j] \cap Remembers(j) = {}
        /\ \A m, k \in 1 .. Len(keys[j]) : keys[j][m].call = keys[j][k].call => m = k
  BY DEF MailInv, Openings
<1> QED BY <1>5, <1>7, <1>8, <1>9 DEF Openings


-----------------------------------------------------------------------------
(* The steps.                                                              *)

\* The types in the next state, from those of each variable.
LEMMA MailTypesNext ==
  ASSUME call' \in [Call -> CallState], link' \in BOOLEAN, wire' \in Seq(Envelope),
         post' \in [Identity -> Seq(Piece)], mail' \in [Identity -> [Piece -> Slot]],
         keys' \in [Identity -> Seq(Ask)], \A i \in Identity : Len(keys'[i]) <= MaxKeys,
         vault' \in [Identity -> SUBSET Ask], refused' \in [Identity -> SUBSET Ask],
         app' \in [Identity -> Seq(Call)], sent' \subseteq Envelope,
         arrived' \in [Identity -> Seq(Piece)], troubles' \in 0 .. MaxTroubles
  PROVE  TypeOK'
BY DEF TypeOK, CallState, Envelope, Slot

\* Troubles keep within their bound.
LEMMA TroubleCounted ==
  ASSUME MailInv, Trouble \/ UNCHANGED troubles
  PROVE  troubles' \in 0 .. MaxTroubles
<1>1. troubles \in 0 .. MaxTroubles /\ MaxTroubles \in Nat
  BY SealedMailAssumptions, MailTypes DEF MailInv, SealedMailAssumptions
<1> QED BY <1>1 DEF Trouble

\* A step of the sender, the connection or the proxy leaves the recipients alone.
LEMMA SenderStep ==
  ASSUME MailInv, UNCHANGED receiving,
         call' \in [Call -> CallState], link' \in BOOLEAN, wire' \in Seq(Envelope),
         post' \in [Identity -> Seq(Piece)], sent' \subseteq Envelope,
         Trouble \/ UNCHANGED troubles, Progress', OnTheWay'
  PROVE  MailInv'
<1>1. UNCHANGED <<mail, keys, vault, refused, app, arrived>>
  BY DEF receiving
<1>2. Openings'
  BY <1>1, SameOpenings
<1>3. TypeOK'
  BY <1>1, MailTypes, MailTypesNext, TroubleCounted DEF MailInv
<1> QED BY <1>2, <1>3 DEF MailInv

\* A call's step that sends nothing.
LEMMA QuietStep ==
  ASSUME MailInv, UNCHANGED <<receiving, link, wire, post, sent>>,
         NEW c \in Call, NEW r \in CallState, call' = [call EXCEPT ![c] = r], Reached(c, r),
         Trouble \/ UNCHANGED troubles
  PROVE  MailInv'
<1>1. UNCHANGED mail
  BY DEF receiving
<1>2. OnTheWay'
  BY <1>1, SameWay DEF Untouched
<1>3. call' \in [Call -> CallState] /\ Progress'
  BY CallProgress
<1>4. /\ link' \in BOOLEAN /\ wire' \in Seq(Envelope) /\ post' \in [Identity -> Seq(Piece)]
      /\ sent' \subseteq Envelope
  BY MailTypes DEF MailInv
<1> QED BY <1>2, <1>3, <1>4, SenderStep

\* sendSealed begins: its lookups are awaited.
LEMMA SendSealedKeeps ==
  ASSUME MailInv, NEW c \in Call, SendSealed(c) PROVE MailInv'
<1>1. PICK r \in CallState :
        /\ call' = [call EXCEPT ![c] = r] /\ call[c].step = "new" /\ r.step = "keys"
        /\ r.to = call[c].to /\ r.piece = call[c].piece
  BY SendSealedIs, MailTypes DEF MailInv
<1>2. Reached(c, r)
  BY <1>1 DEF MailInv, Progress, Reached
<1>3. UNCHANGED <<receiving, link, wire, post, sent>> /\ UNCHANGED troubles
  BY DEF SendSealed
<1> QED BY <1>1, <1>2, <1>3, QuietStep

\* A lookup finds the key, or finds there is none.
LEMMA KeyAnswerKeeps ==
  ASSUME MailInv, NEW c \in Call, NEW i \in Identity,
         KeyFound(c, i) \/ KeyMissing(c, i)
  PROVE  MailInv'
<1>1. PICK r \in CallState :
        /\ call' = [call EXCEPT ![c] = r] /\ call[c].lookups # {}
        /\ r.to = call[c].to /\ r.piece = call[c].piece
        /\ r.step \in {call[c].step, "unknown"} \/ (call[c].step = "keys" /\ r.step = "sealing")
        /\ r.step \notin {"keys", "unknown"} =>
             r.lookups = {} \/ call[c].step \notin {"keys", "unknown"}
  BY KeyAnswerIs, MailTypes DEF MailInv
<1>2. Reached(c, call[c])
  BY DEF MailInv, Progress
<1>3. /\ call[c].step \in {"keys", "unknown"} /\ r.to = 1 /\ r.piece = 0
      /\ \A e \in sent : e.piece[1] # c
  BY <1>1, <1>2 DEF Reached
<1>4. \A m \in 1 .. Len(To[c]) :
        SentTo(c, To[c][m]) = IF m < 1 THEN 1 .. Pieces[c] ELSE IF m = 1 THEN 1 .. 0 - 1 ELSE {}
  <2>1. \A m \in 1 .. Len(To[c]) : To[c][m] \in Identity
    BY SealedMailAssumptions DEF SealedMailAssumptions
  <2>2. 1 .. 0 - 1 = {} /\ \A m \in 1 .. Len(To[c]) : ~(m < 1)
    BY SealedMailAssumptions DEF SealedMailAssumptions
  <2> QED BY <1>3, <2>1, <2>2, NothingSent
<1>5. Reached(c, r)
  <2>1. r.to \in 1 .. Len(To[c]) /\ r.piece \in 0 .. Pieces[c]
    BY <1>1, <1>2 DEF Reached
  <2>2. r.step \notin {"keys", "unknown"} => r.lookups = {}
    BY <1>1, <1>3
  <2>3. r.step # "done" /\ r.step # "failed"
    BY <1>1, <1>3
  <2> QED BY <1>3, <1>4, <2>1, <2>2, <2>3 DEF Reached
<1>6. UNCHANGED <<receiving, link, wire, post, sent>> /\ UNCHANGED troubles
  BY DEF KeyFound, KeyMissing
<1> QED BY <1>1, <1>5, <1>6, QuietStep

\* The sealer is ready, or the vault refuses.
LEMMA SealerKeeps ==
  ASSUME MailInv, NEW c \in Call, SealerReady(c) \/ SealFails(c)
  PROVE  MailInv'
<1>1. PICK r \in CallState :
        /\ call' = [call EXCEPT ![c] = r] /\ call[c].step = "sealing"
        /\ r.to = call[c].to /\ r.lookups = call[c].lookups
        /\ \/ r.step = "failed" /\ r.piece = call[c].piece
           \/ r.step = "sealing" /\ r.piece = 1 /\ call[c].piece = 0
  BY SealerIs, MailTypes DEF MailInv
<1>2. Reached(c, call[c])
  BY DEF MailInv, Progress
<1>3. r.piece \in 0 .. Pieces[c] /\ 1 .. r.piece - 1 = 1 .. call[c].piece - 1
  BY SealedMailAssumptions, <1>1, <1>2 DEF Reached, SealedMailAssumptions
<1>4. Reached(c, r)
  <2>1. \A m \in 1 .. Len(To[c]) :
          SentTo(c, To[c][m]) = IF m < r.to THEN 1 .. Pieces[c]
                                ELSE IF m = r.to THEN 1 .. r.piece - 1 ELSE {}
    BY <1>1, <1>2, <1>3 DEF Reached
  <2>2. r.lookups = {} /\ r.to \in 1 .. Len(To[c]) /\ r.step \in {"sealing", "failed"}
    BY <1>1, <1>2 DEF Reached
  <2> QED BY <1>3, <2>1, <2>2 DEF Reached
<1>5. UNCHANGED <<receiving, link, wire, post, sent>> /\ (Trouble \/ UNCHANGED troubles)
  BY DEF SealerReady, SealFails
<1> QED BY <1>1, <1>4, <1>5, QuietStep

\* A piece is sealed and sent, or the call fails.
LEMMA PieceSealedKeeps ==
  ASSUME MailInv, NEW c \in Call, PieceSealed(c) PROVE MailInv'
<1>1. /\ call[c] \in CallState /\ call[c].step = "sealing"
      /\ call[c].to \in 1 .. Len(To[c]) /\ call[c].piece \in 1 .. Pieces[c]
      /\ Sealed(c) \in Envelope
      /\ \/ /\ wire' = Append(wire, Sealed(c)) /\ sent' = sent \cup {Sealed(c)}
            /\ call' = [call EXCEPT ![c] = Onward(c)]
         \/ /\ call' = [call EXCEPT ![c] = [call[c] EXCEPT !.step = "failed"]]
            /\ UNCHANGED <<wire, sent>>
      /\ UNCHANGED <<link, post, receiving, troubles>>
  BY PieceSealedIs
<1>2. CASE /\ wire' = Append(wire, Sealed(c)) /\ sent' = sent \cup {Sealed(c)}
           /\ call' = [call EXCEPT ![c] = Onward(c)]
  <2>1. Sealed(c) \notin sent
    BY <1>1, SealedNotSent
  <2>2. OnTheWay' /\ wire' \in Seq(Envelope)
    BY <1>1, <1>2, <2>1, SentWay DEF receiving
  <2>3. call' \in [Call -> CallState] /\ Progress'
    BY <1>1, <1>2, SentProgress
  <2>4. link' \in BOOLEAN /\ post' \in [Identity -> Seq(Piece)] /\ sent' \subseteq Envelope
    BY <1>1, <1>2, MailTypes DEF MailInv
  <2> QED BY <1>1, <2>2, <2>3, <2>4, SenderStep
<1>3. CASE /\ call' = [call EXCEPT ![c] = [call[c] EXCEPT !.step = "failed"]]
           /\ UNCHANGED <<wire, sent>>
  <2> DEFINE r == [call[c] EXCEPT !.step = "failed"]
  <2>1. /\ r \in CallState /\ r.step = "failed" /\ r.to = call[c].to
        /\ r.piece = call[c].piece /\ r.lookups = call[c].lookups
    BY <1>1 DEF CallState
  <2>2. call' = [call EXCEPT ![c] = r]
    BY <1>3
  <2> HIDE DEF r
  <2>3. Reached(c, r)
    BY <1>1, <2>1 DEF MailInv, Progress, Reached
  <2>4. UNCHANGED <<receiving, link, wire, post, sent>> /\ UNCHANGED troubles
    BY <1>1, <1>3
  <2> QED BY <2>1, <2>2, <2>3, <2>4, QuietStep
<1> QED BY <1>1, <1>2, <1>3

\* The connection is lost, or back; the proxy reads.
LEMMA LinkKeeps ==
  ASSUME MailInv, LinkDown \/ LinkUp \/ ProxyReads PROVE MailInv'
<1>1. UNCHANGED <<call, sent, receiving>> /\ (Trouble \/ UNCHANGED troubles)
  BY DEF LinkDown, LinkUp, ProxyReads
<1>2. Progress'
  <2>1. \A c \in Call : Reached(c, call[c])' <=> Reached(c, call[c])
    BY <1>1 DEF Reached, SentTo
  <2> QED BY <2>1 DEF MailInv, Progress
<1>3. call' \in [Call -> CallState] /\ sent' \subseteq Envelope
  BY <1>1, MailTypes DEF MailInv
<1>4. /\ link \in BOOLEAN /\ wire \in Seq(Envelope) /\ post \in [Identity -> Seq(Piece)]
  BY MailTypes DEF MailInv
<1>5. UNCHANGED mail
  BY <1>1 DEF receiving
<1>6. CASE LinkDown
  <2>1. link' = FALSE /\ wire' = <<>> /\ UNCHANGED post
    BY <1>6 DEF LinkDown
  <2>2. OnTheWay' /\ wire' \in Seq(Envelope)
    BY <1>1, <1>5, <2>1, Lost
  <2> QED BY <1>1, <1>2, <1>3, <1>4, <2>1, <2>2, SenderStep
<1>7. CASE LinkUp
  <2>1. link' = TRUE /\ UNCHANGED <<wire, post>>
    BY <1>7 DEF LinkUp
  <2>2. OnTheWay'
    BY <1>1, <1>5, <2>1, SameWay DEF Untouched
  <2> QED BY <1>1, <1>2, <1>3, <1>4, <2>1, <2>2, SenderStep
<1>8. CASE ProxyReads
  <2>1. /\ wire # <<>> /\ wire' = Tail(wire) /\ UNCHANGED link
        /\ post' = [post EXCEPT ![Head(wire).to] = Append(@, Head(wire).piece)]
    BY <1>8 DEF ProxyReads
  <2>2. OnTheWay' /\ wire' \in Seq(Envelope) /\ post' \in [Identity -> Seq(Piece)]
    BY <1>1, <1>5, <2>1, ReadWay
  <2> QED BY <1>1, <1>2, <1>3, <1>4, <2>1, <2>2, SenderStep
<1> QED BY <1>6, <1>7, <1>8

\* A step of a recipient leaves the calls and the wire alone.
LEMMA RecipientStep ==
  ASSUME MailInv, UNCHANGED <<call, link, wire, sent>>,
         post' \in [Identity -> Seq(Piece)], mail' \in [Identity -> [Piece -> Slot]],
         keys' \in [Identity -> Seq(Ask)], \A i \in Identity : Len(keys'[i]) <= MaxKeys,
         vault' \in [Identity -> SUBSET Ask], refused' \in [Identity -> SUBSET Ask],
         app' \in [Identity -> Seq(Call)], arrived' \in [Identity -> Seq(Piece)],
         Trouble \/ UNCHANGED troubles, OnTheWay', Openings'
  PROVE  MailInv'
<1>1. Progress'
  <2>1. \A c \in Call : Reached(c, call[c])' <=> Reached(c, call[c])
    BY DEF Reached, SentTo
  <2> QED BY <2>1 DEF MailInv, Progress
<1>2. TypeOK'
  BY MailTypes, MailTypesNext, TroubleCounted DEF MailInv
<1> QED BY <1>1, <1>2 DEF MailInv

\* The piece that arrives is written down.
LEMMA ArrivedTyped ==
  ASSUME MailInv, NEW i \in Identity, post[i] # <<>>,
         arrived' = [arrived EXCEPT ![i] = Append(@, Head(post[i]))]
  PROVE  arrived' \in [Identity -> Seq(Piece)]
<1>1. Head(post[i]) \in Piece
  BY MailTypes, Rest DEF MailInv
<1>2. arrived \in [Identity -> Seq(Piece)]
  BY MailTypes DEF MailInv
<1>3. Append(arrived[i], Head(post[i])) \in Seq(Piece)
  BY <1>1, <1>2, Appended
<1> QED BY <1>2, <1>3

\* _deliver of a text.
LEMMA TextArrivesKeeps ==
  ASSUME MailInv, NEW i \in Identity, TextArrives(i) PROVE MailInv'
<1> DEFINE p == Head(post[i])
           v == [mail[i][p] EXCEPT !.step = "body"]
<1>1. /\ post[i] # <<>> /\ post' = [post EXCEPT ![i] = Tail(@)]
      /\ mail' = [mail EXCEPT ![i][p].step = "body"]
      /\ arrived' = [arrived EXCEPT ![i] = Append(@, Head(post[i]))]
      /\ UNCHANGED <<call, link, wire, keys, vault, refused, app, sent, troubles>>
  BY DEF TextArrives
<1>2. p \in Piece
  BY <1>1, MailTypes, Rest DEF MailInv
<1>3. mail \in [Identity -> [Piece -> Slot]] /\ mail[i][p] \in Slot
  BY <1>2, MailTypes DEF MailInv
<1>4. v \in Slot /\ v.ask = mail[i][p].ask
  BY <1>3 DEF Slot
<1>5. mail' = [mail EXCEPT ![i][p] = v]
  BY <1>1
<1> HIDE DEF v
<1>6. OnTheWay' /\ post' \in [Identity -> Seq(Piece)]
  BY <1>1, <1>4, <1>5, ArrivalWay
<1> HIDE DEF p
<1>7. /\ mail' \in [Identity -> [Piece -> Slot]]
      /\ \A j \in Identity, q \in Piece : mail'[j][q] = IF j = i /\ q = p THEN v ELSE mail[j][q]
  BY <1>2, <1>3, <1>4, <1>5, MailSet
<1>8. Openings'
  <2>1. \A j \in Identity, q \in Piece : mail'[j][q].ask = mail[j][q].ask
    BY <1>4, <1>7
  <2> QED BY <1>1, <2>1, SameOpenings
<1>9. arrived' \in [Identity -> Seq(Piece)]
  BY <1>1, ArrivedTyped
<1>10. /\ keys' \in [Identity -> Seq(Ask)] /\ \A j \in Identity : Len(keys'[j]) <= MaxKeys
       /\ vault' \in [Identity -> SUBSET Ask] /\ refused' \in [Identity -> SUBSET Ask]
       /\ app' \in [Identity -> Seq(Call)]
  BY <1>1, MailTypes DEF MailInv
<1> QED BY <1>1, <1>6, <1>7, <1>8, <1>9, <1>10, RecipientStep

\* _deliver of bytes, whose message's key is asked for or was before.
LEMMA BytesArriveKeeps ==
  ASSUME MailInv, NEW i \in Identity, BytesArrive(i) PROVE MailInv'
<1> DEFINE p == Head(post[i])
           a == [call |-> p[1], n |-> Begun(i, p[1]) + 1]
           w == [step |-> "key", ask |-> a.n]
<1>1. /\ post[i] # <<>> /\ p[1] \in Bytes /\ post' = [post EXCEPT ![i] = Tail(@)]
      /\ arrived' = [arrived EXCEPT ![i] = Append(@, Head(post[i]))]
      /\ UNCHANGED <<call, link, wire, refused, app, sent, troubles>>
  BY DEF BytesArrive
<1>2. p \in Piece
  BY <1>1, MailTypes, Rest DEF MailInv
<1>3. /\ mail \in [Identity -> [Piece -> Slot]] /\ keys \in [Identity -> Seq(Ask)]
      /\ \A j \in Identity : Len(keys[j]) <= MaxKeys
      /\ vault \in [Identity -> SUBSET Ask] /\ refused' \in [Identity -> SUBSET Ask]
      /\ app' \in [Identity -> Seq(Call)]
  BY <1>1, MailTypes DEF MailInv
<1>4. arrived' \in [Identity -> Seq(Piece)]
  BY <1>1, ArrivedTyped
<1>5. CASE /\ Cached(i, p[1]) = {}
           /\ mail' = [mail EXCEPT ![i][p] = w]
           /\ vault' = [vault EXCEPT ![i] = @ \cup {a}]
           /\ keys' = [keys EXCEPT ![i] = Remember(@, a)]
  <2>1. w \in Slot
    <3>1. Begun(i, p[1]) \in Nat
      BY SealedMailAssumptions, <1>1 DEF SealedMailAssumptions, MailInv, Openings
    <3> QED BY <3>1 DEF Slot
  <2>2. OnTheWay' /\ post' \in [Identity -> Seq(Piece)] /\ Untouched(i, p)
    BY <1>1, <1>5, <2>1, ArrivalWay
  <2>3. mail' \in [Identity -> [Piece -> Slot]]
    BY <1>2, <1>3, <1>5, <2>1, MailSet
  <2>4. /\ Openings' /\ a \in Ask /\ keys' \in [Identity -> Seq(Ask)]
        /\ \A j \in Identity : Len(keys'[j]) <= MaxKeys
    BY <1>1, <1>2, <1>5, <2>2, AskedOpenings
  <2>5. vault' \in [Identity -> SUBSET Ask]
    BY <1>3, <1>5, <2>4
  <2> QED BY <1>1, <1>3, <1>4, <2>2, <2>3, <2>4, <2>5, RecipientStep
<1>6. ASSUME NEW n \in Cached(i, p[1]), UNCHANGED <<vault, keys>>,
             mail' = [mail EXCEPT ![i][p] =
                        [step |-> CASE keys[i][n] \in vault[i] -> "key"
                                    [] keys[i][n] \in refused[i] -> "bad"
                                    [] OTHER -> "body",
                         ask |-> keys[i][n].n]]
      PROVE  MailInv'
  <2> DEFINE s == CASE keys[i][n] \in vault[i] -> "key"
                    [] keys[i][n] \in refused[i] -> "bad"
                    [] OTHER -> "body"
             v == [step |-> s, ask |-> keys[i][n].n]
  <2>1. s \in {"away", "key", "body", "in", "bad"}
    OBVIOUS
  <2>2. keys[i][n].n \in Nat
    <3>1. n \in 1 .. Len(keys[i]) /\ keys[i] \in Seq(Ask)
      BY <1>3 DEF Cached
    <3>2. keys[i][n] \in Ask
      BY <3>1
    <3> QED BY <3>2 DEF Ask
  <2>3. mail' = [mail EXCEPT ![i][p] = v]
    BY <1>6
  <2> HIDE DEF s
  <2>4. v \in Slot /\ v.ask = keys[i][n].n
    BY <2>1, <2>2 DEF Slot
  <2> HIDE DEF v
  <2>5. OnTheWay' /\ post' \in [Identity -> Seq(Piece)] /\ Untouched(i, p)
    BY <1>1, <2>3, <2>4, ArrivalWay
  <2>6. mail' \in [Identity -> [Piece -> Slot]]
    BY <1>2, <1>3, <2>3, <2>4, MailSet
  <2>7. Openings'
    <3>1. UNCHANGED <<vault, keys, refused>> /\ n \in Cached(i, p[1])
      BY <1>1, <1>6
    <3> HIDE DEF p
    <3> QED BY <1>2, <2>3, <2>4, <2>5, <3>1, CachedOpenings
  <2>8. /\ keys' \in [Identity -> Seq(Ask)] /\ vault' \in [Identity -> SUBSET Ask]
        /\ \A j \in Identity : Len(keys'[j]) <= MaxKeys
    BY <1>3, <1>6
  <2> QED BY <1>1, <1>3, <1>4, <2>5, <2>6, <2>7, <2>8, RecipientStep
<1> QED BY <1>5, <1>6 DEF BytesArrive

\* An opening is answered: those that await it go on.
LEMMA KeyAnsweredKeeps ==
  ASSUME MailInv, NEW i \in Identity, NEW a \in vault[i],
         KeyOpened(i, a) \/ KeyRefused(i, a)
  PROVE  MailInv'
<1>0. /\ mail \in [Identity -> [Piece -> Slot]] /\ keys \in [Identity -> Seq(Ask)]
      /\ \A j \in Identity : Len(keys[j]) <= MaxKeys
      /\ vault \in [Identity -> SUBSET Ask] /\ refused \in [Identity -> SUBSET Ask]
      /\ app \in [Identity -> Seq(Call)] /\ arrived \in [Identity -> Seq(Piece)]
      /\ post \in [Identity -> Seq(Piece)]
  BY MailTypes DEF MailInv
<1>1. \E step \in {"body", "bad"} : mail' = Settle(i, a, step)
  BY DEF KeyOpened, KeyRefused
<1>2. /\ mail' \in [Identity -> [Piece -> Slot]]
      /\ \A j \in Identity, q \in Piece :
           /\ mail'[j][q].ask = mail[j][q].ask
           /\ mail[j][q].step = "away" => mail'[j][q] = mail[j][q]
  BY <1>0, <1>1, MailSettled
<1>3. /\ UNCHANGED <<call, link, wire, post, sent, app, arrived>>
      /\ Trouble \/ UNCHANGED troubles
      /\ vault' = [vault EXCEPT ![i] = @ \ {a}]
  BY DEF KeyOpened, KeyRefused, sending
<1>4. OnTheWay'
  BY <1>2, <1>3, SameWay DEF Untouched
<1>5. vault' \in [Identity -> SUBSET Ask] /\ \A j \in Identity : vault'[j] \subseteq vault[j]
  BY <1>0, <1>3
<1>6. CASE KeyOpened(i, a)
  <2>1. UNCHANGED <<keys, refused>>
    BY <1>6 DEF KeyOpened
  <2>2. Openings'
    BY <1>2, <1>5, <2>1, SameOpenings
  <2> QED BY <1>0, <1>2, <1>3, <1>4, <1>5, <2>1, <2>2, RecipientStep
<1>7. CASE KeyRefused(i, a)
  <2>1. /\ refused' = [refused EXCEPT ![i] = @ \cup {a}]
        /\ keys' = [keys EXCEPT ![i] = Forget(i, a.call)]
    BY <1>7 DEF KeyRefused
  <2>2. /\ Openings' /\ keys' \in [Identity -> Seq(Ask)]
        /\ \A j \in Identity : Len(keys'[j]) <= MaxKeys
    BY <1>2, <1>3, <2>1, RefusedOpenings
  <2>3. refused' \in [Identity -> SUBSET Ask]
    BY <1>0, <2>1
  <2> QED BY <1>0, <1>2, <1>3, <1>4, <1>5, <2>2, <2>3, RecipientStep
<1> QED BY <1>6, <1>7

\* What was open is handed on, or does not open.
LEMMA OpenedKeeps ==
  ASSUME MailInv, NEW i \in Identity, NEW p \in Piece,
         Opened(i, p) \/ OpenFails(i, p)
  PROVE  MailInv'
<1>0. /\ mail \in [Identity -> [Piece -> Slot]] /\ keys \in [Identity -> Seq(Ask)]
      /\ \A j \in Identity : Len(keys[j]) <= MaxKeys
      /\ vault \in [Identity -> SUBSET Ask] /\ refused \in [Identity -> SUBSET Ask]
      /\ app \in [Identity -> Seq(Call)] /\ arrived \in [Identity -> Seq(Piece)]
      /\ post \in [Identity -> Seq(Piece)]
  BY MailTypes DEF MailInv
<1>1. /\ mail[i][p].step = "body"
      /\ \E step \in {"in", "bad"} : mail' = [mail EXCEPT ![i][p].step = step]
      /\ UNCHANGED <<call, link, wire, post, sent, keys, vault, refused, arrived>>
      /\ Trouble \/ UNCHANGED troubles
  BY DEF Opened, OpenFails, sending
<1>2. PICK step \in {"in", "bad"} : mail' = [mail EXCEPT ![i][p].step = step]
  BY <1>1
<1> DEFINE v == [mail[i][p] EXCEPT !.step = step]
<1>3. v \in Slot /\ v.ask = mail[i][p].ask
  <2>1. mail[i][p] \in Slot
    BY <1>0
  <2> QED BY <2>1 DEF Slot
<1>4. mail' = [mail EXCEPT ![i][p] = v]
  BY <1>2
<1> HIDE DEF v
<1>5. /\ mail' \in [Identity -> [Piece -> Slot]]
      /\ \A j \in Identity, q \in Piece : mail'[j][q] = IF j = i /\ q = p THEN v ELSE mail[j][q]
  BY <1>0, <1>3, <1>4, MailSet
<1>6. OnTheWay'
  <2>1. \A j \in Identity, q \in Piece : Untouched(j, q) => Untouched(j, q)'
    BY <1>1, <1>5 DEF Untouched
  <2> QED BY <1>1, <2>1, SameWay
<1>7. Openings'
  <2>1. \A j \in Identity, q \in Piece : mail'[j][q].ask = mail[j][q].ask
    BY <1>3, <1>5
  <2> QED BY <1>1, <2>1, SameOpenings
<1>8. app' \in [Identity -> Seq(Call)]
  <2>1. p[1] \in Call
    BY PieceParts
  <2>2. Append(app[i], p[1]) \in Seq(Call)
    BY <1>0, <2>1, Appended
  <2>3. Handed(i, p) \in Seq(Call)
    BY <1>0, <2>2 DEF Handed
  <2>4. app' = [app EXCEPT ![i] = Handed(i, p)] \/ app' = app
    BY DEF Opened, OpenFails
  <2> QED BY <1>0, <2>3, <2>4
<1> QED BY <1>0, <1>1, <1>5, <1>6, <1>7, <1>8, RecipientStep

\* Nothing happens.
LEMMA MailStutter ==
  ASSUME MailInv, UNCHANGED vars PROVE MailInv'
<1>0. UNCHANGED <<call, link, wire, sent, post, mail, keys, vault, refused, app, arrived, troubles>>
  BY DEF vars
<1>1. OnTheWay'
  BY <1>0, SameWay DEF Untouched
<1>2. Openings'
  BY <1>0, SameOpenings
<1>3. /\ post \in [Identity -> Seq(Piece)] /\ mail \in [Identity -> [Piece -> Slot]]
      /\ keys \in [Identity -> Seq(Ask)] /\ \A i \in Identity : Len(keys[i]) <= MaxKeys
      /\ vault \in [Identity -> SUBSET Ask] /\ refused \in [Identity -> SUBSET Ask]
      /\ app \in [Identity -> Seq(Call)] /\ arrived \in [Identity -> Seq(Piece)]
  BY MailTypes DEF MailInv
<1> QED BY <1>0, <1>1, <1>2, <1>3, RecipientStep

\* Every step keeps the invariant.
LEMMA MailNext == MailInv /\ [Next]_vars => MailInv'
<1> SUFFICES ASSUME MailInv, [Next]_vars PROVE MailInv'
  OBVIOUS
<1>1. ASSUME NEW c \in Call, SendSealed(c) \/ Settles(c) PROVE MailInv'
  BY <1>1, SendSealedKeeps, KeyAnswerKeeps, SealerKeeps, PieceSealedKeeps DEF Settles
<1>2. CASE LinkDown \/ LinkUp \/ ProxyReads
  BY <1>2, LinkKeeps
<1>3. ASSUME NEW i \in Identity, Receives(i) PROVE MailInv'
  BY <1>3, TextArrivesKeeps, BytesArriveKeeps, KeyAnsweredKeeps, OpenedKeeps DEF Receives
<1>4. CASE UNCHANGED vars
  BY <1>4, MailStutter
<1> QED BY <1>1, <1>2, <1>3, <1>4 DEF Next

\* The invariant holds throughout.
LEMMA MailInvHolds == Spec => []MailInv
<1>1. Init => MailInv
  BY MailInitOK
<1>2. MailInv /\ [Next]_vars => MailInv'
  BY MailNext
<1> QED BY <1>1, <1>2, PTL DEF Spec

\* What a call has sent goes by the turn of its recipients.
LEMMA TurnsFromProgress ==
  ASSUME MailInv PROVE ServedInTurn
<1> SUFFICES ASSUME NEW c \in Call
             PROVE  /\ call[c].step \in {"new", "keys", "unknown"} =>
                         \A i \in Identity : SentTo(c, i) = {}
                    /\ \A m, n \in 1 .. Len(To[c]) :
                         m < n /\ SentTo(c, To[c][n]) # {} => SentTo(c, To[c][m]) = 1 .. Pieces[c]
                    /\ call[c].step = "done" =>
                         \A n \in 1 .. Len(To[c]) : SentTo(c, To[c][n]) = 1 .. Pieces[c]
  BY DEF ServedInTurn
<1>1. Reached(c, call[c]) /\ call[c] \in CallState
  BY MailTypes DEF MailInv, Progress
<1>2. /\ call[c].step \in {"new", "keys", "unknown", "sealing", "failed", "done"}
      /\ call[c].to \in Nat /\ call[c].piece \in Nat /\ Len(To[c]) \in Nat
  BY SealedMailAssumptions, <1>1 DEF CallState, SealedMailAssumptions
<1>3. call[c].step \in {"new", "keys", "unknown"} => \A i \in Identity : SentTo(c, i) = {}
  BY <1>1, NothingSent DEF Reached
<1>4. ASSUME NEW m \in 1 .. Len(To[c]), NEW n \in 1 .. Len(To[c]), m < n,
             SentTo(c, To[c][n]) # {}
      PROVE  SentTo(c, To[c][m]) = 1 .. Pieces[c]
  <2>0. To[c][n] \in Identity
    BY SealedMailAssumptions DEF SealedMailAssumptions
  <2>1. CASE call[c].step \in {"sealing", "failed"}
    <3>1. n <= call[c].to
      BY <1>1, <1>2, <1>4, <2>1 DEF Reached
    <3>2. m < call[c].to
      BY <1>2, <1>4, <3>1
    <3> QED BY <1>1, <2>1, <3>2 DEF Reached
  <2>2. CASE call[c].step = "done"
    BY <1>1, <2>2 DEF Reached
  <2> QED BY <1>2, <1>3, <1>4, <2>0, <2>1, <2>2
<1> QED BY <1>1, <1>3, <1>4 DEF Reached

\* An opening that failed is of no key remembered.
LEMMA NoRefusalFromOpenings == ASSUME MailInv PROVE NoRefusalKept
BY DEF MailInv, Openings, Remembers, NoRefusalKept

\* The types, and the limit of the messages' keys remembered (_msgKeys).
THEOREM SealedMailTypeCorrect == Spec => []TypeOK
<1>1. MailInv => TypeOK
  BY DEF MailInv
<1> QED BY <1>1, MailInvHolds, PTL

\* sendSealed serves its recipients in turn, and nobody before all keys are known.
THEOREM ServedInTurnHolds == Spec => []ServedInTurn
<1>1. MailInv => ServedInTurn
  BY TurnsFromProgress
<1> QED BY <1>1, MailInvHolds, PTL

\* No refusal of a message's key is remembered.
THEOREM NoRefusalKeptHolds == Spec => []NoRefusalKept
<1>1. MailInv => NoRefusalKept
  BY NoRefusalFromOpenings
<1> QED BY <1>1, MailInvHolds, PTL
=============================================================================
