--------------------------- MODULE Services_proofs ---------------------------
(* Proofs about Services: its steps are steps of EncPubs and of TurnRelay,   *)
(* and what each of the two promises holds for any identities, callers, keys *)
(* and runs.                                                                 *)
EXTENDS Services, TLAPS

\* What a verification under way brings is no older than what may be kept, and
\* none is newer than what its identity has announced.
VerifiesNoOlder ==
  \A i \in Identity :
    /\ floor[i] <= announced[i]
    /\ inflight[i].stage = "verifying" =>
         inflight[i].key = Keys!Forged \/ (floor[i] <= inflight[i].key /\ inflight[i].key <= announced[i])

\* Nor is what the proxy has acknowledged to this client.
StoredIsAnnounced == \A i \in Mine : announcing[i].stored \subseteq 1 .. announced[i]

KeysInv ==
  /\ Keys!TypeOK
  /\ Keys!ForgetTakesEffect
  /\ Keys!WaitersHaveLookup
  /\ VerifiesNoOlder
  /\ StoredIsAnnounced

\* A run that is over keeps nothing; without overlap, a run that turns names into
\* addresses has the latest word, and after close() there is at most a call of
\* the app's that cannot ask.
RunsAsTheyShould ==
  /\ \A r \in Run : Turn!Is(r, "none") => run[r] = Turn!Idle
  /\ ~crossed =>
       /\ \A r \in Run : Turn!Is(r, "pinning") => turn = "active"
       /\ link = "closed" =>
            \A r \in Run : run[r] \in {Turn!Idle, [stage |-> "signing", by |-> "app"]}

TurnInv ==
  /\ Turn!TypeOK
  /\ RunsAsTheyShould
  /\ Turn!InOrder
  /\ Turn!RenewalGoesOn

-----------------------------------------------------------------------------
(* One step of both is a step of each *)

\* Of the keys, what only concerns them leaves the connection alone.
LEMMA KeyStepKeepsLink == Keys!KeyStep => UNCHANGED link
  BY DEF Keys!KeyStep, Keys!EncPubOf, Keys!ResolverKnows, Keys!AskProxy, Keys!ProxyAnswers,
         Keys!Verified, Keys!LookupFails, Keys!LearnEncPub, Keys!ForgetEncPub,
         Keys!ProxyStores, Keys!Announced, Keys!AnnouncementFails, Keys!PeerAnnounces

\* Nor does a run change it.
LEMMA RunKeepsLink == ASSUME NEW r \in Run, Turn!GoesOn(r) \/ Turn!EnableTurn(r)
                      PROVE  UNCHANGED link
  BY DEF Turn!GoesOn, Turn!TimerFires, Turn!Signed, Turn!Granted, Turn!Pinned, Turn!Refused,
         Turn!Disabled, Turn!EnableTurnFails, Turn!EnableTurn

\* Every step is one of EncPubs.
LEMMA StepOfKeys == [Next]_vars => [Keys!Next]_(Keys!vars)
<1> SUFFICES ASSUME [Next]_vars PROVE [Keys!Next]_(Keys!vars)
  OBVIOUS
<1>1. ASSUME NEW r \in Run, NEW i \in Mine, Identified(r, i) PROVE Keys!Next
  BY <1>1 DEF Identified, Keys!Next
<1>2. ASSUME NEW r \in Run, EnableTurn(r) PROVE UNCHANGED Keys!vars
  BY <1>2, RunKeepsLink DEF EnableTurn, keyVars, Keys!vars
<1>3. ASSUME NEW i \in Mine, AnnounceEncPub(i) PROVE Keys!Next
  BY <1>3 DEF AnnounceEncPub, Keys!Next
<1>4. CASE Keys!KeyStep /\ UNCHANGED turnVars
  BY <1>4 DEF Keys!Next
<1>5. ASSUME NEW r \in Run, Turn!GoesOn(r), UNCHANGED keyVars PROVE UNCHANGED Keys!vars
  BY <1>5, RunKeepsLink DEF keyVars, Keys!vars
<1>6. CASE LinkOpens \/ LinkDrops \/ Close
  BY <1>6 DEF LinkOpens, LinkDrops, Close, Keys!Next
<1>7. CASE UNCHANGED vars
  BY <1>7 DEF vars, keyVars, Keys!vars
<1> QED
  BY <1>1, <1>2, <1>3, <1>4, <1>5, <1>6, <1>7 DEF Next

\* Every step is one of TurnRelay.
LEMMA StepOfTurn == [Next]_vars => [Turn!Next]_(Turn!vars)
<1> SUFFICES ASSUME [Next]_vars PROVE [Turn!Next]_(Turn!vars)
  OBVIOUS
<1>1. ASSUME NEW r \in Run, NEW i \in Mine, Identified(r, i) PROVE Turn!Next
  BY <1>1 DEF Identified, Turn!Next
<1>2. ASSUME NEW r \in Run, EnableTurn(r) PROVE Turn!Next
  BY <1>2 DEF EnableTurn, Turn!Next
<1>3. ASSUME NEW i \in Mine, AnnounceEncPub(i) PROVE UNCHANGED Turn!vars
  BY <1>3 DEF AnnounceEncPub, Keys!AnnounceEncPub, turnVars, Turn!vars
<1>4. ASSUME Keys!KeyStep, UNCHANGED turnVars PROVE UNCHANGED Turn!vars
  BY <1>4, KeyStepKeepsLink DEF turnVars, Turn!vars
<1>5. ASSUME NEW r \in Run, Turn!GoesOn(r), UNCHANGED keyVars PROVE Turn!Next
  BY <1>5 DEF Turn!Next
<1>6. CASE LinkOpens \/ LinkDrops \/ Close
  BY <1>6 DEF LinkOpens, LinkDrops, Close, Turn!Next
<1>7. CASE UNCHANGED vars
  BY <1>7 DEF vars, turnVars, Turn!vars
<1> QED
  BY <1>1, <1>2, <1>3, <1>4, <1>5, <1>6, <1>7 DEF Next

\* Services composes the two without adding to what either may do.
THEOREM ComposesBoth == Spec => Keys!Spec /\ Turn!Spec
<1>1. Init => Keys!Init /\ Turn!Init
  BY DEF Init
<1> QED
  BY <1>1, StepOfKeys, StepOfTurn, PTL DEF Spec, Keys!Spec, Turn!Spec

-----------------------------------------------------------------------------
(* The keys *)

\* Init establishes the invariant.
LEMMA KeysInit == Keys!Init => KeysInv
  BY ServicesAssumption
  DEF Keys!Init, KeysInv, Keys!TypeOK, Keys!ForgetTakesEffect,
      Keys!WaitersHaveLookup, VerifiesNoOlder, StoredIsAnnounced, Keys!NoKey, Keys!Forged,
      Keys!Announcing, Keys!NotAnnouncing,
      Keys!NoLookup, Keys!Lookup, Keys!Link, Keys!Key, Keys!KeysAssumption

\* Every step keeps types.
LEMMA KeysTypeStep == Keys!TypeOK /\ [Keys!Next]_(Keys!vars) => Keys!TypeOK'
<1> SUFFICES ASSUME Keys!TypeOK, [Keys!Next]_(Keys!vars) PROVE Keys!TypeOK'
  OBVIOUS
<1> USE ServicesAssumption
    DEF Keys!TypeOK, Keys!NoKey, Keys!Forged, Keys!Announcing, Keys!NotAnnouncing, Keys!NoLookup, Keys!Lookup,
        Keys!Link, Keys!Key, Keys!KeysAssumption, Keys!Asking
<1>s. ASSUME NEW S \in SUBSET Identity, Keys!Settle(S)
      PROVE  inflight' \in [Identity -> Keys!Lookup] /\ waiting' \in [Identity -> 0 .. MaxCalls]
  BY <1>s DEF Keys!Settle
<1>1. ASSUME NEW i \in Identity, Keys!EncPubOf(i) PROVE Keys!TypeOK'
  BY <1>1 DEF Keys!EncPubOf
<1>2. ASSUME NEW i \in Identity, NEW key \in {Keys!Forged} \cup Keys!Key, Keys!ResolverKnows(i, key)
      PROVE  Keys!TypeOK'
  BY <1>2, <1>s DEF Keys!ResolverKnows, Keys!Learnt, Keys!Fail
<1>3. ASSUME NEW i \in Identity, NEW key \in {Keys!Forged} \cup Keys!Key, Keys!LearnEncPub(i, key)
      PROVE  Keys!TypeOK'
  BY <1>3 DEF Keys!LearnEncPub, Keys!Learnt, Keys!lookupVars
<1>4. ASSUME NEW i \in Identity, Keys!AskProxy(i) PROVE Keys!TypeOK'
  BY <1>4 DEF Keys!AskProxy
<1>5. ASSUME NEW i \in Identity, NEW key \in {Keys!Forged, Keys!NoKey} \cup Keys!Key,
             Keys!ProxyAnswers(i, key)
      PROVE  Keys!TypeOK'
  BY <1>5, <1>s DEF Keys!ProxyAnswers, Keys!Fail
<1>6. ASSUME NEW i \in Identity, Keys!Verified(i) PROVE Keys!TypeOK'
  BY <1>6, <1>s DEF Keys!Verified, Keys!Learnt, Keys!Fail
<1>7. ASSUME NEW i \in Identity, Keys!LookupFails(i) PROVE Keys!TypeOK'
  BY <1>7, <1>s DEF Keys!LookupFails, Keys!Fail
<1>8. ASSUME NEW S \in SUBSET Identity, Keys!ForgetEncPub(S) PROVE Keys!TypeOK'
  BY <1>8 DEF Keys!ForgetEncPub, Keys!Forgotten, Keys!lookupVars
<1>9. ASSUME NEW i \in Mine, Keys!ProxyStores(i) PROVE Keys!TypeOK'
  <2>1. i \in Identity /\ announced' = [announced EXCEPT ![i] = @ + 1] /\ announced[i] < MaxKey
    BY <1>9 DEF Keys!ProxyStores, Keys!Stored
  <2>2. announced' \in [Identity -> 0 .. MaxKey] /\ announced'[i] \in 1 .. MaxKey
    BY <2>1
  <2>3. [announcing[i] EXCEPT !.asked = @ - 1, !.stored = @ \cup {announced'[i]}] \in Keys!Announcing
    <3>1. announcing[i] \in Keys!Announcing /\ announcing[i].asked > 0
      BY <1>9 DEF Keys!ProxyStores
    <3>2. announcing[i].asked - 1 \in Nat /\ announcing[i].stored \cup {announced'[i]} \in SUBSET Keys!Key
      BY <2>2, <3>1
    <3> QED
      BY <3>1, <3>2
  <2>4. announcing' \in [Mine -> Keys!Announcing]
    <3>1. announcing' = [announcing EXCEPT ![i] =
                           [announcing[i] EXCEPT !.asked = @ - 1, !.stored = @ \cup {announced'[i]}]]
      BY <1>9 DEF Keys!ProxyStores
    <3> QED
      BY <2>3, <3>1
  <2> QED
    BY <1>9, <2>2, <2>4 DEF Keys!ProxyStores, Keys!clientVars
<1>10. ASSUME NEW i \in Mine, NEW key \in Keys!Key, Keys!Announced(i, key) PROVE Keys!TypeOK'
  BY <1>10 DEF Keys!Announced, Keys!Learnt, Keys!lookupVars
<1>11. ASSUME NEW i \in Mine, Keys!AnnouncementFails(i) PROVE Keys!TypeOK'
  <2>1. CASE announcing[i].asked > 0 /\ announcing' = [announcing EXCEPT ![i].asked = @ - 1]
    BY <1>11, <2>1 DEF Keys!AnnouncementFails, Keys!clientVars
  <2>2. ASSUME NEW key \in Keys!Key, announcing' = [announcing EXCEPT ![i].stored = @ \ {key}]
        PROVE  Keys!TypeOK'
    BY <1>11, <2>2 DEF Keys!AnnouncementFails, Keys!clientVars
  <2> QED
    BY <1>11, <2>1, <2>2 DEF Keys!AnnouncementFails
<1>12. ASSUME NEW i \in Identity, Keys!PeerAnnounces(i) PROVE Keys!TypeOK'
  BY <1>12 DEF Keys!PeerAnnounces, Keys!Stored, Keys!clientVars
<1>13. ASSUME NEW i \in Mine, Keys!AnnounceEncPub(i) PROVE Keys!TypeOK'
  BY <1>13 DEF Keys!AnnounceEncPub, Keys!clientVars
<1>14. CASE Keys!LinkDrops
  BY <1>14 DEF Keys!LinkDrops, Keys!Lost
<1>15. CASE Keys!LinkOpens
  BY <1>15 DEF Keys!LinkOpens, Keys!clientVars
<1>16. CASE Keys!Close
  BY <1>16, <1>s DEF Keys!Close, Keys!Fail
<1>17. CASE UNCHANGED Keys!vars
  BY <1>17 DEF Keys!vars
<1> QED
  BY <1>1, <1>2, <1>3, <1>4, <1>5, <1>6, <1>7, <1>8, <1>9, <1>10, <1>11, <1>12, <1>13,
     <1>14, <1>15, <1>16, <1>17
  DEF Keys!Next, Keys!KeyStep

\* The proxy acknowledges what it stores, and forgets nothing.
LEMMA StoredStep ==
  Keys!TypeOK /\ StoredIsAnnounced /\ [Keys!Next]_(Keys!vars) => StoredIsAnnounced'
<1> SUFFICES ASSUME Keys!TypeOK, StoredIsAnnounced, [Keys!Next]_(Keys!vars)
             PROVE  StoredIsAnnounced'
  OBVIOUS
<1> USE ServicesAssumption
    DEF Keys!TypeOK, StoredIsAnnounced, Keys!NoKey, Keys!Announcing, Keys!NotAnnouncing,
        Keys!Key, Keys!KeysAssumption
<1>1. ASSUME UNCHANGED <<announced, announcing>> PROVE StoredIsAnnounced'
  BY <1>1
<1>2. ASSUME NEW i \in Identity, Keys!Stored(i)
      PROVE  /\ announced' = [announced EXCEPT ![i] = @ + 1]
             /\ \A j \in Identity : announced[j] <= announced'[j] /\ announced'[j] \in Nat
             /\ announced'[i] \in 1 .. announced'[i]
  BY <1>2 DEF Keys!Stored
<1>3. ASSUME NEW i \in Identity, Keys!PeerAnnounces(i) PROVE StoredIsAnnounced'
  <2>1. announcing' = announcing
    BY <1>3 DEF Keys!PeerAnnounces
  <2>2. \A j \in Identity : announced[j] <= announced'[j] /\ announced'[j] \in Nat
    BY <1>2, <1>3 DEF Keys!PeerAnnounces
  <2> QED
    BY <2>1, <2>2
<1>4. ASSUME NEW i \in Mine, Keys!ProxyStores(i) PROVE StoredIsAnnounced'
  <2>1. i \in Identity /\ announced'[i] \in 1 .. announced'[i]
        /\ \A j \in Identity : announced[j] <= announced'[j] /\ announced'[j] \in Nat
    BY <1>2, <1>4 DEF Keys!ProxyStores
  <2>2. \A j \in Mine : announcing'[j].stored =
          IF j = i THEN announcing[j].stored \cup {announced'[i]} ELSE announcing[j].stored
    BY <1>4 DEF Keys!ProxyStores
  <2>3. \A j \in Mine : j \in Identity /\ announced[j] \in Nat
    OBVIOUS
  <2>4. \A j \in Mine : 1 .. announced[j] \subseteq 1 .. announced'[j]
    BY <2>1, <2>3
  <2> HIDE DEF Keys!TypeOK
  <2> QED
    BY <2>1, <2>2, <2>4
<1>5. ASSUME announced' = announced, \A i \in Mine : announcing'[i].stored \subseteq announcing[i].stored
      PROVE  StoredIsAnnounced'
  BY <1>5
<1>6. ASSUME NEW i \in Mine, NEW key \in Keys!Key, Keys!Announced(i, key) PROVE StoredIsAnnounced'
  BY <1>5, <1>6 DEF Keys!Announced
<1>7. ASSUME NEW i \in Mine, Keys!AnnouncementFails(i) \/ Keys!AnnounceEncPub(i) PROVE StoredIsAnnounced'
  <2>1. announced' = announced
    BY <1>7 DEF Keys!AnnouncementFails, Keys!AnnounceEncPub
  <2>2. \A j \in Mine : announcing'[j].stored \subseteq announcing[j].stored
    BY <1>7 DEF Keys!AnnouncementFails, Keys!AnnounceEncPub
  <2> QED
    BY <1>5, <2>1, <2>2
<1>8. CASE Keys!LinkDrops \/ Keys!Close
  BY <1>5, <1>8 DEF Keys!LinkDrops, Keys!Close
<1>9. CASE UNCHANGED Keys!vars \/ Keys!LinkOpens
  BY <1>1, <1>9 DEF Keys!vars, Keys!LinkOpens
<1> QED
  BY <1>1, <1>3, <1>4, <1>6, <1>7, <1>8, <1>9
  DEF Keys!Next, Keys!KeyStep, Keys!EncPubOf, Keys!ResolverKnows, Keys!AskProxy,
      Keys!ProxyAnswers, Keys!Verified, Keys!LookupFails, Keys!LearnEncPub, Keys!ForgetEncPub

\* Every step keeps the invariant: a key is kept only when it was verified or is
\* the app's own, a forgetting with no lookup under way leaves no older key to
\* come, and a lookup ends together with those who wait for it.
LEMMA KeysStep == KeysInv /\ [Keys!Next]_(Keys!vars) => KeysInv'
<1> SUFFICES ASSUME KeysInv, [Keys!Next]_(Keys!vars) PROVE KeysInv'
  OBVIOUS
<1>t. Keys!TypeOK /\ Keys!TypeOK'
  BY KeysTypeStep DEF KeysInv
<1> DEFINE Rest == /\ Keys!ForgetTakesEffect
                   /\ Keys!WaitersHaveLookup
                   /\ VerifiesNoOlder
<1> USE ServicesAssumption
    DEF KeysInv, Keys!TypeOK, Keys!ForgetTakesEffect,
        Keys!WaitersHaveLookup, VerifiesNoOlder, Keys!NoKey, Keys!Forged,
        Keys!NoLookup, Keys!Lookup, Keys!Key, Keys!KeysAssumption, Keys!Asking
<1>s. ASSUME NEW S \in SUBSET Identity, Keys!Settle(S)
      PROVE  /\ Keys!WaitersHaveLookup'
             /\ \A i \in Identity : inflight'[i] = inflight[i] \/ inflight'[i].stage = "none"
  BY <1>s DEF Keys!Settle
<1>q. ASSUME UNCHANGED <<announced, encPubs, inflight, waiting, floor>> PROVE Rest'
  BY <1>q
<1>1. ASSUME NEW i \in Identity, Keys!EncPubOf(i) PROVE Rest'
  BY <1>1, <1>t DEF Keys!EncPubOf
<1>2. ASSUME NEW i \in Identity, NEW key \in {Keys!Forged} \cup Keys!Key, Keys!ResolverKnows(i, key)
      PROVE  Rest'
  <2>1. CASE Keys!IsEncPub(key)
    <3>1. /\ encPubs' = [encPubs EXCEPT ![i] = key]
          /\ floor' = [floor EXCEPT ![i] = Keys!NoKey]
          /\ Keys!Settle({i})
          /\ UNCHANGED announced
      BY <1>2, <2>1 DEF Keys!ResolverKnows, Keys!Learnt
    <3>2. key \in Nat \ {0}
      BY <2>1 DEF Keys!IsEncPub
    <3>3. Keys!ForgetTakesEffect'
      BY <1>t, <3>1, <3>2
    <3>4. VerifiesNoOlder'
      BY SMTT(30), <1>s, <1>t, <3>1
    <3> QED
      BY <1>s, <3>1, <3>3, <3>4
  <2>2. CASE ~Keys!IsEncPub(key)
    BY <1>2, <1>s, <1>t, <2>2 DEF Keys!ResolverKnows, Keys!Fail
  <2> QED
    BY <2>1, <2>2
<1>3. ASSUME NEW i \in Identity, NEW key \in {Keys!Forged} \cup Keys!Key, Keys!LearnEncPub(i, key)
      PROVE  Rest'
  <2>1. UNCHANGED <<announced, inflight, waiting>>
    BY <1>3 DEF Keys!LearnEncPub, Keys!lookupVars
  <2>2. CASE Keys!Verifies(key)
    <3>1. encPubs' = [encPubs EXCEPT ![i] = key] /\ floor' = [floor EXCEPT ![i] = 0] /\ key \in Nat \ {0}
      BY <1>3, <2>2 DEF Keys!LearnEncPub, Keys!Learnt, Keys!Verifies
    <3>2. Keys!ForgetTakesEffect'
      BY <1>t, <3>1
    <3>3. VerifiesNoOlder'
      BY <1>t, <2>1, <3>1
    <3> QED
      BY <2>1, <3>2, <3>3
  <2>3. CASE ~Keys!Verifies(key)
    BY <1>3, <1>q, <2>1, <2>3 DEF Keys!LearnEncPub
  <2> QED
    BY <2>2, <2>3
<1>4. ASSUME NEW i \in Identity, Keys!AskProxy(i) PROVE Rest'
  BY <1>4, <1>t DEF Keys!AskProxy
<1>5. ASSUME NEW i \in Identity, NEW key \in {Keys!Forged, Keys!NoKey} \cup Keys!Key,
             Keys!ProxyAnswers(i, key)
      PROVE  Rest'
  <2>1. CASE key = Keys!NoKey
    <3>1. Keys!Settle({i}) /\ floor' = floor /\ UNCHANGED <<announced, encPubs>>
      BY <1>5, <1>t, <2>1 DEF Keys!ProxyAnswers, Keys!Fail
    <3> QED
      BY <1>s, <1>t, <3>1
  <2>2. CASE key # Keys!NoKey
    <3>1. /\ inflight' = [inflight EXCEPT ![i] = [stage |-> "verifying", key |-> key]]
          /\ floor' = [floor EXCEPT ![i] = IF key \in Keys!Key /\ key < announced[i] THEN 0 ELSE @]
          /\ UNCHANGED <<announced, encPubs, waiting>>
          /\ key = Keys!Forged \/ (key \in Keys!Key /\ key <= announced[i])
      BY <1>5, <2>2 DEF Keys!ProxyAnswers
    <3>2. inflight[i] # Keys!NoLookup
      BY <1>5 DEF Keys!ProxyAnswers
    <3>3. Keys!WaitersHaveLookup'
      BY <1>t, <3>1, <3>2
    <3>4. key = Keys!Forged \/ floor'[i] <= key
      BY <1>t, <3>1
    <3>5. VerifiesNoOlder' /\ Keys!ForgetTakesEffect'
      BY <1>t, <3>1, <3>4
    <3> QED
      BY <3>3, <3>5
  <2> QED
    BY <2>1, <2>2
<1>6. ASSUME NEW i \in Identity, Keys!Verified(i) PROVE Rest'
  <2>1. CASE Keys!Verifies(inflight[i].key)
    <3>1. /\ encPubs' = [encPubs EXCEPT ![i] = inflight[i].key]
          /\ Keys!Settle({i})
          /\ UNCHANGED <<announced, floor>>
      BY <1>6, <2>1 DEF Keys!Verified, Keys!Learnt
    <3>2. inflight[i].key >= floor[i] /\ inflight[i].key # Keys!Forged
      BY <1>6, <2>1 DEF Keys!Verified, Keys!Verifies
    <3> QED
      BY <1>s, <1>t, <3>1, <3>2
  <2>2. CASE ~Keys!Verifies(inflight[i].key)
    BY <1>6, <1>s, <1>t, <2>2 DEF Keys!Verified, Keys!Fail
  <2> QED
    BY <2>1, <2>2
<1>7. ASSUME NEW i \in Identity, Keys!LookupFails(i) PROVE Rest'
  BY <1>7, <1>s, <1>t DEF Keys!LookupFails, Keys!Fail
<1>8. ASSUME NEW S \in SUBSET Identity, Keys!ForgetEncPub(S) PROVE Rest'
  BY <1>8, <1>t DEF Keys!ForgetEncPub, Keys!Forgotten, Keys!lookupVars
<1>o. ASSUME NEW i \in Identity, Keys!Stored(i), UNCHANGED Keys!clientVars PROVE Rest'
  BY <1>o, <1>t DEF Keys!Stored, Keys!clientVars
<1>9. ASSUME NEW i \in Mine, Keys!ProxyStores(i) PROVE Rest'
  BY <1>9, <1>o DEF Keys!ProxyStores
<1>10. ASSUME NEW i \in Mine, NEW key \in Keys!Key, Keys!Announced(i, key) PROVE Rest'
  BY <1>10, <1>t DEF Keys!Announced, Keys!Learnt, Keys!lookupVars
<1>11. ASSUME NEW i \in Mine, Keys!AnnouncementFails(i) PROVE Rest'
  BY <1>11, <1>q DEF Keys!AnnouncementFails, Keys!clientVars
<1>12. ASSUME NEW i \in Identity, Keys!PeerAnnounces(i) PROVE Rest'
  BY <1>12, <1>o DEF Keys!PeerAnnounces
<1>13. ASSUME NEW i \in Mine, Keys!AnnounceEncPub(i) PROVE Rest'
  BY <1>13, <1>q DEF Keys!AnnounceEncPub, Keys!clientVars
<1>14. ASSUME Keys!LinkDrops PROVE Rest'
  <2>1. UNCHANGED <<announced, encPubs, waiting, floor>>
    BY <1>14 DEF Keys!LinkDrops
  <2>2. \A i \in Identity : inflight'[i] = Keys!Lost(inflight[i])
    BY <1>14 DEF Keys!LinkDrops
  <2>3. ASSUME NEW i \in Identity
        PROVE  /\ inflight'[i] # Keys!NoLookup <=> inflight[i] # Keys!NoLookup
               /\ inflight'[i].stage = "verifying" => inflight'[i] = inflight[i]
    BY <2>2 DEF Keys!Lost
  <2>4. ASSUME NEW i \in Identity
        PROVE  /\ waiting'[i] > 0 <=> inflight'[i] # Keys!NoLookup
               /\ encPubs'[i] # Keys!NoKey => encPubs'[i] >= floor'[i]
    BY <2>1, <2>3
  <2>5. ASSUME NEW i \in Identity
        PROVE  /\ floor'[i] <= announced'[i]
               /\ inflight'[i].stage = "verifying" =>
                    \/ inflight'[i].key = Keys!Forged
                    \/ floor'[i] <= inflight'[i].key /\ inflight'[i].key <= announced'[i]
    <3>1. CASE inflight'[i].stage = "verifying"
      BY <2>1, <2>3, <3>1
    <3>2. CASE inflight'[i].stage # "verifying"
      BY <2>1, <3>2
    <3> QED
      BY <3>1, <3>2
  <2> QED
    BY <2>4, <2>5
<1>15. ASSUME Keys!LinkOpens PROVE Rest'
  BY <1>15, <1>q DEF Keys!LinkOpens, Keys!clientVars
<1>16. ASSUME Keys!Close PROVE Rest'
  <2>1. UNCHANGED <<announced, encPubs, floor>>
    BY <1>16 DEF Keys!Close, Keys!Fail
  <2>2. /\ Keys!WaitersHaveLookup'
        /\ \A i \in Identity : inflight'[i] = inflight[i] \/ inflight'[i].stage = "none"
    BY <1>16, <1>s DEF Keys!Close, Keys!Fail
  <2> QED
    BY <2>1, <2>2
<1>17. ASSUME UNCHANGED Keys!vars PROVE Rest'
  BY <1>17, <1>q DEF Keys!vars
<1>18. StoredIsAnnounced'
  BY <1>t, StoredStep DEF KeysInv
<1>19. Rest'
  BY <1>1, <1>2, <1>3, <1>4, <1>5, <1>6, <1>7, <1>8, <1>9, <1>10, <1>11, <1>12, <1>13,
     <1>14, <1>15, <1>16, <1>17
  DEF Keys!Next, Keys!KeyStep
<1> QED
  BY <1>t, <1>18, <1>19

\* What is remembered next was verified, and so announced, acknowledged, and so
\* announced, or named by the resolver.
LEMMA RememberedIsAnnounced ==
  ASSUME Keys!TypeOK, VerifiesNoOlder, StoredIsAnnounced, [Keys!Next]_(Keys!vars),
         NEW i \in Identity, encPubs'[i] \notin {Keys!NoKey, encPubs[i]}
  PROVE  encPubs'[i] \in 1 .. announced[i] \/ Keys!ResolverKnows(i, encPubs'[i])
<1> USE ServicesAssumption DEF Keys!TypeOK, Keys!NoKey, Keys!Forged, Keys!Key, Keys!KeysAssumption
<1>1. ASSUME NEW j \in Identity, NEW key \in {Keys!Forged} \cup Keys!Key, Keys!ResolverKnows(j, key)
      PROVE  Keys!ResolverKnows(i, encPubs'[i])
  <2>1. j = i /\ encPubs'[i] = key
    BY <1>1 DEF Keys!ResolverKnows, Keys!Learnt, Keys!Fail
  <2> QED
    BY <1>1, <2>1
<1>2. ASSUME NEW j \in Identity, NEW key \in {Keys!Forged} \cup Keys!Key, key <= announced[j],
             Keys!LearnEncPub(j, key)
      PROVE  encPubs'[i] \in 1 .. announced[i]
  BY <1>2 DEF Keys!LearnEncPub, Keys!Learnt, Keys!Verifies
<1>3. ASSUME NEW j \in Identity, Keys!Verified(j) PROVE encPubs'[i] \in 1 .. announced[i]
  <2>1. j = i /\ encPubs'[i] = inflight[i].key /\ inflight[i].key # Keys!Forged
        /\ inflight[i].stage = "verifying"
    BY <1>3 DEF Keys!Verified, Keys!Learnt, Keys!Verifies, Keys!Fail
  <2>2. inflight[i].key <= announced[i] /\ inflight[i].key \in Nat \ {0}
    BY <2>1 DEF VerifiesNoOlder, Keys!Lookup
  <2> QED
    BY <2>1, <2>2
<1>4. ASSUME NEW j \in Mine, NEW key \in Keys!Key, Keys!Announced(j, key)
      PROVE  encPubs'[i] \in 1 .. announced[i]
  BY <1>4 DEF Keys!Announced, Keys!First, Keys!Learnt, StoredIsAnnounced
<1>5. ASSUME NEW S \in SUBSET Identity, Keys!ForgetEncPub(S) PROVE FALSE
  BY <1>5 DEF Keys!ForgetEncPub, Keys!Forgotten
<1>6. CASE UNCHANGED encPubs
  BY <1>6
<1> QED
  BY <1>1, <1>2, <1>3, <1>4, <1>5, <1>6
  DEF Keys!Next, Keys!KeyStep, Keys!EncPubOf, Keys!AskProxy, Keys!ProxyAnswers, Keys!LookupFails,
      Keys!Fail, Keys!ProxyStores, Keys!AnnouncementFails, Keys!PeerAnnounces, Keys!AnnounceEncPub,
      Keys!LinkDrops, Keys!LinkOpens, Keys!Close, Keys!clientVars, Keys!vars

-----------------------------------------------------------------------------
(* The relay *)

\* Init establishes the invariant.
LEMMA TurnInit == Turn!Init => TurnInv
<1> SUFFICES ASSUME Turn!Init PROVE TurnInv
  OBVIOUS
<1> USE DEF Turn!Idle, Turn!Is
<1>1. /\ \A r \in Run : run[r] = Turn!Idle /\ ~Turn!Is(r, "pinning") /\ ~Turn!Is(r, "armed")
      /\ run \in [Run -> [stage : Turn!Running \cup {"none", "armed"},
                          by : {"app", "renewal", "again"}]]
  BY DEF Turn!Init
<1>2. link = "down" /\ turnTimer = NoRun /\ turn = "none" /\ ice = "stun" /\ ~crossed /\ ~ended
  BY DEF Turn!Init
<1>3. Turn!TypeOK
  BY <1>1, <1>2 DEF Turn!Init, Turn!TypeOK
<1> HIDE DEF Turn!Idle, Turn!Is
<1>4. RunsAsTheyShould
  BY <1>1, <1>2 DEF RunsAsTheyShould
<1>5. Turn!InOrder /\ Turn!RenewalGoesOn
  BY <1>1, <1>2 DEF Turn!InOrder, Turn!OneTimer, Turn!RefusedIsGivenUp, Turn!RenewalGoesOn
<1> QED
  BY <1>3, <1>4, <1>5 DEF TurnInv

\* Every step keeps types.
LEMMA TurnTypeStep == Turn!TypeOK /\ [Turn!Next]_(Turn!vars) => Turn!TypeOK'
<1> SUFFICES ASSUME Turn!TypeOK, [Turn!Next]_(Turn!vars) PROVE Turn!TypeOK'
  OBVIOUS
<1> USE DEF Turn!TypeOK, Turn!Idle, Turn!Is, Turn!Running, Turn!Crosses
<1>c. Turn!ClearTurnTimer \in [Run -> [stage : Turn!Running \cup {"none", "armed"},
                                     by : {"app", "renewal", "again"}]]
  BY DEF Turn!ClearTurnTimer
<1>1. ASSUME NEW r \in Run, Turn!TimerFires(r) PROVE Turn!TypeOK'
  BY <1>1 DEF Turn!TimerFires, Turn!Busy
<1>2. ASSUME NEW r \in Run, Turn!Signed(r) PROVE Turn!TypeOK'
  BY <1>2 DEF Turn!Signed
<1>3. ASSUME NEW r \in Run, Turn!Granted(r) PROVE Turn!TypeOK'
  BY <1>3 DEF Turn!Granted, Turn!Answered
<1>4. ASSUME NEW r \in Run, Turn!Pinned(r) PROVE Turn!TypeOK'
  BY <1>4 DEF Turn!Pinned, Turn!Arm
<1>5. ASSUME NEW r \in Run, Turn!Refused(r) PROVE Turn!TypeOK'
  BY <1>5 DEF Turn!Refused, Turn!Answered, Turn!Arm
<1>6. ASSUME NEW r \in Run, Turn!Disabled(r) PROVE Turn!TypeOK'
  BY <1>6 DEF Turn!Disabled, Turn!Answered, Turn!Ends
<1>7. ASSUME NEW r \in Run, Turn!EnableTurnFails(r) PROVE Turn!TypeOK'
  <2>1. CASE run[r].by = "renewal"
    BY <1>7, <2>1 DEF Turn!EnableTurnFails, Turn!Arm
  <2>2. CASE run[r].by # "renewal"
    BY <1>7, <2>2 DEF Turn!EnableTurnFails, Turn!Ends
  <2> QED
    BY <2>1, <2>2
<1>8. ASSUME NEW r \in Run, Turn!EnableTurn(r) PROVE Turn!TypeOK'
  BY <1>8, <1>c DEF Turn!EnableTurn, Turn!Busy
<1>9. CASE Turn!LinkDrops
  BY <1>9 DEF Turn!LinkDrops, Turn!Losing
<1>10. CASE Turn!LinkOpens
  BY <1>10 DEF Turn!LinkOpens
<1>11. CASE Turn!Close
  BY <1>11, <1>c DEF Turn!Close, Turn!Losing, Turn!Busy
<1>12. CASE UNCHANGED Turn!vars
  BY <1>12 DEF Turn!vars
<1> QED
  BY <1>1, <1>2, <1>3, <1>4, <1>5, <1>6, <1>7, <1>8, <1>9, <1>10, <1>11, <1>12
  DEF Turn!Next, Turn!GoesOn

\* Every step keeps the invariant: without overlap the run that takes the step is
\* the only one, so that the timer it leaves is the one remembered.
LEMMA TurnStep == TurnInv /\ [Turn!Next]_(Turn!vars) => TurnInv'
<1> SUFFICES ASSUME TurnInv, [Turn!Next]_(Turn!vars) PROVE TurnInv'
  OBVIOUS
<1>t. Turn!TypeOK /\ Turn!TypeOK'
  BY TurnTypeStep DEF TurnInv
<1> DEFINE Rest == RunsAsTheyShould /\ Turn!InOrder /\ Turn!RenewalGoesOn
<1> USE DEF TurnInv, Turn!TypeOK, RunsAsTheyShould, Turn!InOrder, Turn!OneTimer,
            Turn!RefusedIsGivenUp, Turn!RenewalGoesOn, Turn!Idle, Turn!Is, Turn!Running
<1>1. ASSUME NEW r \in Run, Turn!TimerFires(r) PROVE Rest'
  BY <1>1, <1>t DEF Turn!TimerFires, Turn!Crosses, Turn!Busy
<1>2. ASSUME NEW r \in Run, Turn!Signed(r) PROVE Rest'
  BY <1>2, <1>t DEF Turn!Signed
<1>3. ASSUME NEW r \in Run, Turn!Granted(r) PROVE Rest'
  BY <1>3, <1>t DEF Turn!Granted, Turn!Answered
<1>4. ASSUME NEW r \in Run, Turn!Pinned(r) PROVE Rest'
  BY <1>4, <1>t DEF Turn!Pinned, Turn!Arm
<1>5. ASSUME NEW r \in Run, Turn!Refused(r) PROVE Rest'
  BY <1>5, <1>t DEF Turn!Refused, Turn!Answered, Turn!Arm
<1>6. ASSUME NEW r \in Run, Turn!Disabled(r) PROVE Rest'
  BY <1>6, <1>t DEF Turn!Disabled, Turn!Answered, Turn!Ends
<1>7. ASSUME NEW r \in Run, Turn!EnableTurnFails(r) PROVE Rest'
  BY <1>7, <1>t DEF Turn!EnableTurnFails, Turn!Arm, Turn!Ends
<1>8. ASSUME NEW r \in Run, Turn!EnableTurn(r) PROVE Rest'
  <2>1. /\ run'[r] = [stage |-> "signing", by |-> "app"]
        /\ \A q \in Run \ {r} : run'[q] = IF q = turnTimer /\ Turn!Is(q, "armed")
                                          THEN Turn!Idle ELSE run[q]
        /\ UNCHANGED <<link, turn, ice, ended>>
    BY <1>8 DEF Turn!EnableTurn, Turn!ClearTurnTimer
  <2>2. ~crossed' => ~crossed /\ \A q \in Run \ {r} : ~Turn!Busy(q)
    BY <1>8, <1>t DEF Turn!EnableTurn, Turn!Crosses
  <2>3. \A q \in Run : Turn!Is(q, "none") \/ Turn!Is(q, "armed") \/ Turn!Busy(q)
    BY <1>t DEF Turn!Busy
  <2>4. ~crossed' => \A q \in Run \ {r} : run'[q] = Turn!Idle
    BY <2>1, <2>2, <2>3
  <2>5. ~Turn!Is(r, "none")' /\ ~Turn!Is(r, "armed")' /\ ~Turn!Is(r, "pinning")' /\ run'[r] # Turn!Idle
    BY <2>1
  <2>6. \A q \in Run : Turn!Is(q, "none")' => run'[q] = Turn!Idle
    BY <2>1, <2>5
  <2>7. RunsAsTheyShould'
    BY <2>1, <2>2, <2>4, <2>5, <2>6
  <2>8. Turn!InOrder'
    BY <2>1, <2>2, <2>4, <2>5
  <2>9. Turn!RenewalGoesOn'
    BY <2>5
  <2> QED
    BY <2>7, <2>8, <2>9
<1>9. CASE Turn!LinkDrops
  BY <1>9, <1>t DEF Turn!LinkDrops, Turn!Losing
<1>10. CASE Turn!LinkOpens
  BY <1>10, <1>t DEF Turn!LinkOpens
<1>11. CASE Turn!Close
  <2>1. \A q \in Run :
          run'[q] = IF Turn!Is(q, "asked") THEN [run[q] EXCEPT !.stage = "lost"]
                    ELSE IF q = turnTimer /\ Turn!Is(q, "armed") THEN Turn!Idle
                    ELSE run[q]
    BY <1>11 DEF Turn!Close, Turn!Losing, Turn!ClearTurnTimer
  <2>2. ended' = TRUE /\ UNCHANGED <<turn, ice>>
    BY <1>11 DEF Turn!Close
  <2>3. ~crossed' => ~crossed /\ \A q \in Run : ~Turn!Busy(q)
    BY <1>11, <1>t DEF Turn!Close
  <2>4. \A q \in Run : Turn!Is(q, "none") \/ Turn!Is(q, "armed") \/ Turn!Busy(q)
    BY <1>t DEF Turn!Busy
  <2>5. ~crossed' => \A q \in Run : run'[q] = Turn!Idle
    BY <2>1, <2>3, <2>4 DEF Turn!Busy
  <2>6. \A q \in Run : Turn!Is(q, "none")' => run'[q] = Turn!Idle
    BY <1>t, <2>1
  <2>7. RunsAsTheyShould'
    BY <2>3, <2>5, <2>6
  <2>8. Turn!InOrder'
    BY <2>2, <2>3, <2>5
  <2>9. Turn!RenewalGoesOn'
    BY <2>2
  <2> QED
    BY <1>t, <2>7, <2>8, <2>9
<1>12. CASE UNCHANGED Turn!vars
  BY <1>12, <1>t DEF Turn!vars
<1>13. Rest'
  BY <1>1, <1>2, <1>3, <1>4, <1>5, <1>6, <1>7, <1>8, <1>9, <1>10, <1>11, <1>12
  DEF Turn!Next, Turn!GoesOn
<1> QED
  BY <1>t, <1>13

-----------------------------------------------------------------------------
(* Together *)

\* Both invariants hold of the composition.
LEMMA ServicesInv == Spec => []KeysInv /\ []TurnInv
<1>1. Init => KeysInv /\ TurnInv
  BY KeysInit, TurnInit DEF Init
<1>2. KeysInv /\ [Next]_vars => KeysInv'
  BY KeysStep, StepOfKeys
<1>3. TurnInv /\ [Next]_vars => TurnInv'
  BY TurnStep, StepOfTurn
<1> QED
  BY <1>1, <1>2, <1>3, PTL DEF Spec

\* For any identities, calls, keys and runs every variable keeps its type.
THEOREM ServicesTypeCorrect == Spec => []TypeOK
<1>1. KeysInv /\ TurnInv => TypeOK
  BY DEF KeysInv, TurnInv, TypeOK
<1> QED
  BY <1>1, ServicesInv, PTL

\* encPubOf(), learnEncPub() and announceEncPub() come to remember no key that its
\* identity did not announce, but for those the app's resolver names.
THEOREM KeysAreTheirsHolds == Spec => KeysAreTheirs
<1>1. KeysInv /\ [Next]_vars =>
        [\A i \in Identity :
           encPubs'[i] \notin {Keys!NoKey, encPubs[i]} =>
             encPubs'[i] \in 1 .. announced[i] \/ Keys!ResolverKnows(i, encPubs'[i])]_(Keys!vars)
  BY StepOfKeys, RememberedIsAnnounced DEF KeysInv
<1> QED
  BY <1>1, ServicesInv, PTL DEF Spec, KeysAreTheirs, Keys!KeysAreTheirs

\* forgetEncPub() with no lookup under way leaves no way back for an older key.
THEOREM ForgetTakesEffectHolds == Spec => []ForgetTakesEffect
<1>1. KeysInv => ForgetTakesEffect
  BY DEF KeysInv, ForgetTakesEffect
<1> QED
  BY <1>1, ServicesInv, PTL

\* Those who wait in encPubOf() and the lookups under way are of the same identities.
THEOREM WaitersHaveLookupHolds == Spec => []WaitersHaveLookup
<1>1. KeysInv => WaitersHaveLookup
  BY DEF KeysInv, WaitersHaveLookup
<1> QED
  BY <1>1, ServicesInv, PTL

\* While nothing overlaps, enableTurn() has one timer, and close() leaves none.
THEOREM InOrderHolds == Spec => []InOrder
<1>1. TurnInv => InOrder
  BY DEF TurnInv, InOrder
<1> QED
  BY <1>1, ServicesInv, PTL

\* The renewal of the relay ends only with a request that nobody repeats.
THEOREM RenewalGoesOnHolds == Spec => []RenewalGoesOn
<1>1. TurnInv => RenewalGoesOn
  BY DEF TurnInv, RenewalGoesOn
<1> QED
  BY <1>1, ServicesInv, PTL
=============================================================================
