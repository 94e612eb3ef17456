------------------------------ MODULE Services ------------------------------
(***************************************************************************)
(* What a client asks of its proxy for itself, over one connection: the    *)
(* encryption keys of others (EncPubs) and the TURN relay (TurnRelay).     *)
(* identify() sets both going; close() and a connection that breaks reach  *)
(* both (src/src/client.js: identify, close).                              *)
(***************************************************************************)
EXTENDS Integers

CONSTANTS Identity, Mine, MaxCalls, MaxKey, Run, NoRun

VARIABLES
  link,
  announced, encPubs, inflight, waiting, announcing, floor,
  run, turnTimer, turn, ice, crossed, ended

Keys == INSTANCE EncPubs
Turn == INSTANCE TurnRelay

ASSUME ServicesAssumption == Keys!KeysAssumption /\ Turn!RunAssumption

keyVars == <<announced, encPubs, inflight, waiting, announcing, floor>>
turnVars == <<run, turnTimer, turn, ice, crossed, ended>>
vars == <<link, keyVars, turnVars>>

TypeOK == Keys!TypeOK /\ Turn!TypeOK

Init == Keys!Init /\ Turn!Init

-----------------------------------------------------------------------------

\* The proxy has acknowledged identify(): the relay is asked for and the key is
\* announced, neither waiting for the other.
Identified(r, i) ==
  /\ link = "open"
  /\ Turn!EnableTurn(r)
  /\ Keys!AnnounceEncPub(i)

\* The app asks for one or the other by itself.
EnableTurn(r) == Turn!EnableTurn(r) /\ UNCHANGED keyVars
AnnounceEncPub(i) == Keys!AnnounceEncPub(i) /\ UNCHANGED turnVars

LinkOpens == Keys!LinkOpens /\ Turn!LinkOpens
LinkDrops == Keys!LinkDrops /\ Turn!LinkDrops
Close == Keys!Close /\ Turn!Close

Next ==
  \/ \E r \in Run, i \in Mine : Identified(r, i)
  \/ \E r \in Run : EnableTurn(r)
  \/ \E i \in Mine : AnnounceEncPub(i)
  \/ Keys!KeyStep /\ UNCHANGED turnVars
  \/ \E r \in Run : Turn!GoesOn(r) /\ UNCHANGED keyVars
  \/ LinkOpens
  \/ LinkDrops
  \/ Close

Spec == Init /\ [][Next]_vars

\* See TurnRelay: what a run awaits ends, and timers fire.
FairSpec == Spec /\ Turn!Fairness

-----------------------------------------------------------------------------
(* What each of the two promises, of both together *)

\* No key is kept or handed out that is not its identity's: see EncPubs.
KeysAreTheirs == Keys!KeysAreTheirs

\* A key forgotten does not come back: see EncPubs.
ForgetTakesEffect == Keys!ForgetTakesEffect

\* Who waits for a key waits for a lookup that is under way: see EncPubs.
WaitersHaveLookup == Keys!WaitersHaveLookup

\* Without overlap there is one timer and close() reaches it: see TurnRelay.
InOrder == Turn!InOrder

\* The relay goes on being renewed or asked for: see TurnRelay.
RenewalGoesOn == Turn!RenewalGoesOn

\* A relay that was refused comes back without reconnecting: see TurnRelay.
ComesBackOn == Turn!ComesBackOn
=============================================================================
