------------------------------ MODULE Keypair ------------------------------
(***************************************************************************)
(* The key pair of this client (signature.js): loaded or created by the    *)
(* first call that needs it, kept where the realms (tabs, workers) of one  *)
(* origin share it, and remembered by each realm.                          *)
(*                                                                         *)
(* There are two ways to load.  IndexedDB, or the store of setKeypairStore,*)
(* is read and written with awaits.  localStorage is read and written at   *)
(* once, and what is awaited is the import and the export of keys.  Where  *)
(* there is none of them nothing is kept, and nothing is modelled.         *)
(***************************************************************************)
EXTENDS Integers, FiniteSets

CONSTANTS
  Realm,    \* tabs or workers
  Call,     \* calls in one realm of getPublicKeyJwk, signData, buildSignedChannel
  MaxPairs, \* bound: pairs generated
  MaxFaults \* bound: reads and writes that fail

Task == Realm \X Call
Pair == 0 .. MaxPairs  \* the pair 0 is that of an earlier session
NoPair == -1

VARIABLES
  kind,    \* where the pair is kept
  store,   \* the pair that is kept
  cache,   \* cachedKeypair of each realm
  task,    \* each call: how far it is, and its pair
  made,    \* how many pairs have been generated
  used,    \* history: the pairs that calls went on with
  overlap, \* history: a load began while another one, here or elsewhere, was under way
  crossed, \* history: the two were of different realms
  faults   \* history: how often something failed

vars == <<kind, store, cache, task, made, used, overlap, crossed, faults>>

Idle == [step |-> "idle", pair |-> NoPair]

Loading(t) == task[t].step \in {"reading", "importing", "making", "saving", "saved"}

Init ==
  /\ kind \in {"indexedDB", "injected", "localStorage"}
  /\ store \in {NoPair, 0}
  /\ cache = [r \in Realm |-> NoPair]
  /\ task = [t \in Task |-> Idle]
  /\ made = 0
  /\ used = {}
  /\ overlap = FALSE
  /\ crossed = FALSE
  /\ faults = 0

Fault == faults < MaxFaults /\ faults' = faults + 1

-----------------------------------------------------------------------------
\* loadOrCreate returns: the call goes on with this pair.
Returns(t, pair) ==
  /\ task' = [task EXCEPT ![t] = [step |-> "done", pair |-> pair]]
  /\ used' = used \cup {pair}

\* `if (cachedKeypair) return cachedKeypair`.
Remembered(r) == cache[r]

FirstAwait ==
  IF kind # "localStorage" THEN "reading" ELSE IF store # NoPair THEN "importing" ELSE "making"

Load(t) ==
  /\ task[t].step = "idle"
  /\ \/ /\ Remembered(t[1]) # NoPair
        /\ Returns(t, Remembered(t[1]))
        /\ UNCHANGED <<overlap, crossed>>
     \/ /\ Remembered(t[1]) = NoPair
        /\ task' = [task EXCEPT ![t] = [step |-> FirstAwait,
                                        pair |-> IF FirstAwait = "importing" THEN store ELSE NoPair]]
        /\ overlap' = (overlap \/ \E u \in Task : Loading(u))
        /\ crossed' = (crossed \/ \E u \in Task : Loading(u) /\ u[1] # t[1])
        /\ UNCHANGED used
  /\ UNCHANGED <<kind, store, cache, made, faults>>

\* A pair is found or made: the realm remembers it.
Has(t, pair) == cache' = [cache EXCEPT ![t[1]] = pair] /\ Returns(t, pair)

\* store.get: a pair, none, or it cannot be read (then a new one is made).
Read(t) ==
  /\ task[t].step = "reading"
  /\ \/ /\ store # NoPair
        /\ Has(t, store)
        /\ UNCHANGED faults
     \/ /\ task' = [task EXCEPT ![t].step = "making"]
        /\ IF store = NoPair THEN UNCHANGED faults ELSE Fault
        /\ UNCHANGED <<cache, used>>
  /\ UNCHANGED <<kind, store, made, overlap, crossed>>

\* importKey of what localStorage had, which may be corrupt.
Imported(t) ==
  /\ task[t].step = "importing"
  /\ \/ /\ Has(t, task[t].pair)
        /\ UNCHANGED faults
     \/ /\ task' = [task EXCEPT ![t].step = "making"]
        /\ Fault
        /\ UNCHANGED <<cache, used>>
  /\ UNCHANGED <<kind, store, made, overlap, crossed>>

\* What setItem, or set, leaves there.
Kept(pair) == pair

\* generateKey and exportKey are done.  To localStorage it is written at once.
Made(t) ==
  /\ task[t].step = "making" /\ made < MaxPairs
  /\ made' = made + 1
  /\ \/ /\ kind # "localStorage"
        /\ task' = [task EXCEPT ![t] = [step |-> "saving", pair |-> made + 1]]
        /\ UNCHANGED <<store, cache, used>>
     \/ /\ kind = "localStorage"
        /\ store' = Kept(made + 1)
        /\ Has(t, made + 1)
  /\ UNCHANGED <<kind, overlap, crossed, faults>>

\* store.set: it is written, and later it is said to be.  IndexedDB says so of one
\* transaction before it begins another on the same store.
Saved(t) ==
  /\ task[t].step = "saving"
  /\ kind = "indexedDB" => \A u \in Task : task[u].step # "saved"
  /\ store' = Kept(task[t].pair)
  /\ task' = [task EXCEPT ![t].step = "saved"]
  /\ UNCHANGED <<kind, cache, made, used, overlap, crossed, faults>>

\* It cannot be written: an error is printed, and the pair is used all the same.
SaveFails(t) ==
  /\ task[t].step = "saving"
  /\ Has(t, task[t].pair)
  /\ Fault
  /\ UNCHANGED <<kind, store, made, overlap, crossed>>

Stored(t) ==
  /\ task[t].step = "saved"
  /\ Has(t, task[t].pair)
  /\ UNCHANGED <<kind, store, made, overlap, crossed, faults>>

\* The app calls again.
Again(t) ==
  /\ task[t].step = "done"
  /\ task' = [task EXCEPT ![t] = Idle]
  /\ UNCHANGED <<kind, store, cache, made, used, overlap, crossed, faults>>

\* The tab is reloaded, the worker goes to sleep: what was kept is left.
Restart(r) ==
  /\ cache' = [cache EXCEPT ![r] = NoPair]
  /\ task' = [t \in Task |-> IF t[1] = r THEN Idle ELSE task[t]]
  /\ UNCHANGED <<kind, store, made, used, overlap, crossed, faults>>

Next ==
  \/ \E t \in Task : \/ Load(t) \/ Read(t) \/ Imported(t) \/ Made(t)
                     \/ Saved(t) \/ SaveFails(t) \/ Stored(t) \/ Again(t)
  \/ \E r \in Realm : Restart(r)

Spec == Init /\ [][Next]_vars

-----------------------------------------------------------------------------
\* As long as no two loads overlap and the store works, everything this client
\* signs, in whichever realm, before and after whatever restarts, is of one
\* identity.  A restart in the middle of the first load may leave a pair that was
\* never used, or none.
OneIdentity == ~overlap /\ faults = 0 => Cardinality(used) <= 1

\* When the loads of one realm overlap and are over, the realm remembers the pair
\* that is kept (localStorage and IndexedDB: each writes and remembers in the same
\* order), so the next session goes on with it.
RemembersWhatIsKept ==
  kind # "injected" /\ ~crossed /\ faults = 0 /\ (\A t \in Task : ~Loading(t)) =>
    \A r \in Realm : cache[r] \in {NoPair, store}

\* README.md:483: the pair is generated and kept, a stable identity between sessions.
\* What a realm remembers when all is quiet is what its next session will find.
SurvivesARestart ==
  faults = 0 /\ (\A t \in Task : ~Loading(t)) => \A r \in Realm : cache[r] \in {NoPair, store}

\* test/signature.test.mjs:62, "the same key between calls (it is kept, not made anew)":
\* the calls of one session get the same pair.
SameKeyBetweenCalls ==
  faults = 0 => \A t, u \in Task :
    t[1] = u[1] /\ task[t].step = "done" /\ task[u].step = "done" => task[t].pair = task[u].pair
=============================================================================
