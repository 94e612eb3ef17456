----------------------------- MODULE Reassembler -----------------------------
(***************************************************************************)
(* The Reassembler of src/src/parts.js: messages that arrive in parts, out *)
(* of order, repeated, or never whole.  A key is who sealed the parts and  *)
(* the message's id.  What a part carries is abstracted to how long it is, *)
(* which is what the memory bound counts.                                  *)
(***************************************************************************)
EXTENDS Integers, FiniteSets

CONSTANTS
  Sender,           \* names the parts are grouped by
  Id,               \* ids of messages in parts
  MaxParts,         \* MAX_PARTS
  RecvMaxChars,     \* RECV_MAX_CHARS
  MaxPartChars      \* bound: the longest part

\* Assumed by MessageParts.
ReassemblerAssumption ==
  /\ IsFiniteSet(Sender)
  /\ IsFiniteSet(Id)
  /\ MaxParts \in Nat
  /\ RecvMaxChars \in Nat
  /\ MaxPartChars \in Nat

Key == Sender \X Id
Index == 0 .. MaxParts - 1
Missing == -1       \* got[i] === undefined

(***************************************************************************)
(* A part as it arrives: its place i of n, whether it holds bytes, and its *)
(* length.  i and n are whatever the other end wrote.                      *)
(***************************************************************************)
Part == [i : -1 .. MaxParts, n : 0 .. MaxParts + 1, bin : BOOLEAN, len : 0 .. MaxPartChars]

\* A message half put together; n = 0 stands for a key without one.
Entry == [n : 0 .. MaxParts, bin : BOOLEAN, got : [Index -> Missing .. MaxPartChars],
          count : Nat, chars : Nat]
NoEntry == [n |-> 0, bin |-> FALSE, got |-> [i \in Index |-> Missing], count |-> 0, chars |-> 0]

VARIABLES
  entry,    \* this._open
  pending,  \* this._chars
  timers,   \* per key: the armed timeouts that will expire its message
  said      \* what the last call said: its result, its error, or onExpire

vars == <<entry, pending, timers, said>>

Saying == {"nothing", "whole", "bad-part", "parts-too-big", "expired"}

TypeOK ==
  /\ entry \in [Key -> Entry]
  /\ pending \in Nat
  /\ timers \in [Key -> Nat]
  /\ said \in Saying

Init ==
  /\ entry = [k \in Key |-> NoEntry]
  /\ pending = 0
  /\ timers = [k \in Key |-> 0]
  /\ said = "nothing"

-----------------------------------------------------------------------------
(* Helpers *)

IsOpen(k) == entry[k].n # 0

\* What add() accepts as a part.
Valid(part) == part.n \in 2 .. MaxParts /\ part.i \in 0 .. part.n - 1

\* The entry add() works on: the open one, or a new one shaped by this part.
EntryFor(k, part) ==
  IF IsOpen(k) THEN entry[k] ELSE [NoEntry EXCEPT !.n = part.n, !.bin = part.bin]

Agrees(k, part) == EntryFor(k, part).n = part.n /\ EntryFor(k, part).bin = part.bin

New(k, part) == EntryFor(k, part).got[part.i] = Missing

\* Seeded fault: the bound is kept per message and not for all that is pending.
BugExceeds(k, part) == EntryFor(k, part).chars + part.len > RecvMaxChars

Exceeds(k, part) == pending + part.len > RecvMaxChars

\* Seeded fault: a repeated part is counted again.
BugWithPart(k, part) ==
  [EntryFor(k, part) EXCEPT !.got[part.i] = part.len, !.count = @ + 1,
     !.chars = IF New(k, part) THEN @ + part.len ELSE @]

\* The entry with the part in it; one that was there already changes nothing.
WithPart(k, part) ==
  LET a == EntryFor(k, part)
  IN IF New(k, part)
       THEN [n |-> a.n, bin |-> a.bin, got |-> [a.got EXCEPT ![part.i] = part.len],
             count |-> a.count + 1, chars |-> a.chars + part.len]
       ELSE a

\* The characters a part adds to what is pending.
Added(k, part) == IF New(k, part) THEN part.len ELSE 0

\* Seeded fault: dropping a message forgets the timeout that would expire it.
BugDisarm(k) == UNCHANGED timers

Disarm(k) == timers' = [timers EXCEPT ![k] = 0]

\* Seeded fault: each part arms a timeout and leaves the previous one armed.
BugRearm(k) == timers' = [timers EXCEPT ![k] = @ + 1]

Rearm(k) == timers' = [timers EXCEPT ![k] = 1]

\* _drop(k), of an entry that holds `chars`.
Drop(k, chars) ==
  /\ entry' = [entry EXCEPT ![k] = NoEntry]
  /\ pending' = pending - chars
  /\ Disarm(k)

-----------------------------------------------------------------------------
(* add(): how it ends, in the order the code tries *)

RejectMalformed(k, part) ==
  /\ ~Valid(part)
  /\ said' = "bad-part"
  /\ UNCHANGED <<entry, pending, timers>>

RejectDisagreeing(k, part) ==
  /\ Valid(part) /\ ~Agrees(k, part)
  /\ Drop(k, entry[k].chars)
  /\ said' = "bad-part"

RejectTooMuch(k, part) ==
  /\ Valid(part) /\ Agrees(k, part)
  /\ New(k, part) /\ Exceeds(k, part)
  /\ Drop(k, entry[k].chars)
  /\ said' = "parts-too-big"

Accepts(k, part) ==
  /\ Valid(part) /\ Agrees(k, part)
  /\ New(k, part) => ~Exceeds(k, part)

\* null: parts are missing, and the wait for the next one starts again.
Keep(k, part) ==
  /\ Accepts(k, part)
  /\ WithPart(k, part).count # part.n
  /\ entry' = [entry EXCEPT ![k] = WithPart(k, part)]
  /\ pending' = pending + Added(k, part)
  /\ Rearm(k)
  /\ said' = "nothing"

\* The last part: what joins may still fail to parse.
Join(k, part) ==
  /\ Accepts(k, part)
  /\ WithPart(k, part).count = part.n
  /\ Drop(k, WithPart(k, part).chars - Added(k, part))
  /\ said' \in {"whole", "bad-part"}

\* RECV_IDLE_MS without a part.
Expire(k) ==
  /\ timers[k] > 0
  /\ Drop(k, entry[k].chars)
  /\ said' = "expired"

Next ==
  \/ \E k \in Key, part \in Part : RejectMalformed(k, part)
  \/ \E k \in Key, part \in Part : RejectDisagreeing(k, part)
  \/ \E k \in Key, part \in Part : RejectTooMuch(k, part)
  \/ \E k \in Key, part \in Part : Keep(k, part)
  \/ \E k \in Key, part \in Part : Join(k, part)
  \/ \E k \in Key : Expire(k)

Spec == Init /\ [][Next]_vars

-----------------------------------------------------------------------------

\* The characters a table keeps under some keys, each as <<key, <<index, position>>>>.
StoredIn(table, keys) ==
  {x \in keys \X (Index \X (1 .. MaxPartChars)) : x[2][2] <= table[x[1]].got[x[2][1]]}

\* The indices of the parts that came.
Received(k) == {i \in Index : entry[k].got[i] # Missing}

\* The counters that bound the memory say what is really kept: no order of
\* good, bad, repeated and missing parts makes them drift (a drift upwards
\* would end in refusing every message in parts, for ever), and together the
\* unfinished messages never exceed the limit.
Accounting ==
  /\ pending = Cardinality(StoredIn(entry, Key))
  /\ \A k \in Key : entry[k].chars = Cardinality(StoredIn(entry, {k}))
  /\ pending <= RecvMaxChars

\* Every message half put together will expire, once, if no part comes; and no
\* timeout is left to strike a later message with the same key.
OneTimerEach == \A k \in Key : timers[k] = IF IsOpen(k) THEN 1 ELSE 0

\* What is open lacks a part and has one, and the count of parts is the number
\* of different parts that came.
Unfinished ==
  \A k \in Key :
    /\ entry[k].count = Cardinality(Received(k))
    /\ IsOpen(k) => Received(k) # {} /\ entry[k].count < entry[k].n
    /\ Received(k) \subseteq 0 .. entry[k].n - 1

\* A message is handed over only when all its parts but this one were there.
WholeIsWhole ==
  [][ said' = "whole" =>
        \E k \in Key : \E last \in Index :
          /\ IsOpen(k) /\ ~IsOpen(k)'
          /\ Received(k) = (0 .. entry[k].n - 1) \ {last} ]_vars
=============================================================================
