---------------------------- MODULE MessageParts -----------------------------
(***************************************************************************)
(* The Reassembler of a recipient (Reassembler.tla) under names of its     *)
(* own: the module that proves what holds of the delivery takes it, too.   *)
(***************************************************************************)
EXTENDS Integers, FiniteSets

CONSTANTS
  Author,           \* the Reassembler's Sender: who sealed the parts
  Id, MaxParts, RecvMaxChars, MaxPartChars

VARIABLES entry, pending, timers, said

Parts == INSTANCE Reassembler WITH Sender <- Author

ASSUME PartsAssumption == Parts!ReassemblerAssumption

PartsSpec == Parts!Spec

\* The memory bound counts what is kept: see Reassembler.
Accounting == Parts!Accounting

\* Every unfinished message expires, once: see Reassembler.
OneTimerEach == Parts!OneTimerEach

\* What is open lacks a part: see Reassembler.
Unfinished == Parts!Unfinished

\* A message is handed over with all its parts: see Reassembler.
WholeIsWhole == Parts!WholeIsWhole
=============================================================================
