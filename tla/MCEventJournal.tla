--------------------------- MODULE MCEventJournal ---------------------------
(* The journal for TLC: clock readings that repeat or run backwards.           *)
EXTENDS EventJournal

TwoTimes == {1, 2}
=============================================================================
