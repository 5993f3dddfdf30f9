-------------------------- MODULE MCMessageIntake ---------------------------
(***************************************************************************)
(* Instances of MessageIntake for TLC: an album of two messages, with or  *)
(* without a single message, and two message threads.                     *)
(***************************************************************************)
EXTENDS MessageIntake

CONSTANTS t1, t2, album

Ids      == 1..3
Pair     == 1..2
Album    == [m \in Messages |-> IF m < 3 THEN album ELSE None]
=============================================================================
