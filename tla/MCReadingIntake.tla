--------------------------- MODULE MCReadingIntake ---------------------------
(***************************************************************************)
(* Instance of ReadingIntake for TLC: two posts of an event and a message. *)
(***************************************************************************)
EXTENDS ReadingIntake, TLC

CONSTANTS p1, p2, m1, e1

AnyPost == Permutations({p1, p2})
=============================================================================
