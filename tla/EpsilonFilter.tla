---------------------------- MODULE EpsilonFilter ----------------------------
(***************************************************************************)
(* EpsilonFilter (src/src/composition/filter.rs) with the sequencing       *)
(* filter, the only one CompositionResource builds: between two matches    *)
(* the first operand makes all its epsilon moves before the second makes   *)
(* any, so that one pair of paths is not composed in several orders.       *)
(***************************************************************************)

FilterStates == {"None", "Eps1", "Eps2"}

(* Mutant of MayMoveRight: a left run is never handed over.            *)
MayMoveRight_NoHandoff(f) == f # "Eps1"

(* allowed_moves: the first operand alone, the second alone, both.         *)
MayMoveLeft(f)  == f # "Eps2"
MayMoveRight(f) == f \in FilterStates
MayMatch(f)     == f \in FilterStates

(* next_state: it depends on the move alone.                               *)
AfterLeft  == "Eps1"
AfterRight == "Eps2"
AfterMatch == "None"
=============================================================================
