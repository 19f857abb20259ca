--------------------------- MODULE MCPatrolQueue ---------------------------
(* Constants of the instances of PatrolQueue that TLC checks. *)
EXTENDS PatrolQueue, TLC

(* One unit is the ceiling of a task and the total. *)
MCBudget == [t \in Tasks |-> 1]

(* A success within the ceiling, and one whose cost overruns it. *)
MCOutcomes == {[verdict |-> "success", cost |-> 1],
               [verdict |-> "success", cost |-> 2]}

(* One way to succeed; the dispatch can still fail with an error. *)
MCSuccess == {[verdict |-> "success", cost |-> 1]}

(* Patrols are interchangeable; tasks are ordered. *)
MCSymmetry == Permutations(Patrols)

=============================================================================
