--------------------------- MODULE MCPatrolLedger ---------------------------
(* Constants of the instances of PatrolLedger that TLC checks. *)
EXTENDS PatrolLedger, TLC

(* One unit is the ceiling of a task and the total; task 9 asks for more. *)
MCBudget == [t \in Tasks |-> IF t = 9 THEN 2 ELSE 1]

(* A success within the ceiling, and one whose cost overruns it. *)
MCOutcomes == {[verdict |-> "success", cost |-> 1],
               [verdict |-> "success", cost |-> 2]}

(* One way to succeed; the dispatch can still fail with an error. *)
MCSuccess == {[verdict |-> "success", cost |-> 1]}

MCSymmetry == Permutations(Patrols)

=============================================================================
