----------------------------- MODULE TaskBoard -----------------------------
(***************************************************************************)
(* What the Mayor / Patrol queue promises, without directories, locks or   *)
(* processes: every task is in one place, is held by one patrol at a time, *)
(* and once finished never moves again.  PatrolQueue implements it.        *)
(***************************************************************************)
CONSTANTS Tasks, Patrols, NoPatrol

VARIABLE place    \* per task, where it is and which patrol holds it

Nowhere == [at |-> "absent", by |-> NoPatrol]
Waiting == [at |-> "pending", by |-> NoPatrol]
Held(p) == [at |-> "claimed", by |-> p]
Over(s) == [at |-> s, by |-> NoPatrol]

Init == place = [t \in Tasks |-> Nowhere]

Move(t, from, to) ==
    /\ place[t] = from
    /\ place' = [place EXCEPT ![t] = to]

(* Mayor::enqueue *)
Submit(t) == Move(t, Nowhere, Waiting)

(* Patrol::claim *)
Claim(p, t) == Move(t, Waiting, Held(p))

(* Mayor::recover_orphans *)
Reclaim(p, t) == Move(t, Held(p), Waiting)

(* Patrol::run_task *)
Finish(p, t) == \E s \in {"done", "failed"} : Move(t, Held(p), Over(s))

Next ==
    \E t \in Tasks :
        \/ Submit(t)
        \/ \E p \in Patrols : Claim(p, t) \/ Reclaim(p, t) \/ Finish(p, t)

Spec == Init /\ [][Next]_place

=============================================================================
