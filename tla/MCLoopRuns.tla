----------------------------- MODULE MCLoopRuns -----------------------------
(***************************************************************************)
(* Two instances of SynapticLoop, checked in one run and told apart by     *)
(* the stall limit of the configuration.  Without one: every strategy,     *)
(* policy and strictness, one refinement, a tight budget.  With one: three *)
(* refinements of two patches with measured ratios, that cost nothing.     *)
(***************************************************************************)
EXTENDS MCSynapticLoop

CONSTANTS a, b   \* patches

Stalling == INSTANCE SynapticLoop WITH
    Configs <- StallConfigs, MaxRounds <- 3, Costs <- {Free}, MaxSpent <- 0,
    Shas <- {a, b}, Ratios <- {500}, Reviews <- {"lgtm", "changes"},
    Suggestions <- {FALSE}

RunsInit == Init \/ Stalling!Init

(* Only two policies look whether the reviewer suggested a patch, and the  *)
(* calls of a run report tokens only, or estimated costs only.             *)
RunsNext ==
    \/ /\ cfg.stallMax = 0 /\ Next
       /\ suggested' => cfg.policy \in {"reviewer", "merge"}
       /\ IF cfg.nits THEN spent'.cost = 0 ELSE spent'.tokens = 0
    \/ cfg.stallMax > 0 /\ Stalling!Next

(* The fairness of SynapticLoop!FairSpec, for the instance at work. *)
RunsFairness ==
    /\ WF_vars(cfg.stallMax = 0 /\ LoopStep)
    /\ WF_vars(cfg.stallMax > 0 /\ Stalling!LoopStep)

RunsSpec == RunsInit /\ [][RunsNext]_vars /\ RunsFairness

=============================================================================
