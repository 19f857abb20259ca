---------------------------- MODULE SynapticLoop ----------------------------
(***************************************************************************)
(* One run of the synaptic loop of nerve-core (lib.rs): a lead model       *)
(* generates a patch, a reviewer judges it, a deterministic check runs,    *)
(* and the loop refines until the round is accepted or given up.  A gate   *)
(* then decides whether the patch is applied.  The operator may grant      *)
(* apply consent and cancel at any time, and the reviewer may comment on   *)
(* a generation while it runs (crossfire).                                 *)
(***************************************************************************)
EXTENDS Naturals, Sequences, FiniteSets

CONSTANTS
    Configs,     \* the configurations of a run, records of ConfigType
    MaxRounds,   \* selection.max_refinement_rounds
    Limit,       \* orchestration.max_total_tokens, if any
    CostLimit,   \* orchestration.max_estimated_cost_microusd, if any
    NoLimit,     \* a ceiling that is not set
    Costs,       \* the usage a model call may report, records of UsageType
    MaxSpent,    \* bound: crossfire comments come only below this much usage
    Shas,        \* canonical hashes of patches
    NoPatch,     \* an output without a patch
    Ratios,      \* pass ratios a failing check may report
    Reviews,     \* verdicts a reviewer may give
    Suggestions  \* may a review carry a suggested patch? (set of answers)

Verdicts == {"lgtm", "nits", "changes", "block"}
Policies == {"lead", "reviewer", "merge", "reviewerBlock", "abort", "manual"}

ConfigType ==
    [strategy : {"consensus", "pipeline", "tournament"},
     policy   : Policies,
     nits     : BOOLEAN,      \* review_strictness.permits_nits()
     goal     : BOOLEAN,      \* is a check configured?
     stallMax : Nat,          \* GoalSpec.no_progress_max
     halts    : BOOLEAN,      \* crossfire_action.halts()
     enforces : BOOLEAN,      \* apply_classifier.mode.enforces()
     apply    : BOOLEAN,      \* RunOptions.apply
     daemon   : BOOLEAN]      \* are apply_grant and cancel_token attached?

Patches == Shas \cup {NoPatch}

(* UsageStats: tokens, and the estimated cost.  A call without an estimate *)
(* adds nothing, and a run without any is under every ceiling, as with 0.  *)
UsageType == [tokens : Nat, cost : Nat]

(* A measured pass ratio, in permille, or none. *)
NoRatio   == 1001
Full      == 1000
RatioType == 0 .. NoRatio

ASSUME LoopAssumption ==
    /\ Configs \subseteq ConfigType
    /\ MaxRounds \in Nat
    /\ Limit \in Nat \cup {NoLimit} /\ CostLimit \in Nat \cup {NoLimit}
    /\ NoLimit \notin Nat
    /\ MaxSpent \in Nat
    /\ Costs \subseteq UsageType
    /\ NoPatch \notin Shas
    /\ Ratios \subseteq 0 .. Full
    /\ Reviews \subseteq Verdicts
    /\ Suggestions \subseteq BOOLEAN

VARIABLES
    cfg,        \* the configuration, fixed at the start
    pc,         \* where in the run we are
    round,      \* round_index
    output,     \* number of the output in lead_output / final_output
    patch,      \* its patch
    rival,      \* tournament: the reviewer's patch
    fire,       \* outputs of the collected crossfire that were a Block
    usage,      \* what is accumulated in `usage`
    spent,      \* history: what any call reported
    verdict,    \* final_feedback.verdict
    suggested,  \* does final_feedback carry a suggested patch?
    judged,     \* history: the output that verdict was given to (0: none)
    check,      \* last_check: none, skipped, pass or fail
    ratio,      \* its pass ratio
    checked,    \* history: the output in hand when the check ran
    rounds,     \* Synapse: the recorded rounds
    prevPatch,  \* previous_patch_sha
    best,       \* best_progress
    stalls,     \* no_progress_count
    stopped,    \* budget_exceeded, no_progress_exceeded, ... that are set
    consent,    \* the ApplyConsent handle
    cancel,     \* the CancelToken handle
    final,      \* the patch that was selected
    allow,      \* allow_apply
    blocked,    \* report: blocked
    applied,    \* report: applied
    satisfied   \* report: goal_satisfied = Some(true)

leadVars   == <<output, patch, rival>>
tokenVars  == <<usage, spent>>
reviewVars == <<verdict, suggested, judged>>
checkVars  == <<check, ratio, checked, rounds>>
stallVars  == <<prevPatch, best, stalls>>
handles    == <<consent, cancel>>
report     == <<final, allow, blocked, applied, satisfied>>
vars       == <<cfg, pc, round, leadVars, fire, tokenVars, reviewVars,
                checkVars, stallVars, stopped, handles, report>>

Init ==
    /\ cfg \in Configs
    /\ pc = IF cfg.strategy = "tournament" THEN "both" ELSE "lead"
    /\ round = 0
    /\ output = 0
    /\ patch = NoPatch
    /\ rival = NoPatch
    /\ fire = {}
    /\ usage = [tokens |-> 0, cost |-> 0]
    /\ spent = [tokens |-> 0, cost |-> 0]
    /\ verdict = "lgtm"              \* "review not run"
    /\ suggested = FALSE
    /\ judged = 0
    /\ check = "none"
    /\ ratio = NoRatio
    /\ checked = 0
    /\ rounds = <<>>
    /\ prevPatch = NoPatch
    /\ best = NoRatio
    /\ stalls = 0
    /\ stopped = {}
    /\ consent = FALSE
    /\ cancel = FALSE
    /\ final = "none"
    /\ allow = FALSE
    /\ blocked = FALSE
    /\ applied = FALSE
    /\ satisfied = FALSE

(* Strategy::Pipeline is the consensus loop without refinement. *)
RoundLimit == IF cfg.strategy = "pipeline" THEN 0 ELSE MaxRounds

-----------------------------------------------------------------------------
(***************************************************************************)
(* The operator (`approve <run>`, `cancel <run>`).                         *)
(***************************************************************************)

Grant ==
    /\ cfg.daemon
    /\ ~consent
    /\ pc \notin {"returned", "error"}
    /\ consent' = TRUE
    /\ UNCHANGED <<cfg, pc, round, leadVars, fire, tokenVars, reviewVars,
                   checkVars, stallVars, stopped, cancel, report>>

Cancel ==
    /\ cfg.daemon
    /\ ~cancel
    /\ pc \notin {"returned", "error"}
    /\ cancel' = TRUE
    /\ UNCHANGED <<cfg, pc, round, leadVars, fire, tokenVars, reviewVars,
                   checkVars, stallVars, stopped, consent, report>>

-----------------------------------------------------------------------------
(***************************************************************************)
(* Model calls.                                                            *)
(***************************************************************************)

(* UsageStats::add_assign *)
Plus(u, c) == [tokens |-> u.tokens + c.tokens, cost |-> u.cost + c.cost]

(* accumulate_output_usage, accumulate_feedback_usage *)
Accumulate(c) == usage' = Plus(usage, c) /\ spent' = Plus(spent, c)

(* Mutation: an estimated cost is not held against its ceiling. *)
OverBudget_TokensOnly == Limit # NoLimit /\ usage.tokens > Limit

(* exceeds_budget, on the usage a step has just accumulated. *)
OverBudget ==
    \/ Limit # NoLimit /\ usage.tokens > Limit
    \/ CostLimit # NoLimit /\ usage.cost > CostLimit

(* A model call returns an error, and the run with it; so does the set-up  *)
(* of the check, which follows the first generation of the loop and the    *)
(* reviews of a tournament.                                                *)
CallFails ==
    /\ \/ pc \in {"lead", "review", "both", "reviewLead", "reviewRival"}
       \/ pc = "check" /\ cfg.strategy = "tournament"
    /\ pc' = "error"
    /\ UNCHANGED <<cfg, round, leadVars, fire, tokenVars, reviewVars,
                   checkVars, stallVars, stopped, handles, report>>

(* collect_output_with_crossfire: the scratch directory changed while the  *)
(* lead generates, and the reviewer comments.  Its cost is not added, and  *)
(* only a Block matters later, so only that is kept.                       *)
Crossfire(v, c) ==
    /\ pc = "lead"
    /\ spent.tokens + spent.cost < MaxSpent
    /\ fire' = IF v = "block" THEN fire \cup {output + 1} ELSE fire
    /\ spent' = Plus(spent, c)
    /\ UNCHANGED <<cfg, pc, round, leadVars, usage, reviewVars, checkVars,
                   stallVars, stopped, handles, report>>

(* The Block feedback the loop writes itself replaces the reviewer's. *)
OwnBlock == verdict' = "block" /\ suggested' = FALSE /\ judged' = 0

(* implement or refine returns.  Over budget, the loop ends unreviewed. *)
LeadReturns(s, c) ==
    /\ pc = "lead"
    /\ output' = output + 1
    /\ patch' = s
    /\ Accumulate(c)
    /\ IF OverBudget'
       THEN /\ stopped' = stopped \cup {"budget"}
            /\ OwnBlock
            /\ pc' = "gate"
       ELSE /\ pc' = "review"
            /\ UNCHANGED <<stopped, reviewVars>>
    /\ UNCHANGED <<cfg, round, rival, fire, checkVars, stallVars, handles,
                   report>>

(* reviewer.review of the output in hand. *)
ReviewReturns(v, sug, c) ==
    /\ pc = "review"
    /\ verdict' = v
    /\ suggested' = sug
    /\ judged' = output
    /\ Accumulate(c)
    /\ pc' = "check"
    /\ UNCHANGED <<cfg, round, leadVars, fire, checkVars, stallVars, stopped,
                   handles, report>>

(* run_goal_check: Skipped without a goal, otherwise Pass, or Fail with    *)
(* the pass ratio its output shows, if any (check_result_progress).        *)
CheckOutcomes ==
    IF ~cfg.goal THEN {<<"skipped", NoRatio>>}
    ELSE {<<"pass", Full>>, <<"fail", NoRatio>>}
            \cup {<<"fail", r>> : r \in Ratios}

(* The check ends and the round is recorded (Synapse::record_round). *)
RecordRound(o) ==
    /\ check' = o[1]
    /\ ratio' = o[2]
    /\ checked' = output
    /\ rounds' = Append(rounds, [patch |-> patch, verdict |-> verdict,
                                 check |-> o[1], ratio |-> o[2]])

CheckReturns(o) ==
    /\ pc = "check"
    /\ o \in CheckOutcomes
    /\ RecordRound(o)
    /\ pc' = IF cfg.strategy = "tournament" THEN "gate" ELSE "seam"
    /\ UNCHANGED <<cfg, round, leadVars, fire, tokenVars, reviewVars,
                   stallVars, stopped, handles, report>>

-----------------------------------------------------------------------------
(***************************************************************************)
(* The round seam, a decision list: the first test that holds decides.     *)
(***************************************************************************)

(* The ma-6 decision table. *)
Accepting(v, c) ==
    \/ v = "lgtm" /\ c \in {"pass", "skipped"}
    \/ v = "nits" /\ cfg.nits /\ c = "pass"

(* The crossfire of this generation holds a Block (most_severe_crossfire). *)
LiveBlock == fire # {}

(* round_is_stalled *)
Stalled ==
    /\ prevPatch # NoPatch
    /\ patch # NoPatch
    /\ prevPatch = patch \/ (ratio # NoRatio /\ best # NoRatio /\ ratio <= best)

(* The no-progress guard counts this round. *)
CountsAsStall ==
    cfg.stallMax > 0 /\ verdict \in {"changes", "nits"} /\ Stalled

(* Mutation: a round that moves on does not reset the count. *)
StallCount_NoReset == IF CountsAsStall THEN stalls + 1 ELSE stalls

StallCount == IF CountsAsStall THEN stalls + 1 ELSE 0

GivesUp == CountsAsStall /\ StallCount >= cfg.stallMax

SeamOpen      == pc = "seam"
AfterBudget   == SeamOpen /\ ~OverBudget
AfterAccept   == AfterBudget /\ ~Accepting(verdict, check)
AfterCancel   == AfterAccept /\ ~cancel

AfterBlock    == AfterCancel /\ verdict # "block"

AfterHalt     == AfterBlock /\ ~(cfg.halts /\ LiveBlock)
AfterProgress == AfterHalt /\ ~GivesUp

ToGate ==
    /\ pc' = "gate"
    /\ UNCHANGED <<cfg, round, leadVars, fire, tokenVars, checkVars, handles,
                   report>>

SeamBudget ==
    /\ SeamOpen /\ OverBudget
    /\ stopped' = stopped \cup {"budget"}
    /\ OwnBlock
    /\ ToGate
    /\ UNCHANGED stallVars

SeamAccept ==
    /\ AfterBudget /\ Accepting(verdict, check)
    /\ ToGate
    /\ UNCHANGED <<stopped, reviewVars, stallVars>>

SeamCancel ==
    /\ AfterAccept /\ cancel
    /\ stopped' = stopped \cup {"cancelled"}
    /\ OwnBlock
    /\ ToGate
    /\ UNCHANGED stallVars

SeamBlock ==
    /\ AfterCancel /\ verdict = "block"
    /\ ToGate
    /\ UNCHANGED <<stopped, reviewVars, stallVars>>

(* final_feedback is left as it is. *)
SeamHalt ==
    /\ AfterBlock /\ cfg.halts /\ LiveBlock
    /\ stopped' = stopped \cup {"halted"}
    /\ ToGate
    /\ UNCHANGED <<reviewVars, stallVars>>

SeamGiveUp ==
    /\ AfterHalt /\ GivesUp
    /\ stalls' = StallCount
    /\ stopped' = stopped \cup {"stalled"}
    /\ OwnBlock
    /\ ToGate
    /\ UNCHANGED <<prevPatch, best>>

(* The round's patch and ratio are remembered for the next one. *)
Remember ==
    /\ stalls' = StallCount
    /\ prevPatch' = patch
    /\ best' = IF ratio = NoRatio THEN best
               ELSE IF best = NoRatio \/ ratio > best THEN ratio ELSE best

(* Mutation: the loop waits for one more round than it runs. *)
SeamLast_Beyond ==
    /\ AfterProgress /\ round > RoundLimit
    /\ Remember
    /\ ToGate
    /\ UNCHANGED <<stopped, reviewVars>>

SeamLast ==
    /\ AfterProgress /\ round = RoundLimit
    /\ Remember
    /\ ToGate
    /\ UNCHANGED <<stopped, reviewVars>>

(* The lead is asked to refine, with a crossfire of its own.  What it is   *)
(* told does not touch the gate (merge_crossfire_into_feedback works on a  *)
(* copy).                                                                  *)
SeamRefine ==
    /\ AfterProgress /\ round < RoundLimit
    /\ Remember
    /\ fire' = {}
    /\ round' = round + 1
    /\ pc' = "lead"
    /\ UNCHANGED <<cfg, leadVars, tokenVars, reviewVars, checkVars, stopped,
                   handles, report>>

Seam ==
    \/ SeamBudget \/ SeamAccept \/ SeamCancel \/ SeamBlock \/ SeamHalt
    \/ SeamGiveUp \/ SeamLast \/ SeamRefine

-----------------------------------------------------------------------------
(***************************************************************************)
(* run_tournament_strategy: both models implement, each reviews the other, *)
(* and one round is recorded.                                              *)
(***************************************************************************)

(* try_join of the two implementations; output 1 is the lead's, 2 the      *)
(* reviewer's.                                                             *)
BothReturn(s, r, c) ==
    /\ pc = "both"
    /\ output' = 1
    /\ patch' = s
    /\ rival' = r
    /\ Accumulate(c)
    /\ IF OverBudget'
       THEN /\ stopped' = stopped \cup {"budget"}
            /\ OwnBlock
            /\ pc' = "check"
       ELSE /\ pc' = "reviewLead"
            /\ UNCHANGED <<stopped, reviewVars>>
    /\ UNCHANGED <<cfg, round, fire, checkVars, stallVars, handles, report>>

LeadReviewed(v, sug, c) ==
    /\ pc = "reviewLead"
    /\ verdict' = v
    /\ suggested' = sug
    /\ judged' = 1
    /\ Accumulate(c)
    /\ pc' = "reviewRival"
    /\ UNCHANGED <<cfg, round, leadVars, fire, checkVars, stallVars, stopped,
                   handles, report>>

(* Mutation: the reviewer's feedback is taken over without its output. *)
TakeRival_FeedbackOnly(v, sug) ==
    /\ verdict' = v /\ suggested' = sug /\ judged' = 2
    /\ UNCHANGED <<output, patch>>

(* The reviewer's candidate wins: its output and the feedback on it. *)
TakeRival(v, sug) ==
    /\ verdict' = v /\ suggested' = sug /\ judged' = 2
    /\ output' = 2 /\ patch' = rival

RivalReviewed(v, sug, c) ==
    /\ pc = "reviewRival"
    /\ Accumulate(c)
    /\ IF OverBudget'
       THEN /\ stopped' = stopped \cup {"budget"}
            /\ OwnBlock
            /\ UNCHANGED <<output, patch>>
       ELSE /\ UNCHANGED stopped
            /\ IF verdict # "lgtm" /\ (v = "lgtm" \/ cfg.policy = "reviewer")
               THEN TakeRival(v, sug)
               ELSE UNCHANGED <<output, patch, reviewVars>>
    /\ pc' = "check"
    /\ UNCHANGED <<cfg, round, rival, fire, checkVars, stallVars, handles,
                   report>>

-----------------------------------------------------------------------------
(***************************************************************************)
(* The gate: patch selection, the blocked chain, consent, classifier.      *)
(***************************************************************************)

(* select_final_patch *)
Selected ==
    LET lead == IF patch = NoPatch THEN "none" ELSE "lead" IN
    IF cfg.policy \in {"reviewer", "merge"} /\ suggested
    THEN IF cfg.policy = "merge" /\ lead = "lead" THEN "merged" ELSE "reviewer"
    ELSE lead

GoalCheckFailed == cfg.goal /\ check \notin {"pass", "skipped"}

NitsUnverified == verdict = "nits" /\ ~(cfg.nits /\ check = "pass")

IsBlocked ==
    \/ cfg.policy = "abort" /\ verdict \notin {"lgtm", "nits"}
    \/ cfg.policy \in {"merge", "reviewerBlock"} /\ verdict = "block"
    \/ cfg.policy = "manual"

(* Mutation: a halted run is left to the conflict policy. *)
Blocked_NotHalted(flags) ==
    flags \ {"halted"} # {} \/ GoalCheckFailed \/ NitsUnverified \/ IsBlocked

(* The blocked chain. *)
Blocked(flags) == flags # {} \/ GoalCheckFailed \/ NitsUnverified \/ IsBlocked

(* Mutation: any check result will do. *)
Satisfied_AnyCheck(flags) ==
    /\ cfg.goal /\ check # "none"
    /\ verdict = "lgtm" \/ (verdict = "nits" /\ cfg.nits)
    /\ flags = {}

(* goal_satisfied *)
Satisfied(flags) ==
    /\ cfg.goal /\ check \in {"pass", "skipped"}
    /\ verdict = "lgtm" \/ (verdict = "nits" /\ cfg.nits)
    /\ flags = {}

(* apply_classifier_decision: in enforce mode a high-risk patch vetoes. *)
Allowed(want, high) == want /\ ~(cfg.enforces /\ high)

(* A tournament reads the cancel token only here. *)
StoppedAtGate ==
    IF cfg.strategy = "tournament" /\ cancel
    THEN stopped \cup {"cancelled"} ELSE stopped

Gate(high) ==
    /\ pc = "gate"
    /\ final' = Selected
    /\ stopped' = StoppedAtGate
    /\ blocked' = Blocked(StoppedAtGate)
    /\ allow' = Allowed((cfg.apply \/ consent) /\ ~blocked', high)
    /\ satisfied' = Satisfied(StoppedAtGate)
    /\ pc' = "apply"
    /\ UNCHANGED <<cfg, round, leadVars, fire, tokenVars, reviewVars,
                   checkVars, stallVars, handles, applied>>

(* merge_patches of two patches may fail: the run returns the error. *)
MergeFails ==
    /\ pc = "gate"
    /\ Selected = "merged"
    /\ pc' = "error"
    /\ UNCHANGED <<cfg, round, leadVars, fire, tokenVars, reviewVars,
                   checkVars, stallVars, stopped, handles, report>>

(* apply_final_patch, and the report is returned. *)
Apply ==
    /\ pc = "apply"
    /\ applied' = (allow /\ final # "none")
    /\ pc' = "returned"
    /\ UNCHANGED <<cfg, round, leadVars, fire, tokenVars, reviewVars,
                   checkVars, stallVars, stopped, handles, final, allow,
                   blocked, satisfied>>

(* The patch does not apply: the run returns the error. *)
ApplyFails ==
    /\ pc = "apply"
    /\ allow /\ final # "none"
    /\ pc' = "error"
    /\ UNCHANGED <<cfg, round, leadVars, fire, tokenVars, reviewVars,
                   checkVars, stallVars, stopped, handles, report>>

-----------------------------------------------------------------------------
ModelReturns ==
    \E c \in Costs :
        \/ \E s \in Patches : LeadReturns(s, c)
        \/ \E s, r \in Patches : BothReturn(s, r, c)
        \/ \E v \in Reviews, sug \in Suggestions :
              \/ ReviewReturns(v, sug, c)
              \/ LeadReviewed(v, sug, c) \/ RivalReviewed(v, sug, c)

(* The steps the run itself takes. *)
LoopStep ==
    \/ ModelReturns \/ CallFails
    \/ \E o \in CheckOutcomes : CheckReturns(o)
    \/ Seam
    \/ \E high \in BOOLEAN : Gate(high)
    \/ MergeFails \/ Apply \/ ApplyFails

Next ==
    \/ LoopStep
    \/ \E v \in Reviews, c \in Costs : Crossfire(v, c)
    \/ Grant \/ Cancel

Spec == Init /\ [][Next]_vars

(* The run is one future that the runtime polls, and every model call and  *)
(* check returns (adapters and checks run under timeouts).                 *)
FairSpec == Spec /\ WF_vars(LoopStep)

-----------------------------------------------------------------------------
(***************************************************************************)
(* Properties                                                              *)
(***************************************************************************)

RoundType == [patch : Patches, verdict : Verdicts,
              check : {"skipped", "pass", "fail"}, ratio : RatioType]

ControlType ==
    /\ cfg \in Configs
    /\ pc \in {"lead", "review", "check", "seam", "both", "reviewLead",
               "reviewRival", "gate", "apply", "returned", "error"}
    /\ round \in 0 .. RoundLimit
LeadType   == output \in Nat /\ patch \in Patches /\ rival \in Patches
TokenType  == usage \in UsageType /\ spent \in UsageType
ReviewType == verdict \in Verdicts /\ suggested \in BOOLEAN /\ judged \in Nat
CheckType ==
    /\ check \in {"none", "skipped", "pass", "fail"}
    /\ ratio \in RatioType /\ checked \in Nat
    /\ rounds \in Seq(RoundType)
StallType  == prevPatch \in Patches /\ best \in RatioType /\ stalls \in Nat
StopType ==
    /\ fire \subseteq Nat
    /\ stopped \subseteq {"budget", "stalled", "halted", "cancelled"}
HandleType == consent \in BOOLEAN /\ cancel \in BOOLEAN
ReportType ==
    /\ final \in {"none", "lead", "reviewer", "merged"}
    /\ allow \in BOOLEAN /\ blocked \in BOOLEAN
    /\ applied \in BOOLEAN /\ satisfied \in BOOLEAN

(* Every variable has its type, and the loop runs no more refinements than *)
(* the strategy and the profile allow.                                     *)
LoopTypeOK ==
    /\ ControlType /\ LeadType /\ TokenType /\ ReviewType /\ CheckType
    /\ StallType /\ StopType /\ HandleType /\ ReportType

(* What is applied is the output in hand, with the verdict in the report   *)
(* given to it and no other (not to an earlier round's, nor to the other   *)
(* candidate of a tournament) and the check run with it in hand; or, under *)
(* the two policies that ask for it, what that very verdict suggested, by  *)
(* itself or merged with the output.  Such a patch has no verdict and no   *)
(* check of its own (select_final_patch, lib.rs:1713): both are about the  *)
(* output it replaces.  In each case the operator consented, the check     *)
(* passed if there is one, nits were verified, and only the two priority   *)
(* policies apply over a Block.                                            *)
AppliedIsJustified ==
    applied =>
        /\ cfg.apply \/ consent
        /\ judged = output
        /\ checked = output
        /\ cfg.goal => check = "pass"
        /\ verdict = "nits" => cfg.nits /\ check = "pass"
        /\ verdict = "block" => cfg.policy \in {"lead", "reviewer"}
        /\ final \in {"lead", "merged"} => patch # NoPatch
        /\ final # "lead" => suggested /\ cfg.policy \in {"reviewer", "merge"}
        /\ final = "merged" => cfg.policy = "merge"

(* A run that was stopped (budget, no progress, crossfire halt, cancel) is *)
(* reported blocked, not satisfied, and not applied, whatever the policy.  *)
StoppedRunsAreRejected ==
    pc = "returned" /\ stopped # {} => blocked /\ ~applied /\ ~satisfied

(* More than one of the two ceilings allows. *)
Excessive(u) ==
    \/ Limit \in Nat /\ u.tokens > Limit
    \/ CostLimit \in Nat /\ u.cost > CostLimit

(* A run whose accumulated usage is over a ceiling, of tokens or of cost,  *)
(* is never applied, at whichever call the ceiling was passed.             *)
OverBudgetNeverApplied == Excessive(usage) => ~applied

(* goal_satisfied is never reported for a run whose patch the gate blocks, *)
(* except under the manual policy, which blocks every run.                 *)
SatisfiedIsApplicable ==
    pc = "returned" /\ satisfied => ~blocked \/ cfg.policy = "manual"

(* A round follows another one only if that one was neither accepted nor   *)
(* blocked: acceptance ends the loop, and so does a Block.                 *)
NoRoundAfterDecision ==
    \A k \in 1 .. Len(rounds) - 1 :
        /\ ~Accepting(rounds[k].verdict, rounds[k].check)
        /\ rounds[k].verdict # "block"

(* Round k failed to move towards the goal, told from the recorded rounds. *)
StalledRound(k) ==
    /\ k > 1
    /\ rounds[k].verdict \in {"changes", "nits"}
    /\ NoPatch \notin {rounds[k].patch, rounds[k - 1].patch}
    /\ \/ rounds[k].patch = rounds[k - 1].patch
       \/ /\ rounds[k].ratio # NoRatio
          /\ \E j \in 1 .. k - 1 : /\ rounds[j].ratio # NoRatio
                                   /\ rounds[k].ratio <= rounds[j].ratio

(* The last no_progress_max recorded rounds were all stalled. *)
NothingMoves ==
    /\ Len(rounds) >= cfg.stallMax
    /\ \A k \in Len(rounds) - cfg.stallMax + 1 .. Len(rounds) : StalledRound(k)

(* The no-progress guard trips exactly when no_progress_max rounds in a    *)
(* row were stalled: not on scattered ones, and never later.               *)
GuardIsExact ==
    cfg.stallMax > 0 =>
        /\ "stalled" \in stopped => NothingMoves
        /\ pc = "lead" => ~NothingMoves

(* The recorded rounds are those of a loop that ends where it should: at a *)
(* decision, and at the guard (lib.rs:783-867).                            *)
RoundsInOrder == NoRoundAfterDecision /\ GuardIsExact

(* Every run returns its report or an error. *)
RunReturns == <>(pc \in {"returned", "error"})

(* A run that the operator cancelled before its apply decision is not      *)
(* allowed to apply (README: "a cancelled run is always reported blocked   *)
(* and never applied").                                                    *)
CancelBeatsApply ==
    [][pc = "gate" /\ cancel => ~allow']_vars

(* A run whose calls reported more than a ceiling allows is stopped by the *)
(* budget (README: "budgets stop refinement and prevent apply when         *)
(* reported model usage exceeds a configured ceiling").                    *)
BudgetCountsEveryCall ==
    applied => ~Excessive(spent)

=============================================================================
