-------------------------- MODULE SynapticLoopProofs --------------------------
(***************************************************************************)
(* Proofs about SynapticLoop, for every configuration, number of rounds,   *)
(* budget and set of patches.  The invariant follows the control points of *)
(* the run: what is known of the verdict, the check and the usage when the *)
(* run reaches the gate is what the report can rely on.                    *)
(***************************************************************************)
EXTENDS SynapticLoop, TLAPS

(* The configuration has its type. *)
LEMMA ConfigFields ==
    ASSUME cfg \in Configs
    PROVE  cfg.stallMax \in Nat /\ RoundLimit \in Nat
BY LoopAssumption DEF ConfigType, RoundLimit

(* A group of variables that a step leaves alone keeps its type. *)
LEMMA TypesKept ==
    /\ ControlType /\ UNCHANGED <<cfg, pc, round>> => ControlType'
    /\ LeadType /\ UNCHANGED leadVars => LeadType'
    /\ TokenType /\ UNCHANGED tokenVars => TokenType'
    /\ ReviewType /\ UNCHANGED reviewVars => ReviewType'
    /\ CheckType /\ UNCHANGED checkVars => CheckType'
    /\ StallType /\ UNCHANGED stallVars => StallType'
    /\ StopType /\ UNCHANGED <<fire, stopped>> => StopType'
    /\ HandleType /\ UNCHANGED handles => HandleType'
    /\ ReportType /\ UNCHANGED report => ReportType'
<1>1. ControlType /\ UNCHANGED <<cfg, pc, round>> => ControlType'
  BY DEF ControlType, RoundLimit
<1>2. LeadType /\ UNCHANGED leadVars => LeadType'
  BY DEF LeadType, leadVars
<1>3. TokenType /\ UNCHANGED tokenVars => TokenType'
  BY DEF TokenType, tokenVars
<1>4. ReviewType /\ UNCHANGED reviewVars => ReviewType'
  BY DEF ReviewType, reviewVars
<1>5. CheckType /\ UNCHANGED checkVars => CheckType'
  BY DEF CheckType, checkVars
<1>6. StallType /\ UNCHANGED stallVars => StallType'
  BY DEF StallType, stallVars
<1>7. StopType /\ UNCHANGED <<fire, stopped>> => StopType'
  BY DEF StopType
<1>8. HandleType /\ UNCHANGED handles => HandleType'
  BY DEF HandleType, handles
<1>9. ReportType /\ UNCHANGED report => ReportType'
  BY DEF ReportType, report
<1> QED
  BY <1>1, <1>2, <1>3, <1>4, <1>5, <1>6, <1>7, <1>8, <1>9

(* The run moves to a control point and leaves round and configuration. *)
LEMMA Moves ==
    ASSUME ControlType, UNCHANGED <<cfg, round>>,
           pc' \in {"lead", "review", "check", "seam", "both", "reviewLead",
                    "reviewRival", "gate", "apply", "returned", "error"}
    PROVE  ControlType'
BY DEF ControlType, RoundLimit

(* The feedback the loop writes itself has its type. *)
LEMMA OwnBlockTyped == OwnBlock => ReviewType'
<1> SUFFICES ASSUME OwnBlock PROVE ReviewType'
  OBVIOUS
<1>1. verdict' \in Verdicts
  BY DEF OwnBlock, Verdicts
<1>2. suggested' \in BOOLEAN
  BY DEF OwnBlock
<1>3. judged' \in Nat
  BY DEF OwnBlock
<1> QED
  BY <1>1, <1>2, <1>3 DEF ReviewType

(* A sum of usage has its type. *)
LEMMA PlusTyped ==
    ASSUME NEW u \in UsageType, NEW c \in UsageType
    PROVE  Plus(u, c) \in UsageType
BY DEF Plus, UsageType

(* Every step of the loop keeps the types; a round follows only while the  *)
(* round limit is not reached.                                             *)
LEMMA TypeNext == LoopTypeOK /\ [Next]_vars => LoopTypeOK'
<1> SUFFICES ASSUME LoopTypeOK, [Next]_vars PROVE LoopTypeOK'
  OBVIOUS
<1> USE TypesKept, Moves, OwnBlockTyped DEF LoopTypeOK
<1>a. \A u \in UsageType, c \in Costs : Plus(u, c) \in UsageType
  BY PlusTyped, LoopAssumption
<1>1. CASE UNCHANGED vars
  BY <1>1 DEF vars
<1>2. CASE CallFails \/ MergeFails \/ ApplyFails
  BY <1>2 DEF CallFails, MergeFails, ApplyFails
<1>3. CASE Grant \/ Cancel
  <2>1. HandleType'
    BY <1>3 DEF Grant, Cancel, HandleType
  <2> QED
    BY <1>3, <2>1 DEF Grant, Cancel
<1>4. ASSUME NEW v \in Reviews, NEW c \in Costs, Crossfire(v, c)
      PROVE  LoopTypeOK'
  <2>1. TokenType'
    BY <1>4, <1>a DEF Crossfire, TokenType
  <2>2. StopType'
    BY <1>4 DEF Crossfire, StopType, LeadType
  <2> QED
    BY <1>4, <2>1, <2>2 DEF Crossfire
<1>5. ASSUME NEW s \in Patches, NEW c \in Costs, LeadReturns(s, c)
      PROVE  LoopTypeOK'
  <2>1. LeadType'
    BY <1>5 DEF LeadReturns, LeadType
  <2>2. TokenType'
    BY <1>5, <1>a DEF LeadReturns, Accumulate, TokenType
  <2>3. ReviewType'
    BY <1>5 DEF LeadReturns
  <2>4. StopType'
    BY <1>5 DEF LeadReturns, StopType
  <2>5. ControlType'
    BY <1>5 DEF LeadReturns
  <2> QED
    BY <1>5, <2>1, <2>2, <2>3, <2>4, <2>5 DEF LeadReturns
<1>6. ASSUME NEW s \in Patches, NEW r \in Patches, NEW c \in Costs,
             BothReturn(s, r, c)
      PROVE  LoopTypeOK'
  <2>1. LeadType'
    BY <1>6 DEF BothReturn, LeadType
  <2>2. TokenType'
    BY <1>6, <1>a DEF BothReturn, Accumulate, TokenType
  <2>3. ReviewType'
    BY <1>6 DEF BothReturn
  <2>4. StopType'
    BY <1>6 DEF BothReturn, StopType
  <2>5. ControlType'
    BY <1>6 DEF BothReturn
  <2> QED
    BY <1>6, <2>1, <2>2, <2>3, <2>4, <2>5 DEF BothReturn
<1>7. ASSUME NEW v \in Reviews, NEW sug \in Suggestions, NEW c \in Costs,
             ReviewReturns(v, sug, c) \/ LeadReviewed(v, sug, c)
      PROVE  LoopTypeOK'
  <2>1. TokenType'
    BY <1>7, <1>a DEF ReviewReturns, LeadReviewed, Accumulate,
       TokenType
  <2>2. ReviewType'
    BY <1>7, LoopAssumption DEF ReviewReturns, LeadReviewed, ReviewType,
       LeadType
  <2> QED
    BY <1>7, <2>1, <2>2 DEF ReviewReturns, LeadReviewed
<1>8. ASSUME NEW v \in Reviews, NEW sug \in Suggestions, NEW c \in Costs,
             RivalReviewed(v, sug, c)
      PROVE  LoopTypeOK'
  <2>1. TokenType'
    BY <1>8, <1>a DEF RivalReviewed, Accumulate, TokenType
  <2>2. ReviewType'
    <3>1. ASSUME TakeRival(v, sug) PROVE ReviewType'
      BY <3>1, LoopAssumption DEF TakeRival, ReviewType
    <3> QED
      BY <1>8, <3>1 DEF RivalReviewed
  <2>3. LeadType'
    BY <1>8 DEF RivalReviewed, TakeRival, LeadType
  <2>4. StopType'
    BY <1>8 DEF RivalReviewed, StopType
  <2> QED
    BY <1>8, <2>1, <2>2, <2>3, <2>4 DEF RivalReviewed
<1>9. ASSUME NEW o \in CheckOutcomes, CheckReturns(o)
      PROVE  LoopTypeOK'
  <2>1. o[1] \in {"skipped", "pass", "fail"} /\ o[2] \in RatioType
    <3>1. /\ NoRatio \in RatioType /\ Full \in RatioType
          /\ \A r \in Ratios : r \in RatioType
      BY LoopAssumption DEF RatioType, NoRatio, Full
    <3>2. \/ o = <<"skipped", NoRatio>> \/ o = <<"pass", Full>>
          \/ o = <<"fail", NoRatio>> \/ \E r \in Ratios : o = <<"fail", r>>
      BY DEF CheckOutcomes
    <3> QED
      BY <3>1, <3>2
  <2>2. [patch |-> patch, verdict |-> verdict, check |-> o[1], ratio |-> o[2]]
            \in RoundType
    BY <2>1 DEF RoundType, LeadType, ReviewType
  <2>3. CheckType'
    BY <1>9, <2>1, <2>2 DEF CheckReturns, RecordRound, CheckType, LeadType
  <2>4. ControlType'
    BY <1>9 DEF CheckReturns
  <2> QED
    BY <1>9, <2>3, <2>4 DEF CheckReturns
<1>10. CASE Seam
  <2>1. StallCount \in Nat
    BY DEF StallCount, StallType
  <2>2. CASE SeamBudget \/ SeamAccept \/ SeamCancel \/ SeamBlock \/ SeamHalt
    <3>1. ReviewType' /\ StopType'
      BY <2>2 DEF SeamBudget, SeamAccept, SeamCancel, SeamBlock, SeamHalt,
         ToGate, StopType
    <3> QED
      BY <2>2, <3>1 DEF SeamBudget, SeamAccept, SeamCancel, SeamBlock,
         SeamHalt, ToGate
  <2>3. CASE SeamGiveUp
    <3>1. ReviewType' /\ StopType'
      BY <2>3 DEF SeamGiveUp, ToGate, StopType
    <3>2. StallType'
      BY <2>3, <2>1 DEF SeamGiveUp, StallType
    <3> QED
      BY <2>3, <3>1, <3>2 DEF SeamGiveUp, ToGate
  <2>4. ASSUME Remember PROVE StallType'
    BY <2>1, <2>4 DEF Remember, StallType, LeadType, CheckType
  <2>5. CASE SeamLast
    BY <2>4, <2>5 DEF SeamLast, ToGate
  <2>6. CASE SeamRefine
    <3>1. ControlType'
      <4>1. cfg' = cfg /\ RoundLimit' = RoundLimit
        BY <2>6 DEF SeamRefine, RoundLimit
      <4>2. RoundLimit \in Nat /\ round \in 0 .. RoundLimit
        BY ConfigFields DEF ControlType
      <4>3. round' = round + 1 /\ round < RoundLimit
        BY <2>6 DEF SeamRefine
      <4>4. round' \in 0 .. RoundLimit'
        BY <4>1, <4>2, <4>3
      <4> QED
        BY <2>6, <4>1, <4>4 DEF SeamRefine, ControlType
    <3>2. StopType'
      BY <2>6 DEF SeamRefine, StopType
    <3> QED
      BY <2>4, <2>6, <3>1, <3>2 DEF SeamRefine
  <2> QED
    BY <1>10, <2>2, <2>3, <2>5, <2>6 DEF Seam
<1>11. ASSUME NEW high \in BOOLEAN, Gate(high)
      PROVE  LoopTypeOK'
  <2>1. StopType'
    BY <1>11 DEF Gate, StoppedAtGate, StopType
  <2>2. final' \in {"none", "lead", "reviewer", "merged"}
    BY <1>11 DEF Gate, Selected
  <2>3. Blocked(StoppedAtGate) \in BOOLEAN
    BY DEF Blocked
  <2>4. Satisfied(StoppedAtGate) \in BOOLEAN
    BY DEF Satisfied
  <2>5. \A w : Allowed(w, high) \in BOOLEAN
    BY DEF Allowed
  <2>6. ReportType'
    BY <1>11, <2>2, <2>3, <2>4, <2>5 DEF Gate, ReportType
  <2> QED
    BY <1>11, <2>1, <2>6 DEF Gate
<1>12. CASE Apply
  <2>1. ReportType'
    BY <1>12 DEF Apply, ReportType
  <2> QED
    BY <1>12, <2>1 DEF Apply
<1> QED
  BY <1>1, <1>2, <1>3, <1>4, <1>5, <1>6, <1>7, <1>8, <1>9, <1>10, <1>11,
     <1>12 DEF Next, LoopStep, ModelReturns

(* In every reachable state of a run every variable has its type, and the  *)
(* loop never runs more refinements than the profile allows.               *)
THEOREM LoopTypeCorrect == Spec => []LoopTypeOK
<1>1. ASSUME Init PROVE LoopTypeOK
  <2>1. ControlType
    BY <1>1, ConfigFields DEF Init, ControlType
  <2>2. CheckType
    BY <1>1 DEF Init, CheckType, RatioType, NoRatio
  <2>3. LeadType /\ TokenType /\ StopType
    BY <1>1 DEF Init, LeadType, TokenType, UsageType, StopType, Patches
  <2>4. ReviewType
    BY <1>1 DEF Init, ReviewType, Verdicts
  <2>5. StallType
    BY <1>1 DEF Init, StallType, Patches, RatioType, NoRatio
  <2>6. HandleType /\ ReportType
    BY <1>1 DEF Init, HandleType, ReportType
  <2> QED
    BY <2>1, <2>2, <2>3, <2>4, <2>5, <2>6 DEF LoopTypeOK
<1> QED
  BY <1>1, TypeNext, PTL DEF Spec

-----------------------------------------------------------------------------
(***************************************************************************)
(* The inductive invariant.  No safety property of the report is inductive *)
(* by itself: each speaks of the end of the run, and rests on what every   *)
(* earlier control point knows.                                            *)
(***************************************************************************)

(* The model calls of a round, of the loop and of a tournament. *)
LoopCalls       == {"lead", "review"}
TournamentCalls == {"both", "reviewLead", "reviewRival"}

(* The verdict in hand was given to the output in hand. *)
VerdictCurrent == judged = output

(* The check ran with the output in hand. *)
CheckCurrent == checked = output

(* While models are called nothing has stopped the run. *)
CallsUnstopped == pc \in LoopCalls \cup TournamentCalls => stopped = {}

(* The two strategies keep to their control points. *)
StrategyPoints ==
    /\ pc \in LoopCalls \cup {"seam"} => cfg.strategy # "tournament"
    /\ pc \in TournamentCalls => cfg.strategy = "tournament"

(* A tournament reviews the lead's candidate first. *)
CandidateOrder ==
    /\ pc \in {"reviewLead", "reviewRival"} => output = 1
    /\ pc = "reviewRival" => VerdictCurrent

(* The check is run for the verdict of the same round. *)
AtCheck ==
    pc = "check" =>
        IF cfg.strategy = "tournament"
        THEN stopped # {} \/ (VerdictCurrent /\ ~Excessive(usage))
        ELSE stopped = {} /\ VerdictCurrent

(* The seam decides on a verdict and a check of the output in hand. *)
AtSeam == pc = "seam" => stopped = {} /\ VerdictCurrent /\ CheckCurrent

(* A run comes to the gate stopped, or with current facts in its budget. *)
FromGate ==
    pc \in {"gate", "apply", "returned"} =>
        stopped # {} \/ (VerdictCurrent /\ CheckCurrent /\ ~Excessive(usage))

(* Only a run without a check skips it. *)
SkippedMeansNoGoal == check = "skipped" => ~cfg.goal

(* What the gate decided still stands when the report is returned. *)
GateDecided ==
    pc \in {"apply", "returned"} =>
        /\ blocked <=> Blocked(stopped)
        /\ satisfied <=> Satisfied(stopped)
        /\ allow => ~blocked /\ (cfg.apply \/ consent)
        /\ final = Selected

(* Applying is the last step, and only when it was allowed. *)
AppliedLast == applied => pc = "returned" /\ allow /\ final # "none"

LoopInv ==
    /\ CallsUnstopped /\ StrategyPoints /\ CandidateOrder
    /\ AtCheck /\ AtSeam /\ FromGate
    /\ SkippedMeansNoGoal /\ GateDecided /\ AppliedLast

(* The gate's decision depends on the configuration, the patch, the        *)
(* feedback, the check and the stop flags only.                            *)
LEMMA DecisionStable ==
    ASSUME UNCHANGED <<cfg, patch, verdict, suggested, check, stopped>>
    PROVE  /\ Blocked(stopped)' <=> Blocked(stopped)
           /\ Satisfied(stopped)' <=> Satisfied(stopped)
           /\ Selected' = Selected
BY DEF Selected, Blocked, Satisfied, GoalCheckFailed, NitsUnverified, IsBlocked

(* exceeds_budget lets no usage pass that is over a ceiling. *)
LEMMA CeilingTested ==
    /\ ~OverBudget => ~Excessive(usage)
    /\ (~OverBudget => ~Excessive(usage))'
BY LoopAssumption DEF OverBudget, Excessive

(* Every step of a run keeps LoopInv. *)
LEMMA InvNext == LoopTypeOK /\ LoopInv /\ [Next]_vars => LoopInv'
<1> SUFFICES ASSUME LoopTypeOK, LoopInv, [Next]_vars PROVE LoopInv'
  OBVIOUS
<1> USE DEF LoopInv, CallsUnstopped, StrategyPoints, CandidateOrder, AtCheck,
            AtSeam, FromGate, SkippedMeansNoGoal, GateDecided, AppliedLast,
            LoopCalls, TournamentCalls, VerdictCurrent, CheckCurrent
<1>1. CASE UNCHANGED vars
  BY <1>1, DecisionStable DEF vars, leadVars, tokenVars, reviewVars,
     checkVars, handles, report
<1>2. CASE CallFails \/ MergeFails \/ ApplyFails
  BY <1>2 DEF CallFails, MergeFails, ApplyFails, checkVars, report
<1>3. CASE Grant \/ Cancel
  BY <1>3, DecisionStable DEF Grant, Cancel, leadVars, tokenVars, reviewVars,
     checkVars, report
<1>4. ASSUME NEW v \in Reviews, NEW c \in Costs, Crossfire(v, c)
      PROVE  LoopInv'
  BY <1>4 DEF Crossfire, checkVars, report
<1>5. ASSUME NEW s \in Patches, NEW c \in Costs, LeadReturns(s, c)
      PROVE  LoopInv'
  BY <1>5 DEF LeadReturns, checkVars, report
<1>6. ASSUME NEW s \in Patches, NEW r \in Patches, NEW c \in Costs,
             BothReturn(s, r, c)
      PROVE  LoopInv'
  BY <1>6 DEF BothReturn, checkVars, report
<1>7. ASSUME NEW v \in Reviews, NEW sug \in Suggestions, NEW c \in Costs,
             ReviewReturns(v, sug, c) \/ LeadReviewed(v, sug, c)
      PROVE  LoopInv'
  BY <1>7 DEF ReviewReturns, LeadReviewed, leadVars, checkVars, report
<1>8. ASSUME NEW v \in Reviews, NEW sug \in Suggestions, NEW c \in Costs,
             RivalReviewed(v, sug, c)
      PROVE  LoopInv'
  <2>2. ~OverBudget' => ~Excessive(usage)'
    BY CeilingTested
  <2>3. /\ pc = "reviewRival" /\ pc' = "check"
        /\ UNCHANGED <<cfg, check, checkVars, report>>
    BY <1>8 DEF RivalReviewed, checkVars
  <2>4. \/ stopped' # {}
        \/ judged' = output' /\ ~OverBudget'
    BY <1>8, <2>3 DEF RivalReviewed, TakeRival, reviewVars
  <2>5. AtCheck'
    BY <2>2, <2>3, <2>4
  <2> QED
    BY <2>3, <2>5 DEF report
<1>9. ASSUME NEW o \in CheckOutcomes, CheckReturns(o)
      PROVE  LoopInv'
  <2>1. o[1] = "skipped" => ~cfg.goal
    BY DEF CheckOutcomes
  <2> QED
    BY <1>9, <2>1 DEF CheckReturns, RecordRound, leadVars, tokenVars,
       reviewVars, report
<1>10. CASE Seam
  <2>1. CASE SeamBudget \/ SeamCancel \/ SeamHalt \/ SeamGiveUp
    BY <2>1 DEF SeamBudget, SeamCancel, SeamHalt, SeamGiveUp, ToGate,
       SeamOpen, AfterBudget, AfterAccept, AfterCancel, AfterBlock, AfterHalt,
       checkVars, report
  <2>2. CASE SeamAccept \/ SeamBlock \/ SeamLast
    <3>1. pc = "seam" /\ ~OverBudget
      BY <2>2 DEF SeamAccept, SeamBlock, SeamLast, SeamOpen, AfterBudget,
         AfterAccept, AfterCancel, AfterBlock, AfterHalt, AfterProgress
    <3>2. ~Excessive(usage)
      BY <3>1, CeilingTested
    <3>3. pc' = "gate" /\ UNCHANGED <<cfg, stopped, leadVars, tokenVars,
                                     reviewVars, checkVars, report>>
      BY <2>2 DEF SeamAccept, SeamBlock, SeamLast, ToGate
    <3> QED
      BY <3>1, <3>2, <3>3 DEF leadVars, tokenVars, reviewVars, checkVars,
         report
  <2>3. CASE SeamRefine
    BY <2>3 DEF SeamRefine, SeamOpen, AfterBudget, AfterAccept, AfterCancel,
       AfterBlock, AfterHalt, AfterProgress, checkVars, report
  <2> QED
    BY <1>10, <2>1, <2>2, <2>3 DEF Seam
<1>11. ASSUME NEW high \in BOOLEAN, Gate(high)
      PROVE  LoopInv'
  <2>1. Selected' = Selected
    BY <1>11 DEF Gate, Selected, leadVars, reviewVars
  <2>2. final' = Selected'
    BY <1>11, <2>1 DEF Gate
  <2> QED
    BY <1>11, <2>2 DEF Gate, StoppedAtGate, Allowed, Blocked, Satisfied,
       GoalCheckFailed, NitsUnverified, IsBlocked, leadVars, tokenVars,
       reviewVars, checkVars, handles
<1>12. CASE Apply
  BY <1>12, DecisionStable DEF Apply, leadVars, tokenVars, reviewVars,
     checkVars, handles
<1> QED
  BY <1>1, <1>2, <1>3, <1>4, <1>5, <1>6, <1>7, <1>8, <1>9, <1>10, <1>11,
     <1>12 DEF Next, LoopStep, ModelReturns

(* LoopInv holds in every reachable state of a run. *)
LEMMA LoopInvariant == Spec => []LoopInv
<1>1. Init => LoopInv
  BY DEF Init, LoopInv, CallsUnstopped, StrategyPoints, CandidateOrder,
     AtCheck, AtSeam, FromGate, SkippedMeansNoGoal, GateDecided, AppliedLast,
     LoopCalls, TournamentCalls
<1> QED
  BY <1>1, InvNext, LoopTypeCorrect, PTL DEF Spec

(* In no run is a patch applied without consent, or over a Block that the  *)
(* conflict policy does not outrank.  The verdict and the check are those  *)
(* of the output in hand and let it pass, and what is applied is that      *)
(* output, or what this verdict suggested under a policy that asks for it. *)
THEOREM ApplyIsJustified == Spec => []AppliedIsJustified
<1>1. LoopTypeOK /\ LoopInv => AppliedIsJustified
  <2> SUFFICES ASSUME LoopTypeOK, LoopInv, applied PROVE AppliedIsJustified
    BY DEF AppliedIsJustified
  <2>1. ~Blocked(stopped) /\ (cfg.apply \/ consent)
    BY DEF LoopInv, GateDecided, AppliedLast
  <2>2. judged = output /\ checked = output
    BY <2>1 DEF LoopInv, FromGate, AppliedLast, VerdictCurrent, CheckCurrent,
       Blocked
  <2>3. cfg.goal => check = "pass"
    BY <2>1 DEF LoopInv, SkippedMeansNoGoal, Blocked, GoalCheckFailed
  <2>4. verdict = "nits" => cfg.nits /\ check = "pass"
    BY <2>1 DEF Blocked, NitsUnverified
  <2>5. cfg.policy \in Policies
    BY LoopAssumption DEF LoopTypeOK, ControlType, ConfigType
  <2>6. verdict = "block" => cfg.policy \in {"lead", "reviewer"}
    BY <2>1, <2>5 DEF Policies, Blocked, IsBlocked
  <2>7. /\ final \in {"lead", "merged"} => patch # NoPatch
        /\ final # "lead" => suggested /\ cfg.policy \in {"reviewer", "merge"}
        /\ final = "merged" => cfg.policy = "merge"
    BY DEF LoopInv, GateDecided, AppliedLast, Selected
  <2> QED
    BY <2>1, <2>2, <2>3, <2>4, <2>6, <2>7 DEF AppliedIsJustified
<1> QED
  BY <1>1, LoopInvariant, LoopTypeCorrect, PTL

(* A run that was stopped for budget, no progress, a crossfire halt or a   *)
(* cancel is reported blocked, unsatisfied and unapplied.                  *)
THEOREM StopsReject == Spec => []StoppedRunsAreRejected
<1>1. LoopInv => StoppedRunsAreRejected
  BY DEF LoopInv, GateDecided, AppliedLast, StoppedRunsAreRejected, Blocked,
     Satisfied
<1> QED
  BY <1>1, LoopInvariant, PTL

(* A run whose accumulated usage is over the ceiling applies nothing.      *)
THEOREM BudgetPreventsApply == Spec => []OverBudgetNeverApplied
<1>1. LoopTypeOK /\ LoopInv => OverBudgetNeverApplied
  BY DEF LoopInv, FromGate, GateDecided, AppliedLast,
     OverBudgetNeverApplied, Blocked
<1> QED
  BY <1>1, LoopInvariant, LoopTypeCorrect, PTL

(* A report that says the goal is satisfied belongs to a run whose patch   *)
(* the gate lets through, the manual policy aside.                         *)
THEOREM SatisfiedRunsPass == Spec => []SatisfiedIsApplicable
<1>1. LoopInv => SatisfiedIsApplicable
  BY DEF LoopInv, SkippedMeansNoGoal, GateDecided, SatisfiedIsApplicable,
     Blocked, Satisfied, GoalCheckFailed, NitsUnverified, IsBlocked
<1> QED
  BY <1>1, LoopInvariant, PTL

-----------------------------------------------------------------------------
(***************************************************************************)
(* The recorded rounds                                                     *)
(***************************************************************************)

(* The control points before the check of a round. *)
BeforeCheck == LoopCalls \cup TournamentCalls \cup {"check"}

(* A round after which the loop goes on. *)
Undecided(r) == ~Accepting(r.verdict, r.check) /\ r.verdict # "block"

(* A round is begun only after undecided ones. *)
BegunUndecided ==
    pc \in BeforeCheck => \A k \in 1 .. Len(rounds) : Undecided(rounds[k])

(* The seam decides on the round recorded last. *)
SeamReadsLast ==
    pc = "seam" =>
        /\ Len(rounds) > 0
        /\ rounds[Len(rounds)] = [patch |-> patch, verdict |-> verdict,
                                  check |-> check, ratio |-> ratio]

(* The variables of the no-progress guard, told from the first m rounds:   *)
(* the length of the run of stalled rounds they end with, the last patch   *)
(* and the best ratio.                                                     *)
Counted(m) ==
    /\ stalls <= m /\ stalls < cfg.stallMax
    /\ \A k \in Nat : k <= m => /\ m - stalls < k => StalledRound(k)
                                /\ k = m - stalls => ~StalledRound(k)
    /\ prevPatch = IF m = 0 THEN NoPatch ELSE rounds[m].patch
    /\ best # NoRatio => \E j \in 1 .. m : rounds[j].ratio = best
    /\ \A j \in 1 .. m : rounds[j].ratio # NoRatio
                            => best # NoRatio /\ rounds[j].ratio <= best

(* At every control point the guard has counted the rounds that passed the *)
(* seam.                                                                   *)
GuardCounts ==
    cfg.stallMax > 0 =>
        /\ pc \in LoopCalls => Counted(Len(rounds))
        /\ pc = "check" /\ cfg.strategy # "tournament" => Counted(Len(rounds))
        /\ pc = "seam" => Counted(Len(rounds) - 1)

(* The guard ends the loop, on a run of stalled rounds. *)
StalledStops ==
    "stalled" \in stopped =>
        NothingMoves /\ pc \in {"gate", "apply", "returned", "error"}

RoundsInv ==
    /\ NoRoundAfterDecision /\ BegunUndecided /\ SeamReadsLast
    /\ GuardCounts /\ StalledStops

(* A step that records nothing leaves what is told of the rounds. *)
LEMMA RoundsFrame ==
    ASSUME UNCHANGED <<cfg, rounds, stallVars>>
    PROVE  /\ \A k : StalledRound(k)' <=> StalledRound(k)
           /\ NothingMoves' <=> NothingMoves
           /\ NoRoundAfterDecision' <=> NoRoundAfterDecision
           /\ \A r : Undecided(r)' <=> Undecided(r)
           /\ \A m : Counted(m)' <=> Counted(m)
<1>1. ASSUME NEW k PROVE StalledRound(k)' <=> StalledRound(k)
  BY DEF StalledRound
<1>2. NothingMoves' <=> NothingMoves
  BY <1>1 DEF NothingMoves
<1>3. NoRoundAfterDecision' <=> NoRoundAfterDecision
  BY DEF NoRoundAfterDecision, Accepting
<1>4. ASSUME NEW r PROVE Undecided(r)' <=> Undecided(r)
  BY DEF Undecided, Accepting
<1>5. ASSUME NEW m PROVE Counted(m)' <=> Counted(m)
  BY <1>1 DEF Counted, stallVars
<1> QED
  BY <1>1, <1>2, <1>3, <1>4, <1>5

(* Such a step keeps the invariant, if it does not go back to the calls of *)
(* a round from the seam.                                                  *)
LEMMA RoundsQuiet ==
    ASSUME RoundsInv, StrategyPoints, UNCHANGED <<cfg, rounds, stallVars>>,
           pc' \in BeforeCheck => pc \in BeforeCheck,
           pc' \in LoopCalls => pc \in LoopCalls,
           pc' = "seam" => /\ pc = "seam"
                           /\ UNCHANGED <<patch, verdict, check, ratio>>,
           "stalled" \in stopped' =>
               /\ "stalled" \in stopped
               /\ pc' \in {"gate", "apply", "returned", "error"}
    PROVE  RoundsInv'
<1>1. NoRoundAfterDecision'
  BY RoundsFrame DEF RoundsInv
<1>2. BegunUndecided'
  BY RoundsFrame DEF RoundsInv, BegunUndecided
<1>3. SeamReadsLast'
  BY DEF RoundsInv, SeamReadsLast
<1>4. GuardCounts'
  <2> SUFFICES ASSUME cfg'.stallMax > 0
               PROVE  /\ pc' \in LoopCalls => Counted(Len(rounds))'
                      /\ pc' = "check" /\ cfg'.strategy # "tournament"
                            => Counted(Len(rounds))'
                      /\ pc' = "seam" => Counted(Len(rounds) - 1)'
    BY DEF GuardCounts
  <2>1. GuardCounts /\ cfg.stallMax > 0
    BY DEF RoundsInv
  <2>2. Counted(Len(rounds))' <=> Counted(Len(rounds))
    BY RoundsFrame DEF Counted, stallVars
  <2>3. Counted(Len(rounds) - 1)' <=> Counted(Len(rounds) - 1)
    BY RoundsFrame DEF Counted, stallVars
  <2>4. pc' = "check" /\ cfg'.strategy # "tournament" =>
           pc \in LoopCalls \/ pc = "check"
    BY DEF StrategyPoints, BeforeCheck
  <2> QED
    BY <2>1, <2>2, <2>3, <2>4 DEF GuardCounts
<1>5. StalledStops'
  BY RoundsFrame DEF RoundsInv, StalledStops
<1> QED
  BY <1>1, <1>2, <1>3, <1>4, <1>5 DEF RoundsInv

(* Recording a round does not change what the earlier ones were. *)
LEMMA StalledKept ==
    ASSUME NEW x, rounds \in Seq(RoundType), rounds' = Append(rounds, x),
           NEW k \in Nat, k <= Len(rounds)
    PROVE  StalledRound(k)' <=> StalledRound(k)
<1>1. CASE k > 1
  <2>1. rounds'[k] = rounds[k] /\ rounds'[k - 1] = rounds[k - 1]
    BY <1>1
  <2>2. \A j \in 1 .. k - 1 : rounds'[j] = rounds[j]
    BY <1>1
  <2> QED
    BY <2>1, <2>2 DEF StalledRound
<1>2. CASE ~(k > 1)
  BY <1>2 DEF StalledRound
<1> QED
  BY <1>1, <1>2

(* Every recorded ratio is a number. *)
LEMMA RatioIsNat ==
    ASSUME rounds \in Seq(RoundType)
    PROVE  \A j \in 1 .. Len(rounds) : rounds[j].ratio \in Nat
<1>1. \A r \in RoundType : r.ratio \in RatioType
  BY DEF RoundType
<1>2. RatioType \subseteq Nat
  BY DEF RatioType, NoRatio
<1>3. \A j \in 1 .. Len(rounds) : rounds[j] \in RoundType
  OBVIOUS
<1> QED
  BY <1>1, <1>2, <1>3

(* At the seam, what the guard counts is whether the last round stalled.   *)
LEMMA GuardReadsRounds ==
    ASSUME LoopTypeOK, SeamReadsLast, pc = "seam", cfg.stallMax > 0,
           Counted(Len(rounds) - 1)
    PROVE  CountsAsStall <=> StalledRound(Len(rounds))
<1> DEFINE n == Len(rounds)
<1>1. /\ n \in Nat /\ n > 0
      /\ rounds[n] = [patch |-> patch, verdict |-> verdict,
                      check |-> check, ratio |-> ratio]
  BY DEF SeamReadsLast, LoopTypeOK, CheckType
<1>2. /\ rounds[n].patch = patch /\ rounds[n].verdict = verdict
      /\ rounds[n].ratio = ratio
  BY <1>1
<1>3. /\ \A j \in 1 .. n : rounds[j].ratio \in Nat
      /\ best \in Nat /\ ratio \in Nat
  BY RatioIsNat
     DEF LoopTypeOK, CheckType, StallType, RatioType, NoRatio
<1>4. (ratio # NoRatio /\ best # NoRatio /\ ratio <= best)
        <=> (/\ ratio # NoRatio
             /\ \E j \in 1 .. n - 1 : /\ rounds[j].ratio # NoRatio
                                      /\ ratio <= rounds[j].ratio)
  <2>1. ASSUME best # NoRatio, ratio <= best
        PROVE  \E j \in 1 .. n - 1 : /\ rounds[j].ratio # NoRatio
                                      /\ ratio <= rounds[j].ratio
    BY <2>1 DEF Counted
  <2>2. ASSUME NEW j \in 1 .. n - 1, rounds[j].ratio # NoRatio,
               ratio <= rounds[j].ratio
        PROVE  best # NoRatio /\ ratio <= best
    <3>1. rounds[j].ratio <= best /\ best # NoRatio
      BY <2>2 DEF Counted
    <3> QED
      BY <1>1, <1>3, <2>2, <3>1
  <2> QED
    BY <2>1, <2>2
<1>5. CASE n = 1
  <2>1. prevPatch = NoPatch
    BY <1>5 DEF Counted
  <2> QED
    BY <1>5, <2>1 DEF CountsAsStall, Stalled, StalledRound
<1>6. CASE n > 1
  <2>1. prevPatch = rounds[n - 1].patch
    BY <1>1, <1>6 DEF Counted
  <2> QED
    BY <1>2, <1>4, <1>6, <2>1 DEF CountsAsStall, Stalled, StalledRound
<1>7. n = 1 \/ n > 1
  <2> HIDE DEF n
  <2> QED
    BY <1>1
<1> QED
  BY <1>5, <1>6, <1>7, Zenon

(* A check that ends records its round after undecided ones. *)
LEMMA CheckRecords ==
    ASSUME LoopTypeOK, LoopInv, RoundsInv,
           NEW o \in CheckOutcomes, CheckReturns(o)
    PROVE  RoundsInv'
<1> DEFINE r == [patch |-> patch, verdict |-> verdict,
                 check |-> o[1], ratio |-> o[2]]
           n == Len(rounds)
<1>1. /\ rounds \in Seq(RoundType) /\ rounds' = Append(rounds, r)
      /\ pc = "check" /\ pc' \in {"gate", "seam"}
      /\ UNCHANGED <<cfg, patch, verdict, stallVars, stopped>>
      /\ check' = o[1] /\ ratio' = o[2]
      /\ pc' = "seam" => cfg.strategy # "tournament"
  BY DEF CheckReturns, RecordRound, leadVars, reviewVars, LoopTypeOK, CheckType
<1>2. /\ n \in Nat /\ Len(rounds') = n + 1 /\ rounds'[n + 1] = r
      /\ \A k \in 1 .. n : rounds'[k] = rounds[k]
  BY <1>1
<1>3. NoRoundAfterDecision'
  <2>1. \A k \in 1 .. n : Undecided(rounds[k])
    BY <1>1 DEF RoundsInv, BegunUndecided, BeforeCheck
  <2>2. Len(rounds') - 1 = n
    BY <1>2
  <2> HIDE DEF n, r
  <2> QED
    BY <1>1, <1>2, <2>1, <2>2 DEF NoRoundAfterDecision, Undecided, Accepting
<1>4. BegunUndecided'
  BY <1>1 DEF BegunUndecided, BeforeCheck, LoopCalls, TournamentCalls
<1>5. SeamReadsLast'
  <2>1. r = [patch |-> patch', verdict |-> verdict',
             check |-> check', ratio |-> ratio']
    BY <1>1
  <2> HIDE DEF n, r
  <2> QED
    BY <1>2, <2>1 DEF SeamReadsLast
<1>6. GuardCounts'
  <2> SUFFICES ASSUME cfg'.stallMax > 0, pc' = "seam"
               PROVE  Counted(Len(rounds) - 1)'
    BY <1>1 DEF GuardCounts, LoopCalls
  <2>1. Counted(n)
    BY <1>1 DEF RoundsInv, GuardCounts
  <2>2. \A k \in Nat : k <= n => (StalledRound(k)' <=> StalledRound(k))
    BY <1>1, StalledKept
  <2>3. stalls \in Nat
    BY DEF LoopTypeOK, StallType
  <2>4. n > 0 => rounds'[n] = rounds[n]
    BY <1>2
  <2>5. Len(rounds') - 1 = n /\ n \in Nat
    BY <1>2
  <2> HIDE DEF r, n
  <2> QED
    BY <1>1, <1>2, <2>1, <2>2, <2>3, <2>4, <2>5 DEF Counted, stallVars
<1>7. StalledStops'
  <2>1. "stalled" \notin stopped
    BY <1>1 DEF RoundsInv, StalledStops
  <2> QED
    BY <1>1, <2>1 DEF StalledStops
<1> QED
  BY <1>3, <1>4, <1>5, <1>6, <1>7 DEF RoundsInv

(* A refinement follows an undecided round, which the guard has counted. *)
LEMMA RefineCounts ==
    ASSUME LoopTypeOK, LoopInv, RoundsInv, SeamRefine PROVE RoundsInv'
<1> DEFINE n == Len(rounds)
<1>1. /\ pc = "seam" /\ pc' = "lead" /\ Remember
      /\ UNCHANGED <<cfg, rounds, stopped>>
      /\ ~Accepting(verdict, check) /\ verdict # "block" /\ ~GivesUp
  BY DEF SeamRefine, AfterProgress, AfterHalt, AfterBlock, AfterCancel,
     AfterAccept, AfterBudget, SeamOpen, checkVars
<1>2. /\ rounds \in Seq(RoundType) /\ n \in Nat /\ n > 0
      /\ rounds[n] = [patch |-> patch, verdict |-> verdict,
                      check |-> check, ratio |-> ratio]
  BY <1>1 DEF RoundsInv, SeamReadsLast, LoopTypeOK, CheckType
<1>3. /\ rounds[n].patch = patch /\ rounds[n].ratio = ratio
      /\ rounds[n].verdict = verdict /\ rounds[n].check = check
  BY <1>2
<1>4. NoRoundAfterDecision' /\ SeamReadsLast'
  BY <1>1 DEF RoundsInv, NoRoundAfterDecision, Accepting, SeamReadsLast
<1>5. BegunUndecided'
  <2>1. \A k \in 1 .. n - 1 : Undecided(rounds[k])
    BY DEF RoundsInv, NoRoundAfterDecision, Undecided
  <2>2. Undecided(rounds[n])
    BY <1>1, <1>3 DEF Undecided
  <2>3. \A k \in 1 .. n : k = n \/ k \in 1 .. n - 1
    BY <1>2
  <2>4. \A k \in 1 .. n : Undecided(rounds[k])
    BY <2>1, <2>2, <2>3
  <2> QED
    BY <1>1, <2>4 DEF BegunUndecided, Undecided, Accepting
<1>6. GuardCounts'
  <2> SUFFICES ASSUME cfg.stallMax > 0 PROVE Counted(Len(rounds))'
    BY <1>1 DEF GuardCounts
  <2>1. Counted(n - 1)
    BY <1>1 DEF RoundsInv, GuardCounts
  <2>2. CountsAsStall <=> StalledRound(n)
    BY <1>1, <2>1, GuardReadsRounds DEF RoundsInv
  <2>3. \A k : StalledRound(k)' <=> StalledRound(k)
    BY <1>1 DEF StalledRound
  <2>4. /\ stalls \in Nat /\ cfg.stallMax \in Nat
        /\ best \in Nat /\ ratio \in Nat
    BY ConfigFields DEF LoopTypeOK, StallType, ControlType, CheckType,
       RatioType, NoRatio
  <2>5. /\ CountsAsStall => stalls' = stalls + 1 /\ stalls + 1 < cfg.stallMax
        /\ ~CountsAsStall => stalls' = 0
    BY <1>1, <2>4 DEF Remember, StallCount, GivesUp
  <2>6. /\ stalls' <= n /\ stalls' < cfg'.stallMax
        /\ \A k \in Nat : k <= n => /\ n - stalls' < k => StalledRound(k)'
                                    /\ k = n - stalls' => ~StalledRound(k)'
    <3> HIDE DEF n
    <3>1. CASE CountsAsStall
      <4>1. stalls' = stalls + 1 /\ stalls + 1 < cfg.stallMax /\ StalledRound(n)
        BY <2>2, <2>5, <3>1
      <4>2. /\ stalls <= n - 1
            /\ \A k \in Nat :
                  k <= n - 1 => /\ n - 1 - stalls < k => StalledRound(k)
                                /\ k = n - 1 - stalls => ~StalledRound(k)
        BY <2>1 DEF Counted
      <4>3. n - stalls' = n - 1 - stalls
        BY <1>2, <2>4, <4>1
      <4> QED
        BY <1>1, <1>2, <2>3, <2>4, <4>1, <4>2, <4>3
    <3>2. CASE ~CountsAsStall
      <4>1. stalls' = 0 /\ ~StalledRound(n)
        BY <2>2, <2>5, <3>2
      <4> QED
        BY <1>1, <1>2, <2>3, <2>4, <4>1
    <3> QED
      BY <3>1, <3>2
  <2>7. prevPatch' = IF n = 0 THEN NoPatch ELSE rounds'[n].patch
    BY <1>1, <1>2, <1>3 DEF Remember
  <2>8. /\ best' = IF ratio = NoRatio THEN best
                   ELSE IF best = NoRatio \/ ratio > best THEN ratio ELSE best
        /\ best # NoRatio => \E j \in 1 .. n - 1 : rounds[j].ratio = best
        /\ \A j \in 1 .. n - 1 : rounds[j].ratio # NoRatio
                                    => best # NoRatio /\ rounds[j].ratio <= best
    BY <1>1, <2>1 DEF Remember, Counted
  <2>9. \A j \in 1 .. n : rounds[j].ratio \in Nat
    BY <1>2, RatioIsNat
  <2>10. /\ best' # NoRatio => \E j \in 1 .. n : rounds'[j].ratio = best'
         /\ \A j \in 1 .. n : rounds'[j].ratio # NoRatio
                                 => best' # NoRatio /\ rounds'[j].ratio <= best'
    <3> HIDE DEF n
    <3>1. \A j \in 1 .. n : j = n \/ j \in 1 .. n - 1
      BY <1>2
    <3>2. n \in 1 .. n /\ \A j \in 1 .. n - 1 : j \in 1 .. n
      BY <1>2
    <3> QED
      BY <1>1, <1>3, <2>4, <2>8, <2>9, <3>1, <3>2
  <2>11. Len(rounds') = n
    BY <1>1
  <2> HIDE DEF n
  <2> QED
    BY <2>6, <2>7, <2>10, <2>11 DEF Counted
<1>7. StalledStops'
  BY <1>1 DEF StalledStops, LoopInv, AtSeam
<1> QED
  BY <1>4, <1>5, <1>6, <1>7 DEF RoundsInv

(* The guard trips on a run of no_progress_max stalled rounds. *)
LEMMA GuardTrips ==
    ASSUME LoopTypeOK, LoopInv, RoundsInv, SeamGiveUp PROVE RoundsInv'
<1> DEFINE n == Len(rounds)
<1>1. /\ pc = "seam" /\ pc' = "gate" /\ UNCHANGED <<cfg, rounds>>
      /\ CountsAsStall /\ stalls + 1 >= cfg.stallMax /\ cfg.stallMax > 0
  BY DEF SeamGiveUp, AfterHalt, AfterBlock, AfterCancel, AfterAccept,
     AfterBudget, SeamOpen, ToGate, checkVars, GivesUp, StallCount,
     CountsAsStall
<1>2. n \in Nat /\ n > 0 /\ stalls \in Nat /\ cfg.stallMax \in Nat
  BY <1>1, ConfigFields DEF RoundsInv, SeamReadsLast, LoopTypeOK, CheckType,
     StallType, ControlType
<1>3. Counted(n - 1)
  BY <1>1 DEF RoundsInv, GuardCounts
<1>4. StalledRound(n)
  BY <1>1, <1>3, GuardReadsRounds DEF RoundsInv
<1>5. NothingMoves
  <2>1. /\ stalls <= n - 1
        /\ \A k \in Nat : n - 1 - stalls < k /\ k <= n - 1 => StalledRound(k)
    BY <1>3 DEF Counted
  <2>2. n >= cfg.stallMax
    BY <1>1, <1>2, <2>1
  <2>3. ASSUME NEW k \in n - cfg.stallMax + 1 .. n PROVE StalledRound(k)
    <3> HIDE DEF n
    <3>1. k \in Nat /\ (k = n \/ (n - 1 - stalls < k /\ k <= n - 1))
      BY <1>1, <1>2, <2>2
    <3> QED
      BY <1>4, <2>1, <3>1
  <2> QED
    BY <2>2, <2>3 DEF NothingMoves
<1>6. NothingMoves'
  BY <1>1, <1>5 DEF NothingMoves, StalledRound
<1>7. NoRoundAfterDecision'
  BY <1>1 DEF RoundsInv, NoRoundAfterDecision, Accepting
<1> QED
  BY <1>1, <1>6, <1>7 DEF RoundsInv, BegunUndecided, BeforeCheck, LoopCalls,
     TournamentCalls, SeamReadsLast, GuardCounts, StalledStops

(* Every step of a run keeps RoundsInv. *)
LEMMA RoundsNext ==
    ASSUME LoopTypeOK, LoopInv, RoundsInv, [Next]_vars PROVE RoundsInv'
<1>a. /\ StrategyPoints /\ StalledStops
      /\ pc \in BeforeCheck \cup {"seam"} /\ pc # "check" => stopped = {}
  BY DEF LoopInv, RoundsInv, CallsUnstopped, AtSeam, BeforeCheck
<1>b. pc \in BeforeCheck => "stalled" \notin stopped
  BY <1>a DEF StalledStops, BeforeCheck, LoopCalls, TournamentCalls
<1> USE DEF BeforeCheck, LoopCalls, TournamentCalls
<1>1. CASE UNCHANGED vars
  BY <1>1, <1>a, RoundsQuiet DEF vars, leadVars, reviewVars, checkVars,
     StalledStops
<1>2. CASE CallFails \/ MergeFails \/ ApplyFails
  BY <1>2, <1>a, RoundsQuiet DEF CallFails, MergeFails, ApplyFails, checkVars
<1>3. CASE Grant \/ Cancel
  BY <1>3, <1>a, RoundsQuiet DEF Grant, Cancel, leadVars, reviewVars,
     checkVars, StalledStops
<1>4. ASSUME NEW v \in Reviews, NEW c \in Costs, Crossfire(v, c)
      PROVE  RoundsInv'
  BY <1>4, <1>a, <1>b, RoundsQuiet DEF Crossfire, checkVars
<1>5. ASSUME NEW s \in Patches, NEW c \in Costs, LeadReturns(s, c)
      PROVE  RoundsInv'
  BY <1>5, <1>a, <1>b, RoundsQuiet DEF LeadReturns, checkVars
<1>6. ASSUME NEW s \in Patches, NEW r \in Patches, NEW c \in Costs,
             BothReturn(s, r, c)
      PROVE  RoundsInv'
  BY <1>6, <1>a, <1>b, RoundsQuiet DEF BothReturn, checkVars
<1>7. ASSUME NEW v \in Reviews, NEW sug \in Suggestions, NEW c \in Costs,
             ReviewReturns(v, sug, c) \/ LeadReviewed(v, sug, c)
      PROVE  RoundsInv'
  BY <1>7, <1>a, <1>b, RoundsQuiet DEF ReviewReturns, LeadReviewed, checkVars
<1>8. ASSUME NEW v \in Reviews, NEW sug \in Suggestions, NEW c \in Costs,
             RivalReviewed(v, sug, c)
      PROVE  RoundsInv'
  BY <1>8, <1>a, <1>b, RoundsQuiet DEF RivalReviewed, checkVars
<1>9. ASSUME NEW o \in CheckOutcomes, CheckReturns(o)
      PROVE  RoundsInv'
  BY <1>9, CheckRecords
<1>10. CASE Seam
  <2>1. CASE SeamBudget \/ SeamAccept \/ SeamCancel \/ SeamBlock \/ SeamHalt
    <3>1. /\ pc = "seam" /\ pc' = "gate" /\ "stalled" \notin stopped'
          /\ UNCHANGED <<cfg, rounds, stallVars>>
      BY <2>1, <1>a DEF SeamBudget, SeamAccept, SeamCancel, SeamBlock,
         SeamHalt, ToGate, SeamOpen, AfterBudget, AfterAccept, AfterCancel,
         AfterBlock, checkVars
    <3> QED
      BY <1>a, <3>1, RoundsQuiet
  <2>2. CASE SeamGiveUp
    BY <2>2, GuardTrips
  <2>3. CASE SeamLast
    <3>1. /\ pc = "seam" /\ pc' = "gate" /\ "stalled" \notin stopped'
          /\ UNCHANGED <<cfg, rounds>>
      BY <2>3, <1>a DEF SeamLast, ToGate, SeamOpen, AfterBudget, AfterAccept,
         AfterCancel, AfterBlock, AfterHalt, AfterProgress, checkVars
    <3> QED
      BY <3>1 DEF RoundsInv, NoRoundAfterDecision, Accepting, BegunUndecided,
         SeamReadsLast, GuardCounts, StalledStops
  <2>4. CASE SeamRefine
    BY <2>4, RefineCounts
  <2> QED
    BY <1>10, <2>1, <2>2, <2>3, <2>4 DEF Seam
<1>11. ASSUME NEW high \in BOOLEAN, Gate(high)
      PROVE  RoundsInv'
  BY <1>11, <1>a, RoundsQuiet DEF Gate, StoppedAtGate, checkVars, StalledStops
<1>12. CASE Apply
  BY <1>12, <1>a, RoundsQuiet DEF Apply, checkVars, StalledStops
<1> QED
  BY <1>1, <1>2, <1>3, <1>4, <1>5, <1>6, <1>7, <1>8, <1>9, <1>10, <1>11,
     <1>12 DEF Next, LoopStep, ModelReturns

(* In every run, of any number of rounds and with any stall limit, a round *)
(* follows only undecided ones, and the no-progress guard trips exactly    *)
(* when the last no_progress_max recorded rounds were all stalled.         *)
THEOREM RoundsFollowOrder == Spec => []RoundsInOrder
<1>1. ASSUME Init PROVE RoundsInv
  <2>1. rounds = <<>> /\ Len(rounds) = 0 /\ stopped = {} /\ stalls = 0
        /\ prevPatch = NoPatch /\ best = NoRatio /\ cfg \in Configs
        /\ pc \in {"both", "lead"}
    BY <1>1 DEF Init
  <2>2. cfg.stallMax > 0 => Counted(Len(rounds))
    BY <2>1, ConfigFields DEF Counted, StalledRound
  <2> QED
    BY <2>1, <2>2 DEF RoundsInv, NoRoundAfterDecision, BegunUndecided,
       SeamReadsLast, GuardCounts, StalledStops
<1>2. LoopTypeOK /\ LoopInv /\ RoundsInv /\ [Next]_vars => RoundsInv'
  BY RoundsNext
<1>3. ASSUME LoopTypeOK, RoundsInv PROVE RoundsInOrder
  <2>1. ASSUME cfg.stallMax > 0, pc = "lead" PROVE ~NothingMoves
    <3> DEFINE n == Len(rounds)
               k == n - stalls
    <3>1. Counted(n)
      BY <1>3, <2>1 DEF RoundsInv, GuardCounts, LoopCalls
    <3>2. n \in Nat /\ stalls \in Nat /\ cfg.stallMax \in Nat
      BY <1>3, ConfigFields DEF LoopTypeOK, CheckType, StallType, ControlType
    <3>3. stalls <= n /\ stalls < cfg.stallMax
      BY <3>1 DEF Counted
    <3>4. k \in Nat /\ k <= n /\ k = n - stalls
      BY <3>2, <3>3
    <3>5. ~StalledRound(k)
      BY <3>1, <3>4 DEF Counted
    <3>6. k \in n - cfg.stallMax + 1 .. n
      BY <3>2, <3>3
    <3> QED
      BY <3>5, <3>6 DEF NothingMoves
  <2> QED
    BY <1>3, <2>1 DEF RoundsInv, StalledStops, RoundsInOrder, GuardIsExact
<1>4. LoopTypeOK /\ RoundsInv => RoundsInOrder
  BY <1>3
<1> QED
  BY <1>1, <1>2, <1>4, LoopTypeCorrect, LoopInvariant, PTL DEF Spec

=============================================================================
