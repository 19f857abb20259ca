------------------------------ MODULE PlanMode ------------------------------
(***************************************************************************)
(* Plan mode and the dispatch of a plan (nerve-core plan.rs, the plan      *)
(* store, dispatch_plan_steps of nerve-cli).                               *)
(*                                                                         *)
(* A reply of the lead is a sequence of lines, each of them known only by  *)
(* what the parsers see of it; a section, and the detail of a step, is a   *)
(* sequence of line numbers.  Dispatchers hand the steps of a saved plan   *)
(* to the queue one by one, any of them may be killed between two writes,  *)
(* and patrols take what is pending at any time, end it, or are killed and *)
(* lose it to the sweep of the mayor.  The queue itself is PatrolQueue;    *)
(* here a step is in pending/, in claimed/, or over: in done/ or failed/,  *)
(* with its result written.                                                *)
(***************************************************************************)
EXTENDS Naturals, Sequences, FiniteSets, SequencesExt

CONSTANTS
    Plans,         \* plan ids
    IdLength,      \* the length of each, in bytes
    Dispatchers,   \* processes that run nv dispatch-plan
    Drafts,        \* what a reply may begin with
    MaxLines,      \* bound: lines of a reply
    MaxSteps,      \* bound: the largest --max-steps
    MaxPlanKills   \* bound: dispatchers and patrols killed

Headings == {"Objective", "Affected files", "Steps", "Risks"}
Heading(label) == [kind |-> "h2", label |-> label]
(* A list item: how deep it is, and whether it is also a "- path" bullet.  *)
Item(indent, path) == [kind |-> "item", indent |-> indent, path |-> path]
Text == [kind |-> "text"]
Blank == [kind |-> "blank"]
Artifact == [kind |-> "artifact"]
Lines == {Heading(h) : h \in Headings} \cup {Text, Blank, Artifact}
           \cup {Item(n, b) : n \in 0 .. 2, b \in BOOLEAN}

ASSUME PlanAssumption ==
    /\ IdLength \in [Plans -> 1 .. 128]
    /\ Drafts \subseteq Seq(Lines)
    /\ MaxLines \in Nat /\ MaxSteps \in Nat /\ MaxPlanKills \in Nat

VARIABLES
    planText,       \* the reply the lead is writing
    saved,       \* .nerve/plans: the number of steps of each plan, 0 if none
    pendingStep, \* steps in the pending directory, as <<plan, step>>
    claimedStep, \* steps in a directory of claimed/
    endedStep,   \* steps that are over
    dispatcher,  \* what each dispatcher is doing
    rewritten,   \* history: steps that were enqueued more than once
    overlapped,  \* history: plans two dispatchers had in hand at once
    slipped,     \* history: steps that left claimed/ while a dispatcher
                 \*   was between its two looks for them
    planKills

queueVars == <<pendingStep, claimedStep, endedStep, rewritten, slipped>>
planVars == <<planText, saved, queueVars, dispatcher, overlapped, planKills>>

NoPlan == "none"
IdleDispatcher == [pc |-> "idle", plan |-> NoPlan, n |-> 0, i |-> 0]

(* Steps that were enqueued: nothing leaves the queue. *)
Queued == pendingStep \cup claimedStep \cup endedStep

-----------------------------------------------------------------------------
(* Reading a reply.  Section bodies are sequences of line numbers of md.   *)

line_is_h2(line) == line.kind = "h2"
is_blank(line) == line.kind = "blank"

(* NONE is the empty set, a body the set of that one sequence.             *)
extract_section(md, heading) ==
    LET At(n) == line_is_h2(md[n]) /\ md[n].label = heading
        start == {n \in DOMAIN md : At(n) /\ \A m \in 1 .. n - 1 : ~At(m)}
        Body(n) == {m \in DOMAIN md :
                       m > n /\ \A k \in n + 1 .. m : ~line_is_h2(md[k])}
    IN  {[k \in 1 .. Cardinality(Body(n)) |-> n + k] : n \in start}

has_text(md, heading) ==
    \E body \in extract_section(md, heading) :
        \E k \in DOMAIN body : ~is_blank(md[body[k]])

(* parse_bullet_paths: "- path" and "* path" lines, at any indentation.    *)
parse_bullet_paths(md, body) ==
    SelectSeq(body, LAMBDA n : md[n].kind = "item" /\ md[n].path)

validate_plan_markdown(md) ==
    /\ has_text(md, "Objective")
    /\ has_text(md, "Steps")
    /\ \E body \in extract_section(md, "Affected files") :
           parse_bullet_paths(md, body) # <<>>

contains_patch_artifact(md) == \E n \in DOMAIN md : md[n].kind = "artifact"

strip_list_marker(line) == line.kind = "item"

(* One line more: an item at the indentation of the first item, or less,   *)
(* opens a step; whatever else is not blank goes to the open one.          *)
ScanLine(md, s, n) ==
    IF strip_list_marker(md[n]) /\ (s.steps = <<>> \/ md[n].indent <= s.base)
    THEN [base |-> IF s.steps = <<>> THEN md[n].indent ELSE s.base,
          steps |-> Append(s.steps, <<n>>)]
    ELSE IF s.steps = <<>> \/ is_blank(md[n]) THEN s
    ELSE [s EXCEPT !.steps[Len(s.steps)] = Append(@, n)]

(* One pass over the body. *)
parse_plan_steps(md, body) ==
    LET scan[k \in 0 .. Len(body)] ==
            IF k = 0 THEN [base |-> 0, steps |-> <<>>]
            ELSE ScanLine(md, scan[k - 1], body[k])
    IN  scan[Len(body)].steps

parse_plan_steps_from_markdown(md) ==
    IF extract_section(md, "Steps") = {} THEN <<>>
    ELSE parse_plan_steps(md, CHOOSE b \in extract_section(md, "Steps") : TRUE)

(* run_plan_mode: the reply is accepted, and so is the review when the     *)
(* flag or the profile asks for one.                                       *)
run_plan_mode(md, dual, review) ==
    /\ \E n \in DOMAIN md : ~is_blank(md[n])
    /\ ~contains_patch_artifact(md)
    /\ validate_plan_markdown(md)
    /\ dual => ~contains_patch_artifact(review)

-----------------------------------------------------------------------------
(* Actions.                                                                *)

PlanInit ==
    /\ planText \in Drafts
    /\ saved = [p \in Plans |-> 0]
    /\ pendingStep = {} /\ claimedStep = {} /\ endedStep = {}
    /\ rewritten = {} /\ slipped = {}
    /\ dispatcher = [d \in Dispatchers |-> IdleDispatcher]
    /\ overlapped = {} /\ planKills = 0

(* The lead writes a line. *)
AddLine ==
    /\ Len(planText) < MaxLines
    /\ \E line \in Lines : planText' = Append(planText, line)
    /\ UNCHANGED <<saved, queueVars, dispatcher, overlapped, planKills>>

(* nv plan: the accepted reply is saved, best effort, under a fresh id.  A *)
(* plan without list items is saved too, and can never be dispatched.      *)
MakePlan(p) ==
    /\ saved[p] = 0 /\ Len(planText) > 0
    /\ {how \in BOOLEAN \X {<<Text>>, <<Artifact>>} :
           run_plan_mode(planText, how[1], how[2])} # {}
    /\ saved' = [saved EXCEPT ![p] = Len(parse_plan_steps_from_markdown(planText))]
    /\ UNCHANGED <<planText, queueVars, dispatcher, overlapped, planKills>>

(* The id of a step is the plan's, "-step-" and two digits or more.        *)
is_valid_queue_id(p, k) == IdLength[p] + 6 + (IF k < 100 THEN 2 ELSE 3) <= 128

Dispatching == {"check", "walk", "write"}
StepOf(s) == <<s.plan, s.i>>

(* dispatch_plan_steps up to the first enqueue; limit is --max-steps.  A   *)
(* dispatch without a step, or with an id the queue refuses, ends here.    *)
StartDispatch(d, p, limit) ==
    LET n == IF limit < saved[p] THEN limit ELSE saved[p]
    IN  /\ dispatcher[d].pc \notin Dispatching
        /\ dispatcher' = [dispatcher EXCEPT ![d] =
               IF n > 0 /\ \A k \in 1 .. n : is_valid_queue_id(p, k)
               THEN [pc |-> "check", plan |-> p, n |-> n, i |-> 1]
               ELSE IdleDispatcher]
        /\ overlapped' = IF \E e \in Dispatchers \ {d} :
                                /\ dispatcher[e].pc \in Dispatching
                                /\ dispatcher[e].plan = p
                         THEN overlapped \cup {p} ELSE overlapped
        /\ UNCHANGED <<planText, saved, queueVars, planKills>>

(* Mayor::enqueue: the budget against the total ceiling (all steps of a    *)
(* dispatch have the same, so the first is refused or none), then the      *)
(* first look of task_exists_anywhere for the task, in pending/, done/,    *)
(* failed/ and results/.  An error ends the dispatch.                      *)
CheckStep(d, fits) ==
    LET s == dispatcher[d]
    IN  /\ s.pc = "check"
        /\ fits \/ s.i = 1
        /\ dispatcher' = [dispatcher EXCEPT ![d] =
               IF ~fits \/ StepOf(s) \in pendingStep \cup endedStep
               THEN IdleDispatcher
               ELSE [s EXCEPT !.pc = "walk"]]
        /\ UNCHANGED <<planText, saved, queueVars, overlapped, planKills>>

(* ... then the walk through the directories of claimed/ ... *)
WalkClaimed(d) ==
    LET s == dispatcher[d]
    IN  /\ s.pc = "walk"
        /\ dispatcher' = [dispatcher EXCEPT ![d] =
               IF StepOf(s) \in claimedStep THEN IdleDispatcher
               ELSE [s EXCEPT !.pc = "write"]]
        /\ UNCHANGED <<planText, saved, queueVars, overlapped, planKills>>

(* Mutation: the count is compared one step too early. *)
WriteStep_LastLost(d) ==
    LET s == dispatcher[d]
        t == StepOf(s)
    IN  /\ s.pc = "write"
        /\ pendingStep' = pendingStep \cup {t}
        /\ rewritten' = rewritten \cup (Queued \cap {t})
        /\ dispatcher' = [dispatcher EXCEPT ![d] =
               IF s.i + 1 >= s.n THEN [s EXCEPT !.pc = "acked"]
               ELSE [s EXCEPT !.pc = "check", !.i = s.i + 1]]
        /\ UNCHANGED <<planText, saved, claimedStep, endedStep, slipped,
                       overlapped, planKills>>

(* ... and the write of the pending file, which replaces one of that name. *)
WriteStep(d) ==
    LET s == dispatcher[d]
        t == StepOf(s)
    IN  /\ s.pc = "write"
        /\ pendingStep' = pendingStep \cup {t}
        /\ rewritten' = rewritten \cup (Queued \cap {t})
        /\ dispatcher' = [dispatcher EXCEPT ![d] =
               IF s.i = s.n THEN [s EXCEPT !.pc = "acked"]
               ELSE [s EXCEPT !.pc = "check", !.i = s.i + 1]]
        /\ UNCHANGED <<planText, saved, claimedStep, endedStep, slipped,
                       overlapped, planKills>>

(* The process ends; its answer has been read. *)
EndDispatch(d) ==
    /\ dispatcher[d].pc = "acked"
    /\ dispatcher' = [dispatcher EXCEPT ![d] = IdleDispatcher]
    /\ UNCHANGED <<planText, saved, queueVars, overlapped, planKills>>

KillDispatch(d) ==
    /\ dispatcher[d].pc \in Dispatching
    /\ planKills < MaxPlanKills
    /\ planKills' = planKills + 1
    /\ dispatcher' = [dispatcher EXCEPT ![d] = IdleDispatcher]
    /\ UNCHANGED <<planText, saved, queueVars, overlapped>>

-----------------------------------------------------------------------------
(* The patrols, as far as the dispatchers see them.                        *)

(* A patrol claims a pending step and works on it. *)
PatrolTakes(t) ==
    /\ t \in pendingStep
    /\ pendingStep' = pendingStep \ {t}
    /\ claimedStep' = claimedStep \cup {t}
    /\ UNCHANGED <<planText, saved, endedStep, rewritten, slipped, dispatcher,
                   overlapped, planKills>>

(* t leaves claimed/; a dispatcher that is between its looks misses it.    *)
LeavesClaimed(t) ==
    /\ t \in claimedStep
    /\ claimedStep' = claimedStep \ {t}
    /\ slipped' = slipped \cup
           {u \in {t} : \E d \in Dispatchers :
               dispatcher[d].pc = "walk" /\ StepOf(dispatcher[d]) = u}

(* Its work is over. *)
PatrolEnds(t) ==
    /\ LeavesClaimed(t)
    /\ endedStep' = endedStep \cup {t}
    /\ UNCHANGED <<planText, saved, pendingStep, rewritten, dispatcher,
                   overlapped, planKills>>

(* It is killed, and the mayor puts its task back into pending/. *)
SweepGivesBack(t) ==
    /\ planKills < MaxPlanKills
    /\ planKills' = planKills + 1
    /\ LeavesClaimed(t)
    /\ pendingStep' = pendingStep \cup {t}
    /\ UNCHANGED <<planText, saved, endedStep, rewritten, dispatcher, overlapped>>

DispatchNext ==
    \/ \E p \in Plans : MakePlan(p)
    \/ \E d \in Dispatchers :
           \/ \E p \in Plans, limit \in 0 .. MaxSteps : StartDispatch(d, p, limit)
           \/ \E fits \in BOOLEAN : CheckStep(d, fits)
           \/ WalkClaimed(d) \/ WriteStep(d)
           \/ EndDispatch(d) \/ KillDispatch(d)
    \/ \E t \in pendingStep : PatrolTakes(t)
    \/ \E t \in claimedStep : PatrolEnds(t) \/ SweepGivesBack(t)

PlanNext == AddLine \/ DispatchNext
PlanSpec == PlanInit /\ [][PlanNext]_planVars

-----------------------------------------------------------------------------
(* Properties.                                                             *)

(* The steps read from a reply share its Steps section out: every line     *)
(* from the first list item on that is not blank is in a step, nothing     *)
(* else is, and the lines of the steps one after the other are in the      *)
(* order they were written, so that none is there twice (plan.rs:116-164,  *)
(* 435-460).                                                               *)
StepsPartition ==
    LET steps == parse_plan_steps_from_markdown(planText)
        body == UNION {ToSet(b) : b \in extract_section(planText, "Steps")}
        work == {n \in body : /\ ~is_blank(planText[n])
                              /\ \E m \in body : m <= n /\ strip_list_marker(planText[m])}
    IN  /\ UNION {ToSet(steps[k]) : k \in DOMAIN steps} = work
        /\ \A k, l \in DOMAIN steps :
              \A i \in DOMAIN steps[k], j \in DOMAIN steps[l] :
                 k < l \/ (k = l /\ i < j) => steps[k][i] < steps[l][j]

(* Sub-items do not become steps of their own: within a step no list item  *)
(* but the first is as shallow as the first item of the section            *)
(* (plan.rs:132-139).                                                      *)
SubItemsStayInside ==
    LET steps == parse_plan_steps_from_markdown(planText)
    IN  \A k \in DOMAIN steps : \A j \in 2 .. Len(steps[k]) :
            strip_list_marker(planText[steps[k][j]])
                => planText[steps[k][j]].indent > planText[steps[1][1]].indent

(* What the queue has of a plan is always a beginning of it, whatever      *)
(* dispatchers overlap or die: no step is queued before the ones it        *)
(* follows (main.rs:1462-1474, mayor_patrol.rs:263-283).                   *)
DispatchedPrefix ==
    \A p \in Plans :
        LET known == {k \in 1 .. saved[p] : <<p, k>> \in Queued}
        IN  known = 1 .. Cardinality(known)

(* An acknowledged dispatch has put every step it counts into the queue    *)
(* (main.rs:1462-1474, 1488-1500).                                         *)
AckedIsQueued ==
    \A d \in Dispatchers : dispatcher[d].pc = "acked" =>
        \A k \in 1 .. dispatcher[d].n :
            <<dispatcher[d].plan, k>> \in Queued

(* What enqueue cannot see: it takes no lock, so another dispatcher may    *)
(* write the step after the looks of this one, and a step that leaves      *)
(* claimed/ between the two looks, done or given back, is missed by both   *)
(* (mayor_patrol.rs:276-280, 810-828).                                     *)
Unseen(t) == t[1] \in overlapped \/ t \in slipped

(* Dispatching a plan again, after a complete dispatch or a killed one and *)
(* while patrols work on its steps, queues no step twice: none is written  *)
(* again, and none is in two places, but for the two cases enqueue cannot  *)
(* see.                                                                    *)
NoStepQueuedTwice ==
    /\ \A t \in rewritten : Unseen(t)
    /\ \A t \in (pendingStep \cap claimedStep) \cup (pendingStep \cap endedStep)
                    \cup (claimedStep \cap endedStep) : Unseen(t)

(* A plan is read as it was written, and handed over in order and, but for *)
(* what enqueue cannot see, once: its steps are the lines of its Steps     *)
(* section and nothing of another, and what reaches the queue is a         *)
(* beginning of it (plan.rs:116-164, 435-460; main.rs:1384-1475,           *)
(* mayor_patrol.rs:263-283).                                               *)
PlanHandedOver ==
    /\ StepsPartition /\ SubItemsStayInside
    /\ DispatchedPrefix
    /\ AckedIsQueued
    /\ NoStepQueuedTwice
=============================================================================
