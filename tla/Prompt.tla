------------------------------- MODULE Prompt -------------------------------
(***************************************************************************)
(* The interactive prompt (nerve-cli main.rs, the line and the terminal    *)
(* workspace): what its commands keep in memory and what they write under  *)
(* .nerve of the workspace they are given in.  Several prompts may be open *)
(* in the same workspace, each of them changes workspace with /cd, and any *)
(* of them may be killed; nothing in memory survives, the files do.        *)
(*                                                                         *)
(* A session is its number in the order of creation.  Commands that only   *)
(* print (/help, /status, /history, /list, /resume, /diff, /goal show,     *)
(* /mayor, /patrol, a shell escape) change nothing and are left out, and   *)
(* so are /budget (BudgetArgs, BudgetAudit), /mcp (McpPolicy, McpClient), the adapter  *)
(* chosen by /adapter and the counters of the status bar.                  *)
(***************************************************************************)
EXTENDS GoalIntent, BudgetArgs

CONSTANTS
    Consoles,      \* prompts that may be open
    Workspaces,    \* directories they work in
    Proposed,      \* proposals an adapter may make for a prose goal
    Found,         \* goal specifications a repository may bring along
    NoGoal,
    MaxSessions,   \* bound: sessions
    MaxGoals,      \* bound: goals registered
    MaxCrashes     \* bound: prompts killed

ASSUME PromptAssumption ==
    /\ Proposed \subseteq Proposals
    /\ MaxSessions \in Nat /\ MaxGoals \in Nat /\ MaxCrashes \in Nat

VARIABLES
    goalFile,    \* .nerve/session-meta/active-goal.json of each workspace
    goalHistory, \* goal-history.jsonl of each: ids of confirmed goals
    sessions,    \* the sessions stored, in order of creation
    applied,     \* sessions whose patch is in the tree of each workspace
    console,     \* InteractiveState of each prompt
    goals,       \* goals registered so far
    crashes

promptVars == <<goalFile, goalHistory, sessions, applied, console, goals, crashes>>

(* A goal: its specification, where it came from and for which workspace.  *)
Goal(id, spec, by, w) == [id |-> id, spec |-> spec, by |-> by, ws |-> w]

-----------------------------------------------------------------------------
(* load_active_goal, refresh_active_goal: a file that does not validate is *)
(* reported and leaves no goal.                                            *)
load_active_goal(w) ==
    IF goalFile[w] = NoGoal \/ ~validate(goalFile[w].spec) THEN NoGoal
    ELSE goalFile[w]

(* InteractiveState::new and refresh_active_goal in run_interactive.       *)
Opened(w, mode) ==
    [at |-> w, apply |-> mode, goal |-> load_active_goal(w), last |-> 0,
     cur |-> 0, paste |-> FALSE, step |-> "ready", intent |-> NoGoal]

PromptInit ==
    /\ \E f \in [Workspaces -> {NoGoal} \cup Found] :
          goalFile = [w \in Workspaces |-> IF f[w] = NoGoal THEN NoGoal
                                           ELSE Goal(0, f[w], "file", w)]
    /\ goalHistory = [w \in Workspaces |-> {}]
    /\ sessions = <<>>
    /\ applied = [w \in Workspaces |-> {}]
    /\ \E w \in Workspaces : console = [c \in Consoles |-> Opened(w, FALSE)]
    /\ goals = 0 /\ crashes = 0

Ready(c) == console[c].step = "ready" /\ ~console[c].paste

(* Nothing under .nerve changes, nor the tree. *)
FilesSame == UNCHANGED <<goalFile, goalHistory, sessions, applied, goals, crashes>>

Mode(c, mode) ==
    /\ Ready(c)
    /\ console' = [console EXCEPT ![c].apply = mode]
    /\ FilesSame

(* Mutation: /cd keeps the goal in memory. *)
ChangeDirectory_KeepsGoal(c, w) ==
    /\ Ready(c)
    /\ console' = [console EXCEPT ![c].at = w]
    /\ FilesSame

(* /cd: the goal is that of the new workspace; the last report and the     *)
(* session the prompt is anchored to stay.                                 *)
ChangeDirectory(c, w) ==
    /\ Ready(c)
    /\ console' = [console EXCEPT ![c].at = w, ![c].goal = load_active_goal(w)]
    /\ FilesSame

(* /paste, /cancel and, without lines in between, /end.  While lines are   *)
(* collected every other input is a line of the task.                      *)
Paste(c, on) ==
    /\ console[c].step = "ready"
    /\ console' = [console EXCEPT ![c].paste = on]
    /\ FilesSame

(* run_interactive_task, from a plain line, a template or a paste: the     *)
(* loop runs with the goal in memory, the report is saved in the workspace *)
(* and becomes the last one, and the prompt is anchored to its session.    *)
(* The patch, if there is one, is in the tree when the mode was apply and  *)
(* the loop accepted it (SynapticLoop).  A run that fails changes nothing  *)
(* but the end of the paste.                                               *)
Task(c, patch, accepted) ==
    LET n == Len(sessions) + 1
        w == console[c].at
    IN  /\ console[c].step = "ready"
        /\ n <= MaxSessions
        /\ sessions' = Append(sessions, [ws |-> w, parent |-> 0, patch |-> patch,
                                         goal |-> console[c].goal])
        /\ applied' = [applied EXCEPT ![w] =
               IF console[c].apply /\ patch /\ accepted THEN @ \cup {n} ELSE @]
        /\ console' = [console EXCEPT ![c].cur = n, ![c].last = n,
                                      ![c].paste = FALSE]
        /\ UNCHANGED <<goalFile, goalHistory, goals, crashes>>

(* The session whose patch a bare /diff, /apply or /rollback means.        *)
last_patch_id(c) ==
    IF console[c].last # 0 /\ sessions[console[c].last].patch
    THEN console[c].last ELSE 0

(* /apply and /rollback without an id: the patch is looked up in the store *)
(* of the current workspace, and applied there.                            *)
Apply(c) ==
    LET n == last_patch_id(c) IN
    /\ Ready(c)
    /\ n # 0 /\ sessions[n].ws = console[c].at
    /\ applied' = [applied EXCEPT ![console[c].at] = @ \cup {n}]
    /\ UNCHANGED <<goalFile, goalHistory, sessions, console, goals, crashes>>

Rollback(c) ==
    LET n == last_patch_id(c) IN
    /\ Ready(c)
    /\ n # 0 /\ sessions[n].ws = console[c].at
    /\ applied' = [applied EXCEPT ![console[c].at] = @ \ {n}]
    /\ UNCHANGED <<goalFile, goalHistory, sessions, console, goals, crashes>>

(* handle_fork_slash: the parent is the session the prompt is anchored to, *)
(* registered first if the store of the workspace has its report, and the  *)
(* fork fails if it is not there; the child has no patch of its own.       *)
Fork(c) ==
    LET parent == IF console[c].cur # 0 THEN console[c].cur ELSE console[c].last
        n == Len(sessions) + 1
        w == console[c].at
    IN  /\ Ready(c)
        /\ parent # 0 /\ sessions[parent].ws = w
        /\ n <= MaxSessions
        /\ sessions' = Append(sessions, [ws |-> w, parent |-> parent,
                                         patch |-> FALSE, goal |-> NoGoal])
        /\ console' = [console EXCEPT ![c].cur = n]
        /\ UNCHANGED <<goalFile, goalHistory, applied, goals, crashes>>

-----------------------------------------------------------------------------
(* /goal.                                                                  *)

RegisterArgv(c, program, timeout) ==
    LET spec == [program |-> program, timeout |-> timeout, keys |-> {}]
        goal == Goal(goals + 1, spec, "argv", console[c].at)
    IN  /\ Ready(c) /\ goals < MaxGoals
        /\ validate(spec)
        /\ goals' = goals + 1
        /\ goalFile' = [goalFile EXCEPT ![console[c].at] = goal]
        /\ console' = [console EXCEPT ![c].goal = goal]
        /\ UNCHANGED <<goalHistory, sessions, applied, crashes>>

append_goal_history_entry(w, intent) ==
    [goalHistory EXCEPT ![w] = @ \cup {intent.id}]

(* register_goal_from_natural_language in three steps: the proposal that   *)
(* passes convert is shown and waits for an answer, a confirmed one goes   *)
(* to the history, and only then to the file and into memory.              *)
ProposeGoal(c, p) ==
    /\ Ready(c) /\ goals < MaxGoals
    /\ \E spec \in convert(p) :
          /\ goals' = goals + 1
          /\ console' = [console EXCEPT ![c].step = "confirm",
                 ![c].intent = Goal(goals + 1, spec, "prose", console[c].at)]
    /\ UNCHANGED <<goalFile, goalHistory, sessions, applied, crashes>>

AnswerProposal(c, yes) ==
    /\ console[c].step = "confirm"
    /\ IF yes
       THEN /\ goalHistory' =
                   append_goal_history_entry(console[c].at, console[c].intent)
            /\ console' = [console EXCEPT ![c].step = "write"]
       ELSE /\ console' = [console EXCEPT ![c].step = "ready", ![c].intent = NoGoal]
            /\ UNCHANGED goalHistory
    /\ UNCHANGED <<goalFile, sessions, applied, goals, crashes>>

WriteGoal(c) ==
    /\ console[c].step = "write"
    /\ validate(console[c].intent.spec)
    /\ goalFile' = [goalFile EXCEPT ![console[c].at] = console[c].intent]
    /\ console' = [console EXCEPT ![c].step = "ready", ![c].intent = NoGoal,
                                  ![c].goal = console[c].intent]
    /\ UNCHANGED <<goalHistory, sessions, applied, goals, crashes>>

(* /goal clear: an error from the removal of the file is not reported.     *)
ClearGoal(c, removed) ==
    /\ Ready(c)
    /\ console' = [console EXCEPT ![c].goal = NoGoal]
    /\ goalFile' = IF removed THEN [goalFile EXCEPT ![console[c].at] = NoGoal]
                   ELSE goalFile
    /\ UNCHANGED <<goalHistory, sessions, applied, goals, crashes>>

(* The prompt ends, by /quit or by a signal, and is opened again. *)
Reopen(c, w, mode) ==
    /\ crashes < MaxCrashes
    /\ crashes' = crashes + 1
    /\ console' = [console EXCEPT ![c] = Opened(w, mode)]
    /\ UNCHANGED <<goalFile, goalHistory, sessions, applied, goals>>

PromptStep(c) ==
    \/ \E mode \in BOOLEAN : Mode(c, mode)
    \/ \E w \in Workspaces : ChangeDirectory(c, w)
    \/ \E on \in BOOLEAN : Paste(c, on)
    \/ \E patch, accepted \in BOOLEAN : Task(c, patch, accepted)
    \/ Apply(c) \/ Rollback(c) \/ Fork(c)
    \/ \E program \in Programs \ {"none"}, timeout \in {0, 300} :
           RegisterArgv(c, program, timeout)
    \/ \E p \in Proposed : ProposeGoal(c, p)
    \/ \E yes \in BOOLEAN : AnswerProposal(c, yes)
    \/ WriteGoal(c)
    \/ \E removed \in BOOLEAN : ClearGoal(c, removed)
    \/ \E w \in Workspaces, mode \in BOOLEAN : Reopen(c, w, mode)

PromptNext == \E c \in Consoles : PromptStep(c)
PromptSpec == PromptInit /\ [][PromptNext]_promptVars

-----------------------------------------------------------------------------
(* A goal that came from prose is in force, in a file or in any prompt,    *)
(* only after somebody confirmed it and the history of that workspace says *)
(* so, even when the prompt is killed between the two writes               *)
(* (main.rs:4250-4275).                                                    *)
ProseGoalIsAudited ==
    LET InForce == {console[c].goal : c \in Consoles}
                     \cup {goalFile[w] : w \in Workspaces}
    IN  \A g \in InForce \ {NoGoal} :
            g.by = "prose" => /\ g.id \in goalHistory[g.ws]
                              /\ g.spec.timeout \in 1 .. 3600

(* No session runs under a goal of another workspace, or under one that    *)
(* does not validate, whichever prompt, file or proposal it came from and  *)
(* whatever way the prompt took there (main.rs:4125-4150, goal.rs:134-181).*)
SessionGoalIsOwn ==
    \A n \in DOMAIN sessions :
        sessions[n].goal # NoGoal =>
            /\ sessions[n].goal.ws = sessions[n].ws
            /\ validate(sessions[n].goal.spec)

(* A patch is only ever in the tree of the workspace whose session made    *)
(* it, although /cd keeps the last report (main.rs:3406-3417, 3546-3565).  *)
PatchStaysHome ==
    \A w \in Workspaces : \A n \in applied[w] : sessions[n].ws = w

(* A branch is in the workspace of its parent, although /cd keeps the      *)
(* session the prompt is anchored to (main.rs:3584-3638, 1003-1027).       *)
BranchStaysHome ==
    \A n \in DOMAIN sessions :
        sessions[n].parent # 0 => sessions[sessions[n].parent].ws = sessions[n].ws

(* Whatever way the prompts take, a session runs under a confirmed, valid  *)
(* goal of its own workspace, and patches and branches stay where they     *)
(* were made (main.rs:3406-3638, 4125-4275).                               *)
PromptSafe ==
    /\ ProseGoalIsAudited
    /\ SessionGoalIsOwn
    /\ PatchStaysHome
    /\ BranchStaysHome
=============================================================================
