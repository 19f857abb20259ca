# Nerve: verification project

Nerve (`nv`) is a Rust command-line program that has one language model write a
patch, another one review it and a deterministic check run over it, in rounds,
and then decides whether the patch is applied to the user's tree. Around this
loop it keeps sessions and patches on disk, isolates a run in a git worktree,
and distributes tasks over several processes with a queue of directories.

This directory holds TLA+ modules that model the parts of Nerve whose
correctness depends on control: who may do what, in which order, with what else
happening in between. TLC checks them on small instances and TLAPS proves the
main results for every instance. Paths below are relative to the repository
(`src/`); `core` stands for `crates/nerve-core/src`.

## 1. Inventory

| Component | Code | State | Operations |
|---|---|---|---|
| Mayor/Patrol queue | `core/mayor_patrol.rs`, process bodies in `crates/nerve-cli/src/main.rs` | directories `pending/`, `claimed/<patrol>/`, `done/`, `failed/`, `results/`, `heartbeat/`, the lock file `mayor.lock` | `Mayor::enqueue`, `status`, `recover_orphans`, `run_until_idle`; `Patrol::claim`, `run_task`, `run_loop`, `heartbeat` |
| Coordination ledger | `core/mayor_patrol.rs` (from line 987) | `ledger.json`, `ledger.lock`, mailboxes | `record_enqueued/claimed/finished/reclaimed`, `reconcile`, `send_mail`, `drain_mail` |
| Synaptic loop | `core/lib.rs` | the run's locals (output, feedback, check, usage, crossfire), `ApplyConsent` and `CancelToken` handles | consensus, pipeline and tournament runs; round seam; apply gate |
| NvPatch | `crates/nerve-patch/src/lib.rs` | the files of the tree, the patch with its hashes | `validate_apply`, `apply`, `validate_rollback`, `rollback`, snapshots and `restore` |
| Session store | `core/store.rs` | session reports, checkpoints, patch files, patch index with its lock file, metadata | `save_report`, checkpoints, `set_patch_applied`, `set_session_applied`, names |
| Session fork | `core/session_fork.rs` | payload files per session, `index.json`, `sessions.lock` | fork, branch, bootstrap of a stored run, listing |
| Budget audit chain | `core/budget_audit.rs`, `/budget` in `nerve-cli` | append-only log of chained hashes, key | append, verify, read of the words of `/budget` |
| Worktree isolator | `core/worktree.rs`, `apply_final_patch` of `core/lib.rs` | git worktree and branch of a round, `main-pre.ref`, bundle, lock | `prepare_round`, apply and commit, `merge_round`, rewind, `discard_round` |
| RPC bus and daemon | `core/rpc.rs`, `crates/nerve-cli/src/main.rs` | token file, subscribers' queues, registry of runs, output stream | start, rotate, emit, receive; prompt, approve, cancel, status, shutdown |
| Model adapters, goal checks | `crates/nerve-adapter/src/lib.rs`, `core/goal.rs` | one child process, its pipes | spawn with retries, drain, time out, kill, reap; read a reply |
| Sandbox, cgroup, ulimit | `core/sandbox.rs`, `core/cgroup.rs`, `core/ulimit.rs` | decision, helper arguments, cgroup directory, limits of the child | decide, confine, join, set limits, clean up |
| MCP client | `crates/nerve-adapter/src/mcp.rs` | server process, pending table, reader task | start, call, dispatch of replies, shutdown, admission |
| Plan mode | `core/plan.rs`, `nerve-cli` | a plan's text, the saved plan, queue files of its steps | parse, save, dispatch |
| Goal intent, prompt, line editor | `core/goal_intent.rs`, `nerve-cli` | active session and goal, files below `.nerve/`, line and history | `/cd`, `/goal`, `/fork`, `/budget`, runs; keys |
| Configuration, built-in verifier | `crates/nerve-config`, `core/verifier.rs` | configuration files, the configuration of a run | load, validate, trust, select a profile, detect a verifier |
| Types, dashboard | `nerve-types`, `nerve-tui` | none that lasts | data types, rendering |

`PROJECT.json` lists them all with their sources and status.

**Interactions.** `nv mayor` enqueues tasks and polls `run_until_idle`; each
`nv patrol` process claims a task and dispatches it, which runs one synaptic
loop in the same process (`main.rs:1559`, 1632-1653). The queue's processes share nothing but the file system.
Each of the queue's operations also writes the ledger, best effort, under a
lock of its own, and nothing orders the two writes. The synaptic loop calls
adapters, the goal check and, at its end, `NvPatch::apply`; the daemon holds
the loop's two handles and sets them from other tasks while it runs. The store
records what the loop did; the worktree isolator decides which tree the loop's
patch is applied to.

**What is hard.** (a) Several processes rename files at once and only the claim
is serialised by a lock: `status` reads a heartbeat and moves claims later,
`enqueue` looks for an id in four directories in turn, `status` counts two
directories one after the other. (b) Any process may be killed between two
file operations, and a live one may be slower than the time another one allows
it. (c) In the loop a verdict, a check and an output are overwritten round by
round, by three strategies with different orders, while tokens accumulate,
comments arrive and the operator cancels or consents; the gate must see values
that belong together. (d) A patch is several file operations, any of which may
fail or be the last one before a kill, and paths may be one another's parents.
(e) What is kept below `.nerve/` is written file by file by processes that do
not know of each other; one lock is a file that a killed process leaves behind.
(f) Children, servers and git answer late, twice or not at all. (g) Text from
models decides: a review, a plan or a diff may say several things at once.
`PROJECT.json` lists each hazard at its line.

**What makes each component correct.**
Queue: a task is never lost or copied; two patrols do not run one task while
both are within their time limits; what is in `done/` and `failed/` agrees with
the results; "idle" means that nothing is left; a task left by a dead patrol is
recovered. Ledger: it tells the queue's truth once everything is quiet. Loop:
what is applied was consented to, within budget and not stopped, and is the
output that was judged and checked or what its verdict suggested. NvPatch: a failed apply leaves the files as they were, a rollback
brings them back, and neither overwrites content it has not seen. Store: what
one process leaves, killed or not, the next one can use. Session tree: what is
indexed loads, and a branch is found under its parent. Audit chain: a cap in
force has its entry, and an edit is noticed. Worktree: the main tree keeps what
its owner wrote and what a run reported as merged, and nothing of a failed run.
Daemon: what it says of its runs is true and in order. Children: none is left
behind, a result is whole or an error, a required sandbox confines. MCP: a reply
reaches its own call, and no admitted path leaves the project. Replies, plans,
diffs, budgets, configuration files: read as what they mean, and refused when
they mean nothing.

## 2. Modules

| Module | Models | Kind |
|---|---|---|
| `TaskBoard` | what the queue promises: one place per task | abstract specification |
| `PatrolQueue` | the queue, file operation by file operation | component |
| `PatrolProofs` | theorems about the queue, the ledger and its reconciles (`MCLedgerRuns`) | proofs |
| `PatrolLedger` | the ledger on top of the queue (composition: extends `PatrolQueue`) | composition |
| `SynapticLoop` | one run of the loop, its seam and its gate | component |
| `SynapticLoopProofs` | theorems about it | proofs |
| `SessionStoreProofs` | theorems about `SessionStore` | proofs |
| `HomeProofs` | theorems about `Mailbox`, `SessionFork`, `BudgetAudit` | proofs |
| `ProcessProofs` | theorems about `McpClient`, `SandboxPolicy`, `ChildRun`, `Worktree` | proofs |
| `RpcProofs` | theorems about `RpcDaemon` and `RpcBus` | proofs |
| `AnswerProofs` | theorems about `PlanMode`, `GoalIntent`, `BudgetArgs`, `Prompt`, `ConfigTrust`, `AgentReply`, `LineEditor`, `McpPolicy`, `ApplyHunks` | proofs |
| `PatchApply` | apply, rollback and restore on a tree of files | component |
| `PatchApplyProofs` | theorems about it | proofs |
| `ApplyHunks` | `apply_hunks` on the lines of a file, used by `UnifiedDiff` | pure algorithm |
| `UnifiedDiff` | the diff parser, against the edits a diff stands for | pure algorithm |
| `SessionStore` | reports, patch index, checkpoints, names | component |
| `SessionFork` | the session tree | component |
| `BudgetAudit` | the audit chain under several prompts | component |
| `Mailbox` | the inboxes of the coordination ledger | component |
| `Worktree` | a round in a git worktree and its merge | component |
| `RpcDaemon`, `RpcBus` | the daemon's tasks; token file and fan-out | components |
| `SandboxPolicy`, `ChildRun` | what confines a child; one supervised child (extends the former) | component |
| `McpClient`, `McpPolicy` | the exchange with an MCP server; what may be called | components |
| `AgentReply` | a review's verdict and token counts | pure algorithm |
| `PlanMode` | parsing a plan; dispatching it | algorithm and component |
| `GoalIntent`, `BudgetArgs`, `Prompt` | a proposal and the words of `/budget`; the prompt that uses them (extends both) | algorithms and component |
| `CheckLimits`, `ConfigTrust` | limits of a check; the configuration a run obeys (extends the former) | components |
| `LineEditor` | the line editor of the prompt | component |
| `MCHome`, `MCProcesses`, `MCAnswers` | compositions of the components for TLC | model checking |
| other `MC...` | values of the constants for TLC | model checking |

### PatrolQueue

`pending`, `claimed[p]`, `done`, `failed` are the directories as sets of task
ids (a task is one file, moved by rename), `result[t]` the result file,
`fresh[p]` whether the heartbeat of `p` is younger than `claim_ttl_secs`,
`hasDir[p]` whether `claimed/<p>/` exists, `lock` the holder of `mayor.lock`.
Clients, patrols and mayors each have a program counter, and every file-system
call that another process can see is a step of its own:

* client: `Enqueue`, `EnqueueScanClaimed`, `EnqueueWrite`, `EnqueueRecord`
  (`Mayor::enqueue`, lines 262-302, and `task_known`, 810-828);
* patrol: `ClaimStart`, `ClaimLock`, `ClaimLockTimeout`, `ClaimScan(Empty)`,
  `ClaimRename(Fails)`, `ClaimRead(Fails)`, `ClaimRecord` (`claim`, 464-518),
  `Dispatch`, `WriteResult`, `FinishRecord`, `FinishMove`, `FinishSwept`,
  `Cleanup` (`run_task`, 531-613), `Wake` (`run_loop`), `Start` and `Crash`;
* mayor: `StatusStart`, `SweepSkip`, `SweepPick`, `SweepList(Fails)`,
  `SweepMove(Fails)`, `SweepRecord`, `SweepRemoveDir` (`recover_orphans`,
  323-393), `CountPending`, `CountDirs`, `CountClaimed`, `StatusReturn`,
  `ReturnIdle` (`status` and `run_until_idle`, 398-409), `MayorCrash`;
* time: `HeartbeatExpires`. With `Slow` FALSE it happens only to a patrol that
  has been killed and the lock wait does not time out; with `Slow` TRUE a
  live patrol may outlast either limit.

A lock held by a killed process is released, because `mayor.lock` is an
advisory lock of the operating system. The outcome of a dispatch (a run of the
loop, whose model calls are child processes) is any member of `Outcomes`. Fields of a task that no control depends on
are left out; the budget and the reported cost are kept, because `run_task`
turns a result over its budget into a failure.

`TaskBoard` is the promise: a task is absent, pending, held by one patrol or
over, and moves only along `Submit`, `Claim`, `Reclaim`, `Finish`.
`ImplementsBoard` maps the directories to it.

### PatrolLedger

Extends the queue: the `...Record` steps of the queue become the `record_*`
calls (`Recorded`), each of which takes the ledger lock, reads, changes and
writes, or is lost (the callers discard the error; with `SlowLedger` a lock
wait may time out); all other steps leave the ledger alone (`Unrecorded`).
`Reconcile` is its scan of the directories, one directory per step, under the
ledger lock, beside which the queue keeps moving.

### SynapticLoop

`pc` follows `run` through `lead`, `review`, `check`, `seam` (consensus and
pipeline), `both`, `reviewLead`, `reviewRival` (tournament), `gate` and
`apply`. One action per call that returns (`LeadReturns`, `ReviewReturns`,
`CheckReturns`, `BothReturn`, `LeadReviewed`, `RivalReviewed`) and per way out
of the seam, in the order of the code: `SeamBudget`, `SeamAccept`,
`SeamCancel`, `SeamBlock`, `SeamHalt`, `SeamGiveUp`, `SeamLast`, `SeamRefine`.
`Gate` computes `blocked`, `satisfied` and `allow`; `MergeFails`, `Apply` and
`ApplyFails` are the selection and the application. `Crossfire`, `Grant` and
`Cancel` happen at any time during the run. An output is its number, so that a
property can say that a verdict was given to the output that is applied
(`judged`, `checked` are history variables). A patch is its canonical hash.
Usage is tokens and estimated cost, each with its ceiling (`OverBudget`); a call
without an estimate adds nothing to the cost, and a sum too large for 64 bits,
which the code holds at the largest number, goes on growing here. Which patch
is applied, the output's, the reviewer's or both merged, is `final`
(`select_final_patch`, `core/lib.rs:1713`).

### PatchApply

`tree` maps each path to a text, `Binary`, `Missing` or `Dir`; `Above` gives
the paths a path runs through, so that a file and a directory may compete for a
name. A diff becomes a patch (`FilePatch`) against the tree it was made for;
`Begin` starts an apply or a rollback. `entry` and `part` are the loop counters:
`Validate` reads the states and hashes of one entry, `Capture` takes one
snapshot, `NextPhase` is the end of either loop, `Step` is one file operation
(with `create_dir_all` of the parent), `Fail` an operation that cannot be done
or an injected fault, which may leave directories already made (`Begun`) and in
an apply starts the restore from the last snapshot to the first, `Finish` the
return, `Crash` a kill, `Edit` a user or tool that changes a file. Hashes are ideal: two texts have the same hash
exactly if they are equal. What hunks do to a text is not computed here but in
`UnifiedDiff`: a `modify` replaces one text by another one.

### UnifiedDiff, ApplyHunks

Edit scripts for up to two files are written down as diff lines, with and
without context, with and without a newline at the end of a file, and possibly
damaged in one line; `from_unified_diff` (headers, hunk ranges, line counts,
renames) and `apply_hunks` read them back. The result is the list of entries in
the order of the diff. `DiffReadExactly`: an undamaged diff means the edited
files, in their order (`DiffMeansItsTarget`), and any diff that is accepted
changes exactly the lines its hunks name (`AcceptedHunksFit`). Two kinds of
lines are read differently from what the format means, and `MisreadExactly` says
what becomes of a diff that has them:

* A hunk `@@ -n,0 +m,k @@` with `n` at least 1 puts its lines behind line `n`;
  the code takes `n - 1` as the place (`crates/nerve-patch/src/lib.rs:943`), so
  that they end up before line `n`, and there is no old line whose comparison
  would refuse it. Nerve's own writer leaves three lines of context and never
  writes such a hunk for a file that has lines; an agent, or `git diff -U0`, may.
* A marker `\ No newline at end of file` that ends its hunk is not read, since
  the lines of the hunk are counted off by then (`lib.rs:867`). A kept or removed
  line is then compared with a newline it does not have, and the diff is refused;
  an added one gets a newline.

A diff line is a mark and a word, so that a removed line `-- f` is the header
`--- f`, as in the text. `ApplyHunks` has the part that works on lines, whatever
they are: it passes over the hunks and, in each, over its lines. `HunksFit` says
where hunks may stand, and `Spliced` what they do without a position that
moves, by replacing them from the last to the first. Both take the place of a
hunk from `HunkTarget`, which is the code's: that it is the place the format
means is not their claim but that of `DiffMeansItsTarget`.

### Below `.nerve/`

`SessionStore`: a write is one step (temporary file and rename); an operation is
several writes. Two processes save runs, checkpoint, name, apply and roll back,
one is killed between any two writes, a lock wait gives up. `StoreConsistent`
relates index, reports, patch files and tree; `StoreForgetsNothing` says what no
step takes away. `SessionFork`: `StartFork` (with the bootstrap, which looks
without the lock), the lock, and the three writes of a fork. `BudgetAudit`: an
entry is its own ideal hash with the key; prompts with a key, without one and
with an unusable one share a log that may predate the chain, and a person edits
it twice; the history `trail` is the log as the prompts left it, so that
`EditIsNoticed` speaks of a log that differs from it and not of one that was put
back. `Mailbox`: files sent and drained without a lock. A mail's file is named
by the id of the task it is about, so that two mails may have one name
(`NameOf`).

### Other processes

`Worktree`: every git command is one step; the owner of the main tree edits and
commits whenever they like; a guard or command fails once, a run is killed once.
`OwnerWorkKept` leaves out an owner who acts between the last check and the
merge or reset, where git offers no guard. `RpcDaemon`: the read loop, a run
task and a streamer task per run, the registry, and the stream they print to;
the loop inside a run is reduced to its rounds and the two seams that read
cancel and consent. A checkpoint that cannot be written is logged and the run
goes on (`core/lib.rs:577-583`); `Unwritten` bounds for which rounds that may
happen. `RpcBus`: token files are inodes, since the staging name is
fixed; the fan-out is a ring with a cursor per subscriber. `BusSound` speaks of
a daemon that is alone: of two that start at once one may keep a token that is no
longer on file. `ChildRun`: the child
writes, forks, closes and exits when it likes, Nerve drains two pipes under a
cap and a timeout, kills the group and reaps; `SandboxPolicy` gives the decision
for every configuration and host, and the argument list of the helper, which
`parse_confine_args` reads back word by word (`ReadArg`; a root that is an empty
word is refused, as in the code).
`McpClient`: pending table, reader, calls with timeouts, shutdown at any time;
the server repeats and delays answers, to ids that were asked for.

### What others wrote

Texts are grown line by line, word by word or object by object, and at every
point the code's parser is compared with a definition of what the text means.
`AgentReply`: first line, rejection words, JSON objects with the span of text
they cover; `VerdictOnlyDeepens` says that adding to a reply never softens its
verdict. `McpPolicy`: every
combination of allowlists, posture, source of the configuration and annotations;
a path grows component by component, one step of the code's loop
(`WalkComponent`), beside the place it leads to (the history `trail`), up to six
components. `PlanMode`: sections and nested items, read line by line
(`ScanLine`); then two dispatchers beside patrols that claim a step, end it, or
lose it to the sweep. `enqueue` looks for a step twice, first in `pending/`,
`done/`, `failed/` and `results/` (`CheckStep`), then in `claimed/`
(`WalkClaimed`), and writes it after that (`WriteStep`). `StepsPartition` and
`SubItemsStayInside` say that the steps read are the list items of the section,
and are parts of `PlanHandedOver`. `Prompt`: its commands in two workspaces with
a kill; `GoalIntent` cuts the object out of a reply, token by token;
`BudgetArgs` reads amounts in a word of bounded size. `ConfigTrust`: project, user and embedded
configuration, profiles and the verifier, with a checkout while the run goes on;
`CheckLimits`: warnings, cgroup, the hooks between fork and exec, and cleanup,
which may fail and leave the cgroup's directory (`teardown`).
`LineEditor`: every order of keys up to the bounds.

## 3. Runs

All bounds are constants in the `.cfg` files.

| Run | Result | What it shows |
|---|---|---|
| `queue_safety` | holds | Slow processes, a kill at any step, reuse of slots, one task: `OneCopy`, `LockKeepsCandidate`, `ResultBeforeMove`, `IdleMeansDrained`, `ImplementsBoard`. |
| `queue_punctual` | holds | Two tasks, processes within their limits, a kill: `NoDoubleRun`, `ResultMatchesDirectory`, and under fairness a pending task ends in `done/` or `failed/` although a patrol is killed with it in hand (`PendingResolves`). |
| `ledger` | holds | Two instances of `PatrolLedger`. Punctual, with a kill, two reconciles, dispatches over budget and a task above the total: `DoneWithinBudget`, `FailedIsNeverReportedDone`, and a reconcile gives every task that was over when its directory was read the word of that directory; one that was met in `claimed/` and ended later may be called claimed, and nothing else (`ReconcileKeepsFinished`). With ids enqueued again and ledger writes lost to a timeout: a row still never contradicts itself (`RowsConsistent`). |
| `loop` | holds | Two instances of `SynapticLoop`. All strategies, policies and strictness levels, ceilings on tokens and on cost: `AppliedIsJustified`, `StoppedRunsAreRejected`, `OverBudgetNeverApplied`, `SatisfiedIsApplicable`. Three refinements: the no-progress guard trips exactly on consecutive stalled rounds and no round follows a decision (`RoundsInOrder`). Every run returns (`RunReturns`). |
| `patch` | holds | Two shapes of patch. No path of it has another one below it, directories may have to be made, with a fault, an edit and a kill: `LeafApplyRestored`, `UserContentKept` (unless a file is edited while the call runs). A path below another: a rollback after an apply brings the files back (`RoundTrip`). |
| `home` | holds | `StoreConsistent`, `StoreForgetsNothing`, `SessionTreeWhole`, `AuditTrailSound`, `MailNotLost`, each with two processes and a kill. |
| `processes` | holds | `MainTreeKept`, `DaemonOrderly`, `BusSound`, `ChildSupervised`, `McpExchangeSound`, and under fairness `NothingHangs`. |
| `answers` | holds | `ReplyReadSafely`, `VerdictOnlyDeepens`, `CallsConfined`, `PlanHandedOver`, `PromptSafe`, `ConfigObeyed`, `EditorSound`, and for what the parsers of diffs, proposals and budgets compute `TextReadExactly`. |

The last three runs check several components that share no state. A history
picks one of them at its start (`focus`) and the others stay as they start, so
that the state space is the sum of the components' and not their product.
Nothing is lost by it: with disjoint variables, a step of one component neither
enables nor disables a step of another one, and each property speaks of one
component. Each of these properties is a conjunction of named parts, which the
modules define and comment one by one.

Runs in which the code does not do what the repository says (each one a finding
in `PROJECT.json`, with both lines quoted):

| Run | The trace |
|---|---|
| `queue_slot_reuse` | A patrol restarted as `slot-1` keeps that slot's heartbeat fresh, so the task its predecessor left is never recovered. |
| `loop_cancel` | The seam tests acceptance before the cancel token: an accepted round of a cancelled run is applied. |
| `loop_crossfire_budget` | Tokens of crossfire comments are not accumulated. |
| `patch_restore` | An entry deletes `a`, the next one renames `c` to `a/b`, and its second file operation fails: the restore of `a` meets the directory made for `a/b`, and the file stays lost. |

The conditions of the other runs are needed too. With the constants changed TLC
shows: an id enqueued again while its file moves is found in none of the
directories `enqueue` looks into, and accepted twice (`Resubmit`); a sweep that
read a stale heartbeat moves the claim of a patrol that has come back since,
and a patrol that lost its claim this way records its verdict over that of its
successor, so that two patrols execute one task, a result disagrees with its
directory and the ledger calls a failed task done (`Slow`; nothing beats the
heart of a patrol during a dispatch, `core/mayor_patrol.rs:545`); a second mayor that moves a claim back between the two
counts of `status` makes `run_until_idle` return with a task pending
(`Mayors`); a `modify` of a missing file creates it, and its rollback leaves an
empty file (the exception in `RoundTrip`). A supervised child
that closes both pipes and runs on is awaited without a bound
(`core/goal.rs:411`), which is where `NothingHangs` ends its claim. Independently of them, the
`record_enqueued` of `enqueue` may land after the records of the patrol that
finished the task, and the ledger then says pending until the next reconcile.

**Other disagreements and gaps met while modelling**, without a run of their
own:

* `.nerve/sessions/index.json`, which a fork writes, lies in the directory whose
  `.json` files `list_sessions` reads as reports, and reading it as one fails
  (`core/store.rs:283`, `core/session_fork.rs:491`).
* An intersection of a server's allowlist with the global one that is empty
  means "no list" afterwards, and admission falls back to annotations
  (`crates/nerve-adapter/src/mcp.rs:906-917`; README.md:444-446 calls the list
  the hard boundary). `AllowlistHolds` says what holds otherwise.
* A path argument that is absolute and leads into the project by way of `..`
  above it (`/x/../root/y`) is refused, as is every `..` below a project root
  `/`; `InsidePathAccepted` speaks of relative paths and other roots only.
* Under `reviewer_priority` and `merge_attempt` the patch that is applied is the
  one the reviewer suggested, or both merged (`core/lib.rs:1713-1733`). Nobody
  judged or checked it: the verdict and the check are about the output it
  replaces. `AppliedIsJustified` says this much and no more. README.md:28 and 816
  speak of the reviewed diff that is printed and applied, and
  `nerve-terminal-upgrade-proposal.md:1060` names this promotion as a risk that
  a further confirmation should guard.
* A `reconcile` that meets a task in `claimed/` and writes after it ended calls
  it claimed, even if its row already said done. README.md:739 ("the directories
  win on any disagreement") and `core/mayor_patrol.rs:1254-1256` ("can never
  downgrade a finished task back to pending") agree with the code as far as
  pending goes.
* A mail takes the id of its task (`core/mayor_patrol.rs:371-377`). If a task is
  reclaimed twice from one slot, the second mail replaces the first, or is
  removed by a drainer that has just read the first (`:1391`, 1411-1414, "read and
  REMOVE"). `MailNotLost` names the two cases.
* The checkpoint of a round that cannot be written is logged and the run goes on
  (`core/lib.rs:577-583`): `status` does not find a run all of whose writes
  failed.
* README.md:729 has the cgroup of a check torn down on every spawn path; the
  code kills what is in it and tries to remove the directory
  (`core/cgroup.rs:85-122`, and 223 and 230 for a half-made one, without a
  message of their own). `LimitsHold` says that nothing is left running in it and
  that a directory that stays was told of. A killed Nerve leaves it without a word.
* The parent link of a session is kept in its metadata, which naming a session
  reads, changes and writes without a lock (`core/store.rs:314-335`); a stale
  write can lose it. It is not in `SessionStore`.
* A goal in `.nerve/active-goal.json` that came with the repository is loaded
  without a question (`main.rs:4125-4150`); what `PromptSafe` says of
  confirmation is about goals given in prose.
* `/fork` keeps the new branch as active session, but `/apply` and `/diff` find
  no patch there (`main.rs:3584`).
* `main-pre.ref` is committed with the round and merged into main
  (`core/worktree.rs:153`).
* A failed fast-forward is followed by `reset --hard` to the recorded HEAD; a
  commit made in between is reset away (`core/worktree.rs:395`). `MainTreeKept`
  leaves out an owner who acts in that moment (`~raced`).
* `enqueue` takes no lock. Two dispatchers that are between the look and the
  write of the same step both enqueue it; and one alone enqueues a step again
  that leaves `claimed/`, done or given back, after its first look and before its
  second (`core/mayor_patrol.rs:276`, 810-828). `PlanHandedOver` says that a
  step is queued twice in these two cases only (`Unseen`).
* An `approve` after the gate is acknowledged without effect; a call that timed
  out keeps its entry in the pending table; the writer's channel of 64 lines is
  filled under a lock that a shutdown needs (`mcp.rs:556`).
* Bare insertions and newline markers at the end of a hunk, see `UnifiedDiff`
  above (`MisreadExactly`).

**Bounds and why they suffice.** The queue's races are between one patrol, a
second patrol that takes over and one mayor that sweeps; a third process of any
kind repeats what the second can do. One kill is enough to leave a claim behind
at any step; one task is enough for all properties about one file, and two are
used where the choice of the next task matters. Task ids are numbers because
`claim` sorts file names. A dispatch costs within or above its ceiling. The loop's rounds matter through "this one", "the one
before" and the best so far: one refinement covers the gate, three cover the
guard with a limit of two, including a counter that must be reset. Calls cost
nothing or one unit against limits that put the sum of tokens, or of cost, on
either side of its ceiling at every call. Two paths, and three of which one is another one's parent, and patches of
up to two entries contain every interaction of two
entries, entries that name one path twice included; three texts are the
original, the patch's and the user's. `LeafApplyRestored` is restricted
to patches none of whose paths has another one below it, since the others are
the finding `patch_restore`;
`RoundTrip` leaves out a `modify` of a missing file. In `loop`, a suggested patch
is told apart only under the two policies that look at it.

At the other components the races are between two actors (two stores, forks,
prompts, drainers, worktree runs, callers, dispatchers) and one kill, for the
reason given for the queue. A ring of two envelopes and five emits overtakes a
subscriber more than once. A pipe and a cap of two chunks fill at the first,
second and third chunk. Two JSON objects contradict each other and the first
line; two usage objects make "the last one" matter. Paths of six components
leave a root of two, pass a sibling and come back. Plans of nine lines have two
steps with nested items. A dispatch queues up to two steps, which is enough for
one to be out of order, missing or twice. Five edits make two hunks with a
context line between them; a context of 0 and of 1 gives hunks with and without
old lines (`Contexts`), a line without a newline is among the first two edits of
a file (`Unterminated`), and a diff of up to seven lines is damaged
(`MaxDamageable`). Two mails share a name and a third has its own. The first
checkpoint of a run may fail to be written (`Unwritten`), so that status is asked
of a run without one and, after the next round, with one. Amounts have two decimals and up to four digits in a word of 950, so that
they round to zero, round down, fit exactly and overflow. Limits are absent,
zero, below, at and above those of Nerve.

Symmetry is used for patrols and for non-empty texts, in safety runs only.

**Deadlock** is checked in the queue and ledger runs: some process can always
act. A run of the loop ends with its report and a history of patch calls with
its last call, and in `home`, `processes` and `answers` a history ends when its
actors have nothing left to do, so those configurations switch the check off;
that the end is a good one is what `NothingHangs` and the invariants say.

**Fairness.** `PatrolQueue!FairSpec` assumes weak fairness of each process's
next step (processes that are not killed are scheduled), of starting a slot
that was never used (the operator starts the patrols), and of the ageing of a
dead patrol's heartbeat (time passes; `claim_ttl_secs` is 600 by default and
at least twice the heartbeat interval of 30). That of the mayor includes being
run again: `nv mayor` drains the queue once and exits (`main.rs:1316-1324`), so
that `PendingResolves` is a promise to an operator who keeps running it. Nothing is assumed of kills or of
reuse. A dispatch returns because adapters run under timeouts
(`crates/nerve-adapter/src/lib.rs:28`, `:460`). `SynapticLoop!FairSpec` assumes
weak fairness of the loop's own step for the same reason: one future that the
runtime polls, whose calls return. Crossfire, consent and cancel need not
happen. `MCProcesses` assumes weak fairness of a worktree run's next step (git
commands return), of each run task, streamer and the read loop's own steps, of
the steps and timers of a supervised child's parent (tokio's timers fire), and
of an MCP client's tasks and timeouts; nothing of children, servers, the person
at the main tree or the input of the daemon.

## 4. Proofs

Every theorem holds for all values of the constants that satisfy the named
assumption of the module (`ConstantsAssumption`, `LoopAssumption`, ...): any
number of processes, tasks, sessions, runs, keys, names, steps and kills, where
TLC takes two or three. The assumptions give the constants their types and say
that distinguished values (`NoSession`, `Missing`, ...) are different from
others; TLC evaluates them in the runs.

| Theorem | Statement | Extra assumption |
|---|---|---|
| `TypeCorrect` | `[]TypeOK` | none |
| `CandidateKept` | `[]LockKeepsCandidate` | none |
| `ResultFileFirst` | `[]ResultBeforeMove` | none |
| `OneFilePerTask` | `[]OneCopy` | an id is enqueued once |
| `QueueImplementsBoard` | the queue implements `TaskBoard` | an id is enqueued once |
| `NoConcurrentRuns` | `[]NoDoubleRun` | `Punctual` |
| `DirectoriesMatchResults` | `[]ResultMatchesDirectory` | `Punctual` |
| `BudgetsHold` | `[]DoneWithinBudget` | `Punctual` |
| `IdleIsSound` | `[]IdleMeansDrained` | one mayor, an id is enqueued once |
| `RowsNeverContradict` | `[]RowsConsistent` | none |
| `FailureIsReported` | `[]FailedIsNeverReportedDone` | `PunctualLedger` |
| `ReconcileNeverDowngrades` | `ReconcileKeepsFinished` (an action property) | `PunctualLedger` |
| `LoopTypeCorrect` | `[]LoopTypeOK` | none |
| `ApplyIsJustified` | `[]AppliedIsJustified` | none |
| `StopsReject` | `[]StoppedRunsAreRejected` | none |
| `BudgetPreventsApply` | `[]OverBudgetNeverApplied` | none |
| `SatisfiedRunsPass` | `[]SatisfiedIsApplicable` | none |
| `RoundsFollowOrder` | `[]RoundsInOrder` | none |
| `FailedApplyIsRestored` | `[]LeafApplyRestored` | none |
| `RollbackUndoesApply` | `[]RoundTrip` | none |
| `UnseenContentIsKept` | `UserContentKept` (an action property) | none |
| `StoreStaysConsistent` | `[]StoreConsistent` | none |
| `StoreNeverForgets` | `StoreForgetsNothing` (an action property) | none |
| `MailReachesSomebody` | `[]MailNotLost` | none |
| `TreeStaysWhole` | `[]SessionTreeWhole` | none |
| `AuditStaysSound` | `[]AuditTrailSound` | none |
| `ExchangeSound` | `[]McpExchangeSound` | none |
| `ChildStaysSupervised` | `[]ChildSupervised` | none |
| `HelperReadsBack` | `parse_confine_args` inverts `build_confine_helper_argv` | roots are not empty words |
| `MainTreeIsKept` | `[]MainTreeKept` | none |
| `DaemonStaysOrderly` | `[]DaemonOrderly` | none |
| `BusKeepsItsWord` | `[]BusSound` | none |
| `PlansAreHandedOver` | `[]PlanHandedOver` | none |
| `ObjectsAreExtracted` | `[](ExtractedIsObject /\ PlainObjectIsFound)` | none |
| `CapsAreAsTyped` | `[]CapsAreMeant` | none |
| `HunksApplyExactly` | `apply_hunks` gives `Spliced` if the counts match and `HunksFit` (both by the code's `HunkTarget`), an error otherwise | none |
| `PromptStaysSafe` | `[]PromptSafe` | none |
| `ConfigIsObeyed` | `[]ConfigObeyed` | none |
| `RepliesAreReadSafely` | `[]ReplyReadSafely` | none |
| `QuotesOnlyDeepen` | `VerdictOnlyDeepens` (an action property) | none |
| `EditorStaysSound` | `[]EditorSound` | none |
| `CallsStayConfined` | `[]CallsConfined` | none |

`Punctual` says that no live process outlasts a limit, no slot is reused and no
id is enqueued twice; `PunctualLedger` adds that no wait for the ledger's lock
times out. Section 3 tells what happens without each of the extra assumptions:
none of them can be dropped. The run `ledger` checks the two ledger theorems in
an instance of its own beside one in which the assumption does not hold; the
theorems are about that run's specification, `RunsSpec`, and its properties.

**Queue, the argument.** None of the properties is inductive alone.
`TypeInv` adds to the types that a patrol between claim and finish has a task
in hand. `LockInv`: a patrol is inside `claim` exactly while it holds the
lock, and what it found in `pending/` is still there, since only claims remove
files from `pending/`. `CopyInv`: every task is in at most one directory, and
a client that is about to write an id knows that no directory holds it, which
is what "enqueued once" gives. The refinement follows from `CopyInv`: each
rename is one move of the board, every other step a stutter. `AliveInv`: with
punctual processes, the heartbeat of a running patrol is fresh, so a patrol
being swept is dead. `OwnInv`: a working patrol's task lies in its own
directory, hence (with `CopyInv`) two patrols never work on one task.
`ResultInv` and `BudgetInv` carry the result from the dispatch to the move.
`DrainInv` says what the mayor knows between its two counts: every task it has
not seen finished is in `claimed/`, and with one mayor nothing returns from
there while it counts. `ResultFileFirst` needs none of the extra assumptions:
a result file is never removed and a patrol that is about to move a task has
written one (`FileInv`).

**Ledger, the argument.** `RowsInv`: not only the rows on disk but also
those a reconcile has collected so far are free of contradictions.
For the two theorems about failures the difficulty is that a reconcile reads
one directory at a time while tasks move on. `FinishInv`: a patrol that is about
to move a task to `failed/` has not left "done" in its row. `ScanInv`: a task
that finishes during a reconcile was past `record_finished`, which waits for the
ledger's lock, so that its file lay in a claim directory when the scan began
(which exists, `DirInv`, and is read); whichever way the rename and the scan
interleave, the scan meets it, and what it writes is "claimed" or the word of
the directory. `SettledInv`: a task that lay in `done/` or `failed/` when that
was read has the word of the directory among what is collected, and nothing
replaces it (`settled` is a history of `MCLedgerRuns`).

**Loop, the argument.** `LoopInv` describes each control point: at `gate` the
report's verdict and check belong to the output in hand (`FromGate`, `AtSeam`,
`AtCheck`), the candidates of a tournament are judged in order
(`CandidateOrder`), no call is made after a stop (`CallsUnstopped`), a run
over one of its ceilings has `"budget"` among its stops when it reaches the gate,
and what the gate decided stays (`GateDecided`, `AppliedLast`). TLC checks the
same conjuncts. `RoundsInv` ties the counter of the no-progress guard to the
recorded rounds: the counter is the length of the last stretch of stalled rounds
(`GuardCounts`), which is what makes the guard exact.

**Patch, the argument.** `SeenInv`: once an entry is validated, the content at
its paths is known to the patch or was edited since, and whatever an operation
writes is known too, a restored snapshot included; this gives
`UserContentKept`. `SnapInv`: a snapshot tells what the call found, every path
of the patch has one before the first write, paths the patch does not name
changed at most from nothing to a directory, and directories stay. From it
`RestoreInv`: where no path of the patch lies above another, none of them ever
becomes a directory and the directories of a snapshotted file still exist, so
that a restore cannot be refused (`RestorePossible`); with a path below another
one this is what fails in `patch_restore`. `BaseInv`: the tree an apply started
from fits every entry of the patch at once, since all are validated before the
first write; therefore every operation of a rollback writes what that tree held
(`RollbackValue`), in whatever order the entries name a path (`RollInv`).

**Store, the argument.** `StoreInv`: an operation has the shape of its kind at
each of its steps (`OpsShaped`), ids are given out once (`IdsUsed`), the writes
of a run come in the order report, patch file, index (`RunOrder`), whoever is
inside the index holds its lock file (`LockHolds`), the flags of index and
report differ only for an operation between its two writes or where a killed one
left its lock file (`FlagsDiffer`), and a call between tree and record knows what
the tree holds (`TreeKnown`).

**Session tree, audit chain, mailbox.** `ForkInv`: what a call knows at each of
its steps is still so, since the index changes only under the lock
(`CallSound`), every indexed session lies in the file its entry points to
(`IndexSound`), and the payload of a root is that of its stored report, however
often it was bootstrapped (`RootsSound`). `AuditInv`: the log differs from its trail only in caps of
entries another one links to (`TrailFits`), each link is the hash of the trail's
entry (`LinksFit`), hence a changed entry no longer fits its link; `PromptSound`
carries a cap from the request to its entry and into force. `MailInv`: a file
holds a mail of its name, a drainer about to remove a file has a mail of that
name among those it will return, and the mail it read is in that file still
unless one came after it, which is then in `behind`. Nothing is assumed of names:
any two mails may share one.

**Other processes.** `McpInv`: ids of open calls differ (`IdsDistinct`), an
answer was asked for (`AnswersReplied`), and a shutdown takes its steps in order
(`ShutdownOrder`). `ChildInv`: per stage, whether the child exists, its group is
alive and its pipes have an end (`StageSound`, `PipeSound`), and what it touched
the decision permits (`CheckConfined`). `WtInv`: a round's commit is the commit
it started from with its own file changed (`Prepared`, `Committed`), it holds
the lock while it touches main (`Guarded`), main has not moved under it unless
the owner raced it (`Undisturbed`), and the owner's words are in the tree
(`OwnersWords`). `DaemonInv`: per run, the printed lines are those of a prefix
of its life that fits where its task and streamer stand (`Streamed`, `Printing`),
an apply was granted (`Granted`), a checkpoint that was written stays until the
report is saved (`OnDisk`), and the read loop knows every run that is not over. `BusInv`: a process that writes has drawn a token (`Drawn`), and the staging
file an undisturbed process renames is the one it wrote (`Alone`); a
subscriber's cursor is the sum of what it got, missed and started from.

**What others wrote.** `PlanInv`: the queued steps of a plan are an interval
from one (`PrefixClosed`), which a dispatcher extends at its end
(`DispatchSound`); what a dispatcher saw in its first look, and in both, is still
so unless the plan has a second dispatcher or the step left `claimed/` in
between (`Looked`). `PromptInv`: a goal in memory or on file is at home in its
workspace and, if it came as prose, in the history there (`GoalsAtHome`,
`IntentSound`). `LimitInv` follows the hooks between fork and exec one limit at
a time (`SettledSoFar`) and the cgroup from its making to its removal, or to the
word that it was left (`GroupSound`); that the selected profile is the first that fits is
proved from the code's two nested searches (`FirstMatch`). For replies there is
no inductive argument over the objects: `MostSevere` is shown to be a greatest
element, and `RankGrows` bounds the rank of a verdict before and after a word or
object is added. `EditorInv` needs only the finiteness of the palette. `PathInv`:
while the walk is not refused it stands where the path leads, and a relative
path is refused at the moment it leaves the root; `AllowlistHolds` follows from
the definitions of the gates.

**Reading a text of any length.** Five readers go over their input from left to
right: the helper's arguments, the lines of a plan, the tokens of a reply, the
words and digits of `/budget` and the hunks of a diff. The library's induction
theorems take a predicate as a parameter, which the provers cannot instantiate;
the proofs use induction over a set instead (`Induction`: a set that has 0, and
with a number the next one, has them all, from the well-foundedness of the
order), and write the claim as the set of numbers for which it holds. A reader
is a recursive function, and that such a function exists with the values its
definition states is proved first (`PassExists`, by building it one argument at
a time), since a `CHOOSE` says nothing otherwise. What is shown by induction
along the pass: for the helper, that after so many words all that is collected
is what was put in and the next word is that of the next flag; for a plan
(`LineKeepsSplit`), that the lines read so far are divided into the steps, each
beginning at its marker, in order, with what belongs to none; for a reply, that
depth and quoting of the scan are those of the text from the first brace, so
that it stops at the brace that closes the first; for `/budget` (`ReadKeeps`),
that each cap is that of the last word of its kind so far; for a diff, that
after some lines of a hunk either they all stood in the file, the position is
behind them and the new lines are written, or the hunk has failed
(`LineTaken`), and that no hunk has failed so far exactly if each fits, with
the position behind the last one (`ApplicationsKnown`). What hunks mean is
computed from the other end; `SplicesRemain` brings the two together: with the
last hunks replaced the file is its untouched beginning followed by what
`apply_hunks` still has to write. The arithmetic of an amount is `CostMeant`:
digits written one after the other have the value `ValueConcat` gives, so that
padding the fraction with zeros and cutting it at the sixth digit is a division
rounded down (`RoundedDown`), for fractions shorter and longer than that. The
sum in `NoSilentLoss` is taken over a finite set of subscribers
(`IsFiniteSet(Consumers)`) with the library's fold over sets.

**What the proofs changed in the models.** They asked for definitions a prover
can follow and found places where the model said something else than was meant:

* The audit history was a flag "edited", under which an edit that was undone
  counted as one; it is now the log as the prompts left it (`trail`).
* Two `CASE` expressions had overlapping arms, so that their value was left to
  the checker; they are now disjoint, in the order of the code.
* `InsidePathAccepted` fails for the file system root as project root, where the
  code refuses every `..` at the boundary although nothing lies above it; the
  property says so.
* The recursive walk over a path and the recursive spans of JSON objects became
  steps, which is closer to the code's loops; the palette became the set of
  indices it shows.
* The operations of a patch, concatenated in a list, became counters over its
  entries, as in the code; a capture is one file per step, since an edit may come
  between two; and a write that fails on its way may leave directories. The
  property of failed applies, stated for two fixed files, now holds for every
  patch none of whose paths has another one below it.
* `parse_confine_args` took a root that is an empty word, which the code
  refuses; `HelperReadsBack` failed for it.
* Recursive operators of the plan, the reply, the budget and the helper became
  recursive functions, one step of the code's loop each (`ScanLine`,
  `ScanToken`, `ReadArg`); `StepsPartition`, which compared lists, speaks of the
  set of lines and of their order.

**Only model-checked.**

* Liveness (`PendingResolves`, `RunReturns`, `NothingHangs`): the prover does
  not handle fairness and `ENABLED`.
* `TextReadExactly` as a whole: of its parts `ExtractedIsObject`,
  `PlainObjectIsFound` and `CapsAreMeant` are proved (`ObjectsAreExtracted`,
  `CapsAreAsTyped`). Of `DiffReadExactly` the step from hunks to the text is
  proved (`HunksApplyExactly`); that the parser reads the hunks that were written
  is not: `UnifiedDiff` writes and reads a diff with recursive operators and
  folds over lists of lists, which the prover cannot expand.

## 5. Not modelled

* Text whose control is trivial or whose result is a choice in the models:
  prompts, the recognizers of test summaries, the built-in verifier's veto over a
  diff (any verdict of a review), the fixed arguments of each model CLI, JSON
  parsing and field defaults of the configuration.
* `ensure_safe_relative_path`: the models' paths are relative and safe.
* The operating system and git: Seatbelt, bubblewrap, Landlock, seccomp, cgroups
  and git commands are external and have outcomes.
* `nerve-types` (data) and `nerve-tui` (rendering).
* The printed text of commands, events and telemetry, and commands that only
  read and print.
* The owner and time fields of a ledger row: no code decides by them.
* The cut of an oversized payload in the bus and the line channel of the MCP
  writer task.
* Durability of writes across a power failure: a kill loses no completed
  operation.

## 6. What remains

In the order in which it would say most about the system:

1. Composition of the loop with `PatchApply`, the store and the daemon: the
   applied flag of a report against the tree, an approve against the gate.
2. Store and session tree in one history, for the directory they share.
3. The parser of diffs as recursive functions, so that with `HunksApplyExactly`
   all of `DiffReadExactly` can be proved for every diff.
4. The configuration's validation field by field, the recognizers of test
   summaries and the built-in verifier's detection of a project, which are
   choices in the models now.
