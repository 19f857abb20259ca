------------------------------ MODULE Worktree ------------------------------
(***************************************************************************)
(* Worktree-isolated apply (worktree.rs and apply_final_patch of lib.rs):  *)
(* a run checks out its own git worktree, applies and commits its patch    *)
(* there and fast-forwards the main tree to it.  Prepare, merge and        *)
(* discard hold an advisory lock; the person who owns the main tree holds  *)
(* none, and edits and commits whenever they like.  Every git command is   *)
(* one step.  A file holds one content; a commit is a tree and a parent.   *)
(***************************************************************************)
EXTENDS Naturals, Sequences

CONSTANTS
    Runs,        \* runs that apply with a worktree
    Files,       \* tracked files of the main tree
    RefFile,     \* main-pre.ref, which prepare_round puts in the worktree
    Target,      \* the file the patch of each run changes
    Original,    \* the content the patches were made for
    Absent,      \* the content of a file that does not exist
    Nobody,      \* nobody holds the lock
    MaxWrites,   \* bound: files changed by hand
    MaxFaults,   \* bound: git commands and guards that fail
    MaxDeaths    \* bound: runs killed

ASSUME WorktreeAssumption ==
    /\ RefFile \notin Files
    /\ Target \in [Runs -> Files]
    /\ Nobody \notin Runs
    /\ MaxWrites \in Nat /\ MaxFaults \in Nat /\ MaxDeaths \in Nat

(* What a patch or the owner writes is told apart from what was there. *)
ASSUME ContentsAssumption ==
    /\ Original # Absent
    /\ \A r \in Runs : <<"patch", r>> \notin {Original, Absent}
    /\ \A n \in 1 .. MaxWrites : <<"owner", n>> \notin {Original, Absent}

VARIABLES
    commits,   \* every commit made so far, by number
    head,      \* HEAD of the main tree
    work,      \* the working tree of the main tree
    wtRun,     \* the state of each run
    wlock,     \* the holder of .nerve/scratch/worktrees/.lock
    wrote,     \* history: what the owner last wrote to each file
    raced,     \* history: the owner acted between a run's checks and merge
    faults, deaths, writes

worktreeVars == <<commits, head, work, wtRun, wlock, wrote, raced, faults,
                  deaths, writes>>
mainVars == <<commits, head, work, wrote, raced, writes>>

-----------------------------------------------------------------------------
Paths == Files \cup {RefFile}
TreeOf(c) == commits[c].tree
Clean == work = TreeOf(head)

(* The commits that d descends from, d included; a parent is older. *)
Ancestors(history, d) ==
    LET anc[c \in 0 .. Len(history)] ==
            IF c = 0 THEN {} ELSE {c} \cup anc[history[c].parent]
    IN anc[d]

NoTree == [f \in Paths |-> Absent]
Fresh == [pc |-> "lock", base |-> 0, tip |-> 0, bundle |-> FALSE,
          place |-> "none", tree |-> NoTree, goal |-> "prepare"]
Final == {"done", "failed", "dead"}
Window == {"head", "escape", "merge", "rewind"}

At(r, pc) == wtRun[r].pc = pc
Fault == faults > 0 /\ faults' = faults - 1
NoFault == UNCHANGED faults
Release == wlock' = Nobody

(* cleanup_worktree: git worktree remove, with --force, or quarantine;     *)
(* only a removed worktree loses its branch too.                           *)
Removed(state, pc) == [state EXCEPT !.pc = pc, !.place = "gone", !.tip = 0]
Quarantined(state, pc) == [state EXCEPT !.pc = pc, !.place = "orphaned"]
CleanUp(r, pc) ==
    \/ wtRun' = [wtRun EXCEPT ![r] = Removed(@, pc)] /\ NoFault
    \/ wtRun' = [wtRun EXCEPT ![r] = Quarantined(@, pc)] /\ Fault

WorktreeInit ==
    /\ commits = <<[parent |-> 0,
                    tree |-> [f \in Paths |-> IF f = RefFile THEN Absent
                                              ELSE Original]]>>
    /\ head = 1
    /\ work = TreeOf(1)
    /\ wtRun = [r \in Runs |-> Fresh]
    /\ wlock = Nobody
    /\ wrote = [f \in Files |-> Absent]
    /\ raced = FALSE
    /\ faults = MaxFaults /\ deaths = MaxDeaths /\ writes = MaxWrites

-----------------------------------------------------------------------------
(* WorktreeLock::acquire waits as long as it takes. *)
Acquire(r) ==
    /\ At(r, "lock")
    /\ wlock = Nobody
    /\ wlock' = r
    /\ wtRun' = [wtRun EXCEPT ![r].pc =
                 IF wtRun[r].goal = "discard" THEN "discard" ELSE "check"]
    /\ UNCHANGED <<mainVars, faults, deaths>>

(* check_disk_space and ensure_clean_main, in prepare_round and in         *)
(* merge_round.  A refusal ends the run: nothing is cleaned up.            *)
Refuse(r) ==
    /\ At(r, "check")
    /\ IF Clean THEN Fault ELSE NoFault
    /\ wtRun' = [wtRun EXCEPT ![r].pc = "failed"]
    /\ Release
    /\ UNCHANGED <<mainVars, deaths>>

CheckClean(r) ==
    /\ At(r, "check")
    /\ Clean
    /\ wtRun' = [wtRun EXCEPT ![r].pc =
                 IF wtRun[r].goal = "prepare" THEN "bundle" ELSE "head"]
    /\ UNCHANGED <<mainVars, wlock, faults, deaths>>

(* prepare_round: the oid of HEAD and a bundle of it, *)
RecordHead(r) ==
    /\ At(r, "bundle")
    /\ wtRun' = [wtRun EXCEPT ![r].pc = "add", ![r].base = head,
                          ![r].bundle = TRUE]
    /\ UNCHANGED <<mainVars, wlock, faults, deaths>>

(* git worktree add -b, *)
AddWorktree(r) ==
    /\ At(r, "add")
    /\ wtRun' = [wtRun EXCEPT ![r].pc = "ref", ![r].place = "worktree",
                          ![r].tip = wtRun[r].base,
                          ![r].tree = TreeOf(wtRun[r].base)]
    /\ UNCHANGED <<mainVars, wlock, faults, deaths>>

(* and main-pre.ref inside the new worktree. *)
WritePreRef(r) ==
    /\ At(r, "ref")
    /\ wtRun' = [wtRun EXCEPT ![r].pc = "apply",
                          ![r].tree[RefFile] = <<"ref", wtRun[r].base>>]
    /\ Release
    /\ UNCHANGED <<mainVars, faults, deaths>>

(* A command of prepare_round fails: the error leaves what was made. *)
PrepareFails(r) ==
    /\ wtRun[r].pc \in {"bundle", "add", "ref"}
    /\ Fault
    /\ wtRun' = [wtRun EXCEPT ![r].pc = "failed"]
    /\ Release
    /\ UNCHANGED <<mainVars, deaths>>

-----------------------------------------------------------------------------
(* apply_patch_in_worktree: the patch fits only the content it was made    *)
(* for; a round that fails is discarded.                                   *)
ApplyInWorktree(r) ==
    LET f == Target[r] IN
    /\ At(r, "apply")
    /\ wtRun' = IF wtRun[r].tree[f] = Original
              THEN [wtRun EXCEPT ![r].pc = "commit",
                               ![r].tree[f] = <<"patch", r>>]
              ELSE [wtRun EXCEPT ![r].pc = "lock", ![r].goal = "discard"]
    /\ UNCHANGED <<mainVars, wlock, faults, deaths>>

(* commit_worktree_round: git add -A and git commit, main-pre.ref too. *)
CommitRound(r) ==
    /\ At(r, "commit")
    /\ commits' = Append(commits, [parent |-> wtRun[r].tip,
                                   tree |-> wtRun[r].tree])
    /\ wtRun' = [wtRun EXCEPT ![r].pc = "lock", ![r].goal = "merge",
                          ![r].tip = Len(commits) + 1]
    /\ UNCHANGED <<head, work, wlock, wrote, raced, faults, deaths, writes>>

CommitFails(r) ==
    /\ At(r, "commit")
    /\ Fault
    /\ wtRun' = [wtRun EXCEPT ![r].pc = "lock", ![r].goal = "discard"]
    /\ UNCHANGED <<mainVars, wlock, deaths>>

(* Mutation: merge_round without ensure_main_head_unchanged. *)
CheckHead_Skip(r) ==
    /\ At(r, "head")
    /\ wtRun' = [wtRun EXCEPT ![r].pc = "escape"]
    /\ UNCHANGED <<mainVars, wlock, faults, deaths>>

(* ensure_main_head_unchanged, in merge_round: a moved HEAD ends the run   *)
(* after its worktree is cleaned up.                                       *)
CheckHead(r) ==
    /\ At(r, "head")
    /\ IF head = wtRun[r].base
       THEN /\ wtRun' = [wtRun EXCEPT ![r].pc = "escape"]
            /\ NoFault /\ UNCHANGED wlock
       ELSE CleanUp(r, "failed") /\ Release
    /\ UNCHANGED <<mainVars, deaths>>

(* verify_no_escape of every changed path: a symlink quarantines. *)
VerifyNoEscape(r) ==
    /\ At(r, "escape")
    /\ wtRun' = [wtRun EXCEPT ![r].pc = "merge"]
    /\ UNCHANGED <<mainVars, wlock, faults, deaths>>

EscapeFound(r) ==
    /\ At(r, "escape")
    /\ Fault
    /\ wtRun' = [wtRun EXCEPT ![r] = Quarantined(@, "failed")]
    /\ Release
    /\ UNCHANGED <<mainVars, deaths>>

(* git merge --ff-only: HEAD must be an ancestor of the tip, and no        *)
(* uncommitted change may be in the way of a file the merge changes.       *)
Changed(c, d) == {f \in Paths : TreeOf(c)[f] # TreeOf(d)[f]}
CanFastForward(r) ==
    /\ head \in Ancestors(commits, wtRun[r].tip)
    /\ \A f \in Changed(head, wtRun[r].tip) : work[f] = TreeOf(head)[f]

MergeFastForward(r) ==
    LET tip == wtRun[r].tip IN
    /\ At(r, "merge")
    /\ CanFastForward(r)
    /\ head' = tip
    /\ work' = [f \in Paths |-> IF f \in Changed(head, tip)
                                THEN TreeOf(tip)[f] ELSE work[f]]
    /\ wtRun' = [wtRun EXCEPT ![r].pc = "cleanup"]
    /\ UNCHANGED <<commits, wlock, wrote, raced, faults, deaths, writes>>

MergeRefused(r) ==
    /\ At(r, "merge")
    /\ IF CanFastForward(r) THEN Fault ELSE NoFault
    /\ wtRun' = [wtRun EXCEPT ![r].pc = "rewind"]
    /\ UNCHANGED <<mainVars, wlock, deaths>>

(* rewind_main: reset --hard to the recorded oid, else reset --merge,      *)
(* which keeps uncommitted changes, else an error.  The round stays.       *)
RewindMain(r) ==
    LET base == wtRun[r].base IN
    /\ At(r, "rewind")
    /\ \/ head' = base /\ work' = TreeOf(base) /\ NoFault
       \/ /\ head' = base
          /\ work' = [f \in Paths |-> IF f \in Changed(head, base)
                                      THEN TreeOf(base)[f] ELSE work[f]]
          /\ Fault
       \/ UNCHANGED <<head, work>> /\ Fault
    /\ wtRun' = [wtRun EXCEPT ![r].pc = "failed"]
    /\ Release
    /\ UNCHANGED <<commits, wrote, raced, deaths, writes>>

CleanMerged(r) ==
    /\ At(r, "cleanup")
    /\ CleanUp(r, "done")
    /\ Release
    /\ UNCHANGED <<mainVars, deaths>>

(* discard_round cleans up whether or not HEAD moved. *)
DiscardRound(r) ==
    /\ At(r, "discard")
    /\ CleanUp(r, "failed")
    /\ Release
    /\ UNCHANGED <<mainVars, deaths>>

-----------------------------------------------------------------------------
(* A kill frees the lock and leaves everything else. *)
Die(r) ==
    /\ wtRun[r].pc \notin Final
    /\ deaths > 0
    /\ deaths' = deaths - 1
    /\ wtRun' = [wtRun EXCEPT ![r].pc = "dead"]
    /\ wlock' = IF wlock = r THEN Nobody ELSE wlock
    /\ UNCHANGED <<mainVars, faults>>

(* The owner of the main tree changes a file, or commits what is changed. *)
Racing == \E r \in Runs : wtRun[r].pc \in Window

OwnerEdits(f) ==
    /\ writes > 0
    /\ writes' = writes - 1
    /\ work' = [work EXCEPT ![f] = <<"owner", writes>>]
    /\ wrote' = [wrote EXCEPT ![f] = <<"owner", writes>>]
    /\ raced' = (raced \/ Racing)
    /\ UNCHANGED <<commits, head, wtRun, wlock, faults, deaths>>

OwnerCommits ==
    /\ ~Clean
    /\ commits' = Append(commits, [parent |-> head, tree |-> work])
    /\ head' = Len(commits) + 1
    /\ raced' = (raced \/ Racing)
    /\ UNCHANGED <<work, wtRun, wlock, wrote, faults, deaths, writes>>

RunStep(r) ==
    \/ Acquire(r) \/ Refuse(r) \/ CheckClean(r)
    \/ RecordHead(r) \/ AddWorktree(r) \/ WritePreRef(r) \/ PrepareFails(r)
    \/ ApplyInWorktree(r) \/ CommitRound(r) \/ CommitFails(r)
    \/ CheckHead(r) \/ VerifyNoEscape(r) \/ EscapeFound(r)
    \/ MergeFastForward(r) \/ MergeRefused(r) \/ RewindMain(r)
    \/ CleanMerged(r) \/ DiscardRound(r)

WorktreeNext ==
    \/ \E r \in Runs : RunStep(r) \/ Die(r)
    \/ \E f \in Files : OwnerEdits(f)
    \/ OwnerCommits

(* A run that can take a step takes it: every step is a git command or a   *)
(* file operation that returns.                                            *)
WorktreeFairness == \A r \in Runs : WF_worktreeVars(RunStep(r))

WorktreeSpec == WorktreeInit /\ [][WorktreeNext]_worktreeVars
FairWorktreeSpec == WorktreeSpec /\ WorktreeFairness

-----------------------------------------------------------------------------
(* Type correctness. *)
WorktreeTypeOK ==
    /\ head \in DOMAIN commits
    /\ wlock \in Runs \cup {Nobody}
    /\ \A r \in Runs : wtRun[r].place \in {"none", "worktree", "gone", "orphaned"}
    /\ \A r \in Runs : wtRun[r].tip \in 0 .. Len(commits)

(* What the owner wrote is still in the main tree, committed or not, after *)
(* any mixture of rounds, failures and kills, unless the owner acted       *)
(* between the checks of a merge and the merge (worktree.rs:201-229).      *)
OwnerWorkKept ==
    ~raced => \A f \in Files : wrote[f] # Absent => work[f] = wrote[f]

(* A run that reported success has its commit in the history of HEAD: a    *)
(* later round or a rewind never takes it out again.                       *)
MergedStays ==
    ~raced => \A r \in Runs : At(r, "done") =>
        work[Target[r]] \in {<<"patch", r>>, wrote[Target[r]]}

(* A run that failed left nothing of its patch in the main tree.           *)
FailedLeavesMain ==
    \A r \in Runs : At(r, "failed") => work[Target[r]] # <<"patch", r>>

(* Before anything of a round exists the bundle of the recorded HEAD does, *)
(* and two rounds are never in their guarded parts at once, a killed one   *)
(* not blocking the next (worktree.rs:136-178, 626-644).                   *)
GuardedByLock ==
    \A r \in Runs :
        /\ wtRun[r].place # "none" => wtRun[r].bundle
        /\ wtRun[r].pc \notin Final \cup {"lock", "apply", "commit"} => wlock = r

(* Whatever rounds, failures and kills there were, the main tree holds     *)
(* what its owner wrote and what a run reported as merged, and nothing of  *)
(* a run that failed: worktree.rs:136-241 with its lock at 626-644.        *)
MainTreeKept ==
    /\ WorktreeTypeOK
    /\ OwnerWorkKept
    /\ MergedStays
    /\ FailedLeavesMain
    /\ GuardedByLock

(* Every run has ended or was killed.  It is the state all runs come to,   *)
(* although the lock has no timeout (worktree.rs:626-644).                 *)
RunsOver == \A r \in Runs : wtRun[r].pc \in Final
=============================================================================
