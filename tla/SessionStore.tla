---------------------------- MODULE SessionStore ----------------------------
(***************************************************************************)
(* The session store of nerve-core (store.rs): the reports, checkpoints,   *)
(* patches and metadata of runs as JSON files under .nerve/, written by    *)
(* several nv processes at once.  Every file is replaced with a temporary  *)
(* file and a rename, so a write is one step; what is not atomic is the    *)
(* sequence of writes of one operation.  Only the patch index is guarded,  *)
(* by a lock file made with create_new that a killed process leaves        *)
(* behind.  A run has at most one patch, whose id is as fresh as the run's *)
(* own, so the patch of run s is called s here.                            *)
(***************************************************************************)
EXTENDS Naturals, FiniteSets

CONSTANTS
    StoreProcs,   \* nv processes: runs, nv apply, nv rollback, nv name, ...
    Sessions,     \* run ids
    NoSession,    \* no run: an empty field
    Free,         \* the lock file does not exist
    MaxKills,     \* bound: processes killed
    MaxTimeouts,  \* bound: lock waits that give up
    MaxEdits      \* bound: apply, rollback and name calls

ASSUME StoreAssumption ==
    /\ NoSession \notin Sessions
    /\ Free \notin StoreProcs
    /\ MaxKills \in Nat /\ MaxTimeouts \in Nat /\ MaxEdits \in Nat

VARIABLES
    report,      \* .nerve/sessions/<id>.json
    patchFile,   \* ids of .nerve/patches/<id>.json
    index,       \* the records of .nerve/patches/index.json: applied or not
    lock,        \* the creator of .nerve/patches/index.lock
    checkpoint,  \* ids of .nerve/checkpoints/<id>.json
    meta,        \* .nerve/session-meta/<id>.json: named? parent?
    tree,        \* ids of the patches whose effect is in the working tree
    op,          \* what each process is doing
    started,     \* run ids in use
    torn,        \* history: patches whose tree and record may have parted
    quota        \* kills, timeouts and calls left

storeVars == <<report, patchFile, index, lock, checkpoint, meta, tree, op,
               started, torn, quota>>

-----------------------------------------------------------------------------
Records == {"none", "applied", "unapplied"}
Record(applied) == IF applied THEN "applied" ELSE "unapplied"

NoReport == [stored |-> FALSE, applied |-> FALSE, patch |-> FALSE]
Stored(s) == report[s].stored

(* One operation of a process: what, on which run, where in it, and what   *)
(* it read or decided on the way.                                          *)
Steps == {"idle", "rounds", "report", "patch", "tree", "lock", "read",
          "write", "session", "unlock", "clear", "linkRead", "linkWrite",
          "nameRead", "nameWrite"}
Idle == [step |-> "idle", kind |-> "none", id |-> NoSession,
         parent |-> NoSession, applied |-> FALSE, patch |-> FALSE,
         seen |-> [s \in Sessions |-> "none"],
         seenMeta |-> [named |-> FALSE, parent |-> NoSession]]
At(p, step) == op[p].step = step
Goto(p, step) == op' = [op EXCEPT ![p].step = step]
End(p) == op' = [op EXCEPT ![p] = Idle]

(* A process between its change to the tree and the record of it. *)
Updating(p, s) ==
    /\ op[p].id = s
    /\ \/ op[p].kind \in {"apply", "rollback"} /\ op[p].step \in
            {"lock", "read", "write"}
       \/ op[p].kind = "run" /\ op[p].applied /\ op[p].step \in
            {"report", "patch", "lock", "read", "write"}

(* The run ids this process would leave with a tree that no record shows. *)
Interrupted(p) == {s \in Sessions : Updating(p, s)}

StoreInit ==
    /\ report = [s \in Sessions |-> NoReport]
    /\ patchFile = {}
    /\ index = [s \in Sessions |-> "none"]
    /\ lock = Free
    /\ checkpoint = {}
    /\ meta = [s \in Sessions |-> [named |-> FALSE, parent |-> NoSession]]
    /\ tree = {}
    /\ op = [p \in StoreProcs |-> Idle]
    /\ started = {}
    /\ torn = {}
    /\ quota = [kills |-> MaxKills, timeouts |-> MaxTimeouts,
                 edits |-> MaxEdits]

-----------------------------------------------------------------------------
(* nv "prompt" and nv rerun: a fresh run id, and for a rerun the parent's  *)
(* report must load first.                                                 *)
StartRun(p, s, parent) ==
    /\ At(p, "idle")
    /\ s \notin started
    /\ parent = NoSession \/ (parent \in Sessions /\ Stored(parent))
    /\ started' = started \cup {s}
    /\ op' = [op EXCEPT ![p] = [Idle EXCEPT !.step = "rounds", !.kind = "run",
                                            !.id = s, !.parent = parent]]
    /\ UNCHANGED <<report, patchFile, index, lock, checkpoint, meta, tree,
                   torn, quota>>

(* A completed round is checkpointed; a write that fails is only logged. *)
SaveCheckpoint(p) ==
    /\ At(p, "rounds")
    /\ op[p].id \notin checkpoint
    /\ checkpoint' = checkpoint \cup {op[p].id}
    /\ UNCHANGED <<report, patchFile, index, lock, meta, tree, op, started,
                   torn, quota>>

(* The loop returns a report.  An accepted patch was applied by the gate;  *)
(* a run that is blocked keeps no patch, so one field stands for both.     *)
LoopReturns(p, patch, applied) ==
    /\ At(p, "rounds")
    /\ applied => patch
    /\ op' = [op EXCEPT ![p].step = "report", ![p].patch = patch,
                        ![p].applied = applied]
    /\ tree' = IF applied THEN tree \cup {op[p].id} ELSE tree
    /\ UNCHANGED <<report, patchFile, index, lock, checkpoint, meta, started,
                   torn, quota>>

WriteReport(p) ==
    /\ At(p, "report")
    /\ report' = [report EXCEPT ![op[p].id] =
                    [stored |-> TRUE, applied |-> op[p].applied,
                     patch |-> op[p].patch]]
    /\ Goto(p, IF op[p].patch THEN "patch" ELSE "clear")
    /\ UNCHANGED <<patchFile, index, lock, checkpoint, meta, tree, started,
                   torn, quota>>

WritePatch(p) ==
    /\ At(p, "patch")
    /\ patchFile' = patchFile \cup {op[p].id}
    /\ Goto(p, "lock")
    /\ UNCHANGED <<report, index, lock, checkpoint, meta, tree, started,
                   torn, quota>>

-----------------------------------------------------------------------------
(* nv apply and nv rollback: load_patch needs the patch file only. *)
StartApply(p, s, kind) ==
    /\ At(p, "idle")
    /\ s \in patchFile
    /\ quota.edits > 0
    /\ quota' = [quota EXCEPT !.edits = @ - 1]
    /\ op' = [op EXCEPT ![p] = [Idle EXCEPT !.step = "tree", !.kind = kind,
                                            !.id = s,
                                            !.applied = (kind = "apply")]]
    /\ UNCHANGED <<report, patchFile, index, lock, checkpoint, meta, tree,
                   started, torn>>

(* NvPatch::apply needs the tree before the patch, rollback the tree after *)
(* it; otherwise the call fails and changes nothing (module PatchApply).   *)
ChangeTree(p) ==
    LET s == op[p].id IN
    /\ At(p, "tree")
    /\ IF op[p].applied = (s \in tree)
       THEN End(p) /\ UNCHANGED <<tree, torn>>
       ELSE /\ tree' = IF op[p].applied THEN tree \cup {s} ELSE tree \ {s}
            /\ Goto(p, "lock")
            /\ torn' = IF \E q \in StoreProcs \ {p} : Updating(q, s)
                       THEN torn \cup {s} ELSE torn
    /\ UNCHANGED <<report, patchFile, index, lock, checkpoint, meta, started,
                   quota>>

(* Mutation: the lock file is opened, not created anew. *)
TakeLock_Open(p) ==
    /\ At(p, "lock")
    /\ lock' = p
    /\ Goto(p, "read")
    /\ UNCHANGED <<report, patchFile, index, checkpoint, meta, tree, started,
                   torn, quota>>

(* create_new of the lock file. *)
TakeLock(p) ==
    /\ At(p, "lock")
    /\ lock = Free
    /\ lock' = p
    /\ Goto(p, "read")
    /\ UNCHANGED <<report, patchFile, index, checkpoint, meta, tree, started,
                   torn, quota>>

(* The wait for the lock gives up: the call fails where it is, with the    *)
(* tree changed or the report written and the rest undone.                 *)
LockTimeout(p) ==
    /\ At(p, "lock")
    /\ lock # Free
    /\ quota.timeouts > 0
    /\ quota' = [quota EXCEPT !.timeouts = @ - 1]
    /\ torn' = torn \cup Interrupted(p)
    /\ End(p)
    /\ UNCHANGED <<report, patchFile, index, lock, checkpoint, meta, tree,
                   started>>

ReadIndex(p) ==
    /\ At(p, "read")
    /\ op' = [op EXCEPT ![p].seen = index, ![p].step = "write"]
    /\ UNCHANGED <<report, patchFile, index, lock, checkpoint, meta, tree,
                   started, torn, quota>>

(* upsert_patch_record adds or replaces a record; set_patch_applied fails  *)
(* on a patch that is not indexed and otherwise rewrites its record.       *)
WriteIndex(p) ==
    LET s == op[p].id IN
    /\ At(p, "write")
    /\ IF op[p].kind # "run" /\ op[p].seen[s] = "none"
       THEN /\ Goto(p, "unlock")
            /\ torn' = torn \cup {s}
            /\ UNCHANGED index
       ELSE /\ index' = [op[p].seen EXCEPT ![s] = Record(op[p].applied)]
            /\ Goto(p, IF op[p].kind = "run" THEN "unlock" ELSE "session")
            /\ UNCHANGED torn
    /\ UNCHANGED <<report, patchFile, lock, checkpoint, meta, tree, started,
                   quota>>

(* Mutation: the session report is left as it was. *)
WriteSession_Skip(p) ==
    /\ At(p, "session")
    /\ Goto(p, "unlock")
    /\ UNCHANGED <<report, patchFile, index, lock, checkpoint, meta, tree,
                   started, torn, quota>>

(* set_session_applied, still under the lock. *)
WriteSession(p) ==
    LET s == op[p].id IN
    /\ At(p, "session")
    /\ report' = IF Stored(s) THEN [report EXCEPT ![s].applied = op[p].applied]
                 ELSE report
    /\ Goto(p, "unlock")
    /\ UNCHANGED <<patchFile, index, lock, checkpoint, meta, tree, started,
                   torn, quota>>

(* StoreLock::drop removes the file. *)
DropLock(p) ==
    /\ At(p, "unlock")
    /\ lock' = Free
    /\ IF op[p].kind = "run" THEN Goto(p, "clear") ELSE End(p)
    /\ UNCHANGED <<report, patchFile, index, checkpoint, meta, tree, started,
                   torn, quota>>

(* The finalized report supersedes the checkpoint; a rerun then links. *)
ClearCheckpoint(p) ==
    /\ At(p, "clear")
    /\ checkpoint' = checkpoint \ {op[p].id}
    /\ IF op[p].parent = NoSession THEN End(p) ELSE Goto(p, "linkRead")
    /\ UNCHANGED <<report, patchFile, index, lock, meta, tree, started, torn,
                   quota>>

-----------------------------------------------------------------------------
(* nv name: the session must exist; metadata is read, changed, written. *)
StartName(p, s) ==
    /\ At(p, "idle")
    /\ Stored(s)
    /\ quota.edits > 0
    /\ quota' = [quota EXCEPT !.edits = @ - 1]
    /\ op' = [op EXCEPT ![p] = [Idle EXCEPT !.step = "nameRead",
                                            !.kind = "name", !.id = s]]
    /\ UNCHANGED <<report, patchFile, index, lock, checkpoint, meta, tree,
                   started, torn>>

LoadMetadata(p) ==
    /\ op[p].step \in {"nameRead", "linkRead"}
    /\ op' = [op EXCEPT ![p].seenMeta = meta[op[p].id],
                        ![p].step = IF @ = "nameRead" THEN "nameWrite"
                                    ELSE "linkWrite"]
    /\ UNCHANGED <<report, patchFile, index, lock, checkpoint, meta, tree,
                   started, torn, quota>>

NameSession(p) ==
    /\ At(p, "nameWrite")
    /\ meta' = [meta EXCEPT ![op[p].id] = [op[p].seenMeta EXCEPT !.named = TRUE]]
    /\ End(p)
    /\ UNCHANGED <<report, patchFile, index, lock, checkpoint, tree, started,
                   torn, quota>>

LinkChildSession(p) ==
    /\ At(p, "linkWrite")
    /\ meta' = [meta EXCEPT ![op[p].id] =
                  [op[p].seenMeta EXCEPT !.parent = op[p].parent]]
    /\ End(p)
    /\ UNCHANGED <<report, patchFile, index, lock, checkpoint, tree, started,
                   torn, quota>>

(* A kill stops a process where it is; its files, the lock included, stay. *)
StoreKill(p) ==
    /\ ~At(p, "idle")
    /\ quota.kills > 0
    /\ quota' = [quota EXCEPT !.kills = @ - 1]
    /\ torn' = torn \cup Interrupted(p)
    /\ End(p)
    /\ UNCHANGED <<report, patchFile, index, lock, checkpoint, meta, tree,
                   started>>

StoreStep(p) ==
    \/ \E s \in Sessions, parent \in Sessions \cup {NoSession} :
            StartRun(p, s, parent)
    \/ SaveCheckpoint(p)
    \/ \E patch, applied \in BOOLEAN : LoopReturns(p, patch, applied)
    \/ WriteReport(p) \/ WritePatch(p)
    \/ \E s \in Sessions, kind \in {"apply", "rollback"} :
            StartApply(p, s, kind)
    \/ ChangeTree(p)
    \/ TakeLock(p) \/ LockTimeout(p)
    \/ ReadIndex(p) \/ WriteIndex(p) \/ WriteSession(p) \/ DropLock(p)
    \/ ClearCheckpoint(p)
    \/ \E s \in Sessions : StartName(p, s)
    \/ LoadMetadata(p) \/ NameSession(p) \/ LinkChildSession(p)
    \/ StoreKill(p)

StoreNext == \E p \in StoreProcs : StoreStep(p)

StoreSpec == StoreInit /\ [][StoreNext]_storeVars
-----------------------------------------------------------------------------
(* Type correctness. *)
StoreTypeOK ==
    /\ report \in [Sessions -> [stored : BOOLEAN, applied : BOOLEAN,
                                patch : BOOLEAN]]
    /\ patchFile \subseteq Sessions
    /\ index \in [Sessions -> Records]
    /\ lock \in StoreProcs \cup {Free}
    /\ checkpoint \subseteq started
    /\ meta \in [Sessions -> [named : BOOLEAN,
                              parent : Sessions \cup {NoSession}]]
    /\ tree \subseteq started
    /\ \A p \in StoreProcs : op[p].step \in Steps
    /\ started \subseteq Sessions
    /\ torn \subseteq started

(* Whenever the lock file is absent, the patch index and the session report *)
(* agree on whether a patch is applied, whatever was killed or timed out:   *)
(* set_patch_applied writes both under the lock, and a process killed       *)
(* between the two writes leaves the lock behind (store.rs:399-419).        *)
FlagsAgree ==
    lock = Free =>
        \A s \in Sessions :
            index[s] # "none" =>
                Stored(s) /\ index[s] = Record(report[s].applied)

(* Every record of the index leads to a report and to a patch file, because *)
(* save_report writes them first: nv apply of a listed patch can load it    *)
(* after any kill (store.rs:146-163).                                       *)
IndexedIsLoadable ==
    \A s \in Sessions : index[s] # "none" => Stored(s) /\ s \in patchFile

(* A record never disappears from the patch index: two processes that       *)
(* rewrite the whole file do not lose each other's records.                 *)
RecordsKept == \A s \in Sessions : index[s] # "none" => index'[s] # "none"

(* A run whose checkpoint was written can always be found again: the        *)
(* checkpoint goes away only when the report is stored (store.rs:158-162).  *)
CheckpointedRunKept ==
    \A s \in checkpoint : s \in checkpoint' \/ report'[s].stored

(* No step of any process, kills and timeouts included, makes the store     *)
(* forget a record or an unfinished run (store.rs:391-409, 201-212).        *)
StoreForgetsNothing == [][RecordsKept /\ CheckpointedRunKept]_storeVars

(* Where no call was killed, timed out or failed on the patch and no two    *)
(* calls changed its tree at once, its record says what the tree holds      *)
(* as soon as no call is between the two (store.rs:337-355, 399-409).       *)
RecordTellsTree ==
    \A s \in Sessions :
        /\ s \notin torn
        /\ \A p \in StoreProcs : ~Updating(p, s)
        /\ index[s] # "none"
        => (index[s] = "applied") = (s \in tree)

(* What one process left in `.nerve/` can be used by the next: index,       *)
(* reports and patch files fit together, and the record fits the tree       *)
(* (store.rs:146-163, 337-355, 399-419).                                    *)
StoreConsistent ==
    StoreTypeOK /\ FlagsAgree /\ IndexedIsLoadable /\ RecordTellsTree
=============================================================================
