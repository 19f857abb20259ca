----------------------------- MODULE PatchApply -----------------------------
(***************************************************************************)
(* NvPatch (nerve-patch/lib.rs): a multi-file patch is built from a diff,  *)
(* validated by hash, applied with snapshots that are restored when a file *)
(* operation fails, and rolled back.  A file operation may fail, the       *)
(* process may be killed between two of them, and the user may edit files  *)
(* meanwhile.                                                              *)
(***************************************************************************)
EXTENDS Naturals, Sequences

CONSTANTS
    Paths,       \* relative paths that ensure_safe_relative_path lets pass
    Above,       \* the paths a path runs through
    Texts,       \* UTF-8 contents
    Empty,       \* the empty one
    Binary,      \* content that is not UTF-8
    Missing,     \* no file at a path
    Dir,         \* a directory at a path
    Trees,       \* the trees a history starts from
    Diffs,       \* the unified diffs: sequences of DiffType
    MaxOps,      \* bound: apply and rollback calls
    FaultPhases, \* phases of a call in which a file operation may fail
    MaxEdits,    \* bound: edits by the user
    MaxCrashes   \* bound: kills

Nodes == Texts \cup {Binary, Missing, Dir}

(* What a file diff says; `from` matters for a rename only. *)
DiffType == [op : {"modify", "create", "delete", "rename"},
             path : Paths, from : Paths, modified : Texts]

(* FilePatch: the hashes are those of the two texts. *)
EntryType == [op : {"modify", "create", "delete", "rename"},
              path : Paths, from : Paths, original : Texts, modified : Texts]

IsFile(t, p) == t[p] \in Texts \cup {Binary}

(* Nothing is below a file, and a file's directory exists. *)
WellFormed(t) ==
    \A p \in Paths : t[p] # Missing => \A q \in Above[p] : t[q] = Dir

ASSUME PatchAssumption ==
    /\ Above \in [Paths -> SUBSET Paths]
    /\ \A p \in Paths :
          p \notin Above[p] /\ \A q \in Above[p] : Above[q] \subseteq Above[p]
    /\ Empty \in Texts
    /\ Binary # Missing /\ Binary # Dir /\ Missing # Dir
    /\ {Binary, Missing, Dir} \cap Texts = {}
    /\ Trees \subseteq {t \in [Paths -> Nodes] : WellFormed(t)}
    /\ Diffs \subseteq Seq(DiffType)
    /\ {MaxOps, MaxEdits, MaxCrashes} \subseteq Nat
    /\ FaultPhases \subseteq {"running", "restoring"}

VARIABLES
    tree,     \* what is on disk
    patch,    \* the entries of the NvPatch
    pc,       \* idle, or the phase of the call that runs
    mode,     \* apply or rollback: the call that runs or ran last
    entry,    \* the entry in hand; in a restore, the snapshot
    part,     \* which of its file operations or paths
    snaps,    \* the captured snapshots
    result,   \* how the last call ended
    faults,   \* phases of this call that were hit by a fault
    ops, edits, crashes,
    before,   \* history: the tree when the call began
    fresh,    \* history: paths edited since then
    base      \* history: the tree before the apply still in force, unless edited

patchVars == <<tree, patch, pc, mode, entry, part, snaps, result, faults>>
bounds    == <<ops, edits, crashes>>
history   == <<before, fresh, base>>
vars      == <<patchVars, bounds, history>>

-----------------------------------------------------------------------------
(***************************************************************************)
(* File operations.                                                        *)
(***************************************************************************)

Exists(t, p) == t[p] # Missing

(* The path runs through a file. *)
NotADirectory(t, p) == \E q \in Above[p] : IsFile(t, q)

(* read_to_string: a missing file reads as empty; a directory, a path      *)
(* through a file and binary content are errors.                           *)
Readable(t, p) == ~NotADirectory(t, p) /\ t[p] \in Texts \cup {Missing}
ReadToString(t, p) == IF t[p] = Missing THEN Empty ELSE t[p]

WriteOp(p, v) == [op |-> "write", path |-> p, value |-> v]
RemoveOp(p)   == [op |-> "remove", path |-> p, value |-> Missing]

(* write_bytes cannot create a directory over a file, nor rename its       *)
(* temporary file over a directory.  remove_file ignores a missing file    *)
(* and cannot remove a directory.                                          *)
Possible(t, s) ==
    /\ t[s.path] # Dir
    /\ s.op = "write" => ~NotADirectory(t, s.path)

(* The tree after a file operation; writing makes the directories of the   *)
(* path, and shows the new content at once (temporary file and rename).    *)
Done(t, s) ==
    [p \in Paths |->
        IF p = s.path THEN s.value
        ELSE IF s.op = "write" /\ p \in Above[s.path] THEN Dir ELSE t[p]]

(* What is there when a write fails on its way: some of the directories.   *)
Begun(t, s) ==
    {t} \cup {[p \in Paths |-> IF p \in {q} \cup Above[q] THEN Dir ELSE t[p]] :
                 q \in IF s.op = "write" THEN Above[s.path] ELSE {}}

-----------------------------------------------------------------------------
(***************************************************************************)
(* FilePatch                                                               *)
(***************************************************************************)

(* to_file_patch reads the original of an entry. *)
SourcePath(d) == IF d.op = "rename" THEN d.from ELSE d.path
ParseOK(t, d) == d.op = "create" \/ Readable(t, SourcePath(d))
FilePatch(t, d) ==
    [op |-> d.op, path |-> d.path, from |-> d.from,
     original |-> IF d.op = "create" THEN Empty
                  ELSE ReadToString(t, SourcePath(d)),
     modified |-> d.modified]

(* validate_operation_state *)
OperationStateOK(t, f, rollback) ==
    IF rollback
    THEN f.op = "rename" => ~Exists(t, f.from)
    ELSE /\ f.op \in {"create", "rename"} => ~Exists(t, f.path)
         /\ f.op = "delete" => Exists(t, f.path)
         /\ f.op = "rename" => Exists(t, f.from)

(* validation_path *)
ValidationPath(f, rollback) ==
    IF f.op = "rename" /\ ~rollback THEN f.from ELSE f.path

(* Mutation: a rollback does not compare hashes. *)
HashOK_ApplyOnly(t, f, rollback) ==
    LET p == ValidationPath(f, rollback) IN
    /\ Readable(t, p)
    /\ ~rollback => ReadToString(t, p) = f.original

HashOK(t, f, rollback) ==
    LET p == ValidationPath(f, rollback) IN
    /\ Readable(t, p)
    /\ ReadToString(t, p) = IF rollback THEN f.modified ELSE f.original

Valid(t, f, rollback) ==
    OperationStateOK(t, f, rollback) /\ HashOK(t, f, rollback)

(* FilePatch::apply, as file operations. *)
ApplyOps(f) ==
    CASE f.op = "delete" -> <<RemoveOp(f.path)>>
      [] f.op = "rename" -> <<WriteOp(f.path, f.modified), RemoveOp(f.from)>>
      [] OTHER           -> <<WriteOp(f.path, f.modified)>>

(* Mutation: the rollback of a rename forgets the new name. *)
RollbackOps_KeepTarget(f) ==
    CASE f.op = "create" -> <<RemoveOp(f.path)>>
      [] f.op = "rename" -> <<WriteOp(f.from, f.original)>>
      [] OTHER           -> <<WriteOp(f.path, f.original)>>

(* FilePatch::rollback *)
RollbackOps(f) ==
    CASE f.op = "create" -> <<RemoveOp(f.path)>>
      [] f.op = "rename" -> <<WriteOp(f.from, f.original), RemoveOp(f.path)>>
      [] OTHER           -> <<WriteOp(f.path, f.original)>>

(* Mutation: the source of a rename is not snapshotted. *)
ChangedPaths_TargetOnly(f) == <<f.path>>

(* changed_paths *)
ChangedPaths(f) ==
    IF f.op = "rename" THEN <<f.from, f.path>> ELSE <<f.path>>

(* FileSnapshot::restore *)
RestoreOp(s) ==
    IF s.node = Missing THEN RemoveOp(s.path) ELSE WriteOp(s.path, s.node)

(* The file operations on entry f, and the one in hand: restore_snapshots  *)
(* goes through the snapshots from the last to the first.                  *)
OpsOn(f) == IF mode = "rollback" THEN RollbackOps(f) ELSE ApplyOps(f)
InHand ==
    IF pc = "restoring" THEN RestoreOp(snaps[entry]) ELSE OpsOn(patch[entry])[part]

-----------------------------------------------------------------------------
(***************************************************************************)
(* NvPatch                                                                 *)
(***************************************************************************)

(* from_unified_diff succeeded: the patch carries what it read. *)
Init ==
    /\ tree \in Trees
    /\ \E d \in Diffs :
          /\ \A i \in DOMAIN d : ParseOK(tree, d[i])
          /\ patch = [i \in DOMAIN d |-> FilePatch(tree, d[i])]
    /\ pc = "idle"
    /\ mode = "apply"
    /\ entry = 1 /\ part = 1 /\ snaps = <<>>
    /\ result = "none"
    /\ faults = {}
    /\ ops = 0 /\ edits = 0 /\ crashes = 0
    /\ before = tree /\ fresh = {} /\ base = <<>>

(* `nv apply` and `nv rollback`. *)
Begin(m) ==
    /\ pc = "idle"
    /\ ops < MaxOps
    /\ ops' = ops + 1
    /\ mode' = m
    /\ pc' = "validating"
    /\ result' = "none"
    /\ faults' = {}
    /\ before' = tree /\ fresh' = {}
    /\ UNCHANGED <<tree, patch, entry, part, snaps, edits, crashes, base>>

(* The call returns. *)
Return(r) ==
    /\ pc' = "idle"
    /\ result' = r
    /\ entry' = 1 /\ part' = 1 /\ snaps' = <<>>

(* An entry of n parts: the next part, or the next entry. *)
Advance(n) ==
    /\ entry' = IF part < n THEN entry ELSE entry + 1
    /\ part' = IF part < n THEN part + 1 ELSE 1

(* validate, one entry *)
Validate ==
    /\ pc = "validating"
    /\ entry <= Len(patch)
    /\ IF Valid(tree, patch[entry], mode = "rollback")
       THEN Advance(1) /\ UNCHANGED <<pc, snaps, result>>
       ELSE Return("rejected")
    /\ UNCHANGED <<tree, patch, mode, faults, bounds, history>>

(* capture_snapshots, one file; a directory is an error. *)
Capture ==
    /\ pc = "capturing"
    /\ entry <= Len(patch)
    /\ LET changed == ChangedPaths(patch[entry]) IN
       IF tree[changed[part]] = Dir THEN Return("rejected")
       ELSE /\ snaps' = Append(snaps, [path |-> changed[part],
                                       node |-> tree[changed[part]]])
            /\ Advance(Len(changed))
            /\ UNCHANGED <<pc, result>>
    /\ UNCHANGED <<tree, patch, mode, faults, bounds, history>>

(* After its loop over the entries; rollback takes no snapshots. *)
NextPhase ==
    /\ pc \in {"validating", "capturing"}
    /\ entry > Len(patch)
    /\ pc' = IF pc = "validating" /\ mode = "apply" THEN "capturing" ELSE "running"
    /\ entry' = 1 /\ part' = 1
    /\ UNCHANGED <<tree, patch, mode, snaps, result, faults, bounds, history>>

Working ==
    \/ pc = "running" /\ entry <= Len(patch)
    \/ pc = "restoring" /\ entry > 0

(* The next file operation succeeds. *)
Step ==
    /\ Working
    /\ Possible(tree, InHand)
    /\ tree' = Done(tree, InHand)
    /\ IF pc = "restoring" THEN entry' = entry - 1 /\ UNCHANGED part
       ELSE Advance(Len(OpsOn(patch[entry])))
    /\ UNCHANGED <<patch, pc, mode, snaps, result, faults, bounds, history>>

(* It fails, for good reason or by a fault: apply restores its snapshots,  *)
(* a failed restore is RollbackFailed, and rollback returns the error.     *)
Fail ==
    /\ Working
    /\ IF Possible(tree, InHand)
       THEN /\ pc \in FaultPhases /\ faults' = faults \cup {pc}
            /\ tree' \in Begun(tree, InHand)
       ELSE UNCHANGED <<tree, faults>>
    /\ IF pc = "restoring" THEN Return("rollbackFailed")
       ELSE IF mode = "rollback" THEN Return("failed")
       ELSE /\ pc' = "restoring"
            /\ entry' = Len(snaps) /\ part' = 1
            /\ UNCHANGED <<snaps, result>>
    /\ UNCHANGED <<patch, mode, bounds, before, fresh>>
    /\ base' = IF mode = "rollback" \/ pc = "restoring" THEN <<>> ELSE base

Finish ==
    /\ pc \in {"running", "restoring"} /\ ~Working
    /\ Return(IF pc = "restoring" THEN "failed" ELSE "ok")
    /\ base' = IF pc = "running" /\ mode = "apply"
               THEN IF fresh = {} THEN before ELSE <<>>
               ELSE base
    /\ UNCHANGED <<tree, patch, mode, faults, bounds, before, fresh>>

(* The process is killed. *)
Crash ==
    /\ pc # "idle"
    /\ crashes < MaxCrashes
    /\ crashes' = crashes + 1
    /\ Return("killed")
    /\ base' = <<>>
    /\ UNCHANGED <<tree, patch, mode, faults, ops, edits, before, fresh>>

(* The user writes or removes a file. *)
Edit(p, v) ==
    /\ edits < MaxEdits
    /\ edits' = edits + 1
    /\ v # tree[p] /\ tree[p] # Dir
    /\ ~NotADirectory(tree, p)
    /\ tree' = Done(tree, IF v = Missing THEN RemoveOp(p) ELSE WriteOp(p, v))
    /\ fresh' = fresh \cup {p}
    /\ base' = <<>>
    /\ UNCHANGED <<patch, pc, mode, entry, part, snaps, result, faults, ops,
                   crashes, before>>

Call == Validate \/ Capture \/ NextPhase \/ Step \/ Fail \/ Finish

Next ==
    \/ \E m \in {"apply", "rollback"} : Begin(m)
    \/ Call
    \/ Crash
    \/ \E p \in Paths, v \in Texts \cup {Binary, Missing} : Edit(p, v)

Spec == Init /\ [][Next]_vars

-----------------------------------------------------------------------------
(***************************************************************************)
(* Properties                                                              *)
(***************************************************************************)

(* Every variable has its type, and the tree stays a tree. *)
PatchTypeOK ==
    /\ tree \in [Paths -> Nodes] /\ WellFormed(tree)
    /\ patch \in Seq(EntryType) /\ entry \in Nat /\ part \in {1, 2}
    /\ pc \in {"idle", "validating", "capturing", "running", "restoring"}
    /\ mode \in {"apply", "rollback"}
    /\ snaps \in Seq([path : Paths, node : Texts \cup {Binary, Missing}])
    /\ result \in {"none", "ok", "rejected", "failed", "rollbackFailed",
                   "killed"}
    /\ faults \subseteq FaultPhases /\ ops \in 0 .. MaxOps
    /\ edits \in 0 .. MaxEdits /\ crashes \in 0 .. MaxCrashes

(* Two trees hold the same file, or none, at a path. *)
SameFile(t, u, p) == IsFile(t, p) \/ IsFile(u, p) => t[p] = u[p]

(* An apply that returns an error leaves every file as it found it, except *)
(* those the user edited meanwhile, unless a fault hits the restore too:   *)
(* validation errors come before the first write, and snapshots are        *)
(* restored (README: "restores them automatically if any file operation    *)
(* fails").                                                                *)
FailedApplyRestored ==
    /\ pc = "idle" /\ mode = "apply"
    /\ result \in {"rejected", "failed", "rollbackFailed"}
    /\ "restoring" \notin faults
    => \A p \in Paths \ fresh : SameFile(tree, before, p)

(* The paths of an entry. *)
Named(f) == IF f.op = "rename" THEN {f.from, f.path} ELSE {f.path}

(* The same for every patch none of whose paths has another path below it: *)
(* whatever fails, is edited or lies in directories that have to be made,  *)
(* the restore itself cannot be refused (nerve-patch lib.rs:139-156,       *)
(* 224-276).                                                               *)
LeafApplyRestored ==
    (\A p \in Paths, i \in DOMAIN patch : Above[p] \cap Named(patch[i]) = {})
    => FailedApplyRestored

(* A text that the patch knows for a path. *)
Knows(p, v) ==
    \E i \in DOMAIN patch :
        \/ p \in Named(patch[i]) /\ v = patch[i].original
        \/ p = patch[i].path /\ v = patch[i].modified

(* Neither apply nor rollback destroys content the patch has never seen    *)
(* (an edit made before the call), not after a kill or a failed call       *)
(* either: the hashes are compared first.  Only a file edited while the    *)
(* call runs is at risk.                                                   *)
UserContentKept ==
    [][Call => \A p \in Paths \ fresh :
          IsFile(tree, p) /\ tree'[p] # tree[p] =>
              tree[p] = Empty \/ Knows(p, tree[p])]_vars

(* Some entry modified a file that was not there. *)
ModifiedMissing ==
    \E i \in DOMAIN patch :
        base # <<>> /\ patch[i].op = "modify" /\ base[patch[i].path] = Missing

RolledBack ==
    pc = "idle" /\ mode = "rollback" /\ result = "ok" /\ base # <<>>

(* A rollback that succeeds after an apply, with no edit or kill between,  *)
(* brings back the files the apply found, also for patches that name a     *)
(* path twice; an entry that modified a missing file aside.  The tree is   *)
(* one at every step.                                                      *)
RoundTrip ==
    /\ PatchTypeOK
    /\ RolledBack /\ ~ModifiedMissing =>
        \A p \in Paths : SameFile(tree, base, p)

=============================================================================
