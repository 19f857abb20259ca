------------------------ MODULE SessionStoreProofs -------------------------
(***************************************************************************)
(* Proofs about the session store, for any number of processes, killed or  *)
(* timed out at any step, and any set of run ids.                          *)
(***************************************************************************)
EXTENDS SessionStore, TLAPS

(* The operations, their metadata, reports and local state. *)
Kinds == {"none", "run", "apply", "rollback", "name"}
Metas == [named : BOOLEAN, parent : Sessions \cup {NoSession}]
Reports == [stored : BOOLEAN, applied : BOOLEAN, patch : BOOLEAN]
Ops == [step : Steps, kind : Kinds, id : Sessions \cup {NoSession},
        parent : Sessions \cup {NoSession}, applied : BOOLEAN,
        patch : BOOLEAN, seen : [Sessions -> Records], seenMeta : Metas]

(* The steps under the lock file, those only a run takes, those of a run   *)
(* before its record is written, and the operations that change the tree.  *)
InIndex == {"read", "write", "session", "unlock"}
RunOnly == {"rounds", "report", "patch", "clear", "linkRead", "linkWrite"}
RunBefore == {"rounds", "report", "patch", "lock", "read", "write"}
Edits == {"apply", "rollback"}

(* What an operation is at each of its steps. *)
OpsShaped ==
    /\ op \in [StoreProcs -> Ops]
    /\ \A p \in StoreProcs :
        /\ op[p].step = "idle" <=> op[p].kind = "none"
        /\ op[p].step # "idle" => op[p].id \in Sessions
        /\ op[p].step \in RunOnly => op[p].kind = "run"
        /\ op[p].step \in {"tree", "session"} => op[p].kind \in Edits
        /\ op[p].step \in {"nameRead", "nameWrite"} <=> op[p].kind = "name"

(* What is known of a run id: nothing before it is used, and an operation  *)
(* other than its run finds its patch file.                                *)
IdsUsed ==
    /\ patchFile \subseteq started
    /\ \A s \in Sessions \ started : index[s] = "none" /\ ~Stored(s)
    /\ \A p \in StoreProcs :
        /\ op[p].kind = "run" => op[p].id \in started
        /\ op[p].kind \in Edits => op[p].id \in patchFile
    /\ \A p, q \in StoreProcs :
          op[p].kind = "run" /\ op[q].kind = "run" /\ op[p].id = op[q].id
             => p = q

(* How far the run of an id got: its report is stored before its patch,    *)
(* its patch before its record, and until then nothing else is recorded.   *)
RunOrder ==
    \A p \in StoreProcs : op[p].kind = "run" =>
        /\ op[p].applied => op[p].patch \/ op[p].step \notin {"report"}
        /\ op[p].step \in RunBefore => index[op[p].id] = "none"
        /\ op[p].step = "rounds" => ~op[p].applied
        /\ op[p].step \in {"rounds", "report", "patch"}
              => op[p].id \notin patchFile
        /\ op[p].step \in {"patch", "lock", "read", "write"} =>
              Stored(op[p].id) /\ report[op[p].id].applied = op[p].applied
        /\ op[p].step \in {"lock", "read", "write"} => op[p].id \in patchFile
        /\ op[p].step \in {"unlock", "clear", "linkRead", "linkWrite"}
              => Stored(op[p].id)

(* The lock file: whoever works on the index made it, and what it read is  *)
(* what the index holds.                                                   *)
LockHolds ==
    \A p \in StoreProcs :
        /\ op[p].step \in InIndex => lock = p
        /\ op[p].step = "write" => op[p].seen = index
        /\ op[p].step = "session" => index[op[p].id] = Record(op[p].applied)

(* A record and a report that disagree are being written, or the lock file *)
(* was left behind.                                                        *)
FlagsDiffer ==
    \A s \in Sessions : index[s] # "none" =>
        \/ index[s] = Record(report[s].applied)
        \/ \E p \in StoreProcs : At(p, "session") /\ op[p].id = s
        \/ lock # Free /\ \A p \in StoreProcs : op[p].step \notin InIndex

(* The tree of a patch that no call has torn: one call at a time is        *)
(* between tree and record, and knows what the tree holds.                 *)
TreeKnown ==
    \A s \in Sessions \ torn :
        /\ \A p, q \in StoreProcs : Updating(p, s) /\ Updating(q, s) => p = q
        /\ \A p \in StoreProcs : Updating(p, s) => op[p].applied = (s \in tree)
        /\ (\A p \in StoreProcs : ~Updating(p, s)) =>
              (s \in tree <=> index[s] = "applied")

StoreInv ==
    /\ StoreTypeOK /\ IndexedIsLoadable
    /\ OpsShaped /\ IdsUsed /\ RunOrder /\ LockHolds /\ FlagsDiffer /\ TreeKnown

-----------------------------------------------------------------------------
(* The records of the store have their fields. *)
LEMMA StoreTyped ==
    ASSUME StoreInv
    PROVE  /\ op \in [StoreProcs -> Ops] /\ index \in [Sessions -> Records]
           /\ meta \in [Sessions -> Metas] /\ report \in [Sessions -> Reports]
           /\ \A p \in StoreProcs : op[p] \in Ops /\ op[p].step \in Steps
BY DEF StoreInv, StoreTypeOK, OpsShaped, Metas, Reports, Ops

(* The names of steps and kinds, and the fields of an operation at rest. *)
LEMMA StepNames ==
    /\ \A s \in {"idle", "rounds", "report", "patch", "tree", "lock", "read",
                  "write", "session", "unlock", "clear", "linkRead",
                  "linkWrite", "nameRead", "nameWrite"} : s \in Steps
    /\ \A k \in {"none", "run", "apply", "rollback", "name"} : k \in Kinds
    /\ "none" \in Records
    /\ [named |-> FALSE, parent |-> NoSession] \in Metas
BY DEF Steps, Kinds, Records, Metas

(* A process at rest is well typed. *)
LEMMA IdleTyped == Idle \in Ops
<1>1. [s \in Sessions |-> "none"] \in [Sessions -> Records]
  BY DEF Records
<1> QED
  BY <1>1, StepNames DEF Idle, Ops

(* A run starts under an id that was never used. *)
LEMMA StartRunKeeps ==
    ASSUME StoreInv, NEW p \in StoreProcs,
           NEW s \in Sessions, NEW parent \in Sessions \cup {NoSession},
           StartRun(p, s, parent)
    PROVE  StoreInv'
<1>a. StoreTypeOK /\ IndexedIsLoadable /\ OpsShaped /\ IdsUsed
      /\ RunOrder /\ LockHolds /\ FlagsDiffer /\ TreeKnown
  BY DEF StoreInv
<1>1. /\ op' \in [StoreProcs -> Ops]
      /\ \A q \in StoreProcs : op'[q].step \in Steps
  <2>1. op' \in [StoreProcs -> Ops]
    BY StoreTyped, StepNames, IdleTyped DEF StartRun, At, Idle, Goto, Ops
  <2> QED
    BY <2>1 DEF Ops
<1>2. /\ \A q \in StoreProcs \ {p} : op'[q] = op[q]
      /\ op'[p].step = "rounds" /\ op'[p].kind = "run" /\ op'[p].id = s
      /\ op'[p].parent = parent /\ op'[p].applied = FALSE
      /\ op'[p].patch = FALSE /\ op'[p].seen = [t \in Sessions |-> "none"]
  BY StoreTyped DEF StartRun, At, Idle, Goto, Ops
<1>3. /\ op[p].step = "idle" /\ s \notin started
      /\ started' = started \cup {s}
      /\ UNCHANGED <<report, patchFile, index, lock, checkpoint, meta, tree,
          torn>>
  BY StoreTyped DEF StartRun, At
<1>4. StoreTypeOK' /\ IndexedIsLoadable'
  BY <1>a, <1>1, <1>3 DEF StoreTypeOK, IndexedIsLoadable, Stored
<1>5. OpsShaped' /\ IdsUsed'
  BY <1>a, <1>1, <1>2, <1>3 DEF OpsShaped, Edits, IdsUsed, Stored
<1>6. RunOrder'
  BY <1>a, <1>2, <1>3 DEF RunOrder, IdsUsed, Stored
<1>7. LockHolds' /\ FlagsDiffer'
  BY <1>a, <1>2, <1>3 DEF LockHolds, InIndex, FlagsDiffer, At
<1>8. TreeKnown'
  BY <1>a, <1>2, <1>3 DEF TreeKnown, Updating
<1> QED
  BY <1>4, <1>5, <1>6, <1>7, <1>8 DEF StoreInv

(* A checkpoint after a round. *)
LEMMA SaveCheckpointKeeps ==
    ASSUME StoreInv, NEW p \in StoreProcs,
           SaveCheckpoint(p)
    PROVE  StoreInv'
<1>a. StoreTypeOK /\ IndexedIsLoadable /\ OpsShaped /\ IdsUsed
      /\ RunOrder /\ LockHolds /\ FlagsDiffer /\ TreeKnown
  BY DEF StoreInv
<1>1. /\ op' \in [StoreProcs -> Ops]
      /\ \A q \in StoreProcs : op'[q].step \in Steps
  <2>1. op' \in [StoreProcs -> Ops]
    BY StoreTyped, StepNames, IdleTyped DEF SaveCheckpoint, Ops
  <2> QED
    BY <2>1 DEF Ops
<1>2. /\ \A q \in StoreProcs \ {p} : op'[q] = op[q]
      /\ op' = op
  BY StoreTyped DEF SaveCheckpoint, Ops
<1>3. /\ op[p].step = "rounds"
      /\ checkpoint' = checkpoint \cup {op[p].id}
      /\ UNCHANGED <<report, patchFile, index, lock, meta, tree, started,
          torn>>
  BY StoreTyped DEF SaveCheckpoint, At
<1>4. StoreTypeOK' /\ IndexedIsLoadable'
  BY <1>a, <1>1, <1>3
     DEF StoreTypeOK, IdsUsed, OpsShaped, RunOnly, IndexedIsLoadable, Stored
<1>5. OpsShaped' /\ IdsUsed'
  BY <1>a, <1>2, <1>3 DEF OpsShaped, IdsUsed, Stored
<1>6. RunOrder'
  BY <1>a, <1>2, <1>3 DEF RunOrder, Stored
<1>7. LockHolds' /\ FlagsDiffer'
  BY <1>a, <1>2, <1>3 DEF LockHolds, FlagsDiffer, At
<1>8. TreeKnown'
  BY <1>a, <1>2, <1>3 DEF TreeKnown, Updating
<1> QED
  BY <1>4, <1>5, <1>6, <1>7, <1>8 DEF StoreInv

(* The loop returns with a patch or without one, applied or not. *)
LEMMA LoopReturnsKeeps ==
    ASSUME StoreInv, NEW p \in StoreProcs,
           NEW patch \in BOOLEAN, NEW applied \in BOOLEAN,
           LoopReturns(p, patch, applied)
    PROVE  StoreInv'
<1>a. StoreTypeOK /\ IndexedIsLoadable /\ OpsShaped /\ IdsUsed
      /\ RunOrder /\ LockHolds /\ FlagsDiffer /\ TreeKnown
  BY DEF StoreInv
<1>1. /\ op' \in [StoreProcs -> Ops]
      /\ \A q \in StoreProcs : op'[q].step \in Steps
  <2>1. op' \in [StoreProcs -> Ops]
    <3> DEFINE r == [op[p] EXCEPT !.step = "report", !.patch = patch,
                                  !.applied = applied]
    <3>1. op' = [op EXCEPT ![p] = r]
      BY StoreTyped DEF LoopReturns, Ops
    <3>2. op[p] \in Ops /\ "report" \in Steps
      BY StoreTyped, StepNames
    <3>3. r \in Ops
      BY <3>2 DEF Ops
    <3> HIDE DEF r
    <3> QED
      BY <3>1, <3>3, StoreTyped
  <2> QED
    BY <2>1 DEF Ops
<1>2. /\ \A q \in StoreProcs \ {p} : op'[q] = op[q]
      /\ op'[p].step = "report" /\ op'[p].kind = op[p].kind
      /\ op'[p].id = op[p].id /\ op'[p].parent = op[p].parent
      /\ op'[p].applied = applied /\ op'[p].patch = patch
      /\ op'[p].seen = op[p].seen
  BY StoreTyped DEF LoopReturns, At, Ops
<1>3. /\ op[p].step = "rounds" /\ (applied => patch)
      /\ tree' = (IF applied THEN tree \cup {op[p].id} ELSE tree)
      /\ UNCHANGED <<report, patchFile, index, lock, checkpoint, meta,
          started, torn>>
  BY StoreTyped DEF LoopReturns, At
<1>4. StoreTypeOK' /\ IndexedIsLoadable'
  BY <1>a, <1>1, <1>3
     DEF StoreTypeOK, IdsUsed, OpsShaped, RunOnly, IndexedIsLoadable, Stored
<1>5. OpsShaped' /\ IdsUsed'
  BY <1>a, <1>1, <1>2, <1>3 DEF OpsShaped, RunOnly, IdsUsed, Stored
<1>6. RunOrder'
  BY <1>a, <1>2, <1>3 DEF RunOrder, RunBefore, Stored
<1>7. LockHolds' /\ FlagsDiffer'
  BY <1>a, <1>2, <1>3 DEF LockHolds, InIndex, FlagsDiffer, At
<1>8. TreeKnown'
  BY <1>a, <1>2, <1>3
     DEF TreeKnown, RunOrder, IdsUsed, OpsShaped, Updating, RunOnly, Edits
<1> QED
  BY <1>4, <1>5, <1>6, <1>7, <1>8 DEF StoreInv

(* The report is stored; nothing is recorded of the run yet. *)
LEMMA WriteReportKeeps ==
    ASSUME StoreInv, NEW p \in StoreProcs,
           WriteReport(p)
    PROVE  StoreInv'
<1>a. StoreTypeOK /\ IndexedIsLoadable /\ OpsShaped /\ IdsUsed
      /\ RunOrder /\ LockHolds /\ FlagsDiffer /\ TreeKnown
  BY DEF StoreInv
<1>1. /\ op' \in [StoreProcs -> Ops]
      /\ \A q \in StoreProcs : op'[q].step \in Steps
  <2>1. op' \in [StoreProcs -> Ops]
    BY StoreTyped, StepNames, IdleTyped DEF WriteReport, At, Goto, Ops
  <2> QED
    BY <2>1 DEF Ops
<1>2. /\ \A q \in StoreProcs \ {p} : op'[q] = op[q]
      /\ op'[p].step = (IF op[p].patch THEN "patch" ELSE "clear")
      /\ op'[p].kind = op[p].kind /\ op'[p].id = op[p].id
      /\ op'[p].parent = op[p].parent /\ op'[p].applied = op[p].applied
      /\ op'[p].patch = op[p].patch /\ op'[p].seen = op[p].seen
  BY StoreTyped DEF WriteReport, At, Goto, Ops
<1>3. /\ op[p].step = "report"
      /\ \A t \in Sessions :
            report'[t] = IF t = op[p].id
                         THEN [stored |-> TRUE, applied |-> op[p].applied,
                               patch |-> op[p].patch]
                         ELSE report[t]
      /\ report' \in [Sessions -> Reports]
      /\ UNCHANGED <<patchFile, index, lock, checkpoint, meta, tree, started,
          torn>>
  <2>1. op[p].id \in Sessions /\ op[p].applied \in BOOLEAN /\ op[p].patch \in
      BOOLEAN
    BY StoreTyped, <1>a DEF WriteReport, At, OpsShaped, Ops
  <2>2. [stored |-> TRUE, applied |-> op[p].applied, patch |-> op[p].patch]
      \in Reports
    BY <2>1 DEF Reports
  <2> QED
    BY StoreTyped, <2>1, <2>2 DEF WriteReport, At
<1>4. StoreTypeOK' /\ IndexedIsLoadable'
  BY <1>a, <1>1, <1>3 DEF StoreTypeOK, Reports, IndexedIsLoadable, Stored
<1>5. OpsShaped' /\ IdsUsed'
  BY <1>a, <1>1, <1>2, <1>3 DEF OpsShaped, RunOnly, IdsUsed, Stored
<1>6. RunOrder'
  BY <1>a, <1>2, <1>3
     DEF RunOrder, IdsUsed, OpsShaped, RunOnly, RunBefore, Stored
<1>7. LockHolds' /\ FlagsDiffer'
  BY <1>a, <1>2, <1>3
     DEF LockHolds, OpsShaped, InIndex, FlagsDiffer, RunOrder, RunBefore,
         RunOnly, At
<1>8. TreeKnown'
  BY <1>a, <1>2, <1>3 DEF TreeKnown, RunOrder, Updating
<1> QED
  BY <1>4, <1>5, <1>6, <1>7, <1>8 DEF StoreInv

(* The patch file follows the report. *)
LEMMA WritePatchKeeps ==
    ASSUME StoreInv, NEW p \in StoreProcs,
           WritePatch(p)
    PROVE  StoreInv'
<1>a. StoreTypeOK /\ IndexedIsLoadable /\ OpsShaped /\ IdsUsed
      /\ RunOrder /\ LockHolds /\ FlagsDiffer /\ TreeKnown
  BY DEF StoreInv
<1>1. /\ op' \in [StoreProcs -> Ops]
      /\ \A q \in StoreProcs : op'[q].step \in Steps
  <2>1. op' \in [StoreProcs -> Ops]
    BY StoreTyped, StepNames, IdleTyped DEF WritePatch, At, Goto, Ops
  <2> QED
    BY <2>1 DEF Ops
<1>2. /\ \A q \in StoreProcs \ {p} : op'[q] = op[q]
      /\ op'[p].step = "lock" /\ op'[p].kind = op[p].kind
      /\ op'[p].id = op[p].id /\ op'[p].parent = op[p].parent
      /\ op'[p].applied = op[p].applied /\ op'[p].patch = op[p].patch
      /\ op'[p].seen = op[p].seen
  BY StoreTyped DEF WritePatch, At, Goto, Ops
<1>3. /\ op[p].step = "patch"
      /\ patchFile' = patchFile \cup {op[p].id}
      /\ UNCHANGED <<report, index, lock, checkpoint, meta, tree, started,
          torn>>
  BY StoreTyped DEF WritePatch, At
<1>4. StoreTypeOK' /\ IndexedIsLoadable'
  BY <1>a, <1>1, <1>3 DEF StoreTypeOK, OpsShaped, IndexedIsLoadable, Stored
<1>5. OpsShaped' /\ IdsUsed'
  BY <1>a, <1>1, <1>2, <1>3 DEF OpsShaped, RunOnly, IdsUsed, Stored
<1>6. RunOrder'
  BY <1>a, <1>2, <1>3
     DEF RunOrder, IdsUsed, OpsShaped, RunOnly, RunBefore, Stored
<1>7. LockHolds' /\ FlagsDiffer'
  BY <1>a, <1>2, <1>3 DEF LockHolds, InIndex, FlagsDiffer, At
<1>8. TreeKnown'
  BY <1>a, <1>2, <1>3 DEF TreeKnown, OpsShaped, Updating, RunOnly
<1> QED
  BY <1>4, <1>5, <1>6, <1>7, <1>8 DEF StoreInv

(* apply and rollback start from a patch file. *)
LEMMA StartApplyKeeps ==
    ASSUME StoreInv, NEW p \in StoreProcs,
           NEW s \in Sessions, NEW kind \in Edits, StartApply(p, s, kind)
    PROVE  StoreInv'
<1>a. StoreTypeOK /\ IndexedIsLoadable /\ OpsShaped /\ IdsUsed
      /\ RunOrder /\ LockHolds /\ FlagsDiffer /\ TreeKnown
  BY DEF StoreInv
<1>1. /\ op' \in [StoreProcs -> Ops]
      /\ \A q \in StoreProcs : op'[q].step \in Steps
  <2>1. op' \in [StoreProcs -> Ops]
    BY StoreTyped, StepNames, IdleTyped DEF StartApply, At, Idle, Ops, Edits
  <2> QED
    BY <2>1 DEF Ops
<1>2. /\ \A q \in StoreProcs \ {p} : op'[q] = op[q]
      /\ op'[p].step = "tree" /\ op'[p].kind = kind /\ op'[p].id = s
      /\ op'[p].parent = NoSession /\ op'[p].applied = (kind = "apply")
      /\ op'[p].patch = FALSE /\ op'[p].seen = [t \in Sessions |-> "none"]
  BY StoreTyped DEF StartApply, At, Idle, Ops
<1>3. /\ op[p].step = "idle" /\ s \in patchFile
      /\ UNCHANGED <<report, patchFile, index, lock, checkpoint, meta, tree,
          started, torn>>
  BY StoreTyped DEF StartApply, At
<1>4. StoreTypeOK' /\ IndexedIsLoadable'
  BY <1>a, <1>1, <1>3 DEF StoreTypeOK, IndexedIsLoadable, Stored
<1>5. OpsShaped' /\ IdsUsed'
  BY <1>a, <1>1, <1>2, <1>3 DEF OpsShaped, RunOnly, Edits, IdsUsed, Stored
<1>6. RunOrder'
  BY <1>a, <1>2, <1>3 DEF RunOrder, RunBefore, Stored
<1>7. LockHolds' /\ FlagsDiffer'
  BY <1>a, <1>2, <1>3 DEF LockHolds, InIndex, FlagsDiffer, At
<1>8. TreeKnown'
  BY <1>a, <1>2, <1>3 DEF TreeKnown, Updating
<1> QED
  BY <1>4, <1>5, <1>6, <1>7, <1>8 DEF StoreInv

(* Whoever makes the lock file is alone with the index. *)
LEMMA TakeLockKeeps ==
    ASSUME StoreInv, NEW p \in StoreProcs,
           TakeLock(p)
    PROVE  StoreInv'
<1>a. StoreTypeOK /\ IndexedIsLoadable /\ OpsShaped /\ IdsUsed
      /\ RunOrder /\ LockHolds /\ FlagsDiffer /\ TreeKnown
  BY DEF StoreInv
<1>1. /\ op' \in [StoreProcs -> Ops]
      /\ \A q \in StoreProcs : op'[q].step \in Steps
  <2>1. op' \in [StoreProcs -> Ops]
    BY StoreTyped, StepNames, IdleTyped DEF TakeLock, At, Goto, Ops
  <2> QED
    BY <2>1 DEF Ops
<1>2. /\ \A q \in StoreProcs \ {p} : op'[q] = op[q]
      /\ op'[p].step = "read" /\ op'[p].kind = op[p].kind
      /\ op'[p].id = op[p].id /\ op'[p].parent = op[p].parent
      /\ op'[p].applied = op[p].applied /\ op'[p].patch = op[p].patch
      /\ op'[p].seen = op[p].seen
  BY StoreTyped DEF TakeLock, At, Goto, Ops
<1>3. /\ op[p].step = "lock" /\ lock = Free
      /\ lock' = p
      /\ UNCHANGED <<report, patchFile, index, checkpoint, meta, tree,
          started, torn>>
  BY StoreTyped DEF TakeLock, At
<1>4. StoreTypeOK' /\ IndexedIsLoadable'
  BY <1>a, <1>1, <1>3 DEF StoreTypeOK, IndexedIsLoadable, Stored
<1>5. OpsShaped' /\ IdsUsed'
  BY <1>a, <1>1, <1>2, <1>3 DEF OpsShaped, RunOnly, IdsUsed, Stored
<1>6. RunOrder'
  BY <1>a, <1>2, <1>3 DEF RunOrder, RunBefore, Stored
<1>7. LockHolds' /\ FlagsDiffer'
  BY <1>a, <1>2, <1>3, StoreAssumption DEF LockHolds, FlagsDiffer, At
<1>8. TreeKnown'
  BY <1>a, <1>2, <1>3 DEF TreeKnown, Updating
<1> QED
  BY <1>4, <1>5, <1>6, <1>7, <1>8 DEF StoreInv

(* What is read under the lock is what the index holds. *)
LEMMA ReadIndexKeeps ==
    ASSUME StoreInv, NEW p \in StoreProcs,
           ReadIndex(p)
    PROVE  StoreInv'
<1>a. StoreTypeOK /\ IndexedIsLoadable /\ OpsShaped /\ IdsUsed
      /\ RunOrder /\ LockHolds /\ FlagsDiffer /\ TreeKnown
  BY DEF StoreInv
<1>1. /\ op' \in [StoreProcs -> Ops]
      /\ \A q \in StoreProcs : op'[q].step \in Steps
  <2>1. op' \in [StoreProcs -> Ops]
    BY StoreTyped, StepNames, IdleTyped DEF ReadIndex, At, Ops
  <2> QED
    BY <2>1 DEF Ops
<1>2. /\ \A q \in StoreProcs \ {p} : op'[q] = op[q]
      /\ op'[p].step = "write" /\ op'[p].kind = op[p].kind
      /\ op'[p].id = op[p].id /\ op'[p].parent = op[p].parent
      /\ op'[p].applied = op[p].applied /\ op'[p].patch = op[p].patch
      /\ op'[p].seen = index
  BY StoreTyped DEF ReadIndex, At, Ops
<1>3. /\ op[p].step = "read"
      /\ UNCHANGED <<report, patchFile, index, lock, checkpoint, meta, tree,
          started, torn>>
  BY StoreTyped DEF ReadIndex, At
<1>4. StoreTypeOK' /\ IndexedIsLoadable'
  BY <1>a, <1>1, <1>3 DEF StoreTypeOK, IndexedIsLoadable, Stored
<1>5. OpsShaped' /\ IdsUsed'
  BY <1>a, <1>1, <1>2, <1>3 DEF OpsShaped, RunOnly, IdsUsed, Stored
<1>6. RunOrder'
  BY <1>a, <1>2, <1>3 DEF RunOrder, RunBefore, Stored
<1>7. LockHolds' /\ FlagsDiffer'
  BY <1>a, <1>2, <1>3 DEF LockHolds, InIndex, FlagsDiffer, At
<1>8. TreeKnown'
  BY <1>a, <1>2, <1>3 DEF TreeKnown, Updating
<1> QED
  BY <1>4, <1>5, <1>6, <1>7, <1>8 DEF StoreInv

(* The report takes the flag the index was just given. *)
LEMMA WriteSessionKeeps ==
    ASSUME StoreInv, NEW p \in StoreProcs,
           WriteSession(p)
    PROVE  StoreInv'
<1>a. StoreTypeOK /\ IndexedIsLoadable /\ OpsShaped /\ IdsUsed
      /\ RunOrder /\ LockHolds /\ FlagsDiffer /\ TreeKnown
  BY DEF StoreInv
<1>1. /\ op' \in [StoreProcs -> Ops]
      /\ \A q \in StoreProcs : op'[q].step \in Steps
  <2>1. op' \in [StoreProcs -> Ops]
    BY StoreTyped, StepNames, IdleTyped DEF WriteSession, At, Goto, Ops
  <2> QED
    BY <2>1 DEF Ops
<1>2. /\ \A q \in StoreProcs \ {p} : op'[q] = op[q]
      /\ op'[p].step = "unlock" /\ op'[p].kind = op[p].kind
      /\ op'[p].id = op[p].id /\ op'[p].parent = op[p].parent
      /\ op'[p].applied = op[p].applied /\ op'[p].patch = op[p].patch
      /\ op'[p].seen = op[p].seen
  BY StoreTyped DEF WriteSession, At, Goto, Ops
<1>3. /\ op[p].step = "session"
      /\ \A t \in Sessions : report'[t].stored = report[t].stored
      /\ \A t \in Sessions \ {op[p].id} : report'[t] = report[t]
      /\ Stored(op[p].id) => report'[op[p].id].applied = op[p].applied
      /\ report' \in [Sessions -> Reports]
      /\ UNCHANGED <<patchFile, index, lock, checkpoint, meta, tree, started,
          torn>>
  <2>1. op[p].id \in Sessions /\ op[p].applied \in BOOLEAN
    BY StoreTyped, <1>a DEF WriteSession, At, OpsShaped, Ops
  <2>2. report' \in [Sessions -> Reports]
    BY StoreTyped, <2>1 DEF WriteSession, Reports
  <2> QED
    BY StoreTyped, <2>1, <2>2 DEF WriteSession, At, Stored, Reports
<1>4. StoreTypeOK' /\ IndexedIsLoadable'
  BY <1>a, <1>1, <1>3 DEF StoreTypeOK, Reports, IndexedIsLoadable, Stored
<1>5. OpsShaped' /\ IdsUsed'
  BY <1>a, <1>1, <1>2, <1>3 DEF OpsShaped, RunOnly, IdsUsed, Stored
<1>6. RunOrder'
  BY <1>a, <1>2, <1>3
     DEF RunOrder, OpsShaped, RunBefore, Edits, Stored, LockHolds, Record
<1>7. LockHolds' /\ FlagsDiffer'
  BY <1>a, <1>2, <1>3
     DEF LockHolds, InIndex, FlagsDiffer, At, IndexedIsLoadable
<1>8. TreeKnown'
  BY <1>a, <1>2, <1>3 DEF TreeKnown, Updating
<1> QED
  BY <1>4, <1>5, <1>6, <1>7, <1>8 DEF StoreInv

(* nv name needs a stored report. *)
LEMMA StartNameKeeps ==
    ASSUME StoreInv, NEW p \in StoreProcs,
           NEW s \in Sessions, StartName(p, s)
    PROVE  StoreInv'
<1>a. StoreTypeOK /\ IndexedIsLoadable /\ OpsShaped /\ IdsUsed
      /\ RunOrder /\ LockHolds /\ FlagsDiffer /\ TreeKnown
  BY DEF StoreInv
<1>1. /\ op' \in [StoreProcs -> Ops]
      /\ \A q \in StoreProcs : op'[q].step \in Steps
  <2>1. op' \in [StoreProcs -> Ops]
    BY StoreTyped, StepNames, IdleTyped DEF StartName, At, Idle, Ops
  <2> QED
    BY <2>1 DEF Ops
<1>2. /\ \A q \in StoreProcs \ {p} : op'[q] = op[q]
      /\ op'[p].step = "nameRead" /\ op'[p].kind = "name" /\ op'[p].id = s
      /\ op'[p].parent = NoSession /\ op'[p].applied = FALSE
      /\ op'[p].patch = FALSE /\ op'[p].seen = [t \in Sessions |-> "none"]
  BY StoreTyped DEF StartName, At, Idle, Ops
<1>3. /\ op[p].step = "idle" /\ Stored(s)
      /\ UNCHANGED <<report, patchFile, index, lock, checkpoint, meta, tree,
          started, torn>>
  BY StoreTyped DEF StartName, At
<1>4. StoreTypeOK' /\ IndexedIsLoadable'
  BY <1>a, <1>1, <1>3 DEF StoreTypeOK, IndexedIsLoadable, Stored
<1>5. OpsShaped' /\ IdsUsed'
  BY <1>a, <1>1, <1>2, <1>3 DEF OpsShaped, RunOnly, Edits, IdsUsed, Stored
<1>6. RunOrder'
  BY <1>a, <1>2, <1>3 DEF RunOrder, Stored
<1>7. LockHolds' /\ FlagsDiffer'
  BY <1>a, <1>2, <1>3 DEF LockHolds, InIndex, FlagsDiffer, At
<1>8. TreeKnown'
  BY <1>a, <1>2, <1>3 DEF TreeKnown, Updating
<1> QED
  BY <1>4, <1>5, <1>6, <1>7, <1>8 DEF StoreInv

(* Metadata is read and written without the lock, and is no part of the    *)
(* invariant beyond its type.                                              *)
LEMMA LoadMetadataKeeps ==
    ASSUME StoreInv, NEW p \in StoreProcs,
           LoadMetadata(p)
    PROVE  StoreInv'
<1>a. StoreTypeOK /\ IndexedIsLoadable /\ OpsShaped /\ IdsUsed
      /\ RunOrder /\ LockHolds /\ FlagsDiffer /\ TreeKnown
  BY DEF StoreInv
<1>1. /\ op' \in [StoreProcs -> Ops]
      /\ \A q \in StoreProcs : op'[q].step \in Steps
  <2>1. op' \in [StoreProcs -> Ops]
    BY StoreTyped, StepNames, IdleTyped, <1>a DEF LoadMetadata, At, Ops,
        OpsShaped
  <2> QED
    BY <2>1 DEF Ops
<1>2. /\ \A q \in StoreProcs \ {p} : op'[q] = op[q]
      /\ op'[p].step = (IF op[p].step = "nameRead" THEN "nameWrite" ELSE
          "linkWrite")
      /\ op'[p].kind = op[p].kind /\ op'[p].id = op[p].id
      /\ op'[p].parent = op[p].parent /\ op'[p].applied = op[p].applied
      /\ op'[p].patch = op[p].patch /\ op'[p].seen = op[p].seen
  BY StoreTyped DEF LoadMetadata, At, Ops
<1>3. /\ op[p].step \in {"nameRead", "linkRead"}
      /\ UNCHANGED <<report, patchFile, index, lock, checkpoint, meta, tree,
          started, torn>>
  BY StoreTyped DEF LoadMetadata, At
<1>4. StoreTypeOK' /\ IndexedIsLoadable'
  BY <1>a, <1>1, <1>3 DEF StoreTypeOK, IndexedIsLoadable, Stored
<1>5. OpsShaped' /\ IdsUsed'
  BY <1>a, <1>1, <1>2, <1>3 DEF OpsShaped, RunOnly, IdsUsed, Stored
<1>6. RunOrder'
  BY <1>a, <1>2, <1>3 DEF RunOrder, RunBefore, Stored
<1>7. LockHolds' /\ FlagsDiffer'
  BY <1>a, <1>2, <1>3 DEF LockHolds, InIndex, FlagsDiffer, At
<1>8. TreeKnown'
  BY <1>a, <1>2, <1>3 DEF TreeKnown, Updating
<1> QED
  BY <1>4, <1>5, <1>6, <1>7, <1>8 DEF StoreInv

(* A move to another step keeps the type of the operations. *)
LEMMA GotoTyped ==
    ASSUME StoreInv, NEW p \in StoreProcs, NEW st \in Steps, Goto(p, st)
    PROVE  op' \in [StoreProcs -> Ops]
BY StoreTyped DEF Goto, Ops

(* A call that ends, well or not, leaves its files as they are; if it was  *)
(* between tree and record, that is remembered.                            *)
LEMMA EndKeeps ==
    ASSUME StoreInv, NEW p \in StoreProcs, op' = [op EXCEPT ![p] = Idle],
           torn' = torn \cup Interrupted(p), checkpoint' \subseteq started,
           meta' \in [Sessions -> Metas],
           UNCHANGED <<report, patchFile, index, lock, tree, started>>
    PROVE  StoreInv'
<1>a. StoreTypeOK /\ IndexedIsLoadable /\ OpsShaped /\ IdsUsed
      /\ RunOrder /\ LockHolds /\ FlagsDiffer /\ TreeKnown
  BY DEF StoreInv
<1>1. op' \in [StoreProcs -> Ops] /\ \A q \in StoreProcs : op'[q].step \in Steps
  <2>1. op' \in [StoreProcs -> Ops]
    BY StoreTyped, IdleTyped
  <2> QED
    BY <2>1 DEF Ops
<1>2. /\ \A q \in StoreProcs \ {p} : op'[q] = op[q]
      /\ op'[p].step = "idle" /\ op'[p].kind = "none"
  BY StoreTyped DEF Idle
<1>3. StoreTypeOK'
  <2>1. Interrupted(p) \subseteq started
    BY <1>a DEF Interrupted, Updating, IdsUsed, Edits
  <2> QED
    BY <1>a, <1>1, <2>1 DEF StoreTypeOK, Metas
<1>4. IndexedIsLoadable'
  BY <1>a DEF IndexedIsLoadable, Stored
<1>5. OpsShaped'
  BY <1>a, <1>1, <1>2 DEF OpsShaped, RunOnly, Edits
<1>6. IdsUsed'
  BY <1>a, <1>2 DEF IdsUsed, Edits, Stored
<1>7. RunOrder'
  BY <1>a, <1>2 DEF RunOrder, Stored
<1>8. LockHolds'
  BY <1>a, <1>2 DEF LockHolds, InIndex
<1>9. FlagsDiffer'
  BY <1>a, <1>2, StoreAssumption DEF FlagsDiffer, LockHolds, InIndex, At
<1>10. TreeKnown'
  BY <1>a, <1>2 DEF TreeKnown, Updating, Interrupted, Edits
<1> QED
  BY <1>3, <1>4, <1>5, <1>6, <1>7, <1>8, <1>9, <1>10 DEF StoreInv

(* The steps an operation ends with, a kill and a lock timeout included:   *)
(* what it had not written yet stays unwritten.                            *)
LEMMA EndingsKeep ==
    ASSUME StoreInv, NEW p \in StoreProcs,
           \/ LockTimeout(p) \/ NameSession(p) \/ LinkChildSession(p)
           \/ StoreKill(p)
    PROVE  StoreInv'
<1>a. /\ StoreTypeOK /\ OpsShaped
  BY DEF StoreInv
<1>1. CASE LockTimeout(p) \/ StoreKill(p)
  BY <1>1, <1>a, StoreTyped, EndKeeps
     DEF LockTimeout, StoreKill, End, StoreTypeOK
<1>2. CASE NameSession(p) \/ LinkChildSession(p)
  <2>1. Interrupted(p) = {}
    BY <1>2 DEF Interrupted, Updating, NameSession, LinkChildSession, At
  <2>2. /\ op[p].id \in Sessions /\ op[p].seenMeta \in Metas
        /\ op[p].parent \in Sessions \cup {NoSession}
    BY <1>2, <1>a, StoreTyped
       DEF OpsShaped, NameSession, LinkChildSession, At, Ops
  <2>3. /\ [op[p].seenMeta EXCEPT !.named = TRUE] \in Metas
        /\ [op[p].seenMeta EXCEPT !.parent = op[p].parent] \in Metas
    BY <2>2 DEF Metas
  <2>4. meta' \in [Sessions -> Metas]
    BY <1>2, <2>2, <2>3, StoreTyped DEF NameSession, LinkChildSession
  <2> QED
    BY <1>2, <1>a, <2>1, <2>4, EndKeeps
       DEF NameSession, LinkChildSession, End, StoreTypeOK
<1> QED
  BY <1>1, <1>2

(* The checkpoint goes after the record is written. *)
LEMMA ClearCheckpointKeeps ==
    ASSUME StoreInv, NEW p \in StoreProcs, ClearCheckpoint(p)
    PROVE  StoreInv'
<1>a. StoreTypeOK /\ IndexedIsLoadable /\ OpsShaped /\ IdsUsed
      /\ RunOrder /\ LockHolds /\ FlagsDiffer /\ TreeKnown
  BY DEF StoreInv
<1>1. CASE op[p].parent = NoSession
  <2>1. Interrupted(p) = {}
    BY DEF Interrupted, Updating, ClearCheckpoint, At
  <2> QED
    BY <1>a, <1>1, <2>1, StoreTyped, EndKeeps
       DEF ClearCheckpoint, End, StoreTypeOK
<1>2. CASE op[p].parent # NoSession
  <2>1. op' \in [StoreProcs -> Ops]
    BY <1>2, StepNames, GotoTyped DEF ClearCheckpoint
  <2>2. \A q \in StoreProcs : op'[q].step \in Steps
    BY <2>1 DEF Ops
  <2>3. /\ \A q \in StoreProcs \ {p} : op'[q] = op[q]
        /\ op[p].step = "clear" /\ op'[p].step = "linkRead"
        /\ op'[p].kind = op[p].kind /\ op'[p].id = op[p].id
        /\ op'[p].applied = op[p].applied /\ op'[p].patch = op[p].patch
        /\ op'[p].seen = op[p].seen
        /\ checkpoint' \subseteq checkpoint
        /\ UNCHANGED <<report, patchFile, index, lock, meta, tree, started, torn>>
    BY <1>2, StoreTyped DEF ClearCheckpoint, Goto, At, Ops
  <2>4. StoreTypeOK' /\ IndexedIsLoadable'
    BY <1>a, <2>2, <2>3 DEF StoreTypeOK, IndexedIsLoadable, Stored
  <2>5. OpsShaped'
    BY <1>a, <2>1, <2>3 DEF OpsShaped, RunOnly, Edits
  <2>6. IdsUsed' /\ RunOrder'
    BY <1>a, <2>3 DEF IdsUsed, RunOrder, RunBefore, Edits, Stored
  <2>7. LockHolds' /\ FlagsDiffer'
    BY <1>a, <2>3 DEF LockHolds, FlagsDiffer, InIndex, At
  <2>8. TreeKnown'
    BY <1>a, <2>3 DEF TreeKnown, Updating
  <2> QED
    BY <2>4, <2>5, <2>6, <2>7, <2>8 DEF StoreInv
<1> QED
  BY <1>1, <1>2

(* The lock file goes when record and report agree. *)
LEMMA DropLockKeeps ==
    ASSUME StoreInv, NEW p \in StoreProcs, DropLock(p)
    PROVE  StoreInv'
<1>a. StoreTypeOK /\ IndexedIsLoadable /\ OpsShaped /\ IdsUsed
      /\ RunOrder /\ LockHolds /\ FlagsDiffer /\ TreeKnown
  BY DEF StoreInv
<1>1. op' \in [StoreProcs -> Ops]
  <2>1. CASE op[p].kind = "run"
    BY <2>1, StepNames, GotoTyped DEF DropLock
  <2>2. CASE op[p].kind # "run"
    BY <2>2, StoreTyped, IdleTyped DEF DropLock, End
  <2> QED
    BY <2>1, <2>2
<1>2. /\ \A q \in StoreProcs : op'[q].step \in Steps
      /\ \A q \in StoreProcs \ {p} : op'[q] = op[q]
      /\ op[p].step = "unlock" /\ lock' = Free
      /\ UNCHANGED <<report, patchFile, index, checkpoint, meta, tree, started,
                     torn>>
  BY <1>1, StoreTyped DEF DropLock, Goto, End, At, Ops
<1>3. IF op[p].kind = "run"
      THEN /\ op'[p].step = "clear" /\ op'[p].kind = "run"
           /\ op'[p].id = op[p].id /\ op'[p].applied = op[p].applied
           /\ op'[p].patch = op[p].patch
      ELSE op'[p].step = "idle" /\ op'[p].kind = "none"
  BY StoreTyped DEF DropLock, Goto, End, Idle, Ops
<1>4. \A q \in StoreProcs \ {p} : op[q].step \notin InIndex
  BY <1>a, <1>2 DEF LockHolds, InIndex
<1>5. StoreTypeOK' /\ IndexedIsLoadable'
  BY <1>a, <1>2 DEF StoreTypeOK, IndexedIsLoadable, Stored
<1>6. OpsShaped'
  BY <1>a, <1>1, <1>2, <1>3 DEF OpsShaped, RunOnly, Edits
<1>7. IdsUsed' /\ RunOrder'
  BY <1>a, <1>2, <1>3 DEF IdsUsed, RunOrder, RunBefore, Edits, Stored
<1>8. LockHolds'
  BY <1>a, <1>2, <1>3, <1>4 DEF LockHolds, InIndex
<1>9. FlagsDiffer'
  BY <1>a, <1>2, <1>4 DEF FlagsDiffer, InIndex, At
<1>10. TreeKnown'
  BY <1>a, <1>2, <1>3 DEF TreeKnown, Updating, Edits
<1> QED
  BY <1>5, <1>6, <1>7, <1>8, <1>9, <1>10 DEF StoreInv

(* apply or rollback changes the working tree before the index; a tree     *)
(* changed by two calls at once is counted as torn.                        *)
LEMMA ChangeTreeKeeps ==
    ASSUME StoreInv, NEW p \in StoreProcs, ChangeTree(p), NEW s, s = op[p].id
    PROVE  StoreInv'
<1>a. StoreTypeOK /\ IndexedIsLoadable /\ OpsShaped /\ IdsUsed
      /\ RunOrder /\ LockHolds /\ FlagsDiffer /\ TreeKnown
  BY DEF StoreInv
<1>1. CASE op[p].applied = (s \in tree)
  <2>1. Interrupted(p) = {}
    BY DEF Interrupted, Updating, ChangeTree, At
  <2> QED
    BY <1>a, <1>1, <2>1, StoreTyped, EndKeeps
       DEF ChangeTree, End, StoreTypeOK
<1>2. CASE op[p].applied # (s \in tree)
  <2>1. op' \in [StoreProcs -> Ops]
    BY <1>2, StepNames, GotoTyped DEF ChangeTree
  <2>2. /\ \A q \in StoreProcs \ {p} : op'[q] = op[q]
        /\ op[p].step = "tree" /\ op'[p].step = "lock"
        /\ op'[p].kind = op[p].kind /\ op'[p].id = s
        /\ op'[p].applied = op[p].applied /\ op'[p].patch = op[p].patch
        /\ op'[p].seen = op[p].seen
        /\ UNCHANGED <<report, patchFile, index, lock, checkpoint, meta, started>>
    BY <1>2, StoreTyped DEF ChangeTree, Goto, At, Ops
  <2>3. /\ op[p].kind \in Edits /\ s \in Sessions /\ s \in started
        /\ op[p].applied \in BOOLEAN
        /\ \A q \in StoreProcs : op'[q].step \in Steps
    BY <1>a, <2>1, <2>2, StoreTyped DEF OpsShaped, IdsUsed, Edits, Ops
  <2>4. /\ op[p].applied <=> s \in tree'
        /\ \A t \in Sessions \ {s} : t \in tree' <=> t \in tree
        /\ tree' \subseteq started
        /\ torn' = IF \E q \in StoreProcs \ {p} : Updating(q, s)
                   THEN torn \cup {s} ELSE torn
    BY <1>2, <1>a, <2>3 DEF ChangeTree, StoreTypeOK
  <2>5. StoreTypeOK' /\ IndexedIsLoadable'
    BY <1>a, <2>2, <2>3, <2>4 DEF StoreTypeOK, IndexedIsLoadable, Stored
  <2>6. OpsShaped'
    BY <1>a, <2>1, <2>2 DEF OpsShaped, RunOnly, Edits
  <2>7. IdsUsed' /\ RunOrder'
    BY <1>a, <2>2, <2>3 DEF IdsUsed, RunOrder, RunBefore, Edits, Stored
  <2>8. LockHolds' /\ FlagsDiffer'
    BY <1>a, <2>2 DEF LockHolds, FlagsDiffer, InIndex, At
  <2>9. ASSUME NEW t \in Sessions \ torn', t # s
        PROVE  /\ \A q \in StoreProcs : Updating(q, t)' <=> Updating(q, t)
               /\ t \notin torn
    BY <2>2, <2>4, <2>9 DEF Updating
  <2>10. ASSUME s \notin torn'
         PROVE  \A q \in StoreProcs : Updating(q, s)' <=> q = p
    BY <2>2, <2>3, <2>4, <2>10 DEF Updating, Edits
  <2>11. TreeKnown'
    <3> SUFFICES ASSUME NEW t \in Sessions \ torn'
        PROVE /\ \A q, r \in StoreProcs : Updating(q, t)' /\ Updating(r, t)' => q = r
              /\ \A q \in StoreProcs : Updating(q, t)' => op'[q].applied = (t \in tree')
              /\ (\A q \in StoreProcs : ~Updating(q, t)') =>
                    (t \in tree' <=> index[t] = "applied")
      BY <2>2 DEF TreeKnown
    <3>1. CASE t = s
      BY <2>2, <2>3, <2>4, <2>10, <3>1
    <3>2. CASE t # s
      <4>1. \A q \in StoreProcs : op'[q].applied = op[q].applied
        BY <2>2
      <4> QED
        BY <1>a, <2>4, <2>9, <3>2, <4>1 DEF TreeKnown
    <3> QED
      BY <3>1, <3>2
  <2> QED
    BY <2>5, <2>6, <2>7, <2>8, <2>11 DEF StoreInv
<1> QED
  BY <1>1, <1>2

(* The index is written back as it was read, with one record changed. *)
LEMMA WriteIndexKeeps ==
    ASSUME StoreInv, NEW p \in StoreProcs, WriteIndex(p), NEW s, s = op[p].id
    PROVE  StoreInv'
<1>a. StoreTypeOK /\ IndexedIsLoadable /\ OpsShaped /\ IdsUsed
      /\ RunOrder /\ LockHolds /\ FlagsDiffer /\ TreeKnown
  BY DEF StoreInv
<1>1. op' \in [StoreProcs -> Ops]
  <2>1. \E st \in {"unlock", "session"} : Goto(p, st)
    BY DEF WriteIndex
  <2> QED
    BY <2>1, StepNames, GotoTyped
<1>2. /\ \A q \in StoreProcs \ {p} : op'[q] = op[q]
      /\ op[p].step = "write"
      /\ op'[p].kind = op[p].kind /\ op'[p].id = s
      /\ op'[p].applied = op[p].applied /\ op'[p].patch = op[p].patch
      /\ UNCHANGED <<report, patchFile, lock, checkpoint, meta, tree, started>>
  BY StoreTyped DEF WriteIndex, Goto, At, Ops
<1>3. /\ op[p].kind \in {"run"} \cup Edits /\ s \in Sessions /\ s \in started
      /\ op[p].applied \in BOOLEAN /\ op[p].seen = index /\ lock = p
      /\ \A q \in StoreProcs : op'[q].step \in Steps
      /\ \A q \in StoreProcs \ {p} : op[q].step \notin InIndex
  <2>1. op[p].kind \in Kinds /\ op[p].applied \in BOOLEAN
        /\ \A q \in StoreProcs : op'[q].step \in Steps
    BY <1>1, StoreTyped DEF Ops
  <2>2. op[p].kind \in {"run"} \cup Edits /\ s \in Sessions
    BY <1>a, <1>2, <2>1 DEF OpsShaped, Kinds, Edits
  <2> QED
    BY <1>a, <1>2, <2>1, <2>2 DEF IdsUsed, LockHolds, InIndex
<1>4. ASSUME NEW t \in Sessions, t # s
      PROVE  \A q \in StoreProcs : Updating(q, t)' <=> Updating(q, t)
  BY <1>2, <1>4 DEF Updating
<1>5. CASE op[p].kind # "run" /\ op[p].seen[s] = "none"
  <2>1. op'[p].step = "unlock" /\ torn' = torn \cup {s} /\ index' = index
    BY <1>5, StoreTyped DEF WriteIndex, Goto, Ops
  <2>2. StoreTypeOK' /\ IndexedIsLoadable'
    BY <1>a, <1>2, <1>3, <2>1 DEF StoreTypeOK, IndexedIsLoadable, Stored
  <2>3. OpsShaped'
    BY <1>a, <1>1, <1>2, <2>1 DEF OpsShaped, RunOnly, Edits
  <2>4. IdsUsed' /\ RunOrder'
    BY <1>a, <1>2, <2>1 DEF IdsUsed, RunOrder, RunBefore, Stored
  <2>5. LockHolds' /\ FlagsDiffer'
    BY <1>a, <1>2, <2>1 DEF LockHolds, FlagsDiffer, InIndex, At
  <2>6. TreeKnown'
    <3>1. \A q \in StoreProcs : op'[q].applied = op[q].applied
      BY <1>2
    <3> QED
      BY <1>a, <1>2, <1>4, <2>1, <3>1 DEF TreeKnown
  <2> QED
    BY <2>2, <2>3, <2>4, <2>5, <2>6 DEF StoreInv
<1>6. CASE ~(op[p].kind # "run" /\ op[p].seen[s] = "none")
  <2>1. /\ op'[p].step = IF op[p].kind = "run" THEN "unlock" ELSE "session"
        /\ torn' = torn
        /\ index' = [index EXCEPT ![s] = Record(op[p].applied)]
    BY <1>3, <1>6, StoreTyped DEF WriteIndex, Goto, Ops
  <2>2. /\ index' \in [Sessions -> Records]
        /\ index'[s] = Record(op[p].applied)
        /\ \A t \in Sessions \ {s} : index'[t] = index[t]
        /\ index'[s] # "none"
        /\ index'[s] = "applied" <=> op[p].applied
    BY <1>3, <2>1, StoreTyped DEF Record, Records
  <2>3. /\ op[p].kind # "run" => index[s] # "none"
        /\ Stored(s) /\ s \in patchFile
        /\ op[p].kind = "run" => report[s].applied = op[p].applied
    BY <1>a, <1>2, <1>3, <1>6 DEF RunOrder, IndexedIsLoadable
  <2>4. StoreTypeOK' /\ IndexedIsLoadable'
    BY <1>a, <1>2, <1>3, <2>1, <2>2, <2>3
       DEF StoreTypeOK, IndexedIsLoadable, Stored
  <2>5. OpsShaped'
    BY <1>a, <1>1, <1>2, <1>3, <2>1 DEF OpsShaped, RunOnly, Edits
  <2>6. IdsUsed'
    BY <1>a, <1>2, <1>3, <2>1, <2>2 DEF IdsUsed, Edits, Stored
  <2>7. RunOrder'
    BY <1>a, <1>2, <2>1, <2>3 DEF RunOrder, IdsUsed, RunBefore, Stored
  <2>8. LockHolds'
    BY <1>a, <1>2, <1>3, <2>1, <2>2 DEF LockHolds, InIndex
  <2>9. FlagsDiffer'
    BY <1>a, <1>2, <2>1, <2>3 DEF FlagsDiffer, InIndex, At
  <2>10. TreeKnown'
    <3>1. \A q \in StoreProcs : op'[q].applied = op[q].applied
      BY <1>2
    <3>2. ~Updating(p, s)'
      BY <1>2, <2>1 DEF Updating
    <3>3. \A q \in StoreProcs \ {p} : Updating(q, s)' <=> Updating(q, s)
      BY <1>2 DEF Updating
    <3>4. Updating(p, s) <=> op[p].kind # "run" \/ op[p].applied
      BY <1>2, <1>3 DEF Updating, Edits
    <3>5. op[p].kind = "run" => index[s] = "none"
      BY <1>a, <1>2 DEF RunOrder, RunBefore
    <3> SUFFICES ASSUME NEW t \in Sessions \ torn
        PROVE /\ \A q, r \in StoreProcs : Updating(q, t)' /\ Updating(r, t)' => q = r
              /\ \A q \in StoreProcs : Updating(q, t)' => op'[q].applied = (t \in tree)
              /\ (\A q \in StoreProcs : ~Updating(q, t)') =>
                    (t \in tree <=> index'[t] = "applied")
      BY <1>2, <2>1 DEF TreeKnown
    <3>6. CASE t = s
      <4>1. /\ \A q, r \in StoreProcs : Updating(q, s)' /\ Updating(r, s)' => q = r
            /\ \A q \in StoreProcs : Updating(q, s)' => op'[q].applied = (s \in tree)
        BY <1>a, <3>1, <3>2, <3>3, <3>6 DEF TreeKnown
      <4>2. ASSUME \A q \in StoreProcs : ~Updating(q, s)'
            PROVE  s \in tree <=> index'[s] = "applied"
        <5>1. CASE Updating(p, s)
          BY <1>a, <2>2, <3>6, <5>1 DEF TreeKnown
        <5>2. CASE ~Updating(p, s)
          BY <1>a, <2>2, <3>3, <3>4, <3>5, <3>6, <4>2 DEF TreeKnown
        <5> QED
          BY <5>1, <5>2
      <4> QED
        BY <3>6, <4>1, <4>2
    <3>7. CASE t # s
      BY <1>a, <1>4, <2>2, <3>1, <3>7 DEF TreeKnown
    <3> QED
      BY <3>6, <3>7
  <2> QED
    BY <2>4, <2>5, <2>6, <2>7, <2>8, <2>9, <2>10 DEF StoreInv
<1> QED
  BY <1>5, <1>6

(* Every step of every process keeps the invariant. *)
LEMMA StoreInvNext == StoreInv /\ [StoreNext]_storeVars => StoreInv'
<1> SUFFICES ASSUME StoreInv, [StoreNext]_storeVars PROVE StoreInv'
  OBVIOUS
<1>1. ASSUME NEW p \in StoreProcs, StoreStep(p) PROVE StoreInv'
  <2>1. CASE \/ \E s \in Sessions, parent \in Sessions \cup {NoSession} :
                   StartRun(p, s, parent)
             \/ \E s \in Sessions, kind \in {"apply", "rollback"} :
                   StartApply(p, s, kind)
             \/ \E s \in Sessions : StartName(p, s)
    BY <2>1, StartRunKeeps, StartApplyKeeps, StartNameKeeps DEF Edits
  <2>2. CASE \/ SaveCheckpoint(p) \/ WriteReport(p) \/ WritePatch(p)
             \/ \E patch, applied \in BOOLEAN : LoopReturns(p, patch, applied)
    BY <2>2, SaveCheckpointKeeps, WriteReportKeeps, WritePatchKeeps,
       LoopReturnsKeeps
  <2>3. CASE \/ ChangeTree(p) \/ TakeLock(p) \/ ReadIndex(p) \/ WriteIndex(p)
             \/ WriteSession(p) \/ DropLock(p)
    BY <2>3, ChangeTreeKeeps, TakeLockKeeps, ReadIndexKeeps, WriteIndexKeeps,
       WriteSessionKeeps, DropLockKeeps
  <2>4. CASE \/ ClearCheckpoint(p) \/ LoadMetadata(p) \/ LockTimeout(p)
             \/ NameSession(p) \/ LinkChildSession(p) \/ StoreKill(p)
    BY <2>4, ClearCheckpointKeeps, LoadMetadataKeeps, EndingsKeep
  <2> QED
    BY <1>1, <2>1, <2>2, <2>3, <2>4 DEF StoreStep
<1>2. CASE UNCHANGED storeVars
  <2>a. StoreTypeOK /\ IndexedIsLoadable /\ OpsShaped /\ IdsUsed
        /\ RunOrder /\ LockHolds /\ FlagsDiffer /\ TreeKnown
    BY DEF StoreInv
  <2> USE <1>2, <2>a DEF storeVars
  <2>1. StoreTypeOK' /\ IndexedIsLoadable' /\ OpsShaped'
    BY DEF StoreTypeOK, IndexedIsLoadable, OpsShaped, Stored
  <2>2. IdsUsed' /\ RunOrder'
    BY DEF IdsUsed, RunOrder, Stored
  <2>3. LockHolds' /\ FlagsDiffer' /\ TreeKnown'
    BY DEF LockHolds, FlagsDiffer, TreeKnown, Updating, At
  <2> QED
    BY <2>1, <2>2, <2>3 DEF StoreInv
<1> QED
  BY <1>1, <1>2 DEF StoreNext

(* The inductive invariant holds in every reachable state. *)
LEMMA StoreInvariant == StoreSpec => []StoreInv
<1>1. StoreInit => StoreInv
  <2> SUFFICES ASSUME StoreInit PROVE StoreInv
    OBVIOUS
  <2>1. /\ op \in [StoreProcs -> Ops]
        /\ \A p \in StoreProcs : /\ op[p].step = "idle" /\ op[p].kind = "none"
                                 /\ op[p].step \in Steps
    BY IdleTyped, StepNames DEF StoreInit, Idle
  <2>2. StoreTypeOK
    BY <2>1, StepNames
       DEF StoreInit, StoreTypeOK, NoReport
  <2>3. OpsShaped
    BY <2>1 DEF OpsShaped, RunOnly
  <2>4. IndexedIsLoadable /\ IdsUsed
    BY <2>1 DEF StoreInit, IndexedIsLoadable, IdsUsed, Stored, NoReport, Edits
  <2>5. RunOrder /\ LockHolds /\ FlagsDiffer
    BY <2>1 DEF StoreInit, RunOrder, LockHolds, FlagsDiffer, InIndex
  <2>6. TreeKnown
    BY <2>1 DEF StoreInit, TreeKnown, Updating, Edits
  <2> QED
    BY <2>2, <2>3, <2>4, <2>5, <2>6 DEF StoreInv
<1> QED
  BY <1>1, StoreInvNext, PTL DEF StoreSpec

(* What any number of processes leave under .nerve/, killed or timed out   *)
(* anywhere, fits together.                                                *)
THEOREM StoreStaysConsistent == StoreSpec => []StoreConsistent
<1>1. StoreInv => StoreConsistent
  <2> SUFFICES ASSUME StoreInv PROVE StoreConsistent
    OBVIOUS
  <2>1. FlagsAgree
    BY StoreAssumption
       DEF StoreInv, FlagsAgree, FlagsDiffer, LockHolds, IndexedIsLoadable,
           InIndex, At
  <2>2. RecordTellsTree
    BY DEF StoreInv, RecordTellsTree, TreeKnown
  <2> QED
    BY <2>1, <2>2 DEF StoreInv, StoreConsistent
<1> QED
  BY <1>1, StoreInvariant, PTL

(* No step of any process makes the store forget a record or a run that    *)
(* was checkpointed.                                                       *)
THEOREM StoreNeverForgets == StoreSpec => StoreForgetsNothing
<1>1. ASSUME StoreInv, [StoreNext]_storeVars
      PROVE  [RecordsKept /\ CheckpointedRunKept]_storeVars
  <2>a. StoreTypeOK /\ OpsShaped /\ RunOrder /\ LockHolds
    BY <1>1 DEF StoreInv
  <2>1. ASSUME NEW p \in StoreProcs, WriteIndex(p)
        PROVE  RecordsKept /\ CheckpointedRunKept
    <3>1. op[p].seen = index /\ op[p].applied \in BOOLEAN
      BY <1>1, <2>1, <2>a, StoreTyped DEF WriteIndex, At, LockHolds, Ops
    <3>2. \A s \in Sessions : index'[s] = index[s] \/ index'[s] # "none"
      BY <1>1, <2>1, <3>1, StoreTyped DEF WriteIndex, Record
    <3>3. checkpoint' = checkpoint
      BY <2>1 DEF WriteIndex
    <3> QED
      BY <3>2, <3>3 DEF RecordsKept, CheckpointedRunKept
  <2>2. ASSUME NEW p \in StoreProcs, ClearCheckpoint(p)
        PROVE  RecordsKept /\ CheckpointedRunKept
    <3>1. Stored(op[p].id)
      BY <2>2, <2>a DEF ClearCheckpoint, At, RunOrder, OpsShaped, RunOnly
    <3>2. /\ index' = index /\ report' = report
          /\ \A s \in checkpoint : s \in checkpoint' \/ s = op[p].id
      BY <2>2 DEF ClearCheckpoint
    <3> QED
      BY <3>1, <3>2 DEF RecordsKept, CheckpointedRunKept, Stored
  <2>3. ASSUME NEW p \in StoreProcs, StoreStep(p),
               ~WriteIndex(p), ~ClearCheckpoint(p)
        PROVE  index' = index /\ checkpoint \subseteq checkpoint'
    BY <2>3
       DEF StoreStep, StartRun, SaveCheckpoint, LoopReturns, WriteReport,
           WritePatch, StartApply, ChangeTree, TakeLock, LockTimeout,
           ReadIndex, WriteSession, DropLock, StartName, LoadMetadata,
           NameSession, LinkChildSession, StoreKill
  <2> QED
    BY <1>1, <2>1, <2>2, <2>3
       DEF StoreNext, RecordsKept, CheckpointedRunKept
<1> QED
  BY <1>1, StoreInvariant, PTL DEF StoreSpec, StoreForgetsNothing
=============================================================================
