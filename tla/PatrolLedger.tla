---------------------------- MODULE PatrolLedger ----------------------------
(***************************************************************************)
(* The coordination ledger beside the Mayor / Patrol queue: Coordinator of *)
(* mayor_patrol.rs.  The ledger is a projection of the directories.  The   *)
(* record_* calls of enqueue, claim, run_task and recover_orphans update   *)
(* one row each under ledger.lock, one step after (or, in run_task, one    *)
(* step before) the rename they describe; `nv mayor --reconcile` rebuilds  *)
(* all rows from a scan that is not atomic.  The queue never reads it.     *)
(***************************************************************************)
EXTENDS PatrolQueue

CONSTANTS
    MaxReconciles,   \* bound on the number of reconcile calls
    SlowLedger       \* may a reconcile hold ledger.lock beyond LOCK_TIMEOUT?

ASSUME LedgerAssumption == MaxReconciles \in Nat /\ SlowLedger \in BOOLEAN

VARIABLES
    ledger,       \* per task, its row in ledger.json
    ledgerLock,   \* is ledger.lock held by a running reconcile?
    rpc,          \* where in reconcile / scan_queue_dirs it is
    rtodo,        \* claim directories it has not read yet
    rebuilt,      \* the rows scanned so far
    reconciles    \* reconcile calls so far

scanVars   == <<rpc, rtodo, rebuilt, reconciles>>
ledgerVars == <<ledger, ledgerLock, scanVars>>
lvars      == <<vars, ledgerVars>>

RowStates == {"absent", "pending", "claimed", "done", "failed"}
Row(state, verdict, cost) ==
    [state |-> state, verdict |-> verdict, cost |-> cost]
NoRow == Row("absent", "none", 0)

LInit ==
    /\ Init
    /\ ledger = [t \in Tasks |-> NoRow]
    /\ ledgerLock = FALSE
    /\ rpc = "off"
    /\ rtodo = {}
    /\ rebuilt = [t \in Tasks |-> NoRow]
    /\ reconciles = 0

(* Mutation: the row is written without ledger.lock. *)
MutateLedger_NoLock(t, row) ==
    /\ ledger' = [ledger EXCEPT ![t] = row]
    /\ UNCHANGED <<ledgerLock, scanVars>>

(* mutate_ledger: a read-modify-write under ledger.lock.  A caller that    *)
(* cannot get the lock within LOCK_TIMEOUT prints a warning and goes on.   *)
MutateLedger(t, row) ==
    /\ \/ ~ledgerLock /\ ledger' = [ledger EXCEPT ![t] = row]
       \/ ledgerLock /\ SlowLedger /\ UNCHANGED ledger
    /\ UNCHANGED <<ledgerLock, scanVars>>

(* Mutation: a finished task is recorded as done, whatever its verdict. *)
TerminalState_Done(verdict) == "done"

(* terminal_state: the one mapping from verdicts to directories. *)
TerminalState(verdict) == IF verdict = "failed" THEN "failed" ELSE "done"

(* record_enqueued and record_recovered, record_claimed: only the state of *)
(* an existing row changes.                                                *)
WithState(t, s) == [ledger[t] EXCEPT !.state = s]

LEnqueueRecord(c) ==
    EnqueueRecord(c) /\ MutateLedger(ctask[c], WithState(ctask[c], "pending"))

LClaimRecord(p) ==
    ClaimRecord(p) /\ MutateLedger(job[p], WithState(job[p], "claimed"))

LFinishRecord(p) ==
    /\ FinishRecord(p)
    /\ MutateLedger(job[p], Row(TerminalState(res[p].verdict),
                                res[p].verdict, res[p].cost))

LSweepRecord(m) ==
    SweepRecord(m) /\ MutateLedger(cur[m], WithState(cur[m], "pending"))

-----------------------------------------------------------------------------
(***************************************************************************)
(* reconcile: under ledger.lock, scan pending/, claimed/, done/, failed/   *)
(* in this order, a later directory overriding an earlier one, and replace *)
(* the ledger.                                                             *)
(***************************************************************************)

RGoto(step) == rpc' = step

(* The rows of one directory replace those scanned before. *)
Override(rows) ==
    rebuilt' = [t \in Tasks |-> IF t \in DOMAIN rows THEN rows[t]
                                                     ELSE rebuilt[t]]

ScanPending ==
    /\ rpc = "off"
    /\ reconciles < MaxReconciles
    /\ ~ledgerLock
    /\ ledgerLock' = TRUE
    /\ reconciles' = reconciles + 1
    /\ Override([t \in pending |-> Row("pending", "none", 0)])
    /\ RGoto("dirs")
    /\ UNCHANGED <<ledger, rtodo, vars>>

(* read_dir of claimed/ ... *)
ScanDirs ==
    /\ rpc = "dirs"
    /\ rtodo' = {p \in Patrols : hasDir[p]}
    /\ RGoto("claimed")
    /\ UNCHANGED <<ledger, ledgerLock, rebuilt, reconciles, vars>>

(* ... and of one claim directory after the other. *)
ScanClaimed(p) ==
    /\ rpc = "claimed"
    /\ p \in rtodo
    /\ rtodo' = rtodo \ {p}
    /\ Override([t \in claimed[p] |-> Row("claimed", "none", 0)])
    /\ UNCHANGED <<ledger, ledgerLock, rpc, reconciles, vars>>

(* Mutation: the result file is believed whatever directory the task is in.*)
Enriched_Believed(s, t) == Row(s, result[t].verdict, result[t].cost)

(* The verdict and the cost come from the result file, if it agrees with   *)
(* the directory.                                                          *)
Enriched(s, t) ==
    IF result[t] # NoResult /\ TerminalState(result[t].verdict) = s
    THEN Row(s, result[t].verdict, result[t].cost)
    ELSE Row(s, "none", 0)

ScanDone ==
    /\ rpc = "claimed"
    /\ rtodo = {}
    /\ Override([t \in done |-> Enriched("done", t)])
    /\ RGoto("failed")
    /\ UNCHANGED <<ledger, ledgerLock, rtodo, reconciles, vars>>

ScanFailed ==
    /\ rpc = "failed"
    /\ Override([t \in failed |-> Enriched("failed", t)])
    /\ RGoto("write")
    /\ UNCHANGED <<ledger, ledgerLock, rtodo, reconciles, vars>>

(* The call ends: its lock is dropped and its rows are forgotten. *)
ReconcileEnd ==
    /\ ledgerLock' = FALSE
    /\ rtodo' = {}
    /\ rebuilt' = [t \in Tasks |-> NoRow]
    /\ RGoto("off")
    /\ UNCHANGED reconciles

ReconcileWrite ==
    /\ rpc = "write"
    /\ ledger' = rebuilt
    /\ ReconcileEnd
    /\ UNCHANGED vars

(* The reconciling process is killed; the kernel drops its lock. *)
ReconcileCrash ==
    /\ rpc # "off"
    /\ stops < MaxStops
    /\ stops' = stops + 1
    /\ ReconcileEnd
    /\ UNCHANGED <<ledger, fsVars, pc, job, res, started, mayorVars,
                   clientVars>>

Reconcile ==
    \/ ScanPending \/ ScanDirs \/ \E p \in Patrols : ScanClaimed(p)
    \/ ScanDone \/ ScanFailed \/ ReconcileWrite \/ ReconcileCrash

-----------------------------------------------------------------------------
(* The steps of the queue that record nothing. *)
Unrecorded ==
    \/ \E c \in Clients : \/ EnqueueScanClaimed(c) \/ EnqueueWrite(c)
                          \/ \E t \in Tasks : Enqueue(c, t)
    \/ \E p \in Patrols :
          \/ Start(p) \/ Crash(p) \/ HeartbeatExpires(p)
          \/ ClaimStart(p) \/ ClaimLock(p) \/ ClaimLockTimeout(p)
          \/ ClaimScanEmpty(p) \/ ClaimScan(p)
          \/ ClaimRename(p) \/ ClaimRenameFails(p)
          \/ ClaimRead(p) \/ ClaimReadFails(p)
          \/ Wake(p) \/ Dispatch(p) \/ WriteResult(p)
          \/ FinishMove(p) \/ FinishSwept(p) \/ Cleanup(p)
    \/ \E m \in Mayors :
          \/ StatusStart(m) \/ SweepList(m) \/ SweepListFails(m)
          \/ \E p \in Patrols : SweepSkip(m, p) \/ SweepPick(m, p)
          \/ \E t \in Tasks : SweepMove(m, t) \/ SweepMoveFails(m, t)
          \/ SweepRemoveDir(m) \/ CountPending(m) \/ CountDirs(m)
          \/ \E p \in Patrols : CountClaimed(m, p)
          \/ ReturnIdle(m) \/ MayorCrash(m)

Recorded ==
    \/ \E c \in Clients : LEnqueueRecord(c)
    \/ \E p \in Patrols : LClaimRecord(p) \/ LFinishRecord(p)
    \/ \E m \in Mayors : LSweepRecord(m)

LNext ==
    \/ Unrecorded /\ UNCHANGED ledgerVars
    \/ Recorded
    \/ Reconcile

LSpec == LInit /\ [][LNext]_lvars

-----------------------------------------------------------------------------
(***************************************************************************)
(* Properties                                                              *)
(***************************************************************************)

Rows == [state : RowStates, verdict : Verdicts \cup {"none"}, cost : Nat]

(* Every variable has its type. *)
LTypeOK ==
    /\ TypeOK
    /\ ledger \in [Tasks -> Rows]
    /\ rebuilt \in [Tasks -> Rows]
    /\ ledgerLock \in BOOLEAN
    /\ rpc \in {"off", "dirs", "claimed", "failed", "write"}
    /\ rtodo \subseteq Patrols
    /\ reconciles \in 0 .. MaxReconciles

(* A row that says done or failed carries no verdict of the other kind,    *)
(* and a done row no cost above the task's ceiling: record_finished and    *)
(* reconcile go through the one mapping terminal_state, and reconcile      *)
(* drops a result that disagrees with its directory.                       *)
RowsConsistent ==
    /\ LTypeOK
    /\ \A t \in Tasks :
        LET row == ledger[t] IN
        /\ row.state \in {"done", "failed"} /\ row.verdict # "none"
              => TerminalState(row.verdict) = row.state
        /\ row.state = "done" /\ row.verdict # "none" => row.cost <= Budget[t]

(* The ledger never reports a task that is in failed/ as done (the comment *)
(* at record_finished).                                                    *)
NeverReportsFailedAsDone ==
    \A t \in failed : ledger[t].state # "done"

=============================================================================
