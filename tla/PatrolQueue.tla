---------------------------- MODULE PatrolQueue ----------------------------
(***************************************************************************)
(* The Mayor / Patrol task queue of nerve-core (mayor_patrol.rs).          *)
(*                                                                         *)
(* The queue is a set of directories.  A task is one file that is renamed  *)
(* from pending/ to claimed/<patrol>/ and on to done/ or failed/; its      *)
(* outcome is a second file under results/.  Several processes work on the *)
(* directories at once: clients that enqueue, patrols that claim and run,  *)
(* and mayors whose `status` sweeps the claims of patrols that look dead.  *)
(* Only the claim is serialised by a lock (mayor.lock), so every file      *)
(* system call of the others is a step of its own here.                    *)
(***************************************************************************)
EXTENDS Naturals, FiniteSets

CONSTANTS
    Tasks,        \* task ids; numbers, whose order stands for file-name order
    Patrols,      \* patrol ids (the slots of `nv patrol --id <slot>`)
    Mayors,       \* processes that call Mayor::status / run_until_idle
    Clients,      \* processes that call Mayor::enqueue
    NoTask,       \* "no task in hand"
    NoPatrol,     \* "nobody"
    Budget,       \* PatrolTask.budget_microusd
    TotalBudget,  \* Mayor.total_budget_microusd
    Outcomes,     \* what a dispatch may return: [verdict, cost]
    MaxStops,     \* bound: how many times a patrol or a mayor is killed
    Slow,         \* may a live process outlast claim_ttl_secs or LOCK_TIMEOUT?
    ReuseSlots,   \* may a stopped patrol be started again under its old id?
    Resubmit      \* may a task id be enqueued more than once?

Verdicts == {"success", "skipped", "failed"}

(* A PatrolResult, reduced to what the queue and the ledger look at. *)
Results == [verdict : Verdicts, cost : Nat]
NoResult == [verdict |-> "none", cost |-> 0]

ASSUME ConstantsAssumption ==
    /\ Tasks \subseteq Nat
    /\ NoTask \notin Tasks
    /\ NoPatrol \notin Patrols
    /\ Budget \in [Tasks -> Nat]
    /\ TotalBudget \in Nat
    /\ Outcomes \subseteq Results
    /\ MaxStops \in Nat
    /\ Slow \in BOOLEAN
    /\ ReuseSlots \in BOOLEAN
    /\ Resubmit \in BOOLEAN

VARIABLES
    (* the file system *)
    pending,    \* tasks with a file in pending/
    claimed,    \* per patrol, the tasks with a file in claimed/<patrol>/
    hasDir,     \* does the directory claimed/<patrol>/ exist?
    done,       \* tasks with a file in done/
    failed,     \* tasks with a file in failed/
    result,     \* per task, the content of results/<task>.json
    fresh,      \* is heartbeat/<patrol> younger than claim_ttl_secs?
    lock,       \* the patrol that holds mayor.lock
    (* the patrols *)
    pc,         \* where in run_loop / claim / run_task the patrol is
    job,        \* the candidate, then the claimed task
    res,        \* the PatrolResult of the dispatch
    started,    \* slots that have been started at least once
    stops,      \* kills so far
    (* the mayors *)
    mpc,        \* where in status / recover_orphans the mayor is
    todo,       \* claim directories not visited yet
    target,     \* the patrol whose directory is being swept
    files,      \* files of that directory not moved yet
    cur,        \* the task just moved back to pending/
    seen,       \* history: tasks in the queue when pending/ was counted
    (* the clients *)
    cpc,        \* where in enqueue the client is
    ctask,      \* the task it enqueues
    submitted   \* history: task ids enqueue was called with

fileVars   == <<pending, claimed, done, failed>>
fsVars     == <<fileVars, hasDir, result, fresh, lock>>
lifeVars   == <<started, stops>>
patrolVars == <<pc, job, res, lifeVars>>
sweepVars  == <<todo, target, files, cur, seen>>
mayorVars  == <<mpc, sweepVars>>
clientVars == <<cpc, ctask, submitted>>
notPatrol  == <<mayorVars, clientVars>>
notMayor   == <<patrolVars, clientVars>>
vars       == <<fsVars, patrolVars, mayorVars, clientVars>>

PatrolSteps == {"down", "ready", "sleep", "lock", "scan", "rename", "read",
                "recordClaim", "run", "result", "recordFinish", "move",
                "cleanup"}
MayorSteps  == {"off", "dirs", "list", "move", "record", "count",
                "countClaimed", "idle"}
ClientSteps == {"idle", "scanClaimed", "write", "record"}

(* Steps of Patrol::claim made while mayor.lock is held. *)
InClaim == {"scan", "rename", "read", "recordClaim"}

(* Steps during which a patrol works on a task it believes to own. *)
Working == {"run", "result", "recordFinish", "move"}

(* The tasks somebody has claimed, and the ones the queue knows of. *)
AllClaimed == {t \in Tasks : \E p \in Patrols : t \in claimed[p]}
Finished   == done \cup failed
Queued     == pending \cup AllClaimed
Located    == Queued \cup Finished

Init ==
    /\ pending = {}
    /\ claimed = [p \in Patrols |-> {}]
    /\ hasDir = [p \in Patrols |-> FALSE]
    /\ done = {}
    /\ failed = {}
    /\ result = [t \in Tasks |-> NoResult]
    /\ fresh = [p \in Patrols |-> FALSE]
    /\ lock = NoPatrol
    /\ pc = [p \in Patrols |-> "down"]
    /\ job = [p \in Patrols |-> NoTask]
    /\ res = [p \in Patrols |-> NoResult]
    /\ started = {}
    /\ stops = 0
    /\ mpc = [m \in Mayors |-> "off"]
    /\ todo = [m \in Mayors |-> {}]
    /\ target = [m \in Mayors |-> NoPatrol]
    /\ files = [m \in Mayors |-> {}]
    /\ cur = [m \in Mayors |-> NoTask]
    /\ seen = [m \in Mayors |-> {}]
    /\ cpc = [c \in Clients |-> "idle"]
    /\ ctask = [c \in Clients |-> NoTask]
    /\ submitted = {}

-----------------------------------------------------------------------------
(***************************************************************************)
(* Mayor::enqueue.  No lock is held: task_exists_anywhere first looks at   *)
(* the flat directories and the results, then walks claimed/*, and only    *)
(* then is pending/<task>.json written.                                    *)
(***************************************************************************)

ClientGoto(c, step) == cpc' = [cpc EXCEPT ![c] = step]

(* The budget ceiling, and task_exists_anywhere over the flat directories. *)
KnownFlat(t) == t \in pending \cup done \cup failed \/ result[t] # NoResult

Enqueue(c, t) ==
    /\ cpc[c] = "idle"
    /\ Resubmit \/ t \notin submitted
    /\ submitted' = submitted \cup {t}
    /\ IF Budget[t] > TotalBudget \/ KnownFlat(t)
       THEN UNCHANGED <<cpc, ctask>>      \* an error is returned
       ELSE /\ ClientGoto(c, "scanClaimed")
            /\ ctask' = [ctask EXCEPT ![c] = t]
    /\ UNCHANGED <<fsVars, patrolVars, mayorVars>>

EnqueueScanClaimed(c) ==
    /\ cpc[c] = "scanClaimed"
    /\ ClientGoto(c, IF ctask[c] \in AllClaimed THEN "idle" ELSE "write")
    /\ UNCHANGED <<ctask, submitted, fsVars, patrolVars, mayorVars>>

EnqueueWrite(c) ==
    /\ cpc[c] = "write"
    /\ pending' = pending \cup {ctask[c]}
    /\ ClientGoto(c, "record")
    /\ UNCHANGED <<claimed, hasDir, done, failed, result, fresh, lock, ctask,
                   submitted, patrolVars, mayorVars>>

(* Coordinator::record_enqueued; its effect is in PatrolLedger. *)
EnqueueRecord(c) ==
    /\ cpc[c] = "record"
    /\ ClientGoto(c, "idle")
    /\ UNCHANGED <<ctask, submitted, fsVars, patrolVars, mayorVars>>

-----------------------------------------------------------------------------
(***************************************************************************)
(* The patrol: run_loop, claim and run_task.                               *)
(***************************************************************************)

Goto(p, step)      == pc' = [pc EXCEPT ![p] = step]
WriteHeartbeat(p)  == fresh' = [fresh EXCEPT ![p] = TRUE]
ReleaseLock(p)     == lock' = IF lock = p THEN NoPatrol ELSE lock

(* An operator starts `nv patrol --id p`. *)
Start(p) ==
    /\ pc[p] = "down"
    /\ ReuseSlots \/ p \notin started
    /\ started' = started \cup {p}
    /\ Goto(p, "ready")
    /\ UNCHANGED <<job, res, stops, fsVars, notPatrol>>

(* The process is killed, or leaves its loop, at any point; the kernel     *)
(* drops its flock.                                                        *)
Crash(p) ==
    /\ pc[p] # "down"
    /\ stops < MaxStops
    /\ stops' = stops + 1
    /\ Goto(p, "down")
    /\ ReleaseLock(p)
    /\ job' = [job EXCEPT ![p] = NoTask]
    /\ res' = [res EXCEPT ![p] = NoResult]
    /\ UNCHANGED <<fileVars, hasDir, result, fresh, started, notPatrol>>

(* The heartbeat file becomes older than claim_ttl_secs. *)
HeartbeatExpires(p) ==
    /\ fresh[p]
    /\ Slow \/ pc[p] = "down"
    /\ fresh' = [fresh EXCEPT ![p] = FALSE]
    /\ UNCHANGED <<fileVars, hasDir, result, lock, patrolVars, notPatrol>>

(* claim: the heartbeat is written before the lock is asked for. *)
ClaimStart(p) ==
    /\ pc[p] = "ready"
    /\ WriteHeartbeat(p)
    /\ Goto(p, "lock")
    /\ UNCHANGED <<fileVars, hasDir, result, lock, job, res, lifeVars,
                   notPatrol>>

(* Mutation: the lock is taken without waiting for its holder. *)
Acquire_NoWait(p) == lock' = p

(* FileLock::acquire on mayor.lock. *)
Acquire(p) == lock = NoPatrol /\ lock' = p

ClaimLock(p) ==
    /\ pc[p] = "lock"
    /\ Acquire(p)
    /\ Goto(p, "scan")
    /\ UNCHANGED <<fileVars, hasDir, result, fresh, job, res, lifeVars,
                   notPatrol>>

(* MayorError::LockTimeout after LOCK_TIMEOUT; run_loop returns the error. *)
ClaimLockTimeout(p) ==
    /\ pc[p] = "lock"
    /\ Slow
    /\ lock # NoPatrol
    /\ Goto(p, "down")
    /\ UNCHANGED <<fsVars, job, res, lifeVars, notPatrol>>

(* QueueEmpty: the lock is dropped and run_loop sleeps one heartbeat. *)
ClaimScanEmpty(p) ==
    /\ pc[p] = "scan"
    /\ pending = {}
    /\ ReleaseLock(p)
    /\ Goto(p, "sleep")
    /\ UNCHANGED <<fileVars, hasDir, result, fresh, job, res, lifeVars,
                   notPatrol>>

(* The first file name in order is the candidate; claimed/<p>/ is created. *)
ClaimScan(p) ==
    /\ pc[p] = "scan"
    /\ \E t \in pending :
          /\ \A u \in pending : t <= u
          /\ job' = [job EXCEPT ![p] = t]
    /\ hasDir' = [hasDir EXCEPT ![p] = TRUE]
    /\ Goto(p, "rename")
    /\ UNCHANGED <<fileVars, result, fresh, lock, res, lifeVars, notPatrol>>

(* The rename finds its source and its destination directory. *)
CanRename(p) == job[p] \in pending /\ hasDir[p]

ClaimRename(p) ==
    /\ pc[p] = "rename"
    /\ CanRename(p)
    /\ pending' = pending \ {job[p]}
    /\ claimed' = [claimed EXCEPT ![p] = @ \cup {job[p]}]
    /\ Goto(p, "read")
    /\ UNCHANGED <<hasDir, done, failed, result, fresh, lock, job, res,
                   lifeVars, notPatrol>>

(* Every error of claim drops the lock and ends run_loop. *)
ClaimError(p) ==
    /\ ReleaseLock(p)
    /\ Goto(p, "down")
    /\ job' = [job EXCEPT ![p] = NoTask]
    /\ UNCHANGED <<fileVars, hasDir, result, fresh, res, lifeVars, notPatrol>>

(* ENOENT: reported as ClaimFailed("lost race"). *)
ClaimRenameFails(p) ==
    /\ pc[p] = "rename"
    /\ ~CanRename(p)
    /\ ClaimError(p)

(* read_json of the claimed file. *)
ClaimRead(p) ==
    /\ pc[p] = "read"
    /\ job[p] \in claimed[p]
    /\ Goto(p, "recordClaim")
    /\ UNCHANGED <<fsVars, job, res, lifeVars, notPatrol>>

ClaimReadFails(p) ==
    /\ pc[p] = "read"
    /\ job[p] \notin claimed[p]
    /\ ClaimError(p)

(* Coordinator::record_claimed, then claim returns and drops the lock. *)
ClaimRecord(p) ==
    /\ pc[p] = "recordClaim"
    /\ ReleaseLock(p)
    /\ Goto(p, "run")
    /\ UNCHANGED <<fileVars, hasDir, result, fresh, job, res, lifeVars,
                   notPatrol>>

(* run_loop's sleep ends: heartbeat, and round the loop again. *)
Wake(p) ==
    /\ pc[p] = "sleep"
    /\ WriteHeartbeat(p)
    /\ Goto(p, "ready")
    /\ UNCHANGED <<fileVars, hasDir, result, lock, job, res, lifeVars,
                   notPatrol>>

(* Mutation: a run over its ceiling keeps the verdict it came with. *)
Capped_Uncapped(o, t) == o

(* Defense in depth: a cost above the task's ceiling makes it a failure. *)
Capped(o, t) ==
    IF o.cost > Budget[t] THEN [o EXCEPT !.verdict = "failed"] ELSE o

(* The dispatch future resolves, with a result or with an error. *)
Dispatch(p) ==
    /\ pc[p] = "run"
    /\ \/ \E o \in Outcomes : res' = [res EXCEPT ![p] = Capped(o, job[p])]
       \/ res' = [res EXCEPT ![p] = [verdict |-> "failed", cost |-> 0]]
    /\ Goto(p, "result")
    /\ UNCHANGED <<fsVars, job, lifeVars, notPatrol>>

(* Mutation: the result is written only for a run that did not fail. *)
WriteResult_SuccessOnly(p) ==
    /\ pc[p] = "result"
    /\ result' = IF res[p].verdict = "failed" THEN result
                 ELSE [result EXCEPT ![job[p]] = res[p]]
    /\ Goto(p, "recordFinish")
    /\ UNCHANGED <<fileVars, hasDir, fresh, lock, job, res, lifeVars,
                   notPatrol>>

(* Mutation: a result file that is already there is kept. *)
WriteResult_KeepFirst(p) ==
    /\ pc[p] = "result"
    /\ result' = IF result[job[p]] # NoResult THEN result
                 ELSE [result EXCEPT ![job[p]] = res[p]]
    /\ Goto(p, "recordFinish")
    /\ UNCHANGED <<fileVars, hasDir, fresh, lock, job, res, lifeVars,
                   notPatrol>>

(* write_json_atomic of results/<task>.json replaces what was there. *)
WriteResult(p) ==
    /\ pc[p] = "result"
    /\ result' = [result EXCEPT ![job[p]] = res[p]]
    /\ Goto(p, "recordFinish")
    /\ UNCHANGED <<fileVars, hasDir, fresh, lock, job, res, lifeVars,
                   notPatrol>>

(* Coordinator::record_finished; its effect is in PatrolLedger. *)
FinishRecord(p) ==
    /\ pc[p] = "recordFinish"
    /\ Goto(p, "move")
    /\ UNCHANGED <<fsVars, job, res, lifeVars, notPatrol>>

(* The claimed file goes to done/ or failed/ ... *)
FinishMove(p) ==
    /\ pc[p] = "move"
    /\ job[p] \in claimed[p]
    /\ claimed' = [claimed EXCEPT ![p] = @ \ {job[p]}]
    /\ IF res[p].verdict = "failed"
       THEN failed' = failed \cup {job[p]} /\ UNCHANGED done
       ELSE done' = done \cup {job[p]} /\ UNCHANGED failed
    /\ Goto(p, "cleanup")
    /\ UNCHANGED <<pending, hasDir, result, fresh, lock, job, res, lifeVars,
                   notPatrol>>

(* ... unless orphan recovery has swept it: a no-op for the patrol. *)
FinishSwept(p) ==
    /\ pc[p] = "move"
    /\ job[p] \notin claimed[p]
    /\ Goto(p, "cleanup")
    /\ UNCHANGED <<fsVars, job, res, lifeVars, notPatrol>>

(* remove_dir of an empty claimed/<p>/, and a last heartbeat. *)
Cleanup(p) ==
    /\ pc[p] = "cleanup"
    /\ hasDir' = [hasDir EXCEPT ![p] = @ /\ claimed[p] # {}]
    /\ WriteHeartbeat(p)
    /\ job' = [job EXCEPT ![p] = NoTask]
    /\ res' = [res EXCEPT ![p] = NoResult]
    /\ Goto(p, "ready")
    /\ UNCHANGED <<fileVars, result, lock, lifeVars, notPatrol>>

PatrolStep(p) ==
    \/ ClaimStart(p) \/ ClaimLock(p) \/ ClaimLockTimeout(p)
    \/ ClaimScanEmpty(p) \/ ClaimScan(p)
    \/ ClaimRename(p) \/ ClaimRenameFails(p)
    \/ ClaimRead(p) \/ ClaimReadFails(p) \/ ClaimRecord(p)
    \/ Wake(p) \/ Dispatch(p) \/ WriteResult(p) \/ FinishRecord(p)
    \/ FinishMove(p) \/ FinishSwept(p) \/ Cleanup(p)

-----------------------------------------------------------------------------
(***************************************************************************)
(* Mayor::status: recover_orphans, then the counts.  run_until_idle is     *)
(* status in a loop: it returns when status has counted no pending and no  *)
(* claimed file.  Nothing here holds mayor.lock.                           *)
(***************************************************************************)

MGoto(m, step) == mpc' = [mpc EXCEPT ![m] = step]

(* status begins: read_dir of claimed/. *)
StatusStart(m) ==
    /\ mpc[m] \in {"off", "idle"}
    /\ todo' = [todo EXCEPT ![m] = {p \in Patrols : hasDir[p]}]
    /\ seen' = [seen EXCEPT ![m] = {}]
    /\ MGoto(m, "dirs")
    /\ UNCHANGED <<target, files, cur, fsVars, notMayor>>

(* Mutation: claimed/<p>/ is swept without a look at the heartbeat. *)
Alive_Never(p) == FALSE

(* Mutation: the heartbeat is never found too old. *)
Alive_Always(p) == TRUE

(* heartbeat/<p> exists and is younger than claim_ttl_secs. *)
Alive(p) == fresh[p]

(* The heartbeat is young enough: this directory is skipped. *)
SweepSkip(m, p) ==
    /\ mpc[m] = "dirs"
    /\ p \in todo[m]
    /\ Alive(p)
    /\ todo' = [todo EXCEPT ![m] = @ \ {p}]
    /\ UNCHANGED <<mpc, target, files, cur, seen, fsVars, notMayor>>

(* The heartbeat is missing or too old: this directory will be swept. *)
SweepPick(m, p) ==
    /\ mpc[m] = "dirs"
    /\ p \in todo[m]
    /\ ~Alive(p)
    /\ todo' = [todo EXCEPT ![m] = @ \ {p}]
    /\ target' = [target EXCEPT ![m] = p]
    /\ MGoto(m, "list")
    /\ UNCHANGED <<files, cur, seen, fsVars, notMayor>>

(* status returns an error, or run_until_idle goes to sleep. *)
StatusReturn(m) ==
    /\ MGoto(m, "off")
    /\ todo' = [todo EXCEPT ![m] = {}]
    /\ target' = [target EXCEPT ![m] = NoPatrol]
    /\ files' = [files EXCEPT ![m] = {}]
    /\ cur' = [cur EXCEPT ![m] = NoTask]
    /\ seen' = [seen EXCEPT ![m] = {}]

(* read_dir of claimed/<p>/. *)
SweepList(m) ==
    /\ mpc[m] = "list"
    /\ hasDir[target[m]]
    /\ files' = [files EXCEPT ![m] = claimed[target[m]]]
    /\ MGoto(m, "move")
    /\ UNCHANGED <<todo, target, cur, seen, fsVars, notMayor>>

(* The directory is gone: status returns the ENOENT. *)
SweepListFails(m) ==
    /\ mpc[m] = "list"
    /\ ~hasDir[target[m]]
    /\ StatusReturn(m)
    /\ UNCHANGED <<fsVars, notMayor>>

(* Mutation: the file is copied back, not renamed. *)
RenameBack_Copy(p, t) ==
    /\ pending' = pending \cup {t}
    /\ UNCHANGED claimed

(* Mutation: the file is removed from claimed/ and never reaches pending/. *)
RenameBack_Drop(p, t) ==
    /\ claimed' = [claimed EXCEPT ![p] = @ \ {t}]
    /\ UNCHANGED pending

(* rename claimed/<p>/<t>.json -> pending/<t>.json. *)
RenameBack(p, t) ==
    /\ claimed' = [claimed EXCEPT ![p] = @ \ {t}]
    /\ pending' = pending \cup {t}

SweepMove(m, t) ==
    /\ mpc[m] = "move"
    /\ t \in files[m]
    /\ t \in claimed[target[m]]
    /\ RenameBack(target[m], t)
    /\ files' = [files EXCEPT ![m] = @ \ {t}]
    /\ cur' = [cur EXCEPT ![m] = t]
    /\ MGoto(m, "record")
    /\ UNCHANGED <<hasDir, done, failed, result, fresh, lock, todo, target,
                   seen, notMayor>>

(* The file was moved by its patrol or by another mayor: status fails. *)
SweepMoveFails(m, t) ==
    /\ mpc[m] = "move"
    /\ t \in files[m]
    /\ t \notin claimed[target[m]]
    /\ StatusReturn(m)
    /\ UNCHANGED <<fsVars, notMayor>>

(* Coordinator::record_recovered and the Reclaimed mail; see PatrolLedger. *)
SweepRecord(m) ==
    /\ mpc[m] = "record"
    /\ cur' = [cur EXCEPT ![m] = NoTask]
    /\ MGoto(m, "move")
    /\ UNCHANGED <<todo, target, files, seen, fsVars, notMayor>>

(* All files are moved: remove_dir, which only removes an empty directory. *)
SweepRemoveDir(m) ==
    /\ mpc[m] = "move"
    /\ files[m] = {}
    /\ hasDir' = [hasDir EXCEPT ![target[m]] = @ /\ claimed[target[m]] # {}]
    /\ target' = [target EXCEPT ![m] = NoPatrol]
    /\ MGoto(m, "dirs")
    /\ UNCHANGED <<fileVars, result, fresh, lock, todo, files, cur, seen,
                   notMayor>>

(* pending_count.  A non-zero count decides that the queue is not idle. *)
CountPending(m) ==
    /\ mpc[m] = "dirs"
    /\ todo[m] = {}
    /\ IF pending # {}
       THEN StatusReturn(m)
       ELSE /\ seen' = [seen EXCEPT ![m] = Located]
            /\ MGoto(m, "count")
            /\ UNCHANGED <<todo, target, files, cur>>
    /\ UNCHANGED <<fsVars, notMayor>>

(* count_claimed_recursive lists the claim directories ... *)
CountDirs(m) ==
    /\ mpc[m] = "count"
    /\ todo' = [todo EXCEPT ![m] = {p \in Patrols : hasDir[p]}]
    /\ MGoto(m, "countClaimed")
    /\ UNCHANGED <<target, files, cur, seen, fsVars, notMayor>>

(* Mutation: claims of patrols that look dead are not counted. *)
CountClaimed_FreshOnly(m, p) ==
    /\ mpc[m] = "countClaimed"
    /\ p \in todo[m]
    /\ IF fresh[p] /\ claimed[p] # {}
       THEN StatusReturn(m)
       ELSE /\ todo' = [todo EXCEPT ![m] = @ \ {p}]
            /\ UNCHANGED <<mpc, target, files, cur, seen>>
    /\ UNCHANGED <<fsVars, notMayor>>

(* ... and counts the files of one after the other. *)
CountClaimed(m, p) ==
    /\ mpc[m] = "countClaimed"
    /\ p \in todo[m]
    /\ IF claimed[p] # {}
       THEN StatusReturn(m)
       ELSE /\ todo' = [todo EXCEPT ![m] = @ \ {p}]
            /\ UNCHANGED <<mpc, target, files, cur, seen>>
    /\ UNCHANGED <<fsVars, notMayor>>

(* Both counts are zero: run_until_idle returns Ok. *)
ReturnIdle(m) ==
    /\ mpc[m] = "countClaimed"
    /\ todo[m] = {}
    /\ MGoto(m, "idle")
    /\ UNCHANGED <<sweepVars, fsVars, notMayor>>

(* The mayor process is killed in the middle of a status call. *)
MayorCrash(m) ==
    /\ mpc[m] \notin {"off", "idle"}
    /\ stops < MaxStops
    /\ stops' = stops + 1
    /\ StatusReturn(m)
    /\ UNCHANGED <<fsVars, pc, job, res, started, clientVars>>

MayorStep(m) ==
    \/ StatusStart(m)
    \/ \E p \in Patrols : SweepSkip(m, p) \/ SweepPick(m, p)
    \/ SweepList(m) \/ SweepListFails(m)
    \/ \E t \in Tasks : SweepMove(m, t) \/ SweepMoveFails(m, t)
    \/ SweepRecord(m) \/ SweepRemoveDir(m)
    \/ CountPending(m) \/ CountDirs(m)
    \/ \E p \in Patrols : CountClaimed(m, p)
    \/ ReturnIdle(m)

ClientStep(c) ==
    \/ EnqueueScanClaimed(c) \/ EnqueueWrite(c) \/ EnqueueRecord(c)

Next ==
    \/ \E c \in Clients : ClientStep(c) \/ \E t \in Tasks : Enqueue(c, t)
    \/ \E p \in Patrols : \/ PatrolStep(p) \/ Start(p) \/ Crash(p)
                          \/ HeartbeatExpires(p)
    \/ \E m \in Mayors : MayorStep(m) \/ MayorCrash(m)

Spec == Init /\ [][Next]_vars

(***************************************************************************)
(* Fairness.  The processes are ordinary schedulable processes, so each    *)
(* one that can move eventually does; time passes, so the heartbeat of a   *)
(* stopped patrol eventually expires; and the operator keeps at least the  *)
(* unused slots staffed and a mayor running (`nv patrol`, `nv mayor`).     *)
(***************************************************************************)
Fairness ==
    /\ \A c \in Clients : WF_vars(ClientStep(c))
    /\ \A p \in Patrols : /\ WF_vars(PatrolStep(p))
                          /\ WF_vars(Start(p))
                          /\ WF_vars(HeartbeatExpires(p))
    /\ \A m \in Mayors : WF_vars(MayorStep(m))

FairSpec == Spec /\ Fairness

-----------------------------------------------------------------------------
(***************************************************************************)
(* Properties                                                              *)
(***************************************************************************)

(* Every variable has its type. *)
TypeOK ==
    /\ pending \subseteq Tasks
    /\ claimed \in [Patrols -> SUBSET Tasks]
    /\ hasDir \in [Patrols -> BOOLEAN]
    /\ done \subseteq Tasks
    /\ failed \subseteq Tasks
    /\ result \in [Tasks -> Results \cup {NoResult}]
    /\ fresh \in [Patrols -> BOOLEAN]
    /\ lock \in Patrols \cup {NoPatrol}
    /\ pc \in [Patrols -> PatrolSteps]
    /\ job \in [Patrols -> Tasks \cup {NoTask}]
    /\ res \in [Patrols -> Results \cup {NoResult}]
    /\ started \subseteq Patrols
    /\ stops \in Nat
    /\ mpc \in [Mayors -> MayorSteps]
    /\ todo \in [Mayors -> SUBSET Patrols]
    /\ target \in [Mayors -> Patrols \cup {NoPatrol}]
    /\ files \in [Mayors -> SUBSET Tasks]
    /\ cur \in [Mayors -> Tasks \cup {NoTask}]
    /\ seen \in [Mayors -> SUBSET Tasks]
    /\ cpc \in [Clients -> ClientSteps]
    /\ ctask \in [Clients -> Tasks \cup {NoTask}]
    /\ submitted \subseteq Tasks

(* A task file is in at most one queue directory, whatever claims, sweeps, *)
(* kills and restarts do, as long as no id is enqueued twice: the renames  *)
(* of claim, run_task and recover_orphans move it and never copy it.       *)
OneCopy ==
    \A t \in Tasks :
        /\ t \in pending => t \notin AllClaimed \cup Finished
        /\ t \in AllClaimed => t \notin Finished
        /\ ~(t \in done /\ t \in failed)
        /\ \A p, q \in Patrols : t \in claimed[p] \cap claimed[q] => p = q

(* Between its scan and its rename, a patrol's candidate stays in pending/:*)
(* mayor.lock keeps every other claimer out, and sweeps only add.  So the  *)
(* "lost race" branch of claim can only mean that its own claim directory  *)
(* was removed under it.                                                   *)
LockKeepsCandidate ==
    \A p \in Patrols : pc[p] = "rename" => job[p] \in pending

(* A task in done/ or failed/ has a result file, even if its patrol was    *)
(* killed between the two writes: run_task writes the result first.        *)
ResultBeforeMove ==
    \A t \in Finished : result[t] # NoResult

(* No two live patrols execute the same task.  Holds when processes are    *)
(* punctual and slots are not reused; see the README for what breaks it    *)
(* otherwise.                                                              *)
NoDoubleRun ==
    \A p, q \in Patrols :
        (pc[p] \in Working /\ pc[q] \in Working /\ job[p] = job[q]) => p = q

(* The directory a finished task is in agrees with its result file, in     *)
(* the direction run_task maps verdicts to directories.                    *)
ResultMatchesDirectory ==
    /\ \A t \in done : result[t].verdict # "failed"
    /\ \A t \in failed : result[t].verdict = "failed"

(* A finished task in done/ stayed within its own ceiling, and that        *)
(* ceiling within the total budget enqueue checks.                         *)
DoneWithinBudget ==
    \A t \in done : result[t].cost <= Budget[t] /\ Budget[t] <= TotalBudget

(* run_until_idle returns Ok only when every task that was in the queue as *)
(* it counted pending/ has finished.                                       *)
IdleMeansDrained ==
    \A m \in Mayors : mpc[m] = "idle" => seen[m] \subseteq Finished

(* Every pending task is eventually done or failed, although a patrol may  *)
(* be killed while it holds it: the sweep returns it to another patrol.    *)
PendingResolves ==
    \A t \in Tasks : (t \in pending) ~> (t \in Finished)

(***************************************************************************)
(* The task board the queue implements: every task is in exactly one place *)
(* and moves only along the arrows of TaskBoard.                           *)
(***************************************************************************)
Owner(t) == CHOOSE p \in Patrols : t \in claimed[p]

WhereIs(t) ==
    IF t \in done THEN [at |-> "done", by |-> NoPatrol]
    ELSE IF t \in failed THEN [at |-> "failed", by |-> NoPatrol]
    ELSE IF t \in AllClaimed THEN [at |-> "claimed", by |-> Owner(t)]
    ELSE IF t \in pending THEN [at |-> "pending", by |-> NoPatrol]
    ELSE [at |-> "absent", by |-> NoPatrol]

Board == INSTANCE TaskBoard WITH place <- [t \in Tasks |-> WhereIs(t)]

(* The queue directories implement the task board. *)
ImplementsBoard == Board!Spec

=============================================================================
