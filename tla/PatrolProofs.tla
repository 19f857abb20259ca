---------------------------- MODULE PatrolProofs ----------------------------
(***************************************************************************)
(* Proofs about the Mayor / Patrol queue, for any number of tasks,         *)
(* patrols, mayors, clients, kills and restarts, and about the             *)
(* coordination ledger: what its rows may say, after any number of         *)
(* reconciles too.                                                         *)
(***************************************************************************)
EXTENDS MCLedgerRuns, TLAPS

USE DEF fileVars, fsVars, lifeVars, patrolVars, sweepVars, mayorVars,
        clientVars, notPatrol, notMayor, vars, Goto, MGoto, ClientGoto

(* What a process has in hand while it is in the middle of an operation. *)
InHand ==
    /\ \A c \in Clients : cpc[c] # "idle" => ctask[c] \in Tasks
    /\ \A p \in Patrols :
          pc[p] \in {"rename", "read", "recordClaim"} \cup Working
             => job[p] \in Tasks
    /\ \A m \in Mayors :
          mpc[m] \in {"list", "move", "record"} => target[m] \in Patrols

TypeInv == TypeOK /\ InHand

-----------------------------------------------------------------------------
(* Every step of every process keeps the types.  The types alone are not   *)
(* inductive: a task or a patrol that is written somewhere must have been  *)
(* in hand.                                                                *)
LEMMA TypeNext == TypeInv /\ [Next]_vars => TypeInv'
<1> SUFFICES ASSUME TypeInv, [Next]_vars PROVE TypeInv'
  OBVIOUS
<1> USE ConstantsAssumption
    DEF TypeInv, InHand, TypeOK, PatrolSteps, MayorSteps, ClientSteps, Working
<1>1. ASSUME NEW c \in Clients, ClientStep(c) PROVE TypeInv'
  <2>1. CASE EnqueueScanClaimed(c)
    BY <2>1 DEF EnqueueScanClaimed
  <2>2. CASE EnqueueWrite(c)
    BY <2>2 DEF EnqueueWrite
  <2>3. CASE EnqueueRecord(c)
    BY <2>3 DEF EnqueueRecord
  <2> QED
    BY <1>1, <2>1, <2>2, <2>3 DEF ClientStep
<1>2. ASSUME NEW c \in Clients, NEW t \in Tasks, Enqueue(c, t) PROVE TypeInv'
  BY <1>2 DEF Enqueue
<1>3. ASSUME NEW p \in Patrols, PatrolStep(p) PROVE TypeInv'
  <2>1. CASE ClaimStart(p)
    BY <2>1 DEF ClaimStart, WriteHeartbeat
  <2>2. CASE ClaimLock(p)
    BY <2>2 DEF ClaimLock, Acquire
  <2>3. CASE ClaimLockTimeout(p)
    BY <2>3 DEF ClaimLockTimeout
  <2>4. CASE ClaimScanEmpty(p)
    BY <2>4 DEF ClaimScanEmpty, ReleaseLock
  <2>5. CASE ClaimScan(p)
    BY <2>5 DEF ClaimScan
  <2>6. CASE ClaimRename(p)
    <3>1. job[p] \in Tasks /\ claimed[p] \cup {job[p]} \in SUBSET Tasks
      BY <2>6 DEF ClaimRename, CanRename
    <3> QED
      BY <2>6, <3>1 DEF ClaimRename
  <2>7. CASE ClaimRenameFails(p)
    BY <2>7 DEF ClaimRenameFails, ClaimError, ReleaseLock
  <2>8. CASE ClaimRead(p)
    BY <2>8 DEF ClaimRead
  <2>9. CASE ClaimReadFails(p)
    BY <2>9 DEF ClaimReadFails, ClaimError, ReleaseLock
  <2>10. CASE ClaimRecord(p)
    BY <2>10 DEF ClaimRecord, ReleaseLock
  <2>11. CASE Wake(p)
    BY <2>11 DEF Wake, WriteHeartbeat
  <2>12. CASE Dispatch(p)
    <3>1. job[p] \in Tasks
      BY <2>12 DEF Dispatch
    <3>2. \A o \in Outcomes : Capped(o, job[p]) \in Results
      BY <3>1 DEF Capped, Results, Verdicts
    <3>3. [verdict |-> "failed", cost |-> 0] \in Results
      BY DEF Results, Verdicts
    <3>4. res' \in [Patrols -> Results \cup {NoResult}]
      BY <2>12, <3>2, <3>3 DEF Dispatch
    <3> QED
      BY <2>12, <3>1, <3>4 DEF Dispatch
  <2>13. CASE WriteResult(p)
    BY <2>13 DEF WriteResult
  <2>14. CASE FinishRecord(p)
    BY <2>14 DEF FinishRecord
  <2>15. CASE FinishMove(p)
    <3>1. job[p] \in Tasks /\ claimed[p] \ {job[p]} \in SUBSET Tasks
      BY <2>15 DEF FinishMove
    <3>2. done' \subseteq Tasks /\ failed' \subseteq Tasks
      BY <2>15, <3>1 DEF FinishMove
    <3> QED
      BY <2>15, <3>1, <3>2 DEF FinishMove
  <2>16. CASE FinishSwept(p)
    BY <2>16 DEF FinishSwept
  <2>17. CASE Cleanup(p)
    BY <2>17 DEF Cleanup, WriteHeartbeat
  <2> QED
    BY <1>3, <2>1, <2>2, <2>3, <2>4, <2>5, <2>6, <2>7, <2>8, <2>9, <2>10,
       <2>11, <2>12, <2>13, <2>14, <2>15, <2>16, <2>17
       DEF PatrolStep
<1>4. ASSUME NEW p \in Patrols, Start(p) PROVE TypeInv'
  BY <1>4 DEF Start
<1>5. ASSUME NEW p \in Patrols, Crash(p) PROVE TypeInv'
  BY <1>5 DEF Crash, ReleaseLock, NoResult
<1>6. ASSUME NEW p \in Patrols, HeartbeatExpires(p) PROVE TypeInv'
  BY <1>6 DEF HeartbeatExpires
<1>7. ASSUME NEW m \in Mayors, MayorStep(m) PROVE TypeInv'
  <2>1. CASE StatusStart(m)
    BY <2>1 DEF StatusStart
  <2>2. CASE \E p \in Patrols : SweepSkip(m, p)
    BY <2>2 DEF SweepSkip
  <2>3. CASE \E p \in Patrols : SweepPick(m, p)
    BY <2>3 DEF SweepPick
  <2>4. CASE SweepList(m)
    BY <2>4 DEF SweepList
  <2>5. CASE SweepListFails(m)
    BY <2>5 DEF SweepListFails, StatusReturn
  <2>6. CASE \E t \in Tasks : SweepMove(m, t)
    BY <2>6 DEF SweepMove, RenameBack
  <2>7. CASE \E t \in Tasks : SweepMoveFails(m, t)
    BY <2>7 DEF SweepMoveFails, StatusReturn
  <2>8. CASE SweepRecord(m)
    BY <2>8 DEF SweepRecord
  <2>9. CASE SweepRemoveDir(m)
    BY <2>9 DEF SweepRemoveDir
  <2>10. CASE CountPending(m)
    <3>1. Located \in SUBSET Tasks
      BY DEF Located, Queued, Finished, AllClaimed
    <3>2. CASE pending # {}
      BY <2>10, <3>2 DEF CountPending, StatusReturn
    <3>3. CASE pending = {}
      <4>1. /\ seen' = [seen EXCEPT ![m] = Located]
            /\ mpc' = [mpc EXCEPT ![m] = "count"]
            /\ UNCHANGED <<todo, target, files, cur, fsVars, notMayor>>
        BY <2>10, <3>3 DEF CountPending
      <4>2. TypeOK'
        BY <3>1, <4>1
      <4>3. InHand'
        BY <4>1
      <4> QED
        BY <4>2, <4>3
    <3> QED
      BY <3>2, <3>3
  <2>11. CASE CountDirs(m)
    BY <2>11 DEF CountDirs
  <2>12. CASE \E p \in Patrols : CountClaimed(m, p)
    <3> PICK p \in Patrols : CountClaimed(m, p)
      BY <2>12
    <3>1. CASE claimed[p] # {}
      <4>1. StatusReturn(m) /\ UNCHANGED <<fsVars, notMayor>>
        BY <3>1 DEF CountClaimed
      <4> QED
        BY <4>1 DEF StatusReturn
    <3>2. CASE claimed[p] = {}
      BY <3>2 DEF CountClaimed
    <3> QED
      BY <3>1, <3>2
  <2>13. CASE ReturnIdle(m)
    BY <2>13 DEF ReturnIdle
  <2> QED
    BY <1>7, <2>1, <2>2, <2>3, <2>4, <2>5, <2>6, <2>7, <2>8, <2>9, <2>10,
       <2>11, <2>12, <2>13
       DEF MayorStep
<1>8. ASSUME NEW m \in Mayors, MayorCrash(m) PROVE TypeInv'
  BY <1>8 DEF MayorCrash, StatusReturn
<1>9. CASE UNCHANGED vars
  BY <1>9
<1> QED
  BY <1>1, <1>2, <1>3, <1>4, <1>5, <1>6, <1>7, <1>8, <1>9 DEF Next

(* The strengthened invariant is an invariant of the specification. *)
LEMMA TypeInvariant == Spec => []TypeInv
<1>1. Init => TypeInv
  BY ConstantsAssumption
     DEF Init, TypeInv, TypeOK, InHand, Working, PatrolSteps, MayorSteps,
         ClientSteps
<1> QED
  BY <1>1, TypeNext, PTL DEF Spec

(* The type invariant of the queue, whatever the environment does: no      *)
(* operation of the mayor, of a patrol or of a client ever records a task, *)
(* a patrol or a verdict that does not exist.                              *)
THEOREM TypeCorrect == Spec => []TypeOK
<1>1. TypeInv => TypeOK
  BY DEF TypeInv
<1> QED
  BY <1>1, TypeInvariant, PTL

-----------------------------------------------------------------------------
(***************************************************************************)
(* mayor.lock                                                              *)
(***************************************************************************)

(* Whoever is between the scan and the end of claim holds the lock. *)
LockInv ==
    /\ \A p \in Patrols : pc[p] \in InClaim => lock = p
    /\ LockKeepsCandidate

(* Clients, mayors and the clock leave the claim in progress alone and     *)
(* never take a file out of pending/.                                      *)
LEMMA OthersOnlyAdd ==
    ASSUME \/ \E c \in Clients : ClientStep(c) \/ \E t \in Tasks : Enqueue(c, t)
           \/ \E p \in Patrols : HeartbeatExpires(p)
           \/ \E m \in Mayors : MayorStep(m) \/ MayorCrash(m)
           \/ UNCHANGED vars
    PROVE  UNCHANGED <<pc, lock, job, res>> /\ pending \subseteq pending'
<1>1. CASE \E c \in Clients : ClientStep(c) \/ \E t \in Tasks : Enqueue(c, t)
  BY <1>1 DEF ClientStep, Enqueue, EnqueueScanClaimed, EnqueueWrite, EnqueueRecord
<1>2. CASE \E p \in Patrols : HeartbeatExpires(p)
  BY <1>2 DEF HeartbeatExpires
<1>3. ASSUME NEW m \in Mayors, MayorStep(m) \/ MayorCrash(m)
      PROVE  UNCHANGED <<pc, lock, job, res>> /\ pending \subseteq pending'
  <2>1. CASE MayorCrash(m)
    BY <2>1 DEF MayorCrash
  <2>2. CASE \E t \in Tasks : SweepMove(m, t)
    BY <2>2 DEF SweepMove, RenameBack
  <2>3. CASE MayorStep(m) /\ ~\E t \in Tasks : SweepMove(m, t)
    BY <2>3
       DEF MayorStep, StatusStart, SweepSkip, SweepPick, SweepList,
           SweepListFails, SweepMoveFails, SweepRecord, SweepRemoveDir,
           CountPending, CountDirs, CountClaimed, ReturnIdle
  <2> QED
    BY <1>3, <2>1, <2>2, <2>3
<1> QED
  BY <1>1, <1>2, <1>3

(* Every step keeps the candidate of the lock holder in pending/. *)
LEMMA LockNext == TypeInv /\ LockInv /\ [Next]_vars => LockInv'
<1> SUFFICES ASSUME TypeInv, LockInv, [Next]_vars PROVE LockInv'
  OBVIOUS
<1> USE ConstantsAssumption
    DEF TypeInv, TypeOK, LockInv, LockKeepsCandidate, InClaim
<1>1. CASE \/ \E c \in Clients : ClientStep(c) \/ \E t \in Tasks : Enqueue(c, t)
           \/ \E p \in Patrols : HeartbeatExpires(p)
           \/ \E m \in Mayors : MayorStep(m) \/ MayorCrash(m)
           \/ UNCHANGED vars
  BY <1>1, OthersOnlyAdd
<1>2. ASSUME NEW p \in Patrols, Start(p) \/ Crash(p) PROVE LockInv'
  BY <1>2 DEF Start, Crash, ReleaseLock
<1>3. ASSUME NEW p \in Patrols, PatrolStep(p) PROVE LockInv'
  <2>1. CASE ClaimStart(p) \/ ClaimLockTimeout(p) \/ Wake(p)
    BY <2>1 DEF ClaimStart, ClaimLockTimeout, Wake
  <2>2. CASE ClaimLock(p)
    BY <2>2 DEF ClaimLock, Acquire
  <2>3. CASE ClaimScanEmpty(p) \/ ClaimRecord(p)
    BY <2>3 DEF ClaimScanEmpty, ClaimRecord, ReleaseLock
  <2>4. CASE ClaimScan(p)
    BY <2>4 DEF ClaimScan
  <2>5. CASE ClaimRename(p)
    BY <2>5 DEF ClaimRename
  <2>6. CASE ClaimRenameFails(p) \/ ClaimReadFails(p)
    BY <2>6 DEF ClaimRenameFails, ClaimReadFails, ClaimError, ReleaseLock
  <2>7. CASE ClaimRead(p)
    BY <2>7 DEF ClaimRead
  <2>8. CASE Dispatch(p) \/ WriteResult(p) \/ FinishRecord(p) \/ FinishMove(p)
             \/ FinishSwept(p) \/ Cleanup(p)
    BY <2>8 DEF Dispatch, WriteResult, FinishRecord, FinishMove, FinishSwept,
                Cleanup
  <2> QED
    BY <1>3, <2>1, <2>2, <2>3, <2>4, <2>5, <2>6, <2>7, <2>8 DEF PatrolStep
<1> QED
  BY <1>1, <1>2, <1>3 DEF Next

(* The lock makes claim's rename find its candidate (Patrol::claim): the   *)
(* "lost race" branch can only be reached because the claim directory was  *)
(* removed, never because another patrol took the file.                    *)
THEOREM CandidateKept == Spec => []LockKeepsCandidate
<1>1. Init => LockInv
  BY DEF Init, LockInv, LockKeepsCandidate, InClaim
<1>2. LockInv => LockKeepsCandidate
  BY DEF LockInv
<1> QED
  BY <1>1, <1>2, TypeInvariant, LockNext, PTL DEF Spec

-----------------------------------------------------------------------------
(***************************************************************************)
(* One file per task                                                       *)
(***************************************************************************)

(* A client between its scan and its write. *)
Entering(c) == cpc[c] \in {"scanClaimed", "write"}

(* OneCopy is not inductive: it needs that a client about to write has an  *)
(* id that nobody else writes and that no directory holds.                 *)
CopyInv ==
    /\ OneCopy
    /\ Located \subseteq submitted
    /\ \A c \in Clients : Entering(c) => ctask[c] \in submitted \ Located
    /\ \A c, d \in Clients :
          Entering(c) /\ Entering(d) /\ ctask[c] = ctask[d] => c = d

(* The steps that move no file and are no client's. *)
LEMMA QuietSteps ==
    ASSUME [Next]_vars,
           ~\E c \in Clients : ClientStep(c) \/ \E t \in Tasks : Enqueue(c, t),
           ~\E p \in Patrols : ClaimRename(p) \/ FinishMove(p),
           ~\E m \in Mayors, t \in Tasks : SweepMove(m, t)
    PROVE  UNCHANGED <<fileVars, clientVars>>
<1>1. ASSUME NEW p \in Patrols, PatrolStep(p)
      PROVE  UNCHANGED <<fileVars, clientVars>>
  BY <1>1 DEF PatrolStep, ClaimStart, ClaimLock, ClaimLockTimeout,
     ClaimScanEmpty, ClaimScan, ClaimRenameFails, ClaimError, ClaimRead,
     ClaimReadFails, ClaimRecord, Wake, Dispatch, WriteResult, FinishRecord,
     FinishSwept, Cleanup
<1>2. ASSUME NEW p \in Patrols, Start(p) \/ Crash(p) \/ HeartbeatExpires(p)
      PROVE  UNCHANGED <<fileVars, clientVars>>
  BY <1>2 DEF Start, Crash, HeartbeatExpires
<1>3. ASSUME NEW m \in Mayors, MayorStep(m) \/ MayorCrash(m)
      PROVE  UNCHANGED <<fileVars, clientVars>>
  BY <1>3 DEF MayorStep, MayorCrash, StatusStart, SweepSkip, SweepPick,
     SweepList, SweepListFails, SweepMoveFails, SweepRecord, SweepRemoveDir,
     CountPending, CountDirs, CountClaimed, ReturnIdle
<1> QED
  BY <1>1, <1>2, <1>3 DEF Next

(* Every step keeps one file per task, if no id is enqueued twice. *)
LEMMA CopyNext ==
    ASSUME ~Resubmit, TypeInv, CopyInv, [Next]_vars PROVE CopyInv'
<1> USE ConstantsAssumption
    DEF TypeInv, TypeOK, InHand, Working, CopyInv, OneCopy, Entering, Located,
        Queued, Finished, AllClaimed
<1>1. CASE UNCHANGED <<fileVars, clientVars>>
  BY <1>1
<1>2. ASSUME NEW c \in Clients, NEW t \in Tasks, Enqueue(c, t) PROVE CopyInv'
  <2>1. /\ t \notin submitted /\ submitted' = submitted \cup {t}
        /\ UNCHANGED fileVars
    BY <1>2 DEF Enqueue
  <2>2. CASE UNCHANGED <<cpc, ctask>>
    BY <2>1, <2>2
  <2>3. CASE ClientGoto(c, "scanClaimed") /\ ctask' = [ctask EXCEPT ![c] = t]
                /\ ~KnownFlat(t)
    BY <2>1, <2>3 DEF KnownFlat
  <2> QED
    BY <1>2, <2>2, <2>3 DEF Enqueue
<1>3. ASSUME NEW c \in Clients, ClientStep(c) PROVE CopyInv'
  <2>1. CASE EnqueueScanClaimed(c)
    BY <2>1 DEF EnqueueScanClaimed
  <2>2. CASE EnqueueWrite(c)
    BY <2>2 DEF EnqueueWrite
  <2>3. CASE EnqueueRecord(c)
    BY <2>3 DEF EnqueueRecord
  <2> QED
    BY <1>3, <2>1, <2>2, <2>3 DEF ClientStep
<1>4. ASSUME NEW p \in Patrols, ClaimRename(p) PROVE CopyInv'
  BY <1>4 DEF ClaimRename, CanRename
<1>5. ASSUME NEW p \in Patrols, FinishMove(p) PROVE CopyInv'
  BY <1>5 DEF FinishMove
<1>6. ASSUME NEW m \in Mayors, NEW t \in Tasks, SweepMove(m, t) PROVE CopyInv'
  BY <1>6 DEF SweepMove, RenameBack
<1> QED
  BY <1>1, <1>2, <1>3, <1>4, <1>5, <1>6, QuietSteps

(* CopyInv holds initially and forever, if no id is enqueued twice. *)
LEMMA CopyInvariant == ASSUME ~Resubmit PROVE Spec => []CopyInv
<1>1. Init => CopyInv
  BY DEF Init, CopyInv, OneCopy, Entering, Located, Queued, Finished, AllClaimed
<1>2. TypeInv /\ CopyInv /\ [Next]_vars => CopyInv'
  BY CopyNext
<1> QED
  BY <1>1, <1>2, TypeInvariant, PTL DEF Spec

(* Claims, sweeps, finishes, kills and restarts of any number of patrols   *)
(* and mayors never duplicate a task file (enqueue, claim, run_task and    *)
(* recover_orphans of mayor_patrol.rs), if no id is enqueued twice.        *)
THEOREM OneFilePerTask == ASSUME ~Resubmit PROVE Spec => []OneCopy
<1>1. CopyInv => OneCopy
  BY DEF CopyInv
<1> QED
  BY <1>1, CopyInvariant, PTL

-----------------------------------------------------------------------------
(***************************************************************************)
(* The queue implements TaskBoard                                          *)
(***************************************************************************)

(* While a task has one file, its owner is the patrol whose directory the  *)
(* file is in.                                                             *)
LEMMA OwnerIs ==
    ASSUME OneCopy, NEW t \in Tasks, NEW p \in Patrols, t \in claimed[p]
    PROVE  Owner(t) = p
BY DEF OneCopy, Owner

(* The same one step later. *)
LEMMA OwnerIsNext ==
    ASSUME OneCopy', NEW t \in Tasks, NEW p \in Patrols, t \in claimed'[p]
    PROVE  Owner(t)' = p
BY DEF OneCopy, Owner

(* A task none of whose files moves stays where it is. *)
LEMMA Stays ==
    ASSUME OneCopy, OneCopy', NEW u \in Tasks,
           u \in pending <=> u \in pending',
           u \in done <=> u \in done',
           u \in failed <=> u \in failed',
           \A p \in Patrols : u \in claimed[p] <=> u \in claimed'[p]
    PROVE  WhereIs(u)' = WhereIs(u)
<1>1. CASE u \in AllClaimed
  <2>1. PICK p \in Patrols : u \in claimed[p]
    BY <1>1 DEF AllClaimed
  <2>2. Owner(u) = p /\ Owner(u)' = p
    BY <2>1, OwnerIs, OwnerIsNext
  <2> QED
    BY <1>1, <2>1, <2>2 DEF WhereIs, AllClaimed
<1>2. CASE u \notin AllClaimed
  BY <1>2 DEF WhereIs, AllClaimed
<1> QED
  BY <1>1, <1>2

(* Every step of the queue is a step of the board or leaves it alone. *)
LEMMA BoardNext ==
    ASSUME TypeInv, CopyInv, CopyInv', [Next]_vars
    PROVE  [Board!Next]_([t \in Tasks |-> WhereIs(t)])
<1> DEFINE W == [t \in Tasks |-> WhereIs(t)]
<1>a. OneCopy /\ OneCopy'
  BY DEF CopyInv
<1> USE DEF TypeInv, TypeOK, InHand, Working
<1>1. CASE UNCHANGED fileVars
  <2>1. \A u \in Tasks : WhereIs(u)' = WhereIs(u)
    BY <1>1, <1>a, Stays
  <2> QED
    BY <2>1
<1>2. ASSUME NEW c \in Clients, EnqueueWrite(c) PROVE Board!Next
  <2>1. PICK t \in Tasks : t = ctask[c] /\ t \notin Located
    BY <1>2 DEF EnqueueWrite, CopyInv, Entering
  <2>2. \A u \in Tasks : u # t => WhereIs(u)' = WhereIs(u)
    BY <1>2, <1>a, <2>1, Stays DEF EnqueueWrite
  <2>3. /\ WhereIs(t) = Board!Nowhere
        /\ WhereIs(t)' = Board!Waiting
    BY <1>2, <2>1 DEF EnqueueWrite, WhereIs, Located, Queued, Finished,
       AllClaimed, Board!Nowhere, Board!Waiting
  <2>4. Board!Submit(t)
    BY <2>1, <2>2, <2>3 DEF Board!Submit, Board!Move
  <2> QED
    BY <2>1, <2>4 DEF Board!Next
<1>3. ASSUME NEW p \in Patrols, ClaimRename(p) PROVE Board!Next
  <2>1. PICK t \in Tasks : /\ t = job[p]
                           /\ t \in pending /\ t \notin pending'
                           /\ t \in claimed'[p]
    BY <1>3 DEF ClaimRename, CanRename
  <2>2. \A u \in Tasks : u # t => WhereIs(u)' = WhereIs(u)
    BY <1>3, <1>a, <2>1, Stays DEF ClaimRename
  <2>3. Owner(t)' = p
    BY <1>a, <2>1, OwnerIsNext
  <2>4. /\ WhereIs(t) = Board!Waiting
        /\ WhereIs(t)' = Board!Held(p)
    BY <1>3, <1>a, <2>1, <2>3 DEF ClaimRename, WhereIs, OneCopy, Finished,
       AllClaimed, Board!Waiting, Board!Held
  <2>5. Board!Claim(p, t)
    BY <2>1, <2>2, <2>4 DEF Board!Claim, Board!Move
  <2> QED
    BY <2>1, <2>5 DEF Board!Next
<1>4. ASSUME NEW p \in Patrols, FinishMove(p) PROVE Board!Next
  <2>1. PICK t \in Tasks : t = job[p] /\ t \in claimed[p]
    BY <1>4 DEF FinishMove
  <2>2. \A u \in Tasks : u # t => WhereIs(u)' = WhereIs(u)
    <3> SUFFICES ASSUME NEW u \in Tasks, u # t PROVE WhereIs(u)' = WhereIs(u)
      OBVIOUS
    <3>1. /\ u \in pending <=> u \in pending'
          /\ u \in done <=> u \in done'
          /\ u \in failed <=> u \in failed'
          /\ \A q \in Patrols : u \in claimed[q] <=> u \in claimed'[q]
      BY <1>4, <2>1 DEF FinishMove
    <3> QED
      BY <1>a, <3>1, Stays
  <2>3. Owner(t) = p
    BY <1>a, <2>1, OwnerIs
  <2>4. WhereIs(t) = Board!Held(p)
    BY <1>a, <2>1, <2>3 DEF WhereIs, OneCopy, Finished, AllClaimed, Board!Held
  <2>5. \E s \in {"done", "failed"} : WhereIs(t)' = Board!Over(s)
    BY <1>4, <1>a, <2>1 DEF FinishMove, WhereIs, OneCopy, Board!Over
  <2>6. Board!Finish(p, t)
    BY <2>1, <2>2, <2>4, <2>5 DEF Board!Finish, Board!Move
  <2> QED
    BY <2>1, <2>6 DEF Board!Next
<1>5. ASSUME NEW m \in Mayors, NEW t \in Tasks, SweepMove(m, t)
      PROVE  Board!Next
  <2> DEFINE p == target[m]
  <2>1. p \in Patrols /\ t \in claimed[p] /\ t \in pending'
    BY <1>5 DEF SweepMove, RenameBack
  <2>2. \A u \in Tasks : u # t => WhereIs(u)' = WhereIs(u)
    BY <1>5, <1>a, <2>1, Stays DEF SweepMove, RenameBack
  <2>3. Owner(t) = p
    BY <1>a, <2>1, OwnerIs
  <2>4. /\ WhereIs(t) = Board!Held(p)
        /\ WhereIs(t)' = Board!Waiting
    BY <1>5, <1>a, <2>1, <2>3 DEF SweepMove, WhereIs, OneCopy, Finished,
       AllClaimed, Board!Waiting, Board!Held
  <2>5. Board!Reclaim(p, t)
    BY <2>1, <2>2, <2>4 DEF Board!Reclaim, Board!Move
  <2> QED
    BY <2>1, <2>5 DEF Board!Next
<1>6. CASE \E c \in Clients : ClientStep(c) \/ \E t \in Tasks : Enqueue(c, t)
  <2>1. \/ \E c \in Clients : EnqueueWrite(c)
        \/ UNCHANGED fileVars
    BY <1>6 DEF ClientStep, Enqueue, EnqueueScanClaimed, EnqueueRecord
  <2> QED
    BY <1>1, <1>2, <2>1
<1> QED
  BY <1>1, <1>3, <1>4, <1>5, <1>6, QuietSteps

(* The queue directories implement the task board (enqueue, claim,         *)
(* recover_orphans and run_task against TaskBoard), if no id is enqueued   *)
(* twice: in particular a finished task never moves again and a claimed    *)
(* one has one holder.                                                     *)
THEOREM QueueImplementsBoard == ASSUME ~Resubmit PROVE Spec => ImplementsBoard
<1>1. Init => Board!Init
  BY DEF Init, Board!Init, Board!Nowhere, WhereIs, AllClaimed
<1>2. TypeInv /\ CopyInv /\ CopyInv' /\ [Next]_vars
        => [Board!Next]_([t \in Tasks |-> WhereIs(t)])
  BY BoardNext
<1> QED
  BY <1>1, <1>2, TypeInvariant, CopyInvariant, PTL
     DEF Spec, ImplementsBoard, Board!Spec

-----------------------------------------------------------------------------
(***************************************************************************)
(* The punctual queue: nobody outlasts a timeout, a slot is started once   *)
(* and an id is enqueued once.  Kills are still allowed at every step.     *)
(***************************************************************************)

Punctual == ~Slow /\ ~ReuseSlots /\ ~Resubmit

(* A live patrol never looks dead to a mayor: what a mayor sweeps, or will *)
(* look at, is the directory of a patrol that is down or whose heartbeat   *)
(* is fresh.                                                               *)
AliveInv ==
    \A p \in Patrols :
        /\ pc[p] # "down" => p \in started
        /\ p \notin started => ~hasDir[p]
        /\ pc[p] \notin {"down", "ready"} => fresh[p]
        /\ pc[p] = "ready" => fresh[p] \/ ~hasDir[p]
        /\ \A m \in Mayors :
              /\ p \in todo[m] => p \in started /\ (pc[p] = "down" \/ fresh[p])
              /\ target[m] = p => p \in started /\ pc[p] = "down"

(* A patrol that works on a task still has its file. *)
OwnInv ==
    \A p \in Patrols :
        pc[p] \in {"read", "recordClaim"} \cup Working => job[p] \in claimed[p]

(* Every step keeps live patrols out of the sweep. *)
LEMMA AliveNext ==
    ASSUME Punctual, TypeInv, AliveInv, [Next]_vars PROVE AliveInv'
<1> USE ConstantsAssumption
    DEF TypeInv, TypeOK, AliveInv, Punctual
<1>1. ASSUME NEW c \in Clients,
             ClientStep(c) \/ \E t \in Tasks : Enqueue(c, t)
      PROVE  AliveInv'
  BY <1>1 DEF ClientStep, Enqueue, EnqueueScanClaimed, EnqueueWrite,
              EnqueueRecord
<1>2. ASSUME NEW p \in Patrols, Start(p) \/ Crash(p) \/ HeartbeatExpires(p)
      PROVE  AliveInv'
  BY <1>2 DEF Start, Crash, HeartbeatExpires
<1>3. ASSUME NEW p \in Patrols, PatrolStep(p) PROVE AliveInv'
  <2>1. CASE ClaimStart(p) \/ ClaimLock(p) \/ ClaimScanEmpty(p)
    BY <2>1 DEF ClaimStart, ClaimLock, ClaimScanEmpty, WriteHeartbeat
  <2>2. CASE ClaimLockTimeout(p)
    BY <2>2 DEF ClaimLockTimeout
  <2>3. CASE ClaimScan(p)
    BY <2>3 DEF ClaimScan
  <2>4. CASE ClaimRename(p) \/ ClaimRead(p) \/ ClaimRecord(p)
    BY <2>4 DEF ClaimRename, ClaimRead, ClaimRecord
  <2>5. CASE ClaimRenameFails(p) \/ ClaimReadFails(p)
    BY <2>5 DEF ClaimRenameFails, ClaimReadFails, ClaimError
  <2>6. CASE Wake(p)
    BY <2>6 DEF Wake, WriteHeartbeat
  <2>7. CASE Dispatch(p) \/ WriteResult(p) \/ FinishRecord(p) \/ FinishMove(p)
             \/ FinishSwept(p)
    BY <2>7 DEF Dispatch, WriteResult, FinishRecord, FinishMove, FinishSwept
  <2>8. CASE Cleanup(p)
    BY <2>8 DEF Cleanup, WriteHeartbeat
  <2> QED
    BY <1>3, <2>1, <2>2, <2>3, <2>4, <2>5, <2>6, <2>7, <2>8 DEF PatrolStep
<1>4. ASSUME NEW m \in Mayors, MayorStep(m) PROVE AliveInv'
  <2>1. CASE StatusStart(m) \/ CountDirs(m)
    BY <2>1 DEF StatusStart, CountDirs
  <2>2. CASE \E p \in Patrols : SweepSkip(m, p) \/ SweepPick(m, p)
    BY <2>2 DEF SweepSkip, SweepPick, Alive
  <2>3. CASE SweepList(m) \/ SweepRecord(m) \/ ReturnIdle(m)
    BY <2>3 DEF SweepList, SweepRecord, ReturnIdle
  <2>4. CASE SweepListFails(m) \/ \E t \in Tasks : SweepMoveFails(m, t)
    BY <2>4 DEF SweepListFails, SweepMoveFails, StatusReturn
  <2>5. CASE \E t \in Tasks : SweepMove(m, t)
    BY <2>5 DEF SweepMove
  <2>6. CASE SweepRemoveDir(m)
    BY <2>6 DEF SweepRemoveDir
  <2>7. CASE CountPending(m)
    BY <2>7 DEF CountPending, StatusReturn
  <2>8. CASE \E p \in Patrols : CountClaimed(m, p)
    <3>1. PICK p \in Patrols : CountClaimed(m, p)
      BY <2>8
    <3>2. CASE claimed[p] # {}
      <4>1. StatusReturn(m) /\ UNCHANGED <<fsVars, notMayor>>
        BY <3>1, <3>2 DEF CountClaimed
      <4> QED
        BY <4>1 DEF StatusReturn
    <3>3. CASE claimed[p] = {}
      BY <3>1, <3>3 DEF CountClaimed
    <3> QED
      BY <3>2, <3>3
  <2> QED
    BY <1>4, <2>1, <2>2, <2>3, <2>4, <2>5, <2>6, <2>7, <2>8 DEF MayorStep
<1>5. ASSUME NEW m \in Mayors, MayorCrash(m) PROVE AliveInv'
  BY <1>5 DEF MayorCrash, StatusReturn
<1>6. CASE UNCHANGED vars
  BY <1>6
<1> QED
  BY <1>1, <1>2, <1>3, <1>4, <1>5, <1>6 DEF Next

(* Every step leaves a working patrol its file. *)
LEMMA OwnNext ==
    ASSUME TypeInv, AliveInv, OwnInv, [Next]_vars PROVE OwnInv'
<1> USE DEF TypeInv, TypeOK, AliveInv, OwnInv, Working
<1>1. CASE UNCHANGED <<pc, job, claimed>>
  BY <1>1
<1>2. ASSUME NEW p \in Patrols, PatrolStep(p) PROVE OwnInv'
  <2>1. CASE ClaimRename(p)
    BY <2>1 DEF ClaimRename
  <2>2. CASE FinishMove(p)
    BY <2>2 DEF FinishMove
  <2>3. CASE ClaimStart(p) \/ ClaimLock(p) \/ ClaimLockTimeout(p)
             \/ ClaimScanEmpty(p) \/ ClaimScan(p) \/ Wake(p)
    BY <2>3 DEF ClaimStart, ClaimLock, ClaimLockTimeout, ClaimScanEmpty,
                ClaimScan, Wake
  <2>4. CASE ClaimRenameFails(p) \/ ClaimReadFails(p) \/ ClaimRead(p)
             \/ ClaimRecord(p)
    BY <2>4 DEF ClaimRenameFails, ClaimReadFails, ClaimError, ClaimRead,
                ClaimRecord
  <2>5. CASE Dispatch(p) \/ WriteResult(p) \/ FinishRecord(p)
    <3>1. pc[p] \in Working /\ UNCHANGED <<job, claimed>>
      BY <2>5 DEF Dispatch, WriteResult, FinishRecord
    <3>2. \A q \in Patrols : q # p => pc'[q] = pc[q]
      BY <2>5 DEF Dispatch, WriteResult, FinishRecord
    <3> QED
      BY <3>1, <3>2
  <2>6. CASE FinishSwept(p) \/ Cleanup(p)
    BY <2>6 DEF FinishSwept, Cleanup
  <2> QED
    BY <1>2, <2>1, <2>2, <2>3, <2>4, <2>5, <2>6 DEF PatrolStep
<1>3. ASSUME NEW p \in Patrols, Start(p) \/ Crash(p) PROVE OwnInv'
  BY <1>3 DEF Start, Crash
<1>4. ASSUME NEW m \in Mayors, NEW t \in Tasks, SweepMove(m, t) PROVE OwnInv'
  BY <1>4 DEF SweepMove, RenameBack
<1>5. CASE \/ \E c \in Clients : ClientStep(c) \/ \E t \in Tasks : Enqueue(c, t)
           \/ \E p \in Patrols : HeartbeatExpires(p)
           \/ \E m \in Mayors : MayorStep(m) \/ MayorCrash(m)
           \/ UNCHANGED vars
  <2>1. UNCHANGED <<pc, job>>
    BY <1>5, OthersOnlyAdd
  <2>2. \/ UNCHANGED claimed
        \/ \E m \in Mayors, t \in Tasks : SweepMove(m, t)
    BY <1>5 DEF ClientStep, Enqueue, EnqueueScanClaimed, EnqueueWrite,
       EnqueueRecord, HeartbeatExpires, MayorCrash, MayorStep, StatusStart,
       SweepSkip, SweepPick, SweepList, SweepListFails, SweepMoveFails,
       SweepRecord, SweepRemoveDir, CountPending, CountDirs, CountClaimed,
       ReturnIdle
  <2> QED
    BY <1>1, <1>4, <2>1, <2>2
<1> QED
  BY <1>2, <1>3, <1>5 DEF Next

(* Together with one file per task, this is mutual exclusion of execution. *)
PunctualInv == TypeInv /\ CopyInv /\ AliveInv /\ OwnInv

(* It is an invariant of the punctual queue: the heartbeat written at the  *)
(* head of claim keeps recover_orphans away from every live patrol.        *)
LEMMA PunctualInvariant == ASSUME Punctual PROVE Spec => []PunctualInv
<1>1. Init => AliveInv /\ OwnInv
  BY ConstantsAssumption DEF Init, AliveInv, OwnInv, Working
<1>2. TypeInv /\ AliveInv /\ OwnInv /\ [Next]_vars => AliveInv' /\ OwnInv'
  BY AliveNext, OwnNext
<1>3. Spec => []CopyInv
  BY CopyInvariant DEF Punctual
<1> QED
  BY <1>1, <1>2, <1>3, TypeInvariant, PTL DEF Spec, PunctualInv

(* In the punctual queue no task is executed by two live patrols at once   *)
(* (claim against recover_orphans), although patrols may be killed at any  *)
(* step and their tasks handed to others.                                  *)
THEOREM NoConcurrentRuns == ASSUME Punctual PROVE Spec => []NoDoubleRun
<1>1. PunctualInv => NoDoubleRun
  BY DEF PunctualInv, TypeInv, InHand, CopyInv, OneCopy, OwnInv, NoDoubleRun,
         Working
<1> QED
  BY <1>1, PunctualInvariant, PTL

-----------------------------------------------------------------------------
(***************************************************************************)
(* Results and budgets of the punctual queue                               *)
(***************************************************************************)

(* A result a dispatch may leave behind for task t. *)
Honest(r, t) == r \in Results /\ (r.verdict # "failed" => r.cost <= Budget[t])

ResultInv ==
    /\ ResultMatchesDirectory
    /\ \A t \in done : result[t].cost <= Budget[t]
    /\ \A p \in Patrols :
          /\ pc[p] \in {"result", "recordFinish", "move"}
                => Honest(res[p], job[p])
          /\ pc[p] \in {"recordFinish", "move"} => result[job[p]] = res[p]

(* Whatever dispatch returns, the result in hand is honest. *)
LEMMA CappedIsHonest ==
    ASSUME NEW o \in Outcomes, NEW t \in Tasks
    PROVE  Honest(Capped(o, t), t)
BY ConstantsAssumption DEF Capped, Honest, Results, Verdicts

(* Every step keeps directories and results in agreement. *)
LEMMA ResultNext ==
    ASSUME PunctualInv, ResultInv, [Next]_vars PROVE ResultInv'
<1> USE ConstantsAssumption
    DEF PunctualInv, TypeInv, TypeOK, InHand, Working, ResultInv,
        ResultMatchesDirectory
<1>1. CASE UNCHANGED <<done, failed, result, pc, job, res>>
  BY <1>1 DEF Honest
<1>2. ASSUME NEW p \in Patrols, Dispatch(p) PROVE ResultInv'
  <2>1. job[p] \in Tasks
    BY <1>2 DEF Dispatch
  <2>2. Honest(res'[p], job[p])
    <3>1. Honest([verdict |-> "failed", cost |-> 0], job[p])
      BY <2>1 DEF Honest, Results, Verdicts
    <3>2. \/ res'[p] = [verdict |-> "failed", cost |-> 0]
          \/ \E o \in Outcomes : res'[p] = Capped(o, job[p])
      BY <1>2 DEF Dispatch
    <3>3. \A o \in Outcomes : Honest(Capped(o, job[p]), job[p])
      BY <2>1, CappedIsHonest, Zenon
    <3> HIDE DEF PunctualInv, TypeInv, TypeOK, InHand, Working, ResultInv,
                 ResultMatchesDirectory
    <3> QED
      BY <3>1, <3>2, <3>3, Zenon
  <2> QED
    BY <1>2, <2>2 DEF Dispatch
<1>3. ASSUME NEW p \in Patrols, WriteResult(p) PROVE ResultInv'
  <2>1. /\ job[p] \in Tasks /\ job[p] \notin Finished
        /\ \A q \in Patrols : q # p /\ pc[q] \in Working => job[q] # job[p]
    BY <1>3 DEF WriteResult, OwnInv, CopyInv, OneCopy, AllClaimed
  <2> QED
    BY <1>3, <2>1 DEF WriteResult, Finished
<1>4. ASSUME NEW p \in Patrols, FinishMove(p) PROVE ResultInv'
  <2>1. job[p] \in Tasks /\ Honest(res[p], job[p]) /\ result[job[p]] = res[p]
    BY <1>4 DEF FinishMove
  <2>2. CASE res[p].verdict = "failed"
    <3>1. failed' = failed \cup {job[p]} /\ UNCHANGED <<done, result, job, res>>
      BY <1>4, <2>2 DEF FinishMove
    <3> QED
      BY <1>4, <2>1, <2>2, <3>1 DEF FinishMove
  <2>3. CASE res[p].verdict # "failed"
    <3>1. /\ done' = done \cup {job[p]} /\ UNCHANGED <<failed, result, job, res>>
          /\ res[p].cost <= Budget[job[p]]
      BY <1>4, <2>1, <2>3 DEF FinishMove, Honest
    <3> QED
      BY <1>4, <2>1, <2>3, <3>1 DEF FinishMove
  <2> QED
    BY <2>2, <2>3
<1>5. ASSUME NEW p \in Patrols,
             \/ ClaimStart(p) \/ ClaimLock(p) \/ ClaimLockTimeout(p)
             \/ ClaimScanEmpty(p) \/ ClaimScan(p) \/ ClaimRename(p)
             \/ ClaimRenameFails(p) \/ ClaimRead(p) \/ ClaimReadFails(p)
             \/ ClaimRecord(p) \/ Wake(p) \/ Cleanup(p)
             \/ Start(p) \/ Crash(p)
      PROVE  ResultInv'
  <2>1. /\ UNCHANGED <<done, failed, result>>
        /\ pc'[p] \notin {"result", "recordFinish", "move"}
        /\ \A q \in Patrols : q # p => /\ pc'[q] = pc[q]
                                        /\ job'[q] = job[q]
                                        /\ res'[q] = res[q]
    BY <1>5 DEF ClaimStart, ClaimLock, ClaimLockTimeout, ClaimScanEmpty,
       ClaimScan, ClaimRename, ClaimRenameFails, ClaimError, ClaimRead,
       ClaimReadFails, ClaimRecord, Wake, Cleanup, Start, Crash
  <2> QED
    BY <2>1
<1>6. ASSUME NEW p \in Patrols, FinishRecord(p) \/ FinishSwept(p)
      PROVE  ResultInv'
  BY <1>6 DEF FinishRecord, FinishSwept
<1>7. CASE \/ \E c \in Clients : ClientStep(c) \/ \E t \in Tasks : Enqueue(c, t)
           \/ \E p \in Patrols : HeartbeatExpires(p)
           \/ \E m \in Mayors : MayorStep(m) \/ MayorCrash(m)
           \/ UNCHANGED vars
  <2>1. UNCHANGED <<pc, job, res>>
    BY <1>7, OthersOnlyAdd
  <2>2. UNCHANGED <<done, failed, result>>
    BY <1>7 DEF ClientStep, Enqueue, EnqueueScanClaimed, EnqueueWrite,
       EnqueueRecord, HeartbeatExpires, MayorCrash, MayorStep, StatusStart,
       SweepSkip, SweepPick, SweepList, SweepListFails, SweepMove,
       SweepMoveFails, SweepRecord, SweepRemoveDir, CountPending, CountDirs,
       CountClaimed, ReturnIdle
  <2> QED
    BY <1>1, <2>1, <2>2
<1> QED
  BY <1>2, <1>3, <1>4, <1>5, <1>6, <1>7 DEF Next, PatrolStep

(* In the punctual queue the directory of a finished task agrees with its  *)
(* result file (run_task), across kills between the two writes and re-runs *)
(* by other patrols.                                                       *)
THEOREM DirectoriesMatchResults ==
    ASSUME Punctual PROVE Spec => []ResultMatchesDirectory
<1>1. Init => ResultInv
  BY DEF Init, ResultInv, ResultMatchesDirectory
<1>2. PunctualInv /\ ResultInv /\ [Next]_vars => ResultInv'
  BY ResultNext
<1>3. ResultInv => ResultMatchesDirectory
  BY DEF ResultInv
<1> QED
  BY <1>1, <1>2, <1>3, PunctualInvariant, PTL DEF Spec

(* Whatever entered the queue passed enqueue's check against the total. *)
BudgetInv ==
    /\ \A t \in Located : Budget[t] <= TotalBudget
    /\ \A c \in Clients : Entering(c) => Budget[ctask[c]] <= TotalBudget

(* Every step keeps over-budget tasks out of the directories. *)
LEMMA BudgetNext == ASSUME TypeInv, BudgetInv, [Next]_vars PROVE BudgetInv'
<1> USE ConstantsAssumption
    DEF TypeInv, TypeOK, InHand, Working, BudgetInv, Entering, Located,
        Queued, Finished, AllClaimed
<1>1. CASE UNCHANGED <<fileVars, clientVars>>
  BY <1>1
<1>2. ASSUME NEW c \in Clients, NEW t \in Tasks, Enqueue(c, t)
      PROVE  BudgetInv'
  BY <1>2 DEF Enqueue
<1>3. ASSUME NEW c \in Clients, ClientStep(c) PROVE BudgetInv'
  BY <1>3 DEF ClientStep, EnqueueScanClaimed, EnqueueWrite, EnqueueRecord
<1>4. ASSUME NEW p \in Patrols, ClaimRename(p) PROVE BudgetInv'
  BY <1>4 DEF ClaimRename, CanRename
<1>5. ASSUME NEW p \in Patrols, FinishMove(p) PROVE BudgetInv'
  BY <1>5 DEF FinishMove
<1>6. ASSUME NEW m \in Mayors, NEW t \in Tasks, SweepMove(m, t)
      PROVE  BudgetInv'
  BY <1>6 DEF SweepMove, RenameBack
<1> QED
  BY <1>1, <1>2, <1>3, <1>4, <1>5, <1>6, QuietSteps

(* In the punctual queue every task in done/ stayed within its own ceiling *)
(* and that ceiling within the total (enqueue and run_task).               *)
THEOREM BudgetsHold == ASSUME Punctual PROVE Spec => []DoneWithinBudget
<1>1. Init => ResultInv /\ BudgetInv
  BY DEF Init, ResultInv, ResultMatchesDirectory, BudgetInv, Entering, Located,
         Queued, Finished, AllClaimed
<1>2. PunctualInv /\ ResultInv /\ [Next]_vars => ResultInv'
  BY ResultNext
<1>3. PunctualInv /\ BudgetInv /\ [Next]_vars => BudgetInv'
  BY BudgetNext DEF PunctualInv
<1>4. ResultInv /\ BudgetInv => DoneWithinBudget
  BY DEF ResultInv, BudgetInv, DoneWithinBudget, Located, Finished
<1> QED
  BY <1>1, <1>2, <1>3, <1>4, PunctualInvariant, PTL DEF Spec

-----------------------------------------------------------------------------
(***************************************************************************)
(* Result files, whatever is slow, killed, restarted or submitted twice    *)
(***************************************************************************)

(* Every result file is one a dispatch for that task may have left, and a  *)
(* patrol past its write of the result finds some result there: two        *)
(* patrols that run the same task may overwrite each other's file, but     *)
(* never remove it.                                                        *)
FileInv ==
    /\ ResultBeforeMove
    /\ \A t \in Tasks : result[t] # NoResult => Honest(result[t], t)
    /\ \A p \in Patrols :
          /\ pc[p] \in {"result", "recordFinish", "move"}
                => Honest(res[p], job[p])
          /\ pc[p] \in {"recordFinish", "move"} => result[job[p]] # NoResult

(* What a dispatch leaves is a result. *)
LEMMA HonestIsResult ==
    ASSUME NEW r, NEW t, Honest(r, t) PROVE r # NoResult
BY DEF Honest, Results, Verdicts, NoResult

(* Every step of the queue keeps the results that are there. *)
LEMMA FileNext == ASSUME TypeInv, FileInv, [Next]_vars PROVE FileInv'
<1> USE DEF TypeInv, TypeOK, InHand, Working, FileInv, ResultBeforeMove, Finished
<1>1. CASE UNCHANGED <<done, failed, result, pc, job, res>>
  BY <1>1 DEF Honest
<1>2. ASSUME NEW p \in Patrols, Dispatch(p) PROVE FileInv'
  <2>1. job[p] \in Tasks
    BY <1>2 DEF Dispatch
  <2>2. Honest(res'[p], job[p])
    <3>1. Honest([verdict |-> "failed", cost |-> 0], job[p])
      BY <2>1 DEF Honest, Results, Verdicts
    <3>2. \/ res'[p] = [verdict |-> "failed", cost |-> 0]
          \/ \E o \in Outcomes : res'[p] = Capped(o, job[p])
      BY <1>2 DEF Dispatch
    <3>3. \A o \in Outcomes : Honest(Capped(o, job[p]), job[p])
      BY <2>1, CappedIsHonest, Zenon
    <3> HIDE DEF TypeInv, TypeOK, InHand, Working, FileInv, ResultBeforeMove
    <3> QED
      BY <3>1, <3>2, <3>3, Zenon
  <2> QED
    BY <1>2, <2>2 DEF Dispatch
<1>3. ASSUME NEW p \in Patrols, WriteResult(p) PROVE FileInv'
  <2>1. job[p] \in Tasks /\ Honest(res[p], job[p]) /\ res[p] # NoResult
    BY <1>3, HonestIsResult DEF WriteResult
  <2> QED
    BY <1>3, <2>1 DEF WriteResult
<1>4. ASSUME NEW p \in Patrols, FinishMove(p) PROVE FileInv'
  <2>1. job[p] \in Tasks /\ result[job[p]] # NoResult
    BY <1>4 DEF FinishMove
  <2>2. done' \cup failed' \subseteq (done \cup failed) \cup {job[p]}
    BY <1>4 DEF FinishMove
  <2> QED
    BY <1>4, <2>1, <2>2 DEF FinishMove
<1>5. ASSUME NEW p \in Patrols,
             \/ ClaimStart(p) \/ ClaimLock(p) \/ ClaimLockTimeout(p)
             \/ ClaimScanEmpty(p) \/ ClaimScan(p) \/ ClaimRename(p)
             \/ ClaimRenameFails(p) \/ ClaimRead(p) \/ ClaimReadFails(p)
             \/ ClaimRecord(p) \/ Wake(p) \/ Cleanup(p)
             \/ Start(p) \/ Crash(p)
      PROVE  FileInv'
  <2>1. /\ UNCHANGED <<done, failed, result>>
        /\ pc'[p] \notin {"result", "recordFinish", "move"}
        /\ \A q \in Patrols : q # p => /\ pc'[q] = pc[q]
                                        /\ job'[q] = job[q]
                                        /\ res'[q] = res[q]
    BY <1>5 DEF ClaimStart, ClaimLock, ClaimLockTimeout, ClaimScanEmpty,
       ClaimScan, ClaimRename, ClaimRenameFails, ClaimError, ClaimRead,
       ClaimReadFails, ClaimRecord, Wake, Cleanup, Start, Crash
  <2> QED
    BY <2>1
<1>6. ASSUME NEW p \in Patrols, FinishRecord(p) \/ FinishSwept(p)
      PROVE  FileInv'
  BY <1>6 DEF FinishRecord, FinishSwept
<1>7. CASE \/ \E c \in Clients : ClientStep(c) \/ \E t \in Tasks : Enqueue(c, t)
           \/ \E p \in Patrols : HeartbeatExpires(p)
           \/ \E m \in Mayors : MayorStep(m) \/ MayorCrash(m)
           \/ UNCHANGED vars
  <2>1. UNCHANGED <<pc, job, res>>
    BY <1>7, OthersOnlyAdd
  <2>2. UNCHANGED <<done, failed, result>>
    BY <1>7 DEF ClientStep, Enqueue, EnqueueScanClaimed, EnqueueWrite,
       EnqueueRecord, HeartbeatExpires, MayorCrash, MayorStep, StatusStart,
       SweepSkip, SweepPick, SweepList, SweepListFails, SweepMove,
       SweepMoveFails, SweepRecord, SweepRemoveDir, CountPending, CountDirs,
       CountClaimed, ReturnIdle
  <2> QED
    BY <1>1, <2>1, <2>2
<1> QED
  BY <1>2, <1>3, <1>4, <1>5, <1>6, <1>7 DEF Next, PatrolStep

(* The invariant holds initially, so it holds forever. *)
LEMMA FileInvariant == Spec => [](TypeInv /\ FileInv)
<1>1. Init => FileInv
  BY DEF Init, FileInv, ResultBeforeMove, Finished
<1>2. TypeInv /\ FileInv /\ [Next]_vars => FileInv'
  BY FileNext
<1> QED
  BY <1>1, <1>2, TypeInvariant, PTL DEF Spec

(* Every finished task has a result file (run_task writes it before it     *)
(* moves the claim), even if the patrol was killed in between, the task    *)
(* was swept and run again, or its id was submitted twice.                 *)
THEOREM ResultFileFirst == Spec => []ResultBeforeMove
<1>1. FileInv => ResultBeforeMove
  BY DEF FileInv
<1> QED
  BY <1>1, FileInvariant, PTL

-----------------------------------------------------------------------------
(***************************************************************************)
(* run_until_idle, with a single mayor                                     *)
(***************************************************************************)

(* Only what is not in pending/ any more, and then only what is not in the *)
(* claim directories counted so far, is left of the tasks seen.            *)
DrainInv ==
    /\ \A p \in Patrols : claimed[p] # {} => hasDir[p]
    /\ \A m \in Mayors :
          /\ seen[m] \subseteq Located
          /\ mpc[m] \in {"count", "countClaimed"} => seen[m] \cap pending = {}
          /\ mpc[m] = "countClaimed" =>
                \A p \in Patrols \ todo[m] : seen[m] \cap claimed[p] = {}
    /\ IdleMeansDrained

(* Every step keeps a counted-out task counted out, when no other mayor    *)
(* can put it back into pending/.                                          *)
LEMMA DrainNext ==
    ASSUME NEW boss, Mayors = {boss},
           TypeInv, CopyInv, DrainInv, [Next]_vars
    PROVE  DrainInv'
<1> USE ConstantsAssumption
    DEF TypeInv, TypeOK, InHand, Working, DrainInv, IdleMeansDrained, Located,
        Queued, Finished, AllClaimed
<1>1. ASSUME NEW c \in Clients, NEW t \in Tasks, Enqueue(c, t) PROVE DrainInv'
  BY <1>1 DEF Enqueue
<1>2. ASSUME NEW c \in Clients, ClientStep(c) PROVE DrainInv'
  <2>1. CASE EnqueueWrite(c)
    BY <2>1 DEF EnqueueWrite, CopyInv, Entering
  <2>2. CASE EnqueueScanClaimed(c) \/ EnqueueRecord(c)
    BY <2>2 DEF EnqueueScanClaimed, EnqueueRecord
  <2> QED
    BY <1>2, <2>1, <2>2 DEF ClientStep
<1>3. ASSUME NEW p \in Patrols, Start(p) \/ Crash(p) \/ HeartbeatExpires(p)
      PROVE  DrainInv'
  BY <1>3 DEF Start, Crash, HeartbeatExpires
<1>4. ASSUME NEW p \in Patrols, PatrolStep(p) PROVE DrainInv'
  <2>1. CASE ClaimScan(p)
    BY <2>1 DEF ClaimScan
  <2>2. CASE ClaimRename(p)
    BY <2>2 DEF ClaimRename, CanRename
  <2>3. CASE FinishMove(p)
    BY <2>3 DEF FinishMove
  <2>4. CASE Cleanup(p)
    BY <2>4 DEF Cleanup
  <2>5. CASE \/ ClaimStart(p) \/ ClaimLock(p) \/ ClaimLockTimeout(p)
             \/ ClaimScanEmpty(p) \/ ClaimRenameFails(p) \/ ClaimRead(p)
             \/ ClaimReadFails(p) \/ ClaimRecord(p) \/ Wake(p) \/ Dispatch(p)
             \/ WriteResult(p) \/ FinishRecord(p) \/ FinishSwept(p)
    <3>1. UNCHANGED <<fileVars, hasDir, mayorVars>>
      BY <2>5 DEF ClaimStart, ClaimLock, ClaimLockTimeout, ClaimScanEmpty,
         ClaimRenameFails, ClaimError, ClaimRead, ClaimReadFails, ClaimRecord,
         Wake, Dispatch, WriteResult, FinishRecord, FinishSwept
    <3> QED
      BY <3>1
  <2> QED
    BY <1>4, <2>1, <2>2, <2>3, <2>4, <2>5 DEF PatrolStep
<1>5. ASSUME NEW m \in Mayors, MayorStep(m) \/ MayorCrash(m) PROVE DrainInv'
  <2>1. CASE StatusStart(m)
    BY <2>1 DEF StatusStart
  <2>2. CASE \E p \in Patrols : SweepSkip(m, p) \/ SweepPick(m, p)
    BY <2>2 DEF SweepSkip, SweepPick
  <2>3. CASE SweepList(m) \/ SweepRecord(m)
    BY <2>3 DEF SweepList, SweepRecord
  <2>4. CASE SweepListFails(m) \/ MayorCrash(m)
             \/ \E t \in Tasks : SweepMoveFails(m, t)
    BY <2>4 DEF SweepListFails, SweepMoveFails, MayorCrash, StatusReturn
  <2>5. CASE \E t \in Tasks : SweepMove(m, t)
    BY <2>5 DEF SweepMove, RenameBack
  <2>6. CASE SweepRemoveDir(m)
    BY <2>6 DEF SweepRemoveDir
  <2>7. CASE CountPending(m)
    BY <2>7 DEF CountPending, StatusReturn
  <2>8. CASE CountDirs(m)
    BY <2>8 DEF CountDirs
  <2>9. CASE \E p \in Patrols : CountClaimed(m, p)
    BY <2>9 DEF CountClaimed, StatusReturn
  <2>10. CASE ReturnIdle(m)
    BY <2>10 DEF ReturnIdle
  <2> QED
    BY <1>5, <2>1, <2>2, <2>3, <2>4, <2>5, <2>6, <2>7, <2>8, <2>9, <2>10
       DEF MayorStep
<1>6. CASE UNCHANGED vars
  BY <1>6
<1> QED
  BY <1>1, <1>2, <1>3, <1>4, <1>5, <1>6 DEF Next

(* With one mayor, run_until_idle returns Ok only when every task that was *)
(* in the queue as it counted pending/ has finished; slow, killed and      *)
(* restarted patrols and concurrent enqueues of other ids do not matter.   *)
THEOREM IdleIsSound ==
    ASSUME NEW boss, Mayors = {boss}, ~Resubmit
    PROVE  Spec => []IdleMeansDrained
<1>1. Init => DrainInv
  BY DEF Init, DrainInv, IdleMeansDrained
<1>2. TypeInv /\ CopyInv /\ DrainInv /\ [Next]_vars => DrainInv'
  BY DrainNext
<1>3. DrainInv => IdleMeansDrained
  BY DEF DrainInv
<1>4. Spec => []CopyInv
  BY CopyInvariant
<1> QED
  BY <1>1, <1>2, <1>3, <1>4, TypeInvariant, PTL DEF Spec

-----------------------------------------------------------------------------
(***************************************************************************)
(* The ledger                                                              *)
(***************************************************************************)

USE DEF fileVars, fsVars, lifeVars, patrolVars, sweepVars, mayorVars,
        clientVars, notPatrol, notMayor, vars, scanVars, ledgerVars, lvars,
        RGoto

-----------------------------------------------------------------------------
(***************************************************************************)
(* The ledger observes the queue                                           *)
(***************************************************************************)

(* The ledger adds nothing to the queue but the kill of a reconcile: the   *)
(* queue never reads a row.                                                *)
LEMMA LedgerOnlyWatches ==
    ASSUME [LNext]_lvars PROVE [Next]_vars \/ ReconcileCrash
<1>1. CASE Unrecorded
  BY <1>1, Zenon DEF Unrecorded, Next, ClientStep, PatrolStep, MayorStep
<1>2. CASE Recorded
  BY <1>2 DEF Recorded, LEnqueueRecord, LClaimRecord, LFinishRecord,
     LSweepRecord, Next, ClientStep, PatrolStep, MayorStep
<1>3. CASE Reconcile
  BY <1>3 DEF Reconcile, ScanPending, ScanDirs, ScanClaimed, ScanDone,
     ScanFailed, ReconcileWrite
<1>4. CASE UNCHANGED lvars
  BY <1>4
<1> QED
  BY <1>1, <1>2, <1>3, <1>4 DEF LNext

(* So every invariant of the queue that does not count the kills is one of *)
(* the queue with its ledger.                                              *)
LEMMA QueueKept ==
    ASSUME TypeInv, FileInv, [LNext]_lvars PROVE TypeInv' /\ FileInv'
<1>1. CASE [Next]_vars
  BY <1>1, TypeNext, FileNext
<1>2. CASE ReconcileCrash
  <2>1. TypeInv'
    BY <1>2 DEF ReconcileCrash, TypeInv, TypeOK, InHand
  <2>2. FileInv'
    BY <1>2 DEF ReconcileCrash, FileInv, ResultBeforeMove, Finished, Honest
  <2> QED
    BY <2>1, <2>2
<1> QED
  BY <1>1, <1>2, LedgerOnlyWatches

-----------------------------------------------------------------------------
(***************************************************************************)
(* Rows that agree with themselves                                         *)
(***************************************************************************)

(* What RowsConsistent says of one row. *)
RowOK(t, row) ==
    /\ row \in Rows
    /\ row.state \in {"done", "failed"} /\ row.verdict # "none"
          => TerminalState(row.verdict) = row.state
    /\ row.state = "done" /\ row.verdict # "none" => row.cost <= Budget[t]

(* The rows in the file and the rows a reconcile has scanned so far. *)
RowsInv ==
    /\ ledger = [t \in Tasks |-> ledger[t]]
    /\ rebuilt = [t \in Tasks |-> rebuilt[t]]
    /\ \A t \in Tasks : RowOK(t, ledger[t]) /\ RowOK(t, rebuilt[t])

ScanTypes ==
    /\ ledgerLock \in BOOLEAN
    /\ rpc \in {"off", "dirs", "claimed", "failed", "write"}
    /\ rtodo \subseteq Patrols
    /\ reconciles \in 0 .. MaxReconciles

LedgerInv == TypeInv /\ FileInv /\ RowsInv /\ ScanTypes

(* The row of a result a dispatch may have left (record_finished, and      *)
(* reconcile for a result that agrees with its directory).                 *)
LEMMA HonestRow ==
    ASSUME NEW t \in Tasks, NEW r, Honest(r, t)
    PROVE  RowOK(t, Row(TerminalState(r.verdict), r.verdict, r.cost))
BY ConstantsAssumption
   DEF Honest, Results, Verdicts, RowOK, Rows, RowStates, Row, TerminalState

(* A row without a verdict. *)
LEMMA BareRow ==
    ASSUME NEW t \in Tasks, NEW s \in RowStates PROVE RowOK(t, Row(s, "none", 0))
BY DEF RowOK, Rows, RowStates, Row

(* A row that is open again keeps its old verdict, and may. *)
LEMMA ReopenedRow ==
    ASSUME NEW t \in Tasks, NEW row, RowOK(t, row),
           NEW s \in {"pending", "claimed"}
    PROVE  RowOK(t, [row EXCEPT !.state = s])
BY DEF RowOK, Rows, RowStates

(* What reconcile writes about a task in done/ or failed/. *)
LEMMA EnrichedRow ==
    ASSUME FileInv, NEW t \in Tasks, NEW s \in {"done", "failed"}
    PROVE  RowOK(t, Enriched(s, t)) /\ Enriched(s, t).state = s
<1>1. CASE result[t] # NoResult /\ TerminalState(result[t].verdict) = s
  <2>1. Honest(result[t], t)
    BY <1>1 DEF FileInv
  <2>2. Enriched(s, t) = Row(TerminalState(result[t].verdict),
                             result[t].verdict, result[t].cost)
    BY <1>1 DEF Enriched
  <2>3. RowOK(t, Enriched(s, t))
    BY <2>1, <2>2, HonestRow
  <2> QED
    BY <1>1, <2>2, <2>3 DEF Row
<1>2. CASE ~(result[t] # NoResult /\ TerminalState(result[t].verdict) = s)
  BY <1>2, BareRow DEF Enriched, RowStates, Row
<1> QED
  BY <1>1, <1>2

(* The rows of a recorded step: one row may change, to a state of its own  *)
(* or to the row of an honest result.                                      *)
LEMMA RecordedRows ==
    ASSUME TypeInv, FileInv, RowsInv, Recorded, NEW t \in Tasks
    PROVE  \/ ledger'[t] = ledger[t]
           \/ \E s \in {"pending", "claimed"} :
                 ledger'[t] = [ledger[t] EXCEPT !.state = s]
           \/ \E p \in Patrols :
                 /\ LFinishRecord(p) /\ job[p] = t
                 /\ ledger'[t] = Row(TerminalState(res[p].verdict),
                                     res[p].verdict, res[p].cost)
<1> USE DEF MutateLedger, RowsInv
<1>1. CASE \E c \in Clients : LEnqueueRecord(c)
  BY <1>1 DEF LEnqueueRecord, WithState
<1>2. CASE \E p \in Patrols : LClaimRecord(p)
  BY <1>2 DEF LClaimRecord, WithState
<1>3. CASE \E p \in Patrols : LFinishRecord(p)
  BY <1>3 DEF LFinishRecord, FinishRecord
<1>4. CASE \E m \in Mayors : LSweepRecord(m)
  BY <1>4 DEF LSweepRecord, WithState
<1> QED
  BY <1>1, <1>2, <1>3, <1>4 DEF Recorded

(* A recorded step leaves a reconcile alone. *)
LEMMA RecordedFrame ==
    ASSUME RowsInv, Recorded
    PROVE  /\ UNCHANGED <<ledgerLock, scanVars>>
           /\ ledger' = [t \in Tasks |-> ledger'[t]]
BY DEF Recorded, LEnqueueRecord, LClaimRecord, LFinishRecord, LSweepRecord,
       MutateLedger, RowsInv

(* Every step keeps the rows in agreement with themselves. *)
LEMMA RowsNext == ASSUME LedgerInv, [LNext]_lvars PROVE RowsInv'
<1>a. TypeInv /\ FileInv /\ RowsInv
  BY DEF LedgerInv
<1>t. pending \subseteq Tasks /\ done \subseteq Tasks /\ failed \subseteq Tasks
      /\ claimed \in [Patrols -> SUBSET Tasks]
  BY <1>a DEF TypeInv, TypeOK
<1>1. CASE UNCHANGED <<ledger, rebuilt>>
  BY <1>1, <1>a DEF RowsInv
<1>2. CASE Recorded
  <2>1. ASSUME NEW t \in Tasks PROVE RowOK(t, ledger'[t])
    <3>1. CASE ledger'[t] = ledger[t]
      BY <1>a, <3>1 DEF RowsInv
    <3>2. CASE \E s \in {"pending", "claimed"} :
                  ledger'[t] = [ledger[t] EXCEPT !.state = s]
      <4>1. PICK s \in {"pending", "claimed"} :
                  ledger'[t] = [ledger[t] EXCEPT !.state = s]
        BY <3>2
      <4>2. RowOK(t, ledger[t])
        BY <1>a DEF RowsInv
      <4>3. RowOK(t, [ledger[t] EXCEPT !.state = s])
        BY <4>2, ReopenedRow
      <4> QED
        BY <4>1, <4>3
    <3>3. CASE \E p \in Patrols :
                  /\ LFinishRecord(p) /\ job[p] = t
                  /\ ledger'[t] = Row(TerminalState(res[p].verdict),
                                      res[p].verdict, res[p].cost)
      <4>1. PICK p \in Patrols :
                  /\ LFinishRecord(p) /\ job[p] = t
                  /\ ledger'[t] = Row(TerminalState(res[p].verdict),
                                      res[p].verdict, res[p].cost)
        BY <3>3
      <4>2. Honest(res[p], t)
        BY <1>a, <4>1 DEF FileInv, LFinishRecord, FinishRecord
      <4> QED
        BY <4>1, <4>2, HonestRow
    <3> QED
      BY <1>2, <1>a, <3>1, <3>2, <3>3, RecordedRows
  <2>2. UNCHANGED rebuilt /\ ledger' = [t \in Tasks |-> ledger'[t]]
    BY <1>2, <1>a, RecordedFrame
  <2> QED
    BY <1>a, <2>1, <2>2 DEF RowsInv
<1>3. CASE ScanPending
  BY <1>3, <1>a, <1>t, BareRow DEF ScanPending, Override, RowsInv, RowStates
<1>4. ASSUME NEW p \in Patrols, ScanClaimed(p) PROVE RowsInv'
  BY <1>4, <1>a, <1>t, BareRow DEF ScanClaimed, Override, RowsInv, RowStates
<1>5. CASE ScanDone
  BY <1>5, <1>a, <1>t, EnrichedRow DEF ScanDone, Override, RowsInv
<1>6. CASE ScanFailed
  BY <1>6, <1>a, <1>t, EnrichedRow DEF ScanFailed, Override, RowsInv
<1>7. CASE ReconcileWrite
  BY <1>7, <1>a, BareRow DEF ReconcileWrite, ReconcileEnd, RowsInv, NoRow,
     RowStates
<1>8. CASE ReconcileCrash
  BY <1>8, <1>a, BareRow DEF ReconcileCrash, ReconcileEnd, RowsInv, NoRow,
     RowStates
<1>9. CASE ScanDirs
  BY <1>1, <1>9 DEF ScanDirs
<1> QED
  BY <1>1, <1>2, <1>3, <1>4, <1>5, <1>6, <1>7, <1>8, <1>9
     DEF LNext, Reconcile

(* Every step keeps the variables of a reconcile typed. *)
LEMMA ScanTypesNext == ASSUME LedgerInv, [LNext]_lvars PROVE ScanTypes'
<1>a. RowsInv /\ ScanTypes
  BY DEF LedgerInv
<1> USE LedgerAssumption DEF ScanTypes
<1>1. CASE UNCHANGED <<ledgerLock, scanVars>>
  BY <1>1, <1>a
<1>2. CASE Recorded
  BY <1>1, <1>2, <1>a, RecordedFrame
<1>3. CASE ScanPending
  BY <1>3, <1>a DEF ScanPending
<1>4. CASE ScanDirs
  BY <1>4, <1>a DEF ScanDirs
<1>5. ASSUME NEW p \in Patrols, ScanClaimed(p) PROVE ScanTypes'
  BY <1>5, <1>a DEF ScanClaimed
<1>6. CASE ScanDone \/ ScanFailed
  BY <1>6, <1>a DEF ScanDone, ScanFailed
<1>7. CASE ReconcileWrite \/ ReconcileCrash
  BY <1>7, <1>a DEF ReconcileWrite, ReconcileCrash, ReconcileEnd
<1> QED
  BY <1>1, <1>2, <1>3, <1>4, <1>5, <1>6, <1>7 DEF LNext, Reconcile

(* The invariant holds in the empty queue without a row, *)
LEMMA LedgerInvStart == LInit => LedgerInv
<1> SUFFICES ASSUME LInit PROVE LedgerInv
  OBVIOUS
<1>1. TypeInv
  BY ConstantsAssumption
     DEF LInit, Init, TypeInv, TypeOK, InHand, Working, PatrolSteps,
         MayorSteps, ClientSteps
<1>2. FileInv
  BY DEF LInit, Init, FileInv, ResultBeforeMove, Finished
<1>3. RowsInv
  BY BareRow DEF LInit, RowsInv, NoRow, RowStates
<1>4. ScanTypes
  <2>1. ledgerLock = FALSE /\ rpc = "off" /\ rtodo = {} /\ reconciles = 0
    BY DEF LInit
  <2>2. ledgerLock \in BOOLEAN
    BY <2>1, Zenon
  <2>3. reconciles \in 0 .. MaxReconciles
    BY <2>1, LedgerAssumption
  <2> QED
    BY <2>1, <2>2, <2>3 DEF ScanTypes
<1> QED
  BY <1>1, <1>2, <1>3, <1>4 DEF LedgerInv

(* every step keeps it, *)
LEMMA LedgerInvNext == LedgerInv /\ [LNext]_lvars => LedgerInv'
  BY QueueKept, RowsNext, ScanTypesNext DEF LedgerInv

(* and so it holds forever. *)
LEMMA LedgerInvariant == LSpec => []LedgerInv
  BY LedgerInvStart, LedgerInvNext, PTL DEF LSpec

(* A row of the ledger never contradicts itself (mutate_ledger, record_*   *)
(* and reconcile of mayor_patrol.rs), whatever is slow, killed, reused or  *)
(* submitted twice.                                                        *)
THEOREM RowsNeverContradict == LSpec => []RowsConsistent
<1>1. LedgerInv => RowsConsistent
  <2> SUFFICES ASSUME LedgerInv PROVE RowsConsistent
    OBVIOUS
  <2>1. LTypeOK
    BY DEF LedgerInv, TypeInv, RowsInv, RowOK, ScanTypes, LTypeOK
  <2> QED
    BY <2>1 DEF LedgerInv, RowsInv, RowOK, RowsConsistent
<1> QED
  BY <1>1, LedgerInvariant, PTL

-----------------------------------------------------------------------------
(***************************************************************************)
(* Reconcile against the running queue, when nobody outlasts a timeout     *)
(***************************************************************************)

(* A reconcile does not outlast LOCK_TIMEOUT either. *)
PunctualLedger == Punctual /\ ~SlowLedger

(* A claim directory exists as long as it holds a file. *)
DirInv == \A p \in Patrols : claimed[p] # {} => hasDir[p]

(* The last write of a task that ends in failed/ is not "done", and a      *)
(* scanned "done" was seen in done/.                                       *)
FinishInv ==
    /\ NeverReportsFailedAsDone
    /\ \A p \in Patrols :
          pc[p] = "move" /\ res[p].verdict = "failed"
             => ledger[job[p]].state # "done"
    /\ \A t \in Tasks : rebuilt[t].state = "done" => t \in done

(* Reconcile has found task t where its file will not come back from. *)
Told(t) == rebuilt[t].state \notin {"pending", "absent"}

(* A task that finishes during a reconcile was already past record_finish, *)
(* which waits for ledger.lock, so its file was in a claim directory from  *)
(* the start: whichever way its rename and the scan interleave, the scan   *)
(* meets it.                                                               *)
ScanInv ==
    /\ ledgerLock <=> rpc # "off"
    /\ rpc \in {"failed", "write"} => rtodo = {}
    /\ rpc \in {"claimed", "failed", "write"} =>
          \A p \in Patrols : pc[p] = "move" => p \in rtodo \/ Told(job[p])
    /\ rpc \in {"failed", "write"} => \A t \in done : Told(t)
    /\ rpc = "write" => \A t \in failed : Told(t)

(* Every step of the queue keeps a file and its directory together. *)
LEMMA DirNext == ASSUME TypeInv, DirInv, [Next]_vars PROVE DirInv'
<1> USE DEF TypeInv, TypeOK, InHand, DirInv
<1>1. CASE UNCHANGED <<claimed, hasDir>>
  BY <1>1
<1>2. ASSUME NEW p \in Patrols, PatrolStep(p) PROVE DirInv'
  <2>1. CASE ClaimScan(p)
    BY <2>1 DEF ClaimScan
  <2>2. CASE ClaimRename(p)
    BY <2>2 DEF ClaimRename, CanRename
  <2>3. CASE FinishMove(p)
    BY <2>3 DEF FinishMove
  <2>4. CASE Cleanup(p)
    BY <2>4 DEF Cleanup
  <2>5. CASE \/ ClaimStart(p) \/ ClaimLock(p) \/ ClaimLockTimeout(p)
             \/ ClaimScanEmpty(p) \/ ClaimRenameFails(p) \/ ClaimRead(p)
             \/ ClaimReadFails(p) \/ ClaimRecord(p) \/ Wake(p) \/ Dispatch(p)
             \/ WriteResult(p) \/ FinishRecord(p) \/ FinishSwept(p)
    BY <1>1, <2>5 DEF ClaimStart, ClaimLock, ClaimLockTimeout, ClaimScanEmpty,
       ClaimRenameFails, ClaimError, ClaimRead, ClaimReadFails, ClaimRecord,
       Wake, Dispatch, WriteResult, FinishRecord, FinishSwept
  <2> QED
    BY <1>2, <2>1, <2>2, <2>3, <2>4, <2>5 DEF PatrolStep
<1>3. ASSUME NEW m \in Mayors, MayorStep(m) PROVE DirInv'
  <2>1. CASE \E t \in Tasks : SweepMove(m, t)
    BY <2>1 DEF SweepMove, RenameBack
  <2>2. CASE SweepRemoveDir(m)
    BY <2>2 DEF SweepRemoveDir
  <2>3. CASE MayorStep(m) /\ ~SweepRemoveDir(m)
             /\ ~\E t \in Tasks : SweepMove(m, t)
    BY <1>1, <2>3 DEF MayorStep, StatusStart, SweepSkip, SweepPick, SweepList,
       SweepListFails, SweepMoveFails, SweepRecord, CountPending, CountDirs,
       CountClaimed, ReturnIdle
  <2> QED
    BY <1>3, <2>1, <2>2, <2>3
<1>4. CASE \/ \E c \in Clients : ClientStep(c) \/ \E t \in Tasks : Enqueue(c, t)
           \/ \E p \in Patrols : Start(p) \/ Crash(p) \/ HeartbeatExpires(p)
           \/ \E m \in Mayors : MayorCrash(m)
           \/ UNCHANGED vars
  BY <1>1, <1>4 DEF ClientStep, Enqueue, EnqueueScanClaimed, EnqueueWrite,
     EnqueueRecord, Start, Crash, HeartbeatExpires, MayorCrash
<1> QED
  BY <1>2, <1>3, <1>4 DEF Next

(* The punctual queue stays punctual beside its ledger. *)
LEMMA PunctualKept ==
    ASSUME Punctual, PunctualInv, DirInv, [LNext]_lvars
    PROVE  PunctualInv' /\ DirInv'
<1>1. CASE [Next]_vars
  BY <1>1, TypeNext, CopyNext, AliveNext, OwnNext, DirNext
     DEF PunctualInv, Punctual
<1>2. CASE ReconcileCrash
  <2>1. UNCHANGED <<fsVars, pc, job, res, started, mayorVars, clientVars>>
    BY <1>2 DEF ReconcileCrash
  <2>2. TypeInv'
    BY <1>2, <2>1 DEF ReconcileCrash, PunctualInv, TypeInv, TypeOK, InHand
  <2>3. CopyInv'
    BY <2>1 DEF PunctualInv, CopyInv, OneCopy, Located, Queued, Finished,
       AllClaimed, Entering
  <2>4. AliveInv' /\ OwnInv' /\ DirInv'
    BY <2>1 DEF PunctualInv, AliveInv, OwnInv, DirInv
  <2> QED
    BY <2>2, <2>3, <2>4 DEF PunctualInv
<1> QED
  BY <1>1, <1>2, LedgerOnlyWatches

(* All the steps of the queue but FinishRecord and FinishMove. *)
Unfinishing ==
    \/ \E c \in Clients : ClientStep(c) \/ \E t \in Tasks : Enqueue(c, t)
    \/ \E p \in Patrols :
          \/ Start(p) \/ Crash(p) \/ HeartbeatExpires(p) \/ ClaimStart(p)
          \/ ClaimLock(p) \/ ClaimLockTimeout(p) \/ ClaimScanEmpty(p)
          \/ ClaimScan(p) \/ ClaimRename(p) \/ ClaimRenameFails(p)
          \/ ClaimRead(p) \/ ClaimReadFails(p) \/ ClaimRecord(p)
          \/ Wake(p) \/ Dispatch(p) \/ WriteResult(p) \/ FinishSwept(p)
          \/ Cleanup(p)
    \/ \E m \in Mayors : MayorStep(m) \/ MayorCrash(m)

(* Only FinishMove moves a file to done/ or failed/, and only FinishRecord *)
(* brings a patrol to that move.                                           *)
LEMMA FinishingSteps ==
    ASSUME TypeInv, Unfinishing
    PROVE  /\ UNCHANGED <<done, failed>>
           /\ \A q \in Patrols :
                 pc'[q] = "move" => /\ pc[q] = "move"
                                    /\ job'[q] = job[q] /\ res'[q] = res[q]
<1> USE DEF TypeInv, TypeOK
<1>1. ASSUME NEW p \in Patrols,
             \/ Start(p) \/ Crash(p) \/ ClaimStart(p)
             \/ ClaimLock(p) \/ ClaimLockTimeout(p) \/ ClaimScanEmpty(p)
             \/ ClaimScan(p) \/ ClaimRename(p) \/ ClaimRenameFails(p)
             \/ ClaimRead(p) \/ ClaimReadFails(p) \/ ClaimRecord(p)
             \/ Wake(p) \/ Dispatch(p) \/ WriteResult(p) \/ FinishSwept(p)
             \/ Cleanup(p)
      PROVE  /\ UNCHANGED <<done, failed>>
             /\ pc'[p] # "move"
             /\ \A q \in Patrols : q # p => /\ pc'[q] = pc[q]
                                            /\ job'[q] = job[q]
                                            /\ res'[q] = res[q]
  BY <1>1 DEF ClaimStart, ClaimLock, ClaimLockTimeout,
     ClaimScanEmpty, ClaimScan, ClaimRename, ClaimRenameFails, ClaimError,
     ClaimRead, ClaimReadFails, ClaimRecord, Wake, Dispatch, WriteResult,
     FinishSwept, Cleanup, Start, Crash, Goto
<1>2. CASE \/ \E c \in Clients : ClientStep(c) \/ \E t \in Tasks : Enqueue(c, t)
           \/ \E p \in Patrols : HeartbeatExpires(p)
           \/ \E m \in Mayors : MayorStep(m) \/ MayorCrash(m)
  <2>1. UNCHANGED <<pc, job, res>>
    BY <1>2, OthersOnlyAdd
  <2>2. UNCHANGED <<done, failed>>
    BY <1>2 DEF ClientStep, Enqueue, EnqueueScanClaimed, EnqueueWrite,
       EnqueueRecord, HeartbeatExpires, MayorCrash, MayorStep, StatusStart,
       SweepSkip, SweepPick, SweepList, SweepListFails, SweepMove,
       SweepMoveFails, SweepRecord, SweepRemoveDir, CountPending, CountDirs,
       CountClaimed, ReturnIdle
  <2> QED
    BY <2>1, <2>2
<1> QED
  BY <1>1, <1>2 DEF Unfinishing

(* Every step keeps "done" away from tasks that fail. *)
LEMMA FinishInvNext ==
    ASSUME PunctualLedger, LedgerInv, PunctualInv, FinishInv, ScanInv,
           [LNext]_lvars
    PROVE  FinishInv'
<1>a. TypeInv /\ FileInv /\ RowsInv /\ CopyInv /\ OwnInv
  BY DEF LedgerInv, PunctualInv
<1>t. /\ pending \subseteq Tasks /\ done \subseteq Tasks /\ failed \subseteq Tasks
      /\ claimed \in [Patrols -> SUBSET Tasks]
      /\ pc \in [Patrols -> PatrolSteps]
  BY <1>a DEF TypeInv, TypeOK
<1>j. \A p \in Patrols : pc[p] \in Working => job[p] \in Tasks
  BY <1>a DEF TypeInv, InHand
<1>f. done \cap failed = {}
  BY <1>a, <1>t DEF CopyInv, OneCopy
<1> USE DEF FinishInv, NeverReportsFailedAsDone
<1>1. ASSUME UNCHANGED <<done, failed>>,
             \A q \in Patrols :
                pc'[q] = "move" => /\ pc[q] = "move"
                                   /\ job'[q] = job[q] /\ res'[q] = res[q],
             \A t \in Tasks : ledger'[t].state = "done"
                                 => ledger[t].state = "done",
             \A t \in Tasks : rebuilt'[t].state = "done" => t \in done
      PROVE  FinishInv'
  BY <1>1, <1>t, <1>j DEF Working
<1>2. ASSUME NEW p \in Patrols, FinishMove(p), UNCHANGED ledgerVars
      PROVE  FinishInv'
  <2>1. /\ job[p] \in Tasks /\ done \subseteq done'
        /\ failed' \subseteq failed \cup {job[p]}
        /\ res[p].verdict # "failed" => UNCHANGED failed
        /\ pc'[p] # "move" /\ UNCHANGED <<job, res>>
        /\ \A q \in Patrols : q # p => pc'[q] = pc[q]
        /\ pc[p] = "move"
    BY <1>2, <1>j, <1>t DEF FinishMove, Working, Goto
  <2> QED
    BY <1>2, <2>1
<1>3. ASSUME NEW p \in Patrols, LFinishRecord(p) PROVE FinishInv'
  <2>1. /\ job[p] \in Tasks /\ job[p] \notin failed
        /\ \A q \in Patrols : q # p /\ pc[q] = "move" => job[q] # job[p]
    BY <1>3, <1>a, <1>j, <1>t DEF LFinishRecord, FinishRecord, Working, OwnInv,
       CopyInv, OneCopy, AllClaimed, Finished
  <2>2. /\ ledger' = [ledger EXCEPT ![job[p]] =
                        Row(TerminalState(res[p].verdict),
                            res[p].verdict, res[p].cost)]
        /\ UNCHANGED <<rebuilt, done, failed, job, res>>
        /\ \A q \in Patrols : q # p => pc'[q] = pc[q]
    BY <1>3 DEF LFinishRecord, FinishRecord, MutateLedger, PunctualLedger, Goto
  <2>3. ledger'[job[p]].state = TerminalState(res[p].verdict)
    BY <1>a, <2>1, <2>2 DEF RowsInv, Row
  <2>4. \A t \in Tasks : t # job[p] => ledger'[t] = ledger[t]
    BY <1>a, <2>1, <2>2 DEF RowsInv
  <2>5. res[p].verdict = "failed" => ledger'[job[p]].state = "failed"
    BY <2>3 DEF TerminalState
  <2>6. \A q \in Patrols : pc'[q] = "move" /\ q # p =>
           pc[q] = "move" /\ job[q] \in Tasks /\ job[q] # job[p]
    BY <2>1, <2>2, <1>j DEF Working
  <2> QED
    BY <1>t, <2>1, <2>2, <2>4, <2>5, <2>6
<1>4. CASE Recorded /\ ~\E p \in Patrols : LFinishRecord(p)
  <2>1. Unfinishing
    BY <1>4, Zenon DEF Recorded, LEnqueueRecord, LClaimRecord, LSweepRecord,
       Unfinishing, ClientStep, MayorStep
  <2>2. ASSUME NEW t \in Tasks
        PROVE  ledger'[t].state = "done" => ledger[t].state = "done"
    <3>1. CASE ledger'[t] = ledger[t]
      BY <3>1
    <3>2. ASSUME NEW s \in {"pending", "claimed"},
                 ledger'[t] = [ledger[t] EXCEPT !.state = s]
          PROVE  ledger'[t].state = s
      BY <3>2, <1>a DEF RowsInv, RowOK, Rows
    <3> QED
      BY <1>4, <1>a, <3>1, <3>2, RecordedRows
  <2> QED
    BY <1>1, <1>4, <1>a, <2>1, <2>2, FinishingSteps, RecordedFrame
<1>5. CASE Unrecorded /\ UNCHANGED ledgerVars
  <2>1. CASE \E p \in Patrols : FinishMove(p)
    BY <1>2, <1>5, <2>1
  <2>2. CASE ~\E p \in Patrols : FinishMove(p)
    <3>1. Unfinishing
      BY <1>5, <2>2, Zenon DEF Unrecorded, Unfinishing, ClientStep, MayorStep
    <3> QED
      BY <1>1, <1>5, <1>a, <3>1, FinishingSteps
  <2> QED
    BY <2>1, <2>2
<1>6. CASE Reconcile
  <2>1. /\ UNCHANGED <<done, failed, pc, job, res>>
        /\ ledger' = ledger \/ (ReconcileWrite /\ ledger' = rebuilt)
    BY <1>6 DEF Reconcile, ScanPending, ScanDirs, ScanClaimed, ScanDone,
       ScanFailed, ReconcileWrite, ReconcileCrash
  <2>2. \A t \in Tasks : rebuilt'[t].state = "done" => t \in done
    <3>1. CASE ScanPending
      BY <3>1, <1>t DEF ScanPending, Override, Row
    <3>2. CASE \E p \in Patrols : ScanClaimed(p)
      BY <3>2, <1>t DEF ScanClaimed, Override, Row
    <3>3. CASE ScanDone
      BY <3>3, <1>t DEF ScanDone, Override
    <3>4. CASE ScanFailed
      <4>1. \A t \in failed : Enriched("failed", t).state = "failed"
        BY <1>a, <1>t, EnrichedRow
      <4> QED
        BY <3>4, <4>1, <1>t DEF ScanFailed, Override
    <3>5. CASE ReconcileWrite \/ ReconcileCrash
      BY <3>5 DEF ReconcileWrite, ReconcileCrash, ReconcileEnd, NoRow, Row
    <3>6. CASE ScanDirs
      BY <3>6 DEF ScanDirs
    <3> QED
      BY <1>6, <3>1, <3>2, <3>3, <3>4, <3>5, <3>6 DEF Reconcile
  <2>3. \A t \in Tasks : ledger'[t].state = "done"
                            => ledger[t].state = "done" \/ t \in done
    BY <2>1
  <2>4. \A p \in Patrols : pc[p] = "move"
           => job[p] \in Tasks /\ job[p] \notin done
    BY <1>a, <1>t, <1>j DEF Working, OwnInv, CopyInv, OneCopy, AllClaimed,
       Finished
  <2> QED
    BY <1>f, <1>t, <2>1, <2>2, <2>3, <2>4
<1>7. CASE UNCHANGED lvars
  BY <1>7
<1> QED
  BY <1>3, <1>4, <1>5, <1>6, <1>7 DEF LNext

(* Every step keeps the scan ahead of the tasks that finish under it. *)
LEMMA ScanInvNext ==
    ASSUME PunctualLedger, LedgerInv, PunctualInv, DirInv, ScanInv,
           [LNext]_lvars
    PROVE  ScanInv'
<1>a. TypeInv /\ FileInv /\ RowsInv /\ OwnInv /\ ScanTypes
  BY DEF LedgerInv, PunctualInv
<1>t. /\ pending \subseteq Tasks /\ done \subseteq Tasks /\ failed \subseteq Tasks
      /\ claimed \in [Patrols -> SUBSET Tasks]
      /\ pc \in [Patrols -> PatrolSteps]
  BY <1>a DEF TypeInv, TypeOK
<1>m. \A p \in Patrols :
         pc[p] = "move" => job[p] \in Tasks /\ job[p] \in claimed[p]
  BY <1>a DEF TypeInv, InHand, OwnInv, Working
<1> USE DEF ScanInv, Told
<1>1. ASSUME UNCHANGED <<done, failed, ledgerLock, scanVars>>,
             \A q \in Patrols :
                pc'[q] = "move" => pc[q] = "move" /\ job'[q] = job[q]
      PROVE  ScanInv'
  BY <1>1
<1>2. ASSUME NEW p \in Patrols, FinishMove(p), UNCHANGED ledgerVars
      PROVE  ScanInv'
  <2>1. /\ pc[p] = "move" /\ pc'[p] # "move" /\ UNCHANGED job
        /\ done' \subseteq done \cup {job[p]}
        /\ failed' \subseteq failed \cup {job[p]}
        /\ \A q \in Patrols : q # p => pc'[q] = pc[q]
    BY <1>2, <1>t DEF FinishMove, Goto
  <2> QED
    BY <1>2, <2>1
<1>3. ASSUME NEW p \in Patrols, LFinishRecord(p) PROVE ScanInv'
  <2>1. ~ledgerLock /\ UNCHANGED <<ledgerLock, scanVars>>
    BY <1>3 DEF LFinishRecord, MutateLedger, PunctualLedger
  <2> QED
    BY <2>1
<1>4. CASE Recorded /\ ~\E p \in Patrols : LFinishRecord(p)
  <2>1. Unfinishing
    BY <1>4, Zenon DEF Recorded, LEnqueueRecord, LClaimRecord, LSweepRecord,
       Unfinishing, ClientStep, MayorStep
  <2> QED
    BY <1>1, <1>4, <1>a, <2>1, FinishingSteps, RecordedFrame
<1>5. CASE Unrecorded /\ UNCHANGED ledgerVars
  <2>1. CASE \E p \in Patrols : FinishMove(p)
    BY <1>2, <1>5, <2>1
  <2>2. CASE ~\E p \in Patrols : FinishMove(p)
    <3>1. Unfinishing
      BY <1>5, <2>2, Zenon DEF Unrecorded, Unfinishing, ClientStep, MayorStep
    <3> QED
      BY <1>1, <1>5, <1>a, <3>1, FinishingSteps
  <2> QED
    BY <2>1, <2>2
<1>6. CASE ScanPending
  BY <1>6 DEF ScanPending
<1>7. CASE ScanDirs
  <2>1. \A p \in Patrols : pc[p] = "move" => hasDir[p]
    BY <1>m DEF DirInv
  <2> QED
    BY <1>7, <2>1 DEF ScanDirs
<1>8. ASSUME NEW p \in Patrols, ScanClaimed(p) PROVE ScanInv'
  <2>1. /\ rpc = "claimed" /\ rtodo' = rtodo \ {p}
        /\ UNCHANGED <<ledgerLock, rpc, vars>>
        /\ \A t \in Tasks : Told(t) => Told(t)'
        /\ \A t \in claimed[p] : Told(t)'
    BY <1>8, <1>t DEF ScanClaimed, Override, Row
  <2> QED
    BY <2>1, <1>m
<1>9. CASE ScanDone
  <2>1. \A t \in done : Enriched("done", t).state = "done"
    BY <1>a, <1>t, EnrichedRow
  <2>2. /\ rpc = "claimed" /\ rpc' = "failed" /\ rtodo = {}
        /\ UNCHANGED <<ledgerLock, rtodo, vars>>
        /\ \A t \in Tasks : Told(t) => Told(t)'
        /\ \A t \in done : Told(t)'
    BY <1>9, <1>t, <2>1 DEF ScanDone, Override
  <2> QED
    BY <2>2, <1>m
<1>10. CASE ScanFailed
  <2>1. \A t \in failed : Enriched("failed", t).state = "failed"
    BY <1>a, <1>t, EnrichedRow
  <2>2. /\ rpc = "failed" /\ rpc' = "write"
        /\ UNCHANGED <<ledgerLock, rtodo, vars>>
        /\ \A t \in Tasks : Told(t) => Told(t)'
        /\ \A t \in failed : Told(t)'
    BY <1>10, <1>t, <2>1 DEF ScanFailed, Override
  <2> QED
    BY <2>2, <1>m, <1>t
<1>11. CASE ReconcileWrite \/ ReconcileCrash
  BY <1>11 DEF ReconcileWrite, ReconcileCrash, ReconcileEnd
<1>12. CASE UNCHANGED lvars
  BY <1>12
<1> QED
  BY <1>3, <1>4, <1>5, <1>6, <1>7, <1>8, <1>9, <1>10, <1>11, <1>12
     DEF LNext, Reconcile

ReconcileInv == LedgerInv /\ PunctualInv /\ DirInv /\ FinishInv /\ ScanInv

(* The invariant of the punctual ledger holds initially, *)
LEMMA ReconcileInvStart == LInit => ReconcileInv
<1> SUFFICES ASSUME LInit PROVE ReconcileInv
  OBVIOUS
<1>1. LedgerInv
  BY LedgerInvStart
<1>2. TypeInv
  BY <1>1 DEF LedgerInv
<1>3. CopyInv
  BY DEF LInit, Init, CopyInv, OneCopy, Entering, Located, Queued, Finished,
         AllClaimed
<1>4. AliveInv /\ OwnInv
  BY ConstantsAssumption DEF LInit, Init, AliveInv, OwnInv, Working
<1>5. DirInv
  BY DEF LInit, Init, DirInv
<1>6. FinishInv /\ ScanInv
  BY DEF LInit, Init, FinishInv, NeverReportsFailedAsDone, ScanInv, NoRow, Row
<1> QED
  BY <1>1, <1>2, <1>3, <1>4, <1>5, <1>6 DEF PunctualInv, ReconcileInv

(* and every step of queue, ledger and reconcile keeps it. *)
LEMMA ReconcileInvNext ==
    ASSUME PunctualLedger, ReconcileInv, [LNext]_lvars PROVE ReconcileInv'
  BY LedgerInvNext, PunctualKept, FinishInvNext, ScanInvNext
     DEF PunctualLedger, ReconcileInv

(* What a reconcile has met in done/ or failed/ is still there, and said   *)
(* so in what it has scanned; nothing else was called failed.              *)
SettledInv ==
    /\ rpc \notin {"failed", "write"} => settled = {}
    /\ rpc = "failed" => settled \subseteq done
    /\ \A t \in settled : \/ t \in done /\ rebuilt[t].state = "done"
                          \/ t \in failed /\ rebuilt[t].state = "failed"
    /\ \A t \in Tasks : rebuilt[t].state = "failed" => t \in failed

(* Steps of the queue beside a reconcile leave the scan alone, and what is *)
(* finished finished.                                                      *)
LEMMA FinishedStay ==
    ASSUME TypeInv, RowsInv, Recorded \/ (Unrecorded /\ UNCHANGED ledgerVars)
    PROVE  /\ done \subseteq done' /\ failed \subseteq failed'
           /\ UNCHANGED <<rpc, rebuilt>>
<1>1. CASE Recorded /\ ~\E p \in Patrols : LFinishRecord(p)
  <2>1. Unfinishing
    BY <1>1, Zenon DEF Recorded, LEnqueueRecord, LClaimRecord, LSweepRecord,
       Unfinishing, ClientStep, MayorStep
  <2> QED
    BY <1>1, <2>1, FinishingSteps, RecordedFrame DEF scanVars
<1>2. CASE \E p \in Patrols : LFinishRecord(p)
  BY <1>2 DEF LFinishRecord, FinishRecord, MutateLedger, scanVars
<1>3. CASE (\E p \in Patrols : FinishMove(p)) /\ UNCHANGED ledgerVars
  BY <1>3 DEF FinishMove, ledgerVars, scanVars
<1>4. CASE /\ Unrecorded /\ UNCHANGED ledgerVars
           /\ ~\E p \in Patrols : FinishMove(p)
  <2>1. Unfinishing
    BY <1>4, Zenon DEF Unrecorded, Unfinishing, ClientStep, MayorStep
  <2> QED
    BY <1>4, <2>1, FinishingSteps DEF ledgerVars, scanVars
<1> QED
  BY <1>1, <1>2, <1>3, <1>4 DEF Recorded

(* Every step keeps it: finished tasks stay where they are. *)
LEMMA SettledNext ==
    ASSUME ReconcileInv, SettledInv, (LNext /\ Settle) \/ UNCHANGED runsVars
    PROVE  SettledInv'
<1>a. /\ FileInv /\ TypeInv /\ RowsInv /\ done \subseteq Tasks
      /\ pending \subseteq Tasks /\ failed \subseteq Tasks
      /\ claimed \in [Patrols -> SUBSET Tasks]
  BY DEF ReconcileInv, LedgerInv, PunctualInv, TypeInv, TypeOK
<1>b. done \cap failed = {}
  BY <1>a DEF ReconcileInv, PunctualInv, CopyInv, OneCopy
<1>1. ASSUME UNCHANGED <<rpc, rebuilt, settled>>,
             done \subseteq done', failed \subseteq failed'
      PROVE  SettledInv'
  BY <1>1 DEF SettledInv
<1>2. CASE UNCHANGED runsVars
  BY <1>1, <1>2 DEF runsVars, lvars, ledgerVars, scanVars, vars, fsVars
<1>3. CASE (Recorded \/ (Unrecorded /\ UNCHANGED ledgerVars)) /\ Settle
  <2>1. /\ done \subseteq done' /\ failed \subseteq failed'
        /\ UNCHANGED <<rpc, rebuilt>>
    BY <1>3, <1>a, FinishedStay
  <2>2. settled' = settled
    BY <1>3, <2>1 DEF Settle, SettledInv
  <2> QED
    BY <1>1, <2>1, <2>2
<1>4. CASE ScanDone /\ Settle
  <2>1. /\ rpc' = "failed" /\ settled' = done /\ UNCHANGED <<done, failed>>
    BY <1>4 DEF ScanDone, RGoto, Settle
  <2>2. \A t \in done : Enriched("done", t).state = "done"
    BY <1>a, EnrichedRow
  <2>3. /\ \A t \in done : rebuilt'[t].state = "done"
        /\ \A t \in Tasks : rebuilt'[t].state = "failed"
                               => rebuilt[t].state = "failed"
    BY <1>4, <1>a, <2>2 DEF ScanDone, Override
  <2> QED
    BY <2>1, <2>3 DEF SettledInv
<1>5. CASE ScanFailed /\ Settle
  <2>1. /\ rpc = "failed" /\ rpc' = "write" /\ settled' = settled \cup failed
        /\ UNCHANGED <<done, failed>>
    BY <1>5 DEF ScanFailed, RGoto, Settle
  <2>2. \A t \in failed : Enriched("failed", t).state = "failed"
    BY <1>a, EnrichedRow
  <2>3. /\ \A t \in failed : rebuilt'[t].state = "failed"
        /\ \A t \in Tasks \ failed : rebuilt'[t] = rebuilt[t]
    BY <1>5, <1>a, <2>2 DEF ScanFailed, Override
  <2>4. \A t \in settled : t \in Tasks \ failed /\ rebuilt[t].state = "done"
    BY <1>a, <1>b, <2>1 DEF SettledInv
  <2> QED
    BY <2>1, <2>3, <2>4 DEF SettledInv
<1>6. CASE ScanPending /\ Settle
  <2>1. rpc' = "dirs" /\ settled' = {} /\ UNCHANGED <<done, failed>>
    BY <1>6 DEF ScanPending, RGoto, Settle, SettledInv
  <2>2. \A t \in Tasks : rebuilt'[t].state = "failed"
                           => rebuilt[t].state = "failed"
    BY <1>6, <1>a DEF ScanPending, Override, Row
  <2> QED
    BY <2>1, <2>2 DEF SettledInv
<1>7. CASE ScanDirs /\ Settle
  BY <1>7 DEF ScanDirs, RGoto, Settle, SettledInv
<1>8. CASE (\E p \in Patrols : ScanClaimed(p)) /\ Settle
  <2>1. rpc' = "claimed" /\ settled' = {} /\ UNCHANGED <<done, failed>>
    BY <1>8 DEF ScanClaimed, Settle, SettledInv
  <2>2. \A t \in Tasks : rebuilt'[t].state = "failed"
                           => rebuilt[t].state = "failed"
    BY <1>8, <1>a DEF ScanClaimed, Override, Row
  <2> QED
    BY <2>1, <2>2 DEF SettledInv
<1>9. CASE (ReconcileWrite \/ ReconcileCrash) /\ Settle
  <2>1. rpc' = "off" /\ settled' = {} /\ rebuilt' = [t \in Tasks |-> NoRow]
    BY <1>9 DEF ReconcileWrite, ReconcileCrash, ReconcileEnd, RGoto, Settle
  <2> QED
    BY <2>1 DEF SettledInv, NoRow, Row
<1>10. CASE Reconcile /\ Settle
  BY <1>4, <1>5, <1>6, <1>7, <1>8, <1>9, <1>10, Zenon DEF Reconcile
<1> QED
  BY <1>2, <1>3, <1>10, Zenon DEF LNext

(* What reconcile writes about a finished task is its word, if it met the  *)
(* task where it is, and not a step back in any case.                      *)
LEMMA WriteKeepsFinished ==
    ASSUME ReconcileInv, SettledInv, ReconcileWrite PROVE KeepsFinished
<1> SUFFICES ASSUME NEW t \in Finished
             PROVE  \/ ledger'[t].state = Word(t)
                    \/ t \notin settled /\ ledger'[t].state = "claimed"
  BY DEF KeepsFinished
<1>1. ledger' = rebuilt /\ rpc = "write"
  BY DEF ReconcileWrite
<1>2. Told(t)
  BY <1>1 DEF ReconcileInv, ScanInv, Finished
<1>3. t \in Tasks /\ ~(t \in done /\ t \in failed) /\ rebuilt[t] \in Rows
  BY DEF ReconcileInv, PunctualInv, LedgerInv, RowsInv, RowOK, TypeInv, TypeOK,
         CopyInv, OneCopy, Finished
<1>4. rebuilt[t].state \in RowStates
  BY <1>3 DEF Rows
<1>5. /\ rebuilt[t].state = "done" => t \in done
      /\ rebuilt[t].state = "failed" => t \in failed
  BY <1>3 DEF ReconcileInv, FinishInv, SettledInv
<1>6. t \in settled => rebuilt[t].state \in {"done", "failed"}
  BY DEF SettledInv
<1> QED
  BY <1>1, <1>2, <1>3, <1>4, <1>5, <1>6 DEF Told, RowStates, Word

(* The same invariant beside the runs in which ids are enqueued again:     *)
(* those two kinds of behaviour never mix.                                 *)
LEMMA RunsInvariant ==
    ASSUME PunctualLedger
    PROVE  RunsSpec => [](~again => ReconcileInv /\ SettledInv)
<1>1. RunsInit => (~again => ReconcileInv /\ SettledInv)
  BY ReconcileInvStart DEF RunsInit, LInit, SettledInv, NoRow, Row
<1>2. (~again => ReconcileInv /\ SettledInv) /\ [RunsNext]_runsVars
        => (~again => ReconcileInv /\ SettledInv)'
  <2> SUFFICES ASSUME ~again => ReconcileInv /\ SettledInv, [RunsNext]_runsVars,
                      ~again'
               PROVE  ReconcileInv' /\ SettledInv'
    OBVIOUS
  <2>1. ~again /\ ((LNext /\ Settle) \/ UNCHANGED runsVars)
    BY DEF RunsNext, runsVars
  <2>2. [LNext]_lvars
    BY <2>1 DEF runsVars
  <2> QED
    BY <2>1, <2>2, ReconcileInvNext, SettledNext
<1> QED
  BY <1>1, <1>2, PTL DEF RunsSpec

(* Where nobody outlasts a timeout, no slot is reused and every id is      *)
(* enqueued once, the ledger never reports a task in failed/ as done,      *)
(* although record_finished writes its row before the rename, a killed     *)
(* patrol leaves its row behind and reconcile scans a moving queue (the    *)
(* comment at record_finished of mayor_patrol.rs).                         *)
THEOREM FailureIsReported ==
    ASSUME PunctualLedger PROVE RunsSpec => []FailedIsNeverReportedDone
<1>1. (~again => ReconcileInv /\ SettledInv) => FailedIsNeverReportedDone
  BY DEF FailedIsNeverReportedDone, ReconcileInv, FinishInv
<1> QED
  BY <1>1, RunsInvariant, PTL

(* And what reconcile writes about a finished task is the word of its      *)
(* directory, or at worst "claimed" for one that finished after that       *)
(* directory was read, although patrols move files while it scans one      *)
(* directory after the other (reconcile and scan_queue_dirs of             *)
(* mayor_patrol.rs).                                                       *)
THEOREM ReconcileNeverDowngrades ==
    ASSUME PunctualLedger PROVE RunsSpec => ReconcileKeepsFinished
<1>1. (~again => ReconcileInv /\ SettledInv) /\ [RunsNext]_runsVars
        => [~again /\ ReconcileWrite => KeepsFinished]_runsVars
  BY WriteKeepsFinished
<1> QED
  BY <1>1, RunsInvariant, PTL DEF RunsSpec, ReconcileKeepsFinished

=============================================================================
