---------------------------- MODULE MCLedgerRuns ----------------------------
(***************************************************************************)
(* Two instances of PatrolLedger, checked in one run.  The constants in    *)
(* the configuration are those of punctual processes, with a kill and two  *)
(* reconciles.  In the other one an id may be enqueued again while its     *)
(* task moves and ledger writes are lost to a timeout: there, no kill and  *)
(* one task, since what can be wrong with a row needs no second one.       *)
(***************************************************************************)
EXTENDS MCPatrolLedger

VARIABLES
    again,     \* may ids be enqueued again?
    settled    \* finished tasks a reconcile met in done/ or failed/ (a history)

runsVars == <<lvars, again, settled>>

Again == INSTANCE PatrolLedger WITH
    Resubmit <- TRUE, SlowLedger <- TRUE, MaxStops <- 0, MaxReconciles <- 1,
    Outcomes <- MCSuccess

RunsInit == again \in BOOLEAN /\ settled = {} /\ LInit

(* The tasks that lay in done/ or failed/ when that directory was read. *)
Settle ==
    settled' = IF rpc' = "off" THEN {}
               ELSE IF rpc = "claimed" /\ rpc' = "failed" THEN done
               ELSE IF rpc = "failed" /\ rpc' = "write" THEN settled \cup failed
               ELSE settled

RunsNext ==
    /\ UNCHANGED again
    /\ \/ ~again /\ LNext /\ Settle
       \/ again /\ Again!LNext /\ submitted' \subseteq {1} /\ UNCHANGED settled

RunsSpec == RunsInit /\ [][RunsNext]_runsVars

(* NeverReportsFailedAsDone where every id is enqueued once: the comment   *)
(* at record_finished (mayor_patrol.rs) has such ids in mind.              *)
FailedIsNeverReportedDone == ~again => NeverReportsFailedAsDone

Word(t) == IF t \in failed THEN "failed" ELSE "done"

(* A finished task gets the word of its directory if it lay there when     *)
(* that was read; one that finished later may be called claimed besides,   *)
(* as it was found, and nothing else.                                      *)
KeepsFinished ==
    \A t \in Finished :
        \/ ledger'[t].state = Word(t)
        \/ t \notin settled /\ ledger'[t].state = "claimed"

(* reconcile never downgrades a finished task to pending, never drops it   *)
(* and never reports it in the other direction, although it scans          *)
(* directory after directory while patrols run (README of the repository,  *)
(* line 739), where every id is enqueued once: for an id that is in done/  *)
(* and in pending/ no single row is right.  A task that was over when its  *)
(* directory was read keeps its word.  One that was met in claimed/ and    *)
(* ended after that is called claimed, even if its row said done: "the     *)
(* directories win on any disagreement" is not true of it.                 *)
ReconcileKeepsFinished ==
    [][~again /\ ReconcileWrite => KeepsFinished]_runsVars

=============================================================================
