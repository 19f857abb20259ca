----------------------------- MODULE RpcDaemon -----------------------------
(***************************************************************************)
(* `nv daemon --rpc` (nerve-cli main.rs): one read loop takes JSONL        *)
(* commands from stdin, and every prompt becomes a run task of its own     *)
(* next to a streamer task that prints the rounds as they finish.  The     *)
(* read loop keeps a registry of the runs to approve, cancel and await.    *)
(* The synaptic loop inside a run is abstracted to its rounds, the seam    *)
(* that reads the cancel token and the seam that reads the consent         *)
(* (module SynapticLoop); the bearer token file is module RpcBus's.        *)
(***************************************************************************)
EXTENDS Naturals, Sequences, FiniteSets

CONSTANTS
    RunIds,        \* ids of the tasks the prompts make
    NoRun,         \* no run: the read loop is between two commands
    LastRound,     \* bound: rounds of each run
    Unwritten,     \* bound: rounds of runs whose checkpoint may fail to be written
    ApplyFlags,    \* is the daemon started with --apply? (set of answers)
    OnceFlags,     \* is it started with --once?
    MayStop        \* can the daemon be killed, or its input fail?

ASSUME DaemonAssumption ==
    /\ NoRun \notin RunIds
    /\ Unwritten \subseteq RunIds \X Nat
    /\ LastRound \in [RunIds -> Nat \ {0}]
    /\ ApplyFlags \subseteq BOOLEAN /\ OnceFlags \subseteq BOOLEAN
    /\ MayStop \in BOOLEAN

VARIABLES
    flags,      \* apply and once, fixed when the daemon starts
    loop,       \* reading, awaiting, closing, exited or dead
    command,    \* the command under way in the read loop, and its run
    run,        \* the run tasks
    stream,     \* rounds in the channel to each streamer
    out,        \* the lines of each run on stdout, without the JSON
    registry,   \* ids in the run registry
    awaited,    \* join handles taken out of the registry at shutdown
    approvals,  \* .nerve/approvals/<id>.json
    inFlight,   \* .nerve/checkpoints/<id>.json
    tokenFile,  \* does the bearer token file exist?
    acked       \* history: runs for which approve answered granted

daemonVars == <<flags, loop, command, run, stream, out, registry, awaited,
                approvals, inFlight, tokenFile, acked>>

-----------------------------------------------------------------------------
NotSpawned == [at |-> "none", rounds |-> 0, apply |-> FALSE,
               consent |-> FALSE, cancel |-> FALSE, blocked |-> FALSE,
               applied |-> FALSE, saved |-> FALSE, kept |-> FALSE]
NoCommand == [name |-> "none", id |-> NoRun]

Finished(r)  == run[r].at \in {"none", "finished", "dropped"}
Reading      == loop = "reading" /\ command = NoCommand
Live         == loop \in {"reading", "awaiting", "closing"}

DaemonInit ==
    /\ flags \in [apply : ApplyFlags, once : OnceFlags]
    /\ loop = "reading"
    /\ command = NoCommand
    /\ run = [r \in RunIds |-> NotSpawned]
    /\ stream = [r \in RunIds |-> <<>>]
    /\ out = [r \in RunIds |-> <<>>]
    /\ registry = {}
    /\ awaited = {}
    /\ approvals = {}
    /\ inFlight = {}
    /\ tokenFile = TRUE          \* RpcBus::new has created or read it
    /\ acked = {}

(* After a command the daemon reads the next one, unless it is --once. *)
NextCommand ==
    /\ command' = NoCommand
    /\ loop' = IF flags.once THEN "awaiting" ELSE "reading"

Prune == {r \in registry : ~Finished(r)}

-----------------------------------------------------------------------------
(* prompt, first half: session.started is printed and the two tasks are    *)
(* spawned; the run may get anywhere before it is registered.              *)
SpawnRun(r) ==
    /\ Reading
    /\ run[r].at = "none"
    /\ run' = [run EXCEPT ![r].at = "loop", ![r].apply = flags.apply]
    /\ out' = [out EXCEPT ![r] = <<"started">>]
    /\ command' = [name |-> "prompt", id |-> r]
    /\ UNCHANGED <<flags, loop, stream, registry, awaited, approvals,
                   inFlight, tokenFile, acked>>

(* prompt, second half: finished runs are dropped from the registry, the   *)
(* new one is entered.                                                     *)
RegisterRun ==
    /\ command.name = "prompt"
    /\ registry' = Prune \cup {command.id}
    /\ NextCommand
    /\ UNCHANGED <<flags, run, stream, out, awaited, approvals, inFlight,
                   tokenFile, acked>>

(* Every other command: one that fails, that only reads the store, or that *)
(* works on files other modules own (apply_patch, rollback_patch, plan,    *)
(* dispatch_plan).  Nothing of this module's state changes.                *)
AnswerCommand ==
    /\ Reading
    /\ flags.once
    /\ NextCommand
    /\ UNCHANGED <<flags, run, stream, out, registry, awaited, approvals,
                   inFlight, tokenFile, acked>>

(* approve: the handle is flipped under the registry lock if the run is    *)
(* registered and not finished; then the audit record is written, and a    *)
(* write that fails is only logged.                                        *)
GrantInFlight(r) ==
    /\ Reading
    /\ r \in registry
    /\ ~Finished(r)
    /\ run' = [run EXCEPT ![r].consent = TRUE]
    /\ acked' = acked \cup {r}
    /\ command' = [name |-> "approve", id |-> r]
    /\ UNCHANGED <<flags, loop, stream, out, registry, awaited, approvals,
                   inFlight, tokenFile>>

RecordApproval(written) ==
    /\ command.name = "approve"
    /\ approvals' = IF written THEN approvals \cup {command.id} ELSE approvals
    /\ NextCommand
    /\ UNCHANGED <<flags, run, stream, out, registry, awaited, inFlight,
                   tokenFile, acked>>

(* cancel <run> and cancel all. *)
CancelInFlight(rs) ==
    /\ Reading
    /\ rs \subseteq {r \in registry : ~Finished(r)}
    /\ rs # {}
    /\ \E r \in rs : ~run[r].cancel
    /\ run' = [r \in RunIds |-> IF r \in rs THEN [run[r] EXCEPT !.cancel = TRUE]
                                ELSE run[r]]
    /\ NextCommand
    /\ UNCHANGED <<flags, stream, out, registry, awaited, approvals, inFlight,
                   tokenFile, acked>>

CancelRun == \E r \in RunIds : CancelInFlight({r})
CancelAll == CancelInFlight({r \in registry : ~Finished(r)})

(* conductor prints the live runs and forgets the finished ones. *)
Conductor ==
    /\ Reading
    /\ registry # Prune
    /\ registry' = Prune
    /\ NextCommand
    /\ UNCHANGED <<flags, run, stream, out, awaited, approvals, inFlight,
                   tokenFile, acked>>

-----------------------------------------------------------------------------
Running(r) == Live /\ run[r].at = "loop"

(* A round is recorded: checkpoint first, then the observer's channel.  A  *)
(* checkpoint that cannot be written is logged and the run goes on; kept   *)
(* remembers that one was written.                                         *)
RecordRound(r, written) ==
    /\ Running(r)
    /\ run[r].rounds < LastRound[r]
    /\ written \/ <<r, run[r].rounds + 1>> \in Unwritten
    /\ run' = [run EXCEPT ![r].rounds = @ + 1, ![r].at = "seam",
                          ![r].kept = @ \/ written]
    /\ inFlight' = IF written THEN inFlight \cup {r} ELSE inFlight
    /\ stream' = [stream EXCEPT ![r] = Append(@, run[r].rounds + 1)]
    /\ UNCHANGED <<flags, loop, command, out, registry, awaited, approvals,
                   tokenFile, acked>>

(* The round seam: the run is accepted or given up, or else cancelled, or  *)
(* it refines once more.                                                   *)
RoundSeam(r, decided, blocked) ==
    /\ Live /\ run[r].at = "seam"
    /\ \/ decided /\ run' = [run EXCEPT ![r].at = "apply",
                                        ![r].blocked = blocked]
       \/ /\ ~decided /\ run[r].cancel
          /\ run' = [run EXCEPT ![r].at = "apply", ![r].blocked = TRUE]
       \/ /\ ~decided /\ ~run[r].cancel /\ run[r].rounds < LastRound[r]
          /\ run' = [run EXCEPT ![r].at = "loop"]
    /\ UNCHANGED <<flags, loop, command, stream, out, registry, awaited,
                   approvals, inFlight, tokenFile, acked>>

(* The apply seam reads the consent once; the loop then returns and closes *)
(* the channel of the streamer.                                            *)
ApplySeam(r) ==
    /\ Live /\ run[r].at = "apply"
    /\ run' = [run EXCEPT ![r].at = "flush",
                 ![r].applied = ~run[r].blocked
                                /\ (run[r].apply \/ run[r].consent)]
    /\ UNCHANGED <<flags, loop, command, stream, out, registry, awaited,
                   approvals, inFlight, tokenFile, acked>>

(* A model call fails: the loop returns an error instead of a report. *)
LoopFails(r) ==
    /\ Running(r)
    /\ run' = [run EXCEPT ![r].at = "failed"]
    /\ UNCHANGED <<flags, loop, command, stream, out, registry, awaited,
                   approvals, inFlight, tokenFile, acked>>

(* The streamer prints a round's two envelopes. *)
StreamRound(r) ==
    /\ Live
    /\ stream[r] # <<>>
    /\ out' = [out EXCEPT ![r] = Append(@, "round")]
    /\ stream' = [stream EXCEPT ![r] = Tail(@)]
    /\ UNCHANGED <<flags, loop, command, run, registry, awaited, approvals,
                   inFlight, tokenFile, acked>>

(* Mutation: the run task does not await the streamer. *)
SaveReport_NoFlush(r, saved) ==
    /\ Live
    /\ run[r].at = "flush"
    /\ inFlight' = IF saved THEN inFlight \ {r} ELSE inFlight
    /\ run' = [run EXCEPT ![r].at = "terminal", ![r].saved = saved]
    /\ UNCHANGED <<flags, loop, command, stream, out, registry, awaited,
                   approvals, tokenFile, acked>>

(* The run task awaits the streamer, saves the report (which clears the    *)
(* checkpoint; a failure is only logged) and prints the last envelopes.    *)
SaveReport(r, saved) ==
    /\ Live
    /\ run[r].at = "flush"
    /\ stream[r] = <<>>
    /\ inFlight' = IF saved THEN inFlight \ {r} ELSE inFlight
    /\ run' = [run EXCEPT ![r].at = "terminal", ![r].saved = saved]
    /\ UNCHANGED <<flags, loop, command, stream, out, registry, awaited,
                   approvals, tokenFile, acked>>

(* A task that is over has dropped its consent and cancel handles. *)
Over(task, how) ==
    [task EXCEPT !.at = how, !.consent = FALSE, !.cancel = FALSE]

EmitTerminal(r) ==
    /\ Live
    /\ \/ run[r].at = "terminal"
          /\ out' = [out EXCEPT ![r] = @ \o
                       <<IF run[r].applied THEN "applied" ELSE "discarded",
                         "ended">>]
       \/ run[r].at = "failed" /\ stream[r] = <<>>
          /\ out' = [out EXCEPT ![r] = Append(@, "error")]
    /\ run' = [run EXCEPT ![r] = Over(@, "finished")]
    /\ UNCHANGED <<flags, loop, command, stream, registry, awaited, approvals,
                   inFlight, tokenFile, acked>>

-----------------------------------------------------------------------------
(* stdin ends. *)
EndOfInput ==
    /\ Reading
    /\ loop' = "awaiting"
    /\ UNCHANGED <<flags, command, run, stream, out, registry, awaited,
                   approvals, inFlight, tokenFile, acked>>

(* The registry is drained, and every handle in it awaited. *)
DrainRegistry ==
    /\ loop = "awaiting"
    /\ awaited' = registry
    /\ registry' = {}
    /\ loop' = "closing"
    /\ UNCHANGED <<flags, command, run, stream, out, approvals, inFlight,
                   tokenFile, acked>>

(* Arc::try_unwrap yields the bus only if no task holds a clone of it. *)
ShutDownBus ==
    /\ loop = "closing"
    /\ \A r \in awaited : Finished(r)
    /\ loop' = "exited"
    /\ tokenFile' = \E r \in RunIds : ~Finished(r)
    /\ UNCHANGED <<flags, command, run, stream, out, registry, awaited,
                   approvals, inFlight, acked>>

(* The daemon is killed, or the read of stdin fails (a line that is not    *)
(* UTF-8), which returns before the shutdown: the tasks are dropped.       *)
DaemonStops ==
    /\ Live
    /\ MayStop
    /\ loop' = "dead"
    /\ command' = NoCommand
    /\ run' = [r \in RunIds |-> IF Finished(r) THEN run[r]
                                ELSE Over(run[r], "dropped")]
    /\ stream' = [r \in RunIds |-> <<>>]
    /\ registry' = {}
    /\ awaited' = {}
    /\ UNCHANGED <<flags, out, approvals, inFlight, tokenFile, acked>>

DaemonDone == ~Live /\ UNCHANGED daemonVars

RunTask(r) ==
    \/ \E written \in BOOLEAN : RecordRound(r, written)
    \/ \E decided, blocked \in BOOLEAN : RoundSeam(r, decided, blocked)
    \/ ApplySeam(r) \/ LoopFails(r)
    \/ \E saved \in BOOLEAN : SaveReport(r, saved)
    \/ EmitTerminal(r)

FinishCommand ==
    RegisterRun \/ \E written \in BOOLEAN : RecordApproval(written)

Shutdown == DrainRegistry \/ ShutDownBus

DaemonNext ==
    \/ \E r \in RunIds : SpawnRun(r) \/ GrantInFlight(r)
    \/ FinishCommand \/ CancelRun \/ CancelAll \/ Conductor
    \/ AnswerCommand \/ EndOfInput \/ Shutdown
    \/ \E r \in RunIds : RunTask(r) \/ StreamRound(r)
    \/ DaemonStops \/ DaemonDone

(* The runtime schedules every task that can run, and the read loop        *)
(* finishes the command it has begun.                                      *)
DaemonFairness ==
    /\ \A r \in RunIds : /\ WF_daemonVars(RunTask(r))
                         /\ WF_daemonVars(StreamRound(r))
    /\ WF_daemonVars(FinishCommand)
    /\ WF_daemonVars(Shutdown)

DaemonSpec == DaemonInit /\ [][DaemonNext]_daemonVars
FairDaemonSpec == DaemonSpec /\ DaemonFairness
-----------------------------------------------------------------------------
(* Type correctness. *)
DaemonTypeOK ==
    /\ flags \in [apply : BOOLEAN, once : BOOLEAN]
    /\ loop \in {"reading", "awaiting", "closing", "exited", "dead"}
    /\ command \in [name : {"none", "prompt", "approve"},
                    id : RunIds \cup {NoRun}]
    /\ \A r \in RunIds :
        /\ run[r].at \in {"none", "loop", "seam", "apply", "flush", "failed",
                          "terminal", "finished", "dropped"}
        /\ run[r].rounds \in 0 .. LastRound[r]
        /\ stream[r] \in Seq(1 .. LastRound[r])
    /\ registry \cup awaited \cup approvals \cup inFlight \cup acked
            \subseteq RunIds
    /\ tokenFile \in BOOLEAN

Printed(r, line) == Cardinality({i \in DOMAIN out[r] : out[r][i] = line})

(* The lines of a session keep their causal order whatever the two tasks    *)
(* and the other runs do: session.started first, a session.ended or error   *)
(* last and once, and no run ends before every round it recorded has been   *)
(* streamed (main.rs:5111-5117).                                            *)
StreamOrdered ==
    \A r \in RunIds : \A i \in DOMAIN out[r] :
        /\ (out[r][i] = "started") = (i = 1)
        /\ out[r][i] \in {"ended", "error"} =>
                /\ i = Len(out[r])
                /\ Printed(r, "round") = run[r].rounds

(* While the daemon reads commands, a run that is not over is in the        *)
(* registry, so approve, cancel and the final await reach it: pruning       *)
(* finished runs never drops one that still runs (main.rs:5143-5156).       *)
RunningIsTracked ==
    loop = "reading" =>
        \A r \in RunIds : Finished(r) \/ r \in registry
                          \/ command = [name |-> "prompt", id |-> r]

(* After a graceful exit no run was cut off, every session that this        *)
(* daemon started has its last line, and the bearer token is gone: the      *)
(* clones of the bus are released in time (main.rs:4784-4806).              *)
GracefulExit ==
    loop = "exited" =>
        /\ ~tokenFile
        /\ \A r \in RunIds :
            \/ run[r].at \in {"none", "dropped"}
            \/ /\ run[r].at = "finished"
               /\ out[r][Len(out[r])] \in {"ended", "error"}

(* A patch is applied without --apply only if the operator was told that    *)
(* the consent was granted, and the line says what happened.                *)
AppliedWasGranted ==
    \A r \in RunIds :
        /\ run[r].applied => ~run[r].blocked /\ (run[r].apply \/ r \in acked)
        /\ Printed(r, "applied") > 0 => run[r].applied
        /\ Printed(r, "discarded") > 0 => ~run[r].applied

(* status finds every run that one of its rounds left a checkpoint of,      *)
(* also after a kill and also if a later write fails, until its report is   *)
(* saved; it lists no run whose report was saved, and it shows an approval  *)
(* only for a run whose consent was granted (main.rs:5343-5379).  A run all *)
(* of whose checkpoint writes failed is not found: the loop logs each and   *)
(* goes on (nerve-core lib.rs:577-583).                                     *)
StatusFindsRuns ==
    /\ \A r \in RunIds : r \in inFlight <=> run[r].kept /\ ~run[r].saved
    /\ approvals \subseteq acked

(* What the daemon says of its runs is true and in order, however the       *)
(* read loop, the run tasks and their streamers interleave with approve,    *)
(* cancel, the end of the input and a kill (main.rs:4661-5160).             *)
DaemonOrderly ==
    /\ DaemonTypeOK
    /\ StreamOrdered
    /\ RunningIsTracked
    /\ GracefulExit
    /\ AppliedWasGranted
    /\ StatusFindsRuns

(* No consumer of the stream is left waiting: every session that was        *)
(* announced has ended, and after the end of its input the daemon is gone   *)
(* (main.rs:4784-4806).                                                     *)
SessionsOver ==
    /\ \A r \in RunIds : out[r] # <<>> => Finished(r)
    /\ loop \notin {"awaiting", "closing"}
=============================================================================
