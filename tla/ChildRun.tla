------------------------------ MODULE ChildRun ------------------------------
(***************************************************************************)
(* One supervised child process of Nerve: a model CLI that generates a     *)
(* reply (SubprocessAdapter::run_prompt) or a goal check                   *)
(* (GoalEvaluator::spawn_and_wait).  Nerve spawns it, drains both pipes    *)
(* under a timeout and an output cap, and awaits its exit; the child       *)
(* writes, forks, closes and exits when it likes.  One output chunk is one *)
(* unit; Cap is the output cap in those units.                             *)
(***************************************************************************)
EXTENDS SandboxPolicy, FiniteSets

CONSTANTS
    Cap,          \* max_output_bytes, output_cap
    PipeSize,     \* chunks an unread pipe holds
    MaxTouched    \* bound: different accesses of one check

ASSUME ChildAssumption ==
    Cap \in Nat \ {0} /\ PipeSize \in Nat \ {0} /\ MaxTouched \in Nat

MAX_SPAWN_RETRIES == 10
SPAWN_RETRY_BACKOFF_BASE == 50
SPAWN_RETRY_BACKOFF_MAX == 2000
SPAWN_RETRY_SHIFT_CAP == 16

VARIABLES
    setup,    \* fixed: the kind of child, the sandbox settings, the host
    stage,    \* where Nerve is
    tries,    \* failed spawns, and the time slept between them
    child,    \* the process: state, exit code, a descendant of its own
    io,       \* per stream: who holds the write end, chunks on the way
    group,    \* the check's cgroup
    touched,  \* history: what the check's command did
    result,   \* what the caller gets
    acts      \* bound: what the child may still do of its own accord

childVars == <<setup, stage, tries, child, io, group, touched, result, acts>>

Streams == {"stdout", "stderr"}
IsCheck == setup.kind = "check"
NoIo == [s \in Streams |-> [ends |-> {}, wrote |-> 0, unread |-> 0,
                            got |-> 0, drain |-> "open"]]

(* with_spawn_retries clamps what the configuration asks for. *)
spawn_retries(asked) ==
    IF asked > MAX_SPAWN_RETRIES THEN MAX_SPAWN_RETRIES ELSE asked

spawn_retry_backoff(attempt) ==
    LET shift == IF attempt > SPAWN_RETRY_SHIFT_CAP
                 THEN SPAWN_RETRY_SHIFT_CAP ELSE attempt
        delay == SPAWN_RETRY_BACKOFF_BASE * 2 ^ shift
    IN  IF delay > SPAWN_RETRY_BACKOFF_MAX THEN SPAWN_RETRY_BACKOFF_MAX
        ELSE delay

(* The setups and the freedom of the child are chosen by the instance. *)
ChildInit(setups) ==
    /\ \E s \in setups : setup = s.setup /\ acts = s.acts
    /\ stage = "start"
    /\ tries = [count |-> 0, slept |-> 0]
    /\ child = [state |-> "none", code |-> "none", fork |-> FALSE]
    /\ io = NoIo
    /\ group = "none"
    /\ touched = {}
    /\ result = "none"

(* Nerve returns r.  The cgroup guard is dropped: cgroup.kill, then the    *)
(* directory is removed.                                                   *)
Finish(r, c, i) ==
    /\ stage' = "done"
    /\ result' = r
    /\ group' = IF group = "active" THEN "removed" ELSE group
    /\ child' = IF group = "active" THEN [c EXCEPT !.fork = FALSE] ELSE c
    /\ io' = IF group = "active"
             THEN [s \in Streams |-> [i[s] EXCEPT !.ends = @ \ {"fork"}]]
             ELSE i

-----------------------------------------------------------------------------
(* spawn_and_wait up to the spawn: the private TMPDIR, the decision, the   *)
(* canary of required mode, the cgroup.                                    *)
BeginGeneration ==
    /\ stage = "start" /\ ~IsCheck
    /\ stage' = "spawn"
    /\ UNCHANGED <<setup, tries, child, io, group, touched, result, acts>>

BeginCheck ==
    /\ stage = "start" /\ IsCheck
    /\ \/ /\ decide(setup.config, setup.host) = "refuse"
          /\ Finish("fail", child, io)
       \/ /\ decide(setup.config, setup.host) # "refuse"
          /\ stage' = IF /\ decide(setup.config, setup.host) = "wrap"
                         /\ setup.config.mode = "required"
                      THEN "canary" ELSE "prepare"
          /\ UNCHANGED <<child, io, group, result>>
    /\ UNCHANGED <<setup, tries, touched, acts>>

PrivateTmpFails ==
    /\ stage = "start" /\ IsCheck /\ setup.config.mode # "off"
    /\ Finish("fail", child, io)
    /\ UNCHANGED <<setup, tries, touched, acts>>

(* verify_confinement; a canary that times out counts as not confined. *)
VerifyConfinement(timely) ==
    /\ stage = "canary"
    /\ IF timely /\ canary_confined(setup.config, setup.host)
       THEN stage' = "prepare" /\ UNCHANGED <<child, io, group, result>>
       ELSE Finish("fail", child, io)
    /\ UNCHANGED <<setup, tries, touched, acts>>

(* cgroup::prepare is best effort; limits on a platform without them fail. *)
PrepareLimits(usable) ==
    /\ stage = "prepare"
    /\ \/ /\ setup.config.ulimit /\ setup.host.os = "other"
          /\ Finish("fail", child, io)
       \/ /\ ~(setup.config.ulimit /\ setup.host.os = "other")
          /\ stage' = "spawn"
          /\ group' = IF /\ setup.config.ulimit /\ setup.host.os = "linux"
                         /\ usable
                      THEN "active" ELSE "none"
          /\ UNCHANGED <<child, io, result>>
    /\ UNCHANGED <<setup, tries, touched, acts>>

(* spawn(2), with the pre_exec hooks that join the cgroup and set limits.  *)
SpawnChild ==
    /\ stage = "spawn"
    /\ stage' = "drain"
    /\ child' = [state |-> IF IsCheck /\ ~Started(setup.config, setup.host).runs
                           THEN "stuck" ELSE "running",
                 code |-> "none", fork |-> FALSE]
    /\ io' = [s \in Streams |-> [NoIo[s] EXCEPT !.ends = {"child"}]]
    /\ UNCHANGED <<setup, tries, group, touched, result, acts>>

(* spawn_with_retry for a generation; a check tries once. *)
SpawnFails(transient) ==
    /\ stage = "spawn"
    /\ IF ~IsCheck /\ transient /\ tries.count < spawn_retries(setup.retries)
       THEN /\ tries' = [count |-> tries.count + 1, slept |->
                            tries.slept + spawn_retry_backoff(tries.count)]
            /\ UNCHANGED <<stage, child, io, group, result>>
       ELSE /\ Finish("fail", child, io)
            /\ UNCHANGED tries
    /\ UNCHANGED <<setup, touched, acts>>

-----------------------------------------------------------------------------
(* drain_stream and read_capped.  An overflow ends a generation at once    *)
(* (try_join); a check drops that reader and drains the other stream on.   *)
ReadChunk(s) ==
    /\ stage = "drain" /\ io[s].drain = "open" /\ io[s].unread > 0
    /\ IF io[s].got + 1 > Cap
       THEN /\ io' = [io EXCEPT ![s].drain = "over"]
            /\ stage' = IF IsCheck THEN stage ELSE "kill"
            /\ result' = IF IsCheck THEN result ELSE "too_large"
       ELSE /\ io' = [io EXCEPT ![s].unread = @ - 1, ![s].got = @ + 1]
            /\ UNCHANGED <<stage, result>>
    /\ UNCHANGED <<setup, tries, child, group, touched, acts>>

ReadEof(s) ==
    /\ stage = "drain" /\ io[s].drain = "open"
    /\ io[s].unread = 0 /\ io[s].ends = {}
    /\ io' = [io EXCEPT ![s].drain = "eof"]
    /\ UNCHANGED <<setup, stage, tries, child, group, touched, result, acts>>

(* Mutation: only a generation is drained under the timeout. *)
DrainTimesOut_Generation ==
    /\ stage = "drain" /\ ~IsCheck
    /\ \E s \in Streams : io[s].drain = "open"
    /\ stage' = "kill"
    /\ result' = "timeout"
    /\ UNCHANGED <<setup, tries, child, io, group, touched, acts>>

(* The timeout around both drains. *)
DrainTimesOut ==
    /\ stage = "drain"
    /\ \E s \in Streams : io[s].drain = "open"
    /\ stage' = "kill"
    /\ result' = "timeout"
    /\ UNCHANGED <<setup, tries, child, io, group, touched, acts>>

(* Both drains are done: the exit status is awaited, without a timeout. *)
DrainsEnd ==
    /\ stage = "drain"
    /\ \A s \in Streams : io[s].drain # "open"
    /\ stage' = "wait"
    /\ UNCHANGED <<setup, tries, child, io, group, touched, result, acts>>

ReturnStatus ==
    /\ stage = "wait" /\ child.state = "exited"
    /\ LET over == \E s \in Streams : io[s].drain = "over"
       IN  Finish(IF over \/ child.code # "ok" THEN "fail"
                  ELSE IF IsCheck THEN "pass" ELSE "text", child, io)
    /\ UNCHANGED <<setup, tries, touched, acts>>

(* start_kill and wait: the child dies and is reaped, not its descendants. *)
Killed(c) == IF c.state = "exited" THEN c
             ELSE [c EXCEPT !.state = "exited", !.code = "killed"]
WithoutChild(i) == [s \in Streams |-> [i[s] EXCEPT !.ends = @ \ {"child"}]]

(* Mutation: an overflow or a timeout returns without the kill. *)
KillAndReap_Leave ==
    /\ stage = "kill"
    /\ Finish(result, child, io)
    /\ UNCHANGED <<setup, tries, touched, acts>>

KillAndReap ==
    /\ stage = "kill"
    /\ Finish(result, Killed(child), WithoutChild(io))
    /\ UNCHANGED <<setup, tries, touched, acts>>

(* The generation's future is dropped: kill_on_drop. *)
DropGeneration ==
    /\ ~IsCheck /\ stage \in {"spawn", "drain", "kill", "wait"}
    /\ Finish("dropped", IF child.state = "none" THEN child ELSE Killed(child),
              WithoutChild(io))
    /\ UNCHANGED <<setup, tries, touched, acts>>

-----------------------------------------------------------------------------
(* The child.  One whose command was refused or whose jail did not start   *)
(* ("stuck") only exits, with an error.                                    *)
ChildWrites(s) ==
    /\ child.state = "running" /\ "child" \in io[s].ends
    /\ acts > 0 /\ io[s].unread < PipeSize
    /\ io' = [io EXCEPT ![s].wrote = @ + 1, ![s].unread = @ + 1]
    /\ acts' = acts - 1
    /\ UNCHANGED <<setup, stage, tries, child, group, touched, result>>

ChildForks ==
    /\ child.state = "running" /\ ~child.fork /\ acts > 0
    /\ child' = [child EXCEPT !.fork = TRUE]
    /\ io' = [s \in Streams |-> [io[s] EXCEPT !.ends =
                IF "child" \in @ THEN @ \cup {"fork"} ELSE @]]
    /\ acts' = acts - 1
    /\ UNCHANGED <<setup, stage, tries, group, touched, result>>

ForkEnds ==
    /\ child.fork
    /\ child' = [child EXCEPT !.fork = FALSE]
    /\ io' = [s \in Streams |-> [io[s] EXCEPT !.ends = @ \ {"fork"}]]
    /\ UNCHANGED <<setup, stage, tries, group, touched, result, acts>>

ChildTouches(a) ==
    /\ child.state = "running" /\ IsCheck
    /\ Cardinality(touched) < MaxTouched
    /\ a \in Permitted(setup.config, setup.host) \ touched
    /\ touched' = touched \cup {a}
    /\ UNCHANGED <<setup, stage, tries, child, io, group, result, acts>>

ChildCloses ==
    /\ child.state = "running" /\ acts > 0
    /\ io' = WithoutChild(io)
    /\ acts' = acts - 1
    /\ UNCHANGED <<setup, stage, tries, child, group, touched, result>>

ChildExits(code) ==
    /\ child.state \in {"running", "stuck"}
    /\ child.state = "stuck" => code = "error"
    /\ child' = [child EXCEPT !.state = "exited", !.code = code]
    /\ io' = WithoutChild(io)
    /\ UNCHANGED <<setup, stage, tries, group, touched, result, acts>>

ChildStep ==
    \/ \E s \in Streams : ChildWrites(s)
    \/ ChildForks \/ ForkEnds \/ ChildCloses
    \/ \E a \in Accesses : ChildTouches(a)
    \/ \E code \in {"ok", "error"} : ChildExits(code)

NerveStep ==
    \/ BeginGeneration \/ BeginCheck \/ PrivateTmpFails
    \/ \E timely \in BOOLEAN : VerifyConfinement(timely)
    \/ \E usable \in BOOLEAN : PrepareLimits(usable)
    \/ SpawnChild
    \/ \E transient \in BOOLEAN : SpawnFails(transient)
    \/ \E s \in Streams : ReadChunk(s) \/ ReadEof(s)
    \/ DrainsEnd \/ DrainTimesOut \/ ReturnStatus \/ KillAndReap

ChildNext == NerveStep \/ DropGeneration \/ ChildStep

(* Nerve's task is polled whenever it can go on, and its timer fires.      *)
ChildFairness == WF_childVars(NerveStep) /\ WF_childVars(DrainTimesOut)

-----------------------------------------------------------------------------
ChildTypeOK ==
    /\ stage \in {"start", "canary", "prepare", "spawn", "drain", "kill",
                  "wait", "done"}
    /\ tries.count \in Nat /\ tries.slept \in Nat
    /\ child \in [state : {"none", "stuck", "running", "exited"},
                  code : {"none", "ok", "error", "killed"}, fork : BOOLEAN]
    /\ \A s \in Streams : io[s] \in
        [ends : SUBSET {"child", "fork"}, wrote : Nat, unread : 0..PipeSize,
         got : 0..Cap, drain : {"open", "eof", "over"}]
    /\ group \in {"none", "active", "removed"}
    /\ touched \subseteq Accesses
    /\ result \in {"none", "fail", "text", "pass", "timeout", "too_large",
                   "dropped"}

(* Once the caller has a result the child is gone, however it ended:       *)
(* overflow, timeout, a dropped future.  A check that ran in a cgroup      *)
(* leaves no descendant either, and no cgroup directory.                   *)
NoStrayChild ==
    stage = "done" =>
        /\ child.state \in {"none", "exited"}
        /\ group # "active"
        /\ group = "removed" => ~child.fork

(* A generation's text, and a check's pass, are never partial: the child   *)
(* exited with success and every chunk it wrote was read, within the cap.  *)
AnswerIsWhole ==
    result \in {"text", "pass"} =>
        /\ child.code = "ok"
        /\ \A s \in Streams : io[s].got = io[s].wrote /\ io[s].got <= Cap

(* With sandbox.mode=required, the check's command never writes outside    *)
(* its roots, and reaches the network only where that is allowed, whatever *)
(* the host's backend turns out to do.  (A backend that confines writes    *)
(* confines the network too: the canary only tries a write.)               *)
RequiredMeansConfined ==
    IsCheck /\ setup.config.mode = "required" =>
        /\ "write_outside" \notin touched
        /\ setup.host.backend = "confines" /\ ~setup.config.network =>
                "network" \notin touched

(* The in-jail helper reads back exactly the confinement that was decided. *)
HelperGetsTheDecision ==
    IsCheck =>
        parse_confine_args(build_confine_helper_argv(setup.config, Roots,
                                                     CheckCmd)) =
            [ok |-> TRUE, mode |-> confine_mode_token(setup.config.mode),
             landlock |-> setup.config.landlock,
             seccomp |-> setup.config.seccomp,
             roots |-> IF setup.config.landlock THEN Roots ELSE <<>>,
             cmd |-> CheckCmd]

(* Spawn retries happen outside the timeout, so they are bounded by        *)
(* themselves, whatever number the configuration asks for.                 *)
SpawnWaitBounded ==
    /\ tries.count <= MAX_SPAWN_RETRIES
    /\ tries.slept <= 12000

(* A child is gone when its caller has the result, a result is whole or an *)
(* error, a required sandbox confines, and the retries are bounded,        *)
(* whatever the child does (adapter lib.rs:368-497, goal.rs:157-440).      *)
ChildSupervised ==
    /\ ChildTypeOK
    /\ NoStrayChild
    /\ AnswerIsWhole
    /\ RequiredMeansConfined
    /\ HelperGetsTheDecision
    /\ SpawnWaitBounded

(* The supervised child has come to a result, or Nerve is in the one wait  *)
(* that the timeout does not cover: both pipes are done with and the child *)
(* runs on (goal.rs:411).                                                  *)
ChildOver == stage = "done" \/ (stage = "wait" /\ child.state = "running")
=============================================================================
