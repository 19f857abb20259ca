---------------------------- MODULE CheckLimits -----------------------------
(***************************************************************************)
(* The resource limits of a goal check (nerve-core ulimit.rs, cgroup.rs    *)
(* and GoalEvaluator::spawn_and_wait): what the operator is told about     *)
(* limits that will not hold, the cgroup that is made for the check, and   *)
(* the pre_exec hooks that join it and call setrlimit between fork and     *)
(* exec.  A limit that may be absent is a set of at most one number.       *)
(***************************************************************************)
EXTENDS Naturals, Sequences

VARIABLES
    order,   \* fixed: check_ulimit, the limits of Nerve itself, the host
    hooks    \* how far the spawn is, and what holds for the child

limitVars == <<order, hooks>>

(* The fields of CheckUlimit, in the order in which apply_ulimit sets them. *)
Fields == <<"nproc", "address_space_bytes", "file_size_bytes", "cpu_secs">>
FieldNames == {Fields[i] : i \in DOMAIN Fields}
Controllers == {"nproc", "address_space_bytes"}   \* pids.max, memory.max

(* The cgroup base: NERVE_CGROUP_PARENT is set, it is a directory of a     *)
(* cgroup v2 file system, and the controllers it hands down.               *)
Bases == [asked : BOOLEAN, cgroup2 : BOOLEAN, delegated : SUBSET Controllers]

Orders(specs, inherited, bases) ==
    [spec : specs, inherited : inherited, os : {"linux", "macos"},
     base : bases]

LimitInit(orders) ==
    /\ order \in orders
    /\ hooks = [at |-> "order", next |-> 1, group |-> "none", caps |-> {},
                joined |-> FALSE, inForce |-> order.inherited, noted |-> {}]

-----------------------------------------------------------------------------
is_empty(spec) == \A n \in FieldNames : spec[n] = {}
validate_limits(spec) == \A n \in FieldNames : 0 \notin spec[n]

unenforced_notes(spec) ==
    IF order.os = "macos" /\ spec["nproc"] # {} THEN {"nproc"} ELSE {}

(* run_report_with_overrides passes on limits that are not all absent, and *)
(* GoalEvaluator::with_options refuses a limit of zero.                    *)
OrderCheck ==
    /\ hooks.at = "order"
    /\ hooks' = [hooks EXCEPT !.at =
                    IF is_empty(order.spec) THEN "running"
                    ELSE IF validate_limits(order.spec) THEN "warn"
                    ELSE "refused"]
    /\ UNCHANGED order

(* The warnings before the spawn. *)
WarnUnenforced ==
    /\ hooks.at = "warn"
    /\ hooks' = [hooks EXCEPT !.at = "prepare",
                              !.noted = unenforced_notes(order.spec)]
    /\ UNCHANGED order

(* prepare_with_base: limits the cgroup layer knows, and an operator who   *)
(* asked for it; anything that then fails is noted.                        *)
Wanted == {n \in Controllers : order.spec[n] # {}}
Requested == order.os = "linux" /\ Wanted # {} /\ order.base.asked

PrepareInert ==
    /\ hooks.at = "prepare" /\ ~Requested
    /\ hooks' = [hooks EXCEPT !.at = "set"]
    /\ UNCHANGED order

PrepareDegrades ==
    /\ hooks.at = "prepare" /\ Requested
    /\ hooks' = [hooks EXCEPT !.at = "set", !.noted = @ \cup {"cgroup"}]
    /\ UNCHANGED order

CreateGroup ==
    /\ hooks.at = "prepare" /\ Requested /\ order.base.cgroup2
    /\ hooks' = [hooks EXCEPT !.at = "configure", !.group = "made"]
    /\ UNCHANGED order

(* pids.max, then memory.max, then cgroup.procs is opened.  A write fails  *)
(* without a delegated controller, or for any other reason; then the       *)
(* half-made cgroup is removed, if the system lets it be: an error of that *)
(* is ignored.                                                             *)
NextController ==
    IF "nproc" \in Wanted \ hooks.caps THEN "nproc" ELSE "address_space_bytes"

ConfigureGroup(works, removed) ==
    /\ hooks.at = "configure"
    /\ hooks' =
        IF works /\ Wanted = hooks.caps THEN [hooks EXCEPT !.at = "join"]
        ELSE IF works /\ NextController \in order.base.delegated
        THEN [hooks EXCEPT !.caps = @ \cup {NextController}]
        ELSE [hooks EXCEPT !.at = "set", !.caps = {}, !.noted = @ \cup {"cgroup"},
                           !.group = IF removed THEN "removed" ELSE "left"]
    /\ UNCHANGED order

(* CgroupGuard::teardown, when the guard is dropped: everything in the     *)
(* cgroup is killed and the directory removed, in a hundred and one        *)
(* attempts; if the last one fails too it stays, and a warning is logged.  *)
teardown(h, removed) ==
    IF h.group # "made" THEN h
    ELSE IF removed THEN [h EXCEPT !.group = "removed"]
    ELSE [h EXCEPT !.group = "left", !.noted = @ \cup {"leftover"}]

(* The spawn fails: the child never executes, the guard is dropped. *)
Refused(removed) == [teardown(hooks, removed) EXCEPT !.at = "refused"]

(* join_via_fd *)
JoinGroup(ok, removed) ==
    /\ hooks.at = "join"
    /\ hooks' = IF ok THEN [hooks EXCEPT !.at = "set", !.joined = TRUE]
                ELSE Refused(removed)
    /\ UNCHANGED order

(* apply_ulimit: validate, then setrlimit field by field.  A limit cannot  *)
(* be raised; macOS may refuse nproc at any value, which is let pass.      *)
SetLimit(privileged, removed) ==
    LET field == Fields[hooks.next]
        limit == CHOOSE l \in order.spec[field] : TRUE
        taken == /\ limit <= hooks.inForce[field]
                 /\ order.os = "macos" /\ field = "nproc" => privileged
    IN  /\ hooks.at = "set" /\ hooks.next <= Len(Fields)
        /\ hooks' =
            IF ~validate_limits(order.spec) THEN Refused(removed)
            ELSE IF order.spec[field] = {}
            THEN [hooks EXCEPT !.next = @ + 1]
            ELSE IF taken
            THEN [hooks EXCEPT !.next = @ + 1, !.inForce[field] = limit]
            ELSE IF order.os = "macos" /\ field = "nproc"
            THEN [hooks EXCEPT !.next = @ + 1]
            ELSE Refused(removed)
        /\ UNCHANGED order

ExecCheck ==
    /\ hooks.at = "set" /\ hooks.next > Len(Fields)
    /\ hooks' = [hooks EXCEPT !.at = "running"]
    /\ UNCHANGED order

(* The check is over and the guard is dropped. *)
DropGuard(removed) ==
    /\ hooks.at = "running"
    /\ hooks' = [teardown(hooks, removed) EXCEPT !.at = "over"]
    /\ UNCHANGED order

LimitNext ==
    \/ OrderCheck \/ WarnUnenforced \/ PrepareInert \/ PrepareDegrades
    \/ CreateGroup \/ ExecCheck
    \/ \E b, removed \in BOOLEAN :
          \/ ConfigureGroup(b, removed) \/ JoinGroup(b, removed)
          \/ SetLimit(b, removed) \/ DropGuard(removed)

-----------------------------------------------------------------------------
(* A check's command never runs with a limit that was asked for and does   *)
(* not hold, unless the operator was told: each field is in force or       *)
(* noted, the aggregate caps hold for a child inside the cgroup or their   *)
(* absence is noted, and no limit is ever looser than Nerve's own.  When   *)
(* the check is over or was refused, no cgroup is in use.  Its directory   *)
(* may be there still, for its removal may fail: that was warned of if the *)
(* cgroup was ever ready, and if it was only half made, it was noted that  *)
(* there is none (goal.rs:313-384, cgroup.rs:87-240, ulimit.rs:76-160).    *)
LimitsHold ==
    /\ hooks.at = "running" =>
        /\ \A n \in FieldNames :
            /\ hooks.inForce[n] <= order.inherited[n]
            /\ order.spec[n] = {} => hooks.inForce[n] = order.inherited[n]
            /\ order.spec[n] # {} =>
                hooks.inForce[n] \in order.spec[n] \ {0} \/ n \in hooks.noted
        /\ Requested => \/ "cgroup" \in hooks.noted
                        \/ hooks.joined /\ hooks.caps = Wanted
    /\ hooks.at \in {"refused", "over"} => hooks.group # "made"
    /\ hooks.group = "left" =>
        "leftover" \in hooks.noted \/ ("cgroup" \in hooks.noted /\ ~hooks.joined)
    /\ hooks.joined => hooks.caps = Wanted
=============================================================================
