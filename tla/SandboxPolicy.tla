---------------------------- MODULE SandboxPolicy ---------------------------
(***************************************************************************)
(* How nerve-core confines a goal check (sandbox.rs): the decision for a   *)
(* configuration and a host, the argument list that hands the decision to  *)
(* the in-jail helper `nv __nv-confine`, and what a check started that way *)
(* may touch.  The backends themselves (Seatbelt, bubblewrap, Landlock,    *)
(* seccomp) are external: a host says whether its backend is missing,      *)
(* fails to start, starts without confining, or confines.                  *)
(***************************************************************************)
EXTENDS Naturals, Sequences

Modes == {"off", "auto", "required"}
SandboxConfigs == [mode : Modes, network : BOOLEAN, strict : BOOLEAN,
                   landlock : BOOLEAN, seccomp : BOOLEAN, ulimit : BOOLEAN]
Hosts == [os : {"macos", "linux", "other"},
          backend : {"absent", "fails", "hollow", "confines"},
          exe : BOOLEAN,                  \* current_exe() resolves
          landlock : {"Full", "Partial", "None", "Error"},
          seccomp : BOOLEAN]

(* What a check can do that a policy is about. *)
Accesses == {"write_inside", "write_outside", "network", "read_secrets",
             "mount"}

-----------------------------------------------------------------------------
no_backend_decide(config) ==
    IF config.mode = "required" THEN "refuse" ELSE "unconfined"

confine_unresolved_helper_refuses(config) ==
    config.mode = "required" /\ config.landlock

(* Landlock and seccomp are applied by the helper, which is the nv binary. *)
HelperInserted(config, host) ==
    host.os = "linux" /\ (config.landlock \/ config.seccomp) /\ host.exe

seatbelt_decide(config, host) ==
    IF host.backend = "absent" THEN no_backend_decide(config) ELSE "wrap"
bwrap_decide(config, host) ==
    CASE host.backend = "absent" -> no_backend_decide(config)
      [] /\ host.backend # "absent" /\ ~host.exe
         /\ config.landlock \/ config.seccomp
         /\ confine_unresolved_helper_refuses(config) -> "refuse"
      [] OTHER -> "wrap"
decide(config, host) ==
    CASE config.mode = "off" -> "unconfined"
      [] config.mode # "off" /\ host.os = "macos" ->
            seatbelt_decide(config, host)
      [] config.mode # "off" /\ host.os = "linux" -> bwrap_decide(config, host)
      [] OTHER -> no_backend_decide(config)

-----------------------------------------------------------------------------
(* The helper's arguments: built outside the jail, parsed inside.          *)
confine_mode_token(mode) == IF mode = "required" THEN "required" ELSE "auto"

Flag(on, token) == IF on THEN <<token>> ELSE <<>>
RootFlags(roots) ==
    [i \in 1..(2 * Len(roots)) |->
        IF i % 2 = 1 THEN "--root" ELSE roots[i \div 2]]
build_confine_helper_argv(config, roots, cmd) ==
    <<"--mode", confine_mode_token(config.mode)>>
        \o Flag(config.landlock, "--landlock")
        \o Flag(config.seccomp, "--seccomp")
        \o (IF config.landlock THEN RootFlags(roots) ELSE <<>>)
        \o <<"--">> \o cmd

(* What the arguments from i on say, given what those after a flag and     *)
(* those after its value say.  Every flag at most once, a mode, a          *)
(* terminator and a command; anything else is malformed.                   *)
Malformed == [ok |-> FALSE]
EmptyWord == ""
ReadArg(tail, i, afterFlag, afterValue) ==
    CASE tail[i] = "--" ->
            [ok |-> TRUE, mode |-> "unset", landlock |-> FALSE,
             seccomp |-> FALSE, roots |-> <<>>,
             cmd |-> SubSeq(tail, i + 1, Len(tail))]
      [] tail[i] = "--mode" ->
            IF /\ i < Len(tail) /\ afterValue.ok
               /\ afterValue.mode = "unset"
               /\ tail[i + 1] \in {"required", "auto"}
            THEN [afterValue EXCEPT !.mode = tail[i + 1]] ELSE Malformed
      [] tail[i] = "--root" ->
            IF i < Len(tail) /\ afterValue.ok /\ tail[i + 1] # EmptyWord
            THEN [afterValue EXCEPT !.roots = <<tail[i + 1]>> \o @]
            ELSE Malformed
      [] tail[i] = "--landlock" ->
            IF afterFlag.ok /\ ~afterFlag.landlock
            THEN [afterFlag EXCEPT !.landlock = TRUE] ELSE Malformed
      [] tail[i] = "--seccomp" ->
            IF afterFlag.ok /\ ~afterFlag.seccomp
            THEN [afterFlag EXCEPT !.seccomp = TRUE] ELSE Malformed
      [] OTHER -> Malformed

parse_confine_args(tail) ==
    LET n == Len(tail)
        scan[i \in 1..(n + 2)] ==
            IF i > n THEN Malformed
            ELSE ReadArg(tail, i, scan[i + 1], scan[i + 2])
        spec == scan[1]
    IN  IF ~spec.ok \/ spec.mode = "unset" \/ spec.cmd = <<>>
        THEN Malformed ELSE spec

(* apply_landlock: what the kernel enforces of the roots.  apply_seccomp:  *)
(* whether the filter on mounting and the like is in place.                *)
apply_landlock(spec, host) == IF spec.landlock THEN host.landlock ELSE "off"
apply_seccomp(spec, host) == spec.seccomp /\ host.seccomp

(* run_confine_helper: refuses (exit 70) when the mode is required and     *)
(* Landlock is not fully enforced; otherwise runs the command, with the    *)
(* layers the kernel accepted.                                             *)
confine_should_refuse(required, enforcement) ==
    enforcement \notin {"off", "Full"} /\ required
run_confine_helper(spec, host) ==
    IF ~spec.ok THEN [runs |-> FALSE, denied |-> {}]
    ELSE IF confine_should_refuse(spec.mode = "required", apply_landlock(spec, host))
    THEN [runs |-> FALSE, denied |-> {}]
    ELSE [runs |-> TRUE,
          denied |-> (IF apply_landlock(spec, host) = "Full"
                      THEN {"write_outside"} ELSE {})
                  \cup (IF apply_seccomp(spec, host) THEN {"mount"} ELSE {})]

-----------------------------------------------------------------------------
(* seatbelt_profile and bwrap_args: writes only inside the roots, network  *)
(* on demand; Seatbelt's strict profile also hides secrets.                *)
seatbelt_profile(config) ==
    {"write_outside"}
        \cup (IF config.network THEN {} ELSE {"network"})
        \cup (IF config.strict THEN {"read_secrets"} ELSE {})
bwrap_args(config) ==
    {"write_outside"} \cup (IF config.network THEN {} ELSE {"network"})

Roots == <<"/work", "/tmp/nerve-check">>
CheckCmd == <<"sh", "--", "--mode">>

(* What happens to a command that is started under the decision: whether   *)
(* it runs at all, and what it is denied.                                  *)
Started(config, host) ==
    IF decide(config, host) = "unconfined"
    THEN [runs |-> TRUE, denied |-> {}]
    ELSE LET helper ==
                IF HelperInserted(config, host)
                THEN run_confine_helper(parse_confine_args(
                        build_confine_helper_argv(config, Roots, CheckCmd)),
                        host)
                ELSE [runs |-> TRUE, denied |-> {}]
             jail == IF host.os = "macos" THEN seatbelt_profile(config)
                     ELSE bwrap_args(config)
         IN  [runs |-> host.backend # "fails" /\ helper.runs,
              denied |-> helper.denied \cup
                         (IF host.backend = "confines" THEN jail ELSE {})]

Permitted(config, host) ==
    IF Started(config, host).runs
    THEN Accesses \ Started(config, host).denied ELSE {}

(* The canary of required mode writes one file inside its grant and one    *)
(* outside, through the same wrapper.                                      *)
canary_confined(config, host) ==
    /\ "write_outside" \notin Permitted(config, host)
    /\ "write_inside" \in Permitted(config, host)
=============================================================================
