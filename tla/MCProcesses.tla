----------------------------- MODULE MCProcesses ----------------------------
(***************************************************************************)
(* What Nerve does with other processes: git worktrees, the tasks of the   *)
(* daemon, the RPC bus, supervised children and MCP servers.  They share   *)
(* no state, so that each history follows one of them and leaves the       *)
(* others as they start.                                                   *)
(***************************************************************************)
EXTENDS Worktree, RpcDaemon, RpcBus, ChildRun, McpClient
LOCAL INSTANCE TLC

VARIABLE focus   \* the component a history is about

processVars == <<worktreeVars, daemonVars, busVars, childVars, mcpVars, focus>>

CONSTANTS r1, r2, file1, file2   \* the runs and the files of the main tree

(* Two runs that patch different files. *)
MCTarget == r1 :> file1 @@ r2 :> file2

(* One run of two rounds, one of one. *)
MCLastRound == "long" :> 2 @@ "short" :> 1

(* The checkpoint of the first of two rounds may fail to be written: the   *)
(* run may end with that round, or write a later one.                      *)
MCUnwritten == {<<"long", 1>>}

-----------------------------------------------------------------------------
(* Children that do much under one plain configuration: a check in a       *)
(* cgroup and a generation.  And children that do nothing but touch things, *)
(* under every sandbox configuration, on the hosts that differ in what is  *)
(* decided: Landlock, seccomp and the helper are Linux's.                  *)
Off == [mode |-> "off", network |-> FALSE, strict |-> FALSE,
        landlock |-> FALSE, seccomp |-> FALSE, ulimit |-> TRUE]
Linux == [os |-> "linux", backend |-> "confines", exe |-> TRUE,
          landlock |-> "Full", seccomp |-> TRUE]

Setup(kind, config, host, retries) ==
    [kind |-> kind, config |-> config, host |-> host, retries |-> retries]

BusySetups ==
    {[setup |-> Setup(kind, Off, Linux, 2), acts |-> 4] :
        kind \in {"check", "generation"}}
    \cup {[setup |-> Setup("generation", Off, Linux, n), acts |-> 0] :
        n \in {0, 50}}
QuietSetups ==
    {[setup |-> Setup("check", config, host, 0), acts |-> 0] :
        config \in {c \in SandboxConfigs : ~c.ulimit},
        host \in {h \in Hosts : /\ h.landlock \in {"Full", "Partial"}
                                /\ h.seccomp
                                /\ h.os # "linux" => h.exe
                                        /\ h.landlock = "Full"}}
    \cup {[setup |-> Setup("check", Off, [Linux EXCEPT !.os = "other"], 0),
           acts |-> 0]}
OneSetup == {[setup |-> Setup("check", Off, Linux, 0), acts |-> 0]}

-----------------------------------------------------------------------------
Watch(component) == focus = component /\ UNCHANGED focus

MCInit ==
    /\ focus \in {"worktree", "daemon", "token", "fan-out", "child", "mcp"}
    /\ WorktreeInit /\ DaemonInit /\ BusInit /\ McpInit
    /\ ChildInit(IF focus = "child" THEN BusySetups \cup QuietSetups
                 ELSE OneSetup)
    /\ focus # "daemon" => flags = [apply |-> FALSE, once |-> FALSE]

MCNext ==
    \/ /\ Watch("worktree") /\ WorktreeNext
       /\ UNCHANGED <<daemonVars, busVars, childVars, mcpVars>>
    \/ /\ Watch("daemon") /\ DaemonNext
       /\ UNCHANGED <<worktreeVars, busVars, childVars, mcpVars>>
    \/ /\ Watch("token") /\ TokenNext
       /\ UNCHANGED <<worktreeVars, daemonVars, childVars, mcpVars>>
    \/ /\ Watch("fan-out") /\ FanOutNext
       /\ UNCHANGED <<worktreeVars, daemonVars, childVars, mcpVars>>
    \/ /\ Watch("child") /\ ChildNext
       /\ UNCHANGED <<worktreeVars, daemonVars, busVars, mcpVars>>
    \/ /\ Watch("mcp") /\ McpNext
       /\ UNCHANGED <<worktreeVars, daemonVars, busVars, childVars>>

(* The fairness each module states, for the component that is followed. *)
MCFairness ==
    /\ \A r \in Runs : WF_worktreeVars(focus = "worktree" /\ RunStep(r))
    /\ \A r \in RunIds :
        /\ WF_daemonVars(focus = "daemon" /\ RunTask(r))
        /\ WF_daemonVars(focus = "daemon" /\ StreamRound(r))
    /\ WF_daemonVars(focus = "daemon" /\ FinishCommand)
    /\ WF_daemonVars(focus = "daemon" /\ Shutdown)
    /\ WF_childVars(focus = "child" /\ NerveStep)
    /\ WF_childVars(focus = "child" /\ DrainTimesOut)
    /\ WF_mcpVars(focus = "mcp" /\ ClientStep)
    /\ \A t \in Tasks : WF_mcpVars(focus = "mcp" /\
            (CallStep(t) \/ CallTimesOut(t)))

MCSpec == MCInit /\ [][MCNext]_processVars /\ MCFairness

(* Nothing keeps Nerve waiting: the worktree runs end, the sessions of a   *)
(* daemon end and the daemon exits, a child comes to a result and the MCP  *)
(* calls come back, again and again, under the fairness of tasks, timers   *)
(* and git commands that return (worktree.rs:626-644, main.rs:4784-4806,   *)
(* adapter lib.rs:425-480, mcp.rs:395-487).                                *)
NothingHangs ==
    []<>(/\ focus = "worktree" => RunsOver
         /\ focus = "daemon" => SessionsOver
         /\ focus = "child" => ChildOver
         /\ focus = "mcp" => CallsOver)
=============================================================================
