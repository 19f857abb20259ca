--------------------------- MODULE ProcessProofs ---------------------------
(***************************************************************************)
(* Proofs about what Nerve does with other processes: the client of an MCP *)
(* server, for any number of calling tasks and any behaviour of the        *)
(* server; the supervised child, for every cap and setup; and the worktree *)
(* a patch is tried in, for every set of runs and files and every bound on *)
(* writes, faults and kills.                                               *)
(***************************************************************************)
EXTENDS McpClient, ChildRun, Worktree, SequenceTheorems, WellFoundedInduction,
        TLAPS

-----------------------------------------------------------------------------
(***************************************************************************)
(* The MCP client                                                          *)
(***************************************************************************)
(* A call between its entry in the pending table and its return. *)
Open(t) == call[t].step \in {"writes", "waits"}

(* Two open calls never have the same id, and ids are given out in order:  *)
(* the reply to one call cannot be taken for another's.                    *)
IdsDistinct ==
    /\ \A t \in Tasks : Open(t) => call[t].id \in 1..(nextId - 1)
    /\ \A t, u \in Tasks : Open(t) /\ Open(u) /\ t # u
                              => call[t].id # call[u].id

(* A call that has not sent its request yet carries no outcome. *)
FreshCalls ==
    \A t \in Tasks : call[t].step \in {"request", "initialize", "tools"}
                        => call[t].outcome = "none"

(* What was read from the server is what the server wrote. *)
AnswersReplied == answers \subseteq replied

(* Without a process there is nothing to wait for. *)
NothingBeforeStart ==
    process = "none" => /\ server = "none"
                        /\ \A t \in Tasks : call[t].step \in {"idle", "over"}

(* The order of shutdown: the writer goes first, so that no call can begin *)
(* to wait afterwards; then the process; then the table.                   *)
ShutdownOrder ==
    /\ closing \in {"take", "grace", "drain", "done"} => ~writer
    /\ process = "taken" => closing \in {"grace", "drain", "done"}
    /\ closing \in {"grace", "drain"} => process = "taken"
    /\ closing \in {"drain", "done"} /\ process # "none" => server = "dead"
    /\ closing = "done" => process # "held"

McpInv ==
    /\ McpExchangeSound
    /\ IdsDistinct /\ FreshCalls /\ AnswersReplied
    /\ NothingBeforeStart /\ ShutdownOrder

-----------------------------------------------------------------------------

(* Every step keeps the types: no id is used before it was given out. *)
LEMMA McpTypeNext ==
    ASSUME McpInv, [McpNext]_mcpVars PROVE McpTypeOK'
<1> DEFINE N == 0..(nextId - 1)
<1> DEFINE Call == [step : CallSteps, id : N, given : N, outcome : Outcomes]
<1>a. /\ call \in [Tasks -> Call] /\ nextId \in Nat \ {0}
      /\ pending \cup asked \cup answers \cup replied \subseteq 1..(nextId - 1)
      /\ 0 \in N /\ Starter \in Tasks /\ Callers \subseteq Tasks
  BY DEF McpInv, McpExchangeSound, McpTypeOK, Tasks
<1>b. /\ CallSteps = {"idle", "request", "initialize", "tools", "writes",
                       "waits", "returns", "over"}
      /\ Outcomes = {"none", "ok", "error", "timeout"}
  BY DEF CallSteps, Outcomes
<1>c. /\ NotCalling \in Call /\ Ended \in Call
      /\ [NotCalling EXCEPT !.step = "tools"] \in Call
      /\ [NotCalling EXCEPT !.step = "request"] \in Call
  BY <1>a, <1>b DEF NotCalling, Ended
<1> HIDE DEF N
<1>1. ASSUME NEW t \in Tasks, InsertPending(t) PROVE McpTypeOK'
  <2> DEFINE M == 0..nextId
  <2> DEFINE Call2 == [step : CallSteps, id : M, given : M, outcome : Outcomes]
  <2>1. N \subseteq M /\ nextId \in M
    BY <1>a DEF N
  <2> HIDE DEF M
  <2>2. call \in [Tasks -> Call2]
    BY <1>a, <2>1
  <2>3. call' \in [Tasks -> Call2]
    <3>1. /\ call' = [call EXCEPT ![t].step = "writes", ![t].id = nextId]
          /\ "writes" \in CallSteps
      BY <1>1, <1>b DEF InsertPending
    <3> QED
      BY <2>1, <2>2, <3>1
  <2>4. nextId' = nextId + 1 /\ M = 0..(nextId' - 1)
    BY <1>1, <1>a DEF InsertPending, M
  <2> QED
    BY <1>1, <1>a, <2>3, <2>4
       DEF InsertPending, McpInv, McpExchangeSound, McpTypeOK
<1>2. ASSUME NEW t \in Tasks, CallReturns(t) PROVE McpTypeOK'
  <2>1. call' \in [Tasks -> Call]
    BY <1>2, <1>a, <1>b, <1>c DEF CallReturns
  <2> QED
    BY <1>2, <2>1, <1>a DEF CallReturns, McpInv, McpExchangeSound, McpTypeOK, N
<1>3. ASSUME NEW t \in Tasks, NEW gone \in BOOLEAN, WriteLine(t, gone) PROVE McpTypeOK'
  <2>0. call[t].id \in 1..(nextId - 1)
    BY <1>3 DEF WriteLine, McpInv, IdsDistinct, Open
  <2>1. call' \in [Tasks -> Call]
    BY <1>3, <1>a, <1>b, <1>c DEF WriteLine
  <2> QED
    BY <1>3, <2>0, <2>1, <1>a DEF WriteLine, McpInv, McpExchangeSound, McpTypeOK, N
<1>4. ASSUME NEW id \in answers, NEW outcome \in {"ok", "error"},
            DispatchIncoming(id, outcome) PROVE McpTypeOK'
  <2>0. id \in N
    BY <1>4, <1>a DEF N
  <2>1. call' \in [Tasks -> Call]
    BY <1>4, <2>0, <1>a, <1>b, <1>c DEF DispatchIncoming
  <2> QED
    BY <1>4, <2>1, <1>a DEF DispatchIncoming, McpInv, McpExchangeSound, McpTypeOK, N
<1>5. ASSUME ReaderEnds PROVE McpTypeOK'
  <2>1. call' \in [Tasks -> Call]
    BY <1>5, <1>a, <1>b, <1>c DEF ReaderEnds, Fail
  <2> QED
    BY <1>5, <2>1, <1>a DEF ReaderEnds, Fail, McpInv, McpExchangeSound, McpTypeOK, N
<1>6. ASSUME DropWriter PROVE McpTypeOK'
  <2>1. call' \in [Tasks -> Call]
    BY <1>6, <1>a, <1>b, <1>c DEF DropWriter
  <2> QED
    BY <1>6, <2>1, <1>a DEF DropWriter, McpInv, McpExchangeSound, McpTypeOK, N
<1>7. ASSUME TakeProcess PROVE McpTypeOK'
  <2>1. call' \in [Tasks -> Call]
    BY <1>7, <1>a, <1>b, <1>c DEF TakeProcess
  <2> QED
    BY <1>7, <2>1, <1>a DEF TakeProcess, McpInv, McpExchangeSound, McpTypeOK, N
<1>8. ASSUME ServerGone PROVE McpTypeOK'
  <2>1. call' \in [Tasks -> Call]
    BY <1>8, <1>a, <1>b, <1>c DEF ServerGone
  <2> QED
    BY <1>8, <2>1, <1>a DEF ServerGone, McpInv, McpExchangeSound, McpTypeOK, N
<1>9. ASSUME DrainPending PROVE McpTypeOK'
  <2>1. call' \in [Tasks -> Call]
    BY <1>9, <1>a, <1>b, <1>c DEF DrainPending, Fail
  <2> QED
    BY <1>9, <2>1, <1>a DEF DrainPending, Fail, McpInv, McpExchangeSound, McpTypeOK, N
<1>10. ASSUME StartServer PROVE McpTypeOK'
  <2>1. call' \in [Tasks -> Call]
    BY <1>10, <1>a, <1>b, <1>c DEF StartServer
  <2> QED
    BY <1>10, <2>1, <1>a DEF StartServer, McpInv, McpExchangeSound, McpTypeOK, N
<1>11. ASSUME SpawnRefused PROVE McpTypeOK'
  <2>1. call' \in [Tasks -> Call]
    BY <1>11, <1>a, <1>b, <1>c DEF SpawnRefused
  <2> QED
    BY <1>11, <2>1, <1>a DEF SpawnRefused, McpInv, McpExchangeSound, McpTypeOK, N
<1>12. ASSUME BeginShutdown PROVE McpTypeOK'
  <2>1. call' \in [Tasks -> Call]
    BY <1>12, <1>a, <1>b, <1>c DEF BeginShutdown
  <2> QED
    BY <1>12, <2>1, <1>a DEF BeginShutdown, McpInv, McpExchangeSound, McpTypeOK, N
<1>13. ASSUME NEW t \in Callers, CallTool(t) PROVE McpTypeOK'
  <2>1. call' \in [Tasks -> Call]
    BY <1>13, <1>a, <1>b, <1>c DEF CallTool
  <2> QED
    BY <1>13, <2>1, <1>a DEF CallTool, McpInv, McpExchangeSound, McpTypeOK, N
<1>14. ASSUME NEW t \in Tasks, CallTimesOut(t) PROVE McpTypeOK'
  <2>1. call' \in [Tasks -> Call]
    BY <1>14, <1>a, <1>b, <1>c DEF CallTimesOut
  <2> QED
    BY <1>14, <2>1, <1>a DEF CallTimesOut, McpInv, McpExchangeSound, McpTypeOK, N
<1>15. ASSUME NEW id \in asked, ServerAnswers(id) PROVE McpTypeOK'
  <2>1. call' \in [Tasks -> Call]
    BY <1>15, <1>a, <1>b, <1>c DEF ServerAnswers
  <2> QED
    BY <1>15, <2>1, <1>a DEF ServerAnswers, McpInv, McpExchangeSound, McpTypeOK, N
<1>16. ASSUME NEW how \in {"deaf", "dead"}, ServerStops(how) PROVE McpTypeOK'
  <2>1. call' \in [Tasks -> Call]
    BY <1>16, <1>a, <1>b, <1>c DEF ServerStops
  <2> QED
    BY <1>16, <2>1, <1>a DEF ServerStops, McpInv, McpExchangeSound, McpTypeOK, N
<1>17. ASSUME UNCHANGED mcpVars PROVE McpTypeOK'
  <2>1. call' \in [Tasks -> Call]
    BY <1>17, <1>a, <1>b, <1>c DEF mcpVars
  <2> QED
    BY <1>17, <2>1, <1>a DEF mcpVars, McpInv, McpExchangeSound, McpTypeOK, N
<1> QED
  BY <1>1, <1>2, <1>3, <1>4, <1>5, <1>6, <1>7, <1>8, <1>9, <1>10, <1>11,
     <1>12, <1>13, <1>14, <1>15, <1>16, <1>17
     DEF McpNext, ClientStep, CallStep

(* The invariant without the type invariant. *)
McpRest ==
    /\ RightReply /\ WaiterIsPending /\ ShutdownIsComplete
    /\ IdsDistinct /\ FreshCalls /\ AnswersReplied
    /\ NothingBeforeStart /\ ShutdownOrder

(* Every step keeps the rest of the invariant. *)
LEMMA McpRestNext ==
    ASSUME McpInv, [McpNext]_mcpVars PROVE McpRest'
<1> DEFINE Call == [step : CallSteps, id : Nat, given : Nat, outcome : Outcomes]
<1>a. /\ call \in [Tasks -> Call] /\ nextId \in Nat \ {0}
      /\ pending \cup asked \cup answers \cup replied \subseteq 1..(nextId - 1)
      /\ Starter \in Tasks /\ Callers \subseteq Tasks
      /\ process \in {"none", "held", "taken"}
      /\ McpRest
  BY DEF McpInv, McpExchangeSound, McpTypeOK, Tasks, McpRest
<1> USE DEF McpRest, RightReply, WaiterIsPending,
        ShutdownIsComplete, IdsDistinct, Open, FreshCalls, AnswersReplied,
        NothingBeforeStart, ShutdownOrder, NotCalling, Ended
<1>1. ASSUME NEW t \in Tasks, InsertPending(t) PROVE McpRest'
  BY <1>1, <1>a DEF InsertPending
<1>2. ASSUME NEW t \in Tasks, CallReturns(t) PROVE McpRest'
  BY <1>2, <1>a DEF CallReturns
<1>3. ASSUME NEW t \in Tasks, NEW gone \in BOOLEAN, WriteLine(t, gone) PROVE McpRest'
  <2>1. CASE writer /\ ~gone
    <3>1. /\ \A u \in Tasks \ {t} : call'[u] = call[u]
          /\ call'[t].id = call[t].id /\ call'[t].outcome \in {"none", "error"}
          /\ call'[t].step = IF call[t].id \in pending THEN "waits"
                             ELSE "returns"
          /\ UNCHANGED <<process, server, writer, nextId, pending, answers,
                         replied, closing>>
      BY <1>3, <1>a, <2>1 DEF WriteLine
    <3>2. call[t].step = "writes"
      BY <1>3 DEF WriteLine
    <3>3. RightReply' /\ WaiterIsPending' /\ FreshCalls' /\ AnswersReplied'
      BY <3>1, <1>a
    <3>4. IdsDistinct'
      BY <3>1, <3>2, <1>a
    <3>5. NothingBeforeStart' /\ ShutdownIsComplete' /\ ShutdownOrder'
      BY <3>1, <3>2, <2>1, <1>a
    <3> QED
      BY <3>3, <3>4, <3>5
  <2>2. CASE ~(writer /\ ~gone)
    <3>1. /\ \A u \in Tasks \ {t} : call'[u] = call[u]
          /\ call'[t].id = call[t].id /\ call'[t].outcome = "error"
          /\ call'[t].step = "returns" /\ call[t].step = "writes"
          /\ pending' = pending \ {call[t].id}
          /\ UNCHANGED <<process, server, writer, nextId, answers, replied,
                         closing>>
      BY <1>3, <1>a, <2>2 DEF WriteLine
    <3>2. RightReply' /\ FreshCalls' /\ AnswersReplied'
      BY <3>1, <1>a
    <3>3. IdsDistinct' /\ WaiterIsPending'
      BY <3>1, <1>a
    <3>4. NothingBeforeStart' /\ ShutdownIsComplete' /\ ShutdownOrder'
      BY <3>1, <1>a
    <3> QED
      BY <3>2, <3>3, <3>4
  <2> QED
    BY <2>1, <2>2
<1>4. ASSUME NEW id \in answers, NEW outcome \in {"ok", "error"},
            DispatchIncoming(id, outcome) PROVE McpRest'
  <2>1. /\ pending' = pending \ {id} /\ answers' = answers \ {id}
        /\ UNCHANGED <<process, server, writer, nextId, replied, closing>>
        /\ id \in replied
    BY <1>4, <1>a DEF DispatchIncoming
  <2>2. ASSUME NEW t \in Tasks
        PROVE  \/ call'[t] = call[t]
               \/ /\ call[t].step = "waits" /\ call[t].id = id
                  /\ call'[t].step = "returns" /\ call'[t].id = id
                  /\ call'[t].given = id
    BY <1>4, <1>a DEF DispatchIncoming
  <2>3. ASSUME NEW t \in Tasks, call[t].step = "waits", call[t].id = id
        PROVE  call'[t].step = "returns"
    BY <1>4, <1>a, <2>3 DEF DispatchIncoming
  <2>4. RightReply' /\ AnswersReplied' /\ FreshCalls'
    BY <1>a, <2>1, <2>2
  <2>5. WaiterIsPending'
    BY <1>a, <2>1, <2>2, <2>3
  <2>6. IdsDistinct'
    BY <1>a, <2>1, <2>2
  <2>7. NothingBeforeStart' /\ ShutdownIsComplete' /\ ShutdownOrder'
    BY <1>a, <2>1, <2>2
  <2> QED
    BY <2>4, <2>5, <2>6, <2>7
<1>5. ASSUME ReaderEnds PROVE McpRest'
  <2>1. ASSUME NEW t \in Tasks
        PROVE  IF call[t].step = "waits"
               THEN /\ call'[t].step = "returns" /\ call'[t].outcome = "error"
                    /\ call'[t].id = call[t].id
               ELSE call'[t] = call[t]
    BY <1>5, <1>a DEF ReaderEnds, Fail
  <2>2. /\ RightReply' /\ AnswersReplied' /\ FreshCalls' /\ WaiterIsPending'
        /\ IdsDistinct'
    BY <1>5, <1>a, <2>1 DEF ReaderEnds
  <2>3. NothingBeforeStart' /\ ShutdownIsComplete' /\ ShutdownOrder'
    BY <1>5, <1>a, <2>1 DEF ReaderEnds
  <2> QED
    BY <2>2, <2>3
<1>6. ASSUME DropWriter PROVE McpRest'
  BY <1>6, <1>a DEF DropWriter
<1>7. ASSUME TakeProcess PROVE McpRest'
  BY <1>7, <1>a DEF TakeProcess
<1>8. ASSUME ServerGone PROVE McpRest'
  BY <1>8, <1>a DEF ServerGone
<1>9. ASSUME DrainPending PROVE McpRest'
  <2>1. ASSUME NEW t \in Tasks
        PROVE  IF call[t].step = "waits"
               THEN /\ call'[t].step = "returns" /\ call'[t].outcome = "error"
                    /\ call'[t].id = call[t].id
               ELSE call'[t] = call[t]
    BY <1>9, <1>a DEF DrainPending, Fail
  <2>2. /\ RightReply' /\ AnswersReplied' /\ FreshCalls' /\ WaiterIsPending'
        /\ IdsDistinct'
    BY <1>9, <1>a, <2>1 DEF DrainPending
  <2>3. NothingBeforeStart' /\ ShutdownIsComplete' /\ ShutdownOrder'
    BY <1>9, <1>a, <2>1 DEF DrainPending
  <2> QED
    BY <2>2, <2>3
<1>10. ASSUME StartServer PROVE McpRest'
  BY <1>10, <1>a DEF StartServer
<1>11. ASSUME SpawnRefused PROVE McpRest'
  BY <1>11, <1>a DEF SpawnRefused
<1>12. ASSUME BeginShutdown PROVE McpRest'
  BY <1>12, <1>a DEF BeginShutdown
<1>13. ASSUME NEW t \in Callers, CallTool(t) PROVE McpRest'
  BY <1>13, <1>a DEF CallTool
<1>14. ASSUME NEW t \in Tasks, CallTimesOut(t) PROVE McpRest'
  BY <1>14, <1>a DEF CallTimesOut
<1>15. ASSUME NEW id \in asked, ServerAnswers(id) PROVE McpRest'
  BY <1>15, <1>a DEF ServerAnswers
<1>16. ASSUME NEW how \in {"deaf", "dead"}, ServerStops(how) PROVE McpRest'
  BY <1>16, <1>a DEF ServerStops
<1>17. ASSUME UNCHANGED mcpVars PROVE McpRest'
  BY <1>17, <1>a DEF mcpVars
<1> QED
  BY <1>1, <1>2, <1>3, <1>4, <1>5, <1>6, <1>7, <1>8, <1>9, <1>10, <1>11,
     <1>12, <1>13, <1>14, <1>15, <1>16, <1>17
     DEF McpNext, ClientStep, CallStep

(* The inductive invariant holds in every reachable state. *)
LEMMA McpInvariant == McpSpec => []McpInv
<1>1. McpInit => McpInv
  <2> SUFFICES ASSUME McpInit PROVE McpInv
    OBVIOUS
  <2>1. McpTypeOK
    <3>1. /\ 0 \in 0..(nextId - 1) /\ nextId \in Nat \ {0}
          /\ "idle" \in CallSteps /\ "none" \in Outcomes
      BY DEF McpInit, CallSteps, Outcomes
    <3>2. call \in [Tasks -> [step : CallSteps, id : 0..(nextId - 1),
                             given : 0..(nextId - 1), outcome : Outcomes]]
      BY <3>1 DEF McpInit, NotCalling
    <3> QED
      BY <3>1, <3>2 DEF McpInit, McpTypeOK
  <2> QED
    BY <2>1 DEF McpInit, McpInv, McpExchangeSound, RightReply, WaiterIsPending,
         ShutdownIsComplete, IdsDistinct, Open, FreshCalls, AnswersReplied,
         NothingBeforeStart, ShutdownOrder, NotCalling
<1>2. McpInv /\ [McpNext]_mcpVars => McpInv'
  BY McpTypeNext, McpRestNext DEF McpInv, McpExchangeSound, McpRest
<1> QED
  BY <1>1, <1>2, PTL DEF McpSpec

(* For every number of calling tasks and any server, answering late, never *)
(* or dying: no call returns the reply to another call, a call that waits  *)
(* is in the pending table, and a client that was shut down leaves neither *)
(* a process nor a waiting call (mcp.rs).                                  *)
THEOREM ExchangeSound == McpSpec => []McpExchangeSound
<1>1. McpInv => McpExchangeSound
  BY DEF McpInv
<1> QED
  BY <1>1, McpInvariant, PTL

-----------------------------------------------------------------------------
(***************************************************************************)
(* The supervised child                                                    *)
(***************************************************************************)
Stages == {"start", "canary", "prepare", "spawn", "drain", "kill", "wait",
           "done"}
Before == {"start", "canary", "prepare", "spawn"}
States == {"none", "stuck", "running", "exited"}
Codes == {"none", "ok", "error", "killed"}
Results == {"none", "fail", "text", "pass", "timeout", "too_large", "dropped"}
Children == [state : States, code : Codes, fork : BOOLEAN]
Pipes == [ends : SUBSET {"child", "fork"}, wrote : Nat, unread : 0..PipeSize,
          got : 0..Cap, drain : {"open", "eof", "over"}]
Setups == [kind : {"check", "generation"}, config : SandboxConfigs,
           host : Hosts, retries : Nat]

ChildTypes ==
    /\ setup \in Setups /\ acts \in Nat /\ stage \in Stages
    /\ child \in Children /\ io \in [Streams -> Pipes]
    /\ group \in {"none", "active", "removed"} /\ touched \subseteq Accesses
    /\ result \in Results

(* What was slept before the n-th retry: the backoff doubles up to two     *)
(* seconds.                                                                *)
Slept == <<50, 150, 350, 750, 1550, 3150, 5150, 7150, 9150, 11150>>
TriesCounted ==
    \/ tries = [count |-> 0, slept |-> 0]
    \/ \E n \in 1..10 : tries = [count |-> n, slept |-> Slept[n]]

(* A pipe that was not given up: what was written is read or still in it,  *)
(* and at its end nobody can write any more.                               *)
PipeSound(s) ==
    /\ io[s].drain # "over" => io[s].wrote = io[s].got + io[s].unread
    /\ io[s].drain = "eof" => io[s].unread = 0 /\ io[s].ends = {}

(* How far Nerve is and what has become of the child. *)
StageSound ==
    /\ stage \in Before => child.state = "none"
    /\ stage \in {"drain", "kill", "wait"} => child.state # "none"
    /\ stage = "wait" => \A s \in Streams : io[s].drain # "open"
    /\ stage \notin {"kill", "done"} => result = "none"
    /\ stage # "done" => group # "removed"
    /\ result \in {"text", "pass"} =>
          /\ stage = "done" /\ child.state = "exited" /\ child.code = "ok"
          /\ \A s \in Streams : io[s].drain = "eof"

(* A check in required mode that got as far as its spawn was wrapped, and  *)
(* its wrapper passed the canary; what the command did was permitted.      *)
Vetted ==
    decide(setup.config, setup.host) = "wrap"
        /\ canary_confined(setup.config, setup.host)
CheckConfined ==
    /\ IsCheck /\ setup.config.mode = "required" =>
          /\ stage \in {"prepare", "spawn"} \/ child.state # "none" => Vetted
          /\ stage = "canary" => decide(setup.config, setup.host) = "wrap"
    /\ touched \subseteq Permitted(setup.config, setup.host)
    /\ touched # {} => child.state # "none"

ChildInv ==
    /\ ChildTypes /\ TriesCounted /\ StageSound /\ CheckConfined /\ NoStrayChild
    /\ \A s \in Streams : PipeSound(s)

-----------------------------------------------------------------------------
(* The names used as stages, states, codes and results. *)
LEMMA ChildNames ==
    /\ \A x \in Before \cup {"drain", "kill", "wait", "done"} : x \in Stages
    /\ Before = {"start", "canary", "prepare", "spawn"}
    /\ \A x \in {"none", "stuck", "running", "exited"} : x \in States
    /\ \A x \in {"none", "ok", "error", "killed"} : x \in Codes
    /\ \A x \in {"none", "fail", "text", "pass", "timeout", "too_large",
                  "dropped"} : x \in Results
BY DEF Before, Stages, States, Codes, Results

(* What the drop of the cgroup guard leaves. *)
LEMMA FinishLeaves ==
    ASSUME ChildInv, NEW r, NEW c \in Children, NEW i \in [Streams -> Pipes],
           Finish(r, c, i), stage # "done"
    PROVE  /\ stage' = "done" /\ result' = r
           /\ group' \in {"none", "removed"}
           /\ group' = "removed" => ~child'.fork
           /\ child' \in Children
           /\ child'.state = c.state /\ child'.code = c.code
           /\ io' \in [Streams -> Pipes]
           /\ \A s \in Streams :
                 /\ io'[s].wrote = i[s].wrote /\ io'[s].unread = i[s].unread
                 /\ io'[s].got = i[s].got /\ io'[s].drain = i[s].drain
                 /\ io'[s].ends \subseteq i[s].ends
<1>0. group \in {"none", "active"}
  BY DEF ChildInv, ChildTypes, StageSound
<1>1. CASE group = "active"
  <2>1. child' = [c EXCEPT !.fork = FALSE] /\ group' = "removed"
    BY <1>1 DEF Finish
  <2>2. /\ child' \in Children /\ ~child'.fork
        /\ child'.state = c.state /\ child'.code = c.code
    BY <2>1 DEF Children
  <2>3. io' = [s \in Streams |-> [i[s] EXCEPT !.ends = @ \ {"fork"}]]
    BY <1>1 DEF Finish
  <2>4. \A s \in Streams :
            /\ io'[s] \in Pipes
            /\ io'[s].wrote = i[s].wrote /\ io'[s].unread = i[s].unread
            /\ io'[s].got = i[s].got /\ io'[s].drain = i[s].drain
            /\ io'[s].ends \subseteq i[s].ends
    <3> TAKE s \in Streams
    <3>1. i[s] \in Pipes /\ io'[s] = [i[s] EXCEPT !.ends = @ \ {"fork"}]
      BY <2>3
    <3> QED
      BY <3>1 DEF Pipes
  <2> QED
    BY <2>1, <2>2, <2>3, <2>4 DEF Finish
<1>2. CASE group = "none"
  BY <1>2 DEF Finish
<1> QED
  BY <1>0, <1>1, <1>2

(* Nerve returns: sound if the child is gone, or never was. *)
LEMMA EndKeeps ==
    ASSUME ChildInv, NEW r \in Results, NEW c \in Children,
           NEW i \in [Streams -> Pipes], Finish(r, c, i), stage # "done",
           UNCHANGED <<setup, tries, touched, acts>>,
           c.state \in {"none", "exited"},
           c.state = "none" <=> child.state = "none",
           \A s \in Streams :
              /\ i[s].wrote = io[s].wrote /\ i[s].unread = io[s].unread
              /\ i[s].got = io[s].got /\ i[s].drain = io[s].drain
              /\ i[s].ends \subseteq io[s].ends,
           r \in {"text", "pass"} =>
              /\ c.state = "exited" /\ c.code = "ok"
              /\ \A s \in Streams : io[s].drain = "eof"
    PROVE  ChildInv'
<1>1. /\ stage' = "done" /\ result' = r
      /\ group' \in {"none", "removed"}
      /\ group' = "removed" => ~child'.fork
      /\ child' \in Children
      /\ child'.state = c.state /\ child'.code = c.code
      /\ io' \in [Streams -> Pipes]
      /\ \A s \in Streams :
            /\ io'[s].wrote = io[s].wrote /\ io'[s].unread = io[s].unread
            /\ io'[s].got = io[s].got /\ io'[s].drain = io[s].drain
            /\ io'[s].ends \subseteq io[s].ends
  <2>1. /\ stage' = "done" /\ result' = r
        /\ group' \in {"none", "removed"}
        /\ group' = "removed" => ~child'.fork
        /\ child' \in Children
        /\ child'.state = c.state /\ child'.code = c.code
        /\ io' \in [Streams -> Pipes]
        /\ \A s \in Streams :
              /\ io'[s].wrote = i[s].wrote /\ io'[s].unread = i[s].unread
              /\ io'[s].got = i[s].got /\ io'[s].drain = i[s].drain
              /\ io'[s].ends \subseteq i[s].ends
    BY FinishLeaves
  <2> QED
    BY <2>1
<1>2. ChildTypes' /\ TriesCounted'
  BY <1>1, ChildNames DEF ChildInv, ChildTypes, TriesCounted
<1>3. StageSound' /\ NoStrayChild'
  BY <1>1, ChildNames DEF StageSound, NoStrayChild
<1>4. CheckConfined'
  BY <1>1 DEF ChildInv, CheckConfined, Vetted, IsCheck
<1>5. \A s \in Streams : PipeSound(s)'
  BY <1>1 DEF ChildInv, PipeSound
<1> QED
  BY <1>2, <1>3, <1>4, <1>5 DEF ChildInv

(* A process that is killed is gone, and holds no pipe. *)
LEMMA KilledTyped ==
    ASSUME ChildInv
    PROVE  /\ Killed(child) \in Children /\ Killed(child).state = "exited"
           /\ WithoutChild(io) \in [Streams -> Pipes]
           /\ \A s \in Streams :
                 LET q == WithoutChild(io)[s] IN
                 /\ q.wrote = io[s].wrote /\ q.unread = io[s].unread
                 /\ q.got = io[s].got /\ q.drain = io[s].drain
                 /\ q.ends \subseteq io[s].ends
<1>1. child \in Children /\ io \in [Streams -> Pipes]
  BY DEF ChildInv, ChildTypes
<1>2. Killed(child) \in Children /\ Killed(child).state = "exited"
  BY <1>1, ChildNames DEF Killed, Children
<1>3. ASSUME NEW s \in Streams
      PROVE  LET q == WithoutChild(io)[s] IN
             /\ q \in Pipes
             /\ q.wrote = io[s].wrote /\ q.unread = io[s].unread
             /\ q.got = io[s].got /\ q.drain = io[s].drain
             /\ q.ends \subseteq io[s].ends
  <2>1. /\ WithoutChild(io)[s] = [io[s] EXCEPT !.ends = @ \ {"child"}]
        /\ io[s] \in Pipes
    BY <1>1 DEF WithoutChild
  <2> QED
    BY <2>1 DEF Pipes
<1> QED
  BY <1>2, <1>3 DEF WithoutChild

(* A required sandbox is never silently left out. *)
LEMMA RequiredDecides ==
    ASSUME NEW config \in SandboxConfigs, NEW host \in Hosts,
           config.mode = "required"
    PROVE  decide(config, host) \in {"refuse", "wrap"}
<1>1. no_backend_decide(config) = "refuse"
  BY DEF no_backend_decide
<1>2. seatbelt_decide(config, host) \in {"refuse", "wrap"}
  BY <1>1 DEF seatbelt_decide
<1>3. bwrap_decide(config, host) \in {"refuse", "wrap"}
  BY <1>1 DEF bwrap_decide
<1> QED
  BY <1>1, <1>2, <1>3 DEF decide

(* Nerve's steps up to the spawn. *)
LEMMA BeforeSpawnKeeps ==
    ASSUME ChildInv,
           \/ BeginGeneration \/ BeginCheck \/ PrivateTmpFails
           \/ \E timely \in BOOLEAN : VerifyConfinement(timely)
           \/ \E usable \in BOOLEAN : PrepareLimits(usable)
    PROVE  ChildInv'
<1>0. /\ stage \in {"start", "canary", "prepare"} /\ child.state = "none"
      /\ child \in Children /\ io \in [Streams -> Pipes] /\ stage # "done"
      /\ UNCHANGED <<setup, tries, touched, acts>>
  BY ChildNames
     DEF ChildInv, ChildTypes, StageSound, BeginGeneration, BeginCheck,
         PrivateTmpFails, VerifyConfinement, PrepareLimits
<1>1. CASE Finish("fail", child, io)
  BY <1>0, <1>1, EndKeeps, ChildNames
<1>2. CASE ~Finish("fail", child, io)
  <2>1. /\ child' = child /\ io' = io /\ result' = result
        /\ group' \in {"none", "active"}
        /\ stage' \in {"canary", "prepare", "spawn"}
    BY <1>0, <1>2
       DEF BeginGeneration, BeginCheck, PrivateTmpFails, VerifyConfinement,
           PrepareLimits, ChildInv, ChildTypes, StageSound
  <2>2. ChildTypes' /\ TriesCounted' /\ NoStrayChild'
    BY <1>0, <2>1, ChildNames DEF ChildInv, ChildTypes, TriesCounted, NoStrayChild
  <2>3. StageSound'
    BY <1>0, <2>1, ChildNames DEF ChildInv, StageSound
  <2>4. \A s \in Streams : PipeSound(s)'
    BY <2>1 DEF ChildInv, PipeSound
  <2>5. ASSUME IsCheck, setup.config.mode = "required"
        PROVE  /\ stage' \in {"prepare", "spawn"} => Vetted
               /\ stage' = "canary" => decide(setup.config, setup.host) = "wrap"
    <3>1. decide(setup.config, setup.host) \in {"refuse", "wrap"}
      BY <2>5, RequiredDecides DEF ChildInv, ChildTypes, Setups
    <3> QED
      BY <1>2, <2>5, <3>1
       DEF BeginGeneration, BeginCheck, PrivateTmpFails, VerifyConfinement,
           PrepareLimits, ChildInv, CheckConfined, Vetted
  <2>6. CheckConfined'
    BY <1>0, <2>1, <2>5 DEF ChildInv, CheckConfined, Vetted, IsCheck
  <2> QED
    BY <2>2, <2>3, <2>4, <2>6 DEF ChildInv
<1> QED
  BY <1>1, <1>2

(* The child starts with both ends of its pipes and nothing written. *)
LEMMA SpawnKeeps ==
    ASSUME ChildInv, SpawnChild
    PROVE  ChildInv'
<1>0. /\ stage = "spawn" /\ stage' = "drain" /\ result = "none"
      /\ UNCHANGED <<setup, tries, group, touched, result, acts>>
  BY ChildNames DEF SpawnChild, ChildInv, StageSound
<1>1. /\ child' \in Children /\ child'.state \in {"stuck", "running"}
      /\ ~child'.fork
  BY ChildNames DEF SpawnChild, Children
<1>2. ASSUME NEW s \in Streams
      PROVE  /\ io'[s] \in Pipes /\ io'[s].drain = "open"
             /\ io'[s].wrote = 0 /\ io'[s].got = 0 /\ io'[s].unread = 0
  <2>1. io'[s] = [[ends |-> {}, wrote |-> 0, unread |-> 0, got |-> 0,
                   drain |-> "open"] EXCEPT !.ends = {"child"}]
    BY DEF SpawnChild, NoIo
  <2>2. 0 \in 0..PipeSize /\ 0 \in 0..Cap
    BY ChildAssumption
  <2> QED
    BY <2>1, <2>2 DEF Pipes
<1>3. io' \in [Streams -> Pipes]
  BY <1>2 DEF SpawnChild
<1>4. ChildTypes' /\ TriesCounted'
  BY <1>0, <1>1, <1>3, ChildNames DEF ChildInv, ChildTypes, TriesCounted
<1>5. StageSound' /\ NoStrayChild'
  BY <1>0, <1>1, ChildNames DEF ChildInv, StageSound, NoStrayChild
<1>6. CheckConfined'
  BY <1>0, <1>1 DEF ChildInv, CheckConfined, Vetted, IsCheck
<1>7. \A s \in Streams : PipeSound(s)'
  BY <1>2 DEF PipeSound
<1> QED
  BY <1>4, <1>5, <1>6, <1>7 DEF ChildInv

(* The backoff before each of the ten retries there can be. *)
LEMMA Backoff ==
    /\ spawn_retry_backoff(0) = 50 /\ spawn_retry_backoff(1) = 100
    /\ spawn_retry_backoff(2) = 200 /\ spawn_retry_backoff(3) = 400
    /\ spawn_retry_backoff(4) = 800 /\ spawn_retry_backoff(5) = 1600
    /\ spawn_retry_backoff(6) = 2000 /\ spawn_retry_backoff(7) = 2000
    /\ spawn_retry_backoff(8) = 2000 /\ spawn_retry_backoff(9) = 2000
<1> USE DEF spawn_retry_backoff, SPAWN_RETRY_SHIFT_CAP,
            SPAWN_RETRY_BACKOFF_BASE, SPAWN_RETRY_BACKOFF_MAX
<1>1. /\ spawn_retry_backoff(0) = 50 /\ spawn_retry_backoff(1) = 100
      /\ spawn_retry_backoff(2) = 200 /\ spawn_retry_backoff(3) = 400
  OBVIOUS
<1>2. /\ spawn_retry_backoff(4) = 800 /\ spawn_retry_backoff(5) = 1600
      /\ spawn_retry_backoff(6) = 2000 /\ spawn_retry_backoff(7) = 2000
  OBVIOUS
<1>3. /\ spawn_retry_backoff(8) = 2000 /\ spawn_retry_backoff(9) = 2000
  OBVIOUS
<1> QED
  BY <1>1, <1>2, <1>3

(* A spawn that fails is tried again at most ten times. *)
LEMMA RetryKeeps ==
    ASSUME ChildInv, NEW transient \in BOOLEAN, SpawnFails(transient)
    PROVE  ChildInv'
<1>0. /\ stage = "spawn" /\ child.state = "none" /\ child \in Children
      /\ io \in [Streams -> Pipes] /\ UNCHANGED <<setup, touched, acts>>
  BY ChildNames DEF SpawnFails, ChildInv, ChildTypes, StageSound
<1>1. CASE Finish("fail", child, io) /\ UNCHANGED tries
  BY <1>0, <1>1, EndKeeps, ChildNames
<1>2. CASE ~(Finish("fail", child, io) /\ UNCHANGED tries)
  <2>1. /\ tries.count < spawn_retries(setup.retries)
        /\ tries' = [count |-> tries.count + 1, slept |->
                        tries.slept + spawn_retry_backoff(tries.count)]
        /\ UNCHANGED <<stage, child, io, group, result>>
    BY <1>2 DEF SpawnFails
  <2>2. tries.count \in 0..9
    <3>1. setup.retries \in Nat
      BY DEF ChildInv, ChildTypes, Setups
    <3>2. spawn_retries(setup.retries) <= 10
      BY <3>1 DEF spawn_retries, MAX_SPAWN_RETRIES
    <3>3. tries.count \in 0..10
      BY DEF ChildInv, TriesCounted
    <3>4. spawn_retries(setup.retries) \in Nat
      BY <3>1 DEF spawn_retries, MAX_SPAWN_RETRIES
    <3> QED
      BY <2>1, <3>2, <3>3, <3>4
  <2>3. TriesCounted'
    <3>1. tries.count = 0 => tries.slept = 0
      BY DEF ChildInv, TriesCounted
    <3>2. \A n \in 1..9 : tries.count = n => tries.slept = Slept[n]
      BY DEF ChildInv, TriesCounted
    <3>3. tries' = [count |-> tries.count + 1, slept |-> Slept[tries.count + 1]]
      BY <2>1, <2>2, <3>1, <3>2, Backoff DEF Slept
    <3>4. tries.count + 1 \in 1..10
      BY <2>2
    <3> QED
      BY <3>3, <3>4 DEF TriesCounted
  <2>4. ChildTypes' /\ StageSound' /\ NoStrayChild' /\ CheckConfined'
    BY <1>0, <2>1 DEF ChildInv, ChildTypes, StageSound, NoStrayChild,
                      CheckConfined, Vetted, IsCheck
  <2>5. \A s \in Streams : PipeSound(s)'
    BY <2>1 DEF ChildInv, PipeSound
  <2> QED
    BY <2>3, <2>4, <2>5 DEF ChildInv
<1> QED
  BY <1>1, <1>2

(* A step of the child or of its descendant: what it must leave alone. *)
LEMMA ChildKeeps ==
    ASSUME ChildInv, UNCHANGED <<setup, stage, tries, group, result>>,
           acts' \in Nat, child' \in Children, io' \in [Streams -> Pipes],
           touched' \subseteq Permitted(setup.config, setup.host),
           touched' \subseteq Accesses, touched' # {} => child.state # "none",
           child'.state = "none" <=> child.state = "none",
           child.state = "exited" =>
              child'.state = "exited" /\ child'.code = child.code,
           child.state = "exited" /\ ~child.fork => ~child'.fork,
           child.state = "none" /\ ~child.fork => ~child'.fork,
           \A s \in Streams : io'[s].drain = io[s].drain /\ PipeSound(s)'
    PROVE  ChildInv'
<1>1. ChildTypes' /\ TriesCounted'
  BY DEF ChildInv, ChildTypes, TriesCounted
<1>2. StageSound'
  BY DEF ChildInv, StageSound
<1>3. NoStrayChild'
  BY DEF ChildInv, NoStrayChild
<1>4. CheckConfined'
  BY DEF ChildInv, CheckConfined, Vetted, IsCheck
<1> QED
  BY <1>1, <1>2, <1>3, <1>4 DEF ChildInv

(* What a pipe is after its child, or its fork, has let go of it. *)
LEMMA PipeLetGo ==
    ASSUME ChildInv, NEW s \in Streams, NEW who \in {"child", "fork"},
           io'[s] = [io[s] EXCEPT !.ends = @ \ {who}]
    PROVE  io'[s] \in Pipes /\ io'[s].drain = io[s].drain /\ PipeSound(s)'
<1>1. io[s] \in Pipes /\ PipeSound(s)
  BY DEF ChildInv, ChildTypes
<1>2. /\ io'[s] \in Pipes /\ io'[s].drain = io[s].drain
      /\ io'[s].wrote = io[s].wrote /\ io'[s].unread = io[s].unread
      /\ io'[s].got = io[s].got /\ io'[s].ends = io[s].ends \ {who}
  BY <1>1 DEF Pipes
<1> QED
  BY <1>1, <1>2 DEF PipeSound

(* The steps of the child. *)
LEMMA ChildStepKeeps ==
    ASSUME ChildInv, ChildStep
    PROVE  ChildInv'
<1>0. /\ child \in Children /\ io \in [Streams -> Pipes] /\ acts \in Nat
      /\ touched \subseteq Permitted(setup.config, setup.host)
      /\ touched \subseteq Accesses
      /\ touched # {} => child.state # "none"
      /\ \A s \in Streams : PipeSound(s)
  BY DEF ChildInv, ChildTypes, CheckConfined
<1>1. ASSUME NEW t \in Streams, ChildWrites(t) PROVE ChildInv'
  <2>1. /\ UNCHANGED <<setup, stage, tries, child, group, touched, result>>
        /\ acts' \in Nat /\ io[t].unread < PipeSize /\ "child" \in io[t].ends
        /\ io' = [io EXCEPT ![t].wrote = @ + 1, ![t].unread = @ + 1]
    BY <1>0, <1>1 DEF ChildWrites
  <2>2. /\ io'[t] \in Pipes /\ io'[t].drain = io[t].drain
        /\ io'[t].wrote = io[t].wrote + 1 /\ io'[t].unread = io[t].unread + 1
        /\ io'[t].got = io[t].got /\ io'[t].ends = io[t].ends
    <3>1. io[t] \in Pipes /\ PipeSize \in Nat
      BY <1>0, ChildAssumption
    <3>2. io'[t] = [io[t] EXCEPT !.wrote = @ + 1, !.unread = @ + 1]
      BY <1>0, <2>1
    <3>3. io[t].wrote + 1 \in Nat /\ io[t].unread + 1 \in 0..PipeSize
      BY <2>1, <3>1 DEF Pipes
    <3> QED
      BY <3>1, <3>2, <3>3 DEF Pipes
  <2>3. \A s \in Streams : s # t => io'[s] = io[s]
    BY <1>0, <2>1
  <2>4. io' \in [Streams -> Pipes]
    BY <1>0, <2>1, <2>2, <2>3
  <2>5. PipeSound(t)'
    <3>1. io[t].wrote \in Nat /\ io[t].unread \in Nat /\ io[t].got \in Nat
      BY <1>0 DEF Pipes
    <3> QED
      BY <1>0, <2>1, <2>2, <3>1 DEF PipeSound
  <2>6. \A s \in Streams : io'[s].drain = io[s].drain /\ PipeSound(s)'
    BY <1>0, <2>2, <2>3, <2>5 DEF PipeSound
  <2> QED
    BY <1>0, <2>1, <2>4, <2>6, ChildKeeps
<1>2. CASE ChildForks
  <2>1. /\ UNCHANGED <<setup, stage, tries, group, touched, result>>
        /\ acts' \in Nat /\ child.state = "running"
        /\ child' = [child EXCEPT !.fork = TRUE]
        /\ io' = [s \in Streams |-> [io[s] EXCEPT !.ends =
                    IF "child" \in @ THEN @ \cup {"fork"} ELSE @]]
    BY <1>0, <1>2 DEF ChildForks
  <2>2. child' \in Children /\ child'.state = "running"
    BY <1>0, <2>1 DEF Children
  <2>3. ASSUME NEW s \in Streams
        PROVE  io'[s] \in Pipes /\ io'[s].drain = io[s].drain /\ PipeSound(s)'
    <3>1. io[s] \in Pipes
      BY <1>0
    <3>2. io'[s] = [io[s] EXCEPT !.ends =
                IF "child" \in @ THEN @ \cup {"fork"} ELSE @]
      BY <2>1
    <3>3. /\ io'[s] \in Pipes /\ io'[s].drain = io[s].drain
          /\ io'[s].wrote = io[s].wrote /\ io'[s].unread = io[s].unread
          /\ io'[s].got = io[s].got
          /\ io[s].ends = {} => io'[s].ends = {}
      BY <3>1, <3>2 DEF Pipes
    <3> QED
      BY <1>0, <3>3 DEF PipeSound
  <2>4. io' \in [Streams -> Pipes]
    BY <2>1, <2>3
  <2> QED
    BY <1>0, <2>1, <2>2, <2>3, <2>4, ChildKeeps
<1>3. CASE ForkEnds
  <2>1. /\ UNCHANGED <<setup, stage, tries, group, touched, result, acts>>
        /\ child' = [child EXCEPT !.fork = FALSE]
        /\ io' = [s \in Streams |-> [io[s] EXCEPT !.ends = @ \ {"fork"}]]
    BY <1>3 DEF ForkEnds
  <2>2. /\ child' \in Children /\ child'.state = child.state
        /\ child'.code = child.code /\ ~child'.fork
    BY <1>0, <2>1 DEF Children
  <2>3. \A s \in Streams :
            io'[s] \in Pipes /\ io'[s].drain = io[s].drain /\ PipeSound(s)'
    BY <2>1, PipeLetGo
  <2>4. io' \in [Streams -> Pipes]
    BY <2>1, <2>3
  <2> QED
    BY <1>0, <2>1, <2>2, <2>3, <2>4, ChildKeeps
<1>4. ASSUME io' = WithoutChild(io)
      PROVE  /\ io' \in [Streams -> Pipes]
             /\ \A s \in Streams : io'[s].drain = io[s].drain /\ PipeSound(s)'
  <2>1. \A s \in Streams :
            io'[s] \in Pipes /\ io'[s].drain = io[s].drain /\ PipeSound(s)'
    BY <1>4, PipeLetGo DEF WithoutChild
  <2> QED
    BY <1>4, <2>1 DEF WithoutChild
<1>5. CASE ChildCloses
  <2>1. /\ UNCHANGED <<setup, stage, tries, child, group, touched, result>>
        /\ acts' \in Nat /\ io' = WithoutChild(io)
    BY <1>0, <1>5 DEF ChildCloses
  <2> QED
    BY <1>0, <1>4, <2>1, ChildKeeps
<1>6. ASSUME NEW a \in Accesses, ChildTouches(a) PROVE ChildInv'
  <2>1. /\ UNCHANGED <<setup, stage, tries, child, io, group, result, acts>>
        /\ child.state = "running" /\ touched' = touched \cup {a}
        /\ a \in Permitted(setup.config, setup.host)
    BY <1>6 DEF ChildTouches
  <2>2. \A s \in Streams : io'[s].drain = io[s].drain /\ PipeSound(s)'
    BY <1>0, <2>1 DEF PipeSound
  <2>3. /\ touched' \subseteq Permitted(setup.config, setup.host)
        /\ touched' \subseteq Accesses
    BY <1>0, <2>1
  <2> QED
    BY <1>0, <2>1, <2>2, <2>3, ChildKeeps
<1>7. ASSUME NEW code \in {"ok", "error"}, ChildExits(code) PROVE ChildInv'
  <2>1. /\ UNCHANGED <<setup, stage, tries, group, touched, result, acts>>
        /\ child.state \in {"running", "stuck"} /\ io' = WithoutChild(io)
        /\ child' = [child EXCEPT !.state = "exited", !.code = code]
    BY <1>7 DEF ChildExits
  <2>2. /\ child' \in Children /\ child'.state = "exited"
        /\ child'.fork = child.fork
    BY <1>0, <2>1, ChildNames DEF Children
  <2> QED
    BY <1>0, <1>4, <2>1, <2>2, ChildKeeps
<1> QED
  BY <1>1, <1>2, <1>3, <1>5, <1>6, <1>7 DEF ChildStep

(* The drains, which end at the end of the stream, at the cap, or at the   *)
(* timeout.                                                                *)
LEMMA DrainKeeps ==
    ASSUME ChildInv,
           \/ \E s \in Streams : ReadChunk(s) \/ ReadEof(s)
           \/ DrainsEnd \/ DrainTimesOut
    PROVE  ChildInv'
<1>0. /\ child \in Children /\ io \in [Streams -> Pipes]
      /\ \A s \in Streams : PipeSound(s)
      /\ stage = "drain" /\ child.state # "none" /\ result = "none"
  BY ChildNames DEF ChildInv, ChildTypes, StageSound, ReadChunk, ReadEof, DrainsEnd,
         DrainTimesOut
<1>1. UNCHANGED <<setup, tries, child, group, touched, acts>>
  BY DEF ReadChunk, ReadEof, DrainsEnd, DrainTimesOut
<1>2. /\ stage' \in {"drain", "kill", "wait"}
      /\ stage' = "wait" =>
            io' = io /\ \A s \in Streams : io[s].drain # "open"
      /\ result' \in {"none", "timeout", "too_large"}
      /\ stage' # "kill" => result' = "none"
  BY <1>0 DEF ReadChunk, ReadEof, DrainsEnd, DrainTimesOut
<1>3. io' \in [Streams -> Pipes] /\ \A s \in Streams : PipeSound(s)'
  <2>1. CASE DrainsEnd \/ DrainTimesOut
    BY <1>0, <2>1 DEF DrainsEnd, DrainTimesOut, PipeSound
  <2>2. ASSUME NEW t \in Streams, ReadChunk(t) \/ ReadEof(t)
        PROVE  io' \in [Streams -> Pipes] /\ \A s \in Streams : PipeSound(s)'
    <3>0. /\ io[t] \in Pipes /\ PipeSound(t) /\ io[t].drain = "open"
          /\ Cap \in Nat /\ PipeSize \in Nat
      BY <1>0, <2>2, ChildAssumption DEF ReadChunk, ReadEof
    <3>1. io[t].wrote \in Nat /\ io[t].unread \in 0..PipeSize /\ io[t].got \in 0..Cap
      BY <3>0 DEF Pipes
    <3>2. CASE ReadEof(t)
      <4>1. io' = [io EXCEPT ![t].drain = "eof"] /\ io[t].unread = 0 /\ io[t].ends = {}
        BY <3>2 DEF ReadEof
      <4>2. /\ io'[t] \in Pipes /\ io'[t].wrote = io[t].wrote
            /\ io'[t].unread = io[t].unread /\ io'[t].got = io[t].got
            /\ io'[t].ends = io[t].ends
        BY <1>0, <3>0, <4>1 DEF Pipes
      <4>3. PipeSound(t)'
        BY <3>0, <4>1, <4>2 DEF PipeSound
      <4> QED
        BY <1>0, <4>1, <4>2, <4>3 DEF PipeSound
    <3>3. CASE ReadChunk(t) /\ io[t].got + 1 > Cap
      <4>1. io' = [io EXCEPT ![t].drain = "over"]
        BY <3>3 DEF ReadChunk
      <4>2. io'[t] \in Pipes /\ io'[t].drain = "over"
        BY <1>0, <3>0, <4>1 DEF Pipes
      <4>3. PipeSound(t)'
        BY <4>2 DEF PipeSound
      <4> QED
        BY <1>0, <4>1, <4>2, <4>3 DEF PipeSound
    <3>4. CASE ReadChunk(t) /\ ~(io[t].got + 1 > Cap)
      <4>1. /\ io' = [io EXCEPT ![t].unread = @ - 1, ![t].got = @ + 1]
            /\ io[t].unread > 0
        BY <3>4 DEF ReadChunk
      <4>2. /\ io'[t] = [io[t] EXCEPT !.unread = @ - 1, !.got = @ + 1]
            /\ io[t].unread - 1 \in 0..PipeSize /\ io[t].got + 1 \in 0..Cap
        BY <1>0, <3>0, <3>1, <3>4, <4>1
      <4>3. /\ io'[t] \in Pipes /\ io'[t].drain = "open"
            /\ io'[t].wrote = io[t].wrote /\ io'[t].unread = io[t].unread - 1
            /\ io'[t].got = io[t].got + 1
        BY <3>0, <4>2 DEF Pipes
      <4>4. PipeSound(t)'
        BY <3>0, <3>1, <4>3 DEF PipeSound
      <4> QED
        BY <1>0, <4>1, <4>3, <4>4 DEF PipeSound
    <3> QED
      BY <2>2, <3>2, <3>3, <3>4
  <2> QED
    BY <2>1, <2>2
<1>4. ChildTypes' /\ TriesCounted' /\ NoStrayChild'
  BY <1>1, <1>2, <1>3, ChildNames
     DEF ChildInv, ChildTypes, TriesCounted, NoStrayChild
<1>5. StageSound'
  BY <1>0, <1>1, <1>2, ChildNames DEF ChildInv, StageSound
<1>6. CheckConfined'
  BY <1>0, <1>1, <1>2 DEF ChildInv, CheckConfined, Vetted, IsCheck
<1> QED
  BY <1>3, <1>4, <1>5, <1>6 DEF ChildInv

(* Nerve returns with the exit status, after a kill, or is dropped. *)
LEMMA ReturnKeeps ==
    ASSUME ChildInv, ReturnStatus \/ KillAndReap \/ DropGeneration
    PROVE  ChildInv'
<1>0. /\ child \in Children /\ io \in [Streams -> Pipes] /\ stage # "done"
      /\ UNCHANGED <<setup, tries, touched, acts>>
  BY DEF ChildInv, ChildTypes, ReturnStatus, KillAndReap, DropGeneration
<1>1. CASE ReturnStatus
  <2> DEFINE r == IF (\E s \in Streams : io[s].drain = "over") \/ child.code # "ok"
                  THEN "fail" ELSE IF IsCheck THEN "pass" ELSE "text"
  <2>1. /\ Finish(r, child, io) /\ stage = "wait" /\ child.state = "exited"
    BY <1>1 DEF ReturnStatus
  <2>2. r \in Results
    BY ChildNames
  <2>3. r \in {"text", "pass"} =>
            child.code = "ok" /\ \A s \in Streams : io[s].drain = "eof"
    <3>1. \A s \in Streams : io[s].drain \in {"eof", "over"}
      BY <1>0, <2>1 DEF ChildInv, StageSound, Pipes
    <3> QED
      BY <3>1
  <2> HIDE DEF r
  <2> QED
    BY <1>0, <2>1, <2>2, <2>3, EndKeeps
<1>2. CASE KillAndReap
  <2>1. /\ Finish(result, Killed(child), WithoutChild(io)) /\ stage = "kill"
        /\ child.state # "none" /\ result \in Results
        /\ result \notin {"text", "pass"}
    BY <1>2 DEF KillAndReap, ChildInv, StageSound, ChildTypes
  <2> QED
    BY <1>0, <2>1, KilledTyped, EndKeeps
<1>3. CASE DropGeneration
  <2> DEFINE c == IF child.state = "none" THEN child ELSE Killed(child)
  <2>1. Finish("dropped", c, WithoutChild(io))
    BY <1>3 DEF DropGeneration
  <2>2. /\ c \in Children /\ c.state \in {"none", "exited"}
        /\ c.state = "none" <=> child.state = "none"
    BY <1>0, KilledTyped
  <2> HIDE DEF c
  <2> QED
    BY <1>0, <2>1, <2>2, KilledTyped, EndKeeps, ChildNames
<1> QED
  BY <1>1, <1>2, <1>3

(* The invariant says what the caller may rely on. *)
LEMMA ChildInvImplies ==
    ASSUME ChildInv
    PROVE  /\ ChildTypeOK /\ NoStrayChild /\ AnswerIsWhole
           /\ RequiredMeansConfined /\ SpawnWaitBounded
<1>1. SpawnWaitBounded /\ tries.count \in Nat /\ tries.slept \in Nat
  <2>1. CASE tries = [count |-> 0, slept |-> 0]
    BY <2>1 DEF SpawnWaitBounded, MAX_SPAWN_RETRIES
  <2>2. ASSUME NEW n \in 1..10, tries = [count |-> n, slept |-> Slept[n]]
        PROVE  SpawnWaitBounded /\ tries.count \in Nat /\ tries.slept \in Nat
    <3>1. Slept[n] \in Nat /\ Slept[n] <= 12000
      BY <2>2 DEF Slept
    <3>2. tries.count = n /\ tries.slept = Slept[n]
      BY <2>2
    <3> QED
      BY <3>1, <3>2 DEF SpawnWaitBounded, MAX_SPAWN_RETRIES
  <2> QED
    BY <2>1, <2>2 DEF ChildInv, TriesCounted
<1>2. ChildTypeOK
  BY <1>1 DEF ChildInv, ChildTypes, ChildTypeOK, Stages, Children, States, Codes,
              Results, Pipes
<1>3. AnswerIsWhole
  <2>1. \A s \in Streams :
            /\ io[s].wrote \in Nat /\ io[s].got \in 0..Cap /\ io[s].unread \in Nat
            /\ PipeSound(s)
    BY DEF ChildInv, ChildTypes, Pipes
  <2>2. result \in {"text", "pass"} =>
            child.code = "ok" /\ \A s \in Streams : io[s].drain = "eof"
    BY DEF ChildInv, StageSound
  <2> QED
    BY <2>1, <2>2, ChildAssumption DEF AnswerIsWhole, PipeSound
<1>4. RequiredMeansConfined
  <2> SUFFICES ASSUME IsCheck, setup.config.mode = "required", touched # {}
               PROVE  /\ "write_outside" \notin touched
                      /\ setup.host.backend = "confines" /\ ~setup.config.network =>
                            "network" \notin touched
    BY DEF RequiredMeansConfined
  <2>1. /\ Vetted /\ touched \subseteq Permitted(setup.config, setup.host)
    BY DEF ChildInv, CheckConfined
  <2>2. "write_outside" \notin touched
    BY <2>1 DEF Vetted, canary_confined
  <2>3. ASSUME setup.host.backend = "confines", ~setup.config.network
        PROVE  "network" \notin Permitted(setup.config, setup.host)
    <3>1. decide(setup.config, setup.host) = "wrap"
      BY <2>1 DEF Vetted
    <3>2. "network" \in Started(setup.config, setup.host).denied
      BY <2>3, <3>1 DEF Started, seatbelt_profile, bwrap_args
    <3> QED
      BY <3>2 DEF Permitted
  <2> QED
    BY <2>1, <2>2, <2>3
<1> QED
  BY <1>1, <1>2, <1>3, <1>4 DEF ChildInv

-----------------------------------------------------------------------------
(***************************************************************************)
(* The arguments of the in-jail helper                                     *)
(***************************************************************************)
(* A set of natural numbers that has 0, and with a number the next one,    *)
(* has them all.                                                           *)
LEMMA Induction ==
    ASSUME NEW S, 0 \in S, \A n \in Nat : n \in S => n + 1 \in S
    PROVE  Nat \subseteq S
<1> SUFFICES ASSUME Nat \ S # {} PROVE FALSE
  OBVIOUS
<1>1. PICK m \in Nat \ S : \A k \in Nat \ S : ~(<<k, m>> \in OpToRel(<, Nat))
  BY NatLessThanWellFounded, WFMin DEF OpToRel
<1>2. m - 1 \in Nat /\ m - 1 < m /\ (m - 1) + 1 = m
  BY SMT
<1>3. m - 1 \in S
  BY <1>1, <1>2 DEF OpToRel
<1> QED
  BY <1>2, <1>3

(* scan reads the arguments from right to left. *)
Scans(scan, tail) ==
    scan = [i \in 1..(Len(tail) + 2) |->
              IF i > Len(tail) THEN Malformed
              ELSE ReadArg(tail, i, scan[i + 1], scan[i + 2])]

(* Every argument list can be read that way. *)
LEMMA ScanExists ==
    ASSUME NEW tail, Len(tail) \in Nat PROVE \E scan : Scans(scan, tail)
<1> DEFINE n == Len(tail)
           From(k) == {i \in 1..(n + 2) : i >= n + 1 - k}
           Step(g, i) == IF i > n THEN Malformed
                         ELSE ReadArg(tail, i, g[i + 1], g[i + 2])
           Good(k) == \E g : g = [i \in From(k) |-> Step(g, i)]
           S == {k \in Nat : Good(k)}
<1> HIDE DEF n
<1>0. n \in Nat
  BY DEF n
<1>1. 0 \in S
  <2> DEFINE g == [i \in From(0) |-> Malformed]
  <2>1. \A i \in From(0) : i > n
    BY <1>0
  <2>2. g = [i \in From(0) |-> Step(g, i)]
    BY <2>1
  <2>3. Good(0)
    BY <2>2
  <2> HIDE DEF Good
  <2> QED
    BY <2>3
<1>2. ASSUME NEW k \in Nat, k \in S PROVE k + 1 \in S
  <2>1. PICK g : g = [i \in From(k) |-> Step(g, i)]
    BY <1>2
  <2> DEFINE h == [i \in From(k + 1) |-> Step(g, i)]
  <2>2. From(k) \subseteq From(k + 1)
    BY <1>0
  <2>3. \A i \in From(k + 1) : i <= n => i + 1 \in From(k) /\ i + 2 \in From(k)
    BY <1>0
  <2>4. \A i \in From(k) : h[i] = g[i]
    <3> TAKE i \in From(k)
    <3>1. h[i] = Step(g, i)
      BY <2>2
    <3>2. g[i] = Step(g, i)
      BY <2>1
    <3> QED
      BY <3>1, <3>2
  <2>5. \A i \in From(k + 1) : Step(h, i) = Step(g, i)
    <3> TAKE i \in From(k + 1)
    <3>1. CASE i > n
      BY <3>1
    <3>2. CASE ~(i > n)
      <4>1. h[i + 1] = g[i + 1] /\ h[i + 2] = g[i + 2]
        <5>1. i + 1 \in From(k) /\ i + 2 \in From(k)
          BY <1>0, <2>3, <3>2
        <5> QED
          BY <2>4, <5>1
      <4> HIDE DEF h
      <4> QED
        BY <3>2, <4>1
    <3> QED
      BY <3>1, <3>2
  <2>6. h = [i \in From(k + 1) |-> Step(h, i)]
    BY <2>5
  <2> HIDE DEF h
  <2>7. Good(k + 1)
    BY <2>6
  <2> HIDE DEF Good
  <2> QED
    BY <2>7
<1>3. n \in S
  <2> HIDE DEF S
  <2>1. Nat \subseteq S
    BY <1>1, <1>2, Induction
  <2> QED
    BY <1>0, <2>1
<1>4. From(n) = 1..(n + 2)
  BY <1>0
<1>5. PICK g : g = [i \in 1..(n + 2) |-> Step(g, i)]
  BY <1>3, <1>4
<1> QED
  BY <1>5 DEF Scans, n

(* What parse_confine_args returns is what the scan from the first         *)
(* argument says.                                                          *)
LEMMA ParsedByScan ==
    ASSUME NEW tail, Len(tail) \in Nat
    PROVE  \E scan :
              /\ \A i \in 1..(Len(tail) + 2) :
                    scan[i] = IF i > Len(tail) THEN Malformed
                              ELSE ReadArg(tail, i, scan[i + 1], scan[i + 2])
              /\ parse_confine_args(tail) =
                    IF ~scan[1].ok \/ scan[1].mode = "unset" \/ scan[1].cmd = <<>>
                    THEN Malformed ELSE scan[1]
<1> DEFINE f == CHOOSE scan : Scans(scan, tail)
<1>1. Scans(f, tail)
  BY ScanExists
<1>2. parse_confine_args(tail) =
        IF ~f[1].ok \/ f[1].mode = "unset" \/ f[1].cmd = <<>>
        THEN Malformed ELSE f[1]
  BY DEF parse_confine_args, Scans
<1> HIDE DEF f
<1>3. \A i \in 1..(Len(tail) + 2) :
         f[i] = IF i > Len(tail) THEN Malformed
                ELSE ReadArg(tail, i, f[i + 1], f[i + 2])
  BY <1>1 DEF Scans
<1> QED
  BY <1>2, <1>3

(* What was read of a well-formed list.  (The provers handle a record of   *)
(* names better than one of truth values.)                                 *)
Yes == TRUE
Heard(mode, landlock, seccomp, roots, cmd) ==
    [ok |-> Yes, mode |-> mode, landlock |-> landlock, seccomp |-> seccomp,
     roots |-> roots, cmd |-> cmd]

(* The terminator ends the flags: what is behind it is the command. *)
LEMMA ReadsTerminator ==
    ASSUME NEW tail, NEW i, NEW f, NEW v, tail[i] = "--"
    PROVE  ReadArg(tail, i, f, v) =
               Heard("unset", FALSE, FALSE, <<>>, SubSeq(tail, i + 1, Len(tail)))
  BY DEF ReadArg, Heard, Yes

(* --root puts its value before the roots behind it. *)
LEMMA ReadsRoot ==
    ASSUME NEW tail, NEW i, NEW f, NEW v, NEW m, NEW l, NEW s, NEW R, NEW cmd,
           tail[i] = "--root", i < Len(tail), tail[i + 1] # EmptyWord,
           v = Heard(m, l, s, R, cmd)
    PROVE  ReadArg(tail, i, f, v) = Heard(m, l, s, <<tail[i + 1]>> \o R, cmd)
<1>1. v.ok => ReadArg(tail, i, f, v) = [v EXCEPT !.roots = <<tail[i + 1]>> \o v.roots]
  BY DEF ReadArg
<1>2. v.ok /\ v.roots = R
  BY DEF Heard, Yes
<1>3. ASSUME NEW x PROVE [v EXCEPT !.roots = x] = Heard(m, l, s, x, cmd)
  BY DEF Heard
<1> QED
  BY ONLY <1>1, <1>2, <1>3

(* --seccomp and --landlock set a layer that no later argument has set. *)
LEMMA ReadsSeccomp ==
    ASSUME NEW tail, NEW i, NEW f, NEW v, NEW m, NEW l, NEW s, NEW R, NEW cmd,
           tail[i] = "--seccomp", ~s, f = Heard(m, l, s, R, cmd)
    PROVE  ReadArg(tail, i, f, v) = Heard(m, l, Yes, R, cmd)
<1>1. f.ok /\ ~f.seccomp => ReadArg(tail, i, f, v) = [f EXCEPT !.seccomp = Yes]
  BY DEF ReadArg, Yes
<1>2. f.ok /\ ~f.seccomp
  BY DEF Heard, Yes
<1>3. ASSUME NEW x PROVE [f EXCEPT !.seccomp = x] = Heard(m, l, x, R, cmd)
  BY DEF Heard
<1> QED
  BY ONLY <1>1, <1>2, <1>3

(* The same for the other layer. *)
LEMMA ReadsLandlock ==
    ASSUME NEW tail, NEW i, NEW f, NEW v, NEW m, NEW l, NEW s, NEW R, NEW cmd,
           tail[i] = "--landlock", ~l, f = Heard(m, l, s, R, cmd)
    PROVE  ReadArg(tail, i, f, v) = Heard(m, Yes, s, R, cmd)
<1>1. f.ok /\ ~f.landlock => ReadArg(tail, i, f, v) = [f EXCEPT !.landlock = Yes]
  BY DEF ReadArg, Yes
<1>2. f.ok /\ ~f.landlock
  BY DEF Heard, Yes
<1>3. ASSUME NEW x PROVE [f EXCEPT !.landlock = x] = Heard(m, x, s, R, cmd)
  BY DEF Heard
<1> QED
  BY ONLY <1>1, <1>2, <1>3

(* --mode sets the mode. *)
LEMMA ReadsMode ==
    ASSUME NEW tail, NEW i, NEW f, NEW v, NEW l, NEW s, NEW R, NEW cmd,
           tail[i] = "--mode", i < Len(tail), tail[i + 1] \in {"required", "auto"},
           v = Heard("unset", l, s, R, cmd)
    PROVE  ReadArg(tail, i, f, v) = Heard(tail[i + 1], l, s, R, cmd)
<1>1. v.ok /\ v.mode = "unset" =>
         ReadArg(tail, i, f, v) = [v EXCEPT !.mode = tail[i + 1]]
  BY DEF ReadArg
<1>2. v.ok /\ v.mode = "unset"
  BY DEF Heard, Yes
<1>3. ASSUME NEW x PROVE [v EXCEPT !.mode = x] = Heard(x, l, s, R, cmd)
  BY DEF Heard
<1> QED
  BY ONLY <1>1, <1>2, <1>3

(* Where the members of two lists are when one is put after the other. *)
LEMMA Joined ==
    ASSUME NEW W, NEW s \in Seq(W), NEW t \in Seq(W),
           NEW n \in Nat, n = Len(s), NEW k \in Nat, k = n + Len(t),
           NEW u, u = s \o t
    PROVE  /\ u \in Seq(W) /\ Len(u) = k
           /\ \A i \in 1..n : u[i] = s[i]
           /\ \A i \in 1..Len(t) : u[n + i] = t[i]
<1>1. /\ u \in Seq(W) /\ Len(u) = k
      /\ \A i \in 1..k : u[i] = IF i <= n THEN s[i] ELSE t[i - n]
  BY ConcatProperties
<1>2. Len(t) \in Nat /\ n <= k
  OBVIOUS
<1>3. ASSUME NEW i \in 1..Len(t) PROVE u[n + i] = t[i]
  <2>1. n + i \in 1..k /\ ~(n + i <= n) /\ (n + i) - n = i
    BY <1>2
  <2> QED
    BY <1>1, <2>1
<1>4. ASSUME NEW i \in 1..n PROVE u[i] = s[i]
  <2>1. i \in 1..k /\ i <= n
    BY <1>2
  <2> QED
    BY <1>1, <2>1
<1> QED
  BY <1>1, <1>3, <1>4

(* The words that build_confine_helper_argv adds. *)
FlagWords == {"--mode", "required", "auto", "--landlock", "--seccomp", "--root", "--"}

(* The root flags: every root after a flag of its own. *)
LEMMA RootPairs ==
    ASSUME NEW W, "--root" \in W, NEW roots \in Seq(W)
    PROVE  /\ RootFlags(roots) \in Seq(W)
           /\ Len(RootFlags(roots)) = 2 * Len(roots)
           /\ \A j \in 1..Len(roots) : /\ RootFlags(roots)[2 * j - 1] = "--root"
                                       /\ RootFlags(roots)[2 * j] = roots[j]
<1> DEFINE n == Len(roots)
           C == RootFlags(roots)
<1>1. n \in Nat
  OBVIOUS
<1>2. C = [i \in 1..(2 * n) |-> IF i % 2 = 1 THEN "--root" ELSE roots[i \div 2]]
  BY DEF RootFlags
<1> HIDE DEF n, C
<1>3. \A i \in 1..(2 * n) : C[i] \in W
  <2> TAKE i \in 1..(2 * n)
  <2>1. CASE i % 2 = 1
    BY <1>2, <2>1
  <2>2. CASE i % 2 # 1
    <3>1. i \div 2 \in 1..n
      BY <1>1, <2>2
    <3>2. roots[i \div 2] \in W
      BY <3>1 DEF n
    <3> QED
      BY <1>2, <2>2, <3>2
  <2> QED
    BY <2>1, <2>2
<1>4. C \in [1..(2 * n) -> W]
  BY <1>2, <1>3
<1>5. 2 * n \in Nat
  BY <1>1
<1>6. C \in Seq(W) /\ Len(C) = 2 * n
  BY <1>4, <1>5
<1>7. ASSUME NEW j \in 1..n PROVE C[2 * j - 1] = "--root" /\ C[2 * j] = roots[j]
  <2>1. /\ (2 * j - 1) % 2 = 1 /\ (2 * j) % 2 # 1 /\ (2 * j) \div 2 = j
        /\ 2 * j - 1 \in 1..(2 * n) /\ 2 * j \in 1..(2 * n)
    BY <1>1
  <2> QED
    BY <1>2, <2>1
<1> QED
  BY <1>6, <1>7 DEF n, C

(* What follows n + 1 members is the rest. *)
LEMMA RestOf ==
    ASSUME NEW W, NEW all \in Seq(W), NEW n \in Nat, NEW E \in Seq(W),
           Len(all) = n + Len(E), \A i \in 1..Len(E) : all[n + i] = E[i]
    PROVE  SubSeq(all, n + 1, Len(all)) = E
<1> DEFINE t == SubSeq(all, n + 1, Len(all))
<1>1. Len(E) \in Nat /\ Len(all) \in Nat /\ n + 1 \in Int /\ Len(all) \in Int
  OBVIOUS
<1>2. \A i \in (n + 1)..Len(all) : all[i] \in W
  BY <1>1
<1>3. /\ t \in Seq(W)
      /\ Len(t) = IF n + 1 <= Len(all) THEN Len(all) - (n + 1) + 1 ELSE 0
      /\ \A i \in 1..(Len(all) - (n + 1) + 1) : t[i] = all[(n + 1) + i - 1]
  BY ONLY <1>1, <1>2, SubSeqProperties
<1> HIDE DEF t
<1>4. Len(t) = Len(E)
  BY <1>1, <1>3
<1>5. ASSUME NEW i \in 1..Len(t) PROVE t[i] = E[i]
  <2>1. /\ i \in 1..(Len(all) - (n + 1) + 1) /\ i \in 1..Len(E)
        /\ (n + 1) + i - 1 = n + i
    BY <1>1, <1>4
  <2> QED
    BY <1>3, <2>1
<1>6. t = E
  BY <1>3, <1>4, <1>5, SeqEqual
<1> QED
  BY <1>6 DEF t

(* Flags up to a and b, r roots up to c, the terminator and the command. *)
Shape(config, roots, cmd, argv, W, a, b, c, r) ==
    /\ a = IF config.landlock THEN 3 ELSE 2
    /\ b = IF config.seccomp THEN a + 1 ELSE a
    /\ r = IF config.landlock THEN Len(roots) ELSE 0
    /\ c = b + 2 * r
    /\ argv \in Seq(W) /\ Len(argv) = (c + 1) + Len(cmd)
    /\ argv[1] = "--mode" /\ argv[2] = confine_mode_token(config.mode)
    /\ config.landlock => argv[3] = "--landlock"
    /\ config.seccomp => argv[a + 1] = "--seccomp"
    /\ \A j \in 1..r : /\ argv[b + (2 * j - 1)] = "--root"
                       /\ argv[b + 2 * j] = roots[j]
    /\ argv[c + 1] = "--"
    /\ SubSeq(argv, (c + 1) + 1, Len(argv)) = cmd

(* The pieces that build_confine_helper_argv puts together. *)
LEMMA ArgvPieces ==
    ASSUME NEW W, FlagWords \subseteq W, NEW config \in SandboxConfigs,
           NEW roots \in Seq(W), NEW cmd \in Seq(W), NEW argv,
           argv = build_confine_helper_argv(config, roots, cmd)
    PROVE  \E a \in Nat, b \in Nat, c \in Nat, r \in Nat :
              Shape(config, roots, cmd, argv, W, a, b, c, r)
<1> DEFINE m == confine_mode_token(config.mode)
           H == <<"--mode", m>>
           A == Flag(config.landlock, "--landlock")
           B == Flag(config.seccomp, "--seccomp")
           C == IF config.landlock THEN RootFlags(roots) ELSE <<>>
           D == <<"--">>
           r == IF config.landlock THEN Len(roots) ELSE 0
<1>1. argv = H \o A \o B \o C \o D \o cmd
  BY DEF build_confine_helper_argv
<1>2. config.landlock \in BOOLEAN /\ config.seccomp \in BOOLEAN
  BY DEF SandboxConfigs
<1>w. /\ "--mode" \in W /\ "required" \in W /\ "auto" \in W /\ "--landlock" \in W
      /\ "--seccomp" \in W /\ "--root" \in W /\ "--" \in W
  BY DEF FlagWords
<1>3. m \in W
  BY <1>w DEF confine_mode_token
<1> HIDE DEF m
<1>4. H \in Seq(W) /\ Len(H) = 2 /\ H[1] = "--mode" /\ H[2] = m
  BY <1>w, <1>3
<1>5. /\ A \in Seq(W) /\ Len(A) = (IF config.landlock THEN 1 ELSE 0)
      /\ config.landlock => A[1] = "--landlock"
  BY <1>w, <1>2 DEF Flag
<1>6. /\ B \in Seq(W) /\ Len(B) = (IF config.seccomp THEN 1 ELSE 0)
      /\ config.seccomp => B[1] = "--seccomp"
  BY <1>w, <1>2 DEF Flag
<1>7. /\ C \in Seq(W) /\ r \in Nat /\ Len(C) = 2 * r
      /\ \A j \in 1..r : C[2 * j - 1] = "--root" /\ C[2 * j] = roots[j]
  <2>1. CASE ~config.landlock
    BY <2>1
  <2>2. CASE config.landlock
    BY <1>w, <2>2, RootPairs
  <2> QED
    BY <2>1, <2>2
<1>8. D \in Seq(W) /\ Len(D) = 1 /\ D[1] = "--"
  BY <1>w
<1> HIDE DEF H, A, B, C, D
<1> DEFINE a == 2 + Len(A)
           b == a + Len(B)
           c == b + Len(C)
           d == c + Len(D)
<1>9. a \in Nat /\ b \in Nat /\ c \in Nat /\ d \in Nat /\ d = c + 1 /\ 2 \in Nat
  <2>1. Len(A) \in Nat /\ Len(B) \in Nat /\ Len(C) \in Nat
    BY <1>5, <1>6, <1>7
  <2> QED
    BY <1>8, <2>1
<1>10. /\ a = (IF config.landlock THEN 3 ELSE 2)
       /\ b = (IF config.seccomp THEN a + 1 ELSE a)
       /\ c = b + 2 * r
  BY <1>5, <1>6, <1>7
<1>11. a = 2 + Len(A) /\ b = a + Len(B) /\ c = b + Len(C) /\ d = c + Len(D)
  OBVIOUS
<1> HIDE DEF a, b, c, d
<1>12. /\ argv \in Seq(W) /\ Len(argv) = d + Len(cmd)
       /\ \A i \in 1..2 : argv[i] = H[i]
       /\ \A i \in 1..Len(A) : argv[2 + i] = A[i]
       /\ \A i \in 1..Len(B) : argv[a + i] = B[i]
       /\ \A i \in 1..Len(C) : argv[b + i] = C[i]
       /\ \A i \in 1..Len(D) : argv[c + i] = D[i]
       /\ \A i \in 1..Len(cmd) : argv[d + i] = cmd[i]
  <2> DEFINE h == 2
             s1 == H \o A
             s2 == s1 \o B
             s3 == s2 \o C
             s4 == s3 \o D
  <2>1. /\ A \in Seq(W) /\ B \in Seq(W) /\ C \in Seq(W) /\ D \in Seq(W)
        /\ H \in Seq(W) /\ h = Len(H) /\ h \in Nat /\ a = h + Len(A)
    BY <1>4, <1>5, <1>6, <1>7, <1>8, <1>11
  <2>2. s1 = H \o A /\ s2 = s1 \o B /\ s3 = s2 \o C /\ s4 = s3 \o D /\ argv = s4 \o cmd
    BY <1>1
  <2> HIDE DEF h, s1, s2, s3, s4
  <2>3. /\ Len(A) \in Nat /\ Len(B) \in Nat /\ Len(C) \in Nat /\ Len(D) \in Nat
        /\ h <= a /\ a <= b /\ b <= c /\ c <= d /\ d + Len(cmd) \in Nat
    BY <1>9, <1>11, <2>1
  <2>4. /\ s1 \in Seq(W) /\ a = Len(s1)
        /\ \A i \in 1..h : s1[i] = H[i]
        /\ \A i \in 1..Len(A) : s1[h + i] = A[i]
    BY ONLY <1>9, <2>1, <2>2, Joined
  <2>5. /\ s2 \in Seq(W) /\ b = Len(s2)
        /\ \A i \in 1..a : s2[i] = s1[i]
        /\ \A i \in 1..Len(B) : s2[a + i] = B[i]
    <3>1. /\ s1 \in Seq(W) /\ B \in Seq(W) /\ a \in Nat /\ a = Len(s1)
          /\ b \in Nat /\ b = a + Len(B) /\ s2 = s1 \o B
      BY <1>9, <1>11, <2>1, <2>2, <2>4
    <3> QED
      BY ONLY <3>1, Joined
  <2>6. /\ s3 \in Seq(W) /\ c = Len(s3)
        /\ \A i \in 1..b : s3[i] = s2[i]
        /\ \A i \in 1..Len(C) : s3[b + i] = C[i]
    <3>1. /\ s2 \in Seq(W) /\ C \in Seq(W) /\ b \in Nat /\ b = Len(s2)
          /\ c \in Nat /\ c = b + Len(C) /\ s3 = s2 \o C
      BY <1>9, <1>11, <2>1, <2>2, <2>5
    <3> QED
      BY ONLY <3>1, Joined
  <2>7. /\ s4 \in Seq(W) /\ d = Len(s4)
        /\ \A i \in 1..c : s4[i] = s3[i]
        /\ \A i \in 1..Len(D) : s4[c + i] = D[i]
    <3>1. /\ s3 \in Seq(W) /\ D \in Seq(W) /\ c \in Nat /\ c = Len(s3)
          /\ d \in Nat /\ d = c + Len(D) /\ s4 = s3 \o D
      BY <1>9, <1>11, <2>1, <2>2, <2>6
    <3> QED
      BY ONLY <3>1, Joined
  <2>8. /\ argv \in Seq(W) /\ Len(argv) = d + Len(cmd)
        /\ \A i \in 1..d : argv[i] = s4[i]
        /\ \A i \in 1..Len(cmd) : argv[d + i] = cmd[i]
    <3>1. /\ s4 \in Seq(W) /\ cmd \in Seq(W) /\ d \in Nat /\ d = Len(s4)
          /\ d + Len(cmd) \in Nat /\ argv = s4 \o cmd
      BY <1>9, <2>2, <2>3, <2>7
    <3> QED
      BY ONLY <3>1, Joined
  <2>9. \A i \in 1..c : i \in 1..d /\ argv[i] = s3[i]
    <3>1. c \in Nat /\ d \in Nat /\ c <= d
      BY <1>9, <2>3
    <3> QED
      BY ONLY <2>7, <2>8, <3>1
  <2>10. \A i \in 1..b : argv[i] = s2[i]
    <3>1. b \in Nat /\ c \in Nat /\ b <= c
      BY <1>9, <2>3
    <3> QED
      BY ONLY <2>6, <2>9, <3>1
  <2>11. \A i \in 1..a : argv[i] = s1[i]
    <3>1. a \in Nat /\ b \in Nat /\ a <= b
      BY <1>9, <2>3
    <3> QED
      BY ONLY <2>5, <2>10, <3>1
  <2>12. \A i \in 1..h : argv[i] = H[i]
    <3>1. h \in Nat /\ a \in Nat /\ h <= a
      BY <1>9, <2>1, <2>3
    <3> QED
      BY ONLY <2>4, <2>11, <3>1
  <2>13. /\ \A i \in 1..Len(A) : h + i \in 1..a
         /\ \A i \in 1..Len(B) : a + i \in 1..b
         /\ \A i \in 1..Len(C) : b + i \in 1..c
         /\ \A i \in 1..Len(D) : c + i \in 1..d
    <3>1. ASSUME NEW x \in Nat, NEW y \in Nat, NEW z \in Nat, y = x + z, NEW i \in 1..z
          PROVE  x + i \in 1..y
      BY ONLY <3>1
    <3> QED
      BY ONLY <1>9, <1>11, <2>1, <2>3, <3>1
  <2>14. \A i \in 1..Len(A) : argv[h + i] = A[i]
    BY ONLY <2>4, <2>11, <2>13
  <2>15. \A i \in 1..Len(B) : argv[a + i] = B[i]
    BY ONLY <2>5, <2>10, <2>13
  <2>16. \A i \in 1..Len(C) : argv[b + i] = C[i]
    BY ONLY <2>6, <2>9, <2>13
  <2>17. \A i \in 1..Len(D) : argv[c + i] = D[i]
    BY ONLY <2>7, <2>8, <2>13
  <2> QED
    BY <2>8, <2>12, <2>14, <2>15, <2>16, <2>17 DEF h
<1>13. argv[1] = "--mode" /\ argv[2] = m
  BY <1>4, <1>12
<1>14. config.landlock => argv[3] = "--landlock"
  <2> SUFFICES ASSUME config.landlock PROVE argv[3] = "--landlock"
    OBVIOUS
  <2>1. 1 \in 1..Len(A) /\ 2 + 1 = 3
    BY <1>5
  <2>2. argv[2 + 1] = A[1]
    BY <1>12, <2>1
  <2> QED
    BY <1>5, <2>1, <2>2
<1>15. config.seccomp => argv[a + 1] = "--seccomp"
  <2> SUFFICES ASSUME config.seccomp PROVE argv[a + 1] = "--seccomp"
    OBVIOUS
  <2>1. 1 \in 1..Len(B)
    BY <1>6
  <2> QED
    BY <1>6, <1>12, <2>1
<1>16. ASSUME NEW j \in 1..r
       PROVE  argv[b + (2 * j - 1)] = "--root" /\ argv[b + 2 * j] = roots[j]
  <2>1. 2 * j - 1 \in 1..(2 * r) /\ 2 * j \in 1..(2 * r)
    BY <1>7
  <2>2. 2 * j - 1 \in 1..Len(C) /\ 2 * j \in 1..Len(C)
    BY <1>7, <2>1
  <2> QED
    BY <1>7, <1>12, <2>2
<1>17. argv[c + 1] = "--"
  <2>1. 1 \in 1..Len(D)
    BY <1>8
  <2> QED
    BY <1>8, <1>12, <2>1
<1>18. SubSeq(argv, d + 1, Len(argv)) = cmd
  BY ONLY <1>9, <1>12, cmd \in Seq(W), RestOf
<1> HIDE DEF r
<1>19. Shape(config, roots, cmd, argv, W, a, b, c, r)
  BY <1>9, <1>10, <1>12, <1>13, <1>14, <1>15, <1>16, <1>17, <1>18 DEF Shape, m, r
<1> QED
  BY <1>7, <1>9, <1>19

(* What the in-jail helper reads back is what was decided outside, for     *)
(* every configuration, every list of roots and every command, also one    *)
(* whose own arguments look like the helper's flags: the roots are values  *)
(* of flags, and nothing behind the terminator is looked at                *)
(* (build_confine_helper_argv and parse_confine_args of sandbox.rs).       *)
THEOREM HelperReadsBack ==
    ASSUME NEW W, FlagWords \subseteq W, NEW config \in SandboxConfigs,
           NEW roots \in Seq(W), \A j \in 1..Len(roots) : roots[j] # EmptyWord,
           NEW cmd \in Seq(W), cmd # <<>>
    PROVE  parse_confine_args(build_confine_helper_argv(config, roots, cmd)) =
              [ok |-> TRUE, mode |-> confine_mode_token(config.mode),
               landlock |-> config.landlock, seccomp |-> config.seccomp,
               roots |-> IF config.landlock THEN roots ELSE <<>>,
               cmd |-> cmd]
<1> DEFINE argv == build_confine_helper_argv(config, roots, cmd)
           m == confine_mode_token(config.mode)
           l == config.landlock
           s == config.seccomp
<1>1. PICK a \in Nat, b \in Nat, c \in Nat, r \in Nat :
         Shape(config, roots, cmd, argv, W, a, b, c, r)
  BY ArgvPieces
<1>2. /\ a = (IF l THEN 3 ELSE 2) /\ b = (IF s THEN a + 1 ELSE a)
      /\ r = (IF l THEN Len(roots) ELSE 0) /\ c = b + 2 * r
      /\ Len(argv) = (c + 1) + Len(cmd)
      /\ argv[1] = "--mode" /\ argv[2] = m
      /\ (l => argv[3] = "--landlock") /\ (s => argv[a + 1] = "--seccomp")
  BY <1>1 DEF Shape
<1>3. /\ \A j \in 1..r : argv[b + (2 * j - 1)] = "--root" /\ argv[b + 2 * j] = roots[j]
      /\ argv[c + 1] = "--" /\ SubSeq(argv, (c + 1) + 1, Len(argv)) = cmd
  BY <1>1 DEF Shape
<1>4. l \in BOOLEAN /\ s \in BOOLEAN /\ m \in {"required", "auto"} /\ Len(cmd) \in Nat
  BY DEF SandboxConfigs, confine_mode_token
<1> HIDE DEF argv, m, l, s
<1>5. Len(argv) \in Nat /\ c + 1 <= Len(argv) /\ b <= c /\ a <= b /\ 2 <= a
  <2>1. a \in {2, 3} /\ b \in {a, a + 1}
    BY <1>2, <1>4
  <2> QED
    <3>1. c = b + 2 * r /\ Len(argv) = (c + 1) + Len(cmd) /\ Len(cmd) \in Nat
      BY <1>2, <1>4
    <3> QED
      BY ONLY <2>1, <3>1, r \in Nat, b \in Nat, c \in Nat
<1>6. PICK scan :
         /\ \A i \in 1..(Len(argv) + 2) :
               scan[i] = IF i > Len(argv) THEN Malformed
                         ELSE ReadArg(argv, i, scan[i + 1], scan[i + 2])
         /\ parse_confine_args(argv) =
               IF ~scan[1].ok \/ scan[1].mode = "unset" \/ scan[1].cmd = <<>>
               THEN Malformed ELSE scan[1]
  BY <1>5, ParsedByScan
<1>7. \A i \in 1..(c + 1) : scan[i] = ReadArg(argv, i, scan[i + 1], scan[i + 2])
  BY <1>5, <1>6
<1> DEFINE No == FALSE
           After(k) == Heard("unset", No, No, SubSeq(roots, (r - k) + 1, r), cmd)
           S == {k \in Nat : k <= r => scan[(c + 1) - 2 * k] = After(k)}
<1>8. 0 \in S
  <2>1. scan[c + 1] = Heard("unset", FALSE, FALSE, <<>>, cmd)
    <3>1. scan[c + 1] = ReadArg(argv, c + 1, scan[(c + 1) + 1], scan[(c + 1) + 2])
      BY <1>7
    <3> QED
      BY <1>3, <3>1, ReadsTerminator
  <2>2. SubSeq(roots, (r - 0) + 1, r) = <<>>
    BY SubSeqEmpty
  <2>3. (c + 1) - 2 * 0 = c + 1
    OBVIOUS
  <2> QED
    BY <2>1, <2>2, <2>3
<1> HIDE DEF No
<1>9. ASSUME NEW k \in Nat, k \in S PROVE k + 1 \in S
  <2> SUFFICES ASSUME k + 1 <= r PROVE scan[(c + 1) - 2 * (k + 1)] = After(k + 1)
    OBVIOUS
  <2> DEFINE j == r - k
             i == (c + 1) - 2 * (k + 1)
             R == SubSeq(roots, j + 1, r)
  <2>1. /\ j \in 1..r /\ i = b + (2 * j - 1) /\ i + 1 = b + 2 * j
        /\ i + 2 = (c + 1) - 2 * k /\ i \in 1..(c + 1) /\ i < Len(argv)
        /\ (r - (k + 1)) + 1 = j
    <3>1. c = b + 2 * r /\ c + 1 <= Len(argv) /\ Len(argv) \in Nat
      BY <1>2, <1>5
    <3> QED
      BY ONLY <3>1, r \in Nat, k \in Nat, k + 1 <= r, b \in Nat, c \in Nat DEF i, j
  <2>2. argv[i] = "--root" /\ argv[i + 1] = roots[j]
    BY <1>3, <2>1
  <2>3. scan[i + 2] = Heard("unset", No, No, R, cmd)
    BY <1>9, <2>1
  <2>4. r = Len(roots) /\ roots[j] # EmptyWord
    BY <1>2, <2>1
  <2>5. SubSeq(roots, j, r) = <<roots[j]>> \o R
    <3>1. j \in 1..Len(roots) /\ r \in j..Len(roots)
      BY <2>1, <2>4
    <3> QED
      BY <3>1, SubSeqRecursiveFirst
  <2>6. scan[i] = ReadArg(argv, i, scan[i + 1], scan[i + 2])
    BY <1>7, <2>1
  <2> HIDE DEF i, j, R
  <2>7. ReadArg(argv, i, scan[i + 1], scan[i + 2]) =
           Heard("unset", No, No, <<argv[i + 1]>> \o R, cmd)
    <3>1. argv[i + 1] # EmptyWord /\ i < Len(argv)
      BY <2>1, <2>2, <2>4
    <3> QED
      BY ONLY <2>2, <2>3, <3>1, ReadsRoot
  <2>8. scan[i] = Heard("unset", No, No, SubSeq(roots, j, r), cmd)
    BY <2>2, <2>5, <2>6, <2>7
  <2> QED
    BY <2>1, <2>8 DEF i
<1> DEFINE RR == IF l THEN roots ELSE <<>>
<1>10. scan[b + 1] = Heard("unset", No, No, RR, cmd)
  <2>1. Nat \subseteq S
    <3> HIDE DEF S
    <3> QED
      BY <1>8, <1>9, Induction
  <2>2. scan[(c + 1) - 2 * r] = After(r)
    BY <2>1
  <2>3. (c + 1) - 2 * r = b + 1 /\ (r - r) + 1 = 1
    <3>1. c = b + 2 * r
      BY <1>2
    <3> QED
      BY ONLY <3>1, r \in Nat, b \in Nat, c \in Nat
  <2>4. SubSeq(roots, 1, r) = RR
    <3>1. CASE l
      BY <1>2, <3>1, SubSeqFull
    <3>2. CASE ~l
      BY <1>2, <3>2, SubSeqEmpty
    <3> QED
      BY <3>1, <3>2
  <2> HIDE DEF RR
  <2> QED
    BY <2>2, <2>3, <2>4
<1> HIDE DEF RR, S
<1>11. scan[a + 1] = Heard("unset", No, s, RR, cmd)
  <2>1. CASE s
    <3>1. /\ argv[a + 1] = "--seccomp" /\ (a + 1) + 1 = b + 1 /\ a + 1 \in 1..(c + 1)
      BY <1>2, <1>5, <2>1
    <3>2. scan[a + 1] = ReadArg(argv, a + 1, scan[(a + 1) + 1], scan[(a + 1) + 2])
      BY <1>7, <3>1
    <3>3. ReadArg(argv, a + 1, scan[(a + 1) + 1], scan[(a + 1) + 2]) =
             Heard("unset", No, Yes, RR, cmd)
      <4>1. ~No
        BY DEF No
      <4>2. scan[(a + 1) + 1] = Heard("unset", No, No, RR, cmd)
        BY <1>10, <3>1
      <4> QED
        BY ONLY <3>1, <4>1, <4>2, ReadsSeccomp
    <3>4. s = Yes
      BY <1>4, <2>1 DEF Yes
    <3> QED
      BY <3>2, <3>3, <3>4
  <2>2. CASE ~s
    <3>1. s = No
      BY <1>4, <2>2 DEF No
    <3> QED
      BY <1>2, <1>10, <2>2, <3>1
  <2> QED
    BY <2>1, <2>2
<1>12. scan[3] = Heard("unset", l, s, RR, cmd)
  <2>1. CASE l
    <3>1. argv[3] = "--landlock" /\ 3 + 1 = a + 1 /\ 3 \in 1..(c + 1)
      BY <1>2, <1>5, <2>1
    <3>2. scan[3] = ReadArg(argv, 3, scan[3 + 1], scan[3 + 2])
      BY <1>7, <3>1
    <3>3. ReadArg(argv, 3, scan[3 + 1], scan[3 + 2]) = Heard("unset", Yes, s, RR, cmd)
      <4>1. ~No
        BY DEF No
      <4>2. scan[3 + 1] = Heard("unset", No, s, RR, cmd)
        BY <1>11, <3>1
      <4> QED
        BY ONLY <3>1, <4>1, <4>2, ReadsLandlock
    <3>4. l = Yes
      BY <1>4, <2>1 DEF Yes
    <3> QED
      BY <3>2, <3>3, <3>4
  <2>2. CASE ~l
    <3>1. l = No /\ a + 1 = 3
      BY <1>2, <1>4, <2>2 DEF No
    <3> QED
      BY <1>11, <3>1
  <2> QED
    BY <2>1, <2>2
<1>13. scan[1] = Heard(m, l, s, RR, cmd)
  <2>1. 1 \in 1..(c + 1) /\ 1 < Len(argv) /\ 1 + 1 = 2 /\ 1 + 2 = 3
    BY <1>5
  <2>2. scan[1] = ReadArg(argv, 1, scan[1 + 1], scan[1 + 2])
    BY <1>7, <2>1
  <2>3. argv[1] = "--mode" /\ argv[1 + 1] = m /\ argv[1 + 1] \in {"required", "auto"}
    BY <1>2, <1>4, <2>1
  <2>4. scan[1 + 2] = Heard("unset", l, s, RR, cmd)
    BY <1>12, <2>1
  <2>5. ReadArg(argv, 1, scan[1 + 1], scan[1 + 2]) = Heard(argv[1 + 1], l, s, RR, cmd)
    BY ONLY <2>1, <2>3, <2>4, ReadsMode
  <2> QED
    BY <2>2, <2>3, <2>5
<1>14. scan[1].ok /\ scan[1].mode # "unset" /\ scan[1].cmd # <<>>
  BY <1>4, <1>13 DEF Heard, Yes
<1>15. parse_confine_args(argv) = Heard(m, l, s, RR, cmd)
  BY <1>6, <1>13, <1>14
<1> QED
  BY <1>15 DEF argv, m, l, s, RR, Heard, Yes

(* So it does for the check of a setup. *)
LEMMA HelperGetsIt ==
    ASSUME setup \in Setups PROVE HelperGetsTheDecision
<1> SUFFICES ASSUME IsCheck
             PROVE  parse_confine_args(build_confine_helper_argv(setup.config, Roots,
                                                                 CheckCmd)) =
                        [ok |-> TRUE, mode |-> confine_mode_token(setup.config.mode),
                         landlock |-> setup.config.landlock,
                         seccomp |-> setup.config.seccomp,
                         roots |-> IF setup.config.landlock THEN Roots ELSE <<>>,
                         cmd |-> CheckCmd]
  BY DEF HelperGetsTheDecision
<1> DEFINE W == FlagWords \cup {"/work", "/tmp/nerve-check", "sh"}
<1>1. setup.config \in SandboxConfigs
  BY DEF Setups
<1>2. Roots \in Seq(W) /\ \A j \in 1..Len(Roots) : Roots[j] # EmptyWord
  <2>1. "/work" # EmptyWord /\ "/tmp/nerve-check" # EmptyWord
    BY Zenon DEF EmptyWord
  <2>2. Roots \in Seq(W) /\ Len(Roots) = 2
    BY DEF Roots
  <2>3. Roots[1] = "/work" /\ Roots[2] = "/tmp/nerve-check"
    BY DEF Roots
  <2> QED
    BY <2>1, <2>2, <2>3
<1>3. CheckCmd \in Seq(W) /\ CheckCmd # <<>>
  BY DEF CheckCmd, FlagWords
<1>4. FlagWords \subseteq W
  OBVIOUS
<1> HIDE DEF W
<1> QED
  BY <1>1, <1>2, <1>3, <1>4, HelperReadsBack

(***************************************************************************)
(* For every cap, pipe size and set of setups: when the caller has its     *)
(* result the child is gone, and in a cgroup its descendants too; a text   *)
(* or a pass means the child succeeded and all it wrote was read; a check  *)
(* in required mode neither wrote outside its roots nor, where the backend *)
(* confines, used a network that is off; the helper in the jail reads back *)
(* the confinement that was decided; and the spawn retries are bounded by  *)
(* themselves (adapter lib.rs run_prompt, goal.rs spawn_and_wait).         *)
(***************************************************************************)
THEOREM ChildStaysSupervised ==
    ASSUME NEW CONSTANT setups,
           setups \subseteq [setup : Setups, acts : Nat]
    PROVE  ChildInit(setups) /\ [][ChildNext]_childVars =>
              []ChildSupervised
<1>1. ChildInit(setups) => ChildInv
  <2> SUFFICES ASSUME ChildInit(setups) PROVE ChildInv
    OBVIOUS
  <2>1. /\ setup \in Setups /\ acts \in Nat /\ stage = "start" /\ result = "none"
        /\ tries = [count |-> 0, slept |-> 0] /\ group = "none" /\ touched = {}
        /\ child = [state |-> "none", code |-> "none", fork |-> FALSE]
    BY DEF ChildInit
  <2>2. child \in Children /\ child.state = "none"
    BY <2>1, ChildNames DEF Children
  <2>3. 0 \in 0..PipeSize /\ 0 \in 0..Cap
    BY ChildAssumption
  <2>4. io = NoIo /\ io \in [Streams -> Pipes]
    BY <2>3 DEF ChildInit, NoIo, Pipes
  <2>5. \A s \in Streams : PipeSound(s)
    BY <2>4 DEF NoIo, PipeSound
  <2> QED
    BY <2>1, <2>2, <2>4, <2>5, ChildNames
       DEF ChildInv, ChildTypes, TriesCounted, StageSound, CheckConfined, NoStrayChild
<1>2. ChildInv /\ [ChildNext]_childVars => ChildInv'
  <2> SUFFICES ASSUME ChildInv, [ChildNext]_childVars PROVE ChildInv'
    OBVIOUS
  <2>1. CASE ChildNext
    BY <2>1, BeforeSpawnKeeps, SpawnKeeps, RetryKeeps, DrainKeeps, ReturnKeeps,
       ChildStepKeeps
       DEF ChildNext, NerveStep
  <2>2. CASE UNCHANGED childVars
    BY <2>2 DEF childVars, ChildInv, ChildTypes, TriesCounted, StageSound,
                CheckConfined, NoStrayChild, PipeSound, Vetted, IsCheck
  <2> QED
    BY <2>1, <2>2
<1>3. ChildInv => ChildSupervised
  BY ChildInvImplies, HelperGetsIt DEF ChildInv, ChildTypes, ChildSupervised
<1> QED
  BY <1>1, <1>2, <1>3, PTL

-----------------------------------------------------------------------------
(***************************************************************************)
(* The worktree                                                            *)
(***************************************************************************)
USE WorktreeAssumption

-----------------------------------------------------------------------------
(***************************************************************************)
(* Types                                                                   *)
(***************************************************************************)

(* Everything a file may hold. *)
Contents ==
    {Original, Absent}
        \cup {<<"patch", r>> : r \in Runs}
        \cup {<<"owner", n>> : n \in Nat}
        \cup {<<"ref", n>> : n \in Nat}
Trees == [Paths -> Contents]

WtSteps == {"lock", "check", "discard", "bundle", "add", "ref", "apply",
            "commit", "head", "escape", "merge", "rewind", "cleanup", "done",
            "failed", "dead"}
Places == {"none", "worktree", "gone", "orphaned"}
Goals == {"prepare", "merge", "discard"}
WtStates == [pc : WtSteps, base : Nat, tip : Nat, bundle : BOOLEAN,
             place : Places, tree : Trees, goal : Goals]

WtTypes ==
    /\ commits \in Seq([parent : Nat, tree : Trees])
    /\ head \in Nat /\ 0 < head /\ head <= Len(commits)
    /\ work \in Trees
    /\ wtRun \in [Runs -> WtStates]
    /\ \A r \in Runs : /\ wtRun[r].base <= Len(commits)
                       /\ wtRun[r].tip <= Len(commits)
    /\ wlock \in Runs \cup {Nobody}
    /\ wrote \in [Files -> Contents]
    /\ raced \in BOOLEAN
    /\ writes \in 0 .. MaxWrites

-----------------------------------------------------------------------------
(***************************************************************************)
(* The inductive invariant                                                 *)
(***************************************************************************)

PatchOf(r) == <<"patch", r>>

(* The trees c and d differ only in the file of run r, from what its patch *)
(* was made for to what it makes of it (main-pre.ref aside).               *)
PatchBetween(r, old, new) ==
    /\ old[Target[r]] = Original /\ new[Target[r]] = PatchOf(r)
    /\ \A f \in Files : f # Target[r] => new[f] = old[f]

(* What a run has in its worktree at every step. *)
Prepared(r) ==
    /\ wtRun[r].pc \in {"bundle", "add", "ref", "apply", "commit"}
          => wtRun[r].goal = "prepare"
    /\ wtRun[r].pc \in {"add", "ref", "apply", "commit"} => wtRun[r].base > 0
    /\ wtRun[r].pc \in {"ref", "apply"} =>
          \A f \in Files : wtRun[r].tree[f] = TreeOf(wtRun[r].base)[f]
    /\ wtRun[r].pc = "commit" =>
          PatchBetween(r, TreeOf(wtRun[r].base), wtRun[r].tree)
    /\ wtRun[r].pc = "check" => wtRun[r].goal # "discard"
    /\ wtRun[r].pc = "discard" => wtRun[r].goal = "discard"
    /\ wtRun[r].place # "none" => wtRun[r].bundle
    /\ wtRun[r].goal # "prepare" => wtRun[r].bundle
    /\ wtRun[r].pc \in {"add", "ref", "apply", "commit"} => wtRun[r].bundle

(* And what its commit holds once there is one. *)
Committed(r) ==
    /\ wtRun[r].pc \in Window \cup {"cleanup"} => wtRun[r].goal = "merge"
    /\ wtRun[r].goal = "merge" /\ wtRun[r].pc \notin Final =>
          /\ wtRun[r].base > 0 /\ wtRun[r].tip > 0
          /\ PatchBetween(r, TreeOf(wtRun[r].base), TreeOf(wtRun[r].tip))

(* The lock covers everything but the work inside the worktree. *)
Guarded(r) ==
    wtRun[r].pc \notin Final \cup {"lock", "apply", "commit"} => wlock = r

(* Unless the owner raced it, a merge meets the main tree it checked. *)
Undisturbed(r) ==
    ~raced =>
        /\ wtRun[r].pc \in Window => Clean
        /\ wtRun[r].pc \in Window \ {"head"} => head = wtRun[r].base

(* Until a run merges, its patch is nowhere but in its own worktree and    *)
(* commit: not in the main tree, nor in what any run starts from or any    *)
(* other run has made.                                                     *)
Unmerged(r) ==
    wtRun[r].pc \notin {"cleanup", "done", "dead"} =>
        /\ work[Target[r]] # PatchOf(r)
        /\ TreeOf(head)[Target[r]] # PatchOf(r)
        /\ \A q \in Runs :
              /\ wtRun[q].base > 0 =>
                    TreeOf(wtRun[q].base)[Target[r]] # PatchOf(r)
              /\ q # r => wtRun[q].tree[Target[r]] # PatchOf(r)
              /\ q # r /\ wtRun[q].tip > 0 =>
                    TreeOf(wtRun[q].tip)[Target[r]] # PatchOf(r)

(* What the owner wrote is theirs. *)
OwnersWords ==
    \A f \in Files : \/ wrote[f] = Absent
                     \/ \E n \in 1 .. MaxWrites : wrote[f] = <<"owner", n>>

(* A merged file shows the patch, or what the owner made of it. *)
Kept(r) ==
    ~raced /\ wtRun[r].pc \in {"cleanup", "done"} =>
        work[Target[r]] \in {PatchOf(r), wrote[Target[r]]}

WtInv ==
    /\ OwnersWords /\ OwnerWorkKept
    /\ \A r \in Runs :
          /\ Prepared(r) /\ Committed(r) /\ Guarded(r)
          /\ Undisturbed(r) /\ Unmerged(r) /\ Kept(r)


-----------------------------------------------------------------------------
(***************************************************************************)
(* What a step does to the state of one run                                *)
(***************************************************************************)

(* The step touches the state of run r and of no other. *)
Only(r) ==
    /\ wtRun' \in [Runs -> WtStates]
    /\ \A q \in Runs : q # r => wtRun'[q] = wtRun[q]

(* A commit holds a tree. *)
LEMMA TreesOfCommits ==
    ASSUME WtTypes, NEW c \in Nat, c > 0, c <= Len(commits)
    PROVE  TreeOf(c) \in Trees
<1> DEFINE R == [parent : Nat, tree : Trees]
<1>1. commits \in Seq(R)
  BY DEF WtTypes
<1>2. c \in 1 .. Len(commits)
  BY <1>1
<1>3. commits[c] \in R
  <2> HIDE DEF R
  <2> QED
    BY <1>1, <1>2
<1> QED
  BY <1>3 DEF TreeOf

(* A step that only moves run r to step p. *)
Moves(r, p) ==
    /\ wtRun'[r].pc = p
    /\ wtRun'[r].base = wtRun[r].base
    /\ wtRun'[r].tip = wtRun[r].tip
    /\ wtRun'[r].bundle = wtRun[r].bundle
    /\ wtRun'[r].place = wtRun[r].place
    /\ wtRun'[r].tree = wtRun[r].tree
    /\ wtRun'[r].goal = wtRun[r].goal

(* Most steps set nothing but the program counter. *)
LEMMA SetPc ==
    ASSUME WtTypes, NEW r \in Runs, NEW p \in WtSteps,
           wtRun' = [wtRun EXCEPT ![r].pc = p]
    PROVE  Only(r) /\ Moves(r, p)
<1>1. wtRun[r] \in WtStates
  BY DEF WtTypes
<1>2. [wtRun[r] EXCEPT !.pc = p] \in WtStates
  BY <1>1 DEF WtStates
<1>3. wtRun' = [wtRun EXCEPT ![r] = [wtRun[r] EXCEPT !.pc = p]]
  OBVIOUS
<1>4. wtRun'[r] = [wtRun[r] EXCEPT !.pc = p]
  BY <1>3 DEF WtTypes
<1>5. Moves(r, p)
  BY <1>1, <1>4 DEF Moves, WtStates
<1>6. Only(r)
  BY <1>2, <1>3 DEF Only, WtTypes
<1> QED
  BY <1>5, <1>6

(* cleanup_worktree removes the worktree and its branch, or moves it out   *)
(* of the way: what the run was made from stays.                           *)
LEMMA CleansUp ==
    ASSUME WtTypes, NEW r \in Runs, NEW p \in WtSteps,
           \/ wtRun' = [wtRun EXCEPT ![r] = Removed(@, p)]
           \/ wtRun' = [wtRun EXCEPT ![r] = Quarantined(@, p)]
    PROVE  /\ Only(r)
           /\ wtRun'[r].pc = p
           /\ wtRun'[r].base = wtRun[r].base
           /\ wtRun'[r].tip \in {0, wtRun[r].tip}
           /\ wtRun'[r].bundle = wtRun[r].bundle
           /\ wtRun[r].place # "none" => wtRun'[r].place # "none"
           /\ wtRun'[r].tree = wtRun[r].tree
           /\ wtRun'[r].goal = wtRun[r].goal
<1> DEFINE A == [wtRun[r] EXCEPT !.pc = p, !.place = "gone", !.tip = 0]
           B == [wtRun[r] EXCEPT !.pc = p, !.place = "orphaned"]
<1>1. wtRun[r] \in WtStates
  BY DEF WtTypes
<1>2. "gone" \in Places /\ "orphaned" \in Places
  BY DEF Places
<1>3. A \in WtStates /\ B \in WtStates
  BY <1>1, <1>2 DEF WtStates
<1>4. PICK s \in {A, B} : wtRun' = [wtRun EXCEPT ![r] = s]
  BY DEF Removed, Quarantined
<1>5. wtRun'[r] = s
  BY <1>4 DEF WtTypes
<1>6. Only(r)
  BY <1>3, <1>4 DEF Only, WtTypes
<1>7. CASE s = A
  BY <1>1, <1>5, <1>6, <1>7 DEF WtStates
<1>8. CASE s = B
  BY <1>1, <1>5, <1>6, <1>8 DEF WtStates
<1> QED
  BY <1>7, <1>8

-----------------------------------------------------------------------------
(***************************************************************************)
(* Steps that leave the main tree alone                                    *)
(***************************************************************************)

(* What a step of run r that leaves the main tree alone has to show for    *)
(* the invariant to hold after it.                                         *)
Quiet(r) ==
    /\ UNCHANGED mainVars
    /\ Only(r)
    /\ \A q \in Runs : q # r /\ wlock = q => wlock' = q
    /\ wlock' \in Runs \cup {Nobody}
    /\ Prepared(r)' /\ Committed(r)' /\ Guarded(r)' /\ Undisturbed(r)'
    /\ wtRun[r].pc \in {"cleanup", "done", "dead"}
          => wtRun'[r].pc \in {"cleanup", "done", "dead"}
    /\ wtRun'[r].pc \in {"cleanup", "done"} => wtRun[r].pc \in {"cleanup", "done"}
    /\ wtRun'[r].base \in {wtRun[r].base, head}
    /\ wtRun'[r].tip \in {0, wtRun[r].tip, wtRun[r].base}
    /\ \A f \in Files :
          \/ wtRun'[r].tree[f] = wtRun[r].tree[f]
          \/ wtRun'[r].tree[f] = PatchOf(r)
          \/ wtRun[r].base > 0 /\ wtRun'[r].tree[f] = TreeOf(wtRun[r].base)[f]

(* Such a step keeps the types, *)
LEMMA QuietTypes ==
    ASSUME WtTypes, NEW r \in Runs, Quiet(r)
    PROVE  WtTypes'
<1>1. \A q \in Runs : wtRun'[q].base <= Len(commits) /\ wtRun'[q].tip <= Len(commits)
  <2> TAKE q \in Runs
  <2>1. CASE q = r
    BY <2>1 DEF WtTypes, Quiet, WtStates
  <2>2. CASE q # r
    BY <2>2 DEF WtTypes, Quiet, Only
  <2> QED
    BY <2>1, <2>2
<1> QED
  BY <1>1 DEF WtTypes, Quiet, Only, mainVars

(* and what is known of the main tree and of the other runs. *)
LEMMA QuietKeeps ==
    ASSUME WtTypes, WtInv, NEW r \in Runs, Quiet(r)
    PROVE  WtInv'
<1>1. OwnersWords' /\ OwnerWorkKept'
  BY DEF WtInv, OwnersWords, OwnerWorkKept, Quiet, mainVars
<1>2. \A q \in Runs : q # r =>
          Prepared(q)' /\ Committed(q)' /\ Guarded(q)' /\ Undisturbed(q)' /\ Kept(q)'
  <2> SUFFICES ASSUME NEW q \in Runs, q # r
               PROVE Prepared(q)' /\ Committed(q)' /\ Guarded(q)' /\ Undisturbed(q)' /\ Kept(q)'
    OBVIOUS
  <2>0. wtRun'[q] = wtRun[q] /\ UNCHANGED mainVars
    BY DEF Quiet, Only
  <2>1. Prepared(q)'
    BY <2>0 DEF WtInv, Prepared, PatchBetween, TreeOf, mainVars
  <2>2. Committed(q)'
    BY <2>0 DEF WtInv, Committed, PatchBetween, TreeOf, mainVars
  <2>3. Guarded(q)'
    BY <2>0 DEF WtInv, Guarded, Quiet
  <2>4. Undisturbed(q)'
    BY <2>0 DEF WtInv, Undisturbed, Clean, TreeOf, mainVars
  <2>5. Kept(q)'
    BY <2>0 DEF WtInv, Kept, mainVars
  <2> QED
    BY <2>1, <2>2, <2>3, <2>4, <2>5
<1>3. Kept(r)'
  BY DEF WtInv, Kept, Quiet, mainVars
<1>4. \A q \in Runs : Unmerged(q)'
  <2> SUFFICES ASSUME NEW q \in Runs,
                      wtRun'[q].pc \notin {"cleanup", "done", "dead"}
               PROVE  /\ work'[Target[q]] # PatchOf(q)
                      /\ TreeOf(head)'[Target[q]] # PatchOf(q)
                      /\ \A p \in Runs :
                            /\ wtRun'[p].base > 0 =>
                                  TreeOf(wtRun[p].base)'[Target[q]] # PatchOf(q)
                            /\ p # q => wtRun'[p].tree[Target[q]] # PatchOf(q)
                            /\ p # q /\ wtRun'[p].tip > 0 =>
                                  TreeOf(wtRun[p].tip)'[Target[q]] # PatchOf(q)
    BY DEF Unmerged
  <2>1. wtRun[q].pc \notin {"cleanup", "done", "dead"}
    BY DEF Quiet, Only
  <2>2. /\ work[Target[q]] # PatchOf(q)
        /\ TreeOf(head)[Target[q]] # PatchOf(q)
        /\ \A p \in Runs :
              /\ wtRun[p].base > 0 => TreeOf(wtRun[p].base)[Target[q]] # PatchOf(q)
              /\ p # q => wtRun[p].tree[Target[q]] # PatchOf(q)
              /\ p # q /\ wtRun[p].tip > 0 =>
                    TreeOf(wtRun[p].tip)[Target[q]] # PatchOf(q)
    BY <2>1 DEF WtInv, Unmerged
  <2>3. work' = work /\ head' = head /\ commits' = commits
    BY DEF Quiet, mainVars
  <2>4. work'[Target[q]] # PatchOf(q) /\ TreeOf(head)'[Target[q]] # PatchOf(q)
    BY <2>2, <2>3 DEF TreeOf
  <2> SUFFICES ASSUME NEW p \in Runs
               PROVE  /\ wtRun'[p].base > 0 =>
                            TreeOf(wtRun[p].base)'[Target[q]] # PatchOf(q)
                      /\ p # q => wtRun'[p].tree[Target[q]] # PatchOf(q)
                      /\ p # q /\ wtRun'[p].tip > 0 =>
                            TreeOf(wtRun[p].tip)'[Target[q]] # PatchOf(q)
    BY <2>4
  <2>5. CASE p # r
    BY <2>2, <2>3, <2>5 DEF Quiet, Only, TreeOf
  <2>6. CASE p = r
    <3>1. wtRun'[p].base > 0 => TreeOf(wtRun[p].base)'[Target[q]] # PatchOf(q)
      BY <2>2, <2>3, <2>6 DEF Quiet, TreeOf
    <3>2. ASSUME p # q PROVE wtRun'[p].tree[Target[q]] # PatchOf(q)
      <4>1. PatchOf(p) # PatchOf(q)
        BY <3>2 DEF PatchOf
      <4> QED
        BY <4>1, <2>2, <2>6, <3>2 DEF Quiet
    <3>3. p # q /\ wtRun'[p].tip > 0 => TreeOf(wtRun[p].tip)'[Target[q]] # PatchOf(q)
      BY <2>2, <2>3, <2>6 DEF Quiet, TreeOf
    <3> QED
      BY <3>1, <3>2, <3>3
  <2> QED
    BY <2>5, <2>6
<1> QED
  BY <1>1, <1>2, <1>3, <1>4 DEF WtInv, Quiet

(* A step that only moves the run on, from a step p it has not ended at to *)
(* one that asks nothing new of its worktree.                              *)
LEMMA MoveQuiet ==
    ASSUME WtTypes, WtInv, NEW r \in Runs,
           NEW p \in WtSteps \ {"add", "ref", "apply", "commit", "cleanup", "done"},
           wtRun' = [wtRun EXCEPT ![r].pc = p],
           UNCHANGED mainVars,
           wtRun[r].pc \notin Final,
           wtRun[r].pc = "cleanup" => p = "dead",
           \A q \in Runs : q # r /\ wlock = q => wlock' = q,
           wlock' \in Runs \cup {Nobody},
           p \notin Final \cup {"lock", "apply", "commit"} => wlock' = r,
           p = "bundle" => wtRun[r].goal = "prepare",
           p = "check" => wtRun[r].goal # "discard",
           p = "discard" => wtRun[r].goal = "discard",
           p \in Window => wtRun[r].goal = "merge",
           ~raced => /\ p \in Window => Clean
                     /\ p \in Window \ {"head"} => head = wtRun[r].base
    PROVE  Quiet(r)
<1>1. Only(r) /\ Moves(r, p)
  BY SetPc
<1>2. commits' = commits /\ head' = head /\ work' = work /\ raced' = raced
  BY DEF mainVars
<1>3. Prepared(r)'
  BY <1>1, <1>2 DEF WtInv, Prepared, Moves
<1>4. Committed(r)'
  BY <1>1, <1>2 DEF WtInv, Committed, Moves, Final, PatchBetween, TreeOf
<1>5. Guarded(r)'
  BY <1>1 DEF Guarded, Moves
<1>6. Undisturbed(r)'
  BY <1>1, <1>2 DEF Undisturbed, Moves, Clean, TreeOf
<1> QED
  BY <1>1, <1>3, <1>4, <1>5, <1>6 DEF Quiet, Moves, Final

(* A step that cleans up the worktree and ends the run. *)
LEMMA CleanQuiet ==
    ASSUME WtTypes, WtInv, NEW r \in Runs, NEW p \in {"done", "failed"},
           \/ wtRun' = [wtRun EXCEPT ![r] = Removed(@, p)]
           \/ wtRun' = [wtRun EXCEPT ![r] = Quarantined(@, p)],
           UNCHANGED mainVars,
           wtRun[r].pc \in {"head", "escape", "cleanup", "discard"},
           p = "done" <=> wtRun[r].pc = "cleanup",
           wlock' = Nobody
    PROVE  Quiet(r)
<1>0. p \in WtSteps
  BY DEF WtSteps
<1>1. /\ Only(r)
      /\ wtRun'[r].pc = p
      /\ wtRun'[r].base = wtRun[r].base
      /\ wtRun'[r].tip \in {0, wtRun[r].tip}
      /\ wtRun'[r].bundle = wtRun[r].bundle
      /\ wtRun'[r].tree = wtRun[r].tree
      /\ wtRun'[r].goal = wtRun[r].goal
  BY <1>0, CleansUp
<1>2. wlock = r
  BY DEF WtInv, Guarded, Final
<1>3. Prepared(r)'
  <2>1. wtRun[r].goal # "prepare"
    BY DEF WtInv, Prepared, Committed, Window
  <2> QED
    BY <1>1, <2>1 DEF WtInv, Prepared
<1>4. Committed(r)'
  BY <1>1 DEF Committed, Final, Window
<1>5. Guarded(r)'
  BY <1>1 DEF Guarded, Final
<1>6. Undisturbed(r)'
  BY <1>1 DEF Undisturbed, Window
<1>7. \A q \in Runs : q # r /\ wlock = q => wlock' = q
  BY <1>2
<1> QED
  BY <1>1, <1>3, <1>4, <1>5, <1>6, <1>7 DEF Quiet

(* The lock, the checks of the main tree and a run's end leave both the    *)
(* main tree and the worktree alone.                                       *)
LEMMA AcquireQuiet ==
    ASSUME WtTypes, WtInv, NEW r \in Runs, Acquire(r)
    PROVE  Quiet(r)
<1> DEFINE p == IF wtRun[r].goal = "discard" THEN "discard" ELSE "check"
<1>1. p \in WtSteps \ {"add", "ref", "apply", "commit", "cleanup", "done"}
  BY DEF WtSteps
<1>2. /\ p \notin Window /\ p # "bundle"
      /\ p = "check" => wtRun[r].goal # "discard"
      /\ p = "discard" => wtRun[r].goal = "discard"
  BY DEF Window
<1>3. wtRun[r].pc = "lock" /\ wlock = Nobody /\ wlock' = r /\ UNCHANGED mainVars
  BY DEF Acquire, At
<1>4. wtRun' = [wtRun EXCEPT ![r].pc = p]
  BY DEF Acquire
<1> HIDE DEF p
<1> QED
  BY <1>1, <1>2, <1>3, <1>4, MoveQuiet DEF Final

(* A run that refuses a dirty tree or fails to prepare frees the lock and  *)
(* touches nothing.                                                        *)
LEMMA RefuseQuiet ==
    ASSUME WtTypes, WtInv, NEW r \in Runs, Refuse(r) \/ PrepareFails(r)
    PROVE  Quiet(r)
<1>1. wtRun[r].pc \in {"check", "bundle", "add", "ref"}
  BY DEF Refuse, PrepareFails, At
<1>2. wlock = r
  BY <1>1 DEF WtInv, Guarded, Final
<1>3. "failed" \in WtSteps \ {"add", "ref", "apply", "commit", "cleanup", "done"}
  BY DEF WtSteps
<1> QED
  BY <1>1, <1>2, <1>3, MoveQuiet DEF Refuse, PrepareFails, Release, Final, Window

(* A clean main tree only lets the run go on. *)
LEMMA CheckCleanQuiet ==
    ASSUME WtTypes, WtInv, NEW r \in Runs, CheckClean(r)
    PROVE  Quiet(r)
<1> DEFINE p == IF wtRun[r].goal = "prepare" THEN "bundle" ELSE "head"
<1>1. p \in WtSteps \ {"add", "ref", "apply", "commit", "cleanup", "done"}
  BY DEF WtSteps
<1>2. wtRun[r].pc = "check" /\ Clean /\ UNCHANGED <<mainVars, wlock>>
  BY DEF CheckClean, At
<1>3. wlock = r
  BY <1>2 DEF WtInv, Guarded, Final
<1>4. p \in Window => p = "head" /\ wtRun[r].goal \in {"merge", "discard"}
  BY DEF Window, WtTypes, WtStates, Goals
<1>5. wtRun[r].goal # "discard"
  BY <1>2 DEF WtInv, Prepared
<1>6. wtRun' = [wtRun EXCEPT ![r].pc = p]
  BY DEF CheckClean
<1>7. p \in {"bundle", "head"} /\ (p = "bundle" => wtRun[r].goal = "prepare")
  OBVIOUS
<1> HIDE DEF p
<1> QED
  BY <1>1, <1>2, <1>3, <1>4, <1>5, <1>6, <1>7, MoveQuiet DEF Final

(* Whether HEAD is still the base decides between going on and giving up;  *)
(* neither writes to the main tree.                                        *)
LEMMA CheckHeadQuiet ==
    ASSUME WtTypes, WtInv, NEW r \in Runs, CheckHead(r)
    PROVE  Quiet(r)
<1>1. wtRun[r].pc = "head" /\ UNCHANGED mainVars
  BY DEF CheckHead, At
<1>2. wlock = r
  BY <1>1 DEF WtInv, Guarded, Final
<1>3. CASE head = wtRun[r].base
  <2>1. "escape" \in WtSteps \ {"add", "ref", "apply", "commit", "cleanup", "done"}
    BY DEF WtSteps
  <2>2. wtRun' = [wtRun EXCEPT ![r].pc = "escape"] /\ wlock' = wlock
    BY <1>3 DEF CheckHead
  <2>3. wtRun[r].goal = "merge" /\ (~raced => Clean)
    BY <1>1 DEF WtInv, Committed, Undisturbed, Window
  <2> QED
    BY <1>1, <1>2, <1>3, <2>1, <2>2, <2>3, MoveQuiet DEF Final
<1>4. CASE head # wtRun[r].base
  <2>1. /\ \/ wtRun' = [wtRun EXCEPT ![r] = Removed(@, "failed")]
           \/ wtRun' = [wtRun EXCEPT ![r] = Quarantined(@, "failed")]
        /\ wlock' = Nobody
    BY <1>4 DEF CheckHead, CleanUp, Release
  <2> QED
    BY <1>1, <2>1, CleanQuiet
<1> QED
  BY <1>3, <1>4

(* The checks for an escape and a merge that git refuses only choose the   *)
(* next step.                                                              *)
LEMMA EscapeQuiet ==
    ASSUME WtTypes, WtInv, NEW r \in Runs, VerifyNoEscape(r) \/ MergeRefused(r)
    PROVE  Quiet(r)
<1>1. PICK p \in {"merge", "rewind"} :
          /\ wtRun[r].pc \in {"escape", "merge"}
          /\ wtRun' = [wtRun EXCEPT ![r].pc = p]
          /\ UNCHANGED mainVars /\ wlock' = wlock
  BY DEF VerifyNoEscape, MergeRefused, At
<1>2. wlock = r
  BY <1>1 DEF WtInv, Guarded, Final
<1>3. p \in WtSteps \ {"add", "ref", "apply", "commit", "cleanup", "done"}
  BY DEF WtSteps
<1>4. wtRun[r].goal = "merge" /\ (~raced => Clean /\ head = wtRun[r].base)
  BY <1>1 DEF WtInv, Committed, Undisturbed, Window
<1> QED
  BY <1>1, <1>2, <1>3, <1>4, MoveQuiet DEF Final

(* Removing the worktree of a round, merged, escaped or discarded, leaves  *)
(* the main tree alone.                                                    *)
LEMMA CleanUpQuiet ==
    ASSUME WtTypes, WtInv, NEW r \in Runs,
           EscapeFound(r) \/ CleanMerged(r) \/ DiscardRound(r)
    PROVE  Quiet(r)
<1>1. CASE EscapeFound(r)
  BY <1>1, CleanQuiet DEF EscapeFound, At, Release
<1>2. CASE CleanMerged(r)
  BY <1>2, CleanQuiet DEF CleanMerged, At, Release, CleanUp
<1>3. CASE DiscardRound(r)
  BY <1>3, CleanQuiet DEF DiscardRound, At, Release, CleanUp
<1> QED
  BY <1>1, <1>2, <1>3

(* A run that dies leaves the files, the commits and the lock as they are. *)
LEMMA DieQuiet ==
    ASSUME WtTypes, WtInv, NEW r \in Runs, Die(r)
    PROVE  Quiet(r)
<1>1. "dead" \in WtSteps \ {"add", "ref", "apply", "commit", "cleanup", "done"}
  BY DEF WtSteps
<1>2. /\ wtRun[r].pc \notin Final /\ UNCHANGED mainVars
      /\ wtRun' = [wtRun EXCEPT ![r].pc = "dead"]
      /\ wlock' \in Runs \cup {Nobody}
      /\ \A q \in Runs : q # r /\ wlock = q => wlock' = q
  BY DEF Die, WtTypes
<1> QED
  BY <1>1, <1>2, MoveQuiet DEF Final, Window

(* prepare_round: the worktree is a copy of the commit it recorded. *)
LEMMA RecordHeadQuiet ==
    ASSUME WtTypes, WtInv, NEW r \in Runs, RecordHead(r)
    PROVE  Quiet(r)
<1> DEFINE s == [wtRun[r] EXCEPT !.pc = "add", !.base = head, !.bundle = TRUE]
<1>1. wtRun[r].pc = "bundle" /\ UNCHANGED <<mainVars, wlock>>
  BY DEF RecordHead, At
<1>2. wlock = r /\ wtRun[r].goal = "prepare"
  BY <1>1 DEF WtInv, Guarded, Prepared, Final
<1>3. wtRun' = [wtRun EXCEPT ![r] = s]
  BY DEF RecordHead
<1>4. wtRun[r] \in WtStates /\ "add" \in WtSteps /\ TRUE \in BOOLEAN /\ head \in Nat
  BY DEF WtTypes, WtSteps
<1>5. s \in WtStates
  BY <1>4 DEF WtStates
<1>6. Only(r) /\ wtRun'[r] = s
  BY <1>3, <1>5 DEF Only, WtTypes
<1>7. /\ wtRun'[r].pc = "add" /\ wtRun'[r].base = head
      /\ wtRun'[r].tip = wtRun[r].tip
      /\ wtRun'[r].bundle /\ wtRun'[r].place = wtRun[r].place
      /\ wtRun'[r].tree = wtRun[r].tree /\ wtRun'[r].goal = "prepare"
  BY <1>2, <1>4, <1>6 DEF WtStates
<1> HIDE DEF s
<1>8. Prepared(r)'
  BY <1>7 DEF Prepared, WtTypes
<1>9. Committed(r)' /\ Guarded(r)' /\ Undisturbed(r)'
  BY <1>1, <1>2, <1>7 DEF Committed, Guarded, Undisturbed, Window
<1> QED
  BY <1>1, <1>2, <1>6, <1>7, <1>8, <1>9 DEF Quiet

(* git worktree add fills the worktree from the base commit. *)
LEMMA AddWorktreeQuiet ==
    ASSUME WtTypes, WtInv, NEW r \in Runs, AddWorktree(r)
    PROVE  Quiet(r)
<1> DEFINE b == wtRun[r].base
           s == [wtRun[r] EXCEPT !.pc = "ref", !.place = "worktree", !.tip = b,
                                 !.tree = TreeOf(b)]
<1>1. wtRun[r].pc = "add" /\ UNCHANGED <<mainVars, wlock>>
  BY DEF AddWorktree, At
<1>2. /\ wlock = r /\ wtRun[r].goal = "prepare"
      /\ b \in Nat /\ b > 0 /\ b <= Len(commits)
  BY <1>1 DEF WtInv, Guarded, Prepared, Final, WtTypes, WtStates
<1>b. wtRun[r].bundle
  BY <1>1 DEF WtInv, Prepared
<1>3. wtRun' = [wtRun EXCEPT ![r] = s]
  BY DEF AddWorktree
<1>4. TreeOf(b) \in Trees
  BY <1>2, TreesOfCommits
<1>5. wtRun[r] \in WtStates /\ "ref" \in WtSteps /\ "worktree" \in Places
  BY DEF WtTypes, WtSteps, Places
<1>6. s \in WtStates
  BY <1>2, <1>4, <1>5 DEF WtStates
<1>7. Only(r) /\ wtRun'[r] = s
  BY <1>3, <1>6 DEF Only, WtTypes
<1>8. /\ wtRun'[r].pc = "ref" /\ wtRun'[r].base = b
      /\ wtRun'[r].tip = b
      /\ wtRun'[r].bundle
      /\ wtRun'[r].tree = TreeOf(b) /\ wtRun'[r].goal = "prepare"
  BY <1>2, <1>b, <1>5, <1>7 DEF WtStates
<1> HIDE DEF s
<1>9. Prepared(r)'
  BY <1>1, <1>2, <1>8 DEF Prepared, TreeOf, mainVars
<1>10. Committed(r)' /\ Guarded(r)' /\ Undisturbed(r)'
  BY <1>1, <1>2, <1>8 DEF Committed, Guarded, Undisturbed, Window
<1> QED
  BY <1>1, <1>2, <1>7, <1>8, <1>9, <1>10 DEF Quiet

(* The pre-apply reference is a file of the worktree, not of the main tree. *)
LEMMA WritePreRefQuiet ==
    ASSUME WtTypes, WtInv, NEW r \in Runs, WritePreRef(r)
    PROVE  Quiet(r)
<1> DEFINE t == [wtRun[r].tree EXCEPT ![RefFile] = <<"ref", wtRun[r].base>>]
           s == [wtRun[r] EXCEPT !.pc = "apply", !.tree = t]
<1>1. wtRun[r].pc = "ref" /\ UNCHANGED mainVars /\ wlock' = Nobody
  BY DEF WritePreRef, At, Release
<1>b. wtRun[r].bundle
  BY <1>1 DEF WtInv, Prepared
<1>2. /\ wlock = r /\ wtRun[r].goal = "prepare"
      /\ wtRun[r].base \in Nat /\ wtRun[r].base > 0
      /\ \A f \in Files : wtRun[r].tree[f] = TreeOf(wtRun[r].base)[f]
  BY <1>1 DEF WtInv, Guarded, Prepared, Final, WtTypes, WtStates
<1>3. wtRun[r] \in WtStates /\ wtRun[r].tree \in Trees /\ "apply" \in WtSteps
  BY DEF WtTypes, WtStates, WtSteps
<1>4. wtRun' = [wtRun EXCEPT ![r] = s]
  BY <1>3 DEF WritePreRef, WtStates
<1>5. <<"ref", wtRun[r].base>> \in Contents
  BY <1>2 DEF Contents
<1>6. t \in Trees /\ \A f \in Files : t[f] = wtRun[r].tree[f]
  BY <1>3, <1>5 DEF Trees, Paths
<1> HIDE DEF t
<1>7. s \in WtStates
  BY <1>3, <1>6 DEF WtStates
<1>8. Only(r) /\ wtRun'[r] = s
  BY <1>4, <1>7 DEF Only, WtTypes
<1>9. /\ wtRun'[r].pc = "apply" /\ wtRun'[r].base = wtRun[r].base
      /\ wtRun'[r].tip = wtRun[r].tip
      /\ wtRun'[r].bundle
      /\ wtRun'[r].tree = t /\ wtRun'[r].goal = "prepare"
  BY <1>2, <1>b, <1>3, <1>8 DEF WtStates
<1> HIDE DEF s
<1>10. Prepared(r)'
  BY <1>1, <1>2, <1>6, <1>9 DEF Prepared, TreeOf, mainVars
<1>11. Committed(r)' /\ Guarded(r)' /\ Undisturbed(r)'
  BY <1>1, <1>2, <1>9 DEF Committed, Guarded, Undisturbed, Window
<1> QED
  BY <1>1, <1>2, <1>6, <1>8, <1>9, <1>10, <1>11 DEF Quiet

(* A round that is to be discarded goes back to the lock. *)
LEMMA ToDiscardQuiet ==
    ASSUME WtTypes, WtInv, NEW r \in Runs, wtRun[r].pc \in {"apply", "commit"},
           wtRun' = [wtRun EXCEPT ![r].pc = "lock", ![r].goal = "discard"],
           UNCHANGED <<mainVars, wlock>>
    PROVE  Quiet(r)
<1> DEFINE s == [wtRun[r] EXCEPT !.pc = "lock", !.goal = "discard"]
<1>1. wtRun' = [wtRun EXCEPT ![r] = s]
  OBVIOUS
<1>2. wtRun[r] \in WtStates /\ "lock" \in WtSteps /\ "discard" \in Goals
  BY DEF WtTypes, WtSteps, Goals
<1>3. s \in WtStates
  BY <1>2 DEF WtStates
<1>4. Only(r) /\ wtRun'[r] = s
  BY <1>1, <1>3 DEF Only, WtTypes
<1>5. /\ wtRun'[r].pc = "lock" /\ wtRun'[r].base = wtRun[r].base
      /\ wtRun'[r].tip = wtRun[r].tip
      /\ wtRun'[r].tree = wtRun[r].tree
  <2>1. wtRun'[r].pc = "lock"
    BY <1>2, <1>4 DEF WtStates
  <2>2. wtRun'[r].base = wtRun[r].base
    <3>1. \A x \in WtStates : [x EXCEPT !.pc = "lock", !.goal = "discard"].base = x.base
      BY DEF WtStates
    <3> QED
      BY <1>2, <1>4, <3>1
  <2>3. wtRun'[r].tip = wtRun[r].tip
    <3>1. \A x \in WtStates : [x EXCEPT !.pc = "lock", !.goal = "discard"].tip = x.tip
      BY DEF WtStates
    <3> QED
      BY <1>2, <1>4, <3>1
  <2>4. wtRun'[r].tree = wtRun[r].tree
    BY <1>2, <1>4 DEF WtStates
  <2> QED
    BY <2>1, <2>2, <2>3, <2>4
<1>g. wtRun'[r].goal = "discard"
  BY <1>2, <1>4 DEF WtStates
<1>b. wtRun'[r].bundle = wtRun[r].bundle
  BY <1>2, <1>4 DEF WtStates
<1> HIDE DEF s
<1>6. Prepared(r)'
  BY <1>5, <1>b, <1>g DEF WtInv, Prepared
<1>7. Committed(r)' /\ Guarded(r)' /\ Undisturbed(r)'
  BY <1>5, <1>g DEF Committed, Guarded, Undisturbed, Window
<1>8. wlock' \in Runs \cup {Nobody}
  BY DEF WtTypes
<1> QED
  BY <1>4, <1>5, <1>6, <1>7, <1>8 DEF Quiet

(* The patch changes its own file in the worktree and nothing else. *)
LEMMA ApplyQuiet ==
    ASSUME WtTypes, WtInv, NEW r \in Runs, ApplyInWorktree(r)
    PROVE  Quiet(r)
<1> DEFINE t == [wtRun[r].tree EXCEPT ![Target[r]] = PatchOf(r)]
           s == [wtRun[r] EXCEPT !.pc = "commit", !.tree = t]
<1>1. wtRun[r].pc = "apply" /\ UNCHANGED <<mainVars, wlock>>
  BY DEF ApplyInWorktree, At
<1>2. CASE wtRun[r].tree[Target[r]] # Original
  BY <1>1, <1>2, ToDiscardQuiet DEF ApplyInWorktree
<1>3. CASE wtRun[r].tree[Target[r]] = Original
  <2>b. wtRun[r].bundle
    BY <1>1 DEF WtInv, Prepared
  <2>1. /\ wtRun[r].goal = "prepare" /\ wtRun[r].base > 0
        /\ \A f \in Files : wtRun[r].tree[f] = TreeOf(wtRun[r].base)[f]
    BY <1>1 DEF WtInv, Prepared
  <2>2. wtRun[r] \in WtStates /\ wtRun[r].tree \in Trees /\ "commit" \in WtSteps
    BY DEF WtTypes, WtStates, WtSteps
  <2>3. wtRun' = [wtRun EXCEPT ![r] = s]
    BY <1>3, <2>2 DEF ApplyInWorktree, WtStates, PatchOf
  <2>4. PatchOf(r) \in Contents /\ Target[r] \in Files
    BY DEF Contents, PatchOf
  <2>5. /\ t \in Trees /\ t[Target[r]] = PatchOf(r)
        /\ \A f \in Files : f # Target[r] => t[f] = wtRun[r].tree[f]
    BY <2>2, <2>4 DEF Trees, Paths
  <2> HIDE DEF t
  <2>6. s \in WtStates
    BY <2>2, <2>5 DEF WtStates
  <2>7. Only(r) /\ wtRun'[r] = s
    BY <2>3, <2>6 DEF Only, WtTypes
  <2>8. /\ wtRun'[r].pc = "commit" /\ wtRun'[r].base = wtRun[r].base
        /\ wtRun'[r].tip = wtRun[r].tip
        /\ wtRun'[r].bundle
        /\ wtRun'[r].tree = t /\ wtRun'[r].goal = "prepare"
    BY <2>1, <2>b, <2>2, <2>7 DEF WtStates
  <2> HIDE DEF s
  <2>9. PatchBetween(r, TreeOf(wtRun[r].base), t)
    BY <1>3, <2>1, <2>4, <2>5 DEF PatchBetween
  <2>10. Prepared(r)'
    BY <1>1, <2>1, <2>8, <2>9 DEF Prepared, TreeOf, PatchBetween, mainVars
  <2>11. Committed(r)' /\ Guarded(r)' /\ Undisturbed(r)'
    BY <2>8 DEF Committed, Guarded, Undisturbed, Window
  <2>12. wlock' \in Runs \cup {Nobody}
    BY <1>1 DEF WtTypes
  <2> QED
    BY <1>1, <2>5, <2>7, <2>8, <2>10, <2>11, <2>12 DEF Quiet
<1> QED
  BY <1>2, <1>3

(* A commit that fails sends the run to the discard step. *)
LEMMA CommitFailsQuiet ==
    ASSUME WtTypes, WtInv, NEW r \in Runs, CommitFails(r)
    PROVE  Quiet(r)
  BY ToDiscardQuiet DEF CommitFails, At

-----------------------------------------------------------------------------
(***************************************************************************)
(* Steps that commit                                                       *)
(***************************************************************************)

CommitType == [parent : Nat, tree : Trees]

(* A new commit leaves the older ones as they are. *)
LEMMA OlderCommitsStay ==
    ASSUME WtTypes, NEW e \in CommitType, commits' = Append(commits, e)
    PROVE  /\ commits' \in Seq(CommitType)
           /\ Len(commits) \in Nat
           /\ Len(commits') = Len(commits) + 1
           /\ commits'[Len(commits) + 1].tree = e.tree
           /\ \A c \in Nat : c > 0 /\ c <= Len(commits) => TreeOf(c)' = TreeOf(c)
<1>1. commits \in Seq(CommitType)
  BY DEF WtTypes, CommitType
<1>2. /\ commits' \in Seq(CommitType)
      /\ Len(commits) \in Nat
      /\ Len(commits') = Len(commits) + 1
      /\ commits'[Len(commits) + 1] = e
      /\ \A c \in 1 .. Len(commits) : commits'[c] = commits[c]
  BY <1>1
<1> QED
  BY <1>2 DEF TreeOf

(* What is known of a run that the step leaves alone survives a commit. *)
LEMMA CommitKeepsRun ==
    ASSUME WtTypes, WtInv, NEW e \in CommitType, commits' = Append(commits, e),
           NEW q \in Runs, wtRun'[q] = wtRun[q]
    PROVE  Prepared(q)' /\ Committed(q)'
<1>1. \A c \in Nat : c > 0 /\ c <= Len(commits) => TreeOf(c)' = TreeOf(c)
  BY OlderCommitsStay
<1>2. /\ wtRun[q].base \in Nat /\ wtRun[q].base <= Len(commits)
      /\ wtRun[q].tip \in Nat /\ wtRun[q].tip <= Len(commits)
  BY DEF WtTypes, WtStates
<1>3. wtRun[q].base > 0 => TreeOf(wtRun[q].base)' = TreeOf(wtRun[q].base)
  BY <1>1, <1>2 DEF TreeOf
<1>4. wtRun[q].tip > 0 => TreeOf(wtRun[q].tip)' = TreeOf(wtRun[q].tip)
  BY <1>1, <1>2 DEF TreeOf
<1>5. Prepared(q) /\ Committed(q)
  BY DEF WtInv
<1>6. Prepared(q)'
  BY <1>2, <1>3, <1>5 DEF Prepared, PatchBetween
<1>7. Committed(q)'
  BY <1>2, <1>3, <1>4, <1>5 DEF Committed, PatchBetween
<1> QED
  BY <1>6, <1>7

(* commit_worktree_round commits the tree of the worktree on a branch of   *)
(* its own.                                                                *)
LEMMA CommitRoundKeeps ==
    ASSUME WtTypes, WtInv, NEW r \in Runs, CommitRound(r)
    PROVE  WtTypes' /\ WtInv'
<1> DEFINE n == Len(commits) + 1
           e == [parent |-> wtRun[r].tip, tree |-> wtRun[r].tree]
           s == [wtRun[r] EXCEPT !.pc = "lock", !.goal = "merge", !.tip = n]
<1>1. /\ wtRun[r].pc = "commit" /\ commits' = Append(commits, e)
      /\ head' = head /\ work' = work /\ wlock' = wlock /\ wrote' = wrote
      /\ raced' = raced /\ writes' = writes
  BY DEF CommitRound, At
<1>2. wtRun[r] \in WtStates /\ "lock" \in WtSteps /\ "merge" \in Goals
  BY DEF WtTypes, WtSteps, Goals
<1>3. e \in CommitType /\ e.tree = wtRun[r].tree
  BY <1>2 DEF CommitType, WtStates
<1> HIDE DEF e
<1>4. /\ commits' \in Seq(CommitType) /\ Len(commits) \in Nat
      /\ Len(commits') = n /\ commits'[n].tree = wtRun[r].tree
      /\ \A c \in Nat : c > 0 /\ c <= Len(commits) => TreeOf(c)' = TreeOf(c)
  BY <1>1, <1>3, OlderCommitsStay
<1>5. wtRun' = [wtRun EXCEPT ![r] = s]
  BY DEF CommitRound
<1>6. s \in WtStates
  <2>1. n \in Nat
    BY <1>4
  <2> HIDE DEF n
  <2> QED
    BY <1>2, <2>1 DEF WtStates
<1>7. Only(r) /\ wtRun'[r] = s
  BY <1>5, <1>6 DEF Only, WtTypes
<1>8. /\ wtRun'[r].pc = "lock" /\ wtRun'[r].base = wtRun[r].base
      /\ wtRun'[r].tip = n /\ wtRun'[r].tree = wtRun[r].tree
      /\ wtRun'[r].goal = "merge"
  BY <1>2, <1>7 DEF WtStates
<1>9. wtRun'[r].bundle = wtRun[r].bundle
  BY <1>2, <1>7 DEF WtStates
<1> HIDE DEF s
<1>10. WtTypes'
  <2>1. \A q \in Runs : wtRun'[q].base <= Len(commits') /\ wtRun'[q].tip <= Len(commits')
    <3> TAKE q \in Runs
    <3>0. /\ wtRun[q].base \in Nat /\ wtRun[q].base <= Len(commits)
          /\ wtRun[q].tip \in Nat /\ wtRun[q].tip <= Len(commits)
      BY DEF WtTypes, WtStates
    <3>1. CASE q = r
      BY <1>4, <1>8, <3>0, <3>1
    <3>2. CASE q # r
      BY <1>4, <1>7, <3>0, <3>2 DEF Only
    <3> QED
      BY <3>1, <3>2
  <2>2. head' \in Nat /\ 0 < head' /\ head' <= Len(commits')
    BY <1>1, <1>4 DEF WtTypes
  <2> QED
    BY <1>1, <1>4, <1>7, <2>1, <2>2 DEF WtTypes, Only, CommitType
<1>11. TreeOf(head)' = TreeOf(head)
  BY <1>1, <1>4 DEF WtTypes, TreeOf
<1>12. \A q \in Runs :
          /\ wtRun[q].base \in Nat /\ wtRun[q].tip \in Nat
          /\ wtRun[q].base > 0 => commits'[wtRun[q].base].tree = TreeOf(wtRun[q].base)
          /\ wtRun[q].tip > 0 => commits'[wtRun[q].tip].tree = TreeOf(wtRun[q].tip)
  BY <1>4 DEF WtTypes, WtStates, TreeOf
<1>13. PatchBetween(r, TreeOf(wtRun[r].base), wtRun[r].tree) /\ wtRun[r].base > 0
  BY <1>1 DEF WtInv, Prepared
<1>14. Prepared(r)'
  <2>1. wtRun[r].bundle
    BY <1>1 DEF WtInv, Prepared
  <2> QED
    BY <1>8, <1>9, <2>1 DEF Prepared
<1>15. Committed(r)'
  <2>1. PatchBetween(r, TreeOf(wtRun[r].base)', TreeOf(wtRun[r].tip)')
    BY <1>4, <1>8, <1>12, <1>13 DEF TreeOf
  <2> QED
    BY <1>4, <1>8, <1>13, <2>1 DEF Committed, Window, PatchBetween
<1>16. Guarded(r)' /\ Undisturbed(r)' /\ Kept(r)'
  BY <1>8 DEF Guarded, Undisturbed, Kept, Window
<1>17. \A q \in Runs : q # r =>
          Prepared(q)' /\ Committed(q)' /\ Guarded(q)' /\ Undisturbed(q)' /\ Kept(q)'
  <2> SUFFICES ASSUME NEW q \in Runs, q # r
               PROVE Prepared(q)' /\ Committed(q)' /\ Guarded(q)' /\ Undisturbed(q)' /\ Kept(q)'
    OBVIOUS
  <2>1. wtRun'[q] = wtRun[q]
    BY <1>7 DEF Only
  <2>2. Prepared(q)' /\ Committed(q)'
    BY <1>1, <1>3, <2>1, CommitKeepsRun
  <2>3. Guarded(q)' /\ Undisturbed(q)' /\ Kept(q)'
    BY <1>1, <1>11, <2>1 DEF WtInv, Guarded, Undisturbed, Clean, Kept
  <2> QED
    BY <2>2, <2>3
<1>18. \A q \in Runs : Unmerged(q)'
  <2> SUFFICES ASSUME NEW q \in Runs,
                      wtRun'[q].pc \notin {"cleanup", "done", "dead"}
               PROVE  Unmerged(q)'
    BY DEF Unmerged
  <2>1. wtRun[q].pc \notin {"cleanup", "done", "dead"}
    BY <1>1, <1>7 DEF Only
  <2>2. Unmerged(q)
    BY DEF WtInv
  <2>3. work'[Target[q]] # PatchOf(q) /\ TreeOf(head)'[Target[q]] # PatchOf(q)
    BY <1>1, <1>11, <2>1, <2>2 DEF Unmerged
  <2>4. \A p \in Runs : wtRun'[p].base > 0 =>
            commits'[wtRun'[p].base].tree[Target[q]] # PatchOf(q)
    BY <1>7, <1>8, <1>12, <2>1, <2>2 DEF Unmerged, Only
  <2>5. \A p \in Runs : p # q => wtRun'[p].tree[Target[q]] # PatchOf(q)
    BY <1>7, <1>8, <2>1, <2>2 DEF Unmerged, Only
  <2>6. \A p \in Runs : p # q /\ wtRun'[p].tip > 0 =>
            commits'[wtRun'[p].tip].tree[Target[q]] # PatchOf(q)
    <3> SUFFICES ASSUME NEW p \in Runs, p # q, wtRun'[p].tip > 0
                 PROVE  commits'[wtRun'[p].tip].tree[Target[q]] # PatchOf(q)
      OBVIOUS
    <3>1. CASE p = r
      BY <1>4, <1>8, <2>1, <2>2, <3>1 DEF Unmerged
    <3>2. CASE p # r
      BY <1>7, <1>12, <2>1, <2>2, <3>2 DEF Unmerged, Only
    <3> QED
      BY <3>1, <3>2
  <2> QED
    BY <2>3, <2>4, <2>5, <2>6 DEF Unmerged, TreeOf
<1>19. OwnersWords' /\ OwnerWorkKept'
  BY <1>1 DEF WtInv, OwnersWords, OwnerWorkKept
<1> QED
  BY <1>10, <1>14, <1>15, <1>16, <1>17, <1>18, <1>19 DEF WtInv

(* The owner commits what is in the main tree. *)
LEMMA OwnerCommitsKeeps ==
    ASSUME WtTypes, WtInv, OwnerCommits
    PROVE  WtTypes' /\ WtInv'
<1> DEFINE n == Len(commits) + 1
           e == [parent |-> head, tree |-> work]
<1>1. /\ commits' = Append(commits, e) /\ head' = n
      /\ work' = work /\ wtRun' = wtRun /\ wlock' = wlock /\ wrote' = wrote
      /\ raced' = (raced \/ Racing) /\ writes' = writes
  BY DEF OwnerCommits
<1>2. e \in CommitType /\ e.tree = work
  BY DEF CommitType, WtTypes
<1> HIDE DEF e
<1>3. /\ commits' \in Seq(CommitType) /\ Len(commits) \in Nat
      /\ Len(commits') = n /\ commits'[n].tree = work
      /\ \A c \in Nat : c > 0 /\ c <= Len(commits) => TreeOf(c)' = TreeOf(c)
  BY <1>1, <1>2, OlderCommitsStay
<1>4. WtTypes'
  <2>1. \A q \in Runs : wtRun'[q].base <= Len(commits') /\ wtRun'[q].tip <= Len(commits')
    BY <1>1, <1>3 DEF WtTypes, WtStates
  <2>2. head' \in Nat /\ 0 < head' /\ head' <= Len(commits')
    BY <1>1, <1>3
  <2>3. raced' \in BOOLEAN
    BY <1>1
  <2> QED
    BY <1>1, <1>3, <2>1, <2>2, <2>3 DEF WtTypes, CommitType
<1>5. \A q \in Runs :
          /\ wtRun[q].base \in Nat /\ wtRun[q].tip \in Nat
          /\ wtRun[q].base > 0 => commits'[wtRun[q].base].tree = TreeOf(wtRun[q].base)
          /\ wtRun[q].tip > 0 => commits'[wtRun[q].tip].tree = TreeOf(wtRun[q].tip)
  BY <1>3 DEF WtTypes, WtStates, TreeOf
<1>6. TreeOf(head)' = work
  BY <1>1, <1>3 DEF TreeOf
<1>7. ~raced' => ~raced /\ \A r \in Runs : wtRun[r].pc \notin Window
  BY <1>1 DEF Racing
<1>8. ASSUME NEW q \in Runs
      PROVE  /\ Prepared(q)' /\ Committed(q)' /\ Guarded(q)'
             /\ Undisturbed(q)' /\ Unmerged(q)' /\ Kept(q)'
  <2>1. Prepared(q)' /\ Committed(q)'
    BY <1>1, <1>2, CommitKeepsRun
  <2>2. Guarded(q)' /\ Kept(q)'
    BY <1>1, <1>7 DEF WtInv, Guarded, Kept
  <2>3. Undisturbed(q)'
    BY <1>1, <1>7 DEF Undisturbed
  <2>4. Unmerged(q)'
    BY <1>1, <1>5, <1>6 DEF WtInv, Unmerged, TreeOf
  <2> QED
    BY <2>1, <2>2, <2>3, <2>4
<1>9. OwnersWords' /\ OwnerWorkKept'
  BY <1>1, <1>7 DEF WtInv, OwnersWords, OwnerWorkKept
<1> QED
  BY <1>4, <1>8, <1>9 DEF WtInv

-----------------------------------------------------------------------------
(***************************************************************************)
(* Steps that change the main tree                                         *)
(***************************************************************************)

(* What a worktree holds does not depend on the main tree. *)
LEMMA MainKeepsRun ==
    ASSUME WtTypes, WtInv, NEW q \in Runs, wtRun'[q] = wtRun[q], commits' = commits
    PROVE  Prepared(q)' /\ Committed(q)'
<1>1. Prepared(q)'
  BY DEF WtInv, Prepared, PatchBetween, TreeOf
<1>2. Committed(q)'
  BY DEF WtInv, Committed, PatchBetween, TreeOf
<1> QED
  BY <1>1, <1>2

(* The owner edits a file. *)
LEMMA OwnerEditsKeeps ==
    ASSUME WtTypes, WtInv, NEW f \in Files, OwnerEdits(f)
    PROVE  WtTypes' /\ WtInv'
<1> DEFINE c == <<"owner", writes>>
<1>1. /\ writes > 0 /\ writes' = writes - 1
      /\ work' = [work EXCEPT ![f] = c] /\ wrote' = [wrote EXCEPT ![f] = c]
      /\ raced' = (raced \/ Racing)
      /\ commits' = commits /\ head' = head /\ wtRun' = wtRun /\ wlock' = wlock
  BY DEF OwnerEdits
<1>2. writes \in 1 .. MaxWrites /\ writes' \in 0 .. MaxWrites /\ writes \in Nat
  BY <1>1 DEF WtTypes
<1>3. c \in Contents
  BY <1>2 DEF Contents
<1>4. \A r \in Runs : c # PatchOf(r)
  BY DEF PatchOf
<1>5. \E m \in 1 .. MaxWrites : c = <<"owner", m>>
  BY <1>2
<1> HIDE DEF c
<1>6. /\ work' \in Trees /\ work'[f] = c
      /\ \A g \in Files : g # f => work'[g] = work[g]
  BY <1>1, <1>3 DEF WtTypes, Trees, Paths
<1>7. /\ wrote' \in [Files -> Contents] /\ wrote'[f] = c
      /\ \A g \in Files : g # f => wrote'[g] = wrote[g]
  BY <1>1, <1>3 DEF WtTypes
<1>8. raced' \in BOOLEAN
  BY <1>1
<1>9. WtTypes'
  BY <1>1, <1>2, <1>6, <1>7, <1>8 DEF WtTypes
<1>10. ~raced' => ~raced /\ \A r \in Runs : wtRun[r].pc \notin Window
  BY <1>1 DEF Racing
<1>11. OwnersWords'
  BY <1>5, <1>7 DEF WtInv, OwnersWords
<1>12. OwnerWorkKept'
  BY <1>6, <1>7, <1>10 DEF WtInv, OwnerWorkKept
<1>13. ASSUME NEW q \in Runs
       PROVE  /\ Prepared(q)' /\ Committed(q)' /\ Guarded(q)'
              /\ Undisturbed(q)' /\ Unmerged(q)' /\ Kept(q)'
  <2>1. Prepared(q)' /\ Committed(q)'
    BY <1>1, MainKeepsRun
  <2>2. Guarded(q)'
    BY <1>1 DEF WtInv, Guarded
  <2>3. Undisturbed(q)'
    BY <1>1, <1>10 DEF Undisturbed
  <2>4. Unmerged(q)'
    <3>1. Target[q] \in Files
      OBVIOUS
    <3> QED
      BY <1>1, <1>4, <1>6, <3>1 DEF WtInv, Unmerged, TreeOf
  <2>5. Kept(q)'
    <3>1. Target[q] \in Files
      OBVIOUS
    <3> QED
      BY <1>1, <1>6, <1>7, <1>10, <3>1 DEF WtInv, Kept
  <2> QED
    BY <2>1, <2>2, <2>3, <2>4, <2>5
<1> QED
  BY <1>9, <1>11, <1>12, <1>13 DEF WtInv

(* What the owner wrote is not what a patch was made for. *)
LEMMA OwnerIsNotOriginal ==
    ASSUME OwnersWords, NEW f \in Files
    PROVE  wrote[f] # Original
  BY ContentsAssumption DEF OwnersWords

(* git merge --ff-only brings in the commit of the round. *)
LEMMA MergeKeeps ==
    ASSUME WtTypes, WtInv, NEW r \in Runs, MergeFastForward(r)
    PROVE  WtTypes' /\ WtInv'
<1> DEFINE tip == wtRun[r].tip
           base == wtRun[r].base
           t == Target[r]
<1>1. /\ wtRun[r].pc = "merge" /\ head' = tip
      /\ work' = [f \in Paths |-> IF f \in Changed(head, tip)
                                  THEN TreeOf(tip)[f] ELSE work[f]]
      /\ wtRun' = [wtRun EXCEPT ![r].pc = "cleanup"]
      /\ commits' = commits /\ wlock' = wlock /\ wrote' = wrote
      /\ raced' = raced /\ writes' = writes
  BY DEF MergeFastForward, At
<1>2. "cleanup" \in WtSteps
  BY DEF WtSteps
<1>3. Only(r) /\ Moves(r, "cleanup")
  BY <1>1, <1>2, SetPc
<1>4. /\ wtRun[r].goal = "merge" /\ base > 0 /\ tip > 0
      /\ PatchBetween(r, TreeOf(base), TreeOf(tip))
  BY <1>1 DEF WtInv, Committed, Window, Final
<1>5. tip \in Nat /\ tip <= Len(commits) /\ t \in Files
  BY DEF WtTypes, WtStates
<1>6. TreeOf(tip) \in Trees
  BY <1>4, <1>5, TreesOfCommits
<1>7. work' \in Trees
  <2>1. \A f \in Paths : TreeOf(tip)[f] \in Contents /\ work[f] \in Contents
    BY <1>6 DEF WtTypes, Trees
  <2> QED
    BY <1>1, <2>1 DEF Trees
<1>8. \A f \in Files : work'[f] = IF TreeOf(head)[f] # TreeOf(tip)[f]
                                   THEN TreeOf(tip)[f] ELSE work[f]
  BY <1>1 DEF Changed, Paths
<1>9. wlock = r
  BY <1>1 DEF WtInv, Guarded, Final
<1>10. \A q \in Runs : q # r => wtRun'[q] = wtRun[q] /\ wtRun[q].pc \notin Window
  BY <1>3, <1>9 DEF Only, WtInv, Guarded, Window, Final
<1>11. ASSUME ~raced
       PROVE  /\ work'[t] = PatchOf(r) /\ work[t] = Original
              /\ \A f \in Files : f # t => work'[f] = work[f]
  <2>1. work = TreeOf(head) /\ head = base
    BY <1>1, <1>11 DEF WtInv, Undisturbed, Window, Clean
  <2>2. /\ TreeOf(base)[t] = Original /\ TreeOf(tip)[t] = PatchOf(r)
        /\ \A f \in Files : f # t => TreeOf(tip)[f] = TreeOf(base)[f]
    BY <1>4 DEF PatchBetween
  <2>3. PatchOf(r) # Original
    BY ContentsAssumption DEF PatchOf
  <2> HIDE DEF tip, base, t
  <2> QED
    BY <1>5, <1>8, <2>1, <2>2, <2>3
<1>12. WtTypes'
  <2>1. \A q \in Runs : wtRun'[q].base <= Len(commits) /\ wtRun'[q].tip <= Len(commits)
    BY <1>3 DEF WtTypes, Only, Moves
  <2> QED
    BY <1>1, <1>3, <1>4, <1>5, <1>7, <2>1 DEF WtTypes, Only
<1>13. OwnersWords' /\ OwnersWords
  BY <1>1 DEF WtInv, OwnersWords
<1>14. \A f \in Files : wrote[f] # Original
  BY <1>13, OwnerIsNotOriginal
<1>15. OwnerWorkKept'
  BY <1>1, <1>11, <1>14 DEF WtInv, OwnerWorkKept
<1>16. \A q \in Runs : Kept(q)'
  <2> SUFFICES ASSUME NEW q \in Runs, ~raced,
                      wtRun'[q].pc \in {"cleanup", "done"}
               PROVE  work'[Target[q]] \in {PatchOf(q), wrote[Target[q]]}
    BY <1>1 DEF Kept
  <2>1. CASE q = r
    BY <1>11, <2>1
  <2>2. CASE q # r
    <3>1. work[Target[q]] \in {PatchOf(q), wrote[Target[q]]} /\ Target[q] \in Files
      BY <1>10, <2>2 DEF WtInv, Kept
    <3>2. PatchOf(q) # Original
      BY ContentsAssumption DEF PatchOf
    <3>3. Target[q] # t
      BY <1>11, <1>14, <3>1, <3>2
    <3> HIDE DEF t
    <3> QED
      BY <1>11, <3>1, <3>3
  <2> QED
    BY <2>1, <2>2
<1>17. Prepared(r)' /\ Committed(r)' /\ Guarded(r)' /\ Undisturbed(r)'
  <2>1. Prepared(r)'
    BY <1>1, <1>3 DEF WtInv, Prepared, Moves
  <2>2. Committed(r)'
    BY <1>1, <1>3, <1>4 DEF Committed, Moves, PatchBetween, TreeOf
  <2>3. Guarded(r)' /\ Undisturbed(r)'
    BY <1>1, <1>3, <1>9 DEF Guarded, Undisturbed, Moves, Window
  <2> QED
    BY <2>1, <2>2, <2>3
<1>18. \A q \in Runs : q # r =>
           Prepared(q)' /\ Committed(q)' /\ Guarded(q)' /\ Undisturbed(q)'
  <2> SUFFICES ASSUME NEW q \in Runs, q # r
               PROVE  Prepared(q)' /\ Committed(q)' /\ Guarded(q)' /\ Undisturbed(q)'
    OBVIOUS
  <2>1. Prepared(q)' /\ Committed(q)'
    BY <1>1, <1>10, MainKeepsRun
  <2>2. Guarded(q)' /\ Undisturbed(q)'
    BY <1>1, <1>10 DEF WtInv, Guarded, Undisturbed
  <2> QED
    BY <2>1, <2>2
<1>19. \A q \in Runs : Unmerged(q)'
  <2> SUFFICES ASSUME NEW q \in Runs,
                      wtRun'[q].pc \notin {"cleanup", "done", "dead"}
               PROVE  Unmerged(q)'
    BY DEF Unmerged
  <2>1. q # r
    BY <1>3 DEF Moves
  <2>2. Unmerged(q) /\ wtRun[q].pc \notin {"cleanup", "done", "dead"}
    BY <1>10, <2>1 DEF WtInv
  <2>3. TreeOf(tip)[Target[q]] # PatchOf(q) /\ work[Target[q]] # PatchOf(q)
    BY <1>4, <2>1, <2>2 DEF Unmerged
  <2>4. Target[q] \in Files
    OBVIOUS
  <2>5. work'[Target[q]] # PatchOf(q)
    BY <1>8, <2>3, <2>4
  <2>6. TreeOf(head)'[Target[q]] # PatchOf(q)
    BY <1>1, <2>3 DEF TreeOf
  <2>7. \A p \in Runs : /\ wtRun'[p].base = wtRun[p].base
                        /\ wtRun'[p].tip = wtRun[p].tip
                        /\ wtRun'[p].tree = wtRun[p].tree
    BY <1>3 DEF Only, Moves
  <2> QED
    BY <1>1, <2>2, <2>5, <2>6, <2>7 DEF Unmerged, TreeOf
<1> QED
  BY <1>12, <1>13, <1>15, <1>16, <1>17, <1>18, <1>19 DEF WtInv

(* rewind_main puts the main tree back to where the round found it. *)
LEMMA RewindKeeps ==
    ASSUME WtTypes, WtInv, NEW r \in Runs, RewindMain(r)
    PROVE  WtTypes' /\ WtInv'
<1> DEFINE base == wtRun[r].base
<1>1. /\ wtRun[r].pc = "rewind"
      /\ wtRun' = [wtRun EXCEPT ![r].pc = "failed"]
      /\ commits' = commits /\ wlock' = Nobody /\ wrote' = wrote
      /\ raced' = raced /\ writes' = writes
  BY DEF RewindMain, At, Release
<1>2. \/ head' = base /\ work' = TreeOf(base)
      \/ /\ head' = base
         /\ work' = [f \in Paths |-> IF f \in Changed(head, base)
                                     THEN TreeOf(base)[f] ELSE work[f]]
      \/ head' = head /\ work' = work
  BY DEF RewindMain
<1>3. "failed" \in WtSteps
  BY DEF WtSteps
<1>4. Only(r) /\ Moves(r, "failed")
  BY <1>1, <1>3, SetPc
<1>5. base \in Nat /\ base > 0 /\ base <= Len(commits)
  BY <1>1 DEF WtInv, Committed, Window, Final, WtTypes, WtStates
<1>6. TreeOf(base) \in Trees /\ work \in Trees
  BY <1>5, TreesOfCommits DEF WtTypes
<1>7. /\ work' \in Trees /\ head' \in {head, base}
      /\ \A f \in Paths : work'[f] \in {TreeOf(base)[f], work[f]}
  BY <1>2, <1>6 DEF Trees
<1>8. ASSUME ~raced
      PROVE  head' = head /\ work' = work
  <2>1. work = TreeOf(head) /\ head = base
    BY <1>1, <1>8 DEF WtInv, Undisturbed, Window, Clean
  <2>2. \A f \in Paths : work'[f] = work[f]
    BY <1>7, <2>1
  <2>3. work' = work
    BY <1>6, <1>7, <2>2 DEF Trees
  <2> QED
    BY <1>7, <2>1, <2>3
<1>9. wlock = r
  BY <1>1 DEF WtInv, Guarded, Final
<1>10. \A q \in Runs : q # r => /\ wtRun'[q] = wtRun[q]
                                /\ wtRun[q].pc \in Final \cup {"lock", "apply", "commit"}
  BY <1>4, <1>9 DEF Only, WtInv, Guarded
<1>11. WtTypes'
  <2>1. \A q \in Runs : wtRun'[q].base <= Len(commits) /\ wtRun'[q].tip <= Len(commits)
    BY <1>4 DEF WtTypes, Only, Moves
  <2> QED
    BY <1>1, <1>4, <1>5, <1>7, <2>1 DEF WtTypes, Only
<1>12. OwnersWords' /\ OwnerWorkKept'
  BY <1>1, <1>8 DEF WtInv, OwnersWords, OwnerWorkKept
<1>13. Prepared(r)' /\ Committed(r)' /\ Guarded(r)' /\ Undisturbed(r)' /\ Kept(r)'
  <2>1. Prepared(r)'
    BY <1>1, <1>4 DEF WtInv, Prepared, Moves
  <2>2. Committed(r)' /\ Guarded(r)' /\ Undisturbed(r)' /\ Kept(r)'
    BY <1>4 DEF Committed, Moves, Guarded, Undisturbed, Kept, Window, Final
  <2> QED
    BY <2>1, <2>2
<1>14. \A q \in Runs : q # r =>
           Prepared(q)' /\ Committed(q)' /\ Guarded(q)' /\ Undisturbed(q)' /\ Kept(q)'
  <2> SUFFICES ASSUME NEW q \in Runs, q # r
               PROVE  Prepared(q)' /\ Committed(q)' /\ Guarded(q)' /\ Undisturbed(q)' /\ Kept(q)'
    OBVIOUS
  <2>1. Prepared(q)' /\ Committed(q)'
    BY <1>1, <1>10, MainKeepsRun
  <2>2. Guarded(q)' /\ Undisturbed(q)'
    BY <1>10 DEF Guarded, Undisturbed, Window, Final
  <2>3. Kept(q)'
    BY <1>1, <1>8, <1>10 DEF WtInv, Kept
  <2> QED
    BY <2>1, <2>2, <2>3
<1>15. \A q \in Runs : Unmerged(q)'
  <2> SUFFICES ASSUME NEW q \in Runs,
                      wtRun'[q].pc \notin {"cleanup", "done", "dead"}
               PROVE  Unmerged(q)'
    BY DEF Unmerged
  <2>1. wtRun[q].pc \notin {"cleanup", "done", "dead"}
    BY <1>1, <1>10
  <2>2. Unmerged(q)
    BY DEF WtInv
  <2>3. /\ TreeOf(base)[Target[q]] # PatchOf(q) /\ work[Target[q]] # PatchOf(q)
        /\ TreeOf(head)[Target[q]] # PatchOf(q)
    BY <1>5, <2>1, <2>2 DEF Unmerged
  <2>4. Target[q] \in Paths
    BY DEF Paths
  <2>5. work'[Target[q]] # PatchOf(q)
    BY <1>7, <2>3, <2>4
  <2>6. TreeOf(head)'[Target[q]] # PatchOf(q)
    BY <1>1, <1>7, <2>3 DEF TreeOf
  <2>7. \A p \in Runs : /\ wtRun'[p].base = wtRun[p].base
                        /\ wtRun'[p].tip = wtRun[p].tip
                        /\ wtRun'[p].tree = wtRun[p].tree
    BY <1>4 DEF Only, Moves
  <2> QED
    BY <1>1, <2>1, <2>2, <2>5, <2>6, <2>7 DEF Unmerged, TreeOf
<1> QED
  BY <1>11, <1>12, <1>13, <1>14, <1>15 DEF WtInv

-----------------------------------------------------------------------------
(***************************************************************************)
(* The theorem                                                             *)
(***************************************************************************)

(* Every step of a run, of a kill and of the owner keeps the invariant. *)
LEMMA WtNext ==
    WtTypes /\ WtInv /\ [WorktreeNext]_worktreeVars => WtTypes' /\ WtInv'
<1> SUFFICES ASSUME WtTypes, WtInv, [WorktreeNext]_worktreeVars
             PROVE  WtTypes' /\ WtInv'
  OBVIOUS
<1>1. ASSUME NEW r \in Runs, Quiet(r) PROVE WtTypes' /\ WtInv'
  BY <1>1, QuietTypes, QuietKeeps
<1>2. ASSUME NEW r \in Runs, RunStep(r) \/ Die(r) PROVE WtTypes' /\ WtInv'
  <2>1. CASE CommitRound(r)
    BY <2>1, CommitRoundKeeps
  <2>2. CASE MergeFastForward(r)
    BY <2>2, MergeKeeps
  <2>3. CASE RewindMain(r)
    BY <2>3, RewindKeeps
  <2>4. CASE Acquire(r)
    BY <2>4, <1>1, AcquireQuiet
  <2>5. CASE Refuse(r) \/ PrepareFails(r)
    BY <2>5, <1>1, RefuseQuiet
  <2>6. CASE CheckClean(r)
    BY <2>6, <1>1, CheckCleanQuiet
  <2>7. CASE RecordHead(r)
    BY <2>7, <1>1, RecordHeadQuiet
  <2>8. CASE AddWorktree(r)
    BY <2>8, <1>1, AddWorktreeQuiet
  <2>9. CASE WritePreRef(r)
    BY <2>9, <1>1, WritePreRefQuiet
  <2>10. CASE ApplyInWorktree(r)
    BY <2>10, <1>1, ApplyQuiet
  <2>11. CASE CommitFails(r)
    BY <2>11, <1>1, CommitFailsQuiet
  <2>12. CASE CheckHead(r)
    BY <2>12, <1>1, CheckHeadQuiet
  <2>13. CASE VerifyNoEscape(r) \/ MergeRefused(r)
    BY <2>13, <1>1, EscapeQuiet
  <2>14. CASE EscapeFound(r) \/ CleanMerged(r) \/ DiscardRound(r)
    BY <2>14, <1>1, CleanUpQuiet
  <2>15. CASE Die(r)
    BY <2>15, <1>1, DieQuiet
  <2> QED
    BY <1>2, <2>1, <2>2, <2>3, <2>4, <2>5, <2>6, <2>7, <2>8, <2>9, <2>10,
       <2>11, <2>12, <2>13, <2>14, <2>15 DEF RunStep
<1>3. CASE UNCHANGED worktreeVars
  <2>1. WtTypes'
    BY <1>3 DEF WtTypes, worktreeVars
  <2>2. OwnersWords' /\ OwnerWorkKept'
    BY <1>3 DEF WtInv, OwnersWords, OwnerWorkKept, worktreeVars
  <2>3. \A q \in Runs : Prepared(q)' /\ Committed(q)'
    BY <1>3, MainKeepsRun DEF worktreeVars
  <2>4. \A q \in Runs : Guarded(q)' /\ Undisturbed(q)' /\ Kept(q)'
    BY <1>3 DEF WtInv, Guarded, Undisturbed, Kept, Clean, TreeOf, worktreeVars
  <2>5. \A q \in Runs : Unmerged(q)'
    BY <1>3 DEF WtInv, Unmerged, TreeOf, worktreeVars
  <2> QED
    BY <2>1, <2>2, <2>3, <2>4, <2>5 DEF WtInv
<1>4. ASSUME NEW f \in Files, OwnerEdits(f) PROVE WtTypes' /\ WtInv'
  BY <1>4, OwnerEditsKeeps
<1>5. CASE OwnerCommits
  BY <1>5, OwnerCommitsKeeps
<1> QED
  BY <1>2, <1>3, <1>4, <1>5 DEF WorktreeNext

(* It holds before the first run. *)
LEMMA WtInit ==
    WorktreeInit => WtTypes /\ WtInv
<1> SUFFICES ASSUME WorktreeInit PROVE WtTypes /\ WtInv
  OBVIOUS
<1> DEFINE tree == [f \in Paths |-> IF f = RefFile THEN Absent ELSE Original]
<1>1. tree \in Trees /\ NoTree \in Trees
  BY DEF Trees, Contents, NoTree
<1>2. /\ commits = <<[parent |-> 0, tree |-> tree]>> /\ head = 1
      /\ work = commits[1].tree /\ wtRun = [r \in Runs |-> Fresh]
      /\ wlock = Nobody /\ wrote = [f \in Files |-> Absent] /\ raced = FALSE
      /\ writes = MaxWrites
  BY DEF WorktreeInit, TreeOf
<1>3. work = tree /\ TreeOf(head) = tree
  BY <1>2 DEF TreeOf
<1>4. \A r \in Runs : tree[Target[r]] = Original
  BY DEF Paths
<1> HIDE DEF tree
<1>5. Fresh \in WtStates
  <2>1. "lock" \in WtSteps /\ "none" \in Places /\ "prepare" \in Goals
    BY DEF WtSteps, Places, Goals
  <2> QED
    BY <1>1, <2>1 DEF Fresh, WtStates
<1>6. \A r \in Runs :
          /\ wtRun[r].pc = "lock" /\ wtRun[r].base = 0 /\ wtRun[r].tip = 0
          /\ wtRun[r].place = "none" /\ wtRun[r].goal = "prepare"
          /\ wtRun[r].tree = NoTree
  BY <1>2 DEF Fresh
<1>7. WtTypes
  <2>1. [parent |-> 0, tree |-> tree] \in [parent : Nat, tree : Trees]
    BY <1>1
  <2>2. commits \in Seq([parent : Nat, tree : Trees]) /\ Len(commits) = 1
    BY <1>2, <2>1
  <2>3. wrote \in [Files -> Contents]
    BY <1>2 DEF Contents
  <2>4. wtRun \in [Runs -> WtStates] /\ writes \in 0 .. MaxWrites
    BY <1>2, <1>5
  <2>5. \A r \in Runs : wtRun[r].base <= Len(commits) /\ wtRun[r].tip <= Len(commits)
    <3> TAKE r \in Runs
    <3>1. wtRun[r].base = 0 /\ wtRun[r].tip = 0
      BY <1>6
    <3> QED
      BY <2>2, <3>1
  <2>6. raced \in BOOLEAN
    BY <1>2
  <2> QED
    BY <1>1, <1>2, <1>3, <2>2, <2>3, <2>4, <2>5, <2>6 DEF WtTypes
<1>8. OwnersWords /\ OwnerWorkKept
  BY <1>2 DEF OwnersWords, OwnerWorkKept
<1>9. ASSUME NEW r \in Runs
      PROVE  /\ Prepared(r) /\ Committed(r) /\ Guarded(r)
             /\ Undisturbed(r) /\ Unmerged(r) /\ Kept(r)
  <2>1. Prepared(r) /\ Committed(r) /\ Guarded(r) /\ Undisturbed(r) /\ Kept(r)
    BY <1>6 DEF Prepared, Committed, Guarded, Undisturbed, Kept, Window
  <2>2. PatchOf(r) # Original /\ PatchOf(r) # Absent /\ Target[r] \in Paths
    BY ContentsAssumption DEF PatchOf, Paths
  <2>3. NoTree[Target[r]] = Absent
    BY <2>2 DEF NoTree
  <2> QED
    BY <1>3, <1>4, <1>6, <2>1, <2>2, <2>3 DEF Unmerged
<1> QED
  BY <1>7, <1>8, <1>9 DEF WtInv

(* The invariant gives what the run checks. *)
LEMMA WtKeeps ==
    WtTypes /\ WtInv => MainTreeKept
<1> SUFFICES ASSUME WtTypes, WtInv PROVE MainTreeKept
  OBVIOUS
<1>1. WorktreeTypeOK
  <2>1. head \in DOMAIN commits
    BY DEF WtTypes
  <2>2. \A r \in Runs : wtRun[r].place \in {"none", "worktree", "gone", "orphaned"}
    BY DEF WtTypes, WtStates, Places
  <2>3. \A r \in Runs : wtRun[r].tip \in 0 .. Len(commits)
    <3> TAKE r \in Runs
    <3>1. wtRun[r].tip \in Nat /\ wtRun[r].tip <= Len(commits)
      BY DEF WtTypes, WtStates
    <3>2. Len(commits) \in Nat
      BY DEF WtTypes
    <3> QED
      BY <3>1, <3>2
  <2>4. wlock \in Runs \cup {Nobody}
    BY DEF WtTypes
  <2> QED
    BY <2>1, <2>2, <2>3, <2>4 DEF WorktreeTypeOK
<1>2. OwnerWorkKept
  BY DEF WtInv
<1>3. MergedStays
  BY DEF WtInv, Kept, MergedStays, At, PatchOf
<1>4. FailedLeavesMain
  BY DEF WtInv, Unmerged, FailedLeavesMain, At, PatchOf
<1>5. GuardedByLock
  BY DEF WtInv, Prepared, Guarded, GuardedByLock
<1> QED
  BY <1>1, <1>2, <1>3, <1>4, <1>5 DEF MainTreeKept

(* For every set of runs and files and every number of edits by hand,      *)
(* failures and kills: the main tree keeps what its owner wrote and what a *)
(* run reported as merged, unless the owner acted inside the window of a   *)
(* merge; nothing of a run that failed is in it, raced or not; and the     *)
(* lock keeps rounds apart (prepare_round, merge_round, discard_round and  *)
(* rewind_main, worktree.rs:136-241).                                      *)
THEOREM MainTreeIsKept == WorktreeSpec => []MainTreeKept
<1>1. WorktreeInit => WtTypes /\ WtInv
  BY WtInit
<1>2. WtTypes /\ WtInv /\ [WorktreeNext]_worktreeVars => (WtTypes /\ WtInv)'
  BY WtNext
<1>3. WtTypes /\ WtInv => MainTreeKept
  BY WtKeeps
<1> QED
  BY <1>1, <1>2, <1>3, PTL DEF WorktreeSpec
=============================================================================
