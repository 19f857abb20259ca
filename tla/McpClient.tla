----------------------------- MODULE McpClient ------------------------------
(***************************************************************************)
(* One MCP client of nerve-adapter (mcp.rs): requests over the stdin of a  *)
(* server process, replies matched by id in a pending table shared with a  *)
(* reader task, a handshake on start, and a shutdown that may come at any  *)
(* time.  A client is started once, as McpRegistry::register_all does.     *)
(* Tool calls here are those call_tool admitted (McpPolicy); a refused one *)
(* changes nothing.  The server answers in any order, twice, late or not   *)
(* at all, and may stop at any time.                                       *)
(***************************************************************************)
EXTENDS Naturals, FiniteSets

CONSTANTS
    Callers,   \* tasks that call a tool
    Starter,   \* the task that starts the client
    Repeated   \* bound: the request ids the server may answer twice

ASSUME ClientAssumption == Starter \notin Callers /\ Repeated \subseteq Nat

VARIABLES
    process,   \* what the client holds: "none", "held", "taken"
    server,    \* the process: "none", "up", "deaf" (stdout closed), "dead"
    writer,    \* write_tx: is there a channel to the writer task
    reader,    \* the reader task: "none", "runs", "ended"
    nextId,    \* next_request_id
    pending,   \* ids with a sender in the pending table
    asked,     \* ids whose request reached the server
    answers,   \* ids the server answered, not yet read
    replied,   \* history: ids the server ever answered
    call,      \* each task: where it is, its id, what it was given
    closing    \* where shutdown is

mcpVars == <<process, server, writer, reader, nextId, pending, asked,
             answers, replied, call, closing>>

Tasks == Callers \cup {Starter}
NotCalling == [step |-> "idle", id |-> 0, given |-> 0, outcome |-> "none"]
Ended == [NotCalling EXCEPT !.step = "over"]

McpInit ==
    /\ process = "none" /\ server = "none" /\ writer = FALSE
    /\ reader = "none" /\ nextId = 1 /\ pending = {}
    /\ asked = {} /\ answers = {} /\ replied = {}
    /\ call = [t \in Tasks |-> NotCalling]
    /\ closing = "no"

(* A drained sender gives its waiter an error; a waiter that timed out is  *)
(* gone.                                                                   *)
Fail(c, ids) ==
    [t \in Tasks |-> IF c[t].step = "waits" /\ c[t].id \in ids
                     THEN [c[t] EXCEPT !.step = "returns",
                                       !.outcome = "error"]
                     ELSE c[t]]

-----------------------------------------------------------------------------
(* start: spawn and the tasks; the handshake's first request follows. *)
StartServer ==
    /\ process = "none" /\ closing = "no"
    /\ call[Starter] = NotCalling
    /\ process' = "held" /\ server' = "up" /\ writer' = TRUE
    /\ reader' = "runs"
    /\ call' = [call EXCEPT ![Starter].step = "initialize"]
    /\ UNCHANGED <<nextId, pending, asked, answers, replied, closing>>

SpawnRefused ==
    /\ process = "none" /\ call[Starter] = NotCalling
    /\ call' = [call EXCEPT ![Starter] = Ended]
    /\ UNCHANGED <<process, server, writer, reader, nextId, pending, asked,
                   answers, replied, closing>>

(* call_tool: refused while no process is held.  Nobody has the client     *)
(* before start returned.                                                  *)
CallTool(t) ==
    /\ t \in Callers /\ call[t] = NotCalling
    /\ call[Starter].step = "over"
    /\ call' = [call EXCEPT ![t] =
                    IF process = "held"
                    THEN [NotCalling EXCEPT !.step = "request"] ELSE Ended]
    /\ UNCHANGED <<process, server, writer, reader, nextId, pending, asked,
                   answers, replied, closing>>

(* send_request: an id, then the entry in the table, then the line. *)
InsertPending(t) ==
    /\ call[t].step \in {"request", "initialize", "tools"}
    /\ pending' = pending \cup {nextId}
    /\ nextId' = nextId + 1
    /\ call' = [call EXCEPT ![t].step = "writes", ![t].id = nextId]
    /\ UNCHANGED <<process, server, writer, reader, asked, answers, replied,
                   closing>>

(* write_line: without a writer, or with a writer task that ended with its *)
(* server, the entry is taken back.  A line queued for a writer that still *)
(* runs when the server is gone is lost.                                   *)
WriteLine(t, gone) ==
    /\ call[t].step = "writes"
    /\ gone => server = "dead"
    /\ IF writer /\ ~gone
       THEN /\ asked' = IF server \in {"up", "deaf"}
                        THEN asked \cup {call[t].id} ELSE asked
            /\ call' = [call EXCEPT ![t].step =
                            IF call[t].id \in pending THEN "waits"
                            ELSE "returns",
                        ![t].outcome = IF call[t].id \in pending THEN "none"
                                       ELSE "error"]
            /\ UNCHANGED pending
       ELSE /\ pending' = pending \ {call[t].id}
            /\ call' = [call EXCEPT ![t].step = "returns",
                                    ![t].outcome = "error"]
            /\ UNCHANGED asked
    /\ UNCHANGED <<process, server, writer, reader, nextId, answers, replied,
                   closing>>

(* timeout(30 s, send) and the handshake's 10 s: the entry stays behind. *)
CallTimesOut(t) ==
    /\ call[t].step \in {"writes", "waits"}
    /\ call' = [call EXCEPT ![t].step = "returns", ![t].outcome = "timeout"]
    /\ UNCHANGED <<process, server, writer, reader, nextId, pending, asked,
                   answers, replied, closing>>

(* The call returns; the handshake goes on to tools/list, and a failed one *)
(* shuts the client down.                                                  *)
CallReturns(t) ==
    /\ call[t].step = "returns"
    /\ \/ /\ t = Starter /\ call[t].outcome = "ok" /\ call[t].id = 1
          /\ call' = [call EXCEPT ![t] = [NotCalling EXCEPT !.step = "tools"]]
          /\ UNCHANGED closing
       \/ /\ ~(t = Starter /\ call[t].outcome = "ok" /\ call[t].id = 1)
          /\ call' = [call EXCEPT ![t] = Ended]
          /\ closing' = IF /\ t = Starter /\ call[t].outcome # "ok"
                           /\ closing = "no"
                        THEN "writer" ELSE closing
    /\ UNCHANGED <<process, server, writer, reader, nextId, pending, asked,
                   answers, replied>>

-----------------------------------------------------------------------------
(* Mutation: an answer goes to whoever waits, whatever its id. *)
DispatchIncoming_AnyWaiter(id, outcome) ==
    /\ reader = "runs" /\ id \in answers
    /\ answers' = answers \ {id}
    /\ \E w \in Tasks :
        /\ call[w].step = "waits"
        /\ pending' = pending \ {call[w].id}
        /\ call' = [call EXCEPT ![w].step = "returns", ![w].given = id,
                                ![w].outcome = outcome]
    /\ UNCHANGED <<process, server, writer, reader, nextId, asked, replied,
                   closing>>

(* The reader task: dispatch_incoming, with a result or an error object,   *)
(* and at the end of stdout every pending request fails.                   *)
DispatchIncoming(id, outcome) ==
    /\ reader = "runs" /\ id \in answers
    /\ answers' = answers \ {id}
    /\ pending' = pending \ {id}
    /\ call' = [t \in Tasks |->
                    IF id \in pending /\ call[t].step = "waits"
                                      /\ call[t].id = id
                    THEN [call[t] EXCEPT !.step = "returns", !.given = id,
                                         !.outcome = outcome]
                    ELSE call[t]]
    /\ UNCHANGED <<process, server, writer, reader, nextId, asked, replied,
                   closing>>

ReaderEnds ==
    /\ reader = "runs" /\ server \in {"deaf", "dead"} /\ answers = {}
    /\ reader' = "ended"
    /\ pending' = {}
    /\ call' = Fail(call, pending)
    /\ UNCHANGED <<process, server, writer, nextId, asked, answers, replied,
                   closing>>

(* The server. *)
ServerAnswers(id) ==
    /\ server = "up" /\ id \in asked \ answers
    /\ answers' = answers \cup {id}
    /\ replied' = replied \cup {id}
    /\ \/ asked' = asked \ {id}
       \/ id \in Repeated \ replied /\ asked' = asked
    /\ UNCHANGED <<process, server, writer, reader, nextId, pending, call,
                   closing>>

ServerStops(how) ==
    /\ server = "up" \/ (server = "deaf" /\ how = "dead")
    /\ server' = how
    /\ UNCHANGED <<process, writer, reader, nextId, pending, asked, answers,
                   replied, call, closing>>

-----------------------------------------------------------------------------
(* shutdown: the writer goes, the process is taken, gets two seconds to    *)
(* leave and is killed, and what is still pending fails.                   *)
BeginShutdown ==
    /\ closing = "no" /\ call[Starter].step = "over"
    /\ closing' = "writer"
    /\ UNCHANGED <<process, server, writer, reader, nextId, pending, asked,
                   answers, replied, call>>

DropWriter ==
    /\ closing = "writer"
    /\ writer' = FALSE
    /\ closing' = "take"
    /\ UNCHANGED <<process, server, reader, nextId, pending, asked, answers,
                   replied, call>>

TakeProcess ==
    /\ closing = "take"
    /\ process' = IF process = "held" THEN "taken" ELSE process
    /\ closing' = IF process = "held" THEN "grace" ELSE "done"
    /\ UNCHANGED <<server, writer, reader, nextId, pending, asked, answers,
                   replied, call>>

ServerGone ==
    /\ closing = "grace"
    /\ server' = "dead"
    /\ closing' = "drain"
    /\ UNCHANGED <<process, writer, reader, nextId, pending, asked, answers,
                   replied, call>>

DrainPending ==
    /\ closing = "drain"
    /\ pending' = {}
    /\ call' = Fail(call, pending)
    /\ closing' = "done"
    /\ UNCHANGED <<process, server, writer, reader, nextId, asked, answers,
                   replied>>

CallStep(t) ==
    \/ InsertPending(t) \/ CallReturns(t)
    \/ \E gone \in BOOLEAN : WriteLine(t, gone)

ClientStep ==
    \/ \E t \in Tasks : CallStep(t)
    \/ \E id \in answers, outcome \in {"ok", "error"} :
            DispatchIncoming(id, outcome)
    \/ ReaderEnds \/ DropWriter \/ TakeProcess \/ ServerGone \/ DrainPending

McpNext ==
    \/ ClientStep
    \/ StartServer \/ SpawnRefused \/ BeginShutdown
    \/ \E t \in Callers : CallTool(t)
    \/ \E t \in Tasks : CallTimesOut(t)
    \/ \E id \in asked : ServerAnswers(id)
    \/ \E how \in {"deaf", "dead"} : ServerStops(how)

(* Every task is polled when it can go on, and timers fire. *)
McpFairness ==
    /\ WF_mcpVars(ClientStep)
    /\ \A t \in Tasks : WF_mcpVars(CallStep(t) \/ CallTimesOut(t))

McpSpec == McpInit /\ [][McpNext]_mcpVars

-----------------------------------------------------------------------------
CallSteps == {"idle", "request", "initialize", "tools", "writes", "waits",
              "returns", "over"}
Outcomes == {"none", "ok", "error", "timeout"}

McpTypeOK ==
    /\ process \in {"none", "held", "taken"}
    /\ server \in {"none", "up", "deaf", "dead"}
    /\ writer \in BOOLEAN /\ reader \in {"none", "runs", "ended"}
    /\ nextId \in Nat \ {0}
    /\ pending \cup asked \cup answers \cup replied \subseteq 1..(nextId - 1)
    /\ call \in [Tasks -> [step : CallSteps, id : 0..(nextId - 1),
                          given : 0..(nextId - 1), outcome : Outcomes]]
    /\ closing \in {"no", "writer", "take", "grace", "drain", "done"}

(* A call that succeeds got the server's answer to its own request: a      *)
(* late or repeated answer, to a call that timed out, never serves         *)
(* another one.                                                            *)
RightReply ==
    \A t \in Tasks : call[t].outcome = "ok" =>
        call[t].given = call[t].id /\ call[t].id \in replied

(* A call that still waits has its entry in the pending table, so an       *)
(* answer, the end of stdout or a shutdown can reach it.                   *)
WaiterIsPending ==
    \A t \in Tasks : call[t].step = "waits" => call[t].id \in pending

(* After shutdown the server is gone and no call is left waiting, however  *)
(* the calls and the reader interleaved with it.                           *)
ShutdownIsComplete ==
    closing = "done" =>
        /\ server \in {"none", "dead"}
        /\ \A t \in Tasks : call[t].step # "waits"

(* An exchange is sound: replies reach their own calls, a waiting call can *)
(* be reached, and a shutdown leaves nobody behind (mcp.rs:208-600).       *)
McpExchangeSound ==
    /\ McpTypeOK
    /\ RightReply
    /\ WaiterIsPending
    /\ ShutdownIsComplete

(* Every call that began has come back: an answer, an error or the timeout *)
(* of call_tool (mcp.rs:395-487).                                          *)
CallsOver == \A t \in Callers : call[t].step \in {"idle", "over"}
=============================================================================
