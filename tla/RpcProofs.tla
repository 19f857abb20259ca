----------------------------- MODULE RpcProofs ------------------------------
(***************************************************************************)
(* Proofs about the daemon and its bus.  The daemon's read loop, run tasks *)
(* and streamers keep their word under every interleaving, for every set   *)
(* of runs and any number of rounds; the bus keeps its token file and its  *)
(* account of envelopes for every number of processes and subscribers.     *)
(***************************************************************************)
EXTENDS RpcDaemon, RpcBus, FiniteSetTheorems, SequenceTheorems,
        WellFoundedInduction, TLAPS

USE DaemonAssumption, BusAssumption

-----------------------------------------------------------------------------
(***************************************************************************)
(* Counting lines                                                          *)
(***************************************************************************)

Count(lines, line) == Cardinality({i \in DOMAIN lines : lines[i] = line})

(* What is printed of one kind grows by the line that is appended. *)
LEMMA CountAppend ==
    ASSUME NEW S, NEW lines \in Seq(S), NEW new \in S, NEW line
    PROVE  /\ Count(lines, line) \in Nat
           /\ Count(Append(lines, new), line) =
                  IF new = line THEN Count(lines, line) + 1 ELSE Count(lines, line)
<1> DEFINE n == Len(lines)
           A == {i \in 1 .. n : lines[i] = line}
           more == Append(lines, new)
           B == {i \in 1 .. n + 1 : more[i] = line}
<1>1. n \in Nat /\ DOMAIN lines = 1 .. n
  OBVIOUS
<1>2. DOMAIN more = 1 .. n + 1 /\ more[n + 1] = new /\ \A i \in 1 .. n : more[i] = lines[i]
  OBVIOUS
<1>3. IsFiniteSet(A)
  <2>1. IsFiniteSet(1 .. n)
    BY <1>1, FS_Interval
  <2> QED
    BY <2>1, FS_Subset
<1>4. Cardinality(A) \in Nat
  BY <1>3, FS_CardinalityType
<1>5. n + 1 \notin A
  BY <1>1
<1>6. Count(lines, line) = Cardinality(A) /\ Count(more, line) = Cardinality(B)
  BY <1>1, <1>2 DEF Count
<1>7. CASE new = line
  <2>1. B = A \cup {n + 1}
    BY <1>1, <1>2, <1>7
  <2>2. Cardinality(A \cup {n + 1}) = Cardinality(A) + 1
    BY <1>3, <1>5, FS_AddElement
  <2> QED
    BY <1>4, <1>6, <1>7, <2>1, <2>2
<1>8. CASE new # line
  <2>1. B = A
    BY <1>1, <1>2, <1>8
  <2> QED
    BY <1>4, <1>6, <1>8, <2>1
<1> QED
  BY <1>7, <1>8

(* Something that was counted was printed. *)
LEMMA CountNone ==
    ASSUME NEW lines, NEW line, \A i \in DOMAIN lines : lines[i] # line
    PROVE  Count(lines, line) = 0
<1>1. {i \in DOMAIN lines : lines[i] = line} = {}
  OBVIOUS
<1> QED
  BY <1>1, FS_EmptySet DEF Count

-----------------------------------------------------------------------------
(***************************************************************************)
(* The inductive invariant                                                 *)
(***************************************************************************)

Ats == {"none", "loop", "seam", "apply", "flush", "failed", "terminal",
        "finished", "dropped"}
Lines == {"started", "round", "applied", "discarded", "ended", "error"}
RunTasks == [at : Ats, rounds : Nat, apply : BOOLEAN, consent : BOOLEAN,
             cancel : BOOLEAN, blocked : BOOLEAN, applied : BOOLEAN,
             saved : BOOLEAN, kept : BOOLEAN]

DaemonTypes ==
    /\ flags \in [apply : BOOLEAN, once : BOOLEAN]
    /\ loop \in {"reading", "awaiting", "closing", "exited", "dead"}
    /\ command \in [name : {"none", "prompt", "approve"},
                    id : RunIds \cup {NoRun}]
    /\ run \in [RunIds -> RunTasks]
    /\ stream \in [RunIds -> Seq(Nat)]
    /\ out \in [RunIds -> Seq(Lines)]
    /\ registry \subseteq RunIds /\ awaited \subseteq RunIds
    /\ approvals \subseteq RunIds /\ inFlight \subseteq RunIds
    /\ acked \subseteq RunIds
    /\ tokenFile \in BOOLEAN

(* A streamer holds rounds that were recorded, and those it has printed    *)
(* and those it still holds are all of them.                               *)
Streamed(r) ==
    /\ run[r].rounds <= LastRound[r]
    /\ \A i \in DOMAIN stream[r] : stream[r][i] \in 1 .. LastRound[r]
    /\ run[r].at # "dropped" =>
          Count(out[r], "round") + Len(stream[r]) = run[r].rounds
    /\ run[r].at \in {"none", "terminal", "finished", "dropped"} => stream[r] = <<>>

(* The lines of a session, from its first to its last. *)
Printing(r) ==
    /\ run[r].at = "none" => out[r] = <<>>
    /\ run[r].at # "none" => Len(out[r]) > 0
    /\ \A i \in DOMAIN out[r] :
          /\ (out[r][i] = "started") <=> (i = 1)
          /\ run[r].at # "finished" => out[r][i] \in {"started", "round"}
          /\ out[r][i] \in {"ended", "error"} => i = Len(out[r])
          /\ out[r][i] = "applied" => run[r].applied
          /\ out[r][i] = "discarded" => ~run[r].applied
    /\ run[r].at = "finished" => out[r][Len(out[r])] \in {"ended", "error"}

(* Consent is granted by an approve that was answered, and read once. *)
Granted(r) ==
    /\ run[r].consent => r \in acked
    /\ run[r].applied => ~run[r].blocked /\ (run[r].apply \/ r \in acked)
    /\ run[r].at \in {"none", "loop", "seam", "apply"} => ~run[r].applied

(* A checkpoint that was written stays until the report is saved. *)
OnDisk(r) ==
    /\ r \in inFlight <=> run[r].kept /\ ~run[r].saved
    /\ run[r].at \notin {"terminal", "finished", "dropped"} => ~run[r].saved

TaskInv(r) == Streamed(r) /\ Printing(r) /\ Granted(r) /\ OnDisk(r)

(* The read loop knows of every run that is not over. *)
LoopInv ==
    /\ loop # "reading" => command = NoCommand
    /\ command.name = "none" => command = NoCommand
    /\ command.name # "none" => command.id \in RunIds
    /\ command.name = "approve" => command.id \in acked
    /\ loop \in {"reading", "awaiting"} =>
          \A r \in RunIds : Finished(r) \/ r \in registry
                            \/ command = [name |-> "prompt", id |-> r]
    /\ loop = "closing" => \A r \in RunIds : Finished(r) \/ r \in awaited
    /\ loop = "exited" => ~tokenFile /\ \A r \in RunIds : Finished(r)
    /\ approvals \subseteq acked

DaemonInv == LoopInv /\ \A r \in RunIds : TaskInv(r)

(* The invariant gives what the run checks. *)
LEMMA DaemonImplies ==
    DaemonTypes /\ DaemonInv => DaemonOrderly
<1> SUFFICES ASSUME DaemonTypes, DaemonInv PROVE DaemonOrderly
  OBVIOUS
<1>0. \A r \in RunIds : LastRound[r] \in Nat /\ run[r] \in RunTasks
                        /\ stream[r] \in Seq(Nat) /\ out[r] \in Seq(Lines)
  BY DEF DaemonTypes
<1>1. DaemonTypeOK
  <2>1. \A r \in RunIds :
          run[r].at \in Ats /\ run[r].rounds \in 0 .. LastRound[r]
    BY <1>0 DEF DaemonInv, TaskInv, Streamed, RunTasks
  <2>2. \A r \in RunIds : stream[r] \in Seq(1 .. LastRound[r])
    <3> TAKE r \in RunIds
    <3> DEFINE S == 1 .. LastRound[r]
    <3>1. stream[r] \in Seq(Nat) /\ \A i \in 1 .. Len(stream[r]) : stream[r][i] \in S
      BY <1>0 DEF DaemonInv, TaskInv, Streamed
    <3> HIDE DEF S
    <3>2. stream[r] \in [1 .. Len(stream[r]) -> S] /\ Len(stream[r]) \in Nat
      BY <3>1
    <3>3. stream[r] \in Seq(S)
      BY <3>2, SeqDef
    <3> QED
      BY <3>3 DEF S
  <2>3. registry \cup awaited \cup approvals \cup inFlight \cup acked \subseteq RunIds
    BY DEF DaemonTypes
  <2> QED
    BY <2>1, <2>2, <2>3 DEF DaemonTypeOK, DaemonTypes, Ats
<1>2. StreamOrdered
  <2> SUFFICES ASSUME NEW r \in RunIds, NEW i \in DOMAIN out[r]
               PROVE  /\ (out[r][i] = "started") = (i = 1)
                      /\ out[r][i] \in {"ended", "error"} =>
                            i = Len(out[r]) /\ Printed(r, "round") = run[r].rounds
    BY DEF StreamOrdered
  <2>1. Printing(r) /\ Streamed(r)
    BY DEF DaemonInv, TaskInv
  <2>2. (out[r][i] = "started") = (i = 1)
    BY <2>1 DEF Printing
  <2>3. ASSUME out[r][i] \in {"ended", "error"}
        PROVE  i = Len(out[r]) /\ run[r].at = "finished"
    BY <2>1, <2>3 DEF Printing
  <2>4. ASSUME out[r][i] \in {"ended", "error"}
        PROVE  Printed(r, "round") = run[r].rounds
    <3>1. Count(out[r], "round") + Len(stream[r]) = run[r].rounds /\ stream[r] = <<>>
      BY <2>1, <2>3, <2>4 DEF Streamed
    <3>2. Count(out[r], "round") \in Nat
      BY <1>0, CountAppend DEF Lines
    <3> QED
      BY <3>1, <3>2 DEF Printed, Count
  <2> QED
    BY <2>2, <2>3, <2>4
<1>3. RunningIsTracked
  BY DEF DaemonInv, LoopInv, RunningIsTracked
<1>4. GracefulExit
  BY DEF DaemonInv, LoopInv, GracefulExit, Finished, TaskInv, Printing
<1>5. AppliedWasGranted
  <2> SUFFICES ASSUME NEW r \in RunIds
               PROVE  /\ run[r].applied => ~run[r].blocked /\ (run[r].apply \/ r \in acked)
                      /\ Printed(r, "applied") > 0 => run[r].applied
                      /\ Printed(r, "discarded") > 0 => ~run[r].applied
    BY DEF AppliedWasGranted
  <2>1. Printing(r) /\ Granted(r)
    BY DEF DaemonInv, TaskInv
  <2>2. run[r].applied => ~run[r].blocked /\ (run[r].apply \/ r \in acked)
    BY <2>1 DEF Granted
  <2>3. ASSUME ~run[r].applied PROVE ~(Printed(r, "applied") > 0)
    <3>1. \A i \in DOMAIN out[r] : out[r][i] # "applied"
      BY <2>1, <2>3 DEF Printing
    <3>2. Count(out[r], "applied") = 0
      BY <3>1, CountNone
    <3> QED
      BY <3>2 DEF Printed, Count
  <2>4. ASSUME run[r].applied PROVE ~(Printed(r, "discarded") > 0)
    <3>1. \A i \in DOMAIN out[r] : out[r][i] # "discarded"
      BY <2>1, <2>4 DEF Printing
    <3>2. Count(out[r], "discarded") = 0
      BY <3>1, CountNone
    <3> QED
      BY <3>2 DEF Printed, Count
  <2> QED
    BY <2>2, <2>3, <2>4
<1>6. StatusFindsRuns
  BY DEF DaemonInv, LoopInv, TaskInv, OnDisk, StatusFindsRuns
<1> QED
  BY <1>1, <1>2, <1>3, <1>4, <1>5, <1>6 DEF DaemonOrderly

-----------------------------------------------------------------------------
(***************************************************************************)
(* Steps of the read loop                                                  *)
(***************************************************************************)

(* What is known of a run that a step leaves alone stays known. *)
LEMMA TaskFrame ==
    ASSUME NEW q \in RunIds, TaskInv(q), run'[q] = run[q],
           stream'[q] = stream[q], out'[q] = out[q],
           q \in acked => q \in acked', q \in inFlight <=> q \in inFlight'
    PROVE  TaskInv(q)'
<1>1. Streamed(q)'
  BY DEF TaskInv, Streamed
<1>2. Printing(q)'
  BY DEF TaskInv, Printing
<1>3. Granted(q)'
  BY DEF TaskInv, Granted
<1>4. OnDisk(q)'
  BY DEF TaskInv, OnDisk
<1> QED
  BY <1>1, <1>2, <1>3, <1>4 DEF TaskInv

(* The commands and the shutdown leave the tasks to themselves. *)
LEMMA LoopSteps ==
    ASSUME DaemonTypes, DaemonInv,
           \/ RegisterRun \/ AnswerCommand \/ Conductor \/ EndOfInput
           \/ \E written \in BOOLEAN : RecordApproval(written)
           \/ DrainRegistry \/ ShutDownBus
    PROVE  DaemonTypes' /\ DaemonInv'
<1>1. UNCHANGED <<flags, run, stream, out, inFlight, acked>>
  BY DEF RegisterRun, AnswerCommand, Conductor, EndOfInput, RecordApproval,
         DrainRegistry, ShutDownBus
<1>2. \A q \in RunIds : TaskInv(q)'
  BY <1>1, TaskFrame DEF DaemonInv
<1>3. \A q \in RunIds : Finished(q)' <=> Finished(q)
  BY <1>1 DEF Finished
<1>4. NoCommand \in [name : {"none", "prompt", "approve"}, id : RunIds \cup {NoRun}]
      /\ NoCommand.name = "none"
  BY DEF NoCommand
<1>5. SUFFICES /\ loop' \in {"reading", "awaiting", "closing", "exited", "dead"}
               /\ command' = NoCommand
               /\ registry' \subseteq RunIds /\ awaited' \subseteq RunIds
               /\ approvals' \subseteq RunIds /\ tokenFile' \in BOOLEAN
               /\ approvals' \subseteq acked
               /\ loop' \in {"reading", "awaiting"} =>
                     \A r \in RunIds : Finished(r) \/ r \in registry'
               /\ loop' = "closing" => \A r \in RunIds : Finished(r) \/ r \in awaited'
               /\ loop' = "exited" => ~tokenFile' /\ \A r \in RunIds : Finished(r)
  <2>1. DaemonTypes'
    BY <1>1, <1>4, <1>5 DEF DaemonTypes
  <2>2. LoopInv'
    BY <1>1, <1>3, <1>4, <1>5 DEF LoopInv
  <2> QED
    BY <1>2, <2>1, <2>2 DEF DaemonInv
<1>6. ASSUME NextCommand PROVE loop' \in {"reading", "awaiting"} /\ command' = NoCommand
  BY <1>6 DEF NextCommand
<1>7. CASE RegisterRun
  <2>1. /\ command.name = "prompt" /\ registry' = Prune \cup {command.id}
        /\ UNCHANGED <<awaited, approvals, tokenFile>> /\ NextCommand
    BY <1>7 DEF RegisterRun
  <2>2. loop = "reading" /\ command.id \in RunIds
    BY <2>1 DEF DaemonInv, LoopInv, NoCommand
  <2>3. \A r \in RunIds : Finished(r) \/ r \in registry'
    <3> TAKE r \in RunIds
    <3>1. Finished(r) \/ r \in registry \/ command = [name |-> "prompt", id |-> r]
      BY <2>2 DEF DaemonInv, LoopInv
    <3> QED
      BY <2>1, <3>1 DEF Prune
  <2>4. registry' \subseteq RunIds
    BY <2>1, <2>2 DEF Prune, DaemonTypes
  <2> QED
    BY <1>6, <2>1, <2>3, <2>4 DEF DaemonTypes, DaemonInv, LoopInv
<1>8. CASE AnswerCommand
  <2>1. /\ loop = "reading" /\ command = NoCommand
        /\ UNCHANGED <<registry, awaited, approvals, tokenFile>> /\ NextCommand
    BY <1>8 DEF AnswerCommand, Reading
  <2>2. \A r \in RunIds : Finished(r) \/ r \in registry
    BY <2>1 DEF DaemonInv, LoopInv, NoCommand
  <2> QED
    BY <1>6, <2>1, <2>2 DEF DaemonTypes, DaemonInv, LoopInv
<1>9. CASE Conductor
  <2>1. /\ loop = "reading" /\ command = NoCommand /\ registry' = Prune
        /\ UNCHANGED <<awaited, approvals, tokenFile>> /\ NextCommand
    BY <1>9 DEF Conductor, Reading
  <2>2. \A r \in RunIds : Finished(r) \/ r \in registry
    BY <2>1 DEF DaemonInv, LoopInv, NoCommand
  <2>3. registry' \subseteq RunIds /\ \A r \in RunIds : Finished(r) \/ r \in registry'
    BY <2>1, <2>2 DEF Prune, DaemonTypes
  <2> QED
    BY <1>6, <2>1, <2>3 DEF DaemonTypes, DaemonInv, LoopInv
<1>10. CASE EndOfInput
  <2>1. /\ loop = "reading" /\ command = NoCommand /\ loop' = "awaiting"
        /\ UNCHANGED <<command, registry, awaited, approvals, tokenFile>>
    BY <1>10 DEF EndOfInput, Reading
  <2>2. \A r \in RunIds : Finished(r) \/ r \in registry
    BY <2>1 DEF DaemonInv, LoopInv, NoCommand
  <2> QED
    BY <2>1, <2>2 DEF DaemonTypes, DaemonInv, LoopInv
<1>11. CASE \E written \in BOOLEAN : RecordApproval(written)
  <2>1. /\ command.name = "approve"
        /\ approvals' = approvals \cup {command.id} \/ approvals' = approvals
        /\ UNCHANGED <<registry, awaited, tokenFile>> /\ NextCommand
    BY <1>11 DEF RecordApproval
  <2>2. loop = "reading" /\ command.id \in RunIds /\ command.id \in acked
    BY <2>1 DEF DaemonInv, LoopInv, NoCommand
  <2>3. \A r \in RunIds : Finished(r) \/ r \in registry
    BY <2>1, <2>2 DEF DaemonInv, LoopInv
  <2>4. approvals' \subseteq acked /\ approvals' \subseteq RunIds
    BY <2>1, <2>2 DEF DaemonTypes, DaemonInv, LoopInv
  <2> QED
    BY <1>6, <2>1, <2>3, <2>4 DEF DaemonTypes
<1>12. CASE DrainRegistry
  <2>1. /\ loop = "awaiting" /\ awaited' = registry /\ registry' = {}
        /\ loop' = "closing" /\ UNCHANGED <<command, approvals, tokenFile>>
    BY <1>12 DEF DrainRegistry
  <2>2. command = NoCommand /\ \A r \in RunIds : Finished(r) \/ r \in registry
    BY <2>1 DEF DaemonInv, LoopInv, NoCommand
  <2> QED
    BY <2>1, <2>2 DEF DaemonTypes, DaemonInv, LoopInv
<1>13. CASE ShutDownBus
  <2>1. /\ loop = "closing" /\ \A r \in awaited : Finished(r)
        /\ loop' = "exited" /\ tokenFile' = \E r \in RunIds : ~Finished(r)
        /\ UNCHANGED <<command, registry, awaited, approvals>>
    BY <1>13 DEF ShutDownBus
  <2>2. command = NoCommand /\ \A r \in RunIds : Finished(r)
    BY <2>1 DEF DaemonInv, LoopInv
  <2>3. ~tokenFile' /\ tokenFile' \in BOOLEAN
    BY <2>1, <2>2
  <2> QED
    BY <2>1, <2>2, <2>3 DEF DaemonTypes, DaemonInv, LoopInv
<1> QED
  BY <1>7, <1>8, <1>9, <1>10, <1>11, <1>12, <1>13

-----------------------------------------------------------------------------
(***************************************************************************)
(* Steps of one run task and its streamer                                  *)
(***************************************************************************)

(* The step gives run r the task t, its streamer the channel s and its     *)
(* session the lines o, and no other run anything.                         *)
Becomes(r, t, s, o) ==
    /\ run' = [run EXCEPT ![r] = t]
    /\ stream' = [stream EXCEPT ![r] = s]
    /\ out' = [out EXCEPT ![r] = o]

(* Then the types hold and the others are as they were. *)
LEMMA OthersStay ==
    ASSUME DaemonTypes, NEW r \in RunIds, NEW t \in RunTasks, NEW s \in Seq(Nat),
           NEW o \in Seq(Lines), Becomes(r, t, s, o)
    PROVE  /\ run' \in [RunIds -> RunTasks]
           /\ stream' \in [RunIds -> Seq(Nat)]
           /\ out' \in [RunIds -> Seq(Lines)]
           /\ run'[r] = t /\ stream'[r] = s /\ out'[r] = o
           /\ \A q \in RunIds : q # r => /\ run'[q] = run[q]
                                         /\ stream'[q] = stream[q]
                                         /\ out'[q] = out[q]
<1>1. run' \in [RunIds -> RunTasks] /\ run'[r] = t
      /\ \A q \in RunIds : q # r => run'[q] = run[q]
  BY DEF DaemonTypes, Becomes
<1>2. stream' \in [RunIds -> Seq(Nat)] /\ stream'[r] = s
      /\ \A q \in RunIds : q # r => stream'[q] = stream[q]
  BY DEF DaemonTypes, Becomes
<1>3. out' \in [RunIds -> Seq(Lines)] /\ out'[r] = o
      /\ \A q \in RunIds : q # r => out'[q] = out[q]
  BY DEF DaemonTypes, Becomes
<1> QED
  BY <1>1, <1>2, <1>3

(* A task that runs on keeps the read loop's books right, and a task that  *)
(* ends does too.                                                          *)
LEMMA TaskStep ==
    ASSUME DaemonTypes, DaemonInv, NEW r \in RunIds, NEW t \in RunTasks,
           NEW s \in Seq(Nat), NEW o \in Seq(Lines), Becomes(r, t, s, o),
           UNCHANGED <<flags, loop, command, registry, awaited, approvals,
                       tokenFile, acked>>,
           inFlight' \subseteq RunIds,
           \A q \in RunIds : q # r => (q \in inFlight <=> q \in inFlight'),
           ~Finished(r),
           TaskInv(r)'
    PROVE  DaemonTypes' /\ DaemonInv'
<1>1. /\ run' \in [RunIds -> RunTasks]
      /\ stream' \in [RunIds -> Seq(Nat)]
      /\ out' \in [RunIds -> Seq(Lines)]
      /\ \A q \in RunIds : q # r => /\ run'[q] = run[q]
                                    /\ stream'[q] = stream[q]
                                    /\ out'[q] = out[q]
  BY OthersStay
<1>2. DaemonTypes'
  BY <1>1 DEF DaemonTypes
<1>3. \A q \in RunIds : TaskInv(q)'
  <2> SUFFICES ASSUME NEW q \in RunIds, q # r PROVE TaskInv(q)'
    OBVIOUS
  <2> QED
    BY <1>1, TaskFrame DEF DaemonInv
<1>4. \A q \in RunIds : Finished(q) => Finished(q)'
  BY <1>1 DEF Finished
<1>5. LoopInv'
  BY <1>4 DEF DaemonInv, LoopInv
<1> QED
  BY <1>2, <1>3, <1>5 DEF DaemonInv

(* What the type says of one run. *)
LEMMA OneTask ==
    ASSUME DaemonTypes, NEW r \in RunIds
    PROVE  /\ run[r] \in RunTasks /\ run[r].rounds \in Nat
           /\ stream[r] \in Seq(Nat) /\ Len(stream[r]) \in Nat
           /\ out[r] \in Seq(Lines) /\ Len(out[r]) \in Nat
           /\ Count(out[r], "round") \in Nat
           /\ LastRound[r] \in Nat
           /\ run = [run EXCEPT ![r] = run[r]]
           /\ stream = [stream EXCEPT ![r] = stream[r]]
           /\ out = [out EXCEPT ![r] = out[r]]
<1>1. run[r] \in RunTasks /\ stream[r] \in Seq(Nat) /\ out[r] \in Seq(Lines)
  BY DEF DaemonTypes
<1>2. run[r].rounds \in Nat
  BY <1>1 DEF RunTasks
<1>3. Count(out[r], "round") \in Nat
  <2>1. "round" \in Lines
    BY DEF Lines
  <2> QED
    BY <1>1, <2>1, CountAppend
<1>4. /\ run = [run EXCEPT ![r] = run[r]]
      /\ stream = [stream EXCEPT ![r] = stream[r]]
      /\ out = [out EXCEPT ![r] = out[r]]
  BY DEF DaemonTypes
<1> QED
  BY <1>1, <1>2, <1>3, <1>4

(* A round is recorded, whether or not its checkpoint could be written. *)
LEMMA RecordRoundKeeps ==
    ASSUME DaemonTypes, DaemonInv, NEW r \in RunIds, NEW written \in BOOLEAN,
           RecordRound(r, written)
    PROVE  DaemonTypes' /\ DaemonInv'
<1> DEFINE n == run[r].rounds + 1
           k == run[r].kept \/ written
           t == [run[r] EXCEPT !.rounds = n, !.at = "seam", !.kept = k]
           s == Append(stream[r], n)
<1>1. /\ run[r].at = "loop" /\ run[r].rounds < LastRound[r]
      /\ inFlight' = IF written THEN inFlight \cup {r} ELSE inFlight
      /\ UNCHANGED <<flags, loop, command, out, registry, awaited, approvals,
                     tokenFile, acked>>
  BY DEF RecordRound, Running
<1>2. run' = [run EXCEPT ![r] = t] /\ stream' = [stream EXCEPT ![r] = s]
  BY DEF RecordRound
<1>3. n \in Nat /\ n <= LastRound[r] /\ n > 0
  BY <1>1, OneTask
<1>4. t \in RunTasks
  <2>1. "seam" \in Ats /\ run[r] \in RunTasks /\ k \in BOOLEAN
    BY OneTask DEF Ats
  <2> HIDE DEF n, k
  <2> QED
    BY <1>3, <2>1 DEF RunTasks
<1>5. t.at = "seam" /\ t.rounds = n /\ t.applied = run[r].applied
      /\ t.consent = run[r].consent /\ t.saved = run[r].saved /\ t.kept = k
  BY OneTask DEF RunTasks
<1>6. /\ s \in Seq(Nat) /\ Len(s) = Len(stream[r]) + 1
      /\ DOMAIN s = 1 .. Len(stream[r]) + 1 /\ s[Len(stream[r]) + 1] = n
      /\ \A i \in 1 .. Len(stream[r]) : s[i] = stream[r][i]
  BY <1>3, OneTask
<1> HIDE DEF t, s
<1>7. Becomes(r, t, s, out[r])
  BY <1>1, <1>2, OneTask DEF Becomes
<1>8. run'[r] = t /\ stream'[r] = s /\ out'[r] = out[r]
  BY <1>4, <1>6, <1>7, OneTask, OthersStay
<1>9. TaskInv(r)
  BY DEF DaemonInv
<1>10. Streamed(r)'
  <2>0. /\ Count(out[r], "round") + Len(stream[r]) = run[r].rounds
        /\ Count(out[r], "round") \in Nat /\ Len(stream[r]) \in Nat
        /\ DOMAIN stream[r] = 1 .. Len(stream[r])
        /\ \A i \in DOMAIN stream[r] : stream[r][i] \in 1 .. LastRound[r]
    BY <1>1, <1>9, OneTask DEF TaskInv, Streamed
  <2>1. \A i \in DOMAIN s : s[i] \in 1 .. LastRound[r]
    <3> SUFFICES ASSUME NEW i \in 1 .. Len(stream[r]) + 1
                 PROVE  s[i] \in 1 .. LastRound[r]
      BY <1>6
    <3>1. CASE i = Len(stream[r]) + 1
      BY <1>3, <1>6, <3>1, OneTask
    <3>2. CASE i # Len(stream[r]) + 1
      <4>1. i \in 1 .. Len(stream[r])
        BY <2>0, <3>2
      <4> QED
        BY <1>6, <2>0, <4>1
    <3> QED
      BY <3>1, <3>2
  <2>2. Count(out[r], "round") + Len(s) = n
    BY <1>6, <2>0
  <2> HIDE DEF n
  <2> QED
    BY <1>3, <1>5, <1>8, <2>1, <2>2 DEF Streamed
<1>11. Printing(r)'
  BY <1>1, <1>5, <1>8, <1>9 DEF TaskInv, Printing
<1>12. Granted(r)'
  BY <1>1, <1>5, <1>8, <1>9 DEF TaskInv, Granted
<1>13. OnDisk(r)'
  BY <1>1, <1>5, <1>8, <1>9 DEF TaskInv, OnDisk
<1>14. TaskInv(r)'
  BY <1>10, <1>11, <1>12, <1>13 DEF TaskInv
<1>15. ~Finished(r) /\ inFlight' \subseteq RunIds
       /\ \A q \in RunIds : q # r => (q \in inFlight <=> q \in inFlight')
  BY <1>1 DEF Finished, DaemonTypes
<1> QED
  BY <1>1, <1>4, <1>6, <1>7, <1>14, <1>15, OneTask, TaskStep

(* A step of the task that neither records nor prints: only its state      *)
(* changes.                                                                *)
LEMMA SilentStep ==
    ASSUME DaemonTypes, DaemonInv, NEW r \in RunIds, NEW t \in RunTasks,
           run' = [run EXCEPT ![r] = t],
           UNCHANGED <<flags, loop, command, stream, out, registry, awaited,
                       approvals, tokenFile, acked>>,
           inFlight' \subseteq RunIds,
           \A q \in RunIds : q # r => (q \in inFlight <=> q \in inFlight'),
           ~Finished(r), t.at \in {"loop", "seam", "apply", "flush", "failed", "terminal"},
           t.at = "terminal" => stream[r] = <<>>,
           t.rounds = run[r].rounds, t.kept = run[r].kept, t.consent = run[r].consent,
           t.apply = run[r].apply,
           t.applied => ~t.blocked /\ (t.apply \/ r \in acked),
           t.at \in {"loop", "seam", "apply"} => ~t.applied,
           r \in inFlight' <=> t.kept /\ ~t.saved,
           t.at # "terminal" => ~t.saved
    PROVE  DaemonTypes' /\ DaemonInv'
<1>1. Becomes(r, t, stream[r], out[r])
  BY OneTask DEF Becomes
<1>2. run'[r] = t /\ stream'[r] = stream[r] /\ out'[r] = out[r]
  BY <1>1, OneTask, OthersStay
<1>3. TaskInv(r)
  BY DEF DaemonInv
<1>4. Streamed(r)'
  BY <1>2, <1>3 DEF TaskInv, Streamed, Finished
<1>5. Printing(r)'
  <2>1. run[r].at \notin {"none", "finished"}
    BY DEF Finished
  <2>2. \A i \in DOMAIN out[r] : out[r][i] \in {"started", "round"}
    BY <1>3, <2>1 DEF TaskInv, Printing
  <2> QED
    BY <1>2, <1>3, <2>1, <2>2 DEF TaskInv, Printing
<1>6. Granted(r)'
  BY <1>2, <1>3 DEF TaskInv, Granted
<1>7. OnDisk(r)'
  BY <1>2 DEF OnDisk
<1>8. TaskInv(r)'
  BY <1>4, <1>5, <1>6, <1>7 DEF TaskInv
<1> QED
  BY <1>1, <1>8, OneTask, TaskStep

(* The seams, a failing model call and the save of the report are silent. *)
LEMMA SeamsKeep ==
    ASSUME DaemonTypes, DaemonInv, NEW r \in RunIds,
           \/ \E decided, blocked \in BOOLEAN : RoundSeam(r, decided, blocked)
           \/ ApplySeam(r) \/ LoopFails(r)
           \/ \E saved \in BOOLEAN : SaveReport(r, saved)
    PROVE  DaemonTypes' /\ DaemonInv'
<1>0. /\ run[r] \in RunTasks /\ TaskInv(r)
      /\ \A a \in {"loop", "apply", "flush", "failed", "terminal"} : a \in Ats
  BY OneTask DEF DaemonInv, Ats
<1>1. ASSUME NEW a \in {"loop", "apply"}, NEW b \in BOOLEAN, run[r].at = "seam",
             run' = [run EXCEPT ![r] = [run[r] EXCEPT !.at = a, !.blocked = b]],
             UNCHANGED <<flags, loop, command, stream, out, registry, awaited,
                         approvals, inFlight, tokenFile, acked>>
      PROVE  DaemonTypes' /\ DaemonInv'
  <2> DEFINE t == [run[r] EXCEPT !.at = a, !.blocked = b]
  <2>1. t \in RunTasks
    BY <1>0 DEF RunTasks
  <2>2. t.at = a /\ t.rounds = run[r].rounds
    BY <1>0 DEF RunTasks
  <2>3. t.consent = run[r].consent /\ t.apply = run[r].apply
    BY <1>0 DEF RunTasks
  <2>4. t.applied = run[r].applied /\ t.saved = run[r].saved /\ t.kept = run[r].kept
    BY <1>0 DEF RunTasks
  <2>5. run' = [run EXCEPT ![r] = t]
    BY <1>1
  <2> HIDE DEF t
  <2>6. ~run[r].applied /\ ~run[r].saved /\ (r \in inFlight <=> run[r].kept)
    BY <1>0, <1>1 DEF TaskInv, Granted, OnDisk
  <2>7. ~Finished(r) /\ inFlight' \subseteq RunIds
    BY <1>1 DEF Finished, DaemonTypes
  <2> QED
    BY <1>1, <2>1, <2>2, <2>3, <2>4, <2>5, <2>6, <2>7, SilentStep
<1>2. ASSUME NEW decided \in BOOLEAN, NEW blocked \in BOOLEAN,
             RoundSeam(r, decided, blocked)
      PROVE  DaemonTypes' /\ DaemonInv'
  <2>1. /\ run[r].at = "seam"
        /\ UNCHANGED <<flags, loop, command, stream, out, registry, awaited,
                       approvals, inFlight, tokenFile, acked>>
    BY <1>2 DEF RoundSeam
  <2>2. run[r].blocked \in BOOLEAN
    BY <1>0 DEF RunTasks
  <2>3. [run[r] EXCEPT !.at = "loop"] =
            [run[r] EXCEPT !.at = "loop", !.blocked = run[r].blocked]
    BY <1>0 DEF RunTasks
  <2>4. PICK a \in {"loop", "apply"}, b \in BOOLEAN :
            run' = [run EXCEPT ![r] = [run[r] EXCEPT !.at = a, !.blocked = b]]
    <3>1. CASE run' = [run EXCEPT ![r].at = "apply", ![r].blocked = blocked]
      BY <3>1
    <3>2. CASE run' = [run EXCEPT ![r].at = "apply", ![r].blocked = TRUE]
      BY <3>2
    <3>3. CASE run' = [run EXCEPT ![r].at = "loop"]
      BY <2>2, <2>3, <3>3
    <3> QED
      BY <1>2, <3>1, <3>2, <3>3 DEF RoundSeam
  <2> QED
    BY <1>1, <2>1, <2>4
<1>3. CASE ApplySeam(r)
  <2> DEFINE p == ~run[r].blocked /\ (run[r].apply \/ run[r].consent)
             t == [run[r] EXCEPT !.at = "flush", !.applied = p]
  <2>1. /\ run[r].at = "apply"
        /\ UNCHANGED <<flags, loop, command, stream, out, registry, awaited,
                       approvals, inFlight, tokenFile, acked>>
    BY <1>3 DEF ApplySeam
  <2>2. run' = [run EXCEPT ![r] = t]
    BY <1>3 DEF ApplySeam
  <2>3. p \in BOOLEAN
    OBVIOUS
  <2>4. p => ~run[r].blocked /\ (run[r].apply \/ r \in acked)
    BY <1>0 DEF TaskInv, Granted
  <2> HIDE DEF p
  <2>5. t \in RunTasks
    BY <1>0, <2>3 DEF RunTasks
  <2>6. t.at = "flush" /\ t.rounds = run[r].rounds
    BY <1>0 DEF RunTasks
  <2>7. t.consent = run[r].consent /\ t.apply = run[r].apply
    BY <1>0 DEF RunTasks
  <2>8. t.blocked = run[r].blocked /\ t.saved = run[r].saved /\ t.kept = run[r].kept
    BY <1>0 DEF RunTasks
  <2>9. t.applied = p
    BY <1>0 DEF RunTasks
  <2> HIDE DEF t
  <2>10. ~run[r].saved /\ (r \in inFlight <=> run[r].kept)
    BY <1>0, <2>1 DEF TaskInv, OnDisk
  <2>11. ~Finished(r) /\ inFlight' \subseteq RunIds
    BY <2>1 DEF Finished, DaemonTypes
  <2> QED
    BY <2>1, <2>2, <2>4, <2>5, <2>6, <2>7, <2>8, <2>9, <2>10, <2>11, SilentStep
<1>4. CASE LoopFails(r)
  <2> DEFINE t == [run[r] EXCEPT !.at = "failed"]
  <2>1. /\ run[r].at = "loop"
        /\ UNCHANGED <<flags, loop, command, stream, out, registry, awaited,
                       approvals, inFlight, tokenFile, acked>>
    BY <1>4 DEF LoopFails, Running
  <2>2. run' = [run EXCEPT ![r] = t]
    BY <1>4 DEF LoopFails
  <2>5. t \in RunTasks
    BY <1>0 DEF RunTasks
  <2>6. t.at = "failed" /\ t.rounds = run[r].rounds
    BY <1>0 DEF RunTasks
  <2>7. t.consent = run[r].consent /\ t.apply = run[r].apply
    BY <1>0 DEF RunTasks
  <2>8. t.applied = run[r].applied /\ t.saved = run[r].saved /\ t.kept = run[r].kept
    BY <1>0 DEF RunTasks
  <2> HIDE DEF t
  <2>10. /\ ~run[r].saved /\ (r \in inFlight <=> run[r].kept)
         /\ ~run[r].applied
    BY <1>0, <2>1 DEF TaskInv, OnDisk, Granted
  <2>11. ~Finished(r) /\ inFlight' \subseteq RunIds
    BY <2>1 DEF Finished, DaemonTypes
  <2> QED
    BY <2>1, <2>2, <2>5, <2>6, <2>7, <2>8, <2>10, <2>11, SilentStep
<1>5. ASSUME NEW saved \in BOOLEAN, SaveReport(r, saved)
      PROVE  DaemonTypes' /\ DaemonInv'
  <2> DEFINE t == [run[r] EXCEPT !.at = "terminal", !.saved = saved]
  <2>1. /\ run[r].at = "flush" /\ stream[r] = <<>>
        /\ inFlight' = IF saved THEN inFlight \ {r} ELSE inFlight
        /\ UNCHANGED <<flags, loop, command, stream, out, registry, awaited,
                       approvals, tokenFile, acked>>
    BY <1>5 DEF SaveReport
  <2>2. run' = [run EXCEPT ![r] = t]
    BY <1>5 DEF SaveReport
  <2>5. t \in RunTasks
    BY <1>0 DEF RunTasks
  <2>6. t.at = "terminal" /\ t.rounds = run[r].rounds
    BY <1>0 DEF RunTasks
  <2>7. t.consent = run[r].consent /\ t.apply = run[r].apply
    BY <1>0 DEF RunTasks
  <2>8. t.applied = run[r].applied /\ t.blocked = run[r].blocked
    BY <1>0 DEF RunTasks
  <2>9. t.saved = saved /\ t.kept = run[r].kept
    BY <1>0 DEF RunTasks
  <2> HIDE DEF t
  <2>10. /\ r \in inFlight <=> run[r].kept
         /\ run[r].applied => ~run[r].blocked /\ (run[r].apply \/ r \in acked)
    BY <1>0, <2>1 DEF TaskInv, OnDisk, Granted
  <2>11. ~Finished(r) /\ inFlight' \subseteq RunIds
    BY <2>1 DEF Finished, DaemonTypes
  <2>12. r \in inFlight' <=> run[r].kept /\ ~saved
    BY <2>1, <2>10
  <2>13. \A q \in RunIds : q # r => (q \in inFlight <=> q \in inFlight')
    BY <2>1
  <2> QED
    BY <2>1, <2>2, <2>5, <2>6, <2>7, <2>8, <2>9, <2>10, <2>11, <2>12, <2>13,
       SilentStep
<1> QED
  BY <1>2, <1>3, <1>4, <1>5

(* The streamer moves a round from its channel to stdout. *)
LEMMA StreamRoundKeeps ==
    ASSUME DaemonTypes, DaemonInv, NEW r \in RunIds, StreamRound(r)
    PROVE  DaemonTypes' /\ DaemonInv'
<1> DEFINE o == Append(out[r], "round")
           s == Tail(stream[r])
<1>0. TaskInv(r)
  BY DEF DaemonInv
<1>1. /\ stream[r] # <<>>
      /\ UNCHANGED <<flags, loop, command, run, registry, awaited, approvals,
                     inFlight, tokenFile, acked>>
      /\ out' = [out EXCEPT ![r] = o] /\ stream' = [stream EXCEPT ![r] = s]
  BY DEF StreamRound
<1>2. run[r].at \notin {"none", "terminal", "finished", "dropped"}
  BY <1>0, <1>1 DEF TaskInv, Streamed
<1>3. "round" \in Lines
  BY DEF Lines
<1>4. /\ o \in Seq(Lines) /\ Len(o) = Len(out[r]) + 1
      /\ DOMAIN o = 1 .. Len(out[r]) + 1 /\ DOMAIN out[r] = 1 .. Len(out[r])
      /\ o[Len(out[r]) + 1] = "round"
      /\ \A i \in 1 .. Len(out[r]) : o[i] = out[r][i]
  BY <1>3, OneTask
<1>5. Count(o, "round") = Count(out[r], "round") + 1
  BY <1>3, OneTask, CountAppend
<1>6. /\ s \in Seq(Nat) /\ Len(s) = Len(stream[r]) - 1
      /\ \A i \in DOMAIN s : i + 1 \in DOMAIN stream[r] /\ s[i] = stream[r][i + 1]
  BY <1>1, OneTask
<1> HIDE DEF o, s
<1>7. Becomes(r, run[r], s, o)
  BY <1>1, OneTask DEF Becomes
<1>8. run'[r] = run[r] /\ stream'[r] = s /\ out'[r] = o
  BY <1>4, <1>6, <1>7, OneTask, OthersStay
<1>9. Streamed(r)'
  <2>1. Count(out[r], "round") + Len(stream[r]) = run[r].rounds
    BY <1>0, <1>2 DEF TaskInv, Streamed
  <2>2. Count(o, "round") + Len(s) = run[r].rounds
    BY <1>5, <1>6, <2>1, OneTask
  <2>3. \A i \in DOMAIN s : s[i] \in 1 .. LastRound[r]
    BY <1>0, <1>6 DEF TaskInv, Streamed
  <2> QED
    BY <1>0, <1>2, <1>8, <2>2, <2>3 DEF TaskInv, Streamed
<1>10. Printing(r)'
  <2>0. Len(out[r]) \in Nat /\ Len(out[r]) > 0
    BY <1>0, <1>2, OneTask DEF TaskInv, Printing
  <2>1. \A i \in DOMAIN o : /\ (o[i] = "started") <=> (i = 1)
                            /\ o[i] \in {"started", "round"}
    <3> SUFFICES ASSUME NEW i \in 1 .. Len(out[r]) + 1
                 PROVE  ((o[i] = "started") <=> (i = 1)) /\ o[i] \in {"started", "round"}
      BY <1>4
    <3>1. CASE i = Len(out[r]) + 1
      BY <1>4, <2>0, <3>1
    <3>2. CASE i \in 1 .. Len(out[r])
      BY <1>0, <1>2, <1>4, <3>2 DEF TaskInv, Printing
    <3> QED
      BY <2>0, <3>1, <3>2
  <2> QED
    BY <1>2, <1>4, <1>8, <2>0, <2>1 DEF Printing
<1>11. Granted(r)' /\ OnDisk(r)'
  BY <1>0, <1>1 DEF TaskInv, Granted, OnDisk
<1>12. TaskInv(r)'
  BY <1>9, <1>10, <1>11 DEF TaskInv
<1>13. ~Finished(r) /\ inFlight' \subseteq RunIds
  BY <1>1, <1>2 DEF Finished, DaemonTypes
<1> QED
  BY <1>1, <1>4, <1>6, <1>7, <1>12, <1>13, OneTask, TaskStep

(* A task is over once its last lines are printed, o being all of them. *)
LEMMA TaskEnds ==
    ASSUME DaemonTypes, DaemonInv, NEW r \in RunIds,
           run[r].at \in {"terminal", "failed"}, stream[r] = <<>>,
           NEW o \in Seq(Lines), out' = [out EXCEPT ![r] = o],
           run' = [run EXCEPT ![r] = Over(@, "finished")],
           UNCHANGED <<flags, loop, command, stream, registry, awaited,
                       approvals, inFlight, tokenFile, acked>>,
           Len(o) > Len(out[r]), o[Len(o)] \in {"ended", "error"},
           \A i \in 1 .. Len(out[r]) : o[i] = out[r][i],
           \A i \in Len(out[r]) + 1 .. Len(o) :
              /\ o[i] \in {"applied", "discarded", "ended", "error"}
              /\ o[i] \in {"ended", "error"} => i = Len(o)
              /\ o[i] = "applied" => run[r].applied
              /\ o[i] = "discarded" => ~run[r].applied,
           Count(o, "round") = Count(out[r], "round")
    PROVE  DaemonTypes' /\ DaemonInv'
<1> DEFINE t == [run[r] EXCEPT !.at = "finished", !.consent = FALSE, !.cancel = FALSE]
<1>0. TaskInv(r) /\ run[r] \in RunTasks /\ "finished" \in Ats
  BY OneTask DEF DaemonInv, Ats
<1>1. run' = [run EXCEPT ![r] = t]
  BY DEF Over
<1>2. t \in RunTasks
  BY <1>0 DEF RunTasks
<1>3. t.at = "finished" /\ t.rounds = run[r].rounds
  BY <1>0 DEF RunTasks
<1>4. t.apply = run[r].apply /\ t.applied = run[r].applied
  BY <1>0 DEF RunTasks
<1>5. t.blocked = run[r].blocked /\ t.saved = run[r].saved /\ t.kept = run[r].kept
  BY <1>0 DEF RunTasks
<1>6. ~t.consent
  BY <1>0 DEF RunTasks
<1> HIDE DEF t
<1>7. Becomes(r, t, stream[r], o)
  BY <1>1, OneTask DEF Becomes
<1>8. run'[r] = t /\ stream'[r] = stream[r] /\ out'[r] = o
  BY <1>2, <1>7, OneTask, OthersStay
<1>9. Streamed(r)'
  BY <1>0, <1>3, <1>8 DEF TaskInv, Streamed
<1>10. Printing(r)'
  <2>0. /\ Len(out[r]) \in Nat /\ Len(out[r]) > 0 /\ Len(o) \in Nat
        /\ DOMAIN o = 1 .. Len(o) /\ DOMAIN out[r] = 1 .. Len(out[r])
    BY <1>0, OneTask DEF TaskInv, Printing
  <2>a. \A n, k \in Nat : n > 0 /\ k > n =>
            /\ k > 0
            /\ \A i \in 1 .. k : i \in 1 .. n \/ i \in n + 1 .. k
            /\ \A i \in n + 1 .. k : i # 1
    OBVIOUS
  <2>1. ASSUME NEW i \in DOMAIN o
        PROVE  /\ (o[i] = "started") <=> (i = 1)
               /\ o[i] \in {"ended", "error"} => i = Len(o)
               /\ o[i] = "applied" => run[r].applied
               /\ o[i] = "discarded" => ~run[r].applied
    <3>1. CASE i \in Len(out[r]) + 1 .. Len(o)
      <4>1. i # 1
        BY <2>0, <3>1, <2>a
      <4>2. /\ o[i] \in {"applied", "discarded", "ended", "error"}
            /\ o[i] \in {"ended", "error"} => i = Len(o)
            /\ o[i] = "applied" => run[r].applied
            /\ o[i] = "discarded" => ~run[r].applied
        BY <3>1
      <4> QED
        BY <4>1, <4>2
    <3>2. CASE i \in 1 .. Len(out[r])
      <4>1. o[i] = out[r][i] /\ i \in DOMAIN out[r]
        BY <2>0, <3>2
      <4>2. /\ (out[r][i] = "started") <=> (i = 1)
            /\ out[r][i] \in {"started", "round"}
        BY <1>0, <4>1 DEF TaskInv, Printing
      <4> QED
        BY <4>1, <4>2
    <3>3. i \in 1 .. Len(out[r]) \/ i \in Len(out[r]) + 1 .. Len(o)
      BY <2>0, <2>a
    <3> QED
      BY <3>1, <3>2, <3>3
  <2>2. Len(o) > 0
    BY <2>0, <2>a
  <2> QED
    BY <1>3, <1>4, <1>8, <2>1, <2>2 DEF Printing
<1>11. Granted(r)'
  BY <1>0, <1>3, <1>4, <1>5, <1>6, <1>8 DEF TaskInv, Granted
<1>12. OnDisk(r)'
  BY <1>0, <1>3, <1>5, <1>8 DEF TaskInv, OnDisk
<1>13. TaskInv(r)'
  BY <1>9, <1>10, <1>11, <1>12 DEF TaskInv
<1>14. ~Finished(r) /\ inFlight' \subseteq RunIds
  BY DEF Finished, DaemonTypes
<1> QED
  BY <1>2, <1>7, <1>13, <1>14, OneTask, TaskStep

(* The last lines of a session say what became of its patch. *)
LEMMA EmitTerminalKeeps ==
    ASSUME DaemonTypes, DaemonInv, NEW r \in RunIds, EmitTerminal(r)
    PROVE  DaemonTypes' /\ DaemonInv'
<1>0. /\ out[r] \in Seq(Lines) /\ Len(out[r]) \in Nat /\ TaskInv(r)
      /\ \A line \in {"applied", "discarded", "ended", "error"} :
            line \in Lines /\ line # "round"
  BY OneTask DEF DaemonInv, Lines
<1>1. /\ run' = [run EXCEPT ![r] = Over(@, "finished")]
      /\ UNCHANGED <<flags, loop, command, stream, registry, awaited, approvals,
                     inFlight, tokenFile, acked>>
  BY DEF EmitTerminal
<1>2. CASE run[r].at = "terminal"
  <2> DEFINE a == IF run[r].applied THEN "applied" ELSE "discarded"
             m == Append(out[r], a)
             o == Append(m, "ended")
  <2>1. /\ a \in {"applied", "discarded"}
        /\ a = "applied" => run[r].applied
        /\ a = "discarded" => ~run[r].applied
    OBVIOUS
  <2>2. out' = [out EXCEPT ![r] = out[r] \o <<a, "ended">>]
    BY <1>2 DEF EmitTerminal
  <2> HIDE DEF a
  <2>3. /\ m \in Seq(Lines) /\ Len(m) = Len(out[r]) + 1 /\ m[Len(out[r]) + 1] = a
        /\ \A i \in 1 .. Len(out[r]) : m[i] = out[r][i]
    BY <1>0, <2>1
  <2>4. Count(m, "round") = Count(out[r], "round")
    BY <1>0, <2>1, CountAppend
  <2>5. out[r] \o <<a, "ended">> = o
    BY <1>0, <2>1
  <2> HIDE DEF m
  <2>6. /\ o \in Seq(Lines) /\ Len(o) = Len(out[r]) + 2 /\ o[Len(out[r]) + 2] = "ended"
        /\ \A i \in 1 .. Len(out[r]) + 1 : o[i] = m[i]
    BY <1>0, <2>3
  <2>7. Count(o, "round") = Count(out[r], "round")
    BY <1>0, <2>3, <2>4, CountAppend
  <2> HIDE DEF o
  <2>8. stream[r] = <<>>
    BY <1>0, <1>2 DEF TaskInv, Streamed
  <2>9. out' = [out EXCEPT ![r] = o]
    BY <2>2, <2>5
  <2>10. \A i \in Len(out[r]) + 1 .. Len(o) :
            /\ o[i] \in {"applied", "discarded", "ended", "error"}
            /\ o[i] \in {"ended", "error"} => i = Len(o)
            /\ o[i] = "applied" => run[r].applied
            /\ o[i] = "discarded" => ~run[r].applied
    <3> SUFFICES ASSUME NEW i \in Len(out[r]) + 1 .. Len(o)
                 PROVE  /\ o[i] \in {"applied", "discarded", "ended", "error"}
                        /\ o[i] \in {"ended", "error"} => i = Len(o)
                        /\ o[i] = "applied" => run[r].applied
                        /\ o[i] = "discarded" => ~run[r].applied
      OBVIOUS
    <3>1. i = Len(out[r]) + 1 \/ i = Len(out[r]) + 2
      BY <1>0, <2>6
    <3>2. CASE i = Len(out[r]) + 1
      <4>1. i \in 1 .. Len(out[r]) + 1
        BY <1>0, <3>2
      <4>2. o[i] = m[i]
        BY ONLY <2>6, <4>1
      <4>3. m[i] = a
        BY ONLY <2>3, <3>2
      <4> QED
        BY <2>1, <4>2, <4>3
    <3>3. CASE i = Len(out[r]) + 2
      <4>1. o[i] = "ended" /\ i = Len(o)
        BY <2>6, <3>3
      <4> QED
        BY <4>1
    <3> QED
      BY <3>1, <3>2, <3>3
  <2>11. \A i \in 1 .. Len(out[r]) : o[i] = out[r][i]
    BY <1>0, <2>3, <2>6
  <2>12. Len(o) > Len(out[r]) /\ o[Len(o)] \in {"ended", "error"}
    BY <1>0, <2>6
  <2> QED
    BY <1>1, <1>2, <2>6, <2>7, <2>8, <2>9, <2>10, <2>11, <2>12, TaskEnds
<1>3. CASE run[r].at = "failed" /\ stream[r] = <<>>
  <2> DEFINE o == Append(out[r], "error")
  <2>1. /\ o \in Seq(Lines) /\ Len(o) = Len(out[r]) + 1 /\ o[Len(out[r]) + 1] = "error"
        /\ \A i \in 1 .. Len(out[r]) : o[i] = out[r][i]
    BY <1>0
  <2>2. Count(o, "round") = Count(out[r], "round")
    BY <1>0, CountAppend
  <2>3. out' = [out EXCEPT ![r] = o]
    BY <1>3 DEF EmitTerminal
  <2> HIDE DEF o
  <2>4. \A i \in Len(out[r]) + 1 .. Len(o) : i = Len(o) /\ o[i] = "error"
    BY <1>0, <2>1
  <2>5. Len(o) > Len(out[r]) /\ o[Len(o)] \in {"ended", "error"}
    BY <1>0, <2>1
  <2> QED
    BY <1>1, <1>3, <2>1, <2>2, <2>3, <2>4, <2>5, TaskEnds
<1> QED
  BY <1>2, <1>3 DEF EmitTerminal

-----------------------------------------------------------------------------
(***************************************************************************)
(* Commands that reach a run, and the end of the daemon                    *)
(***************************************************************************)

(* A prompt starts a run that was not there. *)
LEMMA SpawnRunKeeps ==
    ASSUME DaemonTypes, DaemonInv, NEW r \in RunIds, SpawnRun(r)
    PROVE  DaemonTypes' /\ DaemonInv'
<1> DEFINE t == [run[r] EXCEPT !.at = "loop", !.apply = flags.apply]
           o == <<"started">>
<1>0. /\ run[r] \in RunTasks /\ TaskInv(r) /\ "loop" \in Ats /\ "started" \in Lines
      /\ flags.apply \in BOOLEAN
  BY OneTask DEF DaemonInv, Ats, Lines, DaemonTypes
<1>1. /\ loop = "reading" /\ command = NoCommand /\ run[r].at = "none"
      /\ run' = [run EXCEPT ![r] = t] /\ out' = [out EXCEPT ![r] = o]
      /\ command' = [name |-> "prompt", id |-> r]
      /\ UNCHANGED <<flags, loop, stream, registry, awaited, approvals,
                     inFlight, tokenFile, acked>>
  BY DEF SpawnRun, Reading
<1>2. t \in RunTasks
  BY <1>0 DEF RunTasks
<1>3. t.at = "loop" /\ t.rounds = run[r].rounds
  BY <1>0 DEF RunTasks
<1>4. t.consent = run[r].consent /\ t.applied = run[r].applied
  BY <1>0 DEF RunTasks
<1>5. t.saved = run[r].saved /\ t.kept = run[r].kept
  BY <1>0 DEF RunTasks
<1> HIDE DEF t
<1>6. /\ o \in Seq(Lines) /\ Len(o) = 1 /\ DOMAIN o = {1} /\ o[1] = "started"
  BY <1>0
<1>7. Count(o, "round") = 0 /\ Count(out[r], "round") = 0
  BY <1>0, <1>1, <1>6, CountNone DEF TaskInv, Printing
<1> HIDE DEF o
<1>8. Becomes(r, t, stream[r], o)
  BY <1>1, OneTask DEF Becomes
<1>9. /\ run' \in [RunIds -> RunTasks]
      /\ stream' \in [RunIds -> Seq(Nat)]
      /\ out' \in [RunIds -> Seq(Lines)]
      /\ run'[r] = t /\ stream'[r] = stream[r] /\ out'[r] = o
      /\ \A q \in RunIds : q # r => /\ run'[q] = run[q]
                                    /\ stream'[q] = stream[q]
                                    /\ out'[q] = out[q]
  BY <1>2, <1>6, <1>8, OneTask, OthersStay
<1>10. DaemonTypes'
  BY <1>1, <1>9 DEF DaemonTypes
<1>11. TaskInv(r)'
  <2>1. Streamed(r)'
    BY <1>0, <1>1, <1>3, <1>7, <1>9 DEF TaskInv, Streamed
  <2>2. Printing(r)'
    <3>1. \A i \in DOMAIN o : i = 1 /\ o[i] = "started"
      BY <1>6
    <3>2. run'[r].at = "loop" /\ out'[r] = o
      BY <1>3, <1>9
    <3>3. /\ Len(o) > 0 /\ Len(o) = 1
          /\ \A i \in DOMAIN o :
                /\ (o[i] = "started") <=> (i = 1)
                /\ o[i] \in {"started", "round"}
                /\ o[i] \notin {"ended", "error", "applied", "discarded"}
      BY <1>6, <3>1
    <3> HIDE DEF o
    <3> QED
      BY <3>2, <3>3 DEF Printing
  <2>3. Granted(r)'
    BY <1>0, <1>1, <1>3, <1>4, <1>9 DEF TaskInv, Granted
  <2>4. OnDisk(r)'
    BY <1>0, <1>1, <1>3, <1>5, <1>9 DEF TaskInv, OnDisk
  <2> QED
    BY <2>1, <2>2, <2>3, <2>4 DEF TaskInv
<1>12. \A q \in RunIds : TaskInv(q)'
  BY <1>1, <1>9, <1>11, TaskFrame DEF DaemonInv
<1>13. LoopInv'
  <2>1. \A q \in RunIds : q # r => (Finished(q)' <=> Finished(q))
    BY <1>9 DEF Finished
  <2>2. command.name = "none" /\ command'.name = "prompt" /\ command'.id = r
    BY <1>1 DEF NoCommand
  <2>3. \A q \in RunIds : Finished(q)' \/ q \in registry'
                          \/ command' = [name |-> "prompt", id |-> q]
    <3> TAKE q \in RunIds
    <3>1. CASE q = r
      BY <1>1, <3>1
    <3>2. CASE q # r
      BY <1>1, <2>1, <2>2, <3>2 DEF DaemonInv, LoopInv
    <3> QED
      BY <3>1, <3>2
  <2> QED
    BY <1>1, <2>2, <2>3 DEF DaemonInv, LoopInv
<1> QED
  BY <1>10, <1>12, <1>13 DEF DaemonInv

(* approve flips the consent of a run that is in flight. *)
LEMMA GrantKeeps ==
    ASSUME DaemonTypes, DaemonInv, NEW r \in RunIds, GrantInFlight(r)
    PROVE  DaemonTypes' /\ DaemonInv'
<1> DEFINE t == [run[r] EXCEPT !.consent = TRUE]
<1>0. run[r] \in RunTasks /\ TaskInv(r)
  BY OneTask DEF DaemonInv
<1>1. /\ loop = "reading" /\ command = NoCommand
      /\ run' = [run EXCEPT ![r] = t] /\ acked' = acked \cup {r}
      /\ command' = [name |-> "approve", id |-> r]
      /\ UNCHANGED <<flags, loop, stream, out, registry, awaited, approvals,
                     inFlight, tokenFile>>
  BY DEF GrantInFlight, Reading
<1>2. t \in RunTasks
  BY <1>0 DEF RunTasks
<1>3. t.at = run[r].at /\ t.rounds = run[r].rounds
  BY <1>0 DEF RunTasks
<1>4. t.apply = run[r].apply /\ t.applied = run[r].applied
  BY <1>0 DEF RunTasks
<1>5. t.blocked = run[r].blocked /\ t.saved = run[r].saved /\ t.kept = run[r].kept
  BY <1>0 DEF RunTasks
<1> HIDE DEF t
<1>6. Becomes(r, t, stream[r], out[r])
  BY <1>1, OneTask DEF Becomes
<1>7. /\ run' \in [RunIds -> RunTasks]
      /\ stream' \in [RunIds -> Seq(Nat)]
      /\ out' \in [RunIds -> Seq(Lines)]
      /\ run'[r] = t /\ stream'[r] = stream[r] /\ out'[r] = out[r]
      /\ \A q \in RunIds : q # r => /\ run'[q] = run[q]
                                    /\ stream'[q] = stream[q]
                                    /\ out'[q] = out[q]
  BY <1>2, <1>6, OneTask, OthersStay
<1>8. DaemonTypes'
  BY <1>1, <1>7 DEF DaemonTypes
<1>9. TaskInv(r)'
  <2>1. Streamed(r)'
    BY <1>0, <1>3, <1>7 DEF TaskInv, Streamed
  <2>2. Printing(r)'
    BY <1>0, <1>3, <1>4, <1>7 DEF TaskInv, Printing
  <2>3. Granted(r)'
    BY <1>0, <1>1, <1>3, <1>4, <1>5, <1>7 DEF TaskInv, Granted
  <2>4. OnDisk(r)'
    BY <1>0, <1>1, <1>3, <1>5, <1>7 DEF TaskInv, OnDisk
  <2> QED
    BY <2>1, <2>2, <2>3, <2>4 DEF TaskInv
<1>10. \A q \in RunIds : TaskInv(q)'
  BY <1>1, <1>7, <1>9, TaskFrame DEF DaemonInv
<1>11. LoopInv'
  <2>1. \A q \in RunIds : Finished(q)' <=> Finished(q)
    BY <1>3, <1>7 DEF Finished
  <2>2. command.name = "none" /\ command'.name = "approve" /\ command'.id = r
    BY <1>1 DEF NoCommand
  <2>3. \A q \in RunIds : Finished(q) \/ q \in registry
    BY <1>1, <2>2 DEF DaemonInv, LoopInv
  <2> QED
    BY <1>1, <2>1, <2>2, <2>3 DEF DaemonInv, LoopInv
<1> QED
  BY <1>8, <1>10, <1>11 DEF DaemonInv

(* cancel sets the token of the runs it names, and nothing else. *)
LEMMA CancelKeeps ==
    ASSUME DaemonTypes, DaemonInv, NEW rs \in SUBSET RunIds, CancelInFlight(rs)
    PROVE  DaemonTypes' /\ DaemonInv'
<1>1. /\ loop = "reading" /\ command = NoCommand /\ NextCommand
      /\ run' = [r \in RunIds |-> IF r \in rs THEN [run[r] EXCEPT !.cancel = TRUE]
                                  ELSE run[r]]
      /\ UNCHANGED <<flags, stream, out, registry, awaited, approvals, inFlight,
                     tokenFile, acked>>
  BY DEF CancelInFlight, Reading
<1>2. \A r \in RunIds : run[r] \in RunTasks
  BY DEF DaemonTypes
<1>3. \A t \in RunTasks : LET c == [t EXCEPT !.cancel = TRUE] IN
          /\ c \in RunTasks
          /\ c.at = t.at /\ c.rounds = t.rounds
          /\ c.apply = t.apply /\ c.consent = t.consent
          /\ c.blocked = t.blocked
          /\ c.applied = t.applied /\ c.saved = t.saved /\ c.kept = t.kept
  BY DEF RunTasks
<1>4. \A r \in RunIds :
          /\ run'[r] \in RunTasks
          /\ run'[r].at = run[r].at /\ run'[r].rounds = run[r].rounds
          /\ run'[r].apply = run[r].apply /\ run'[r].consent = run[r].consent
          /\ run'[r].blocked = run[r].blocked
          /\ run'[r].applied = run[r].applied
          /\ run'[r].saved = run[r].saved /\ run'[r].kept = run[r].kept
  BY <1>1, <1>2, <1>3
<1>5. run' \in [RunIds -> RunTasks]
  BY <1>1, <1>4
<1>6. /\ loop' \in {"reading", "awaiting"} /\ command' = NoCommand
      /\ NoCommand \in [name : {"none", "prompt", "approve"}, id : RunIds \cup {NoRun}]
      /\ NoCommand.name = "none"
  BY <1>1 DEF NextCommand, NoCommand
<1>7. DaemonTypes'
  BY <1>1, <1>5, <1>6 DEF DaemonTypes
<1>8. ASSUME NEW r \in RunIds PROVE TaskInv(r)'
  <2>0. TaskInv(r)
    BY DEF DaemonInv
  <2>1. Streamed(r)'
    BY <1>1, <1>4, <2>0 DEF TaskInv, Streamed
  <2>2. Printing(r)'
    BY <1>1, <1>4, <2>0 DEF TaskInv, Printing
  <2>3. Granted(r)'
    BY <1>1, <1>4, <2>0 DEF TaskInv, Granted
  <2>4. OnDisk(r)'
    BY <1>1, <1>4, <2>0 DEF TaskInv, OnDisk
  <2> QED
    BY <2>1, <2>2, <2>3, <2>4 DEF TaskInv
<1>9. LoopInv'
  <2>1. \A q \in RunIds : Finished(q)' <=> Finished(q)
    BY <1>4 DEF Finished
  <2>2. \A q \in RunIds : Finished(q) \/ q \in registry
    BY <1>1, <1>6 DEF DaemonInv, LoopInv, NoCommand
  <2> QED
    BY <1>1, <1>6, <2>1, <2>2 DEF DaemonInv, LoopInv
<1> QED
  BY <1>7, <1>8, <1>9 DEF DaemonInv

(* A daemon that is killed drops its tasks where they are. *)
LEMMA StopKeeps ==
    ASSUME DaemonTypes, DaemonInv, DaemonStops
    PROVE  DaemonTypes' /\ DaemonInv'
<1>1. /\ loop' = "dead" /\ command' = NoCommand
      /\ run' = [r \in RunIds |-> IF Finished(r) THEN run[r]
                                  ELSE Over(run[r], "dropped")]
      /\ stream' = [r \in RunIds |-> <<>>]
      /\ registry' = {} /\ awaited' = {}
      /\ UNCHANGED <<flags, out, approvals, inFlight, tokenFile, acked>>
  BY DEF DaemonStops
<1>2. \A r \in RunIds : run[r] \in RunTasks
  BY DEF DaemonTypes
<1>3. ASSUME NEW t \in RunTasks
      PROVE  LET c == Over(t, "dropped") IN
             /\ c \in RunTasks
             /\ c.at = "dropped" /\ c.rounds = t.rounds
             /\ c.apply = t.apply /\ ~c.consent
             /\ c.blocked = t.blocked
             /\ c.applied = t.applied /\ c.saved = t.saved /\ c.kept = t.kept
  <2> DEFINE c == [t EXCEPT !.at = "dropped", !.consent = FALSE, !.cancel = FALSE]
  <2>0. "dropped" \in Ats
    BY DEF Ats
  <2>1. c \in RunTasks
    BY <2>0 DEF RunTasks
  <2>2. c.at = "dropped" /\ c.rounds = t.rounds
    BY DEF RunTasks
  <2>3. c.apply = t.apply /\ ~c.consent
    BY DEF RunTasks
  <2>4. c.blocked = t.blocked /\ c.applied = t.applied /\ c.saved = t.saved /\ c.kept = t.kept
    BY DEF RunTasks
  <2> QED
    BY <2>1, <2>2, <2>3, <2>4 DEF Over
<1>4. ASSUME NEW r \in RunIds
      PROVE  /\ run'[r] \in RunTasks
             /\ Finished(r) => run'[r] = run[r]
             /\ ~Finished(r) => /\ run'[r].at = "dropped"
                                /\ run'[r].rounds = run[r].rounds
                                /\ run'[r].apply = run[r].apply
                                /\ ~run'[r].consent
                                /\ run'[r].blocked = run[r].blocked
                                /\ run'[r].applied = run[r].applied
                                /\ run'[r].saved = run[r].saved /\ run'[r].kept = run[r].kept
  BY <1>1, <1>2, <1>3
<1>5. run' \in [RunIds -> RunTasks]
  BY <1>1, <1>4
<1>6. /\ NoCommand \in [name : {"none", "prompt", "approve"}, id : RunIds \cup {NoRun}]
      /\ NoCommand.name = "none"
  BY DEF NoCommand
<1>7. stream' \in [RunIds -> Seq(Nat)]
  BY <1>1
<1>8. DaemonTypes'
  BY <1>1, <1>5, <1>6, <1>7 DEF DaemonTypes
<1>9. ASSUME NEW r \in RunIds PROVE TaskInv(r)'
  <2>0. TaskInv(r) /\ out'[r] = out[r] /\ stream'[r] = <<>>
        /\ (r \in acked' <=> r \in acked) /\ (r \in inFlight' <=> r \in inFlight)
    BY <1>1 DEF DaemonInv
  <2>1. CASE Finished(r)
    <3>1. stream[r] = <<>>
      BY <2>0, <2>1 DEF TaskInv, Streamed, Finished
    <3> QED
      BY <1>4, <2>0, <2>1, <3>1, TaskFrame
  <2>2. CASE ~Finished(r)
    <3>0. run[r].at \notin {"none", "finished", "dropped"}
      BY <2>2 DEF Finished
    <3>1. Streamed(r)'
      BY <1>4, <2>0, <2>2 DEF TaskInv, Streamed
    <3>2. Printing(r)'
      BY <1>4, <2>0, <2>2, <3>0 DEF TaskInv, Printing
    <3>3. Granted(r)'
      BY <1>4, <2>0, <2>2 DEF TaskInv, Granted
    <3>4. OnDisk(r)'
      BY <1>4, <2>0, <2>2 DEF TaskInv, OnDisk
    <3> QED
      BY <3>1, <3>2, <3>3, <3>4 DEF TaskInv
  <2> QED
    BY <2>1, <2>2
<1>10. LoopInv'
  BY <1>1, <1>6 DEF DaemonInv, LoopInv
<1> QED
  BY <1>8, <1>9, <1>10 DEF DaemonInv

-----------------------------------------------------------------------------
(***************************************************************************)
(* The theorem                                                             *)
(***************************************************************************)

(* Every step keeps the invariant. *)
LEMMA DaemonStep ==
    DaemonTypes /\ DaemonInv /\ [DaemonNext]_daemonVars => DaemonTypes' /\ DaemonInv'
<1> SUFFICES ASSUME DaemonTypes, DaemonInv, [DaemonNext]_daemonVars
             PROVE  DaemonTypes' /\ DaemonInv'
  OBVIOUS
<1>1. ASSUME NEW r \in RunIds, SpawnRun(r) PROVE DaemonTypes' /\ DaemonInv'
  BY <1>1, SpawnRunKeeps
<1>2. ASSUME NEW r \in RunIds, GrantInFlight(r) PROVE DaemonTypes' /\ DaemonInv'
  BY <1>2, GrantKeeps
<1>3. CASE FinishCommand \/ Conductor \/ AnswerCommand \/ EndOfInput \/ Shutdown
  BY <1>3, LoopSteps DEF FinishCommand, Shutdown
<1>4. CASE CancelRun \/ CancelAll
  <2>1. PICK rs \in SUBSET RunIds : CancelInFlight(rs)
    BY <1>4 DEF CancelRun, CancelAll, DaemonTypes
  <2> QED
    BY <2>1, CancelKeeps
<1>5. ASSUME NEW r \in RunIds, RunTask(r) PROVE DaemonTypes' /\ DaemonInv'
  <2>1. CASE \E written \in BOOLEAN : RecordRound(r, written)
    BY <2>1, RecordRoundKeeps
  <2>2. CASE EmitTerminal(r)
    BY <2>2, EmitTerminalKeeps
  <2>3. CASE \/ \E decided, blocked \in BOOLEAN : RoundSeam(r, decided, blocked)
             \/ ApplySeam(r) \/ LoopFails(r)
             \/ \E saved \in BOOLEAN : SaveReport(r, saved)
    BY <2>3, SeamsKeep
  <2> QED
    BY <1>5, <2>1, <2>2, <2>3 DEF RunTask
<1>6. ASSUME NEW r \in RunIds, StreamRound(r) PROVE DaemonTypes' /\ DaemonInv'
  BY <1>6, StreamRoundKeeps
<1>7. CASE DaemonStops
  BY <1>7, StopKeeps
<1>8. CASE UNCHANGED daemonVars
  <2>1. DaemonTypes'
    BY <1>8 DEF DaemonTypes, daemonVars
  <2>2. LoopInv'
    BY <1>8 DEF DaemonInv, LoopInv, Finished, daemonVars
  <2>3. \A r \in RunIds : TaskInv(r)'
    BY <1>8, TaskFrame DEF DaemonInv, daemonVars
  <2> QED
    BY <2>1, <2>2, <2>3 DEF DaemonInv
<1> QED
  BY <1>1, <1>2, <1>3, <1>4, <1>5, <1>6, <1>7, <1>8 DEF DaemonNext, DaemonDone

(* A daemon that has just started has nothing to answer for. *)
LEMMA DaemonStart ==
    DaemonInit => DaemonTypes /\ DaemonInv
<1> SUFFICES ASSUME DaemonInit PROVE DaemonTypes /\ DaemonInv
  OBVIOUS
<1>1. NotSpawned \in RunTasks
  <2>1. "none" \in Ats
    BY DEF Ats
  <2> QED
    BY <2>1 DEF NotSpawned, RunTasks
<1>2. NoCommand \in [name : {"none", "prompt", "approve"}, id : RunIds \cup {NoRun}]
      /\ NoCommand.name = "none"
  BY DEF NoCommand
<1>3. flags \in [apply : BOOLEAN, once : BOOLEAN]
  BY DEF DaemonInit
<1>4. DaemonTypes
  <2>1. run \in [RunIds -> RunTasks] /\ stream \in [RunIds -> Seq(Nat)]
        /\ out \in [RunIds -> Seq(Lines)]
    BY <1>1 DEF DaemonInit
  <2>2. tokenFile \in BOOLEAN
    BY DEF DaemonInit
  <2> QED
    BY <1>2, <1>3, <2>1, <2>2 DEF DaemonInit, DaemonTypes
<1>5. \A r \in RunIds : /\ run[r] = NotSpawned /\ stream[r] = <<>> /\ out[r] = <<>>
                        /\ LastRound[r] \in Nat /\ r \notin inFlight
  BY DEF DaemonInit
<1>6. NotSpawned.at = "none" /\ NotSpawned.rounds = 0 /\ ~NotSpawned.applied
      /\ ~NotSpawned.consent /\ ~NotSpawned.saved /\ ~NotSpawned.kept
  BY DEF NotSpawned
<1>7. LoopInv
  BY <1>2, <1>5, <1>6 DEF DaemonInit, LoopInv, Finished
<1>8. Count(<<>>, "round") = 0
  BY CountNone
<1>9. ASSUME NEW r \in RunIds PROVE TaskInv(r)
  <2>1. Streamed(r)
    BY <1>5, <1>6, <1>8 DEF Streamed
  <2>2. Printing(r)
    BY <1>5, <1>6 DEF Printing
  <2>3. Granted(r) /\ OnDisk(r)
    BY <1>5, <1>6 DEF Granted, OnDisk
  <2> QED
    BY <2>1, <2>2, <2>3 DEF TaskInv
<1> QED
  BY <1>4, <1>7, <1>9 DEF DaemonInv

(* For every set of runs and every number of rounds: the lines of a        *)
(* session keep their causal order and count every round, a run that is    *)
(* not over is tracked, a graceful exit cuts nothing off and removes the   *)
(* bearer token, an applied patch was granted, and status finds what is    *)
(* not yet saved, however the read loop, the run tasks, their streamers,   *)
(* the end of the input and a kill interleave (main.rs:4661-5160).         *)
THEOREM DaemonStaysOrderly == DaemonSpec => []DaemonOrderly
<1>1. DaemonInit => DaemonTypes /\ DaemonInv
  BY DaemonStart
<1>2. DaemonTypes /\ DaemonInv /\ [DaemonNext]_daemonVars => (DaemonTypes /\ DaemonInv)'
  BY DaemonStep
<1>3. DaemonTypes /\ DaemonInv => DaemonOrderly
  BY DaemonImplies
<1> QED
  BY <1>1, <1>2, <1>3, PTL DEF DaemonSpec

-----------------------------------------------------------------------------
(***************************************************************************)
(* Adding up                                                               *)
(***************************************************************************)

(* A set of natural numbers that has 0, and with a number the next one,    *)
(* has them all.                                                           *)
LEMMA Induction ==
    ASSUME NEW S, 0 \in S, \A n \in Nat : n \in S => n + 1 \in S
    PROVE  Nat \subseteq S
<1> SUFFICES ASSUME Nat \ S # {} PROVE FALSE
  OBVIOUS
<1>1. PICK m \in Nat \ S : \A k \in Nat \ S : ~(<<k, m>> \in OpToRel(<, Nat))
  BY NatLessThanWellFounded, WFMin DEF OpToRel
<1>2. m - 1 \in Nat /\ m - 1 < m /\ (m - 1) + 1 = m
  BY SMT
<1>3. m - 1 \in S
  BY <1>1, <1>2 DEF OpToRel
<1> QED
  BY <1>2, <1>3

(* it adds up f over every subset of C, one member after the other. *)
AddsUp(it, f, C) ==
    it = [s \in SUBSET C |->
            IF s = {} THEN 0
            ELSE LET x == CHOOSE y \in s : TRUE IN f[x] + it[s \ {x}]]

(* The sums up to any number of members, and so all of them, exist. *)
LEMMA SumsExist ==
    ASSUME NEW C, IsFiniteSet(C), NEW f \in [C -> Nat]
    PROVE  \E it \in [SUBSET C -> Nat] : AddsUp(it, f, C)
<1> DEFINE Pick(s) == CHOOSE y \in s : TRUE
           Small(n) == {s \in SUBSET C : Cardinality(s) <= n}
           Good(n) == \E g \in [Small(n) -> Nat] : \A s \in Small(n) :
                        g[s] = IF s = {} THEN 0 ELSE f[Pick(s)] + g[s \ {Pick(s)}]
           S == {n \in Nat : Good(n)}
<1>1. \A s \in SUBSET C : /\ IsFiniteSet(s) /\ Cardinality(s) \in Nat
                          /\ Cardinality(s) = 0 => s = {}
                          /\ Cardinality(s) <= Cardinality(C)
  BY FS_Subset, FS_CardinalityType, FS_EmptySet
<1>2. \A s \in SUBSET C : s # {} =>
         /\ Pick(s) \in s /\ s \ {Pick(s)} \in SUBSET C
         /\ Cardinality(s \ {Pick(s)}) = Cardinality(s) - 1
  BY <1>1, FS_RemoveElement
<1> HIDE DEF Pick
<1>3. 0 \in S
  <2> DEFINE g == [s \in Small(0) |-> 0]
  <2>1. \A s \in Small(0) : s = {}
    BY <1>1
  <2>2. g \in [Small(0) -> Nat]
    OBVIOUS
  <2> QED
    BY <2>1, <2>2
<1>4. ASSUME NEW n \in Nat, n \in S PROVE n + 1 \in S
  <2>1. PICK g \in [Small(n) -> Nat] : \A s \in Small(n) :
               g[s] = IF s = {} THEN 0 ELSE f[Pick(s)] + g[s \ {Pick(s)}]
    BY <1>4
  <2> DEFINE h == [s \in Small(n + 1) |->
                     IF s = {} THEN 0 ELSE f[Pick(s)] + g[s \ {Pick(s)}]]
  <2>2. \A s \in Small(n + 1) : s # {} => s \ {Pick(s)} \in Small(n)
    BY <1>1, <1>2
  <2>3. Small(n) \subseteq Small(n + 1)
    BY <1>1
  <2>4. \A s \in Small(n) : h[s] = g[s]
    BY <2>1, <2>3
  <2>5. \A s \in Small(n + 1) :
           h[s] = IF s = {} THEN 0 ELSE f[Pick(s)] + h[s \ {Pick(s)}]
    BY <2>2, <2>4
  <2>6. \A s \in Small(n + 1) : h[s] \in Nat
    <3> TAKE s \in Small(n + 1)
    <3>1. CASE s = {}
      BY <3>1
    <3>2. CASE s # {}
      <4>1. f[Pick(s)] \in Nat /\ g[s \ {Pick(s)}] \in Nat
        BY <1>2, <2>1, <2>2, <3>2
      <4> QED
        BY <3>2, <4>1
    <3> QED
      BY <3>1, <3>2
  <2>7. h \in [Small(n + 1) -> Nat]
    BY <2>6
  <2> HIDE DEF h
  <2>8. Good(n + 1)
    BY <2>5, <2>7
  <2> HIDE DEF Good
  <2> QED
    BY <2>8
<1>5. Cardinality(C) \in S
  <2> HIDE DEF S
  <2>1. Nat \subseteq S
    BY <1>3, <1>4, Induction
  <2> QED
    BY <1>1, <2>1
<1>6. Small(Cardinality(C)) = SUBSET C
  BY <1>1
<1>7. PICK g \in [SUBSET C -> Nat] : \A s \in SUBSET C :
               g[s] = IF s = {} THEN 0 ELSE f[Pick(s)] + g[s \ {Pick(s)}]
  BY <1>5, <1>6
<1>8. AddsUp(g, f, C)
  BY <1>7 DEF AddsUp, Pick
<1> QED
  BY <1>7, <1>8

(* SumFunction is one of them. *)
LEMMA SumIsOne ==
    ASSUME NEW C, IsFiniteSet(C), NEW f \in [C -> Nat]
    PROVE  \E it : AddsUp(it, f, C) /\ SumFunction(f) = it[C]
<1>1. \E it : AddsUp(it, f, C)
  BY SumsExist
<1>2. AddsUp(CHOOSE it : AddsUp(it, f, C), f, C)
  BY <1>1
<1>3. SumFunction(f) = (CHOOSE it : AddsUp(it, f, C))[C]
  BY DEF SumFunction, SumFunctionOnSet, FoldFunctionOnSet, MapThenFoldSet, AddsUp
<1> QED
  BY <1>2, <1>3

(* When one value grows by n, so does the sum of every set that has it. *)
LEMMA SumGrows ==
    ASSUME NEW C, IsFiniteSet(C), NEW f \in [C -> Nat], NEW c \in C, NEW n \in Nat,
           NEW h, h = [f EXCEPT ![c] = f[c] + n]
    PROVE  SumFunction(h) = SumFunction(f) + n
<1> DEFINE Pick(s) == CHOOSE y \in s : TRUE
<1>1. /\ h \in [C -> Nat] /\ h[c] = f[c] + n
      /\ \A d \in C : d # c => h[d] = f[d]
  OBVIOUS
<1>2. PICK a : AddsUp(a, f, C) /\ SumFunction(f) = a[C]
  BY SumIsOne
<1>3. PICK b : AddsUp(b, h, C) /\ SumFunction(h) = b[C]
  BY <1>1, SumIsOne
<1>4. \A s \in SUBSET C :
         /\ a[s] = IF s = {} THEN 0 ELSE f[Pick(s)] + a[s \ {Pick(s)}]
         /\ b[s] = IF s = {} THEN 0 ELSE h[Pick(s)] + b[s \ {Pick(s)}]
  BY <1>2, <1>3 DEF AddsUp
<1>5. \A s \in SUBSET C : /\ IsFiniteSet(s) /\ Cardinality(s) \in Nat
                          /\ Cardinality(s) = 0 => s = {}
  BY FS_Subset, FS_CardinalityType, FS_EmptySet
<1>6. \A s \in SUBSET C : s # {} =>
         /\ Pick(s) \in s /\ s \ {Pick(s)} \in SUBSET C
         /\ Cardinality(s \ {Pick(s)}) = Cardinality(s) - 1
  BY <1>5, FS_RemoveElement
<1> HIDE DEF Pick
<1> DEFINE Grows(s) == a[s] \in Nat /\ b[s] = IF c \in s THEN a[s] + n ELSE a[s]
           S == {k \in Nat : \A s \in SUBSET C : Cardinality(s) = k => Grows(s)}
<1>7. 0 \in S
  BY <1>4, <1>5
<1>8. ASSUME NEW k \in Nat, k \in S PROVE k + 1 \in S
  <2> SUFFICES ASSUME NEW s \in SUBSET C, Cardinality(s) = k + 1 PROVE Grows(s)
    OBVIOUS
  <2>1. s # {}
    BY <1>5, FS_EmptySet
  <2> DEFINE x == Pick(s)
             r == s \ {x}
  <2>2. x \in s /\ x \in C /\ r \in SUBSET C /\ Cardinality(r) = k
    BY <1>6, <2>1
  <2>3. Grows(r)
    BY <1>8, <2>2
  <2>4. a[s] = f[x] + a[r] /\ b[s] = h[x] + b[r]
    BY <1>4, <2>1
  <2>5. x # c => (c \in r <=> c \in s)
    OBVIOUS
  <2>6. x = c => c \notin r /\ c \in s
    BY <2>2
  <2>7. f[x] \in Nat /\ h[x] = IF x = c THEN f[x] + n ELSE f[x]
    BY <1>1, <2>2
  <2> HIDE DEF x, r
  <2> QED
    BY <2>3, <2>4, <2>5, <2>6, <2>7
<1>9. Grows(C)
  <2>1. Nat \subseteq S
    <3> HIDE DEF S
    <3> QED
      BY <1>7, <1>8, Induction
  <2> QED
    BY <1>5, <2>1
<1> QED
  BY <1>2, <1>3, <1>9

(* Nothing adds up to nothing. *)
LEMMA SumOfZeros ==
    ASSUME NEW C, IsFiniteSet(C)
    PROVE  SumFunction([c \in C |-> 0]) = 0
<1> DEFINE f == [c \in C |-> 0]
           Pick(s) == CHOOSE y \in s : TRUE
<1>1. f \in [C -> Nat]
  OBVIOUS
<1>2. PICK a : AddsUp(a, f, C) /\ SumFunction(f) = a[C]
  BY <1>1, SumIsOne
<1>3. \A s \in SUBSET C :
         a[s] = IF s = {} THEN 0 ELSE f[Pick(s)] + a[s \ {Pick(s)}]
  BY <1>2 DEF AddsUp
<1>4. \A s \in SUBSET C : /\ IsFiniteSet(s) /\ Cardinality(s) \in Nat
                          /\ Cardinality(s) = 0 => s = {}
  BY FS_Subset, FS_CardinalityType, FS_EmptySet
<1>5. \A s \in SUBSET C : s # {} =>
         /\ Pick(s) \in s /\ s \ {Pick(s)} \in SUBSET C
         /\ Cardinality(s \ {Pick(s)}) = Cardinality(s) - 1
  BY <1>4, FS_RemoveElement
<1> HIDE DEF Pick
<1> DEFINE S == {k \in Nat : \A s \in SUBSET C : Cardinality(s) = k => a[s] = 0}
<1>6. 0 \in S
  BY <1>3, <1>4
<1>7. ASSUME NEW k \in Nat, k \in S PROVE k + 1 \in S
  <2> SUFFICES ASSUME NEW s \in SUBSET C, Cardinality(s) = k + 1 PROVE a[s] = 0
    OBVIOUS
  <2>1. s # {}
    BY <1>4, FS_EmptySet
  <2>2. Pick(s) \in C /\ a[s \ {Pick(s)}] = 0
    BY <1>5, <1>7, <2>1
  <2> QED
    BY <1>3, <2>1, <2>2
<1>8. a[C] = 0
  <2>1. Nat \subseteq S
    <3> HIDE DEF S
    <3> QED
      BY <1>6, <1>7, Induction
  <2> QED
    BY <1>4, <2>1
<1> QED
  BY <1>2, <1>8

-----------------------------------------------------------------------------
(***************************************************************************)
(* The bus: the token file                                                 *)
(***************************************************************************)

BusSteps == {"closed", "open", "write", "rename", "live"}
Holders == [at : BusSteps, fd : 0 .. MaxFiles, token : 0 .. MaxFiles,
            drawn : 0 .. MaxFiles]

TokenTypes ==
    /\ path \in 0 .. MaxFiles /\ tmp \in 0 .. MaxFiles
    /\ content \in [1 .. MaxFiles -> 0 .. MaxFiles]
    /\ files \in 0 .. MaxFiles
    /\ bus \in [BusProcs -> Holders]
    /\ undisturbed \subseteq BusProcs

(* A process that publishes has drawn a token and holds a file open; one   *)
(* that is live has a token.                                               *)
Drawn(p) ==
    /\ bus[p].at \in {"write", "rename"} => bus[p].drawn # 0 /\ bus[p].fd # 0
    /\ bus[p].at = "live" => bus[p].token # 0

(* While p is undisturbed nobody else is between opening the staging file  *)
(* and renaming it, so that the file p holds open is the one it will       *)
(* rename, with its own token in it.                                       *)
Alone(p) ==
    p \in undisturbed =>
        /\ \A q \in BusProcs : q # p => bus[q].at \notin {"write", "rename"}
        /\ bus[p].at \in {"write", "rename"} => tmp = bus[p].fd
        /\ bus[p].at = "rename" => content[tmp] = bus[p].drawn
        /\ bus[p].at = "live" => path # 0 /\ content[path] = bus[p].token

TokenInv == \A p \in BusProcs : Drawn(p) /\ Alone(p)

(* A step that gives process p the state s. *)
LEMMA HolderBecomes ==
    ASSUME TokenTypes, NEW p \in BusProcs, NEW s \in Holders,
           bus' = [bus EXCEPT ![p] = s]
    PROVE  /\ bus' \in [BusProcs -> Holders] /\ bus'[p] = s
           /\ \A q \in BusProcs : q # p => bus'[q] = bus[q]
  BY DEF TokenTypes

(* The state a process comes to, field by field. *)
LEMMA HolderFields ==
    ASSUME NEW s \in Holders, NEW a \in BusSteps
    PROVE  /\ [s EXCEPT !.at = a] \in Holders
           /\ [s EXCEPT !.at = a].at = a
           /\ [s EXCEPT !.at = a].fd = s.fd
           /\ [s EXCEPT !.at = a].drawn = s.drawn
           /\ [s EXCEPT !.at = a].token = s.token
  BY DEF Holders

(* A live process, a closed one. *)
LEMMA HolderEnds ==
    ASSUME NEW k \in 0 .. MaxFiles
    PROVE  /\ Closed \in Holders /\ Closed.at = "closed"
           /\ [Closed EXCEPT !.at = "live", !.token = k] \in Holders
           /\ [Closed EXCEPT !.at = "live", !.token = k].at = "live"
           /\ [Closed EXCEPT !.at = "live", !.token = k].token = k
<1>1. "closed" \in BusSteps /\ "live" \in BusSteps /\ 0 \in 0 .. MaxFiles
  BY DEF BusSteps
<1> QED
  BY <1>1 DEF Closed, Holders

(* Every step of a process keeps the token file right. *)
LEMMA TokenStep ==
    ASSUME TokenTypes, TokenInv, TokenNext
    PROVE  TokenTypes' /\ TokenInv'
<1> PICK p \in BusProcs :
        \/ ReadToken(p) \/ RotateToken(p) \/ OpenStaging(p)
        \/ WriteStaging(p) \/ RenameStaging(p)
        \/ ShutdownBus(p) \/ LeaveBus(p)
  BY DEF TokenNext
<1>0. /\ bus[p] \in Holders /\ Drawn(p) /\ Alone(p)
      /\ bus[p].drawn \in 0 .. MaxFiles /\ bus[p].fd \in 0 .. MaxFiles
      /\ \A a \in {"closed", "open", "write", "rename", "live"} : a \in BusSteps
  BY DEF TokenTypes, TokenInv, Holders, BusSteps
<1>1. CASE ReadToken(p)
  <2>0. /\ bus[p].at = "closed" /\ UNCHANGED <<path, tmp, content, files>>
        /\ \/ undisturbed' = undisturbed
           \/ /\ undisturbed' = undisturbed \cup {p}
              /\ \A q \in BusProcs : q # p => bus[q].at = "closed"
    BY <1>1 DEF ReadToken, BusAt
  <2>1. CASE path # 0 /\ content[path] # 0
    <3> DEFINE s == [Closed EXCEPT !.at = "live", !.token = content[path]]
    <3>1. bus' = [bus EXCEPT ![p] = s] /\ content[path] \in 0 .. MaxFiles
      BY <1>1, <2>1 DEF ReadToken, TokenTypes
    <3>2. s \in Holders /\ s.at = "live" /\ s.token = content[path]
      BY <3>1, HolderEnds
    <3> HIDE DEF s
    <3>3. /\ bus' \in [BusProcs -> Holders] /\ bus'[p] = s
          /\ \A q \in BusProcs : q # p => bus'[q] = bus[q]
      BY <3>1, <3>2, HolderBecomes
    <3>4. TokenTypes'
      BY <2>0, <3>3 DEF TokenTypes
    <3>5. \A q \in BusProcs : Drawn(q)'
      BY <2>1, <3>2, <3>3 DEF TokenInv, Drawn
    <3>6. \A q \in BusProcs : Alone(q)'
      BY <2>0, <2>1, <3>2, <3>3 DEF TokenInv, Alone
    <3> QED
      BY <3>4, <3>5, <3>6 DEF TokenInv
  <2>2. CASE ~(path # 0 /\ content[path] # 0)
    <3> DEFINE s == [bus[p] EXCEPT !.at = "open"]
    <3>1. bus' = [bus EXCEPT ![p] = s]
      BY <1>1, <2>2 DEF ReadToken
    <3>2. s \in Holders /\ s.at = "open"
      BY <1>0, HolderFields
    <3> HIDE DEF s
    <3>3. /\ bus' \in [BusProcs -> Holders] /\ bus'[p] = s
          /\ \A q \in BusProcs : q # p => bus'[q] = bus[q]
      BY <3>1, <3>2, HolderBecomes
    <3>4. TokenTypes'
      BY <2>0, <3>3 DEF TokenTypes
    <3>5. \A q \in BusProcs : Drawn(q)'
      BY <3>2, <3>3 DEF TokenInv, Drawn
    <3>6. \A q \in BusProcs : Alone(q)'
      BY <2>0, <3>2, <3>3 DEF TokenInv, Alone
    <3> QED
      BY <3>4, <3>5, <3>6 DEF TokenInv
  <2> QED
    BY <2>1, <2>2
<1>2. CASE RotateToken(p)
  <2> DEFINE s == [bus[p] EXCEPT !.at = "open"]
  <2>1. bus' = [bus EXCEPT ![p] = s] /\ UNCHANGED <<path, tmp, content, files, undisturbed>>
    BY <1>2 DEF RotateToken
  <2>2. s \in Holders /\ s.at = "open"
    BY <1>0, HolderFields
  <2> HIDE DEF s
  <2>3. /\ bus' \in [BusProcs -> Holders] /\ bus'[p] = s
        /\ \A q \in BusProcs : q # p => bus'[q] = bus[q]
    BY <2>1, <2>2, HolderBecomes
  <2>4. TokenTypes'
    BY <2>1, <2>3 DEF TokenTypes
  <2>5. \A q \in BusProcs : Drawn(q)'
    BY <2>2, <2>3 DEF TokenInv, Drawn
  <2>6. \A q \in BusProcs : Alone(q)'
    BY <2>1, <2>2, <2>3 DEF TokenInv, Alone
  <2> QED
    BY <2>4, <2>5, <2>6 DEF TokenInv
<1>3. CASE OpenStaging(p)
  <2> DEFINE n == files + 1
             s == [bus[p] EXCEPT !.at = "write", !.fd = tmp', !.drawn = n]
  <2>1. /\ n \in 1 .. MaxFiles /\ files' = n /\ tmp' \in {n, tmp} /\ tmp' # 0
        /\ content' = [content EXCEPT ![tmp'] = 0] /\ path' = path
        /\ undisturbed' = undisturbed \cap {p}
    BY <1>3 DEF OpenStaging, Disturb, TokenTypes
  <2>2. bus' = [bus EXCEPT ![p] = s]
    BY <1>3 DEF OpenStaging
  <2>3. tmp' \in 1 .. MaxFiles /\ tmp' \in 0 .. MaxFiles /\ n \in 0 .. MaxFiles
    BY <2>1 DEF TokenTypes
  <2> HIDE DEF n
  <2>4. s \in Holders /\ s.at = "write" /\ s.fd = tmp' /\ s.drawn = n
    BY <1>0, <2>3 DEF Holders
  <2> HIDE DEF s
  <2>5. /\ bus' \in [BusProcs -> Holders] /\ bus'[p] = s
        /\ \A q \in BusProcs : q # p => bus'[q] = bus[q]
    BY <2>2, <2>4, HolderBecomes
  <2>6. content' \in [1 .. MaxFiles -> 0 .. MaxFiles]
    BY <2>1, <2>3 DEF TokenTypes
  <2>7. TokenTypes'
    BY <2>1, <2>3, <2>5, <2>6 DEF TokenTypes
  <2>8. \A q \in BusProcs : Drawn(q)'
    BY <2>1, <2>4, <2>5 DEF TokenInv, Drawn
  <2>9. \A q \in BusProcs : Alone(q)'
    <3> SUFFICES ASSUME NEW q \in BusProcs, q \in undisturbed' PROVE Alone(q)'
      BY DEF Alone
    <3>1. q = p /\ p \in undisturbed
      BY <2>1
    <3> QED
      BY <1>0, <2>4, <2>5, <3>1 DEF Alone
  <2> QED
    BY <2>7, <2>8, <2>9 DEF TokenInv
<1>4. CASE WriteStaging(p)
  <2> DEFINE s == [bus[p] EXCEPT !.at = "rename"]
  <2>1. /\ bus[p].at = "write" /\ UNCHANGED <<path, tmp, files>>
        /\ content' = [content EXCEPT ![bus[p].fd] = bus[p].drawn]
        /\ undisturbed' = undisturbed \cap {p}
        /\ bus' = [bus EXCEPT ![p] = s]
    BY <1>4 DEF WriteStaging, BusAt, Disturb
  <2>2. s \in Holders /\ s.at = "rename" /\ s.fd = bus[p].fd /\ s.drawn = bus[p].drawn
    BY <1>0, HolderFields
  <2> HIDE DEF s
  <2>3. /\ bus' \in [BusProcs -> Holders] /\ bus'[p] = s
        /\ \A q \in BusProcs : q # p => bus'[q] = bus[q]
    BY <2>1, <2>2, HolderBecomes
  <2>4. bus[p].fd \in 1 .. MaxFiles
    BY <1>0, <2>1 DEF Drawn
  <2>5. content' \in [1 .. MaxFiles -> 0 .. MaxFiles] /\ content'[bus[p].fd] = bus[p].drawn
    BY <1>0, <2>1, <2>4 DEF TokenTypes
  <2>6. TokenTypes'
    BY <2>1, <2>3, <2>5 DEF TokenTypes
  <2>7. \A q \in BusProcs : Drawn(q)'
    BY <1>0, <2>1, <2>2, <2>3 DEF TokenInv, Drawn
  <2>8. \A q \in BusProcs : Alone(q)'
    <3> SUFFICES ASSUME NEW q \in BusProcs, q \in undisturbed' PROVE Alone(q)'
      BY DEF Alone
    <3>1. q = p /\ p \in undisturbed
      BY <2>1
    <3> QED
      BY <1>0, <2>1, <2>2, <2>3, <2>5, <3>1 DEF Alone
  <2> QED
    BY <2>6, <2>7, <2>8 DEF TokenInv
<1>5. CASE RenameStaging(p) \/ ShutdownBus(p)
  <2>0. /\ undisturbed' = undisturbed \cap {p} /\ UNCHANGED <<content, files>>
    BY <1>5 DEF RenameStaging, ShutdownBus, Disturb
  <2> DEFINE live == [Closed EXCEPT !.at = "live", !.token = bus[p].drawn]
  <2>1. /\ Closed \in Holders /\ Closed.at = "closed"
        /\ live \in Holders /\ live.at = "live" /\ live.token = bus[p].drawn
    BY <1>0, HolderEnds
  <2>2. \/ bus' = [bus EXCEPT ![p] = Closed] /\ tmp' = tmp /\ path' \in {0, path}
        \/ /\ bus[p].at = "rename" /\ tmp # 0 /\ path' = tmp /\ tmp' = 0
           /\ bus' = [bus EXCEPT ![p] = live]
    BY <1>5 DEF RenameStaging, ShutdownBus, BusAt
  <2> HIDE DEF live
  <2>3. PICK s \in {Closed, live} : bus' = [bus EXCEPT ![p] = s]
    BY <2>2
  <2>4. /\ bus' \in [BusProcs -> Holders] /\ bus'[p] = s
        /\ \A q \in BusProcs : q # p => bus'[q] = bus[q]
    BY <2>1, <2>3, HolderBecomes
  <2>5. TokenTypes'
    BY <2>0, <2>2, <2>4 DEF TokenTypes
  <2>6. bus'[p] = Closed \/ (/\ bus'[p] = live /\ bus[p].at = "rename" /\ tmp # 0
                             /\ path' = tmp)
    BY <2>2, <2>4 DEF TokenTypes
  <2>7. \A q \in BusProcs : Drawn(q)'
    BY <1>0, <2>1, <2>4, <2>6 DEF TokenInv, Drawn
  <2>8. \A q \in BusProcs : Alone(q)'
    <3> SUFFICES ASSUME NEW q \in BusProcs, q \in undisturbed' PROVE Alone(q)'
      BY DEF Alone
    <3>1. q = p /\ p \in undisturbed
      BY <2>0
    <3> QED
      BY <1>0, <2>0, <2>1, <2>4, <2>6, <3>1 DEF Alone
  <2> QED
    BY <2>5, <2>7, <2>8 DEF TokenInv
<1>6. CASE LeaveBus(p)
  <2>1. bus' = [bus EXCEPT ![p] = Closed] /\ UNCHANGED <<path, tmp, content, files, undisturbed>>
    BY <1>6 DEF LeaveBus
  <2>2. Closed \in Holders /\ Closed.at = "closed"
    BY <1>0, HolderEnds
  <2>3. /\ bus' \in [BusProcs -> Holders] /\ bus'[p] = Closed
        /\ \A q \in BusProcs : q # p => bus'[q] = bus[q]
    BY <2>1, <2>2, HolderBecomes
  <2>4. TokenTypes'
    BY <2>1, <2>3 DEF TokenTypes
  <2>5. \A q \in BusProcs : Drawn(q)'
    BY <2>2, <2>3 DEF TokenInv, Drawn
  <2>6. \A q \in BusProcs : Alone(q)'
    BY <2>1, <2>2, <2>3 DEF TokenInv, Alone
  <2> QED
    BY <2>4, <2>5, <2>6 DEF TokenInv
<1> QED
  BY <1>1, <1>2, <1>3, <1>4, <1>5, <1>6

-----------------------------------------------------------------------------
(***************************************************************************)
(* The bus: the fan-out                                                    *)
(***************************************************************************)

FanOutTypes ==
    /\ emitted \in 0 .. MaxEmits
    /\ cursor \in [Consumers -> Nat] /\ got \in [Consumers -> Nat]
    /\ since \in [Consumers -> Nat] /\ lagged \in [Consumers -> Nat]
    /\ dropped \in Nat

(* A subscriber is never ahead of what was emitted, has read and missed    *)
(* nothing before it subscribed, and all the rest is accounted for.        *)
CountedFor(c) ==
    /\ cursor[c] <= emitted + 1
    /\ cursor[c] = 0 => got[c] = 0 /\ lagged[c] = 0
    /\ cursor[c] # 0 => since[c] + got[c] + lagged[c] = cursor[c]

FanOutInv == \A c \in Consumers : CountedFor(c)

(* The bus's counter is the sum of what its subscribers missed. *)
DroppedIsSum == dropped = SumFunction(lagged)

(* Every step of the fan-out keeps the account of every subscriber. *)
LEMMA FanOutStep ==
    ASSUME FanOutTypes, FanOutInv, FanOutNext
    PROVE  FanOutTypes' /\ FanOutInv'
<1>0. \A c \in Consumers : /\ cursor[c] \in Nat /\ got[c] \in Nat
                           /\ since[c] \in Nat /\ lagged[c] \in Nat
  BY DEF FanOutTypes
<1>1. emitted \in Nat /\ emitted <= MaxEmits
  BY DEF FanOutTypes
<1>2. CASE Emit
  <2>1. /\ emitted' = emitted + 1 /\ emitted' \in 0 .. MaxEmits
        /\ UNCHANGED <<cursor, got, since, lagged, dropped>>
    BY <1>1, <1>2 DEF Emit
  <2>2. FanOutTypes'
    BY <2>1 DEF FanOutTypes
  <2>3. \A c \in Consumers : CountedFor(c)'
    BY <1>0, <1>1, <2>1 DEF FanOutInv, CountedFor
  <2> QED
    BY <2>2, <2>3 DEF FanOutInv
<1>3. ASSUME NEW c \in Consumers, Subscribe(c) \/ Recv(c) \/ NoteLag(c)
      PROVE  FanOutTypes' /\ FanOutInv'
  <2>1. ASSUME NEW k \in Nat, NEW g \in Nat, NEW f \in Nat, NEW l \in Nat,
               NEW d \in Nat,
               cursor' = [cursor EXCEPT ![c] = k], got' = [got EXCEPT ![c] = g],
               since' = [since EXCEPT ![c] = f], lagged' = [lagged EXCEPT ![c] = l],
               dropped' = d, emitted' = emitted,
               k <= emitted + 1, k # 0, f + g + l = k
        PROVE  FanOutTypes' /\ FanOutInv'
    <3>1. /\ cursor' \in [Consumers -> Nat] /\ got' \in [Consumers -> Nat]
          /\ since' \in [Consumers -> Nat] /\ lagged' \in [Consumers -> Nat]
      BY <2>1 DEF FanOutTypes
    <3>2. cursor'[c] = k /\ got'[c] = g /\ since'[c] = f /\ lagged'[c] = l
      BY <2>1 DEF FanOutTypes
    <3>3. \A q \in Consumers : q # c => /\ cursor'[q] = cursor[q] /\ got'[q] = got[q]
                                        /\ since'[q] = since[q] /\ lagged'[q] = lagged[q]
      BY <2>1 DEF FanOutTypes
    <3>4. \A q \in Consumers : CountedFor(q)'
      BY <2>1, <3>2, <3>3 DEF FanOutInv, CountedFor
    <3> QED
      BY <2>1, <3>1, <3>4 DEF FanOutTypes, FanOutInv
  <2>2. /\ cursor = [cursor EXCEPT ![c] = cursor[c]] /\ got = [got EXCEPT ![c] = got[c]]
        /\ since = [since EXCEPT ![c] = since[c]]
        /\ lagged = [lagged EXCEPT ![c] = lagged[c]]
    BY DEF FanOutTypes
  <2>3. CASE Subscribe(c)
    <3>1. /\ cursor[c] = 0 /\ cursor' = [cursor EXCEPT ![c] = emitted + 1]
          /\ since' = [since EXCEPT ![c] = emitted + 1]
          /\ UNCHANGED <<emitted, got, lagged, dropped>>
      BY <2>3 DEF Subscribe
    <3>2. got[c] = 0 /\ lagged[c] = 0
      BY <3>1 DEF FanOutInv, CountedFor
    <3>3. /\ emitted + 1 \in Nat /\ emitted + 1 <= emitted + 1 /\ emitted + 1 # 0
          /\ emitted + 1 + got[c] + lagged[c] = emitted + 1
      BY <1>1, <3>2
    <3>4. dropped' \in Nat
      BY <3>1 DEF FanOutTypes
    <3> QED
      BY <1>0, <2>1, <2>2, <3>1, <3>3, <3>4
  <2>4. CASE Recv(c)
    <3>1. /\ cursor[c] # 0 /\ cursor[c] <= emitted
          /\ got' = [got EXCEPT ![c] = got[c] + 1]
          /\ cursor' = [cursor EXCEPT ![c] = cursor[c] + 1]
          /\ UNCHANGED <<emitted, since, lagged, dropped>>
      BY <2>4 DEF Recv
    <3>2. since[c] + got[c] + lagged[c] = cursor[c]
      BY <3>1 DEF FanOutInv, CountedFor
    <3>3. /\ cursor[c] + 1 \in Nat /\ got[c] + 1 \in Nat
          /\ cursor[c] + 1 <= emitted + 1 /\ cursor[c] + 1 # 0
          /\ since[c] + (got[c] + 1) + lagged[c] = cursor[c] + 1
      BY <1>0, <1>1, <3>1, <3>2
    <3>4. dropped' \in Nat
      BY <3>1 DEF FanOutTypes
    <3> QED
      BY <1>0, <2>1, <2>2, <3>1, <3>3, <3>4
  <2>5. CASE NoteLag(c)
    <3> DEFINE n == Oldest - cursor[c]
    <3>1. /\ cursor[c] # 0 /\ cursor[c] < Oldest
          /\ cursor' = [cursor EXCEPT ![c] = Oldest]
          /\ lagged' = [lagged EXCEPT ![c] = lagged[c] + n]
          /\ dropped' = dropped + n
          /\ UNCHANGED <<emitted, got, since>>
      BY <2>5 DEF NoteLag
    <3>2. Oldest \in Nat /\ Oldest <= emitted + 1 /\ Oldest # 0
      BY <1>1 DEF Oldest
    <3>3. since[c] + got[c] + lagged[c] = cursor[c]
      BY <3>1 DEF FanOutInv, CountedFor
    <3>4. /\ n \in Nat /\ lagged[c] + n \in Nat
          /\ since[c] + got[c] + (lagged[c] + n) = Oldest
      BY <1>0, <3>1, <3>2, <3>3
    <3> HIDE DEF n
    <3>5. dropped' \in Nat
      BY <3>1, <3>4 DEF FanOutTypes
    <3> QED
      BY <1>0, <2>1, <2>2, <3>1, <3>2, <3>4, <3>5
  <2> QED
    BY <1>3, <2>3, <2>4, <2>5
<1> QED
  BY <1>2, <1>3 DEF FanOutNext

(* Every step of the fan-out keeps the bus's counter: only note_lag moves  *)
(* it, by what it adds to one subscriber.                                  *)
LEMMA DroppedStep ==
    ASSUME FanOutTypes, FanOutInv, DroppedIsSum, FanOutNext
    PROVE  DroppedIsSum'
<1>1. CASE UNCHANGED <<lagged, dropped>>
  BY <1>1 DEF DroppedIsSum
<1>2. ASSUME NEW c \in Consumers, NoteLag(c) PROVE DroppedIsSum'
  <2> DEFINE n == Oldest - cursor[c]
  <2>1. /\ cursor[c] < Oldest /\ dropped' = dropped + n
        /\ lagged' = [lagged EXCEPT ![c] = lagged[c] + n]
    BY <1>2 DEF NoteLag
  <2>2. emitted \in Nat /\ cursor[c] \in Nat /\ lagged \in [Consumers -> Nat]
    BY DEF FanOutTypes
  <2>3. n \in Nat
    BY <2>1, <2>2 DEF Oldest
  <2> HIDE DEF n
  <2>4. SumFunction(lagged') = SumFunction(lagged) + n
    <3>1. IsFiniteSet(Consumers)
      OBVIOUS
    <3>2. ASSUME NEW f \in [Consumers -> Nat], NEW m \in Nat, NEW h,
                 h = [f EXCEPT ![c] = f[c] + m]
          PROVE  SumFunction(h) = SumFunction(f) + m
      BY ONLY <3>1, <3>2, c \in Consumers, SumGrows
    <3> QED
      BY <2>1, <2>2, <2>3, <3>2
  <2> QED
    BY <2>1, <2>4 DEF DroppedIsSum
<1> QED
  BY <1>1, <1>2 DEF FanOutNext, Emit, Subscribe, Recv

(* The token file and the fan-out share no state. *)
BusInv == TokenTypes /\ TokenInv /\ FanOutTypes /\ FanOutInv /\ DroppedIsSum

(* A step of the token file leaves the fan-out alone and the other way     *)
(* round, so the two invariants are kept side by side.                     *)
LEMMA BusStep ==
    BusInv /\ [BusNext]_busVars => BusInv'
<1> SUFFICES ASSUME BusInv, [BusNext]_busVars PROVE BusInv'
  OBVIOUS
<1>1. ASSUME UNCHANGED tokenVars PROVE TokenTypes' /\ TokenInv'
  BY <1>1 DEF BusInv, tokenVars, TokenTypes, TokenInv, Drawn, Alone
<1>2. ASSUME UNCHANGED fanOutVars
      PROVE  FanOutTypes' /\ FanOutInv' /\ DroppedIsSum'
  BY <1>2 DEF BusInv, fanOutVars, FanOutTypes, FanOutInv, CountedFor, DroppedIsSum
<1>3. CASE TokenNext
  <2>1. UNCHANGED fanOutVars
    BY <1>3 DEF TokenNext, ReadToken, RotateToken, OpenStaging, WriteStaging,
                RenameStaging, ShutdownBus, LeaveBus
  <2> QED
    BY <1>2, <1>3, <2>1, TokenStep DEF BusInv
<1>4. CASE FanOutNext
  <2>1. UNCHANGED tokenVars
    BY <1>4 DEF FanOutNext, Emit, Subscribe, Recv, NoteLag
  <2> QED
    BY <1>1, <1>4, <2>1, FanOutStep, DroppedStep DEF BusInv
<1>5. CASE UNCHANGED busVars
  BY <1>1, <1>2, <1>5 DEF BusInv, busVars
<1> QED
  BY <1>3, <1>4, <1>5 DEF BusNext

(* Before the first daemon starts there is no token file and nothing has   *)
(* been emitted.                                                           *)
LEMMA BusStart ==
    BusInit => BusInv
<1> SUFFICES ASSUME BusInit PROVE BusInv
  OBVIOUS
<1>0. 0 \in 0 .. MaxFiles /\ 0 \in 0 .. MaxEmits
  OBVIOUS
<1>1. Closed \in Holders /\ Closed.at = "closed"
  BY <1>0, HolderEnds
<1>2. TokenTypes
  BY <1>0, <1>1 DEF BusInit, TokenTypes
<1>3. TokenInv
  BY <1>1 DEF BusInit, TokenInv, Drawn, Alone
<1>4. FanOutTypes
  BY <1>0 DEF BusInit, FanOutTypes
<1>5. FanOutInv
  BY DEF BusInit, FanOutInv, CountedFor
<1>6. DroppedIsSum
  BY SumOfZeros DEF BusInit, DroppedIsSum
<1> QED
  BY <1>2, <1>3, <1>4, <1>5, <1>6 DEF BusInv

(* For every number of processes and subscribers: a daemon never runs with *)
(* an empty bearer token; the file holds the token of one that started     *)
(* alone and was not disturbed, although the staging file has one fixed    *)
(* name; every envelope since a subscription was received, reported as     *)
(* missed or can still be read; and the bus's own counter is the sum of    *)
(* what was missed (rpc.rs:117-229, 272-304).                              *)
THEOREM BusKeepsItsWord == BusSpec => []BusSound
<1>1. BusInit => BusInv
  BY BusStart
<1>2. BusInv /\ [BusNext]_busVars => BusInv'
  BY BusStep
<1>3. BusInv => BusSound
  <2> SUFFICES ASSUME BusInv PROVE BusSound
    OBVIOUS
  <2>1. BusTypeOK
    <3>1. \A c \in Consumers : cursor[c] \in 0 .. MaxEmits + 1
      <4> TAKE c \in Consumers
      <4>1. cursor[c] \in Nat /\ cursor[c] <= emitted + 1
        BY DEF BusInv, FanOutTypes, FanOutInv, CountedFor
      <4>2. emitted \in Nat /\ emitted <= MaxEmits
        BY DEF BusInv, FanOutTypes
      <4> QED
        BY <4>1, <4>2
    <3>2. cursor \in [Consumers -> 0 .. MaxEmits + 1]
      BY <3>1 DEF BusInv, FanOutTypes
    <3> QED
      BY <3>2 DEF BusInv, TokenTypes, BusTypeOK, Holders, BusSteps
  <2>2. BearerNotEmpty
    BY DEF BusInv, TokenInv, Drawn, BearerNotEmpty, BusAt
  <2>3. TokenOnFile
    BY DEF BusInv, TokenTypes, TokenInv, Alone, TokenOnFile, BusAt
  <2>4. NoSilentLoss
    BY DEF BusInv, FanOutInv, CountedFor, Accounted, DroppedIsSum, NoSilentLoss
  <2> QED
    BY <2>1, <2>2, <2>3, <2>4 DEF BusSound
<1> QED
  BY <1>1, <1>2, <1>3, PTL DEF BusSpec
=============================================================================
