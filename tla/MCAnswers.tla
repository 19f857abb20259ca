------------------------------ MODULE MCAnswers -----------------------------
(***************************************************************************)
(* What Nerve makes of text that others wrote: a reviewer's reply, a tool  *)
(* call, a plan, a prose goal or a budget at the prompt, a unified diff, a *)
(* configuration file and the keys of a terminal.  The parts share no      *)
(* state, so that each history follows one of them and leaves the others   *)
(* as they start.                                                          *)
(***************************************************************************)
EXTENDS AgentReply, McpPolicy, PlanMode, Prompt, UnifiedDiff, ConfigTrust,
        LineEditor

VARIABLE focus   \* the part a history is about

answerVars == <<reply, usages, ask, pathVars, planVars, raw, promptVars, diffVars,
                configVars, editorVars, args, limitVars, focus>>

(* No plan; one that is complete but for its steps; three ways to go on. *)
Template ==
    <<Heading("Objective"), Text, Heading("Affected files"), Item(0, TRUE),
      Heading("Steps")>>
MCDrafts ==
    {<<>>, Template, Template \o <<Text>>, Template \o <<Item(0, FALSE)>>,
     Template \o <<Item(0, FALSE), Item(0, FALSE)>>}

(* The id of q is so long that its steps have none. *)
MCIdLength == "p" :> 36 @@ "q" :> 121

(* A call without anything special about it but a confined path. *)
Confined == [path_arg |-> TRUE, given |-> TRUE, rooted |-> TRUE,
             denied |-> FALSE]
PlainAsk ==
    [tool |-> "t", allowed |-> {}, global |-> {}, read_only |-> FALSE,
     posture |-> "deny_by_default", source |-> "default", consent |-> FALSE,
     read_only_hint |-> "nothing", destructive_hint |-> "nothing",
     arguments |-> Confined]
MCRoot == <<"a", "b">>

(* A good proposal and one for each reason to refuse it; a goal file that  *)
(* must not run.                                                           *)
Good == [readable |-> TRUE, rationale |-> TRUE, program |-> "bare",
         timeout |-> NoTimeout, keys |-> {"ordinary"}, dir |-> "none"]
MCProposed ==
    {Good, [Good EXCEPT !.timeout = 3601], [Good EXCEPT !.keys = {"forbidden"}],
     [Good EXCEPT !.dir = "other"], [Good EXCEPT !.rationale = FALSE],
     [Good EXCEPT !.program = "path"], [Good EXCEPT !.readable = FALSE]}
MCFound == {[program |-> "bare", timeout |-> 60, keys |-> {"forbidden"}]}

(* Lines of which one looks like a file header when it is removed; five    *)
(* edits of one file, or three of two.                                     *)
MCLineTexts == {<<"a">>, <<"--", "f">>}
MCRenamed == [x \in {"f", "g"} |-> x \o "2"]
MCMaxEdits == {"f" :> 5 @@ "g" :> 0, "f" :> 2 @@ "g" :> 1}

(* Two commands, one of which takes arguments, and a word of a summary. *)
MCCommands ==
    <<[command |-> <<"/", "a">>, args |-> TRUE, about |-> {}],
      [command |-> <<"/", "a", "a">>, args |-> FALSE,
       about |-> {<<"a", "/">>}]>>

-----------------------------------------------------------------------------
(* The embedded configuration, verifiers that are trusted or not, valid or *)
(* not, and profiles whose rules hit, miss or cannot be compiled.          *)
Verifier(mode, timeout, command) ==
    [mode |-> mode, timeout |-> timeout, command |-> command]
MCDefault == [verifier |-> Verifier("off", 300, "none"), rounds |-> 2,
              limits |-> {}, profiles |-> <<>>]
MCVerifiers ==
    {Verifier("auto", 300, "none"), Verifier("command", 300, "bare"),
     Verifier("command", 300, "path"), Verifier("auto", 0, "none")}

Profile(all, any, rounds) == [all |-> all, any |-> any, rounds |-> rounds]
RuleLists == {<<>>, <<"hit">>, <<"miss", "hit">>}
MCProfiles ==
    {<<Profile(all, any, {3}), Profile(<<>>, <<"hit">>, {})>> :
        all \in RuleLists, any \in RuleLists}
    \cup {<<Profile(<<"hit">>, <<>>, {6})>>, <<Profile(<<"bad">>, <<>>, {})>>,
          <<Profile(<<"hit">>, <<"bad">>, {})>>}

MCConfigs ==
    {MCDefault, [MCDefault EXCEPT !.rounds = 6], [MCDefault EXCEPT !.limits = {0}]}
    \cup {[MCDefault EXCEPT !.verifier = v] : v \in MCVerifiers}
    \cup {[MCDefault EXCEPT !.profiles = p] : p \in MCProfiles}

(* Limits absent, zero, below, at and above those of Nerve itself. *)
NoLimits == [n \in FieldNames |-> {}]
MCOrders ==
    Orders({s \in [FieldNames -> {{}, {0}, {1}, {2}}] :
                /\ s["address_space_bytes"] # {0}
                /\ s["file_size_bytes"] \in {{}, {2}}
                /\ s["cpu_secs"] \in {{}, {1}}},
           {h \in [FieldNames -> 1..2] :
                h["cpu_secs"] = 1 /\ h["address_space_bytes"] = 1},
           {b \in Bases : /\ ~b.asked => ~b.cgroup2
                          /\ ~b.cgroup2 => b.delegated = {}})
NoOrder == [spec |-> NoLimits, inherited |-> [n \in FieldNames |-> 1],
            os |-> "linux",
            base |-> [asked |-> FALSE, cgroup2 |-> FALSE, delegated |-> {}]]

MCTrees == {{}, {"Cargo.toml", "go.mod"}, {"go.mod"}, {"test script"}}

-----------------------------------------------------------------------------
Watch(part) == focus = part /\ UNCHANGED focus

MCInit ==
    /\ focus \in {"reply", "usage", "path", "ask", "draft", "dispatch",
                  "intent", "prompt", "budget", "diff", "config", "limits",
                  "editor"}
    /\ ConfigInit /\ \/ /\ focus = "config"
                        /\ userFile # Missing => userFile.profiles = <<>>
                        /\ tree # {} \/ consent =>
                            (projectFile # Missing => projectFile.profiles = <<>>)
                     \/ /\ projectFile = Missing /\ userFile = Missing
                        /\ tree = {} /\ consent = FALSE
    /\ UsageInit /\ IntentInit /\ DiffInit /\ EditorInit /\ ArgsInit
    /\ LimitInit(IF focus = "limits" THEN MCOrders ELSE {NoOrder})
    /\ ReplyInit /\ (focus = "reply" \/ reply.lead = NoLead)
                 /\ (reply.lead.token = "accept_with_nits" => reply.lead.clean)
                 /\ \/ reply.format = "text"
                    \/ focus = "reply" /\ reply.lead.token = "lgtm" /\ reply.lead.clean
    /\ PathInit /\ (focus = "path" \/ ~path.anchored)
    /\ ask \in IF focus # "ask" THEN {PlainAsk}
               ELSE Asks({Confined}) \cup
                    {[PlainAsk EXCEPT !.arguments = a] : a \in Arguments}
    /\ PlanInit /\ ((focus \in {"draft", "dispatch"}) = (planText # <<>>))
    /\ PromptInit /\ \/ focus = "prompt"
                     \/ /\ \A w \in Workspaces : goalFile[w] = NoGoal
                        /\ \A c \in Consoles : console[c].at = "v"

MCNext ==
    \/ /\ Watch("reply") /\ ReplyNext
       /\ UNCHANGED <<usages, ask, pathVars, planVars, raw, promptVars, diffVars,
                      configVars, editorVars, args, limitVars>>
    \/ /\ Watch("usage") /\ UsageNext
       /\ UNCHANGED <<reply, ask, pathVars, planVars, raw, promptVars, diffVars,
                      configVars, editorVars, args, limitVars>>
    \/ /\ Watch("path") /\ PathNext
       /\ UNCHANGED <<reply, usages, ask, planVars, raw, promptVars, diffVars,
                      configVars, editorVars, args, limitVars>>
    \/ /\ Watch("draft") /\ AddLine
       /\ UNCHANGED <<reply, usages, ask, pathVars, raw, promptVars, diffVars,
                      configVars, editorVars, args, limitVars>>
    \/ /\ Watch("dispatch") /\ DispatchNext
       /\ UNCHANGED <<reply, usages, ask, pathVars, raw, promptVars, diffVars,
                      configVars, editorVars, args, limitVars>>
    \/ /\ Watch("intent") /\ IntentNext
       /\ UNCHANGED <<reply, usages, ask, pathVars, planVars, promptVars, diffVars,
                      configVars, editorVars, args, limitVars>>
    \/ /\ Watch("prompt") /\ PromptNext
       /\ UNCHANGED <<reply, usages, ask, pathVars, planVars, raw, diffVars,
                      configVars, editorVars, args, limitVars>>
    \/ /\ Watch("diff") /\ DiffNext
       /\ UNCHANGED <<reply, usages, ask, pathVars, planVars, raw, promptVars,
                      configVars, editorVars, args, limitVars>>
    \/ /\ Watch("config") /\ ConfigNext
       /\ UNCHANGED <<reply, usages, ask, pathVars, planVars, raw, promptVars,
                      diffVars, editorVars, args, limitVars>>
    \/ /\ Watch("editor") /\ EditorNext
       /\ UNCHANGED <<reply, usages, ask, pathVars, planVars, raw, promptVars,
                      diffVars, configVars, args, limitVars>>
    \/ /\ Watch("budget") /\ ArgsNext
       /\ UNCHANGED <<reply, usages, ask, pathVars, planVars, raw, promptVars,
                      diffVars, configVars, editorVars, limitVars>>
    \/ /\ Watch("limits") /\ LimitNext
       /\ UNCHANGED <<reply, usages, ask, pathVars, planVars, raw, promptVars,
                      diffVars, configVars, editorVars, args>>

MCSpec == MCInit /\ [][MCNext]_answerVars

-----------------------------------------------------------------------------
(* The parsers read what the text says: a diff turns the old files into    *)
(* the new ones or is refused, but for insertions without a line of        *)
(* context, which stand a line early; a goal is taken from an object that  *)
(* is one and from every plain one, and a cap means the number that was    *)
(* typed (nerve-patch lib.rs:118-130, 663-1020; goal_intent.rs:167-225;    *)
(* main.rs:4379-4496).                                                     *)
TextReadExactly ==
    /\ DiffReadExactly
    /\ ExtractedIsObject /\ PlainObjectIsFound
    /\ CapsAreMeant
=============================================================================
