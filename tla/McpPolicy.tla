----------------------------- MODULE McpPolicy ------------------------------
(***************************************************************************)
(* Which tool calls an MCP client lets through (nerve-adapter mcp.rs and   *)
(* the gates of nerve-config): the effective allowlist of a server, the    *)
(* admission of a read-only server, the veto on names, and the argument    *)
(* policy, whose core is a lexical walk of a path against the project      *)
(* root.  Tools are names; which of them match a write pattern, and what   *)
(* the server's annotations say of them, is given.                         *)
(***************************************************************************)
EXTENDS Naturals, Sequences

CONSTANTS
    Tools,         \* tool names
    Writing,       \* those that match a write pattern
    Root,          \* the project root: its path components
    Names,         \* components a path argument may have
    MaxComponents  \* bound: components of a path argument

ASSUME PolicyAssumption ==
    /\ Writing \subseteq Tools
    /\ Root \in Seq(Names)
    /\ MaxComponents \in Nat

VARIABLES
    ask,    \* a tool call, and the settings it meets
    path,   \* a path argument: anchored or not, and the walk of its components
    trail   \* history: where the components lead, and whether always inside

pathVars == <<path, trail>>

Postures == {"deny_by_default", "legacy_denylist"}
Sources == {"default", "user", "project"}

(* parse_tools_list: an annotation that is missing or not a boolean says   *)
(* nothing.                                                                *)
Hints == {"true", "false", "nothing"}

(* What the argument policy says of the call: its path is declared in      *)
(* path_args, is given as a string, a project root is configured, and      *)
(* some argument holds a denied substring.                                 *)
Arguments == [path_arg : BOOLEAN, given : BOOLEAN, rooted : BOOLEAN,
              denied : BOOLEAN]

(* A call: the tool, the lists of its server and of mcp.allow_tools (empty *)
(* means none), read_only, the posture asked for and where it was asked,   *)
(* the tool's annotations, and its arguments.                              *)
Asks(arguments) ==
    [tool : Tools, allowed : SUBSET Tools, global : SUBSET Tools,
     read_only : BOOLEAN, posture : Postures, source : Sources,
     consent : BOOLEAN, read_only_hint : Hints, destructive_hint : Hints,
     arguments : arguments]

-----------------------------------------------------------------------------
(* path_is_within_root: one component of the candidate.  A `..` at or      *)
(* above the depth of the root is refused, even if the path comes back.    *)
Walked(p, component) ==
    IF ~p.ok \/ component = "." THEN p
    ELSE IF component # ".." THEN [p EXCEPT !.stack = Append(@, component)]
    ELSE IF Len(p.stack) <= Len(Root) THEN [p EXCEPT !.ok = FALSE]
    ELSE [p EXCEPT !.stack = SubSeq(@, 1, Len(@) - 1)]

StartsWith(s, t) == Len(t) <= Len(s) /\ \A i \in 1 .. Len(t) : s[i] = t[i]

(* Mutation: only where the walk ends counts. *)
path_is_within_root_End(p) == StartsWith(p.stack, Root)

path_is_within_root(p) == p.ok /\ StartsWith(p.stack, Root)

(* A declared path without a root to confine it to is refused. *)
enforce_argument_policy(arguments, p) ==
    /\ arguments.path_arg /\ arguments.given =>
            arguments.rooted /\ path_is_within_root(p)
    /\ ~arguments.denied

-----------------------------------------------------------------------------
scope_mcp_spec_to_allowlist(allowed, global) ==
    IF global = {} THEN allowed
    ELSE IF allowed = {} THEN global
    ELSE allowed \cap global

(* resolve_mcp_read_only_posture: a repository's own configuration cannot  *)
(* ask for the weaker posture without consent from outside it.             *)
resolve_mcp_read_only_posture(source, posture, consent) ==
    IF posture = "legacy_denylist" /\ source = "project" /\ ~consent
    THEN "deny_by_default" ELSE posture

tool_has_read_only_evidence(a) ==
    a.read_only_hint = "true" \/ a.destructive_hint = "false"

read_only_admits(posture, allowlisted, evidence) ==
    posture = "legacy_denylist" \/ allowlisted \/ evidence

(* call_tool up to the request. *)
Admitted(a, p) ==
    LET allowed == scope_mcp_spec_to_allowlist(a.allowed, a.global)
        posture == resolve_mcp_read_only_posture(a.source, a.posture, a.consent)
    IN  /\ allowed # {} => a.tool \in allowed
        /\ a.read_only =>
            /\ read_only_admits(posture, allowed # {},
                                tool_has_read_only_evidence(a))
            /\ a.tool \notin Writing
        /\ enforce_argument_policy(a.arguments, p)

-----------------------------------------------------------------------------
(* Where one component leads when `..` is resolved; above the file system  *)
(* root there is nothing.                                                  *)
Onward(at, component) ==
    IF component = "." THEN at
    ELSE IF component # ".." THEN Append(at, component)
    ELSE IF at = <<>> THEN at ELSE SubSeq(at, 1, Len(at) - 1)

(* The loop of path_is_within_root takes one component more. *)
WalkComponent(component) ==
    /\ trail.length < MaxComponents
    /\ path' = Walked(path, component)
    /\ LET at == Onward(trail.at, component)
       IN  trail' = [at |-> at, length |-> trail.length + 1,
                     inside |-> trail.inside /\ StartsWith(at, Root)]

PathInit ==
    \E anchored \in BOOLEAN :
        LET start == IF anchored THEN <<>> ELSE Root IN
        /\ path = [anchored |-> anchored, ok |-> TRUE, stack |-> start]
        /\ trail = [at |-> start, length |-> 0, inside |-> StartsWith(start, Root)]
PathNext == \E component \in Names \cup {"..", "."} : WalkComponent(component)

-----------------------------------------------------------------------------
(* The path argument of an admitted call leads into the project root, and  *)
(* a relative one never leaves it on the way: `../<root>/x` is refused     *)
(* although it comes back.  A call with such an argument and no root to    *)
(* confine it to is not admitted at all.                                   *)
PathStaysInside ==
    /\ Admitted(ask, path)
    /\ ask.arguments.path_arg /\ ask.arguments.given
    => /\ ask.arguments.rooted
       /\ StartsWith(trail.at, Root)
       /\ ~path.anchored => trail.inside

(* A relative path that never leaves the root on its way is not refused,   *)
(* if the root is not that of the file system (there `..` leads nowhere    *)
(* else, and is refused all the same).  Nothing of the kind is said of an  *)
(* anchored path: /x/../root/y leads into the root and is refused.         *)
InsidePathAccepted ==
    Root # <<>> /\ ~path.anchored /\ trail.inside => path_is_within_root(path)

(* With read_only, no tool with a writing name gets through, and a tool    *)
(* without an allowlist entry or an annotation only under a posture that   *)
(* the repository did not choose for itself.  The name and the annotation  *)
(* are evidence: what the tool then does, the client cannot know.          *)
ReadOnlyHolds ==
    Admitted(ask, path) /\ ask.read_only =>
        /\ ask.tool \notin Writing
        /\ \/ ask.read_only_hint = "true"
           \/ ask.destructive_hint = "false"
           \/ ask.tool \in ask.allowed \cup ask.global
           \/ ask.posture = "legacy_denylist" /\
              (ask.source # "project" \/ ask.consent)

(* A tool is called only if each allowlist that is not empty names it      *)
(* (README.md:444-446: the hard boundary), unless the two have no tool in  *)
(* common: their intersection is then taken for no list at all, and the    *)
(* annotations decide (mcp.rs:906-917).                                    *)
AllowlistHolds ==
    Admitted(ask, path) =>
        \/ /\ ask.allowed # {} => ask.tool \in ask.allowed
           /\ ask.global # {} => ask.tool \in ask.global
        \/ /\ ask.allowed # {} /\ ask.global # {}
           /\ ask.allowed \cap ask.global = {}

(* The argument policy and the gates together: a path argument of an       *)
(* admitted call leads into the project, a relative one that stays inside  *)
(* is let through, and the tool passed the allowlists, the veto on names   *)
(* and the evidence a read-only server asks for (mcp.rs:395-486).          *)
CallsConfined ==
    /\ PathStaysInside
    /\ InsidePathAccepted
    /\ ReadOnlyHolds
    /\ AllowlistHolds
=============================================================================
