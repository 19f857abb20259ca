---------------------------- MODULE ConfigTrust -----------------------------
(***************************************************************************)
(* Which configuration a run obeys and what it may make the run execute    *)
(* (nerve-config load_from, validate and select_profile; the built-in      *)
(* verifier of nerve-core).  The project's nerve.config.json, which comes  *)
(* with whatever is checked out, hides the user's file, which hides the    *)
(* embedded default; a run reads them once, when it starts, and the tree   *)
(* may change at any time.                                                 *)
(*                                                                         *)
(* A configuration keeps what decides something here: the verifier, the    *)
(* number of rounds, the limits that are set, and the match rules of each  *)
(* profile.  A rule is known by its effect on the task at hand: it hits,   *)
(* misses, or is a glob that cannot be compiled.  The rounds of a profile  *)
(* are optional: a set of one number, or the empty set.  What the limits   *)
(* do to a check is CheckLimits.                                           *)
(***************************************************************************)
EXTENDS CheckLimits, FiniteSets, FiniteSetsExt

CONSTANTS
    Configs,       \* contents a configuration file may have
    Missing,       \* no such file
    Default,       \* the embedded configuration
    Trees,         \* marker files of the trees that may be checked out
    MaxCheckouts   \* bound: changes of the tree and of the user's file

Rules == {"hit", "miss", "bad"}
Profiles == [all : Seq(Rules), any : Seq(Rules), rounds : SUBSET Nat]
ConfigType ==
    [verifier : [mode : {"off", "auto", "command"}, timeout : Nat,
                 command : {"none", "bare", "path"}],
     rounds : Nat, limits : SUBSET Nat, profiles : Seq(Profiles)]

ASSUME ConfigAssumption ==
    /\ Configs \subseteq ConfigType
    /\ Default \in Configs /\ Missing \notin Configs
    /\ MaxCheckouts \in Nat

VARIABLES
    projectFile, userFile,   \* the two files
    tree,                    \* marker files in the working tree
    consent,                 \* NERVE_TRUST_PROJECT_VERIFIER is set
    checkouts,
    started                  \* the run that is on: its configuration, gate, profile

configVars == <<projectFile, userFile, tree, consent, checkouts, started>>

NoProfile == 0

-----------------------------------------------------------------------------
(* BuiltinVerifierConfig::validate *)
verifier_valid(v) ==
    /\ v.timeout > 0
    /\ v.mode = "command" => v.command = "bare"

(* Config::validate: limits are the values of the limits that are set.     *)
config_valid(c) ==
    /\ c.rounds <= 5
    /\ 0 \notin c.limits
    /\ verifier_valid(c.verifier)
    /\ \A n \in DOMAIN c.profiles : \A r \in c.profiles[n].rounds : r <= 5

(* Config::load_from: the first file that exists decides, and if it is not *)
(* valid the command fails; {} is that failure.                            *)
load_from ==
    LET chosen == IF projectFile # Missing THEN [config |-> projectFile, source |-> "project"]
                  ELSE IF userFile # Missing THEN [config |-> userFile, source |-> "user"]
                  ELSE [config |-> Default, source |-> "default"]
    IN  IF config_valid(chosen.config) THEN {chosen} ELSE {}

(* Mutation: a project file is trusted like any other. *)
builtin_verifier_exec_trusted_Always(source, operator_consent) == TRUE

builtin_verifier_exec_trusted(source, operator_consent) ==
    source # "project" \/ operator_consent

(* Only ecosystems whose test command passes on a tree without tests; an   *)
(* npm project needs a test script.                                        *)
detect_builtin_verifier(markers) ==
    CASE "Cargo.toml" \in markers -> "cargo"
      [] "Cargo.toml" \notin markers /\ "go.mod" \in markers -> "go"
      [] markers \cap {"Cargo.toml", "go.mod"} = {} /\ "test script" \in markers -> "npm"
      [] OTHER -> "none"

(* The command the gate will run, "none" without one. *)
resolve_builtin_verifier(v, markers, exec_trusted) ==
    IF v.mode = "off" \/ ~exec_trusted THEN "none"
    ELSE IF v.mode = "auto" THEN detect_builtin_verifier(markers)
    ELSE v.command

-----------------------------------------------------------------------------
(* Rules in their order: the first hit, miss or bad glob that settles it.  *)
FirstOf(rules, outcomes) ==
    LET found == {n \in DOMAIN rules : rules[n] \in outcomes}
    IN  IF found = {} THEN "none" ELSE rules[Min(found)]

any_rule_matches(rules) ==
    CASE FirstOf(rules, {"hit", "bad"}) = "hit" -> "yes"
      [] FirstOf(rules, {"hit", "bad"}) = "bad" -> "error"
      [] OTHER -> "no"
all_rules_match(rules) ==
    CASE FirstOf(rules, {"miss", "bad"}) = "miss" -> "no"
      [] FirstOf(rules, {"miss", "bad"}) = "bad" -> "error"
      [] OTHER -> "yes"

(* Profile::matches; a plain list of rules is a list of any. *)
profile_matches(p) ==
    LET all == all_rules_match(p.all)
        any == IF p.any = <<>> /\ p.all # <<>> THEN "yes" ELSE any_rule_matches(p.any)
    IN  IF p.all = <<>> /\ p.any = <<>> THEN "no"
        ELSE IF all = "error" THEN "error"
        ELSE IF any = "error" THEN "error"
        ELSE IF all = "yes" /\ any = "yes" THEN "yes" ELSE "no"

(* select_profile: the first profile that matches, none, or the error of   *)
(* the first one that cannot be decided.                                   *)
select_profile(c) ==
    LET settled == {n \in DOMAIN c.profiles : profile_matches(c.profiles[n]) # "no"}
    IN  IF settled = {} THEN [ok |-> TRUE, id |-> NoProfile, rounds |-> c.rounds]
        ELSE LET n == Min(settled)
             IN  [ok |-> profile_matches(c.profiles[n]) = "yes", id |-> n,
                  rounds |-> Min(IF c.profiles[n].rounds = {} THEN {c.rounds}
                                 ELSE c.profiles[n].rounds)]

-----------------------------------------------------------------------------
NoRunYet == [step |-> "idle", config |-> Default, source |-> "default",
             goal |-> FALSE, consent |-> FALSE, announced |-> "none",
             gate |-> "none", rounds |-> 0]

ConfigInit ==
    /\ projectFile \in Configs \cup {Missing}
    /\ userFile \in Configs \cup {Missing}
    /\ tree \in Trees
    /\ consent \in BOOLEAN
    /\ checkouts = 0
    /\ started = NoRunYet

(* Somebody checks something out, an applied patch writes the file, or the *)
(* operator edits the user's file.                                         *)
Checkout(c, markers) ==
    /\ checkouts' = checkouts + 1
    /\ projectFile' = c /\ tree' = markers
    /\ UNCHANGED <<userFile, consent, started>>

EditUserFile(c) ==
    /\ checkouts' = checkouts + 1
    /\ userFile' = c
    /\ UNCHANGED <<projectFile, tree, consent, started>>

(* run_report: the configuration is loaded, and without a goal the gate is *)
(* announced.                                                              *)
StartRun(goal) ==
    /\ started.step = "idle"
    /\ \E l \in load_from :
          started' = [NoRunYet EXCEPT !.step = "announced", !.config = l.config,
                         !.source = l.source, !.goal = goal, !.consent = consent,
                         !.announced = IF goal THEN "goal" ELSE
                             resolve_builtin_verifier(l.config.verifier, tree,
                                 builtin_verifier_exec_trusted(l.source, consent))]
    /\ UNCHANGED <<projectFile, userFile, tree, consent, checkouts>>

(* apply_builtin_verifier: the loop resolves the gate again, from the same *)
(* configuration and the tree as it is now.                                *)
ApplyVerifier ==
    /\ started.step = "announced"
    /\ started' = [started EXCEPT !.step = "gated",
           !.gate = IF started.goal THEN "goal" ELSE
               resolve_builtin_verifier(started.config.verifier, tree,
                   builtin_verifier_exec_trusted(started.source, started.consent))]
    /\ UNCHANGED <<projectFile, userFile, tree, consent, checkouts>>

(* The roles are chosen, or the run ends with the error of a rule. *)
SelectRoles ==
    /\ started.step = "gated"
    /\ started' = IF select_profile(started.config).ok
                  THEN [started EXCEPT !.step = "running",
                                       !.rounds = select_profile(started.config).rounds]
                  ELSE NoRunYet
    /\ UNCHANGED <<projectFile, userFile, tree, consent, checkouts>>

EndRun ==
    /\ started.step = "running"
    /\ started' = NoRunYet
    /\ UNCHANGED <<projectFile, userFile, tree, consent, checkouts>>

ConfigNext ==
    \/ /\ checkouts < MaxCheckouts
       /\ \E c \in Configs \cup {Missing} :
            EditUserFile(c) \/ \E markers \in Trees : Checkout(c, markers)
    \/ \E goal \in BOOLEAN : StartRun(goal)
    \/ ApplyVerifier \/ SelectRoles \/ EndRun

-----------------------------------------------------------------------------
(* What a repository brings along never makes a run execute its code: a    *)
(* built-in gate runs only when the user's own file or the default asked   *)
(* for it, or the operator consented outside the repository, whatever is   *)
(* checked out while the run is on (verifier.rs:129-160, lib.rs:1180-1215).*)
RepositoryCannotOptIn ==
    started.gate \notin {"none", "goal"} =>
        /\ started.config.verifier.mode # "off"
        /\ started.source = "project" => started.consent

(* A run obeys a valid configuration and at most five rounds, whichever    *)
(* file and profile they come from (nerve-config lib.rs:1199-1331).        *)
RunIsBounded ==
    started.step # "idle" => config_valid(started.config) /\ started.rounds <= 5

(* If every rule can be compiled, the roles are those of the first profile *)
(* whose all-rules all hit and whose any-rules, if it has some, are hit at *)
(* least once; a profile without rules never is                            *)
(* (nerve-config lib.rs:1302-1371).                                        *)
SelectionIsFirstMatch ==
    LET profiles == started.config.profiles
        Compiles(rules) == \A r \in DOMAIN rules : rules[r] # "bad"
        Fits(p) == /\ Len(p.all) + Len(p.any) > 0
                   /\ \A r \in DOMAIN p.all : p.all[r] = "hit"
                   /\ p.any # <<>> => \E r \in DOMAIN p.any : p.any[r] = "hit"
        fitting == {n \in DOMAIN profiles : Fits(profiles[n])}
    IN  (\A n \in DOMAIN profiles : Compiles(profiles[n].all) /\ Compiles(profiles[n].any))
            => select_profile(started.config).id =
                   IF fitting = {} THEN NoProfile ELSE Min(fitting)

(* The configuration a run obeys is valid and bounds it, names its roles   *)
(* by the first profile that fits, and cannot make it execute what the     *)
(* repository asks for; the limits it sets hold for its checks             *)
(* (nerve-config lib.rs:1199-1371, verifier.rs:129-160, goal.rs:313-384).  *)
ConfigObeyed ==
    /\ RepositoryCannotOptIn
    /\ RunIsBounded
    /\ SelectionIsFirstMatch
    /\ LimitsHold
=============================================================================
