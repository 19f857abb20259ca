---------------------------- MODULE BudgetAudit -----------------------------
(***************************************************************************)
(* The /budget command of the interactive prompt and the audit log it      *)
(* appends to (budget_audit.rs): a chain in which every entry holds the    *)
(* hash of the one before it, plain SHA-256 without a key and HMAC with    *)
(* one, and in which a keyed entry also authenticates itself.  Prompts in  *)
(* several terminals append to one log under an advisory lock, and they    *)
(* need not have the same key.  The hash of an entry is the entry itself   *)
(* with the key, without its own mac: equal hashes, equal entries.         *)
(***************************************************************************)
EXTENDS Naturals, Sequences

CONSTANTS
    Repls,        \* interactive prompts
    NoRepl,       \* nobody holds budget.lock
    Key,          \* the key of the operator
    Unkeyed,      \* resolve_audit_key: no key was requested
    BadKey,       \* resolve_audit_key: a key was requested but is unusable
    Envs,         \* the environments a prompt may start with
    Caps,         \* budget values a prompt may ask for
    NoCap,        \* no value
    ConfigCap,    \* max_total_tokens of the configuration, or NoCap
    Ceiling,      \* budget_tokens_ceiling of the configuration, or NoCap
    Legacy,       \* the logs an earlier version may have left
    MaxLog,       \* bound: entries of the log
    MaxHandEdits  \* bound: entries changed by hand

ASSUME AuditAssumption ==
    /\ NoRepl \notin Repls
    /\ Key \notin {Unkeyed, BadKey} /\ Unkeyed # BadKey
    /\ Envs \subseteq [raw : {"absent", "notUnicode", "blank", "key"},
                       file : {"absent", "notUnicode", "blank", "relative",
                               "unreadable", "empty", "key"}]
    /\ Caps \subseteq Nat /\ NoCap \notin Nat
    /\ ConfigCap \in Nat \cup {NoCap} /\ Ceiling \in Nat \cup {NoCap}
    /\ MaxLog \in Nat /\ MaxHandEdits \in Nat

VARIABLES
    log,        \* .nerve/session-meta/budget-audit.json
    blk,        \* the holder of budget.lock
    repl,       \* the state of each prompt
    trail,      \* history: the log without the hand edits of linked entries
    handEdits   \* hand edits left

auditVars == <<log, blk, repl, trail, handEdits>>

-----------------------------------------------------------------------------
(* resolve_audit_key: NERVE_BUDGET_AUDIT_KEY if it holds anything, else    *)
(* the file NERVE_BUDGET_AUDIT_KEY_FILE names.  A blank value counts as    *)
(* not set; everything else that yields no key is an error.                *)
KeyOf(env) ==
    IF env.raw = "notUnicode" THEN BadKey
    ELSE IF env.raw = "key" THEN Key
    ELSE CASE env.file \in {"absent", "blank"} -> Unkeyed
           [] env.file = "key"                 -> Key
           [] OTHER                            -> BadKey

Requested(env) ==
    env.raw \in {"notUnicode", "key"} \/ env.file \notin {"absent", "blank"}

NoHash == [key |-> Unkeyed, of |-> <<>>]

(* What an earlier version wrote has no link and no mac. *)
ASSUME LegacyAssumption ==
    Legacy \subseteq Seq([prev : Nat \cup {NoCap}, next : Nat,
                          confirmed : BOOLEAN, link : {NoHash}, mac : {NoHash}])

Bare(e) == [e EXCEPT !.mac = NoHash]
Hash(e, key) == [key |-> key, of |-> <<Bare(e)>>]

(* verify_chain: without a key, entries without a link are accepted before *)
(* the first link; with a key every link must be there, and the last       *)
(* entry's own mac too.                                                    *)
Linked(entries, i, key) == entries[i].link = Hash(entries[i - 1], key)

Tolerated(entries, i, key) ==
    /\ key = Unkeyed
    /\ entries[i].link = NoHash
    /\ \A j \in 2 .. i - 1 : ~Linked(entries, j, key)

Verifies(entries, key) ==
    /\ \A i \in 2 .. Len(entries) :
           Linked(entries, i, key) \/ Tolerated(entries, i, key)
    /\ key # Unkeyed /\ entries # <<>> =>
           entries[Len(entries)].mac = Hash(entries[Len(entries)], key)

(* diagnose_keyed_load: a keyed check of a sound unkeyed chain is reported *)
(* as the migration boundary, any other failure as a break.                *)
Diagnosis(entries, key) ==
    IF Verifies(entries, key) THEN "intact"
    ELSE IF key # Unkeyed /\ Verifies(entries, Unkeyed) THEN "unkeyedLog"
    ELSE "broken"

ChainHead(entries, key) ==
    IF entries = <<>> THEN NoHash ELSE Hash(entries[Len(entries)], key)

-----------------------------------------------------------------------------
Waiting == [step |-> "prompt", next |-> NoCap, confirmed |-> FALSE]

AuditInit ==
    /\ log \in Legacy
    /\ blk = NoRepl
    /\ \E env \in [Repls -> Envs] :
          repl = [r \in Repls |-> [env |-> env[r], key |-> KeyOf(env[r]),
                                   override |-> NoCap, req |-> Waiting]]
    /\ trail = log
    /\ handEdits = MaxHandEdits

(* The cap in force: the prompt's override, else the configuration's. *)
InForce(r) == IF repl[r].override # NoCap THEN repl[r].override ELSE ConfigCap

(* requires_budget_raise_confirmation *)
NeedsConfirmation(current, requested, force) ==
    ~force /\ (current = NoCap \/ requested > current)

(* handle_budget_command up to the log: above the ceiling, not confirmed   *)
(* or with a key that cannot be used, the command fails and changes        *)
(* nothing.  answer is FALSE without a terminal too.  The cost and the     *)
(* token cap are treated alike, and a command that sets both stops at the  *)
(* first refusal; one cap stands for the two.                              *)
SetBudget(r, cap, force, answer) ==
    LET asks == NeedsConfirmation(InForce(r), cap, force) IN
    /\ repl[r].req.step = "prompt"
    /\ Ceiling = NoCap \/ cap <= Ceiling
    /\ asks => answer
    /\ repl[r].key # BadKey
    /\ repl' = [repl EXCEPT ![r].req =
                  [step |-> "load", next |-> cap, confirmed |-> asks]]
    /\ UNCHANGED <<log, blk, trail, handEdits>>

Reply(r) == repl' = [repl EXCEPT ![r].req = Waiting]

(* append_budget_audit_entry loads and verifies the log before the lock. *)
LoadChain(r) ==
    /\ repl[r].req.step = "load"
    /\ Verifies(log, repl[r].key)
    /\ repl' = [repl EXCEPT ![r].req.step = "lock"]
    /\ UNCHANGED <<log, blk, trail, handEdits>>

LoadChainFails(r) ==
    /\ repl[r].req.step = "load"
    /\ ~Verifies(log, repl[r].key)
    /\ Reply(r)
    /\ UNCHANGED <<log, blk, trail, handEdits>>

LockLog(r) ==
    /\ repl[r].req.step = "lock"
    /\ blk = NoRepl
    /\ blk' = r
    /\ repl' = [repl EXCEPT ![r].req.step = "append"]
    /\ UNCHANGED <<log, trail, handEdits>>

(* append_with_key reads the log again under the lock. *)
NewEntry(r) ==
    LET bare == [prev |-> InForce(r), next |-> repl[r].req.next,
                 confirmed |-> repl[r].req.confirmed,
                 link |-> ChainHead(log, repl[r].key), mac |-> NoHash]
    IN IF repl[r].key = Unkeyed THEN bare
       ELSE [bare EXCEPT !.mac = Hash(bare, repl[r].key)]

(* Mutation: what was verified before the lock is not verified again. *)
AppendEntry_TrustsLoad(r) ==
    /\ repl[r].req.step = "append"
    /\ Len(log) < MaxLog
    /\ log' = Append(log, NewEntry(r))
    /\ trail' = Append(trail, NewEntry(r))
    /\ repl' = [repl EXCEPT ![r].req.step = "unlock"]
    /\ UNCHANGED <<blk, handEdits>>

AppendEntry(r) ==
    /\ repl[r].req.step = "append"
    /\ Verifies(log, repl[r].key)
    /\ Len(log) < MaxLog
    /\ log' = Append(log, NewEntry(r))
    /\ trail' = Append(trail, NewEntry(r))
    /\ repl' = [repl EXCEPT ![r].req.step = "unlock"]
    /\ UNCHANGED <<blk, handEdits>>

AppendFails(r) ==
    /\ repl[r].req.step = "append"
    /\ ~Verifies(log, repl[r].key)
    /\ blk' = NoRepl
    /\ Reply(r)
    /\ UNCHANGED <<log, trail, handEdits>>

(* Only after the append does the prompt take the new cap. *)
TakeCap(r) ==
    /\ repl[r].req.step = "unlock"
    /\ blk' = NoRepl
    /\ repl' = [repl EXCEPT ![r].override = repl[r].req.next,
                            ![r].req = Waiting]
    /\ UNCHANGED <<log, trail, handEdits>>

(* The prompt is killed and started again: no override, lock freed. *)
Restart(r) ==
    /\ repl[r].req # Waiting \/ repl[r].override # NoCap
    /\ repl' = [repl EXCEPT ![r].override = NoCap, ![r].req = Waiting]
    /\ blk' = IF blk = r THEN NoRepl ELSE blk
    /\ UNCHANGED <<log, trail, handEdits>>

(* Somebody changes one entry of the file by hand.  The history takes the  *)
(* change over unless the chain covers it: the next entry links to this    *)
(* one.                                                                    *)
Covered(i) == i < Len(log) /\ log[i + 1].link # NoHash

EditEntry(i, cap) ==
    /\ handEdits > 0
    /\ cap # log[i].next
    /\ handEdits' = handEdits - 1
    /\ log' = [log EXCEPT ![i].next = cap]
    /\ trail' = IF Covered(i) THEN trail ELSE [trail EXCEPT ![i].next = cap]
    /\ UNCHANGED <<blk, repl>>

AuditNext ==
    \/ \E r \in Repls :
         \/ \E cap \in Caps, force, answer \in BOOLEAN :
                SetBudget(r, cap, force, answer)
         \/ LoadChain(r) \/ LoadChainFails(r) \/ LockLog(r)
         \/ AppendEntry(r) \/ AppendFails(r) \/ TakeCap(r) \/ Restart(r)
    \/ \E i \in DOMAIN log, cap \in Caps : EditEntry(i, cap)

AuditSpec == AuditInit /\ [][AuditNext]_auditVars

-----------------------------------------------------------------------------
(* Two prompts never fork the chain: whatever is appended while another    *)
(* prompt holds a head it loaded earlier, the log still verifies with the  *)
(* key or without it, as long as nobody edits it                           *)
(* (budget_audit.rs:167-213).                                              *)
ChainHolds ==
    handEdits = MaxHandEdits => Verifies(log, Unkeyed) \/ Verifies(log, Key)

(* An entry that a later entry links to cannot be changed unnoticed, with  *)
(* or without the key, unless it is changed back, and nothing appended     *)
(* afterwards hides it.                                                    *)
EditIsNoticed ==
    log # trail => ~Verifies(log, Unkeyed) /\ ~Verifies(log, Key)

(* With the key even the last entry cannot be changed unnoticed, and a log *)
(* that verifies under it holds no entry written without it                *)
(* (verify_chain, budget_audit.rs:335-418).                                *)
KeyedLogIsKeyed ==
    Verifies(log, Key) => \A i \in DOMAIN log : log[i].mac = Hash(log[i], Key)

(* A prompt whose environment asks for a key never appends without one, so *)
(* the log it extends is a keyed log (budget_audit.rs:460-492).            *)
RequestedKeyIsUsed ==
    \A r \in Repls :
        Requested(repl[r].env) /\ repl[r].req.step = "unlock"
            => log[Len(log)].mac = Hash(log[Len(log)], Key)
                \/ handEdits < MaxHandEdits

(* A prompt with the key that is refused a log nobody edited is told of    *)
(* the migration boundary, never of a broken chain.                        *)
MigrationIsNamed ==
    handEdits = MaxHandEdits => Diagnosis(log, Key) # "broken"

(* No prompt runs under a cap that is not in the log, and none above the   *)
(* ceiling, even with --force; hand edits aside.                           *)
CapIsAudited ==
    handEdits = MaxHandEdits =>
        \A r \in Repls : repl[r].override # NoCap =>
            /\ \E i \in DOMAIN log : log[i].next = repl[r].override
            /\ Ceiling # NoCap => repl[r].override <= Ceiling

(* However prompts with and without a key share the log, every cap in      *)
(* force has its entry, the chain holds, and what is changed or forged in  *)
(* it is told apart from a log that only predates the key                  *)
(* (budget_audit.rs:167-213, 335-418, 460-492).                            *)
AuditTrailSound ==
    /\ ChainHolds /\ EditIsNoticed /\ KeyedLogIsKeyed
    /\ RequestedKeyIsUsed /\ MigrationIsNamed /\ CapIsAudited
=============================================================================
