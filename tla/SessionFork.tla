---------------------------- MODULE SessionFork -----------------------------
(***************************************************************************)
(* The fork engine of nerve-core (session_fork.rs) and the commands that   *)
(* use it (nv fork, nv branch, nv sessions).  A session is a payload file  *)
(* in the bucket of its parent (its own bucket for a root) and an entry of *)
(* index.json.  A fork writes the child, the parent and the index one      *)
(* after the other under an advisory lock the operating system frees when  *)
(* its holder dies.  A session that is only a stored run report is first   *)
(* registered as a root, and the test for that is made without the lock.   *)
(***************************************************************************)
EXTENDS Naturals, Sequences, SequencesExt

CONSTANTS
    ForkProcs,     \* processes that fork
    Reports,       \* ids of runs with a stored report
    Minted,        \* ids a fork may mint (ULIDs: fresh, but checked)
    NoId,          \* no parent
    Unlocked,      \* nobody holds sessions.lock
    RoundsOf,      \* the rounds of a stored report
    MaxCopied,     \* ForkConfig.max_copied_rounds
    FromRounds,    \* the branch points asked for; 0 asks for the last round
    CopyHistory,   \* the values ForkConfig.copy_patch_history may have
    MaxForkKills   \* bound: processes killed

Ids == Reports \cup Minted

ASSUME ForkAssumption ==
    /\ Reports \cap Minted = {}
    /\ NoId \notin Ids
    /\ Unlocked \notin ForkProcs
    /\ \A r \in Reports : RoundsOf[r] \in Seq(Nat)
    /\ MaxCopied \in Nat
    /\ FromRounds \subseteq Nat
    /\ CopyHistory \subseteq BOOLEAN
    /\ MaxForkKills \in Nat

VARIABLES
    payload,     \* .nerve/sessions/<bucket>/<id>.json, by <<bucket, id>>
    entries,     \* .nerve/sessions/index.json: the parent of each id
    flock,       \* the holder of sessions.lock
    call,        \* what each process is doing
    granted,     \* history: children that fork returned to its caller
    forkKills    \* kills left

forkVars == <<payload, entries, flock, call, granted, forkKills>>

-----------------------------------------------------------------------------
NoFile  == [present |-> FALSE, parent |-> NoId, children |-> {},
            rounds |-> <<>>, at |-> 0]
Unknown == [known |-> FALSE, parent |-> NoId]

(* SessionTree::root and the payload of a child. *)
RootTree(rounds) == [NoFile EXCEPT !.present = TRUE, !.rounds = rounds]

(* The directory of a payload: the parent's, or its own for a root. *)
Bucket(entry, id) == IF entry.parent = NoId THEN id ELSE entry.parent

(* load_session_payload: the own bucket first, then the bucket the index   *)
(* names; an id with neither is an error, shown as NoFile.                 *)
LoadPayload(id) ==
    IF payload[<<id, id>>].present THEN payload[<<id, id>>]
    ELSE IF entries[id].known THEN payload[<<Bucket(entries[id], id), id>>]
    ELSE NoFile

(* hydrate: children of the payload, completed from the index. *)
Hydrate(id) ==
    LoadPayload(id).children \cup
        {c \in Ids : entries[c].known /\ entries[c].parent = id}

(* The rounds a child takes over: the leading ones up to the branch point, *)
(* and at most MaxCopied of them.                                          *)
CopiedRounds(rounds, at) ==
    LET past  == {i \in DOMAIN rounds : rounds[i] > at}
        upTo  == IF past = {} THEN Len(rounds)
                 ELSE (CHOOSE i \in past : \A j \in past : i <= j) - 1
    IN SubSeq(rounds, 1, IF upTo < MaxCopied THEN upTo ELSE MaxCopied)

Resting == [step |-> "rest", id |-> NoId, from |-> 0, child |-> NoId,
            tree |-> NoFile, parent |-> NoFile, seen |-> [i \in Ids |-> Unknown]]
Doing(p, step) == call[p].step = step
GoTo(p, step) == call' = [call EXCEPT ![p].step = step]

ForkInit ==
    /\ payload = [b \in Ids \X Ids |-> NoFile]
    /\ entries = [i \in Ids |-> Unknown]
    /\ flock = Unlocked
    /\ call = [p \in ForkProcs |-> Resting]
    /\ granted = {}
    /\ forkKills = MaxForkKills

-----------------------------------------------------------------------------
(* nv fork, nv branch, /fork: bootstrap_root_session_if_missing looks the  *)
(* session up without the lock.                                            *)
StartFork(p, id, from) ==
    /\ Doing(p, "rest")
    /\ call' = [call EXCEPT ![p] =
          [Resting EXCEPT !.step = IF entries[id].known \/ id \notin Reports
                                   THEN "forkLock" ELSE "rootLock",
                          !.id = id, !.from = from]]
    /\ UNCHANGED <<payload, entries, flock, granted, forkKills>>

(* Mutation: the lock is not waited for. *)
AcquireSessions_NoWait(p) ==
    /\ call[p].step \in {"rootLock", "forkLock"}
    /\ flock' = p
    /\ GoTo(p, IF Doing(p, "rootLock") THEN "rootPayload" ELSE "resolve")
    /\ UNCHANGED <<payload, entries, granted, forkKills>>

(* SessionsLock::acquire, for persist_root and for fork. *)
AcquireSessions(p) ==
    /\ call[p].step \in {"rootLock", "forkLock"}
    /\ flock = Unlocked
    /\ flock' = p
    /\ GoTo(p, IF Doing(p, "rootLock") THEN "rootPayload" ELSE "resolve")
    /\ UNCHANGED <<payload, entries, granted, forkKills>>

(* Five seconds without the lock: ForkError::LockTimeout. *)
SessionsLockTimeout(p) ==
    /\ call[p].step \in {"rootLock", "forkLock"}
    /\ flock # Unlocked
    /\ call' = [call EXCEPT ![p] = Resting]
    /\ UNCHANGED <<payload, entries, flock, granted, forkKills>>

(* persist_root: payload, then index, then the lock is dropped. *)
PersistRootPayload(p) ==
    /\ Doing(p, "rootPayload")
    /\ payload' = [payload EXCEPT ![<<call[p].id, call[p].id>>] =
                      RootTree(RoundsOf[call[p].id])]
    /\ call' = [call EXCEPT ![p].step = "rootIndex", ![p].seen = entries]
    /\ UNCHANGED <<entries, flock, granted, forkKills>>

PersistRootIndex(p) ==
    /\ Doing(p, "rootIndex")
    /\ entries' = [call[p].seen EXCEPT ![call[p].id] =
                      [known |-> TRUE, parent |-> NoId]]
    /\ flock' = Unlocked
    /\ GoTo(p, "forkLock")
    /\ UNCHANGED <<payload, granted, forkKills>>

(* fork, steps 1 to 3: resolve the parent and the branch point, mint an id *)
(* and build the child.                                                    *)
BranchPoint(rounds, from) ==
    IF from # 0 THEN from
    ELSE IF rounds = <<>> THEN 0 ELSE Last(rounds)

Resolvable(p) ==
    LET parent == LoadPayload(call[p].id) IN
    /\ entries[call[p].id].known
    /\ parent.present
    /\ call[p].from # 0 => \E i \in DOMAIN parent.rounds :
                              parent.rounds[i] = call[p].from

ResolveFork(p, child, copy) ==
    LET id == call[p].id
        parent == LoadPayload(id)
        at == BranchPoint(parent.rounds, call[p].from) IN
    /\ Doing(p, "resolve")
    /\ Resolvable(p)
    /\ ~entries[child].known
    /\ ~payload[<<child, child>>].present
    /\ call' = [call EXCEPT
          ![p].step = "child", ![p].child = child, ![p].seen = entries,
          ![p].parent = parent,
          ![p].tree = [present |-> TRUE, parent |-> id, children |-> {},
                       rounds |-> IF copy THEN CopiedRounds(parent.rounds, at)
                                  ELSE <<>>,
                       at |-> at]]
    /\ UNCHANGED <<payload, entries, flock, granted, forkKills>>

(* ParentNotFound, InvalidRound or a payload that does not load. *)
RefuseFork(p) ==
    /\ Doing(p, "resolve")
    /\ ~Resolvable(p)
    /\ flock' = Unlocked
    /\ call' = [call EXCEPT ![p] = Resting]
    /\ UNCHANGED <<payload, entries, granted, forkKills>>

(* Step 4: the child in the parent's bucket, *)
WriteChild(p) ==
    /\ Doing(p, "child")
    /\ payload' = [payload EXCEPT ![<<call[p].id, call[p].child>>] =
                      call[p].tree]
    /\ GoTo(p, "parent")
    /\ UNCHANGED <<entries, flock, granted, forkKills>>

(* the parent with one more child, *)
WriteParent(p) ==
    LET id == call[p].id IN
    /\ Doing(p, "parent")
    /\ payload' = [payload EXCEPT ![<<Bucket(call[p].seen[id], id), id>>] =
                      [call[p].parent EXCEPT !.children = @ \cup {call[p].child}]]
    /\ GoTo(p, "index")
    /\ UNCHANGED <<entries, flock, granted, forkKills>>

(* and the index, after which fork returns the child. *)
WriteForkIndex(p) ==
    /\ Doing(p, "index")
    /\ entries' = [call[p].seen EXCEPT ![call[p].child] =
                      [known |-> TRUE, parent |-> call[p].id]]
    /\ granted' = granted \cup {call[p].child}
    /\ flock' = Unlocked
    /\ call' = [call EXCEPT ![p] = Resting]
    /\ UNCHANGED <<payload, forkKills>>

(* A kill frees the advisory lock and leaves the files as they are. *)
ForkKill(p) ==
    /\ ~Doing(p, "rest")
    /\ forkKills > 0
    /\ forkKills' = forkKills - 1
    /\ flock' = IF flock = p THEN Unlocked ELSE flock
    /\ call' = [call EXCEPT ![p] = Resting]
    /\ UNCHANGED <<payload, entries, granted>>

ForkStep(p) ==
    \/ \E id \in Ids, from \in FromRounds : StartFork(p, id, from)
    \/ AcquireSessions(p) \/ SessionsLockTimeout(p)
    \/ PersistRootPayload(p) \/ PersistRootIndex(p)
    \/ \E child \in Minted, copy \in CopyHistory : ResolveFork(p, child, copy)
    \/ RefuseFork(p)
    \/ WriteChild(p) \/ WriteParent(p) \/ WriteForkIndex(p)
    \/ ForkKill(p)

ForkNext == \E p \in ForkProcs : ForkStep(p)

ForkSpec == ForkInit /\ [][ForkNext]_forkVars

-----------------------------------------------------------------------------
(* Every session the index knows loads, after any kill: a fork writes the  *)
(* payloads before the index (session_fork.rs:335-358).                    *)
IndexedSessionLoads ==
    \A i \in Ids : entries[i].known => LoadPayload(i).present

(* A child that a fork returned stays in the index and under its parent in *)
(* nv sessions tree, even when a second bootstrap of the parent rewrote    *)
(* the parent's payload (session_fork.rs:426-461, main.rs:1003-1027).      *)
GrantedChildShown ==
    \A c \in granted :
        entries[c].known /\ c \in Hydrate(entries[c].parent)

(* A child's history is a beginning of its parent's, and never longer than *)
(* the branch point or the ceiling on copied rounds allows.                *)
ChildHistoryIsPrefix ==
    \A i \in Ids :
        LET t == LoadPayload(i) IN
        t.present /\ t.parent # NoId =>
            LET r == LoadPayload(t.parent).rounds IN
            /\ IsPrefix(t.rounds, r)
            /\ Len(t.rounds) <= MaxCopied
            /\ \A k \in DOMAIN t.rounds : t.rounds[k] <= t.at

(* Whatever is killed and however bootstraps and forks interleave, the     *)
(* session tree stays whole: what is indexed loads, a branch the operator  *)
(* was given is found under its parent, and its history is its parent's up *)
(* to the branch point (session_fork.rs:247-363, 426-461).                 *)
SessionTreeWhole ==
    IndexedSessionLoads /\ GrantedChildShown /\ ChildHistoryIsPrefix
=============================================================================
