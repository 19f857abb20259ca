-------------------------- MODULE PatchApplyProofs --------------------------
(***************************************************************************)
(* What holds of applying and rolling back a patch, for every set of       *)
(* paths, every tree and every patch, with any number of calls, faults,    *)
(* edits and kills.                                                        *)
(***************************************************************************)
EXTENDS PatchApply, TLAPS

Contents == Texts \cup {Binary}

(* Path p is named by the entries P. *)
Hit(P, p) == \E i \in DOMAIN P : p \in Named(P[i])

(* Where a call stands. *)
Counters ==
    /\ pc \in {"idle", "validating"} => part = 1 /\ snaps = <<>>
    /\ pc = "idle" => entry = 1
    /\ pc \in {"validating", "capturing", "running"} => entry \in 1 .. Len(patch) + 1
    /\ pc = "capturing" /\ entry <= Len(patch) =>
          part \in 1 .. Len(ChangedPaths(patch[entry]))
    /\ pc = "running" /\ entry <= Len(patch) =>
          part \in 1 .. Len(OpsOn(patch[entry]))
    /\ pc \in {"capturing", "running"} /\ entry > Len(patch) => part = 1
    /\ pc = "restoring" => entry \in 0 .. Len(snaps)
    /\ pc \in {"capturing", "restoring"} => mode = "apply"
    /\ \A j \in DOMAIN snaps : Hit(patch, snaps[j].path)

Histories ==
    /\ before \in [Paths -> Nodes] /\ WellFormed(before) /\ fresh \subseteq Paths
    /\ base # <<>> => base \in [Paths -> Nodes] /\ WellFormed(base)

PatchTypes == PatchTypeOK /\ Counters /\ Histories

(***************************************************************************)
(* Content the patch has seen: what it validated, and what it wrote since. *)
(***************************************************************************)
KnownTo(P, p, v) ==
    \E i \in DOMAIN P :
        \/ p \in Named(P[i]) /\ v = P[i].original
        \/ p = P[i].path /\ v = P[i].modified
Seen(P, p, v) == v \in Contents => v = Empty \/ KnownTo(P, p, v)

SeenInv ==
    /\ pc = "validating" =>
          \A i \in 1 .. entry - 1 :
              \A p \in Named(patch[i]) \ fresh : Seen(patch, p, tree[p])
    /\ pc \in {"capturing", "running", "restoring"} =>
          \A p \in Paths \ fresh : Hit(patch, p) => Seen(patch, p, tree[p])
    /\ \A j \in DOMAIN snaps :
          snaps[j].path \notin fresh => Seen(patch, snaps[j].path, snaps[j].node)

(***************************************************************************)
(* Snapshots: until the first write the tree is as the call found it, but  *)
(* for edits and the directories they need; afterwards a snapshot tells    *)
(* what was there, and the directories of a file it holds are still there. *)
(***************************************************************************)
Unmoved(t, b, p) == t[p] = b[p] \/ (b[p] = Missing /\ t[p] = Dir)
Held(S, p) == \E j \in DOMAIN S : S[j].path = p

SnapInv ==
    /\ pc \in {"validating", "capturing"} =>
          \A p \in Paths \ fresh : Unmoved(tree, before, p)
    /\ pc \in {"running", "restoring"} =>
          \A p \in Paths \ fresh : ~Hit(patch, p) => Unmoved(tree, before, p)
    /\ \A j \in DOMAIN snaps :
          /\ snaps[j].path \notin fresh => snaps[j].node = before[snaps[j].path]
          /\ snaps[j].node # Missing => \A q \in Above[snaps[j].path] : tree[q] = Dir
    /\ pc = "capturing" =>
          /\ \A i \in 1 .. entry - 1 : \A p \in Named(patch[i]) : Held(snaps, p)
          /\ part = 2 => Held(snaps, patch[entry].from)
    /\ mode = "apply" /\ pc \in {"running", "restoring"} =>
          \A p \in Paths : Hit(patch, p) => Held(snaps, p)

(* Where nothing lies below a path of the patch, no such path becomes a    *)
(* directory, so that a restore is never refused.                          *)
Leaf(P) == \A p \in Paths, i \in DOMAIN P : Above[p] \cap Named(P[i]) = {}

RestoreInv ==
    Leaf(patch) =>
        /\ \A j \in DOMAIN snaps : tree[snaps[j].path] # Dir
        /\ pc = "restoring" =>
              \A j \in entry + 1 .. Len(snaps) :
                  snaps[j].path \notin fresh => tree[snaps[j].path] = snaps[j].node
        /\ FailedApplyRestored

(***************************************************************************)
(* The tree an apply started from fits all entries of the patch; beyond    *)
(* the patch its files are still there, and a rollback brings back those   *)
(* of one entry after the other.                                           *)
(***************************************************************************)
Fits(t, f) == Valid(t, f, FALSE)

BaseInv ==
    /\ mode = "apply" /\ pc = "validating" /\ fresh = {} =>
          \A i \in 1 .. entry - 1 : Fits(before, patch[i])
    /\ mode = "apply" /\ pc \in {"capturing", "running", "restoring"} /\ fresh = {} =>
          \A i \in DOMAIN patch : Fits(before, patch[i])
    /\ pc \in {"validating", "capturing"} /\ fresh = {} => tree = before
    /\ base # <<>> =>
          /\ \A i \in DOMAIN patch : Fits(base, patch[i])
          /\ \A p \in Paths : Hit(patch, p) => base[p] # Dir
          /\ \A p \in Paths : ~Hit(patch, p) => SameFile(tree, base, p)

Rolled(P, e, k, p) ==
    \/ \E i \in 1 .. e - 1 : p \in Named(P[i])
    \/ k = 2 /\ p = P[e].from

RollInv ==
    base # <<>> /\ ~ModifiedMissing /\ mode = "rollback" =>
        /\ pc = "running" =>
              \A p \in Paths :
                  Rolled(patch, entry, part, p) => SameFile(tree, base, p)
        /\ pc = "idle" /\ result = "ok" => \A p \in Paths : SameFile(tree, base, p)

PatchInv == PatchTypes /\ SeenInv /\ SnapInv /\ RestoreInv /\ BaseInv /\ RollInv

-----------------------------------------------------------------------------
(***************************************************************************)
(* Operators                                                               *)
(***************************************************************************)

(* The values of a path that are not content are distinct. *)
LEMMA NodesKnown ==
    /\ Missing # Dir /\ Binary # Missing /\ Binary # Dir
    /\ Missing \notin Contents /\ Dir \notin Contents
    /\ Binary \notin Texts /\ Missing \notin Texts /\ Dir \notin Texts
    /\ Nodes = Contents \cup {Missing, Dir}
    /\ Empty \in Texts
<1>1. Missing # Dir /\ Binary # Missing /\ Binary # Dir
  BY PatchAssumption
<1>2. Binary \notin Texts /\ Missing \notin Texts /\ Dir \notin Texts
  BY PatchAssumption
<1> QED
  BY <1>1, <1>2, PatchAssumption DEF Nodes, Contents

(* What an entry names is what it changes, the source of a rename first. *)
LEMMA EntryKnown ==
    ASSUME NEW f \in EntryType
    PROVE  /\ Named(f) \subseteq Paths
           /\ Len(ChangedPaths(f)) \in {1, 2}
           /\ \A k \in 1 .. Len(ChangedPaths(f)) : ChangedPaths(f)[k] \in Named(f)
           /\ Len(ChangedPaths(f)) = 1 => Named(f) = {ChangedPaths(f)[1]}
           /\ Len(ChangedPaths(f)) = 2 =>
                 /\ ChangedPaths(f)[1] = f.from
                 /\ Named(f) = {ChangedPaths(f)[1], ChangedPaths(f)[2]}
<1>1. f.path \in Paths /\ f.from \in Paths
  BY DEF EntryType
<1>2. CASE f.op = "rename"
  BY <1>1, <1>2 DEF Named, ChangedPaths
<1>3. CASE f.op # "rename"
  BY <1>1, <1>3 DEF Named, ChangedPaths
<1> QED
  BY <1>2, <1>3

(* A file operation that makes sense. *)
GoodOp(s) ==
    /\ s.path \in Paths
    /\ \/ s.op = "write" /\ s.value \in Contents
       \/ s.op = "remove" /\ s.value = Missing

(* The file operations of an entry are on paths it names, and write what   *)
(* it knows.                                                               *)
LEMMA OpsKnown ==
    ASSUME NEW f \in EntryType
    PROVE  /\ Len(ApplyOps(f)) \in {1, 2} /\ Len(RollbackOps(f)) \in {1, 2}
           /\ \A k \in 1 .. Len(ApplyOps(f)) :
                 /\ GoodOp(ApplyOps(f)[k]) /\ ApplyOps(f)[k].path \in Named(f)
                 /\ ApplyOps(f)[k].value \in Contents =>
                       ApplyOps(f)[k].path = f.path /\ ApplyOps(f)[k].value = f.modified
           /\ \A k \in 1 .. Len(RollbackOps(f)) :
                 /\ GoodOp(RollbackOps(f)[k]) /\ RollbackOps(f)[k].path \in Named(f)
                 /\ RollbackOps(f)[k].value \in Contents =>
                       RollbackOps(f)[k].value = f.original
<1>1. /\ f.path \in Paths /\ f.from \in Paths
      /\ f.original \in Contents /\ f.modified \in Contents
      /\ f.op \in {"modify", "create", "delete", "rename"}
  BY DEF EntryType, Contents
<1>2. GoodOp(RemoveOp(f.path)) /\ GoodOp(RemoveOp(f.from))
  BY <1>1 DEF GoodOp, RemoveOp
<1>3. /\ GoodOp(WriteOp(f.path, f.modified)) /\ GoodOp(WriteOp(f.path, f.original))
      /\ GoodOp(WriteOp(f.from, f.original))
  BY <1>1 DEF GoodOp, WriteOp
<1>4. /\ \A p : RemoveOp(p).path = p /\ RemoveOp(p).value \notin Contents
      /\ \A p, v : WriteOp(p, v).path = p /\ WriteOp(p, v).value = v
  BY NodesKnown DEF RemoveOp, WriteOp
<1> HIDE DEF GoodOp, RemoveOp, WriteOp
<1>5. CASE f.op = "rename"
  BY <1>1, <1>2, <1>3, <1>4, <1>5 DEF ApplyOps, RollbackOps, Named
<1>6. CASE f.op = "create"
  BY <1>1, <1>2, <1>3, <1>4, <1>6 DEF ApplyOps, RollbackOps, Named
<1>7. CASE f.op = "delete"
  BY <1>1, <1>2, <1>3, <1>4, <1>7 DEF ApplyOps, RollbackOps, Named
<1>8. CASE f.op = "modify"
  BY <1>1, <1>2, <1>3, <1>4, <1>8 DEF ApplyOps, RollbackOps, Named
<1> QED
  BY <1>1, <1>5, <1>6, <1>7, <1>8

(* A file operation that is done: its path has its value, and elsewhere    *)
(* directories come at most.                                               *)
LEMMA DoneKnown ==
    ASSUME NEW t \in [Paths -> Nodes], WellFormed(t), NEW s, GoodOp(s), Possible(t, s)
    PROVE  /\ Done(t, s) \in [Paths -> Nodes] /\ WellFormed(Done(t, s))
           /\ Done(t, s)[s.path] = s.value
           /\ \A q \in Paths : q # s.path =>
                 Done(t, s)[q] = t[q]
                 \/ (t[q] = Missing /\ Done(t, s)[q] = Dir /\ q \in Above[s.path])
           /\ \A q \in Paths : t[q] = Dir => Done(t, s)[q] = Dir
<1> DEFINE u == Done(t, s)
<1>1. /\ Above[s.path] \subseteq Paths /\ s.path \notin Above[s.path]
      /\ \A p \in Paths : p \notin Above[p] /\ Above[p] \subseteq Paths
      /\ \A p \in Paths : \A q \in Above[p] : Above[q] \subseteq Above[p]
  BY PatchAssumption DEF GoodOp
<1>2. u = [p \in Paths |-> IF p = s.path THEN s.value
             ELSE IF s.op = "write" /\ p \in Above[s.path] THEN Dir ELSE t[p]]
  BY DEF Done
<1>3. s.value \in Nodes /\ Dir \in Nodes /\ s.path \in Paths
  BY NodesKnown DEF GoodOp
<1>4. u \in [Paths -> Nodes]
  BY <1>2, <1>3
<1>5. u[s.path] = s.value
  BY <1>2, <1>3
<1>6. t[s.path] # Dir
  BY DEF Possible
<1>7. s.op = "write" => \A q \in Above[s.path] : t[q] \in {Missing, Dir}
  BY <1>1, NodesKnown DEF Possible, NotADirectory, IsFile, Contents
<1>8. \A q \in Paths : q # s.path =>
          u[q] = t[q] \/ (t[q] = Missing /\ u[q] = Dir /\ q \in Above[s.path])
  BY <1>2, <1>7
<1>9. \A q \in Paths : t[q] = Dir => u[q] = Dir
  BY <1>2, <1>6
<1>10. WellFormed(u)
  <2> SUFFICES ASSUME NEW p \in Paths, u[p] # Missing, NEW q \in Above[p]
               PROVE  u[q] = Dir
    BY DEF WellFormed
  <2>0. q \in Paths
    BY <1>1
  <2>1. CASE p = s.path
    <3>1. s.op = "write" /\ q # s.path
      BY <2>1, <1>5, <1>1 DEF GoodOp
    <3> QED
      BY <3>1, <2>0, <2>1, <1>2
  <2>2. CASE p # s.path /\ t[p] # Missing
    <3>1. t[q] = Dir
      BY <2>2 DEF WellFormed
    <3> QED
      BY <3>1, <1>9, <2>0
  <2>3. CASE p # s.path /\ t[p] = Missing
    <3>1. s.op = "write" /\ p \in Above[s.path]
      BY <2>3, <1>2
    <3>2. q \in Above[s.path] /\ q # s.path
      BY <3>1, <1>1, <1>3
    <3> QED
      BY <3>1, <3>2, <2>0, <1>2
  <2> QED
    BY <2>1, <2>2, <2>3
<1> HIDE DEF u
<1> QED
  BY <1>4, <1>5, <1>8, <1>9, <1>10 DEF u

(* A file operation that fails on its way leaves directories at most. *)
LEMMA BegunKnown ==
    ASSUME NEW t \in [Paths -> Nodes], WellFormed(t), NEW s, GoodOp(s), Possible(t, s),
           NEW u \in Begun(t, s)
    PROVE  /\ u \in [Paths -> Nodes] /\ WellFormed(u)
           /\ \A q \in Paths :
                 u[q] = t[q] \/ (t[q] = Missing /\ u[q] = Dir /\ q \in Above[s.path])
           /\ \A q \in Paths : t[q] = Dir => u[q] = Dir
<1>1. /\ \A p \in Paths : p \notin Above[p] /\ Above[p] \subseteq Paths
      /\ \A p \in Paths : \A q \in Above[p] : Above[q] \subseteq Above[p]
  BY PatchAssumption
<1>2. CASE u = t
  BY <1>2
<1>3. ASSUME s.op = "write", NEW a \in Above[s.path],
             u = [p \in Paths |-> IF p \in {a} \cup Above[a] THEN Dir ELSE t[p]]
      PROVE  /\ u \in [Paths -> Nodes] /\ WellFormed(u)
             /\ \A q \in Paths :
                   u[q] = t[q] \/ (t[q] = Missing /\ u[q] = Dir /\ q \in Above[s.path])
             /\ \A q \in Paths : t[q] = Dir => u[q] = Dir
  <2>1. s.path \in Paths /\ a \in Paths /\ Above[a] \subseteq Above[s.path]
    BY <1>1, <1>3 DEF GoodOp
  <2>2. u \in [Paths -> Nodes]
    BY <1>3, NodesKnown
  <2>3. \A q \in Above[s.path] : t[q] \in {Missing, Dir}
    BY <1>1, <1>3, <2>1, NodesKnown DEF Possible, NotADirectory, IsFile, Contents
  <2>4. \A q \in Paths :
            u[q] = t[q] \/ (t[q] = Missing /\ u[q] = Dir /\ q \in Above[s.path])
    BY <1>3, <2>1, <2>3
  <2>5. \A q \in Paths : t[q] = Dir => u[q] = Dir
    BY <1>3
  <2>6. WellFormed(u)
    <3> SUFFICES ASSUME NEW p \in Paths, u[p] # Missing, NEW q \in Above[p]
                 PROVE  u[q] = Dir
      BY DEF WellFormed
    <3>0. q \in Paths
      BY <1>1
    <3>1. CASE t[p] # Missing
      <4>1. t[q] = Dir
        BY <3>1 DEF WellFormed
      <4> QED
        BY <4>1, <2>5, <3>0
    <3>2. CASE t[p] = Missing
      <4>1. p \in {a} \cup Above[a]
        BY <3>2, <1>3
      <4>2. q \in Above[a]
        BY <4>1, <1>1, <2>1
      <4> QED
        BY <4>2, <3>0, <1>3
    <3> QED
      BY <3>1, <3>2
  <2> QED
    BY <2>2, <2>4, <2>5, <2>6
<1>4. u = t \/ \E a \in Above[s.path] : s.op = "write" /\
          u = [p \in Paths |-> IF p \in {a} \cup Above[a] THEN Dir ELSE t[p]]
  BY DEF Begun
<1> QED
  BY <1>2, <1>3, <1>4

-----------------------------------------------------------------------------
(***************************************************************************)
(* Steps                                                                   *)
(***************************************************************************)

(* The tree u is t with another value at p, and with directories of p. *)
Moved(t, u, p) ==
    /\ \A q \in Paths : q # p =>
          u[q] = t[q] \/ (t[q] = Missing /\ u[q] = Dir /\ q \in Above[p])
    /\ \A q \in Paths : t[q] = Dir => u[q] = Dir

(* The entries and the snapshots. *)
LEMMA SeqsKnown ==
    ASSUME PatchTypes
    PROVE  /\ Len(patch) \in Nat /\ DOMAIN patch = 1 .. Len(patch)
           /\ \A i \in DOMAIN patch :
                 /\ patch[i] \in EntryType
                 /\ patch[i].path \in Paths /\ patch[i].from \in Paths
                 /\ Named(patch[i]) \subseteq Paths
                 /\ patch[i].original \in Texts /\ patch[i].modified \in Texts
           /\ \A p : Hit(patch, p) => p \in Paths
           /\ Len(snaps) \in Nat /\ DOMAIN snaps = 1 .. Len(snaps)
           /\ \A j \in DOMAIN snaps :
                 /\ snaps[j].path \in Paths
                 /\ snaps[j].node \in Contents \cup {Missing}
                 /\ Hit(patch, snaps[j].path)
<1>1. /\ patch \in Seq(EntryType)
      /\ snaps \in Seq([path : Paths, node : Texts \cup {Binary, Missing}])
  BY DEF PatchTypes, PatchTypeOK
<1>2. /\ Len(patch) \in Nat /\ DOMAIN patch = 1 .. Len(patch)
      /\ \A i \in DOMAIN patch : patch[i] \in EntryType
  BY <1>1
<1>3. \A f \in EntryType :
          /\ f.path \in Paths /\ f.from \in Paths /\ Named(f) \subseteq Paths
          /\ f.original \in Texts /\ f.modified \in Texts
  BY DEF EntryType, Named
<1>4. /\ Len(snaps) \in Nat /\ DOMAIN snaps = 1 .. Len(snaps)
      /\ \A j \in DOMAIN snaps :
            snaps[j] \in [path : Paths, node : Texts \cup {Binary, Missing}]
  <2> DEFINE R == [path : Paths, node : Texts \cup {Binary, Missing}]
  <2>1. snaps \in Seq(R)
    BY <1>1
  <2> HIDE DEF R
  <2>2. /\ Len(snaps) \in Nat /\ DOMAIN snaps = 1 .. Len(snaps)
        /\ \A j \in DOMAIN snaps : snaps[j] \in R
    BY <2>1
  <2> QED
    BY <2>2 DEF R
<1>5. \A j \in DOMAIN snaps :
          snaps[j].path \in Paths /\ snaps[j].node \in Contents \cup {Missing}
  BY <1>4 DEF Contents
<1>6. \A j \in DOMAIN snaps : Hit(patch, snaps[j].path)
  BY DEF PatchTypes, Counters
<1>7. \A p : Hit(patch, p) => p \in Paths
  BY <1>2, <1>3 DEF Hit
<1> QED
  BY <1>2, <1>3, <1>4, <1>5, <1>6, <1>7

(* The operation in hand makes sense and is on a path of the patch. *)
LEMMA HandKnown ==
    ASSUME PatchTypes, Working
    PROVE  /\ GoodOp(InHand) /\ Hit(patch, InHand.path)
           /\ pc = "running" =>
                 /\ entry \in DOMAIN patch /\ patch[entry] \in EntryType
                 /\ part \in 1 .. Len(OpsOn(patch[entry]))
                 /\ Len(OpsOn(patch[entry])) \in {1, 2}
                 /\ InHand = OpsOn(patch[entry])[part]
                 /\ InHand.path \in Named(patch[entry])
                 /\ InHand.value \in Contents =>
                       KnownTo(patch, InHand.path, InHand.value)
           /\ pc = "restoring" =>
                 /\ entry \in DOMAIN snaps /\ mode = "apply"
                 /\ InHand.path = snaps[entry].path
                 /\ InHand.value = snaps[entry].node
<1>1. CASE pc = "running"
  <2>1. entry \in DOMAIN patch /\ patch[entry] \in EntryType
    BY <1>1 DEF Working, PatchTypes, PatchTypeOK, Counters
  <2>2. part \in 1 .. Len(OpsOn(patch[entry])) /\ InHand = OpsOn(patch[entry])[part]
    BY <1>1 DEF Working, PatchTypes, Counters, InHand
  <2> DEFINE f == patch[entry]
  <2>3. /\ Len(OpsOn(f)) \in {1, 2}
        /\ GoodOp(InHand) /\ InHand.path \in Named(f)
        /\ InHand.value \in Contents =>
              \/ InHand.path = f.path /\ InHand.value = f.modified
              \/ InHand.value = f.original
    BY <2>1, <2>2, OpsKnown DEF OpsOn
  <2>4. Hit(patch, InHand.path)
    BY <2>1, <2>3 DEF Hit
  <2>5. InHand.value \in Contents => KnownTo(patch, InHand.path, InHand.value)
    BY <2>1, <2>3 DEF KnownTo
  <2> QED
    BY <1>1, <2>1, <2>2, <2>3, <2>4, <2>5
<1>2. CASE pc = "restoring"
  <2>1. /\ entry \in DOMAIN snaps /\ mode = "apply"
        /\ snaps[entry].path \in Paths
        /\ snaps[entry].node \in Contents \cup {Missing}
        /\ Hit(patch, snaps[entry].path)
    <3>1. entry \in 0 .. Len(snaps) /\ entry > 0 /\ mode = "apply"
      BY <1>2 DEF Working, PatchTypes, Counters
    <3>2. entry \in DOMAIN snaps
      BY <3>1, SeqsKnown
    <3>3. Hit(patch, snaps[entry].path)
      BY <3>2 DEF PatchTypes, Counters
    <3> QED
      BY <3>1, <3>2, <3>3, SeqsKnown
  <2>2. InHand = RestoreOp(snaps[entry])
    BY <1>2 DEF InHand
  <2>3. CASE snaps[entry].node = Missing
    BY <1>2, <2>1, <2>2, <2>3, NodesKnown DEF RestoreOp, RemoveOp, GoodOp
  <2>4. CASE snaps[entry].node # Missing
    BY <1>2, <2>1, <2>2, <2>4, NodesKnown DEF RestoreOp, WriteOp, GoodOp, Contents
  <2> QED
    BY <2>3, <2>4
<1> QED
  BY <1>1, <1>2 DEF Working

(* A step of a call that succeeds. *)
LEMMA StepKnown ==
    ASSUME PatchTypes, Step
    PROVE  /\ tree' \in [Paths -> Nodes] /\ WellFormed(tree')
           /\ tree'[InHand.path] = InHand.value
           /\ Moved(tree, tree', InHand.path)
<1>1. tree \in [Paths -> Nodes] /\ WellFormed(tree) /\ GoodOp(InHand)
  BY HandKnown DEF PatchTypes, PatchTypeOK, Step
<1>2. Possible(tree, InHand) /\ tree' = Done(tree, InHand)
  BY DEF Step
<1> QED
  BY <1>1, <1>2, DoneKnown DEF Moved

(* A step of a call that fails. *)
LEMMA FailKnown ==
    ASSUME PatchTypes, Fail
    PROVE  /\ tree' \in [Paths -> Nodes] /\ WellFormed(tree')
           /\ tree'[InHand.path] = tree[InHand.path]
           /\ Moved(tree, tree', InHand.path)
<1>1. /\ tree \in [Paths -> Nodes] /\ WellFormed(tree) /\ GoodOp(InHand)
      /\ InHand.path \notin Above[InHand.path] /\ InHand.path \in Paths
  BY HandKnown, PatchAssumption DEF PatchTypes, PatchTypeOK, Fail, GoodOp
<1>2. CASE tree' = tree
  BY <1>1, <1>2 DEF Moved
<1>3. CASE Possible(tree, InHand) /\ tree' \in Begun(tree, InHand)
  BY <1>1, <1>3, BegunKnown DEF Moved
<1> QED
  BY <1>2, <1>3 DEF Fail

(* An edit is a file operation too. *)
LEMMA EditKnown ==
    ASSUME PatchTypes, NEW p \in Paths, NEW v \in Texts \cup {Binary, Missing},
           Edit(p, v)
    PROVE  /\ tree' \in [Paths -> Nodes] /\ WellFormed(tree')
           /\ tree'[p] = v /\ Moved(tree, tree', p)
<1> DEFINE s == IF v = Missing THEN RemoveOp(p) ELSE WriteOp(p, v)
<1>1. tree \in [Paths -> Nodes] /\ WellFormed(tree)
  BY DEF PatchTypes, PatchTypeOK
<1>2. GoodOp(s) /\ s.path = p /\ s.value = v
  BY NodesKnown DEF GoodOp, RemoveOp, WriteOp, Contents
<1>3. Possible(tree, s) /\ tree' = Done(tree, s)
  BY <1>2 DEF Edit, Possible
<1> HIDE DEF s
<1> QED
  BY <1>1, <1>2, <1>3, DoneKnown DEF Moved

-----------------------------------------------------------------------------
(***************************************************************************)
(* Types                                                                   *)
(***************************************************************************)

(* The variables that are not trees. *)
ControlTypes ==
    /\ patch \in Seq(EntryType) /\ entry \in Nat /\ part \in {1, 2}
    /\ pc \in {"idle", "validating", "capturing", "running", "restoring"}
    /\ mode \in {"apply", "rollback"}
    /\ snaps \in Seq([path : Paths, node : Texts \cup {Binary, Missing}])
    /\ result \in {"none", "ok", "rejected", "failed", "rollbackFailed",
                   "killed"}
    /\ faults \subseteq FaultPhases /\ ops \in 0 .. MaxOps
    /\ edits \in 0 .. MaxEdits /\ crashes \in 0 .. MaxCrashes

(* A call that returns leaves its counters as they began. *)
LEMMA ReturnTypes ==
    ASSUME PatchTypes, NEW r, Return(r), UNCHANGED <<patch, mode>>,
           r \in {"ok", "rejected", "failed", "rollbackFailed", "killed"},
           faults' \subseteq FaultPhases, ops' \in 0 .. MaxOps,
           edits' \in 0 .. MaxEdits, crashes' \in 0 .. MaxCrashes
    PROVE  ControlTypes' /\ Counters'
<1>1. /\ pc' = "idle" /\ entry' = 1 /\ part' = 1 /\ snaps' = <<>> /\ result' = r
      /\ patch' = patch /\ mode' = mode
  BY DEF Return
<1>2. patch \in Seq(EntryType) /\ mode \in {"apply", "rollback"}
  BY DEF PatchTypes, PatchTypeOK
<1>3. snaps' \in Seq([path : Paths, node : Texts \cup {Binary, Missing}])
  BY <1>1
<1>4. DOMAIN snaps' = {}
  BY <1>1
<1> QED
  BY <1>1, <1>2, <1>3, <1>4 DEF ControlTypes, Counters

(* The first of two parts is followed by the second, the last by the next  *)
(* entry.                                                                  *)
LEMMA AdvanceKnown ==
    ASSUME NEW n \in {1, 2}, part \in 1 .. n, Advance(n)
    PROVE  \/ part = 1 /\ n = 2 /\ entry' = entry /\ part' = 2
           \/ part = n /\ entry' = entry + 1 /\ part' = 1
<1>1. part \in {1, 2}
  OBVIOUS
<1>2. CASE part < n
  BY <1>1, <1>2 DEF Advance
<1>3. CASE ~(part < n)
  BY <1>1, <1>3 DEF Advance
<1> QED
  BY <1>2, <1>3

(* Every step keeps the control variables typed and the counters in range. *)
LEMMA ControlStep ==
    ASSUME PatchTypes, [Next]_vars
    PROVE  ControlTypes' /\ Counters'
<1>0. ControlTypes /\ Counters
  BY DEF PatchTypes, PatchTypeOK, ControlTypes
<1>A. MaxOps \in Nat /\ MaxEdits \in Nat /\ MaxCrashes \in Nat
  BY PatchAssumption
<1>1. ASSUME NEW m \in {"apply", "rollback"}, Begin(m) PROVE ControlTypes' /\ Counters'
  <2>1. ops' \in 0 .. MaxOps
    BY <1>0, <1>1, <1>A DEF ControlTypes, Begin
  <2>2. ControlTypes'
    BY <1>0, <1>1, <2>1 DEF ControlTypes, Begin
  <2>3. entry' \in 1 .. Len(patch') + 1
    BY <1>0, <1>1, SeqsKnown DEF Begin, Counters
  <2> QED
    BY <1>0, <1>1, <2>2, <2>3 DEF Counters, Begin
<1>2. CASE Validate
  <2>1. CASE Valid(tree, patch[entry], mode = "rollback")
    <3>1. /\ entry \in 1 .. Len(patch) /\ part = 1
          /\ entry' = entry + 1 /\ part' = 1
      BY <1>0, <1>2, <2>1 DEF Validate, Advance, Counters
    <3>2. entry' \in 1 .. Len(patch) + 1 /\ entry' \in Nat
      BY <3>1, SeqsKnown
    <3>3. ControlTypes'
      BY <1>0, <1>2, <2>1, <3>1, <3>2 DEF ControlTypes, Validate, bounds
    <3> QED
      BY <1>0, <1>2, <2>1, <3>1, <3>2, <3>3 DEF Validate, Counters
  <2>2. CASE ~Valid(tree, patch[entry], mode = "rollback")
    BY <1>0, <1>2, <2>2, ReturnTypes DEF Validate, bounds, ControlTypes
  <2> QED
    BY <2>1, <2>2
<1>3. CASE Capture
  <2> DEFINE f == patch[entry]
             c == ChangedPaths(f)
  <2>1. /\ entry \in 1 .. Len(patch) /\ entry \in DOMAIN patch /\ f \in EntryType
        /\ part \in 1 .. Len(c) /\ Len(c) \in {1, 2} /\ c[part] \in Named(f)
        /\ c[part] \in Paths /\ Hit(patch, c[part])
    <3>1. /\ entry \in 1 .. Len(patch) /\ part \in 1 .. Len(c)
      BY <1>0, <1>3 DEF Capture, Counters
    <3>2. entry \in DOMAIN patch /\ f \in EntryType
      BY <3>1, SeqsKnown
    <3>3. Len(c) \in {1, 2} /\ c[part] \in Named(f) /\ c[part] \in Paths
      BY <3>1, <3>2, EntryKnown
    <3> QED
      BY <3>1, <3>2, <3>3 DEF Hit
  <2>2. CASE tree[c[part]] = Dir
    BY <1>0, <1>3, <2>2, ReturnTypes DEF Capture, bounds, ControlTypes
  <2>3. CASE tree[c[part]] # Dir
    <3> DEFINE n == [path |-> c[part], node |-> tree[c[part]]]
    <3>1. /\ snaps' = Append(snaps, n)
          /\ UNCHANGED <<pc, result, patch, mode, faults, ops, edits, crashes>>
          /\ Advance(Len(c))
      BY <1>3, <2>3 DEF Capture, bounds
    <3>2. n \in [path : Paths, node : Texts \cup {Binary, Missing}]
      BY <2>1, <2>3 DEF PatchTypes, PatchTypeOK, Nodes
    <3>3. /\ snaps' \in Seq([path : Paths, node : Texts \cup {Binary, Missing}])
          /\ \A j \in DOMAIN snaps' : Hit(patch', snaps'[j].path)
      <4> DEFINE R == [path : Paths, node : Texts \cup {Binary, Missing}]
      <4>1. snaps \in Seq(R) /\ n \in R /\ n.path = c[part]
        BY <1>0, <3>2 DEF ControlTypes
      <4> HIDE DEF R, n
      <4>2. /\ snaps' \in Seq(R)
            /\ \A j \in DOMAIN snaps' :
                  (j \in DOMAIN snaps /\ snaps'[j] = snaps[j]) \/ snaps'[j] = n
        BY <3>1, <4>1
      <4>3. \A j \in DOMAIN snaps' : Hit(patch, snaps'[j].path)
        BY <4>1, <4>2, <2>1, SeqsKnown
      <4>4. patch' = patch
        BY <3>1
      <4> QED
        BY <4>2, <4>3, <4>4 DEF R
    <3>4. /\ entry' \in 1 .. Len(patch) + 1 /\ entry' \in Nat /\ part' \in {1, 2}
          /\ entry' <= Len(patch) => part' \in 1 .. Len(ChangedPaths(patch[entry']))
          /\ entry' > Len(patch) => part' = 1
      <4>1. \A i \in 1 .. Len(patch) : 1 \in 1 .. Len(ChangedPaths(patch[i]))
        BY SeqsKnown, EntryKnown
      <4>2. \/ entry' = entry /\ part' = 2 /\ Len(c) = 2
            \/ entry' = entry + 1 /\ part' = 1
        BY <2>1, <3>1, AdvanceKnown
      <4>3. CASE entry' = entry /\ part' = 2 /\ Len(c) = 2
        <5>1. part' \in 1 .. Len(ChangedPaths(patch[entry']))
          BY <4>3
        <5> QED
          BY <2>1, <4>3, <5>1, SeqsKnown
      <4>4. CASE entry' = entry + 1 /\ part' = 1
        BY <2>1, <4>1, <4>4, SeqsKnown
      <4> QED
        BY <4>2, <4>3, <4>4
    <3> HIDE DEF n, c, f
    <3>5. ControlTypes'
      BY <1>0, <3>1, <3>3, <3>4 DEF ControlTypes
    <3>6. pc = "capturing" /\ pc' = "capturing" /\ mode' = "apply"
      BY <1>0, <1>3, <3>1 DEF Capture, Counters
    <3> QED
      BY <3>1, <3>3, <3>4, <3>5, <3>6 DEF Counters
  <2> QED
    BY <2>2, <2>3
<1>4. CASE NextPhase
  <2>1. /\ entry' = 1 /\ part' = 1 /\ pc' \in {"capturing", "running"}
        /\ UNCHANGED <<patch, mode, snaps, result, faults, ops, edits, crashes>>
        /\ pc' = "capturing" => mode = "apply"
    BY <1>4 DEF NextPhase, bounds
  <2>2. ControlTypes'
    BY <1>0, <2>1 DEF ControlTypes
  <2>3. \A i \in 1 .. Len(patch) :
            /\ 1 \in 1 .. Len(ChangedPaths(patch[i]))
            /\ 1 \in 1 .. Len(OpsOn(patch[i])')
    BY <2>1, SeqsKnown, EntryKnown, OpsKnown DEF OpsOn
  <2> QED
    BY <1>0, <2>1, <2>2, <2>3, SeqsKnown DEF Counters
<1>5. CASE Step
  <2>1. /\ UNCHANGED <<patch, pc, mode, snaps, result, faults, ops, edits, crashes>>
        /\ Working
    BY <1>5 DEF Step, bounds
  <2>2. CASE pc = "restoring"
    <3>1. entry' = entry - 1 /\ part' = part
      BY <1>5, <2>2 DEF Step
    <3>2. entry \in 1 .. Len(snaps) /\ entry' \in 0 .. Len(snaps) /\ entry' \in Nat
      BY <2>1, <2>2, <3>1, HandKnown, SeqsKnown
    <3>3. ControlTypes'
      BY <1>0, <2>1, <3>1, <3>2 DEF ControlTypes
    <3> QED
      BY <1>0, <2>1, <2>2, <3>1, <3>2, <3>3 DEF Counters
  <2>3. CASE pc # "restoring"
    <3> DEFINE n == Len(OpsOn(patch[entry]))
    <3>0. pc = "running" /\ entry \in 1 .. Len(patch) /\ part \in 1 .. n /\ n \in {1, 2}
      BY <2>1, <2>3, HandKnown, SeqsKnown DEF Working
    <3>1. \/ entry' = entry /\ part' = 2 /\ n = 2
          \/ entry' = entry + 1 /\ part' = 1
      BY <1>5, <2>3, <3>0, AdvanceKnown DEF Step
    <3>2. /\ entry' \in 1 .. Len(patch) + 1 /\ entry' \in Nat /\ part' \in {1, 2}
          /\ entry' <= Len(patch) => part' \in 1 .. Len(OpsOn(patch[entry']))
          /\ entry' > Len(patch) => part' = 1
      <4>1. \A i \in 1 .. Len(patch) : 1 \in 1 .. Len(OpsOn(patch[i]))
        <5> SUFFICES ASSUME NEW i \in 1 .. Len(patch)
                     PROVE  1 \in 1 .. Len(OpsOn(patch[i]))
          OBVIOUS
        <5>1. Len(ApplyOps(patch[i])) \in {1, 2} /\ Len(RollbackOps(patch[i])) \in {1, 2}
          BY SeqsKnown, OpsKnown
        <5> QED
          BY <5>1 DEF OpsOn
      <4>2. CASE entry' = entry /\ part' = 2 /\ n = 2
        <5>1. part' \in 1 .. Len(OpsOn(patch[entry']))
          BY <4>2
        <5> QED
          BY <3>0, <4>2, <5>1, SeqsKnown
      <4>3. CASE entry' = entry + 1 /\ part' = 1
        BY <3>0, <4>1, <4>3, SeqsKnown
      <4> QED
        BY <3>1, <4>2, <4>3
    <3>3. ControlTypes'
      BY <1>0, <2>1, <3>2 DEF ControlTypes
    <3>4. OpsOn(patch[entry])' = OpsOn(patch[entry'])
      BY <2>1 DEF OpsOn
    <3> HIDE DEF n
    <3> QED
      BY <1>0, <2>1, <3>0, <3>2, <3>3, <3>4 DEF Counters
  <2> QED
    BY <2>2, <2>3
<1>6. CASE Fail
  <2>1. /\ UNCHANGED <<patch, mode, ops, edits, crashes>> /\ Working
        /\ faults' \subseteq FaultPhases
    BY <1>0, <1>6 DEF Fail, bounds, ControlTypes
  <2>2. CASE pc = "restoring" \/ mode = "rollback"
    BY <1>0, <1>6, <2>1, <2>2, ReturnTypes DEF Fail, ControlTypes
  <2>3. CASE pc # "restoring" /\ mode # "rollback"
    <3>1. /\ pc' = "restoring" /\ entry' = Len(snaps) /\ part' = 1
          /\ UNCHANGED <<snaps, result>>
      BY <1>6, <2>3 DEF Fail
    <3>2. mode = "apply"
      BY <1>0, <2>3 DEF ControlTypes
    <3>3. ControlTypes'
      BY <1>0, <2>1, <3>1, SeqsKnown DEF ControlTypes
    <3> QED
      BY <1>0, <2>1, <3>1, <3>2, <3>3, SeqsKnown DEF Counters
  <2> QED
    BY <2>2, <2>3
<1>7. CASE Finish
  BY <1>0, <1>7, ReturnTypes DEF Finish, bounds, ControlTypes
<1>8. CASE Crash
  <2>1. crashes' \in 0 .. MaxCrashes
    BY <1>0, <1>8, <1>A DEF Crash, ControlTypes
  <2> QED
    BY <1>0, <1>8, <2>1, ReturnTypes DEF Crash, ControlTypes
<1>9. ASSUME NEW p \in Paths, NEW v \in Texts \cup {Binary, Missing}, Edit(p, v)
      PROVE  ControlTypes' /\ Counters'
  <2>1. edits' \in 0 .. MaxEdits
    BY <1>0, <1>9, <1>A DEF Edit, ControlTypes
  <2>2. ControlTypes'
    BY <1>0, <1>9, <2>1 DEF Edit, ControlTypes
  <2> QED
    BY <1>0, <1>9, <2>2 DEF Edit, Counters, OpsOn
<1>10. CASE UNCHANGED vars
  BY <1>0, <1>10 DEF vars, patchVars, bounds, ControlTypes, Counters, OpsOn
<1> QED
  BY <1>1, <1>2, <1>3, <1>4, <1>5, <1>6, <1>7, <1>8, <1>9, <1>10 DEF Next, Call

(* Every step keeps the trees trees. *)
LEMMA TypesStep ==
    ASSUME PatchTypes, [Next]_vars
    PROVE  PatchTypes'
<1>1. tree' \in [Paths -> Nodes] /\ WellFormed(tree')
  <2>1. tree \in [Paths -> Nodes] /\ WellFormed(tree)
    BY DEF PatchTypes, PatchTypeOK
  <2>2. CASE UNCHANGED tree
    BY <2>1, <2>2
  <2> QED
    BY <2>2, StepKnown, FailKnown, EditKnown
    DEF Next, Call, Begin, Validate, Capture, NextPhase, Finish, Crash, vars, patchVars
<1>2. Histories'
  <2>1. /\ before' \in {before, tree} /\ base' \in {base, before, <<>>}
        /\ fresh' = fresh \/ fresh' = {} \/ \E p \in Paths : fresh' = fresh \cup {p}
    BY DEF Next, Call, Begin, Validate, Capture, NextPhase, Step, Fail, Finish, Crash,
           Edit, vars, history
  <2>2. Histories /\ tree \in [Paths -> Nodes] /\ WellFormed(tree)
    BY DEF PatchTypes, PatchTypeOK
  <2>3. before' \in [Paths -> Nodes] /\ WellFormed(before')
    BY <2>1, <2>2 DEF Histories
  <2>4. base' # <<>> => base' \in [Paths -> Nodes] /\ WellFormed(base')
    BY <2>1, <2>2 DEF Histories
  <2>5. fresh' \subseteq Paths
    BY <2>1, <2>2 DEF Histories
  <2> QED
    BY <2>3, <2>4, <2>5 DEF Histories
<1> QED
  BY <1>1, <1>2, ControlStep DEF PatchTypes, PatchTypeOK, ControlTypes

-----------------------------------------------------------------------------
(***************************************************************************)
(* Content the patch has seen                                              *)
(***************************************************************************)

(* A call that returns is idle and holds no snapshots. *)
LEMMA ReturnKnown ==
    ASSUME NEW r, Return(r)
    PROVE  /\ pc' = "idle" /\ entry' = 1 /\ part' = 1 /\ result' = r
           /\ snaps' = <<>> /\ Len(snaps') = 0 /\ DOMAIN snaps' = {}
BY DEF Return

(* An entry that is valid has seen what is at its paths. *)
LEMMA ValidSeen ==
    ASSUME NEW P, NEW i \in DOMAIN P, P[i] \in EntryType, NEW t, NEW rb \in BOOLEAN,
           Valid(t, P[i], rb), NEW p \in Named(P[i])
    PROVE  Seen(P, p, t[p])
<1> DEFINE f == P[i]
<1>1. CASE p = ValidationPath(f, rb)
  <2> SUFFICES ASSUME t[p] \in Contents
               PROVE  KnownTo(P, p, t[p])
    BY DEF Seen
  <2>1. t[p] = IF rb THEN f.modified ELSE f.original
    BY <1>1, NodesKnown DEF Valid, HashOK, ReadToString
  <2>2. rb => p = f.path
    BY <1>1 DEF ValidationPath
  <2> QED
    BY <2>1, <2>2 DEF KnownTo
<1>2. CASE p # ValidationPath(f, rb)
  <2>1. f.op = "rename" /\ p = IF rb THEN f.from ELSE f.path
    BY <1>2 DEF ValidationPath, Named
  <2>2. t[p] = Missing
    BY <2>1 DEF Valid, OperationStateOK, Exists
  <2> QED
    BY <2>2, NodesKnown DEF Seen
<1> QED
  BY <1>1, <1>2

(* Beside the path of an operation nothing unseen appears. *)
LEMMA MovedSeen ==
    ASSUME NEW P, NEW t, NEW u, NEW p, Moved(t, u, p), NEW q \in Paths, q # p,
           Seen(P, q, t[q])
    PROVE  Seen(P, q, u[q])
BY NodesKnown DEF Moved, Seen

(* Every step keeps the content at the paths of the patch seen, unless the *)
(* user edited it since the call began.                                    *)
LEMMA SeenStep ==
    ASSUME PatchTypes, SeenInv, [Next]_vars
    PROVE  SeenInv'
<1>1. ASSUME NEW m, Begin(m) PROVE SeenInv'
  <2>1. pc' = "validating" /\ entry' = 1 /\ snaps' = <<>>
    BY <1>1 DEF Begin, PatchTypes, Counters
  <2>2. DOMAIN snaps' = {} /\ 1 .. entry' - 1 = {}
    BY <2>1
  <2> QED
    BY <2>1, <2>2 DEF SeenInv
<1>R. ASSUME NEW r, Return(r) PROVE SeenInv'
  BY <1>R, ReturnKnown DEF SeenInv
<1>2. CASE Validate
  <2>1. CASE Valid(tree, patch[entry], mode = "rollback")
    <3>1. /\ pc = "validating" /\ entry \in 1 .. Len(patch) /\ entry' = entry + 1
          /\ UNCHANGED <<pc, tree, patch, fresh, snaps>>
      BY <1>2, <2>1 DEF Validate, Advance, PatchTypes, Counters, history
    <3>2. \A p \in Named(patch[entry]) : Seen(patch, p, tree[p])
      BY <3>1, <2>1, SeqsKnown, ValidSeen
    <3>3. \A i \in 1 .. entry' - 1 : i = entry \/ i \in 1 .. entry - 1
      BY <3>1, SeqsKnown
    <3> QED
      BY <3>1, <3>2, <3>3 DEF SeenInv
  <2> QED
    BY <1>2, <1>R, <2>1 DEF Validate
<1>3. CASE Capture
  <2> DEFINE c == ChangedPaths(patch[entry])
             n == [path |-> c[part], node |-> tree[c[part]]]
  <2>1. CASE tree[c[part]] # Dir
    <3>1. /\ pc = "capturing" /\ snaps' = Append(snaps, n)
          /\ UNCHANGED <<pc, tree, patch, fresh>>
      BY <1>3, <2>1 DEF Capture, history
    <3>2. entry \in DOMAIN patch /\ part \in 1 .. Len(c)
      BY <1>3, SeqsKnown DEF Capture, PatchTypes, Counters
    <3>3. c[part] \in Paths /\ Hit(patch, c[part])
      BY <3>2, SeqsKnown, EntryKnown DEF Hit
    <3>4. c[part] \notin fresh => Seen(patch, c[part], tree[c[part]])
      BY <3>1, <3>3 DEF SeenInv
    <3>5. n.path = c[part] /\ n.node = tree[c[part]]
      OBVIOUS
    <3> HIDE DEF n, c
    <3>6. \A j \in DOMAIN snaps' :
              (j \in DOMAIN snaps /\ snaps'[j] = snaps[j]) \/ snaps'[j] = n
      BY <3>1 DEF PatchTypes, PatchTypeOK
    <3>7. \A j \in DOMAIN snaps' :
              snaps'[j].path \notin fresh => Seen(patch, snaps'[j].path, snaps'[j].node)
      BY <3>4, <3>5, <3>6 DEF SeenInv
    <3> QED
      BY <3>1, <3>7 DEF SeenInv
  <2> QED
    BY <1>3, <1>R, <2>1 DEF Capture
<1>4. CASE NextPhase
  <2>1. /\ entry > Len(patch) /\ pc \in {"validating", "capturing"}
        /\ pc' \in {"capturing", "running"}
        /\ UNCHANGED <<tree, patch, snaps, fresh>>
    BY <1>4 DEF NextPhase, history
  <2>2. \A p \in Paths \ fresh : Hit(patch, p) => Seen(patch, p, tree[p])
    <3>1. CASE pc = "validating"
      <4>1. \A i \in DOMAIN patch : i \in 1 .. entry - 1
        BY <2>1, <3>1, SeqsKnown DEF PatchTypes, Counters
      <4> QED
        BY <3>1, <4>1 DEF SeenInv, Hit
    <3>2. CASE pc = "capturing"
      BY <3>2 DEF SeenInv
    <3> QED
      BY <2>1, <3>1, <3>2
  <2> QED
    BY <2>1, <2>2 DEF SeenInv
<1>5. CASE Step
  <2>1. /\ pc \in {"running", "restoring"} /\ Working
        /\ UNCHANGED <<pc, patch, snaps, fresh>>
    BY <1>5 DEF Step, Working, history
  <2>2. tree'[InHand.path] = InHand.value /\ Moved(tree, tree', InHand.path)
    BY <1>5, StepKnown
  <2>3. InHand.path \notin fresh => Seen(patch, InHand.path, InHand.value)
    BY <2>1, HandKnown DEF SeenInv, Seen
  <2>4. \A p \in Paths \ fresh : Hit(patch, p) => Seen(patch, p, tree'[p])
    BY <2>1, <2>2, <2>3, MovedSeen DEF SeenInv
  <2> QED
    BY <2>1, <2>4 DEF SeenInv
<1>6. CASE Fail
  <2>1. CASE pc # "restoring" /\ mode # "rollback"
    <3>1. /\ pc = "running" /\ pc' = "restoring"
          /\ UNCHANGED <<patch, snaps, fresh>>
      BY <1>6, <2>1 DEF Fail, Working
    <3>2. tree'[InHand.path] = tree[InHand.path] /\ Moved(tree, tree', InHand.path)
      BY <1>6, FailKnown
    <3>3. \A p \in Paths \ fresh : Hit(patch, p) => Seen(patch, p, tree'[p])
      BY <3>1, <3>2, MovedSeen DEF SeenInv
    <3> QED
      BY <3>1, <3>3 DEF SeenInv
  <2> QED
    BY <1>6, <1>R, <2>1 DEF Fail
<1>7. CASE Finish
  BY <1>7, <1>R DEF Finish
<1>8. CASE Crash
  BY <1>8, <1>R DEF Crash
<1>9. ASSUME NEW p \in Paths, NEW v \in Texts \cup {Binary, Missing}, Edit(p, v)
      PROVE  SeenInv'
  <2>1. /\ Moved(tree, tree', p) /\ fresh' = fresh \cup {p}
        /\ UNCHANGED <<pc, patch, snaps, entry>>
    BY <1>9, EditKnown DEF Edit
  <2>2. \A q \in Paths \ fresh' : Seen(patch, q, tree[q]) => Seen(patch, q, tree'[q])
    BY <2>1, MovedSeen
  <2>3. pc = "validating" =>
            \A i \in 1 .. entry - 1 :
                \A q \in Named(patch[i]) \ fresh' : Seen(patch, q, tree'[q])
    <3> SUFFICES ASSUME pc = "validating", NEW i \in 1 .. entry - 1,
                        NEW q \in Named(patch[i]) \ fresh'
                 PROVE  Seen(patch, q, tree'[q])
      OBVIOUS
    <3>1. i \in DOMAIN patch
      BY SeqsKnown DEF PatchTypes, Counters
    <3>2. q \in Paths \ fresh' /\ q \notin fresh
      BY <2>1, <3>1, SeqsKnown
    <3> QED
      BY <2>2, <3>2 DEF SeenInv
  <2>4. pc \in {"capturing", "running", "restoring"} =>
            \A q \in Paths \ fresh' : Hit(patch, q) => Seen(patch, q, tree'[q])
    BY <2>1, <2>2 DEF SeenInv
  <2>5. \A j \in DOMAIN snaps :
            snaps[j].path \notin fresh' => Seen(patch, snaps[j].path, snaps[j].node)
    BY <2>1 DEF SeenInv
  <2> QED
    BY <2>1, <2>3, <2>4, <2>5 DEF SeenInv
<1>10. CASE UNCHANGED vars
  BY <1>10 DEF vars, patchVars, history, SeenInv
<1> QED
  BY <1>1, <1>2, <1>3, <1>4, <1>5, <1>6, <1>7, <1>8, <1>9, <1>10 DEF Next, Call

-----------------------------------------------------------------------------
(***************************************************************************)
(* Snapshots                                                               *)
(***************************************************************************)

(* Beside the path of an operation the tree stays as the call found it,    *)
(* but for directories, and directories stay.                              *)
LEMMA MovedUnmoved ==
    ASSUME NEW t, NEW u, NEW b, NEW p, Moved(t, u, p), NEW q \in Paths, q # p,
           Unmoved(t, b, q)
    PROVE  Unmoved(u, b, q)
BY DEF Moved, Unmoved

(* What a capture adds: a snapshot of a path of the patch that is no       *)
(* directory.                                                              *)
LEMMA CaptureKnown ==
    ASSUME PatchTypes, Capture, tree[ChangedPaths(patch[entry])[part]] # Dir
    PROVE  /\ pc = "capturing" /\ entry \in DOMAIN patch
           /\ \E p \in Named(patch[entry]) :
                 /\ p = ChangedPaths(patch[entry])[part]
                 /\ p \in Paths /\ Hit(patch, p)
                 /\ \A j \in DOMAIN snaps' :
                       \/ j \in DOMAIN snaps /\ snaps'[j] = snaps[j]
                       \/ snaps'[j].path = p /\ snaps'[j].node = tree[p]
                 /\ \A q : Held(snaps, q) \/ q = p => Held(snaps', q)
           /\ \/ /\ part = 1 /\ entry' = entry /\ part' = 2
                 /\ ChangedPaths(patch[entry])[part] = patch[entry].from
              \/ /\ entry' = entry + 1 /\ part' = 1
                 /\ \A q \in Named(patch[entry]) :
                       \/ q = ChangedPaths(patch[entry])[part]
                       \/ part = 2 /\ q = patch[entry].from
           /\ UNCHANGED <<pc, mode, result, tree, patch, faults, before, fresh, base>>
<1> DEFINE f == patch[entry]
           c == ChangedPaths(f)
           n == [path |-> c[part], node |-> tree[c[part]]]
<1>1. /\ pc = "capturing" /\ snaps' = Append(snaps, n) /\ Advance(Len(c))
      /\ UNCHANGED <<pc, mode, result, tree, patch, faults, before, fresh, base>>
  BY DEF Capture, history
<1>2. entry \in DOMAIN patch /\ part \in 1 .. Len(c) /\ f \in EntryType
  BY SeqsKnown DEF Capture, PatchTypes, Counters
<1>3. /\ Len(c) \in {1, 2} /\ c[part] \in Named(f) /\ c[part] \in Paths
      /\ Len(c) = 1 => Named(f) = {c[1]}
      /\ Len(c) = 2 => c[1] = f.from /\ Named(f) = {c[1], c[2]}
  BY <1>2, EntryKnown
<1>4. Hit(patch, c[part])
  BY <1>2, <1>3 DEF Hit
<1>5. n.path = c[part] /\ n.node = tree[c[part]]
  OBVIOUS
<1>6. /\ \A j \in DOMAIN snaps' :
            (j \in DOMAIN snaps /\ snaps'[j] = snaps[j]) \/ snaps'[j] = n
      /\ \A j \in DOMAIN snaps : j \in DOMAIN snaps' /\ snaps'[j] = snaps[j]
      /\ \E j \in DOMAIN snaps' : snaps'[j] = n
  <2> HIDE DEF n, c
  <2>1. /\ Len(snaps) \in Nat /\ DOMAIN snaps = 1 .. Len(snaps)
        /\ DOMAIN snaps' = 1 .. Len(snaps) + 1
        /\ \A j \in DOMAIN snaps : snaps'[j] = snaps[j]
        /\ snaps'[Len(snaps) + 1] = n
    BY <1>1 DEF PatchTypes, PatchTypeOK
  <2>2. /\ Len(snaps) + 1 \in DOMAIN snaps'
        /\ \A j \in DOMAIN snaps' : j \in DOMAIN snaps \/ j = Len(snaps) + 1
        /\ \A j \in DOMAIN snaps : j \in DOMAIN snaps'
    BY <2>1
  <2> QED
    BY <2>1, <2>2
<1> HIDE DEF n
<1>7. \A q : Held(snaps, q) \/ q = c[part] => Held(snaps', q)
  BY <1>5, <1>6 DEF Held
<1>8. \/ part = 1 /\ Len(c) = 2 /\ entry' = entry /\ part' = 2
      \/ part = Len(c) /\ entry' = entry + 1 /\ part' = 1
  BY <1>1, <1>2, <1>3, AdvanceKnown
<1>9. \/ part = 1 /\ entry' = entry /\ part' = 2 /\ c[part] = f.from
      \/ /\ entry' = entry + 1 /\ part' = 1
         /\ \A q \in Named(f) : q = c[part] \/ (part = 2 /\ q = f.from)
  <2> HIDE DEF c, f
  <2> QED
    BY <1>3, <1>8
<1> HIDE DEF c, f
<1>10. \A j \in DOMAIN snaps' :
           \/ j \in DOMAIN snaps /\ snaps'[j] = snaps[j]
           \/ snaps'[j].path = c[part] /\ snaps'[j].node = tree[c[part]]
  BY <1>5, <1>6
<1> QED
  BY <1>1, <1>2, <1>3, <1>4, <1>7, <1>9, <1>10 DEF c, f

(* Every step keeps what the snapshots tell. *)
LEMMA SnapStep ==
    ASSUME PatchTypes, SnapInv, [Next]_vars
    PROVE  SnapInv'
<1>R. ASSUME NEW r, Return(r) PROVE SnapInv'
  BY <1>R, ReturnKnown DEF SnapInv
<1>T. tree \in [Paths -> Nodes] /\ WellFormed(tree) /\ mode \in {"apply", "rollback"}
  BY DEF PatchTypes, PatchTypeOK
<1>1. ASSUME NEW m, Begin(m) PROVE SnapInv'
  <2>1. pc' = "validating" /\ snaps' = <<>> /\ before' = tree /\ tree' = tree
    BY <1>1 DEF Begin, PatchTypes, Counters
  <2>2. DOMAIN snaps' = {}
    BY <2>1
  <2> QED
    BY <2>1, <2>2 DEF SnapInv, Unmoved
<1>2. CASE Validate
  <2>1. CASE Valid(tree, patch[entry], mode = "rollback")
    <3>1. pc = "validating" /\ UNCHANGED <<pc, tree, patch, before, fresh, snaps>>
      BY <1>2, <2>1 DEF Validate, history
    <3> QED
      BY <3>1 DEF SnapInv
  <2> QED
    BY <1>2, <1>R, <2>1 DEF Validate
<1>3. CASE Capture
  <2> DEFINE c == ChangedPaths(patch[entry])
  <2>1. CASE tree[c[part]] # Dir
    <3>1. PICK p \in Named(patch[entry]) :
              /\ p = c[part]
              /\ p \in Paths /\ Hit(patch, p)
              /\ \A j \in DOMAIN snaps' :
                    \/ j \in DOMAIN snaps /\ snaps'[j] = snaps[j]
                    \/ snaps'[j].path = p /\ snaps'[j].node = tree[p]
              /\ \A q : Held(snaps, q) \/ q = p => Held(snaps', q)
      BY <1>3, <2>1, CaptureKnown
    <3>2. /\ pc = "capturing" /\ entry \in DOMAIN patch
          /\ \/ part = 1 /\ entry' = entry /\ part' = 2 /\ c[part] = patch[entry].from
             \/ /\ entry' = entry + 1 /\ part' = 1
                /\ \A q \in Named(patch[entry]) :
                      q = c[part] \/ (part = 2 /\ q = patch[entry].from)
          /\ UNCHANGED <<pc, mode, tree, patch, before, fresh>>
      BY <1>3, <2>1, CaptureKnown
    <3>3. tree[p] # Dir
      BY <2>1, <3>1
    <3> HIDE DEF c
    <3>4. p \notin fresh => tree[p] = before[p]
      BY <3>1, <3>2, <3>3 DEF SnapInv, Unmoved
    <3>5. tree[p] # Missing => \A q \in Above[p] : tree[q] = Dir
      BY <3>1, <1>T DEF WellFormed
    <3>6. \A j \in DOMAIN snaps' :
              /\ snaps'[j].path \notin fresh => snaps'[j].node = before[snaps'[j].path]
              /\ snaps'[j].node # Missing =>
                    \A q \in Above[snaps'[j].path] : tree[q] = Dir
      BY <3>1, <3>4, <3>5 DEF SnapInv
    <3>7. /\ \A i \in 1 .. entry' - 1 : \A q \in Named(patch[i]) : Held(snaps', q)
          /\ part' = 2 => Held(snaps', patch[entry'].from)
      <4>1. /\ \A i \in 1 .. entry - 1 : \A q \in Named(patch[i]) : Held(snaps, q)
            /\ part = 2 => Held(snaps, patch[entry].from)
        BY <3>2 DEF SnapInv
      <4>2. CASE entry' = entry /\ part' = 2 /\ c[part] = patch[entry].from
        BY <3>1, <4>1, <4>2
      <4>3. CASE /\ entry' = entry + 1 /\ part' = 1
                 /\ \A q \in Named(patch[entry]) :
                       q = c[part] \/ (part = 2 /\ q = patch[entry].from)
        <5>1. \A q \in Named(patch[entry]) : Held(snaps', q)
          BY <3>1, <4>1, <4>3
        <5>2. \A i \in 1 .. entry' - 1 : i = entry \/ i \in 1 .. entry - 1
          BY <3>2, <4>3, SeqsKnown
        <5> QED
          BY <3>1, <4>1, <4>3, <5>1, <5>2
      <4> QED
        BY <3>2, <4>2, <4>3
    <3> QED
      BY <3>2, <3>6, <3>7 DEF SnapInv
  <2> QED
    BY <1>3, <1>R, <2>1 DEF Capture
<1>4. CASE NextPhase
  <2>1. /\ entry > Len(patch) /\ pc \in {"validating", "capturing"}
        /\ pc' = IF pc = "validating" /\ mode = "apply" THEN "capturing" ELSE "running"
        /\ entry' = 1 /\ part' = 1
        /\ UNCHANGED <<tree, patch, mode, snaps, before, fresh>>
    BY <1>4 DEF NextPhase, history
  <2>2. \A p \in Paths \ fresh : Unmoved(tree, before, p)
    BY <2>1 DEF SnapInv
  <2>3. mode = "apply" /\ pc' = "running" =>
            \A p \in Paths : Hit(patch, p) => Held(snaps, p)
    <3>1. SUFFICES ASSUME pc = "capturing"
                   PROVE  \A p \in Paths : Hit(patch, p) => Held(snaps, p)
      BY <2>1
    <3>2. \A i \in DOMAIN patch : i \in 1 .. entry - 1
      BY <2>1, <3>1, SeqsKnown DEF PatchTypes, Counters
    <3> QED
      BY <3>1, <3>2 DEF SnapInv, Hit
  <2>4. 1 .. entry' - 1 = {}
    BY <2>1
  <2> QED
    BY <2>1, <2>2, <2>3, <2>4 DEF SnapInv
<1>5. CASE Step
  <2>1. /\ pc \in {"running", "restoring"} /\ Working
        /\ UNCHANGED <<pc, mode, patch, snaps, fresh, before>>
    BY <1>5 DEF Step, Working, history
  <2>2. Moved(tree, tree', InHand.path) /\ Hit(patch, InHand.path)
    BY <1>5, <2>1, StepKnown, HandKnown
  <2>3. \A p \in Paths \ fresh : ~Hit(patch, p) => Unmoved(tree', before, p)
    BY <2>1, <2>2, MovedUnmoved DEF SnapInv
  <2>4. \A j \in DOMAIN snaps : snaps[j].node # Missing =>
            \A q \in Above[snaps[j].path] : tree'[q] = Dir
    BY <2>2, SeqsKnown, PatchAssumption DEF SnapInv, Moved
  <2> QED
    BY <2>1, <2>3, <2>4 DEF SnapInv
<1>6. CASE Fail
  <2>1. CASE pc # "restoring" /\ mode # "rollback"
    <3>1. /\ pc = "running" /\ pc' = "restoring" /\ Working
          /\ UNCHANGED <<mode, patch, snaps, fresh, before>>
      BY <1>6, <2>1 DEF Fail, Working
    <3>2. Moved(tree, tree', InHand.path) /\ Hit(patch, InHand.path)
      BY <1>6, <3>1, FailKnown, HandKnown
    <3>3. \A p \in Paths \ fresh : ~Hit(patch, p) => Unmoved(tree', before, p)
      BY <3>1, <3>2, MovedUnmoved DEF SnapInv
    <3>4. \A j \in DOMAIN snaps : snaps[j].node # Missing =>
              \A q \in Above[snaps[j].path] : tree'[q] = Dir
      BY <3>2, SeqsKnown, PatchAssumption DEF SnapInv, Moved
    <3> QED
      BY <3>1, <3>3, <3>4 DEF SnapInv
  <2> QED
    BY <1>6, <1>R, <2>1 DEF Fail
<1>7. CASE Finish
  BY <1>7, <1>R DEF Finish
<1>8. CASE Crash
  BY <1>8, <1>R DEF Crash
<1>9. ASSUME NEW p \in Paths, NEW v \in Texts \cup {Binary, Missing}, Edit(p, v)
      PROVE  SnapInv'
  <2>1. /\ Moved(tree, tree', p) /\ fresh' = fresh \cup {p}
        /\ UNCHANGED <<pc, mode, patch, snaps, entry, part, before>>
    BY <1>9, EditKnown DEF Edit
  <2>2. \A q \in Paths \ fresh' :
            Unmoved(tree, before, q) => Unmoved(tree', before, q)
    BY <2>1, MovedUnmoved
  <2>3. \A j \in DOMAIN snaps :
            /\ snaps[j].path \notin fresh' => snaps[j].node = before[snaps[j].path]
            /\ snaps[j].node # Missing => \A q \in Above[snaps[j].path] : tree'[q] = Dir
    BY <2>1, SeqsKnown, PatchAssumption DEF SnapInv, Moved
  <2>4. pc \in {"validating", "capturing"} =>
            \A q \in Paths \ fresh' : Unmoved(tree', before, q)
    BY <2>1, <2>2 DEF SnapInv
  <2>5. pc \in {"running", "restoring"} =>
            \A q \in Paths \ fresh' : ~Hit(patch, q) => Unmoved(tree', before, q)
    BY <2>1, <2>2 DEF SnapInv
  <2> QED
    BY <2>1, <2>3, <2>4, <2>5 DEF SnapInv
<1>10. CASE UNCHANGED vars
  BY <1>10 DEF vars, patchVars, history, SnapInv
<1> QED
  BY <1>1, <1>2, <1>3, <1>4, <1>5, <1>6, <1>7, <1>8, <1>9, <1>10 DEF Next, Call

-----------------------------------------------------------------------------
(***************************************************************************)
(* Restoring                                                               *)
(***************************************************************************)

(* Where nothing lies below the paths of the patch, an operation leaves    *)
(* all of them alone but its own.                                          *)
LEMMA LeafKept ==
    ASSUME NEW P, Leaf(P), NEW t, NEW u, NEW p \in Paths, Moved(t, u, p),
           NEW q \in Paths, q # p, Hit(P, q)
    PROVE  u[q] = t[q]
BY DEF Leaf, Moved, Hit

(* There a restore is never refused. *)
LEMMA RestorePossible ==
    ASSUME PatchTypes, SnapInv, RestoreInv, Leaf(patch), Working, pc = "restoring"
    PROVE  Possible(tree, InHand)
<1>1. entry \in DOMAIN snaps /\ InHand = RestoreOp(snaps[entry])
  BY HandKnown DEF InHand
<1>2. InHand.path = snaps[entry].path /\ tree[InHand.path] # Dir
  BY <1>1, HandKnown DEF RestoreInv
<1>3. CASE snaps[entry].node = Missing
  BY <1>1, <1>2, <1>3 DEF RestoreOp, RemoveOp, Possible
<1>4. CASE snaps[entry].node # Missing
  <2>1. \A q \in Above[InHand.path] : tree[q] = Dir
    BY <1>1, <1>2, <1>4 DEF SnapInv
  <2> QED
    BY <1>2, <2>1, NodesKnown DEF Possible, NotADirectory, IsFile, Contents
<1> QED
  BY <1>3, <1>4

(* Files that are as the call found them. *)
LEMMA UnmovedSame ==
    ASSUME NEW t, NEW b, NEW p, Unmoved(t, b, p)
    PROVE  SameFile(t, b, p)
BY NodesKnown DEF Unmoved, SameFile, IsFile, Contents

(* Files that no operation touched. *)
LEMMA MovedSame ==
    ASSUME NEW t, NEW u, NEW b, NEW p, Moved(t, u, p), NEW q \in Paths, q # p,
           SameFile(t, b, q)
    PROVE  SameFile(u, b, q)
<1>1. CASE u[q] = t[q]
  BY <1>1 DEF SameFile, IsFile
<1>2. CASE t[q] = Missing /\ u[q] = Dir
  BY <1>2, NodesKnown DEF SameFile, IsFile, Contents
<1> QED
  BY <1>1, <1>2 DEF Moved

(* Every step keeps the snapshots restorable, and a restore that ends has  *)
(* put everything back.                                                    *)
LEMMA RestoreStep ==
    ASSUME PatchTypes, SnapInv, RestoreInv, [Next]_vars
    PROVE  RestoreInv'
<1>P. patch' = patch /\ (Leaf(patch') <=> Leaf(patch))
  <2>1. patch' = patch
    BY DEF Next, Call, Begin, Validate, Capture, NextPhase, Step, Fail, Finish, Crash,
           Edit, vars, patchVars
  <2> QED
    BY <2>1
<1> SUFFICES ASSUME Leaf(patch)
             PROVE  /\ \A j \in DOMAIN snaps' : tree'[snaps'[j].path] # Dir
                    /\ pc' = "restoring" =>
                          \A j \in entry' + 1 .. Len(snaps') :
                              snaps'[j].path \notin fresh' =>
                                  tree'[snaps'[j].path] = snaps'[j].node
                    /\ FailedApplyRestored'
  BY <1>P DEF RestoreInv
<1> DEFINE Unharmed == \A j \in DOMAIN snaps' : tree'[snaps'[j].path] # Dir
           PutBack ==
               pc' = "restoring" =>
                   \A j \in entry' + 1 .. Len(snaps') :
                       snaps'[j].path \notin fresh' => tree'[snaps'[j].path] = snaps'[j].node
<1>I. /\ \A j \in DOMAIN snaps : tree[snaps[j].path] # Dir
      /\ pc = "restoring" =>
            \A j \in entry + 1 .. Len(snaps) :
                snaps[j].path \notin fresh => tree[snaps[j].path] = snaps[j].node
      /\ FailedApplyRestored
  BY DEF RestoreInv
<1>R. ASSUME NEW r, Return(r) PROVE Unharmed /\ PutBack
  BY <1>R, ReturnKnown
<1>1. ASSUME NEW m, Begin(m) PROVE Unharmed /\ PutBack /\ FailedApplyRestored'
  <2>1. pc' = "validating" /\ snaps' = <<>>
    BY <1>1 DEF Begin, PatchTypes, Counters
  <2>2. DOMAIN snaps' = {}
    BY <2>1
  <2> QED
    BY <2>1, <2>2 DEF FailedApplyRestored
<1>V. ASSUME pc \in {"validating", "capturing"}, Return("rejected"),
             UNCHANGED <<tree, before, fresh>>
      PROVE  Unharmed /\ PutBack /\ FailedApplyRestored'
  <2>1. \A p \in Paths \ fresh : SameFile(tree, before, p)
    BY <1>V, UnmovedSame DEF SnapInv
  <2>2. FailedApplyRestored'
    BY <1>V, <2>1 DEF FailedApplyRestored
  <2> QED
    BY <1>R, <1>V, <2>2
<1>2. CASE Validate
  <2>1. CASE Valid(tree, patch[entry], mode = "rollback")
    <3>1. pc' = "validating" /\ UNCHANGED <<tree, snaps>>
      BY <1>2, <2>1 DEF Validate
    <3> QED
      BY <3>1, <1>I DEF FailedApplyRestored
  <2> QED
    BY <1>2, <1>V, <2>1 DEF Validate, history
<1>3. CASE Capture
  <2> DEFINE c == ChangedPaths(patch[entry])
  <2>1. CASE tree[c[part]] # Dir
    <3>1. PICK p \in Named(patch[entry]) :
              /\ p = c[part]
              /\ \A j \in DOMAIN snaps' :
                    \/ j \in DOMAIN snaps /\ snaps'[j] = snaps[j]
                    \/ snaps'[j].path = p /\ snaps'[j].node = tree[p]
      BY <1>3, <2>1, CaptureKnown
    <3>2. pc' = "capturing" /\ tree' = tree
      BY <1>3, <2>1, CaptureKnown
    <3> QED
      BY <1>I, <2>1, <3>1, <3>2 DEF FailedApplyRestored
  <2> QED
    BY <1>3, <1>V, <2>1 DEF Capture, history
<1>4. CASE NextPhase
  <2>1. pc' \in {"capturing", "running"} /\ UNCHANGED <<tree, snaps>>
    BY <1>4 DEF NextPhase
  <2> QED
    BY <2>1, <1>I DEF FailedApplyRestored
<1>5. CASE Step
  <2>1. /\ pc \in {"running", "restoring"} /\ Working
        /\ UNCHANGED <<pc, mode, patch, snaps, fresh, before>>
    BY <1>5 DEF Step, Working, history
  <2>2. /\ Moved(tree, tree', InHand.path) /\ tree'[InHand.path] = InHand.value
        /\ GoodOp(InHand)
    BY <1>5, <2>1, StepKnown, HandKnown
  <2>3. InHand.path \in Paths /\ InHand.value # Dir
    BY <2>2, NodesKnown DEF GoodOp
  <2>4. \A j \in DOMAIN snaps : snaps[j].path # InHand.path =>
            tree'[snaps[j].path] = tree[snaps[j].path]
    BY <2>2, <2>3, LeafKept, SeqsKnown
  <2>5. \A j \in DOMAIN snaps : tree'[snaps[j].path] # Dir
    BY <1>I, <2>2, <2>3, <2>4
  <2>6. ASSUME pc = "restoring", NEW j \in entry' + 1 .. Len(snaps),
               snaps[j].path \notin fresh
        PROVE  tree'[snaps[j].path] = snaps[j].node
    <3>1. /\ entry \in DOMAIN snaps /\ entry' = entry - 1
          /\ InHand.path = snaps[entry].path /\ InHand.value = snaps[entry].node
      BY <1>5, <2>1, <2>6, HandKnown DEF Step
    <3>2. j \in DOMAIN snaps /\ (j = entry \/ j \in entry + 1 .. Len(snaps))
      BY <3>1, SeqsKnown
    <3>3. CASE snaps[j].path = InHand.path
      <4>1. snaps[j].node = before[snaps[j].path] /\ snaps[entry].node = before[snaps[j].path]
        BY <2>6, <3>1, <3>2, <3>3 DEF SnapInv
      <4> QED
        BY <2>2, <3>1, <3>3, <4>1
    <3>4. CASE snaps[j].path # InHand.path
      BY <1>I, <2>4, <2>6, <3>1, <3>2, <3>4
    <3> QED
      BY <3>3, <3>4
  <2> QED
    BY <2>1, <2>5, <2>6 DEF FailedApplyRestored
<1>6. CASE Fail
  <2>1. Working /\ UNCHANGED <<mode, fresh, before>>
    BY <1>6 DEF Fail
  <2>2. CASE pc = "restoring"
    <3>1. Possible(tree, InHand)
      BY <2>1, <2>2, RestorePossible
    <3>2. "restoring" \in faults' /\ Return("rollbackFailed")
      BY <1>6, <2>2, <3>1 DEF Fail
    <3> QED
      BY <1>R, <3>2 DEF FailedApplyRestored
  <2>3. CASE pc # "restoring" /\ mode = "rollback"
    <3>1. Return("failed") /\ mode' = "rollback"
      BY <1>6, <2>1, <2>3 DEF Fail
    <3> QED
      BY <1>R, <3>1 DEF FailedApplyRestored
  <2>4. CASE pc # "restoring" /\ mode # "rollback"
    <3>1. /\ pc' = "restoring" /\ entry' = Len(snaps) /\ snaps' = snaps
      BY <1>6, <2>4 DEF Fail
    <3>2. /\ Moved(tree, tree', InHand.path) /\ GoodOp(InHand)
          /\ tree'[InHand.path] = tree[InHand.path]
      BY <1>6, <2>1, FailKnown, HandKnown
    <3>3. \A j \in DOMAIN snaps : tree'[snaps[j].path] = tree[snaps[j].path]
      BY <3>2, LeafKept, SeqsKnown DEF GoodOp
    <3>4. entry' + 1 .. Len(snaps') = {}
      BY <3>1, SeqsKnown
    <3> QED
      BY <1>I, <3>1, <3>3, <3>4 DEF FailedApplyRestored
  <2> QED
    BY <2>2, <2>3, <2>4
<1>7. CASE Finish
  <2>1. CASE pc = "running"
    BY <1>7, <1>R, <2>1, ReturnKnown DEF Finish, FailedApplyRestored
  <2>2. CASE pc = "restoring"
    <3>1. Return("failed") /\ UNCHANGED <<tree, before, fresh>> /\ entry = 0
      BY <1>7, <2>2 DEF Finish, Working, PatchTypes, PatchTypeOK
    <3>2. \A j \in DOMAIN snaps : snaps[j].path \notin fresh =>
              tree[snaps[j].path] = before[snaps[j].path]
      BY <1>I, <2>2, <3>1, SeqsKnown DEF SnapInv
    <3>3. mode = "apply"
      BY <2>2 DEF PatchTypes, Counters
    <3>4. ASSUME NEW p \in Paths \ fresh PROVE SameFile(tree, before, p)
      <4>1. CASE Hit(patch, p)
        <5>1. PICK j \in DOMAIN snaps : snaps[j].path = p
          BY <2>2, <3>3, <4>1 DEF SnapInv, Held
        <5>2. tree[p] = before[p]
          BY <3>2, <5>1
        <5> QED
          BY <5>2 DEF SameFile
      <4>2. CASE ~Hit(patch, p)
        BY <2>2, <4>2, UnmovedSame DEF SnapInv
      <4> QED
        BY <4>1, <4>2
    <3>5. FailedApplyRestored'
      BY <3>1, <3>4 DEF FailedApplyRestored
    <3> QED
      BY <1>R, <3>1, <3>5
  <2> QED
    BY <1>7, <2>1, <2>2 DEF Finish
<1>8. CASE Crash
  BY <1>8, <1>R, ReturnKnown DEF Crash, FailedApplyRestored
<1>9. ASSUME NEW p \in Paths, NEW v \in Texts \cup {Binary, Missing}, Edit(p, v)
      PROVE  Unharmed /\ PutBack /\ FailedApplyRestored'
  <2>1. /\ Moved(tree, tree', p) /\ fresh' = fresh \cup {p} /\ tree'[p] = v
        /\ UNCHANGED <<pc, mode, result, faults, snaps, entry, before>>
    BY <1>9, EditKnown DEF Edit
  <2>2. v # Dir
    BY NodesKnown
  <2>3. \A j \in DOMAIN snaps : snaps[j].path # p =>
            tree'[snaps[j].path] = tree[snaps[j].path]
    BY <2>1, LeafKept, SeqsKnown
  <2>4. Unharmed
    BY <1>I, <2>1, <2>2, <2>3
  <2>5. PutBack
    <3> SUFFICES ASSUME pc = "restoring", NEW j \in entry + 1 .. Len(snaps),
                        snaps[j].path \notin fresh'
                 PROVE  tree'[snaps[j].path] = snaps[j].node
      BY <2>1
    <3>1. j \in DOMAIN snaps
      BY SeqsKnown DEF PatchTypes, PatchTypeOK
    <3> QED
      BY <1>I, <2>1, <2>3, <3>1
  <2>6. FailedApplyRestored'
    <3>1. \A q \in Paths \ fresh' :
              SameFile(tree, before, q) => SameFile(tree', before, q)
      BY <2>1, MovedSame
    <3> QED
      BY <1>I, <2>1, <3>1 DEF FailedApplyRestored
  <2> QED
    BY <2>4, <2>5, <2>6
<1>10. CASE UNCHANGED vars
  BY <1>I, <1>10 DEF vars, patchVars, history, FailedApplyRestored
<1> QED
  BY <1>1, <1>2, <1>3, <1>4, <1>5, <1>6, <1>7, <1>8, <1>9, <1>10 DEF Next, Call

-----------------------------------------------------------------------------
(***************************************************************************)
(* Rolling back                                                            *)
(***************************************************************************)

(* Every step keeps what is known of the tree an apply started from. *)
LEMMA BaseStep ==
    ASSUME PatchTypes, SnapInv, BaseInv, [Next]_vars
    PROVE  BaseInv'
<1> DEFINE BaseOK(t, b) ==
               b # <<>> =>
                   /\ \A i \in DOMAIN patch : Fits(b, patch[i])
                   /\ \A p \in Paths : Hit(patch, p) => b[p] # Dir
                   /\ \A p \in Paths : ~Hit(patch, p) => SameFile(t, b, p)
<1>0. BaseOK(tree, base)
  BY DEF BaseInv
<1>R. ASSUME NEW r, Return(r), patch' = patch, BaseOK(tree', base') PROVE BaseInv'
  BY <1>R, ReturnKnown DEF BaseInv
<1>1. ASSUME NEW m, Begin(m) PROVE BaseInv'
  <2>1. /\ pc' = "validating" /\ entry' = 1 /\ before' = tree
        /\ UNCHANGED <<tree, patch, base>>
    BY <1>1 DEF Begin, PatchTypes, Counters
  <2>2. 1 .. entry' - 1 = {}
    BY <2>1
  <2> QED
    BY <1>0, <2>1, <2>2 DEF BaseInv
<1>2. CASE Validate
  <2>1. CASE Valid(tree, patch[entry], mode = "rollback")
    <3>1. /\ pc = "validating" /\ entry \in 1 .. Len(patch) /\ entry' = entry + 1
          /\ UNCHANGED <<pc, mode, tree, patch, before, fresh, base>>
      BY <1>2, <2>1 DEF Validate, Advance, PatchTypes, Counters, history
    <3>2. mode = "apply" /\ fresh = {} => Fits(before, patch[entry])
      <4> SUFFICES ASSUME mode = "apply", fresh = {}
                   PROVE  Fits(before, patch[entry])
        OBVIOUS
      <4>1. tree = before /\ (mode = "rollback") = FALSE
        BY <3>1 DEF BaseInv
      <4> QED
        BY <2>1, <4>1 DEF Fits
    <3>3. \A i \in 1 .. entry' - 1 : i = entry \/ i \in 1 .. entry - 1
      BY <3>1, SeqsKnown
    <3> QED
      BY <3>1, <3>2, <3>3 DEF BaseInv
  <2> QED
    BY <1>0, <1>2, <1>R, <2>1 DEF Validate, history
<1>3. CASE Capture
  <2>1. CASE tree[ChangedPaths(patch[entry])[part]] # Dir
    <3>1. /\ pc = "capturing"
          /\ UNCHANGED <<pc, mode, tree, patch, before, fresh, base>>
      BY <1>3, <2>1, CaptureKnown
    <3> QED
      BY <3>1 DEF BaseInv
  <2> QED
    BY <1>0, <1>3, <1>R, <2>1 DEF Capture, history
<1>4. CASE NextPhase
  <2>1. /\ entry > Len(patch) /\ pc \in {"validating", "capturing"}
        /\ pc' \in {"capturing", "running"}
        /\ UNCHANGED <<tree, patch, mode, before, fresh, base>>
    BY <1>4 DEF NextPhase, history
  <2>2. pc = "validating" => \A i \in DOMAIN patch : i \in 1 .. entry - 1
    BY <2>1, SeqsKnown DEF PatchTypes, Counters
  <2> QED
    BY <2>1, <2>2 DEF BaseInv
<1>5. CASE Step
  <2>1. /\ pc \in {"running", "restoring"} /\ Working
        /\ UNCHANGED <<pc, mode, patch, fresh, before, base>>
    BY <1>5 DEF Step, Working, history
  <2>2. Moved(tree, tree', InHand.path) /\ Hit(patch, InHand.path)
    BY <1>5, <2>1, StepKnown, HandKnown
  <2>3. BaseOK(tree', base)
    BY <1>0, <2>2, MovedSame
  <2> QED
    BY <2>1, <2>3 DEF BaseInv
<1>6. CASE Fail
  <2>1. /\ pc \in {"running", "restoring"} /\ Working /\ base' \in {base, <<>>}
        /\ UNCHANGED <<mode, patch, fresh, before>>
    BY <1>6 DEF Fail, Working
  <2>2. Moved(tree, tree', InHand.path) /\ Hit(patch, InHand.path)
    BY <1>6, <2>1, FailKnown, HandKnown
  <2>3. BaseOK(tree', base')
    BY <1>0, <2>1, <2>2, MovedSame
  <2>4. CASE pc = "restoring" \/ mode = "rollback"
    BY <1>6, <1>R, <2>1, <2>3, <2>4 DEF Fail
  <2>5. CASE pc # "restoring" /\ mode # "rollback"
    <3>1. pc = "running" /\ pc' = "restoring"
      BY <1>6, <2>1, <2>5 DEF Fail
    <3> QED
      BY <2>1, <2>3, <3>1 DEF BaseInv
  <2> QED
    BY <2>4, <2>5
<1>7. CASE Finish
  <2>1. /\ \E r : Return(r)
        /\ UNCHANGED <<tree, patch, mode, before, fresh>>
        /\ \/ base' \in {base, <<>>}
           \/ pc = "running" /\ mode = "apply" /\ fresh = {} /\ base' = before
    BY <1>7 DEF Finish
  <2>2. CASE base' \in {base, <<>>}
    BY <1>0, <1>R, <2>1, <2>2
  <2>3. CASE pc = "running" /\ mode = "apply" /\ fresh = {} /\ base' = before
    <3>1. \A i \in DOMAIN patch : Fits(before, patch[i])
      BY <2>3 DEF BaseInv
    <3>2. ASSUME NEW p \in Paths, Hit(patch, p) PROVE before[p] # Dir
      <4>1. PICK j \in DOMAIN snaps : snaps[j].path = p
        BY <2>3, <3>2 DEF SnapInv, Held
      <4>2. before[p] = snaps[j].node
        BY <2>3, <4>1 DEF SnapInv
      <4> QED
        BY <4>2, SeqsKnown, NodesKnown
    <3>3. \A p \in Paths : ~Hit(patch, p) => SameFile(tree, before, p)
      BY <2>3, UnmovedSame DEF SnapInv
    <3>4. BaseOK(tree', base')
      BY <2>1, <2>3, <3>1, <3>2, <3>3
    <3> QED
      BY <1>R, <2>1, <3>4
  <2> QED
    BY <2>1, <2>2, <2>3
<1>8. CASE Crash
  BY <1>8, <1>R DEF Crash
<1>9. ASSUME NEW p \in Paths, NEW v \in Texts \cup {Binary, Missing}, Edit(p, v)
      PROVE  BaseInv'
  <2>1. fresh' # {} /\ base' = <<>>
    BY <1>9 DEF Edit
  <2> QED
    BY <2>1 DEF BaseInv
<1>10. CASE UNCHANGED vars
  BY <1>10 DEF vars, patchVars, history, BaseInv
<1> QED
  BY <1>1, <1>2, <1>3, <1>4, <1>5, <1>6, <1>7, <1>8, <1>9, <1>10 DEF Next, Call

(* The rollback of an entry that fitted a tree writes what that tree held. *)
LEMMA RollbackValue ==
    ASSUME NEW b, NEW f \in EntryType, Fits(b, f),
           f.op = "modify" => b[f.path] # Missing,
           NEW k \in 1 .. Len(RollbackOps(f))
    PROVE  RollbackOps(f)[k].value = b[RollbackOps(f)[k].path]
<1>1. f.op \in {"modify", "create", "delete", "rename"}
  BY DEF EntryType
<1>2. /\ \A p : RemoveOp(p).path = p /\ RemoveOp(p).value = Missing
      /\ \A p, v : WriteOp(p, v).path = p /\ WriteOp(p, v).value = v
  BY DEF RemoveOp, WriteOp
<1>3. /\ f.op \in {"create", "rename"} => b[f.path] = Missing
      /\ f.op = "delete" => b[f.path] # Missing
      /\ f.op = "rename" => b[f.from] # Missing
  BY DEF Fits, Valid, OperationStateOK, Exists
<1>4. LET p == IF f.op = "rename" THEN f.from ELSE f.path IN
      b[p] # Missing => b[p] = f.original
  BY DEF Fits, Valid, HashOK, ValidationPath, ReadToString
<1> HIDE DEF RemoveOp, WriteOp
<1>5. CASE f.op = "rename"
  <2>1. RollbackOps(f) = <<WriteOp(f.from, f.original), RemoveOp(f.path)>>
    BY <1>5 DEF RollbackOps
  <2>2. k \in {1, 2}
    BY <2>1
  <2> QED
    BY <1>2, <1>3, <1>4, <1>5, <2>1, <2>2
<1>6. CASE f.op = "create"
  <2>1. RollbackOps(f) = <<RemoveOp(f.path)>>
    BY <1>6 DEF RollbackOps
  <2>2. k = 1
    BY <2>1
  <2> QED
    BY <1>2, <1>3, <1>6, <2>1, <2>2
<1>7. CASE f.op \in {"delete", "modify"}
  <2>1. RollbackOps(f) = <<WriteOp(f.path, f.original)>>
    BY <1>7 DEF RollbackOps
  <2>2. k = 1
    BY <2>1
  <2> QED
    BY <1>2, <1>3, <1>4, <1>7, <2>1, <2>2
<1> QED
  BY <1>1, <1>5, <1>6, <1>7

(* Which of its paths an entry rolls back with which operation. *)
LEMMA RollbackOrder ==
    ASSUME NEW f \in EntryType, NEW k \in 1 .. Len(RollbackOps(f))
    PROVE  /\ k < Len(RollbackOps(f)) => RollbackOps(f)[k].path = f.from
           /\ k = Len(RollbackOps(f)) =>
                 \A p \in Named(f) :
                     p = RollbackOps(f)[k].path \/ (k = 2 /\ p = f.from)
<1>1. f.op \in {"modify", "create", "delete", "rename"}
  BY DEF EntryType
<1>2. /\ \A p : RemoveOp(p).path = p
      /\ \A p, v : WriteOp(p, v).path = p
  BY DEF RemoveOp, WriteOp
<1> HIDE DEF RemoveOp, WriteOp
<1>3. CASE f.op = "rename"
  <2>1. RollbackOps(f) = <<WriteOp(f.from, f.original), RemoveOp(f.path)>>
    BY <1>3 DEF RollbackOps
  <2>2. k \in {1, 2}
    BY <2>1
  <2> QED
    BY <1>2, <1>3, <2>1, <2>2 DEF Named
<1>4. CASE f.op # "rename"
  <2>1. \/ RollbackOps(f) = <<RemoveOp(f.path)>>
        \/ RollbackOps(f) = <<WriteOp(f.path, f.original)>>
    BY <1>1, <1>4 DEF RollbackOps
  <2>2. k = 1 /\ Len(RollbackOps(f)) = 1 /\ RollbackOps(f)[1].path = f.path
    BY <1>2, <2>1
  <2> QED
    BY <1>4, <2>2 DEF Named
<1> QED
  BY <1>3, <1>4

(* Every step of a rollback brings files back and moves none it has        *)
(* brought back.                                                           *)
LEMMA RollStep ==
    ASSUME PatchTypes, BaseInv, RollInv, [Next]_vars
    PROVE  RollInv'
<1> SUFFICES ASSUME base' # <<>>, ~ModifiedMissing', mode' = "rollback"
             PROVE  /\ pc' = "running" =>
                          \A p \in Paths :
                              Rolled(patch', entry', part', p) => SameFile(tree', base', p)
                    /\ pc' = "idle" /\ result' = "ok" =>
                          \A p \in Paths : SameFile(tree', base', p)
  BY DEF RollInv
<1>1. ASSUME NEW m, Begin(m) PROVE pc' = "validating"
  BY <1>1 DEF Begin
<1>2. CASE Validate
  BY <1>2, ReturnKnown DEF Validate
<1>3. CASE Capture
  BY <1>3, CaptureKnown, ReturnKnown DEF Capture
<1>4. CASE NextPhase
  <2>1. entry' = 1 /\ part' = 1 /\ pc' # "idle" /\ 1 .. entry' - 1 = {}
    BY <1>4 DEF NextPhase
  <2> QED
    BY <2>1 DEF Rolled
<1>5. CASE Step
  <2>1. /\ Working /\ UNCHANGED <<pc, mode, patch, base>>
    BY <1>5 DEF Step, history
  <2>2. CASE pc = "running"
    <3> DEFINE f == patch[entry]
               o == RollbackOps(f)
               q == InHand.path
    <3>0. OpsOn(f) = o /\ ~ModifiedMissing /\ base # <<>> /\ mode = "rollback"
      BY <2>1 DEF OpsOn, ModifiedMissing
    <3>1. /\ entry \in DOMAIN patch /\ f \in EntryType /\ part \in 1 .. Len(o)
          /\ Len(o) \in {1, 2} /\ InHand = o[part] /\ q \in Paths
      BY <2>1, <2>2, <3>0, HandKnown DEF GoodOp
    <3>2. Fits(base, f) /\ (f.op = "modify" => base[f.path] # Missing)
      BY <3>0, <3>1 DEF BaseInv, ModifiedMissing
    <3>3. InHand.value = base[q]
      BY <3>1, <3>2, RollbackValue
    <3>4. tree'[q] = InHand.value /\ Moved(tree, tree', q)
      BY <1>5, StepKnown
    <3>5. SameFile(tree', base, q)
      BY <3>3, <3>4 DEF SameFile
    <3>6. \A p \in Paths : SameFile(tree, base, p) => SameFile(tree', base, p)
      BY <3>4, <3>5, MovedSame
    <3>7. /\ part < Len(o) => q = f.from
          /\ part = Len(o) => \A p \in Named(f) : p = q \/ (part = 2 /\ p = f.from)
      BY <3>1, RollbackOrder
    <3>8. \/ part = 1 /\ Len(o) = 2 /\ entry' = entry /\ part' = 2
          \/ part = Len(o) /\ entry' = entry + 1 /\ part' = 1
      BY <1>5, <2>2, <3>0, <3>1, AdvanceKnown DEF Step
    <3> HIDE DEF o, q
    <3>9. ASSUME NEW p \in Paths, Rolled(patch, entry', part', p)
          PROVE  p = q \/ Rolled(patch, entry, part, p)
      <4>1. CASE part = 1 /\ Len(o) = 2 /\ entry' = entry /\ part' = 2
        BY <3>7, <3>9, <4>1 DEF Rolled
      <4>2. CASE part = Len(o) /\ entry' = entry + 1 /\ part' = 1
        <5>1. PICK i \in 1 .. entry' - 1 : p \in Named(patch[i])
          BY <3>9, <4>2 DEF Rolled
        <5>2. i = entry \/ i \in 1 .. entry - 1
          BY <3>1, <4>2, <5>1, SeqsKnown
        <5> QED
          BY <3>7, <4>2, <5>1, <5>2 DEF Rolled
      <4> QED
        BY <3>8, <4>1, <4>2
    <3>10. \A p \in Paths : Rolled(patch, entry, part, p) => SameFile(tree, base, p)
      BY <2>2, <3>0 DEF RollInv
    <3> QED
      BY <2>1, <2>2, <3>5, <3>6, <3>9, <3>10
  <2> QED
    BY <2>1, <2>2 DEF Working
<1>6. CASE Fail
  <2>1. mode = "rollback"
    BY <1>6 DEF Fail
  <2> QED
    BY <1>6, <2>1 DEF Fail
<1>7. CASE Finish
  <2>1. mode = "rollback" /\ UNCHANGED <<tree, patch, base>> /\ pc' = "idle"
    BY <1>7, ReturnKnown DEF Finish
  <2>2. pc = "running" /\ ~Working
    BY <1>7, <2>1 DEF Finish, PatchTypes, Counters
  <2>3. \A i \in DOMAIN patch : i \in 1 .. entry - 1
    BY <2>2, SeqsKnown DEF Working, PatchTypes, Counters
  <2>4. \A p \in Paths : Hit(patch, p) => Rolled(patch, entry, part, p)
    BY <2>3 DEF Hit, Rolled
  <2>5. ~ModifiedMissing /\ base # <<>>
    BY <2>1 DEF ModifiedMissing
  <2>6. \A p \in Paths : Hit(patch, p) => SameFile(tree, base, p)
    BY <2>1, <2>2, <2>4, <2>5 DEF RollInv
  <2>7. \A p \in Paths : ~Hit(patch, p) => SameFile(tree, base, p)
    BY <2>5 DEF BaseInv
  <2> QED
    BY <2>1, <2>6, <2>7
<1>8. CASE Crash
  BY <1>8 DEF Crash
<1>9. ASSUME NEW p \in Paths, NEW v \in Texts \cup {Binary, Missing}, Edit(p, v)
      PROVE  FALSE
  BY <1>9 DEF Edit
<1>10. CASE UNCHANGED vars
  BY <1>10 DEF vars, patchVars, history, RollInv, ModifiedMissing
<1> QED
  BY <1>1, <1>2, <1>3, <1>4, <1>5, <1>6, <1>7, <1>8, <1>9, <1>10 DEF Next, Call

-----------------------------------------------------------------------------
(***************************************************************************)
(* Results                                                                 *)
(***************************************************************************)

(* A patch that was just read from a diff. *)
LEMMA PatchInit ==
    ASSUME Init
    PROVE  PatchInv
<1>1. tree \in [Paths -> Nodes] /\ WellFormed(tree)
  BY PatchAssumption DEF Init
<1>2. patch \in Seq(EntryType)
  <2>1. PICK d \in Diffs :
            /\ \A i \in DOMAIN d : ParseOK(tree, d[i])
            /\ patch = [i \in DOMAIN d |-> FilePatch(tree, d[i])]
    BY DEF Init
  <2>2. d \in Seq(DiffType)
    BY <2>1, PatchAssumption
  <2>3. /\ Len(d) \in Nat /\ DOMAIN d = 1 .. Len(d)
        /\ \A i \in DOMAIN d : d[i] \in DiffType
    BY <2>2
  <2>4. ASSUME NEW i \in DOMAIN d PROVE FilePatch(tree, d[i]) \in EntryType
    <3>1. /\ d[i].op \in {"modify", "create", "delete", "rename"}
          /\ d[i].path \in Paths /\ d[i].from \in Paths /\ d[i].modified \in Texts
      BY <2>3, <2>4 DEF DiffType
    <3>2. d[i].op # "create" => ReadToString(tree, SourcePath(d[i])) \in Texts
      BY <2>1, <2>4, NodesKnown DEF ParseOK, Readable, ReadToString
    <3> QED
      BY <3>1, <3>2, NodesKnown DEF FilePatch, EntryType
  <2> QED
    BY <2>1, <2>3, <2>4
<1>3. /\ pc = "idle" /\ mode = "apply" /\ entry = 1 /\ part = 1 /\ snaps = <<>>
      /\ result = "none" /\ faults = {} /\ ops = 0 /\ edits = 0 /\ crashes = 0
      /\ before = tree /\ fresh = {} /\ base = <<>>
  BY DEF Init
<1>4. DOMAIN snaps = {}
  BY <1>3
<1>5. snaps \in Seq([path : Paths, node : Texts \cup {Binary, Missing}])
  BY <1>3
<1>6. 0 \in 0 .. MaxOps /\ 0 \in 0 .. MaxEdits /\ 0 \in 0 .. MaxCrashes
  BY PatchAssumption
<1>7. PatchTypes
  BY <1>1, <1>2, <1>3, <1>4, <1>5, <1>6 DEF PatchTypes, PatchTypeOK, Counters, Histories
<1> QED
  BY <1>3, <1>4, <1>7
  DEF PatchInv, SeenInv, SnapInv, RestoreInv, BaseInv, RollInv, FailedApplyRestored

(* Every step keeps the invariant. *)
LEMMA PatchStep ==
    ASSUME PatchInv, [Next]_vars
    PROVE  PatchInv'
BY TypesStep, SeenStep, SnapStep, RestoreStep, BaseStep, RollStep DEF PatchInv

(* The inductive invariant of every call, edit and kill. *)
LEMMA PatchInvariant == Spec => []PatchInv
BY PatchInit, PatchStep, PTL DEF Spec

(* An apply that fails leaves every file as it found it, edits aside, for  *)
(* every patch none of whose paths has another below it, unless a fault    *)
(* hits the restore (nerve-patch lib.rs:139-156, 224-276).                 *)
THEOREM FailedApplyIsRestored == Spec => []LeafApplyRestored
<1>1. PatchInv => LeafApplyRestored
  BY DEF PatchInv, RestoreInv, Leaf, LeafApplyRestored
<1> QED
  BY <1>1, PatchInvariant, PTL

(* A rollback that succeeds brings back the files the apply found, however *)
(* often the patch names a path, and the tree is one at every step         *)
(* (nerve-patch lib.rs:164-176, 430-441).                                  *)
THEOREM RollbackUndoesApply == Spec => []RoundTrip
<1>1. PatchInv => RoundTrip
  BY DEF PatchInv, PatchTypes, RollInv, RoundTrip, RolledBack
<1> QED
  BY <1>1, PatchInvariant, PTL

(* No call destroys content the patch has never seen, files edited during  *)
(* the call aside (nerve-patch lib.rs:132-137, 357-379).                   *)
THEOREM UnseenContentIsKept == Spec => UserContentKept
<1> DEFINE Kept ==
        Call => \A p \in Paths \ fresh :
            IsFile(tree, p) /\ tree'[p] # tree[p] =>
                tree[p] = Empty \/ Knows(p, tree[p])
<1>1. ASSUME PatchInv, [Next]_vars PROVE [Kept]_vars
  <2> SUFFICES ASSUME Call, NEW p \in Paths \ fresh, IsFile(tree, p), tree'[p] # tree[p]
               PROVE  tree[p] = Empty \/ Knows(p, tree[p])
    OBVIOUS
  <2>0. PatchTypes /\ SeenInv
    BY <1>1 DEF PatchInv
  <2>1. tree[p] \in Contents
    BY DEF IsFile, Contents
  <2>2. ASSUME NEW q, Moved(tree, tree', q), tree'[q] = tree[q] PROVE FALSE
    BY <2>1, <2>2, NodesKnown DEF Moved
  <2>3. ~Fail
    BY <2>0, <2>2, FailKnown
  <2>4. Step
    BY <2>3 DEF Call, Validate, Capture, NextPhase, Finish
  <2>5. pc \in {"running", "restoring"} /\ Working
    BY <2>4 DEF Step, Working
  <2>6. p = InHand.path
    BY <2>0, <2>1, <2>4, StepKnown, NodesKnown DEF Moved
  <2>7. Seen(patch, p, tree[p])
    BY <2>0, <2>5, <2>6, HandKnown DEF SeenInv
  <2> QED
    BY <2>1, <2>7 DEF Seen, KnownTo, Knows
<1> HIDE DEF Kept
<1>2. Spec => [][Kept]_vars
  BY <1>1, PatchInvariant, PTL DEF Spec
<1> QED
  BY <1>2 DEF Kept, UserContentKept
=============================================================================
