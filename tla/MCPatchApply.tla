---------------------------- MODULE MCPatchApply ----------------------------
(* Constants of the instances of PatchApply that TLC checks. *)
EXTENDS PatchApply, FiniteSets, TLC

CONSTANTS a, ab, c   \* paths

(* A path `a/b` below the path `a`. *)
NestedPaths == {a, ab, c}
NestedAbove == [p \in NestedPaths |-> IF p = ab THEN {a} ELSE {}]

AllTrees == {t \in [Paths -> Nodes] : WellFormed(t)}

(* Trees of text files. *)
TextTrees == {t \in AllTrees : \A p \in Paths : t[p] \in Texts \cup {Missing}}

(* Texts are interchangeable, except the empty one. *)
TextSymmetry == Permutations(Texts \ {Empty})

(* Every entry: a delete leaves nothing, and only a rename has a source. *)
Entries ==
    {d \in DiffType : /\ d.op = "delete" => d.modified = Empty
                      /\ d.op # "rename" => d.from = d.path
                      /\ d.op = "rename" => d.from # d.path}

PairDiffs == {<<d>> : d \in Entries} \cup {<<d, e>> : d, e \in Entries}

(* A file is deleted, and another one renamed. *)
ReplaceDiffs ==
    {<<d, e>> : d \in {f \in Entries : f.op = "delete"},
                e \in {f \in Entries : f.op = "rename"}}

=============================================================================
