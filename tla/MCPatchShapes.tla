--------------------------- MODULE MCPatchShapes ----------------------------
(* Two instances of PatchApply, checked in one run. *)
EXTENDS MCPatchApply

(***************************************************************************)
(* Two instances in one run.  "leaf": text files whose directory may have  *)
(* to be made, two calls, with a fault, an edit and a kill.  "nested":     *)
(* entries for a path and one below it, binary files and directories,      *)
(* three calls that nothing disturbs, and a single text beside the empty   *)
(* one.                                                                    *)
(***************************************************************************)
VARIABLE shape

TextsOf(f) == {f.original, f.modified}
TextsUsed  == ({tree[p] : p \in Paths} \cap Texts)
              \cup UNION {TextsOf(patch[i]) : i \in DOMAIN patch}

ShapeInit ==
    /\ Init
    /\ \/ /\ shape = "leaf"
          /\ \A p \in Paths : tree[p] # Binary
          /\ tree[a] \in {Missing, Dir} /\ tree[c] # Dir /\ tree[ab] # Dir
          /\ \A i \in DOMAIN patch : a \notin {patch[i].path, patch[i].from}
       \/ /\ shape = "nested"
          /\ Cardinality(TextsUsed \ {Empty}) <= 1

ShapeNext ==
    /\ Next
    /\ UNCHANGED shape
    /\ CASE shape = "leaf"   -> ops' <= 2
         [] shape = "nested" -> faults' = {} /\ edits' = 0 /\ crashes' = 0

ShapeSpec == ShapeInit /\ [][ShapeNext]_<<vars, shape>>

=============================================================================
