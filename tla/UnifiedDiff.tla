----------------------------- MODULE UnifiedDiff -----------------------------
(***************************************************************************)
(* The unified diffs an agent answers with, and NvPatch::from_unified_diff *)
(* that turns one into file patches (nerve-patch/lib.rs).  Edit scripts    *)
(* for a few files are written down as diff lines, the lines are possibly  *)
(* damaged on the way, and the parser and apply_hunks read them back.      *)
(* A line of a file is a word with or without its newline; a diff line is  *)
(* a mark and a word, so that a removed line `-- f` looks exactly like the *)
(* file header `--- f`, as it does in the text.                            *)
(***************************************************************************)
EXTENDS ApplyHunks, SequencesExt, FiniteSets, FiniteSetsExt

CONSTANTS
    Files,         \* paths that may be changed
    Renamed,       \* the path a rename moves a file to
    Null,          \* /dev/null
    LineTexts,     \* contents of a line, tuples; <<"--", p>> reads as a header
    Contexts,      \* lines of context a writer may leave around a change
    Unterminated,  \* bound: a line without a newline is among these first edits
    MaxEdits,      \* bounds on the edits of the files, one of which holds
    MaxDamage,     \* bound: damaged diff lines
    MaxDamageable  \* bound: lines of a diff that is damaged

ASSUME DiffAssumption ==
    /\ Renamed \in [Files -> STRING \ Files]
    /\ Null \notin Files \cup {Renamed[f] : f \in Files}
    /\ Contexts \cup {Unterminated, MaxDamage, MaxDamageable} \subseteq Nat
    /\ MaxEdits \subseteq [Files -> Nat]

VARIABLES
    script,  \* what was done to each file, line by line
    op,      \* what was done to the file as a whole
    diff,    \* the lines of the diff, <<>> until it is written
    damaged  \* lines damaged so far

diffVars == <<script, op, diff, damaged>>

-----------------------------------------------------------------------------
(* The two texts of a script, and the diff another tool writes for it.     *)

LineOf(e) == [text |-> e.text, nl |-> e.nl]
Side(s, kinds) ==
    LET kept == SelectSeq(s, LAMBDA e : e.kind \in kinds)
    IN [i \in DOMAIN kept |-> LineOf(kept[i])]
Old(f) == Side(script[f], {"keep", "drop"})
New(f) == Side(script[f], {"keep", "add"})

DiffLine(mark, text) == [mark |-> mark, text |-> text]
Changed(s) == {i \in DOMAIN s : s[i].kind # "keep"}
Shown(s, context) ==
    {i \in DOMAIN s : \E j \in Changed(s) : i - j <= context /\ j - i <= context}

(* The header of the hunk over script lines a..b; an empty old range names *)
(* the line before it, as the format has it.                               *)
HunkHeader(s, a, b) ==
    LET before == Len(Side(SubSeq(s, 1, a - 1), {"keep", "drop"}))
        olds == Len(Side(SubSeq(s, a, b), {"keep", "drop"}))
        news == Len(Side(SubSeq(s, a, b), {"keep", "add"}))
    IN DiffLine("@@", <<IF olds = 0 THEN before ELSE before + 1, olds, news>>)

EditLines(e) ==
    <<DiffLine(CASE e.kind = "keep" -> " " [] e.kind = "drop" -> "-" [] e.kind = "add" -> "+", e.text)>>
        \o (IF e.nl THEN <<>> ELSE <<DiffLine("\\", <<>>)>>)

Hunks(s, context) ==
    LET shown == Shown(s, context)
        starts == SetToSortSeq({i \in shown : i - 1 \notin shown}, LAMBDA x, y : x < y)
        end(a) == Max({b \in shown : b >= a /\ a .. b \subseteq shown})
        body(a) == FlattenSeq([k \in 1 .. (end(a) - a + 1) |-> EditLines(s[a + k - 1])])
    IN FlattenSeq([k \in DOMAIN starts |->
                       <<HunkHeader(s, starts[k], end(starts[k]))>> \o body(starts[k])])

Listed == SetToSeq(Files)   \* the order of the files in a diff

NewPath(f, how) == IF how = "rename" THEN Renamed[f] ELSE f

(* FilePatch::to_unified_diff, the lines git would write around it too; it *)
(* always leaves context, an agent may leave none.                         *)
to_unified_diff(f, s, how, context) ==
    CASE how = "rename" /\ Changed(s) = {} ->
           <<DiffLine("git", <<>>), DiffLine("from", <<f>>), DiffLine("to", <<Renamed[f]>>)>>
      [] how # "rename" /\ Changed(s) = {} -> <<>>
      [] OTHER ->
           <<DiffLine("git", <<>>),
             DiffLine("-", <<"--", IF how = "create" THEN Null ELSE f>>),
             DiffLine("+", <<"++", IF how = "delete" THEN Null ELSE NewPath(f, how)>>)>>
           \o Hunks(s, context) \o <<DiffLine("blank", <<>>)>>

-----------------------------------------------------------------------------
(* The parser.                                                             *)

parse_file_header(line, mark) ==
    /\ line.mark = mark
    /\ Len(line.text) = 2
    /\ line.text[1] = mark \o mark

(* Only `--- ` starts a file: lines of a hunk were counted off before. *)
IsOldHeader(line) == parse_file_header(line, "-")

mark_previous_line_without_newline(got) ==
    [got EXCEPT ![Len(got)].line.nl = FALSE]

RECURSIVE parse_hunk_lines(_, _, _, _, _)
parse_hunk_lines(lines, i, oldLeft, newLeft, got) ==
    IF i > Len(lines) \/ (oldLeft <= 0 /\ newLeft <= 0)
    THEN IF oldLeft = 0 /\ newLeft = 0 THEN Ok([lines |-> got, next |-> i]) ELSE Err
    ELSE LET mark == lines[i].mark
             read == Append(got, [mark |-> mark, line |-> [text |-> lines[i].text, nl |-> TRUE]])
         IN CASE mark = "\\" ->
                   IF got = <<>> THEN Err
                   ELSE parse_hunk_lines(lines, i + 1, oldLeft, newLeft,
                                         mark_previous_line_without_newline(got))
              [] mark = " " -> parse_hunk_lines(lines, i + 1, oldLeft - 1, newLeft - 1, read)
              [] mark = "-" -> parse_hunk_lines(lines, i + 1, oldLeft - 1, newLeft, read)
              [] mark = "+" -> parse_hunk_lines(lines, i + 1, oldLeft, newLeft - 1, read)
              [] OTHER -> Err

(* The hunks after the two headers, up to the next file header. *)
RECURSIVE ParseHunks(_, _, _)
ParseHunks(lines, i, hunks) ==
    IF i > Len(lines) \/ (i <= Len(lines) /\ IsOldHeader(lines[i]))
    THEN Ok([hunks |-> hunks, next |-> i])
    ELSE IF lines[i].mark # "@@" THEN ParseHunks(lines, i + 1, hunks)
    ELSE LET h == lines[i].text
             body == parse_hunk_lines(lines, i + 1, h[2], h[3], <<>>)
         IN IF ~body.ok THEN Err
            ELSE ParseHunks(lines, body.value.next,
                     Append(hunks, [old_start |-> h[1], old_count |-> h[2],
                                    new_count |-> h[3], lines |-> body.value.lines]))

RECURSIVE ParseFiles(_, _, _)
ParseFiles(lines, i, files) ==
    IF i > Len(lines) THEN Ok(files)
    ELSE IF ~IsOldHeader(lines[i]) THEN ParseFiles(lines, i + 1, files)
    ELSE IF i = Len(lines) THEN Err
    ELSE IF ~parse_file_header(lines[i + 1], "+") THEN ParseFiles(lines, i + 1, files)
    ELSE LET hunks == ParseHunks(lines, i + 2, <<>>)
         IN IF ~hunks.ok THEN Err
            ELSE ParseFiles(lines, hunks.value.next,
                     IF hunks.value.hunks = <<>> THEN files
                     ELSE Append(files, [old |-> lines[i].text[2], new |-> lines[i + 1].text[2],
                                         renames |-> <<>>, hunks |-> hunks.value.hunks]))

(* A block between `diff --git` lines that has no file header: the names   *)
(* of its first `rename from` and `rename to`.                             *)
parse_rename_path(block, mark) ==
    LET named == {i \in DOMAIN block : block[i].mark = mark}
    IN IF named = {} THEN <<>> ELSE block[Min(named)].text

parse_pure_rename_diffs(lines) ==
    LET gits == {i \in DOMAIN lines : lines[i].mark = "git"}
        end(i) == Min({j - 1 : j \in {k \in gits : k > i}} \cup {Len(lines)})
        block(i) == SubSeq(lines, i, end(i))
        from(i) == parse_rename_path(block(i), "from")
        to(i) == parse_rename_path(block(i), "to")
        pure == {i \in gits : /\ \A j \in DOMAIN block(i) : ~IsOldHeader(block(i)[j])
                              /\ from(i) \o to(i) # <<>>}
        order == SetToSortSeq(pure, LAMBDA x, y : x < y)
    IN [k \in DOMAIN order |-> [old |-> Null, new |-> Null, hunks |-> <<>>,
                                renames |-> <<from(order[k]), to(order[k])>>]]

parse_file_diffs(lines) ==
    LET files == ParseFiles(lines, 1, <<>>)
    IN IF files.ok THEN Ok(files.value \o parse_pure_rename_diffs(lines)) ELSE Err

-----------------------------------------------------------------------------
(* The tree the diff is read against, and NvPatch::from_unified_diff.      *)

Operation(d) ==
    CASE d.renames # <<>> /\ <<>> \in Range(d.renames) -> Err
      [] d.renames # <<>> /\ <<>> \notin Range(d.renames) ->
           Ok([op |-> "rename", path |-> d.renames[2][1], from |-> d.renames[1][1]])
      [] d.renames = <<>> /\ d.old = Null /\ d.new = Null -> Err
      [] d.renames = <<>> /\ d.old = Null /\ d.new # Null ->
           Ok([op |-> "create", path |-> d.new, from |-> d.new])
      [] d.renames = <<>> /\ d.old # Null /\ d.new = Null ->
           Ok([op |-> "delete", path |-> d.old, from |-> d.old])
      [] d.renames = <<>> /\ d.old # Null /\ d.new # Null ->
           Ok([op |-> IF d.old = d.new THEN "modify" ELSE "rename",
               path |-> d.new, from |-> d.old])

(* A path that is not on disk is read as an empty text, and so is a file   *)
(* that was created: Old is empty for it.                                  *)
to_file_patch(d) ==
    LET what == Operation(d)
        original == IF what.value.op = "create" THEN <<>> ELSE Old(what.value.from)
        modified == IF d.hunks = <<>> THEN Ok(original) ELSE apply_hunks(original, d.hunks)
    IN IF what.ok
       THEN IF modified.ok THEN Ok([op |-> what.value.op, path |-> what.value.path,
                                    from |-> what.value.from,
                                    original |-> original, modified |-> modified.value])
            ELSE Err
       ELSE Err

from_unified_diff(lines) ==
    LET parsed == parse_file_diffs(lines)
        patches == [i \in DOMAIN parsed.value |-> to_file_patch(parsed.value[i])]
    IN IF parsed.ok
       THEN IF \A i \in DOMAIN patches : patches[i].ok
            THEN Ok([i \in DOMAIN patches |-> patches[i].value])
            ELSE Err
       ELSE Err

-----------------------------------------------------------------------------
DiffInit ==
    /\ script = [f \in Files |-> <<>>]
    /\ op = [f \in Files |-> "modify"]
    /\ diff = <<>>
    /\ damaged = 0

Edits == [kind : {"keep", "drop", "add"}, text : LineTexts, nl : BOOLEAN]
Terminated(text) == \A i \in DOMAIN text : text[i].nl

(* One more line of the edit of a file: a line can only follow a newline. *)
EditLine(f, e) ==
    /\ diff = <<>> /\ damaged = 0
    /\ e.kind # "add" => Terminated(Old(f))
    /\ e.kind # "drop" => Terminated(New(f))
    /\ ~e.nl => Len(script[f]) < Unterminated
    /\ script' = [script EXCEPT ![f] = Append(@, e)]
    /\ \E bound \in MaxEdits : \A g \in Files : Len(script'[g]) <= bound[g]
    /\ UNCHANGED <<op, diff, damaged>>

(* The agent writes the diff of what it did to every file. *)
WriteDiff(how, context) ==
    /\ diff = <<>>
    /\ \A f \in Files :
         /\ how[f] = "create" => Old(f) = <<>> /\ New(f) # <<>>
         /\ how[f] = "delete" => New(f) = <<>> /\ Old(f) # <<>>
    /\ diff' = FlattenSeq([k \in DOMAIN Listed |->
                   to_unified_diff(Listed[k], script[Listed[k]], how[Listed[k]], context)])
    /\ diff' # <<>>
    /\ op' = how
    /\ UNCHANGED <<script, damaged>>

(* A line is lost, comes twice, or a hunk says it starts elsewhere. *)
Damage(i) ==
    /\ damaged < MaxDamage /\ Len(diff) <= MaxDamageable
    /\ \/ diff' = RemoveAt(diff, i)
       \/ diff' = InsertAt(diff, i, diff[i])
       \/ /\ diff[i].mark = "@@"
          /\ \E start \in {diff[i].text[1] + 1, diff[i].text[1] - 1} \cap Nat :
                diff' = [diff EXCEPT ![i].text[1] = start]
    /\ damaged' = damaged + 1
    /\ UNCHANGED <<script, op>>

DiffNext ==
    \/ \E f \in Files, e \in Edits : EditLine(f, e)
    \/ \E how \in [Files -> {"modify", "create", "delete", "rename"}], context \in Contexts :
          WriteDiff(how, context)
    \/ \E i \in DOMAIN diff : Damage(i)

DiffSpec == DiffInit /\ [][DiffNext]_diffVars

-----------------------------------------------------------------------------
(* What the writer of the diff meant for a file, and for all it changed:   *)
(* the files with hunks in their order, then those that were only renamed. *)
Meant(f) == [op |-> op[f], path |-> NewPath(f, op[f]),
             from |-> f, original |-> Old(f), modified |-> New(f)]

AllMeant(meant(_)) ==
    LET edited == SelectSeq(Listed, LAMBDA f : Changed(script[f]) # {})
        moved  == SelectSeq(Listed, LAMBDA f : Changed(script[f]) = {} /\ op[f] = "rename")
        files  == edited \o moved
    IN  [i \in DOMAIN files |-> meant(files[i])]

(* Lines of a diff that are not read as the format means them: the header  *)
(* of a hunk that only adds lines behind line n of the file, whose old     *)
(* range is empty and names the line before it; and a newline marker that  *)
(* ends its hunk.                                                          *)
BareInsertion(i) ==
    diff[i].mark = "@@" /\ diff[i].text[2] = 0 /\ diff[i].text[1] > 0
Unread(i) ==
    diff[i].mark = "\\" /\ (i = Len(diff) \/ diff[i + 1].mark \notin {" ", "-", "+"})

(***************************************************************************)
(* A diff that arrives whole is read as what its writer did: every changed *)
(* file in its turn, with its operation and both texts, and nothing else;  *)
(* the exceptions are those of MisreadExactly                              *)
(* (nerve-patch/lib.rs:118-130, 664-723, 936-975).                         *)
(***************************************************************************)
DiffMeansItsTarget ==
    /\ diff # <<>> /\ damaged = 0
    /\ \A i \in DOMAIN diff : ~BareInsertion(i) /\ ~Unread(i)
    => from_unified_diff(diff) = Ok(AllMeant(Meant))

(* A script with every run of added lines that touches no removed line one *)
(* line earlier.                                                           *)
Early(s) ==
    LET run(i) == {j \in i + 1 .. Len(s) : \A k \in i + 1 .. j : s[k].kind = "add"}
        bare(i) == /\ s[i].kind = "keep" /\ run(i) # {}
                   /\ Max(run(i)) < Len(s) => s[Max(run(i)) + 1].kind = "keep"
        place(i) == IF bare(i) THEN 2 * Max(run(i)) + 1 ELSE 2 * i
        order == SetToSortSeq(DOMAIN s, LAMBDA i, j : place(i) < place(j))
    IN  [k \in DOMAIN order |-> s[order[k]]]

(* A script whose last line, if it was added, has a newline. *)
Ended(s) ==
    [i \in DOMAIN s |-> IF i = Len(s) /\ s[i].kind = "add" THEN [s[i] EXCEPT !.nl = TRUE]
                        ELSE s[i]]

(***************************************************************************)
(* What becomes of the other whole diffs.  A bare insertion, which only a  *)
(* writer that leaves no context writes: the format puts the lines behind  *)
(* the line n that such a hunk names, but the code takes n for the first   *)
(* line of the range, as in any other hunk, and puts them before line n;   *)
(* no old line is compared, so nothing is refused.  A newline marker at    *)
(* the end of a hunk: the lines of the hunk are counted off before it is   *)
(* met, so that its line is read with a newline; an old line then matches  *)
(* nothing and the diff is refused, an added one gets the newline.         *)
(* Nothing else is read differently (nerve-patch/lib.rs:867, 943).         *)
(***************************************************************************)
MisreadExactly ==
    LET bare == \E i \in DOMAIN diff : BareInsertion(i)
        unread == {i \in DOMAIN diff : Unread(i)}
        asRead(f) ==
            [Meant(f) EXCEPT !.modified =
                Side(LET s == Ended(script[f]) IN IF bare THEN Early(s) ELSE s,
                     {"keep", "add"})]
    IN  /\ diff # <<>> /\ damaged = 0
        /\ bare \/ unread # {}
        => from_unified_diff(diff) =
              IF \E i \in unread : diff[i - 1].mark # "+" THEN Err ELSE Ok(AllMeant(asRead))

(***************************************************************************)
(* Whatever arrives, a diff is taken only if every hunk's old lines stand  *)
(* in the file at the line it names, hunks in order and apart, and then    *)
(* the result is the file with exactly those ranges replaced.  The line is *)
(* HunkTarget, the code's: a range without old lines is placed a line      *)
(* before the one the format means (nerve-patch/lib.rs:936-1020).          *)
(***************************************************************************)
AcceptedHunksFit ==
    LET parsed == parse_file_diffs(diff)
    IN diff # <<>> /\ from_unified_diff(diff).ok =>
        \A i \in DOMAIN parsed.value :
            LET d == parsed.value[i]
                p == to_file_patch(d).value
            IN  /\ HunksFit(p.original, d.hunks)
                /\ p.modified = Spliced(p.original, d.hunks)

(* A whole diff is read as what was done, but for bare insertions, which   *)
(* end up one line early, and for a last line without a newline; a damaged *)
(* one is either refused or changes exactly the lines it names             *)
(* (nerve-patch/lib.rs:118-130, 663-1020).                                 *)
DiffReadExactly ==
    /\ DiffMeansItsTarget
    /\ MisreadExactly
    /\ AcceptedHunksFit
=============================================================================
