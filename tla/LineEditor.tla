----------------------------- MODULE LineEditor -----------------------------
(***************************************************************************)
(* The line editor of the terminal workspace (InteractiveLineEditor and    *)
(* run_interactive_terminal of nerve-cli): a line is typed, completed from *)
(* the command palette or fetched from the history, and handed on with the *)
(* terminal out of raw mode.  A line is a sequence of keys; drawing is     *)
(* left out.                                                               *)
(***************************************************************************)
EXTENDS Integers, Sequences, FiniteSets, SequencesExt

CONSTANTS
    Keys,          \* characters that can be typed
    Commands,      \* INTERACTIVE_COMMANDS: sequence of [command, args, about]
    MaxWidth,      \* bound: keys of a line
    MaxHistory     \* bound: lines handed on

ASSUME EditorAssumption ==
    /\ Commands \in Seq([command : Seq(Keys), args : BOOLEAN,
                          about : SUBSET Seq(Keys)])
    /\ MaxWidth \in Nat /\ MaxHistory \in Nat

VARIABLES
    buffer, history, history_index, draft, selected_suggestion,
    terminal,      \* "raw" or "cooked"
    reading,       \* what the loop is doing: "edit", "command" or "ended"
    typed          \* the line as last edited outside the history

editorVars == <<buffer, history, history_index, draft, selected_suggestion,
                terminal, reading, typed>>

NoIndex == 0   \* history_index counts from 1 here

-----------------------------------------------------------------------------
Matches(spec, needle) ==
    \/ \E i, j \in DOMAIN spec.command :
           i <= j /\ SubSeq(spec.command, i, j) = needle
    \/ needle \in spec.about

StripSlashes(query) ==
    LET lead == {n \in DOMAIN query : \A m \in 1 .. n : query[m] = "/"}
    IN  SubSeq(query, Cardinality(lead) + 1, Len(query))

(* Eight commands at most, by their place in the list: those that begin    *)
(* with the line, and if there are none those that mention it.             *)
command_suggestions(input) ==
    LET FirstNonBlank == {n \in DOMAIN input :
                             \A m \in 1 .. n : m < n <=> input[m] = " "}
        query == IF FirstNonBlank = {} THEN <<>>
                 ELSE SubSeq(input, CHOOSE n \in FirstNonBlank : TRUE, Len(input))
        needle == StripSlashes(query)
        First8(s) == {n \in s : Cardinality({m \in s : m <= n}) <= 8}
        begins == {n \in DOMAIN Commands : IsPrefix(query, Commands[n].command)}
        mentions == {n \in DOMAIN Commands : Matches(Commands[n], needle)}
    IN  IF query = <<>> THEN {}
        ELSE IF query[1] # "/" \/ " " \in ToSet(query) THEN {}
        ELSE IF begins # {} THEN First8(begins)
        ELSE IF Len(needle) < 2 THEN {}
        ELSE First8(mentions)

suggestions == command_suggestions(buffer)
has_command_suggestions == suggestions # {}

(* The suggestion that is marked. *)
Selected ==
    CHOOSE n \in suggestions :
        Cardinality({m \in suggestions : m < n}) = selected_suggestion

EditorInit ==
    /\ buffer = <<>> /\ history = <<>> /\ history_index = NoIndex
    /\ draft = <<>> /\ selected_suggestion = 0 /\ typed = <<>>
    /\ terminal = "raw" /\ reading = "edit"

Editing == reading = "edit"
LineOnly == UNCHANGED <<history, terminal, reading>>

(* A key, or backspace: the line leaves the history. *)
Edit(line) ==
    /\ buffer' = line /\ typed' = line
    /\ selected_suggestion' = 0
    /\ history_index' = NoIndex
    /\ UNCHANGED draft /\ LineOnly

Type(k) == Editing /\ Len(buffer) < MaxWidth /\ Edit(Append(buffer, k))
Backspace == Editing /\ Edit(IF buffer = <<>> THEN <<>> ELSE Front(buffer))

(* Tab and the right arrow. *)
complete_selected_suggestion ==
    LET chosen == Commands[Selected]
        line == IF chosen.args THEN Append(chosen.command, " ") ELSE chosen.command
    IN  /\ Editing
        /\ selected_suggestion < Cardinality(suggestions)
        /\ buffer' = line
        /\ typed' = IF history_index = NoIndex THEN line ELSE typed
        /\ selected_suggestion' = 0
        /\ UNCHANGED <<history_index, draft>> /\ LineOnly

(* The up and down arrows, with a palette and without one. *)
move_suggestion(delta) ==
    /\ Editing /\ has_command_suggestions
    /\ selected_suggestion' = (selected_suggestion + delta) % Cardinality(suggestions)
    /\ UNCHANGED <<buffer, history_index, draft, typed>> /\ LineOnly

NextIndex(delta) ==
    CASE history_index = NoIndex /\ delta = -1 -> Len(history)
      [] history_index = NoIndex /\ delta = 1 -> NoIndex
      [] history_index = 1 /\ delta = -1 -> 1
      [] history_index = Len(history) /\ delta = 1 -> NoIndex
      [] OTHER -> history_index + delta

(* Mutation: every step through the history overwrites the draft. *)
move_history_Redrafts(delta) ==
    /\ Editing /\ ~has_command_suggestions
    /\ history # <<>>
    /\ draft' = buffer
    /\ history_index' = NextIndex(delta)
    /\ buffer' = IF history_index' = NoIndex THEN draft' ELSE history[history_index']
    /\ selected_suggestion' = 0
    /\ UNCHANGED typed /\ LineOnly

move_history(delta) ==
    /\ Editing /\ ~has_command_suggestions
    /\ history # <<>>
    /\ draft' = IF history_index = NoIndex THEN buffer ELSE draft
    /\ history_index' = NextIndex(delta)
    /\ buffer' = IF history_index' = NoIndex THEN draft' ELSE history[history_index']
    /\ selected_suggestion' = 0
    /\ UNCHANGED typed /\ LineOnly

(* handle_escape_sequence: with a palette the arrows move in it, without   *)
(* one in the history; any other sequence is swallowed.                    *)
Arrow(delta) == move_suggestion(delta) \/ move_history(delta)

-----------------------------------------------------------------------------
trim_end(line) ==
    LET kept == {n \in DOMAIN line : \A m \in n .. Len(line) : line[m] = " "}
    IN  SubSeq(line, 1, Len(line) - Cardinality(kept))

(* Enter: the line goes to the history and to the command, and the         *)
(* terminal is given back for as long as the command runs.                 *)
Enter ==
    LET line == trim_end(buffer) IN
    /\ Editing /\ Len(history) < MaxHistory
    /\ history' = IF line = <<>> THEN history ELSE Append(history, line)
    /\ terminal' = "cooked" /\ reading' = "command"
    /\ UNCHANGED <<buffer, history_index, draft, selected_suggestion, typed>>

(* Interrupt: the line is dropped, a notice is printed and reading starts  *)
(* again.                                                                  *)
Restarted ==
    /\ buffer' = <<>> /\ typed' = <<>> /\ draft' = <<>>
    /\ history_index' = NoIndex /\ selected_suggestion' = 0

Interrupt ==
    /\ Editing
    /\ Restarted
    /\ UNCHANGED <<history, terminal, reading>>

(* The command is done: raw mode again, or the end when it was /quit or    *)
(* failed in a way that is not just printed.                               *)
CommandDone(exit) ==
    /\ reading = "command"
    /\ IF exit
       THEN reading' = "ended" /\ terminal' = "cooked"
       ELSE reading' = "edit" /\ terminal' = "raw"
    /\ Restarted
    /\ UNCHANGED history

(* The end of the input, Ctrl-D on an empty line, or a terminal that does  *)
(* not answer any more: the guard restores the terminal.                   *)
EndOfInput ==
    /\ reading # "ended"
    /\ reading' = "ended" /\ terminal' = "cooked"
    /\ UNCHANGED <<buffer, history, history_index, draft, selected_suggestion, typed>>

EditorNext ==
    \/ \E k \in Keys : Type(k)
    \/ Backspace \/ complete_selected_suggestion
    \/ \E delta \in {-1, 1} : Arrow(delta)
    \/ Enter \/ Interrupt \/ EndOfInput
    \/ \E exit \in BOOLEAN : CommandDone(exit)

-----------------------------------------------------------------------------
(* However the arrows wander through the history, the line that was being  *)
(* typed is not lost: it is in the buffer, or is the draft the history     *)
(* ends in (main.rs:2826-2850).                                            *)
TypedLineSurvives ==
    Editing => IF history_index = NoIndex THEN buffer = typed ELSE draft = typed

(* The palette always marks one of the commands it shows, whatever led to  *)
(* the line it shows them for (main.rs:2801-2824).                         *)
SelectionIsShown ==
    Editing /\ has_command_suggestions =>
        selected_suggestion \in 0 .. Cardinality(suggestions) - 1

(* A command never runs on a raw terminal, and none is left behind in raw  *)
(* mode; the editor never reads from a cooked one (main.rs:2398-2428,      *)
(* 5517-5560).                                                             *)
TerminalGivenBack == terminal = "raw" <=> reading = "edit"

(* No line is lost, no wrong command is marked and no terminal stays raw,  *)
(* whatever keys come in whatever order (main.rs:2398-2428, 2801-2850).    *)
EditorSound ==
    /\ TypedLineSurvives
    /\ SelectionIsShown
    /\ TerminalGivenBack
=============================================================================
