----------------------------- MODULE GoalIntent -----------------------------
(***************************************************************************)
(* From prose to a goal (nerve-core goal_intent.rs and GoalSpec::validate  *)
(* of nerve-config): the JSON object is cut out of the adapter's reply,    *)
(* the proposal in it is vetted, and what remains is a goal specification. *)
(*                                                                         *)
(* A reply is a sequence of tokens, the characters and the fences the scan *)
(* tells apart.  A specification keeps how its program is named, its       *)
(* timeout, and whether its environment has an ordinary key or one of the  *)
(* forbidden ones.                                                         *)
(***************************************************************************)
EXTENDS Integers, Sequences, SequencesExt, FiniteSetsExt

CONSTANT MaxTokens   \* bound: tokens of a reply

ASSUME IntentAssumption == MaxTokens \in Nat

VARIABLE raw         \* what the adapter has answered so far

FenceTokens == {"fence", "jsonfence"}
TokenKinds == {"quote", "escape", "open", "close", "other"} \cup FenceTokens

Programs == {"none", "bare", "path"}
EnvKeys == {"ordinary", "forbidden"}
NoTimeout == -1

(* What a reply proposes; unreadable when its JSON cannot be decoded.      *)
Proposals == [readable : BOOLEAN, rationale : BOOLEAN, program : Programs,
              timeout : Int, keys : SUBSET EnvKeys,
              dir : {"none", "own", "other"}]

-----------------------------------------------------------------------------
(* The text between the first fence (a json fence if there is one) and the *)
(* next; the whole reply without such a pair.                              *)
strip_fenced_block(text) ==
    LET json == {n \in DOMAIN text : text[n] = "jsonfence"}
        any == {n \in DOMAIN text : text[n] \in FenceTokens}
        first == IF json # {} THEN Min(json) ELSE Min(any)
        ends == {n \in any : n > first}
    IN  IF any = {} THEN text
        ELSE IF ends = {} THEN text
        ELSE SubSeq(text, first + 1, Min(ends) - 1)

ScanStart == [string |-> FALSE, escaped |-> FALSE, depth |-> 0, start |-> 0,
              found |-> <<>>]

ScanToken(text, s, n) ==
    IF s.found # <<>> THEN s
    ELSE IF s.string THEN
        IF s.escaped THEN [s EXCEPT !.escaped = FALSE]
        ELSE IF text[n] = "escape" THEN [s EXCEPT !.escaped = TRUE]
        ELSE [s EXCEPT !.string = text[n] # "quote"]
    ELSE CASE text[n] = "quote" -> [s EXCEPT !.string = TRUE]
           [] text[n] = "open" ->
                  [s EXCEPT !.start = IF s.depth = 0 THEN n ELSE @,
                            !.depth = @ + 1]
           [] text[n] = "close" ->
                  [s EXCEPT !.depth = @ - 1,
                            !.found = IF s.depth = 1 /\ s.start # 0
                                      THEN SubSeq(text, s.start, n) ELSE <<>>]
           [] OTHER -> s

(* The first balanced object, <<>> if there is none. *)
extract_json_object(reply) ==
    LET text == strip_fenced_block(reply)
        scan[n \in 0 .. Len(text)] ==
            IF n = 0 THEN ScanStart ELSE ScanToken(text, scan[n - 1], n)
    IN  scan[Len(text)].found

-----------------------------------------------------------------------------
is_forbidden_goal_env_key(key) == key = "forbidden"

(* GoalSpec::validate: a program found on the path, some time to run, no   *)
(* key that makes the check run something else.                            *)
validate(spec) ==
    /\ spec.program = "bare"
    /\ spec.timeout > 0
    /\ \A key \in spec.keys : ~is_forbidden_goal_env_key(key)

(* GoalIntentConverter::convert: the specifications, at most one, that a   *)
(* proposal leads to.                                                      *)
convert(p) ==
    LET spec == [program |-> p.program, keys |-> p.keys,
                 timeout |-> IF p.timeout = NoTimeout THEN 60 ELSE p.timeout]
    IN  IF /\ p.readable /\ p.rationale
           /\ p.program # "none"
           /\ spec.timeout \in 1 .. 3600
           /\ p.dir # "other"
           /\ validate(spec)
        THEN {spec} ELSE {}

-----------------------------------------------------------------------------
IntentInit == raw = <<>>
IntentNext == /\ Len(raw) < MaxTokens
              /\ \E t \in TokenKinds : raw' = Append(raw, t)

(* Where n tokens of text end: outside strings, in one, or after an escape *)
(* in one.                                                                 *)
Toggle(q, token) ==
    IF q = "after" THEN "in"
    ELSE IF q = "in" /\ token = "escape" THEN "after"
    ELSE IF token = "quote" THEN IF q = "in" THEN "out" ELSE "in"
    ELSE q
Quoted(text, n) ==
    LET q[m \in 0 .. Len(text)] == IF m = 0 THEN "out" ELSE Toggle(q[m - 1], text[m])
    IN  q[n] # "out"
(* The braces among them that are in no string, and what an object is. *)
Braces(text, kind, n) ==
    Cardinality({m \in 1 .. n : text[m] = kind /\ ~Quoted(text, m - 1)})
IsObject(text) ==
    /\ text # <<>> /\ text[1] = "open"
    /\ \A n \in 1 .. Len(text) :
          Braces(text, "open", n) > Braces(text, "close", n) <=> n < Len(text)

(* What is cut out of a reply is one whole object, braces in strings and   *)
(* escaped quotes notwithstanding (goal_intent.rs:167-225).                *)
ExtractedIsObject ==
    LET found == extract_json_object(raw)
    IN  found # <<>> => IsObject(found)

(* An object that only words surround, fenced or not, is found: with no    *)
(* brace, quote or fence before it the scan stops at its end               *)
(* (goal_intent.rs:167-225).                                               *)
PlainObjectIsFound ==
    \A i \in DOMAIN raw : \A j \in i .. Len(raw) :
        /\ IsObject(SubSeq(raw, i, j))
        /\ \A n \in 1 .. i - 1 : raw[n] = "other"
        /\ \A n \in DOMAIN raw : raw[n] \notin FenceTokens
        => extract_json_object(raw) = SubSeq(raw, i, j)
=============================================================================
