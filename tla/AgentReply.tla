----------------------------- MODULE AgentReply -----------------------------
(***************************************************************************)
(* How nerve-adapter reads the reply of a model CLI (lib.rs): a reviewer's *)
(* verdict, from the first line, the rejection words and every JSON object *)
(* of the whole output, and the tokens the reply says it used.  A reply is *)
(* abstracted to what those parsers look at; JSON objects are numbered in  *)
(* the order collect_objects visits them.                                  *)
(***************************************************************************)
EXTENDS Naturals, Sequences, FiniteSets

CONSTANTS
    Formats,      \* how the CLI prints: "text", or "events" (a JSON line each)
    MaxWords,     \* bound: rejection words in a reply
    MaxObjects,   \* bound: JSON objects in a reply
    MaxUsages,    \* bound: usage objects in a reply
    Tokens        \* token counts a usage object may give

ASSUME ReplyAssumption ==
    /\ Formats \subseteq {"text", "events"} /\ Tokens \subseteq Nat
    /\ {MaxWords, MaxObjects, MaxUsages} \subseteq Nat

VARIABLES
    reply,   \* a reviewer's output
    usages   \* the usage objects of an output, in order

Verdicts == {"lgtm", "accept_with_nits", "request_changes", "block"}
Accepting == {"lgtm", "accept_with_nits"}
NoVerdict == "none"

block_severity_rank(v) ==
    CASE v = "lgtm" -> 0
      [] v = "accept_with_nits" -> 1
      [] v = "request_changes" -> 2
      [] v = "block" -> 3
(* Mutation: the object decides, not the more severe of the two. *)
max_verdict_Object(a, b) == b

max_verdict(a, b) ==
    IF block_severity_rank(b) > block_severity_rank(a) THEN b ELSE a

(* The first line: an accepting token, and whether it stands alone; a      *)
(* rejection word; and where a word may stand.                             *)
NoLead == [token |-> NoVerdict, clean |-> FALSE]
Leads == [token : Accepting, clean : BOOLEAN] \cup {NoLead}
Words == {"request_changes", "block"} \X {"line_start", "inside"}

(* One JSON object: its verdict field (none: missing or unknown), its      *)
(* blocking issue (spelled so that only the severity is recognised, or a   *)
(* complete issue), a repeated key, text serde cannot parse, and its span: *)
(* the outermost object it is parsed with.                                 *)
JsonObjects == [verdict : Verdicts \cup {NoVerdict},
                blocking : {"no", "severity", "issue"},
                duplicate : BOOLEAN, broken : BOOLEAN, span : 1..MaxObjects]

-----------------------------------------------------------------------------
(* What the parsers see.  A CLI that prints JSON events puts the whole     *)
(* message into one string: the first line is an event, the objects of the *)
(* message are inside the string, and a word at the start of a later line  *)
(* follows the n of an escaped newline.                                    *)
Seen(r) ==
    IF r.format = "text" THEN r
    ELSE [r EXCEPT !.lead = NoLead,
                   !.words = {w \in r.words : w[2] = "inside"},
                   !.objects = <<>>]

rejection_signal(words) ==
    LET said == {w[1] : w \in words}
    IN  IF "block" \in said THEN "block"
        ELSE IF "request_changes" \in said THEN "request_changes"
        ELSE NoVerdict

leading_accept_token(lead) == IF lead.clean THEN lead.token ELSE NoVerdict

parse_verdict_token(r) ==
    IF rejection_signal(r.words) # NoVerdict THEN rejection_signal(r.words)
    ELSE leading_accept_token(r.lead)

(* all_json_objects: an object that does not parse is stepped into, so an  *)
(* object nested in it starts a span of its own; one that parses takes its *)
(* nested objects with it, and they share the span's repeated-key flag.    *)
SpanOf(objects, parent) ==
    IF parent = 0 THEN Len(objects) + 1
    ELSE IF objects[parent].broken THEN Len(objects) + 1
    ELSE objects[parent].span
all_json_objects(objects) == {i \in 1..Len(objects) : ~objects[i].broken}
json_has_duplicate_keys(objects, i) ==
    \E j \in all_json_objects(objects) :
        objects[j].duplicate /\ objects[j].span = objects[i].span

(* Mutation: a blocking issue does not override an accepting verdict. *)
structured_verdict_from_object_AsStated(o) == o.verdict

structured_verdict_from_object(o) ==
    IF o.blocking # "no" /\ o.verdict \in Accepting \cup {NoVerdict}
    THEN "block" ELSE o.verdict

ObjectVerdict(objects, i) ==
    IF json_has_duplicate_keys(objects, i) THEN "block"
    ELSE structured_verdict_from_object(objects[i])

ObjectIssues(objects, i) ==
    IF json_has_duplicate_keys(objects, i) \/ objects[i].blocking = "issue"
    THEN {"blocking"} ELSE {}

(* The most severe object, the last of several. *)
Resolved(objects) ==
    {i \in all_json_objects(objects) : ObjectVerdict(objects, i) # NoVerdict}
MostSevere(objects) ==
    CHOOSE i \in Resolved(objects) : \A j \in Resolved(objects) :
        LET ri == block_severity_rank(ObjectVerdict(objects, i))
            rj == block_severity_rank(ObjectVerdict(objects, j))
        IN  rj < ri \/ (rj = ri /\ j <= i)

honor_block_verdict(block, free) ==
    block \notin Accepting \/ free \in Accepting

severity_for_verdict(v) ==
    CASE v = "lgtm" -> {}
      [] v = "accept_with_nits" -> {"info"}
      [] v = "request_changes" -> {"warning"}
      [] v = "block" -> {"blocking"}
ensure_issues_for_verdict(v, issues) ==
    IF issues # {} THEN issues ELSE severity_for_verdict(v)

feedback_from_text(r) ==
    LET seen  == Seen(r)
        free  == parse_verdict_token(seen)
        floor == IF free = NoVerdict THEN "request_changes" ELSE free
        top   == MostSevere(seen.objects)
        block == ObjectVerdict(seen.objects, top)
    IN  IF Resolved(seen.objects) # {} /\ honor_block_verdict(block, free)
        THEN LET v == max_verdict(floor, block)
             IN  [verdict |-> v, issues |-> ensure_issues_for_verdict(v,
                                        ObjectIssues(seen.objects, top))]
        ELSE [verdict |-> floor, issues |-> severity_for_verdict(floor)]

Verdict(r) == feedback_from_text(r).verdict

-----------------------------------------------------------------------------
(* A usage object: the first of the known keys for input, output and       *)
(* total tokens, and a cost.  None when every field is zero or missing.    *)
Usages == [input : Tokens, output : Tokens,
           hasTotal : BOOLEAN, total : Tokens, cost : BOOLEAN]
parse_usage_object(u) ==
    IF u.input = 0 /\ u.output = 0
    THEN [known |-> u.hasTotal \/ u.cost,
          tokens |-> IF u.hasTotal THEN u.total ELSE 0, cost |-> u.cost]
    ELSE [known |-> TRUE, tokens |-> u.input + u.output, cost |-> u.cost]

(* usage_from_raw_text: the latest object that gives a usage counts, and   *)
(* none at all if that one is empty.                                       *)
NoUsage == [known |-> FALSE, tokens |-> 0, cost |-> FALSE]
usage_from_raw_text(us) ==
    LET given == {i \in 1..Len(us) : parse_usage_object(us[i]).known}
        last  == parse_usage_object(us[CHOOSE i \in given :
                                            \A j \in given : j <= i])
    IN  IF given = {} \/ (last.tokens = 0 /\ ~last.cost) THEN NoUsage
        ELSE last

-----------------------------------------------------------------------------
ReplyInit ==
    \E f \in Formats, l \in Leads :
        reply = [format |-> f, lead |-> l, words |-> {}, objects |-> <<>>]
UsageInit == usages = <<>>

(* The same reply with a rejection word more, or with a JSON object more,  *)
(* by itself or nested in another one.  An object that parses has only     *)
(* objects that parse inside it.                                           *)
AddWord(w) ==
    /\ Cardinality(reply.words) < MaxWords
    /\ w \notin reply.words
    /\ reply' = [reply EXCEPT !.words = @ \cup {w}]

AddObject(o, parent) ==
    /\ parent # 0 /\ o.broken => reply.objects[parent].broken
    /\ o.span = SpanOf(reply.objects, parent)
    /\ reply' = [reply EXCEPT !.objects = Append(@, o)]

AddUsage(u) ==
    /\ Len(usages) < MaxUsages
    /\ usages' = Append(usages, u)

ReplyNext ==
    \/ \E w \in Words : AddWord(w)
    \/ /\ Len(reply.objects) < MaxObjects
       /\ \E o \in JsonObjects, parent \in 0 .. Len(reply.objects) : AddObject(o, parent)
UsageNext == \E u \in Usages : AddUsage(u)

-----------------------------------------------------------------------------
(* A reply is read as an acceptance only when its first line says so with  *)
(* a token that stands alone, and nothing else in it rejects: no rejection *)
(* word, no readable object with a rejecting verdict, a blocking issue or  *)
(* a repeated key that may have hidden one, however deep it is nested.     *)
AcceptIsEarned ==
    Verdict(reply) \in Accepting =>
        /\ reply.lead.clean /\ reply.lead.token \in Accepting
        /\ reply.words = {}
        /\ \A i \in 1..Len(reply.objects) :
            \/ reply.objects[i].broken
            \/ /\ reply.objects[i].verdict \in Accepting \cup {NoVerdict}
               /\ reply.objects[i].blocking = "no"
               /\ ~reply.objects[i].duplicate

(* Whatever a reply also quotes can only make its verdict more severe:     *)
(* no object, accepting ones included, and no word lowers it (the one-way  *)
(* ratchet of feedback_from_text).                                         *)
VerdictOnlyDeepens ==
    [][block_severity_rank(Verdict(reply'))
        >= block_severity_rank(Verdict(reply))]_reply

(* A verdict that asks for changes always hands the loop an issue to pass  *)
(* on to the lead, also when its object listed none that parses.           *)
RejectionIsExplained ==
    LET f == feedback_from_text(reply)
    IN  f.verdict # "lgtm" => f.issues # {}

(* The usage charged to a run is the one the reply gave last: tokens       *)
(* reported at the end of the reply are never left out.                    *)
LastUsageCounts ==
    LET n == Len(usages)
        u == usages[n]
        named == u.hasTotal /\ u.total > 0
    IN  n > 0 /\ (u.input + u.output > 0 \/ named) =>
            usage_from_raw_text(usages).tokens =
                IF u.input + u.output > 0 THEN u.input + u.output ELSE u.total

(* Reading a reply never accepts what was not accepted, never rejects      *)
(* without a reason and never loses the tokens reported last               *)
(* (adapter lib.rs:841-915, 1549-1560).                                    *)
ReplyReadSafely ==
    /\ AcceptIsEarned
    /\ RejectionIsExplained
    /\ LastUsageCounts
=============================================================================
