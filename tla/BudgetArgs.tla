----------------------------- MODULE BudgetArgs -----------------------------
(***************************************************************************)
(* How /budget reads its arguments (nerve-cli main.rs, parse_budget_args,  *)
(* parse_cost_value, parse_tokens_value): words `cost=$X`, `tokens=N` and  *)
(* `--force`, the amounts as typed digits.  A cost is kept in units of     *)
(* 10^-Decimals dollars (microdollars: six), in a word of bounded size.    *)
(* No cap is the cap 0, which cannot be asked for.                         *)
(***************************************************************************)
EXTENDS Naturals, Sequences, SequencesExt

CONSTANTS
    Decimals,    \* digits of a dollar that are kept: 6
    MaxU64,      \* the largest number: 2^64 - 1
    Typed,       \* digits that are typed
    MaxArgs,     \* bound: words of a command
    MaxTyped     \* bound: digits of a command

ASSUME ArgsAssumption ==
    /\ Decimals \in Nat \ {0} /\ MaxU64 \in Nat \ {0}
    /\ Typed \subseteq 0..9 /\ MaxArgs \in Nat /\ MaxTyped \in Nat

VARIABLE args   \* the words after /budget

(* An amount: its `$`, the digits before and after the point, and whether  *)
(* something that is no digit (a sign, a second point) stands among them.  *)
Arg(kind, dollar, odd) ==
    [kind |-> kind, dollar |-> dollar, whole |-> <<>>, point |-> FALSE,
     frac |-> <<>>, odd |-> odd]
FirstArgs ==
    {Arg("cost", dollar, FALSE) : dollar \in BOOLEAN}
    \cup {Arg("cost", TRUE, TRUE)}
    \cup {Arg("tokens", FALSE, odd) : odd \in BOOLEAN}
    \cup {Arg(kind, FALSE, FALSE) : kind \in {"force", "show", "other"}}

Scale(n) ==
    LET p[k \in 0 .. n] == IF k = 0 THEN 1 ELSE 10 * p[k - 1]
    IN  p[n]
ValueOf(digits) ==
    LET v[k \in 0 .. Len(digits)] == IF k = 0 THEN 0 ELSE 10 * v[k - 1] + digits[k]
    IN  v[Len(digits)]
Padded(digits) == SubSeq(digits \o [i \in 1..Decimals |-> 0], 1, Decimals)

(* 0: the value is refused. *)
parse_cost_value(a) ==
    LET dollars == ValueOf(a.whole)
        total   == dollars * Scale(Decimals) + ValueOf(Padded(a.frac))
    IN  IF /\ a.dollar /\ ~a.odd /\ a.whole # <<>>
           /\ dollars <= MaxU64 /\ total <= MaxU64
        THEN total ELSE 0

parse_tokens_value(a) ==
    IF /\ ~a.odd /\ ~a.point /\ ~a.dollar /\ a.whole # <<>>
       /\ ValueOf(a.whole) <= MaxU64
    THEN ValueOf(a.whole) ELSE 0

(* The words from left to right; the first that is refused ends it. *)
Refusal == [what |-> "refused", cost |-> 0, tokens |-> 0, force |-> FALSE]
ReadArg(so_far, a) ==
    LET cost == parse_cost_value(a)
        tokens == parse_tokens_value(a)
    IN  CASE so_far = Refusal -> Refusal
          [] so_far # Refusal /\ a.kind = "force" ->
                [so_far EXCEPT !.force = TRUE]
          [] so_far # Refusal /\ a.kind = "cost" /\ cost > 0 ->
                [so_far EXCEPT !.cost = cost]
          [] so_far # Refusal /\ a.kind = "tokens" /\ tokens > 0 ->
                [so_far EXCEPT !.tokens = tokens]
          [] OTHER -> Refusal

parse_budget_args(words) ==
    IF Len(words) = 1 /\ words[1].kind = "show"
    THEN [Refusal EXCEPT !.what = "show"]
    ELSE LET read[k \in 0 .. Len(words)] ==
                 IF k = 0 THEN [Refusal EXCEPT !.what = "set"]
                 ELSE ReadArg(read[k - 1], words[k])
             end == read[Len(words)]
         IN  IF end.cost = 0 /\ end.tokens = 0 THEN Refusal ELSE end

-----------------------------------------------------------------------------
(* The command is typed on. *)
DigitsTyped ==
    FoldLeft(LAMBDA n, a : n + Len(a.whole) + Len(a.frac), 0, args)

TypeArg ==
    /\ Len(args) < MaxArgs
    /\ \E a \in FirstArgs : args' = Append(args, a)

TypeDigit ==
    LET at == Len(args)
    IN  /\ args # <<>> /\ args[at].kind \in {"cost", "tokens"}
        /\ DigitsTyped < MaxTyped
        /\ \E d \in Typed :
             args' = IF args[at].point
                     THEN [args EXCEPT ![at].frac = Append(@, d)]
                     ELSE [args EXCEPT ![at].whole = Append(@, d)]

TypePoint ==
    LET at == Len(args)
    IN  /\ args # <<>> /\ args[at].kind \in {"cost", "tokens"}
        /\ ~args[at].point
        /\ args' = [args EXCEPT ![at].point = TRUE]

ArgsInit == args = <<>>
ArgsNext == TypeArg \/ TypeDigit \/ TypePoint

-----------------------------------------------------------------------------
(* The amount that was typed, rounded down to the units kept. *)
MeantCap(a) ==
    LET all == ValueOf(a.whole \o a.frac)
    IN  IF a.kind = "cost" THEN (all * Scale(Decimals)) \div Scale(Len(a.frac))
        ELSE all

(* A word that says what it should: `$`, digits, a value that fits. *)
SoundArg(a) ==
    \/ a.kind = "force"
    \/ /\ a.kind \in {"cost", "tokens"}
       /\ ~a.odd /\ a.whole # <<>>
       /\ a.dollar = (a.kind = "cost")
       /\ a.point => a.kind = "cost"
       /\ MeantCap(a) \in 1..MaxU64

(* A cap is set exactly when every word is sound and at least one names a  *)
(* cap; it is the amount typed last, rounded down and never wrapped, and   *)
(* what is not named stays unset (main.rs:4379-4496).                      *)
CapsAreMeant ==
    LET read == parse_budget_args(args)
        LastOf(kind) ==
            LET at == {i \in DOMAIN args : args[i].kind = kind}
            IN  IF at = {} THEN 0
                ELSE MeantCap(args[CHOOSE i \in at : \A j \in at : j <= i])
    IN  /\ read.what = "set" <=>
            /\ \A i \in DOMAIN args : SoundArg(args[i])
            /\ \E i \in DOMAIN args : args[i].kind # "force"
        /\ read.what = "set" =>
            /\ read.cost = LastOf("cost")
            /\ read.tokens = LastOf("tokens")
            /\ read.force <=> \E i \in DOMAIN args : args[i].kind = "force"
=============================================================================
