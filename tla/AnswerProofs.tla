---------------------------- MODULE AnswerProofs ----------------------------
(***************************************************************************)
(* What holds of text that others wrote, whatever the text and however     *)
(* long: plans read and handed over to the patrol queue, the object in a   *)
(* reply, the arguments of /budget, the hunks of a diff, goals proposed at *)
(* the prompt, limits and configuration, reviewers' replies, the keys of   *)
(* the line editor and the paths of MCP calls.                             *)
(***************************************************************************)
EXTENDS PlanMode, Prompt, ConfigTrust, AgentReply, LineEditor, McpPolicy,
        ApplyHunks, FiniteSetTheorems, WellFoundedInduction, SequenceTheorems,
        TLAPS

(* A set of natural numbers that is not empty has a least element. *)
LEMMA LeastNumber ==
    ASSUME NEW S \in SUBSET Nat, S # {}
    PROVE  \E m \in S : \A k \in S : m <= k
<1>1. PICK m \in S : \A k \in S : ~(<<k, m>> \in OpToRel(<, Nat))
  BY NatLessThanWellFounded, WFMin DEF OpToRel
<1>2. \A k \in S : k \in Nat /\ m \in Nat
  OBVIOUS
<1>3. \A k \in S : ~(k < m)
  BY <1>1, <1>2 DEF OpToRel
<1> QED
  BY <1>2, <1>3

(* Min finds the least of some numbers. *)
LEMMA MinKnown ==
    ASSUME NEW S \in SUBSET Nat, S # {}
    PROVE  Min(S) \in S /\ \A k \in S : Min(S) <= k
BY LeastNumber DEF Min

(* Induction over the natural numbers, for a set of them. *)
LEMMA Induction ==
    ASSUME NEW S, 0 \in S, \A n \in Nat : n \in S => n + 1 \in S
    PROVE  Nat \subseteq S
<1> SUFFICES ASSUME Nat \ S # {} PROVE FALSE
  OBVIOUS
<1>1. PICK m \in Nat \ S : \A k \in Nat \ S : ~(<<k, m>> \in OpToRel(<, Nat))
  BY NatLessThanWellFounded, WFMin DEF OpToRel
<1>2. m - 1 \in Nat /\ m - 1 < m /\ (m - 1) + 1 = m
  BY SMT
<1>3. m - 1 \in S
  BY <1>1, <1>2 DEF OpToRel
<1> QED
  BY <1>2, <1>3

(* g passes over n things, each of which takes a state of D to another. *)
PassesOver(g, n, D, base, F) ==
    /\ g \in [0 .. n -> D]
    /\ \A k \in 0 .. n : g[k] = IF k = 0 THEN base ELSE F[k][g[k - 1]]

(* There is such a pass. *)
LEMMA PassExists ==
    ASSUME NEW D, NEW base \in D, NEW n \in Nat, NEW F \in [1 .. n -> [D -> D]]
    PROVE  \E g : PassesOver(g, n, D, base, F)
<1> DEFINE Good(m) == \E g \in [0 .. m -> D] : \A k \in 0 .. m :
                         g[k] = IF k = 0 THEN base ELSE F[k][g[k - 1]]
           S == {m \in Nat : m <= n => Good(m)}
<1>1. 0 \in S
  <2> DEFINE g == [k \in 0 .. 0 |-> base]
  <2>1. g \in [0 .. 0 -> D] /\ \A k \in 0 .. 0 : k = 0 /\ g[k] = base
    OBVIOUS
  <2>2. Good(0)
    BY <2>1
  <2> HIDE DEF Good
  <2> QED
    BY <2>2
<1>2. ASSUME NEW m \in Nat, m \in S PROVE m + 1 \in S
  <2> SUFFICES ASSUME m + 1 <= n PROVE Good(m + 1)
    OBVIOUS
  <2>1. PICK g \in [0 .. m -> D] : \A k \in 0 .. m :
                         g[k] = IF k = 0 THEN base ELSE F[k][g[k - 1]]
    BY <1>2
  <2> DEFINE h == [k \in 0 .. m + 1 |-> IF k = m + 1 THEN F[k][g[m]] ELSE g[k]]
  <2>2. F[m + 1][g[m]] \in D
    BY <2>1
  <2>3. h \in [0 .. m + 1 -> D]
    BY <2>2
  <2>4. h[m + 1] = F[m + 1][g[m]] /\ \A k \in 0 .. m : h[k] = g[k]
    OBVIOUS
  <2> HIDE DEF h
  <2>5. ASSUME NEW k \in 0 .. m + 1
        PROVE  h[k] = IF k = 0 THEN base ELSE F[k][h[k - 1]]
    <3>1. CASE k = m + 1
      BY <2>4, <3>1
    <3>2. CASE k \in 1 .. m
      <4>1. k - 1 \in 0 .. m /\ k \in 0 .. m /\ k # 0
        BY <3>2
      <4> QED
        BY <2>1, <2>4, <4>1
    <3>3. CASE k = 0
      BY <2>1, <2>4, <3>3
    <3> QED
      BY <3>1, <3>2, <3>3
  <2> QED
    BY <2>3, <2>5
<1>3. Good(n)
  <2> HIDE DEF S, Good
  <2>1. \A m \in Nat : m \in S => m + 1 \in S
    BY <1>2
  <2>2. Nat \subseteq S
    BY ONLY <1>1, <2>1, Induction
  <2>3. n \in S
    BY <2>2
  <2> QED
    BY <2>3 DEF S
<1> QED
  BY <1>3 DEF PassesOver

(* With each of its numbers a set has those before it: it is an interval.  *)
LEMMA DownwardClosed ==
    ASSUME NEW n \in Nat, NEW S, S \subseteq 1 .. n,
           \A k \in S : \A j \in 1 .. k : j \in S
    PROVE  S = 1 .. Cardinality(S)
<1> DEFINE gap == {k \in Nat : k \notin S /\ k # 0}
<1>1. n + 1 \in gap
  OBVIOUS
<1>2. PICK m \in gap : \A k \in gap : m <= k
  <2> HIDE DEF gap
  <2>1. gap # {}
    BY <1>1
  <2>2. gap \subseteq Nat
    BY DEF gap
  <2> QED
    BY <2>1, <2>2, LeastNumber
<1>3. m \in Nat /\ m # 0 /\ m \notin S
  OBVIOUS
<1>4. \A k \in 1 .. m - 1 : k \in S
  BY <1>2, <1>3
<1>5. \A k \in S : k \in 1 .. m - 1
  <2> TAKE k \in S
  <2>1. k \in Nat /\ k >= 1
    OBVIOUS
  <2>2. CASE k >= m
    BY <1>3, <2>1, <2>2
  <2> QED
    BY <1>3, <2>1, <2>2
<1>6. S = 1 .. m - 1
  BY <1>4, <1>5, Zenon
<1>7. Cardinality(1 .. m - 1) = m - 1
  BY <1>3, FS_Interval
<1> QED
  BY <1>6, <1>7

-----------------------------------------------------------------------------
(***************************************************************************)
(* Reading a plan                                                          *)
(***************************************************************************)
Passes == [base : Nat, steps : Seq(Seq(Nat))]
FirstPass == [base |-> 0, steps |-> <<>>]

(* The indentation of an item is a number. *)
Indented(md, body) ==
    \A k \in DOMAIN body : strip_list_marker(md[body[k]]) => md[body[k]].indent \in Nat

(* What line n does to the steps so far, which takes s to t: it opens one, *)
(* is left out, or goes to the last.                                       *)
OpensStep(md, n, s, t) ==
    /\ strip_list_marker(md[n])
    /\ s.steps = <<>> \/ md[n].indent <= s.base
    /\ t.base = IF s.steps = <<>> THEN md[n].indent ELSE s.base
    /\ t.steps = Append(s.steps, <<n>>)
LeftOut(md, n, s, t) ==
    /\ s.steps = <<>> \/ is_blank(md[n])
    /\ s.steps = <<>> => ~strip_list_marker(md[n])
    /\ t = s
GoesOn(md, n, s, t) ==
    /\ s.steps # <<>> /\ ~is_blank(md[n])
    /\ strip_list_marker(md[n]) => md[n].indent > s.base
    /\ t.base = s.base
    /\ t.steps = [s.steps EXCEPT ![Len(s.steps)] = Append(@, n)]

(* Every line does one of these. *)
LEMMA ScanLineKnown ==
    ASSUME NEW md, NEW n \in Nat, strip_list_marker(md[n]) => md[n].indent \in Nat,
           NEW s \in Passes, NEW t, t = ScanLine(md, s, n)
    PROVE  /\ t \in Passes
           /\ OpensStep(md, n, s, t) \/ LeftOut(md, n, s, t) \/ GoesOn(md, n, s, t)
<1> DEFINE Q == Seq(Nat)
<1>1. s.base \in Nat /\ s.steps \in Seq(Q)
  BY DEF Passes
<1>2. CASE strip_list_marker(md[n]) /\ (s.steps = <<>> \/ md[n].indent <= s.base)
  <2> DEFINE b == IF s.steps = <<>> THEN md[n].indent ELSE s.base
             u == Append(s.steps, <<n>>)
  <2>1. b \in Nat
    BY <1>1, <1>2
  <2>2. <<n>> \in Q
    OBVIOUS
  <2>3. u \in Seq(Q)
    <3> HIDE DEF Q
    <3> QED
      BY <1>1, <2>2
  <2>4. t = [base |-> b, steps |-> u]
    BY <1>2 DEF ScanLine
  <2> HIDE DEF b, u
  <2>5. t \in Passes /\ t.base = b /\ t.steps = u
    BY <2>1, <2>3, <2>4 DEF Passes
  <2> QED
    BY <1>2, <2>5 DEF b, u, OpensStep
<1>3. CASE /\ ~(strip_list_marker(md[n]) /\ (s.steps = <<>> \/ md[n].indent <= s.base))
           /\ s.steps = <<>> \/ is_blank(md[n])
  BY <1>3 DEF ScanLine, LeftOut
<1>4. CASE /\ ~(strip_list_marker(md[n]) /\ (s.steps = <<>> \/ md[n].indent <= s.base))
           /\ ~(s.steps = <<>> \/ is_blank(md[n]))
  <2> DEFINE last == Append(s.steps[Len(s.steps)], n)
             u == [s.steps EXCEPT ![Len(s.steps)] = last]
  <2>1. Len(s.steps) \in 1 .. Len(s.steps)
    BY <1>1, <1>4
  <2>2. s.steps[Len(s.steps)] \in Q
    <3> HIDE DEF Q
    <3> QED
      BY <1>1, <2>1
  <2>3. last \in Q
    BY <2>2
  <2>4. u \in Seq(Q)
    <3> HIDE DEF Q, last
    <3> QED
      BY <1>1, <2>1, <2>3, ExceptSeq
  <2>5. t = [s EXCEPT !.steps[Len(s.steps)] = Append(@, n)]
    BY <1>4 DEF ScanLine
  <2>6. t = [s EXCEPT !.steps = u]
    BY <2>5
  <2> HIDE DEF u
  <2>7. t \in Passes /\ t.base = s.base /\ t.steps = u
    BY <2>4, <2>6 DEF Passes
  <2> QED
    BY <1>1, <1>4, <2>7 DEF u, GoesOn
<1> QED
  BY <1>2, <1>3, <1>4

(* The steps of a body are those after its last line. *)
LEMMA ParsedByPass ==
    ASSUME NEW md, NEW body \in Seq(Nat), Indented(md, body)
    PROVE  \E scan \in [0 .. Len(body) -> Passes] :
              /\ scan[0] = FirstPass
              /\ \A k \in 1 .. Len(body) : scan[k] = ScanLine(md, scan[k - 1], body[k])
              /\ parse_plan_steps(md, body) = scan[Len(body)].steps
<1> DEFINE n == Len(body)
           F == [k \in 1 .. n |-> [s \in Passes |-> ScanLine(md, s, body[k])]]
           IsScan(g) == g = [k \in 0 .. n |-> IF k = 0 THEN [base |-> 0, steps |-> <<>>]
                                    ELSE ScanLine(md, g[k - 1], body[k])]
           f == CHOOSE g : IsScan(g)
<1>1. n \in Nat
  OBVIOUS
<1>2. FirstPass \in Passes
  <2> DEFINE Q == Seq(Nat)
  <2>1. <<>> \in Seq(Q)
    <3> HIDE DEF Q
    <3> QED
      OBVIOUS
  <2> QED
    BY <2>1 DEF FirstPass, Passes
<1>3. \A k \in 1 .. n : \A s \in Passes : ScanLine(md, s, body[k]) \in Passes
  <2> TAKE k \in 1 .. n
  <2> TAKE s \in Passes
  <2>1. body[k] \in Nat /\ (strip_list_marker(md[body[k]]) => md[body[k]].indent \in Nat)
    BY DEF Indented
  <2> QED
    BY <2>1, ScanLineKnown
<1>4. F \in [1 .. n -> [Passes -> Passes]]
  BY <1>3
<1>5. PICK g : PassesOver(g, n, Passes, FirstPass, F)
  <2> HIDE DEF F, n
  <2> QED
    BY ONLY <1>1, <1>2, <1>4, PassExists
<1>6. /\ g \in [0 .. n -> Passes]
      /\ \A k \in 0 .. n : g[k] = IF k = 0 THEN FirstPass ELSE F[k][g[k - 1]]
  BY <1>5 DEF PassesOver
<1>7. \A k \in 1 .. n : F[k][g[k - 1]] = ScanLine(md, g[k - 1], body[k])
  <2> TAKE k \in 1 .. n
  <2>1. k - 1 \in 0 .. n
    BY <1>1
  <2>2. g[k - 1] \in Passes
    BY <2>1, <1>6
  <2> QED
    BY <2>2
<1>8. \A k \in 0 .. n : g[k] = IF k = 0 THEN FirstPass ELSE ScanLine(md, g[k - 1], body[k])
  <2> HIDE DEF F, n
  <2> TAKE k \in 0 .. n
  <2>1. k = 0 \/ k \in 1 .. n
    BY <1>1
  <2> QED
    BY <1>6, <1>7, <2>1
<1>9. IsScan(g)
  BY <1>6, <1>8 DEF FirstPass
<1>10. IsScan(f)
  BY <1>9
<1>11. parse_plan_steps(md, body) = f[n].steps
  BY DEF parse_plan_steps
<1> HIDE DEF f, F, n
<1>12. \A k \in 0 .. n : f[k] = IF k = 0 THEN FirstPass ELSE ScanLine(md, f[k - 1], body[k])
  BY <1>10 DEF FirstPass
<1>13. f \in [0 .. n -> Passes]
  <2> DEFINE S == {k \in Nat : k <= n => f[k] \in Passes}
  <2>1. 0 \in S
    BY <1>1, <1>2, <1>12
  <2>2. ASSUME NEW k \in Nat, k \in S PROVE k + 1 \in S
    <3> SUFFICES ASSUME k + 1 <= n PROVE f[k + 1] \in Passes
      OBVIOUS
    <3>1. k + 1 \in 1 .. n /\ f[k] \in Passes /\ (k + 1) - 1 = k
      BY <1>1, <2>2
    <3>2. f[k + 1] = ScanLine(md, f[k], body[k + 1])
      BY <1>12, <3>1
    <3> QED
      BY <1>3, <3>1, <3>2
  <2> HIDE DEF S
  <2>3. \A k \in Nat : k \in S => k + 1 \in S
    BY <2>2
  <2>4. Nat \subseteq S
    BY ONLY <2>1, <2>3, Induction
  <2>5. \A k \in 0 .. n : f[k] \in Passes
    BY <1>1, <2>4 DEF S
  <2> QED
    BY <1>10, <2>5
<1>14. f[0] = FirstPass /\ \A k \in 1 .. n : f[k] = ScanLine(md, f[k - 1], body[k])
  BY <1>1, <1>12
<1> QED
  BY <1>11, <1>13, <1>14 DEF n

(* What the steps are after k lines of the body: the lines so far, from    *)
(* the first item on and without the blank ones, in their order, the items *)
(* in a step deeper than the first of all.                                 *)
Begun(md, body, j) == \E m \in 1 .. j : strip_list_marker(md[body[m]])
Works(md, body, j) == ~is_blank(md[body[j]]) /\ Begun(md, body, j)
Ordered(steps) ==
    \A k, l \in DOMAIN steps : \A i \in DOMAIN steps[k], j \in DOMAIN steps[l] :
        k < l \/ (k = l /\ i < j) => steps[k][i] < steps[l][j]
Inside(md, body, k, steps) ==
    \A a \in DOMAIN steps : \A i \in DOMAIN steps[a] :
        \E j \in 1 .. k : steps[a][i] = body[j] /\ Works(md, body, j)
Covered(md, body, k, steps) ==
    \A j \in 1 .. k : Works(md, body, j) =>
        \E a \in DOMAIN steps : \E i \in DOMAIN steps[a] : steps[a][i] = body[j]
Deeper(md, s) ==
    \A a \in DOMAIN s.steps : \A i \in 2 .. Len(s.steps[a]) :
        strip_list_marker(md[s.steps[a][i]]) => md[s.steps[a][i]].indent > s.base
Based(md, body, k, s) ==
    /\ s.steps = <<>> <=> ~Begun(md, body, k)
    /\ \A a \in DOMAIN s.steps : Len(s.steps[a]) > 0
    /\ s.steps # <<>> => s.base = md[s.steps[1][1]].indent
SplitSoFar(md, body, k, s) ==
    /\ Ordered(s.steps) /\ Inside(md, body, k, s.steps)
    /\ Covered(md, body, k, s.steps)
    /\ Deeper(md, s) /\ Based(md, body, k, s)

(* A section: lines of the reply, one after the other. *)
Section(md, body) ==
    /\ body \in Seq(Nat) /\ Indented(md, body)
    /\ \A i, j \in DOMAIN body : i < j => body[i] < body[j]

(* A line keeps it. *)
LEMMA LineKeepsSplit ==
    ASSUME NEW md, NEW body, Section(md, body), NEW k \in 1 .. Len(body),
           NEW s \in Passes, SplitSoFar(md, body, k - 1, s),
           NEW t \in Passes, t = ScanLine(md, s, body[k])
    PROVE  SplitSoFar(md, body, k, t)
<1> DEFINE n == body[k]
           Q == Seq(Nat)
<1>1. /\ n \in Nat /\ k \in Nat /\ k > 0
      /\ strip_list_marker(md[n]) => md[n].indent \in Nat
      /\ \A j \in 1 .. k - 1 : body[j] \in Nat /\ body[j] < n
      /\ \A j \in 1 .. k : j = k \/ j \in 1 .. k - 1
      /\ strip_list_marker(md[n]) => ~is_blank(md[n])
  BY DEF Section, Indented, strip_list_marker, is_blank
<1>2. /\ s.base \in Nat /\ s.steps \in Seq(Q) /\ t.steps \in Seq(Q)
      /\ Len(s.steps) \in Nat /\ DOMAIN s.steps = 1 .. Len(s.steps)
  BY DEF Passes
<1>3. \A a \in DOMAIN s.steps : /\ s.steps[a] \in Seq(Nat) /\ Len(s.steps[a]) \in Nat
                                /\ DOMAIN s.steps[a] = 1 .. Len(s.steps[a])
  <2> TAKE a \in DOMAIN s.steps
  <2>1. s.steps[a] \in Q
    <3> HIDE DEF Q
    <3> QED
      BY <1>2
  <2> QED
    BY <2>1
<1>4. \A a \in DOMAIN s.steps : \A i \in DOMAIN s.steps[a] :
         s.steps[a][i] \in Nat /\ s.steps[a][i] < n
  BY <1>1, <1>3 DEF SplitSoFar, Inside
<1>5. Begun(md, body, k) <=> Begun(md, body, k - 1) \/ strip_list_marker(md[n])
  BY <1>1 DEF Begun
<1> HIDE DEF n, Q
<1>6. CASE OpensStep(md, n, s, t)
  <2>0. /\ strip_list_marker(md[n])
        /\ s.steps = <<>> \/ md[n].indent <= s.base
        /\ t.base = IF s.steps = <<>> THEN md[n].indent ELSE s.base
        /\ t.steps = Append(s.steps, <<n>>)
    BY <1>6 DEF OpensStep
  <2> DEFINE z == Len(s.steps) + 1
  <2>1. /\ DOMAIN t.steps = 1 .. z /\ z \notin DOMAIN s.steps
        /\ \A a \in DOMAIN s.steps : t.steps[a] = s.steps[a] /\ a \in 1 .. z
        /\ t.steps[z] = <<n>> /\ DOMAIN t.steps[z] = 1 .. 1 /\ Len(t.steps[z]) = 1
        /\ t.steps[z][1] = n /\ z \in 1 .. z
        /\ \A a \in DOMAIN t.steps : a \in DOMAIN s.steps \/ a = z
        /\ \A a \in DOMAIN s.steps : a < z
        /\ t.steps # <<>>
    BY <1>2, <2>0
  <2>2. Works(md, body, k)
    BY <1>1, <1>5, <2>0 DEF Works, n
  <2> HIDE DEF z
  <2>3. Ordered(t.steps)
    <3> SUFFICES ASSUME NEW a \in DOMAIN t.steps, NEW b \in DOMAIN t.steps,
                        NEW i \in DOMAIN t.steps[a], NEW j \in DOMAIN t.steps[b],
                        a < b \/ (a = b /\ i < j)
                 PROVE  t.steps[a][i] < t.steps[b][j]
      BY DEF Ordered
    <3>1. a \in Nat /\ b \in Nat /\ a <= z /\ b <= z
      BY <1>2, <2>1
    <3>2. /\ a = z => i = 1
          /\ b = z => j = 1
      BY <2>1
    <3>3. a # z
      BY <2>1, <3>1, <3>2
    <3>4. CASE b = z
      BY <1>4, <2>1, <3>2, <3>3, <3>4
    <3>5. CASE b # z
      BY <2>1, <3>3, <3>5 DEF SplitSoFar, Ordered
    <3> QED
      BY <3>4, <3>5
  <2>4. Inside(md, body, k, t.steps)
    BY <1>1, <1>2, <2>1, <2>2 DEF SplitSoFar, Inside, n
  <2>5. Covered(md, body, k, t.steps)
    <3> SUFFICES ASSUME NEW j \in 1 .. k, Works(md, body, j)
                 PROVE  \E a \in DOMAIN t.steps : \E i \in DOMAIN t.steps[a] :
                           t.steps[a][i] = body[j]
      BY DEF Covered
    <3>1. CASE j = k
      BY <2>1, <3>1 DEF n
    <3>2. CASE j \in 1 .. k - 1
      <4>1. PICK a \in DOMAIN s.steps :
                    \E i \in DOMAIN s.steps[a] : s.steps[a][i] = body[j]
        BY <3>2 DEF SplitSoFar, Covered
      <4> QED
        BY <2>1, <4>1
    <3> QED
      BY <1>1, <3>1, <3>2
  <2>6. Deeper(md, t)
    <3> SUFFICES ASSUME NEW a \in DOMAIN t.steps, NEW i \in 2 .. Len(t.steps[a]),
                        strip_list_marker(md[t.steps[a][i]])
                 PROVE  md[t.steps[a][i]].indent > t.base
      BY DEF Deeper
    <3>1. a # z
      BY <2>1
    <3>2. a \in DOMAIN s.steps /\ t.steps[a] = s.steps[a] /\ s.steps # <<>>
      BY <1>2, <2>1, <3>1
    <3> QED
      BY <2>0, <3>2 DEF SplitSoFar, Deeper
  <2>7. Based(md, body, k, t)
    <3>1. ASSUME NEW a \in DOMAIN t.steps PROVE Len(t.steps[a]) > 0
      <4>1. CASE a = z
        <5>1. Len(t.steps[z]) = 1
          BY <2>1
        <5> QED
          BY ONLY <4>1, <5>1
      <4>2. CASE a # z
        BY <2>1, <4>2 DEF SplitSoFar, Based
      <4> QED
        BY <4>1, <4>2
    <3>2. Begun(md, body, k)
      BY <1>5, <2>0
    <3>3. CASE s.steps = <<>>
      <4>1. t.steps[1][1] = n
        BY <2>1, <3>3 DEF z
      <4> QED
        BY <2>0, <2>1, <3>1, <3>2, <3>3, <4>1 DEF Based
    <3>4. CASE s.steps # <<>>
      <4>1. 1 \in DOMAIN s.steps
        BY <1>2, <3>4
      <4> QED
        BY <2>0, <2>1, <3>1, <3>2, <3>4, <4>1 DEF SplitSoFar, Based
    <3> QED
      BY <3>3, <3>4
  <2> QED
    BY <2>3, <2>4, <2>5, <2>6, <2>7 DEF SplitSoFar
<1>7. CASE LeftOut(md, n, s, t)
  <2>0. /\ s.steps = <<>> \/ is_blank(md[n])
        /\ s.steps = <<>> => ~strip_list_marker(md[n])
        /\ t = s
    BY <1>7 DEF LeftOut
  <2>1. Begun(md, body, k) <=> Begun(md, body, k - 1)
    BY <1>1, <1>5, <2>0 DEF SplitSoFar, Based
  <2>2. ~Works(md, body, k)
    BY <2>0, <2>1 DEF SplitSoFar, Based, Works, n
  <2>3. Ordered(t.steps) /\ Deeper(md, t) /\ Based(md, body, k, t)
    BY <2>0, <2>1 DEF SplitSoFar, Based
  <2>4. Inside(md, body, k, t.steps)
    BY <1>1, <2>0 DEF SplitSoFar, Inside
  <2>5. Covered(md, body, k, t.steps)
    BY <1>1, <2>0, <2>2 DEF SplitSoFar, Covered
  <2> QED
    BY <2>3, <2>4, <2>5 DEF SplitSoFar
<1>8. CASE GoesOn(md, n, s, t)
  <2>0. /\ s.steps # <<>> /\ ~is_blank(md[n])
        /\ strip_list_marker(md[n]) => md[n].indent > s.base
        /\ t.base = s.base
        /\ t.steps = [s.steps EXCEPT ![Len(s.steps)] = Append(@, n)]
    BY <1>8 DEF GoesOn
  <2> DEFINE z == Len(s.steps)
             w == Len(s.steps[z])
  <2>1. z \in DOMAIN s.steps /\ z > 0 /\ z \in Nat
    BY <1>2, <2>0
  <2>2. w \in Nat /\ w > 0 /\ DOMAIN s.steps[z] = 1 .. w /\ s.steps[z] \in Seq(Nat)
    BY <1>3, <2>1 DEF SplitSoFar, Based
  <2>3. /\ DOMAIN t.steps = DOMAIN s.steps
        /\ \A a \in DOMAIN s.steps : a # z => t.steps[a] = s.steps[a]
        /\ t.steps[z] = Append(s.steps[z], n)
    BY <1>2, <2>0, <2>1
  <2>4. /\ DOMAIN t.steps[z] = 1 .. w + 1 /\ Len(t.steps[z]) = w + 1
        /\ \A i \in 1 .. w : t.steps[z][i] = s.steps[z][i]
        /\ t.steps[z][w + 1] = n
        /\ \A i \in 1 .. w + 1 : i \in 1 .. w \/ i = w + 1
    <3> HIDE DEF z
    <3> DEFINE q == s.steps[z]
               r == t.steps[z]
    <3>1. q \in Seq(Nat) /\ Len(q) = w /\ r = Append(q, n)
      BY <2>2, <2>3
    <3> HIDE DEF q, r, w
    <3>2. w \in Nat
      BY <2>2
    <3>3. /\ DOMAIN r = 1 .. w + 1 /\ Len(r) = w + 1
          /\ \A i \in 1 .. w : r[i] = q[i]
          /\ r[w + 1] = n
          /\ \A i \in 1 .. w + 1 : i \in 1 .. w \/ i = w + 1
      BY ONLY <1>1, <3>1, <3>2
    <3> QED
      BY <3>3 DEF q, r
  <2> HIDE DEF z, w
  <2>5. \A a \in DOMAIN s.steps : a <= z
    BY <1>2 DEF z
  <2>6. Works(md, body, k) /\ t.steps # <<>> /\ Begun(md, body, k)
    BY <1>5, <2>0, <2>1, <2>3 DEF SplitSoFar, Based, Works, n
  <2>7. \A a \in DOMAIN t.steps : \A i \in DOMAIN t.steps[a] :
           \/ a = z /\ i = w + 1 /\ t.steps[a][i] = n
           \/ i \in DOMAIN s.steps[a] /\ t.steps[a][i] = s.steps[a][i]
    BY <2>2, <2>3, <2>4
  <2>8. Ordered(t.steps)
    <3> SUFFICES ASSUME NEW a \in DOMAIN t.steps, NEW b \in DOMAIN t.steps,
                        NEW i \in DOMAIN t.steps[a], NEW j \in DOMAIN t.steps[b],
                        a < b \/ (a = b /\ i < j)
                 PROVE  t.steps[a][i] < t.steps[b][j]
      BY DEF Ordered
    <3>1. a \in Nat /\ b \in Nat /\ a <= z /\ b <= z
      BY <1>2, <2>3, <2>5
    <3>2. /\ a = z => i \in 1 .. w + 1
          /\ b = z => j \in 1 .. w + 1
      BY <2>4
    <3>3. ~(a = z /\ i = w + 1)
      BY <2>1, <2>2, <3>1, <3>2
    <3>4. i \in DOMAIN s.steps[a] /\ t.steps[a][i] = s.steps[a][i]
      BY <2>7, <3>3
    <3>5. CASE b = z /\ j = w + 1 /\ t.steps[b][j] = n
      BY <1>4, <2>3, <3>4, <3>5
    <3>6. CASE j \in DOMAIN s.steps[b] /\ t.steps[b][j] = s.steps[b][j]
      BY <2>3, <3>4, <3>6 DEF SplitSoFar, Ordered
    <3> QED
      BY <2>7, <3>5, <3>6
  <2>9. Inside(md, body, k, t.steps)
    BY <1>1, <2>3, <2>6, <2>7 DEF SplitSoFar, Inside, n
  <2>10. Covered(md, body, k, t.steps)
    <3> SUFFICES ASSUME NEW j \in 1 .. k, Works(md, body, j)
                 PROVE  \E a \in DOMAIN t.steps : \E i \in DOMAIN t.steps[a] :
                           t.steps[a][i] = body[j]
      BY DEF Covered
    <3>1. CASE j = k
      BY <2>1, <2>2, <2>3, <2>4, <3>1 DEF n
    <3>2. CASE j \in 1 .. k - 1
      <4>0. PICK a \in DOMAIN s.steps :
                    \E i \in DOMAIN s.steps[a] : s.steps[a][i] = body[j]
        BY <3>2 DEF SplitSoFar, Covered
      <4>1. PICK i \in DOMAIN s.steps[a] : s.steps[a][i] = body[j]
        BY <4>0
      <4>2. i \in DOMAIN t.steps[a] /\ t.steps[a][i] = s.steps[a][i]
        <5>1. CASE a = z
          BY <2>2, <2>4, <4>1, <5>1
        <5> QED
          BY <2>3, <4>1, <5>1
      <4> QED
        BY <2>3, <4>1, <4>2
    <3> QED
      BY <1>1, <3>1, <3>2
  <2>11. Deeper(md, t)
    <3> SUFFICES ASSUME NEW a \in DOMAIN t.steps, NEW i \in 2 .. Len(t.steps[a]),
                        strip_list_marker(md[t.steps[a][i]])
                 PROVE  md[t.steps[a][i]].indent > t.base
      BY DEF Deeper
    <3>1. CASE a = z /\ i = w + 1
      BY <2>0, <2>4, <3>1
    <3>2. CASE a = z /\ i # w + 1
      <4>1. i \in 2 .. w /\ i \in 1 .. w
        BY <2>2, <2>4, <3>2
      <4> QED
        BY <2>0, <2>1, <2>4, <3>2, <4>1 DEF SplitSoFar, Deeper, w
    <3>3. CASE a # z
      BY <2>0, <2>3, <3>3 DEF SplitSoFar, Deeper
    <3> QED
      BY <3>1, <3>2, <3>3
  <2>12. Based(md, body, k, t)
    <3>1. ASSUME NEW a \in DOMAIN t.steps PROVE Len(t.steps[a]) > 0
      <4>1. CASE a = z
        BY <2>2, <2>4, <4>1
      <4>2. CASE a # z
        BY <2>3, <4>2 DEF SplitSoFar, Based
      <4> QED
        BY <4>1, <4>2
    <3>2. 1 \in DOMAIN s.steps /\ t.steps[1][1] = s.steps[1][1]
      <4>1. 1 \in DOMAIN s.steps /\ 1 \in 1 .. w
        BY <1>2, <2>1, <2>2
      <4>2. CASE 1 = z
        BY <2>4, <4>1, <4>2
      <4> QED
        BY <2>3, <4>1, <4>2
    <3> QED
      BY <2>0, <2>6, <3>1, <3>2 DEF SplitSoFar, Based
  <2> QED
    BY <2>8, <2>9, <2>10, <2>11, <2>12 DEF SplitSoFar
<1>9. OpensStep(md, n, s, t) \/ LeftOut(md, n, s, t) \/ GoesOn(md, n, s, t)
  <2>1. t = ScanLine(md, s, n)
    BY DEF n
  <2>2. n \in Nat /\ (strip_list_marker(md[n]) => md[n].indent \in Nat) /\ s \in Passes
    BY <1>1
  <2> QED
    BY ONLY <2>1, <2>2, ScanLineKnown
<1> QED
  BY ONLY <1>6, <1>7, <1>8, <1>9

(* So it is when the body has been read. *)
LEMMA BodyIsSplit ==
    ASSUME NEW md, NEW body, Section(md, body)
    PROVE  \E s \in Passes : /\ SplitSoFar(md, body, Len(body), s)
                             /\ parse_plan_steps(md, body) = s.steps
<1>1. body \in Seq(Nat) /\ Indented(md, body) /\ Len(body) \in Nat
  BY DEF Section
<1>2. PICK scan \in [0 .. Len(body) -> Passes] :
              /\ scan[0] = FirstPass
              /\ \A k \in 1 .. Len(body) : scan[k] = ScanLine(md, scan[k - 1], body[k])
              /\ parse_plan_steps(md, body) = scan[Len(body)].steps
  BY <1>1, ParsedByPass
<1> DEFINE S == {k \in Nat : k <= Len(body) => SplitSoFar(md, body, k, scan[k])}
<1>3. 0 \in S
  <2>1. scan[0].steps = <<>> /\ DOMAIN scan[0].steps = {}
    BY <1>2 DEF FirstPass
  <2>2. ~Begun(md, body, 0)
    BY DEF Begun
  <2>3. SplitSoFar(md, body, 0, scan[0])
    BY <2>1, <2>2
      DEF SplitSoFar, Ordered, Inside, Covered, Deeper, Based
  <2> QED
    BY <2>3
<1>4. ASSUME NEW k \in Nat, k \in S PROVE k + 1 \in S
  <2> SUFFICES ASSUME k + 1 <= Len(body)
               PROVE  SplitSoFar(md, body, k + 1, scan[k + 1])
    OBVIOUS
  <2>1. /\ k + 1 \in 1 .. Len(body) /\ (k + 1) - 1 = k
        /\ SplitSoFar(md, body, k, scan[k])
    BY <1>1, <1>4
  <2>2. /\ scan[k] \in Passes /\ scan[k + 1] \in Passes
        /\ scan[k + 1] = ScanLine(md, scan[k], body[k + 1])
    BY <1>1, <1>2, <2>1
  <2> QED
    BY ONLY <2>1, <2>2, Section(md, body), LineKeepsSplit
<1>5. SplitSoFar(md, body, Len(body), scan[Len(body)])
  <2> HIDE DEF S
  <2>1. \A k \in Nat : k \in S => k + 1 \in S
    BY <1>4
  <2>2. Nat \subseteq S
    BY ONLY <1>3, <2>1, Induction
  <2> QED
    BY <1>1, <2>2 DEF S
<1> QED
  BY <1>1, <1>2, <1>5

(* There is at most one section under a heading, and it is one. *)
LEMMA SectionKnown ==
    ASSUME NEW md \in Seq(Lines), NEW heading
    PROVE  /\ \A body \in extract_section(md, heading) : Section(md, body)
           /\ \A b, c \in extract_section(md, heading) : b = c
<1> DEFINE At(n) == line_is_h2(md[n]) /\ md[n].label = heading
           start == {n \in DOMAIN md : At(n) /\ \A m \in 1 .. n - 1 : ~At(m)}
           Body(n) == {m \in DOMAIN md :
                         m > n /\ \A k \in n + 1 .. m : ~line_is_h2(md[k])}
           Made(n) == [k \in 1 .. Cardinality(Body(n)) |-> n + k]
<1>1. extract_section(md, heading) = {Made(n) : n \in start}
  BY DEF extract_section
<1>2. DOMAIN md = 1 .. Len(md) /\ Len(md) \in Nat
  OBVIOUS
<1>3. \A n, m \in start : n = m
  <2> SUFFICES ASSUME NEW n \in start, NEW m \in start, n < m PROVE FALSE
    BY <1>2
  <2>1. n \in 1 .. m - 1
    BY <1>2
  <2> HIDE DEF At
  <2> QED
    BY <2>1
<1>4. ASSUME NEW line \in Lines PROVE strip_list_marker(line) => line.indent \in Nat
  BY DEF Lines, Heading, Text, Blank, Artifact, Item, strip_list_marker
<1>5. ASSUME NEW n \in start PROVE Section(md, Made(n))
  <2> DEFINE c == Cardinality(Body(n))
             T == {j \in 1 .. Len(md) : n + j \in Body(n)}
  <2>1. n \in Nat /\ n > 0 /\ n <= Len(md)
    BY <1>2
  <2>2. ASSUME NEW k \in T, NEW j \in 1 .. k PROVE j \in T
    <3>1. n + j \in DOMAIN md /\ n + j > n /\ n + j <= n + k /\ j \in 1 .. Len(md)
      BY <1>2, <2>1
    <3>2. \A i \in n + 1 .. n + j : i \in n + 1 .. n + k
      BY <2>1, <3>1
    <3> QED
      BY <3>1, <3>2
  <2>3. T = 1 .. Cardinality(T)
    <3> HIDE DEF T
    <3>1. T \subseteq 1 .. Len(md)
      BY DEF T
    <3> QED
      BY <1>2, <2>2, <3>1, DownwardClosed
  <2> DEFINE t == Cardinality(T)
  <2>4. t \in Nat
    <3>1. IsFiniteSet(1 .. Len(md)) /\ T \subseteq 1 .. Len(md)
      BY <1>2, FS_Interval
    <3> HIDE DEF T
    <3> QED
      BY <3>1, FS_Subset, FS_CardinalityType
  <2>5. Body(n) = n + 1 .. n + t
    <3>1. ASSUME NEW m \in Body(n) PROVE m \in n + 1 .. n + t
      <4>1. m - n \in 1 .. Len(md) /\ n + (m - n) = m
        BY <1>2, <2>1
      <4>2. m - n \in T
        BY <4>1
      <4> HIDE DEF T, Body
      <4>3. m - n \in 1 .. t
        BY <2>3, <4>2
      <4> QED
        BY <1>2, <2>1, <2>4, <4>1, <4>3
    <3>2. ASSUME NEW m \in n + 1 .. n + t PROVE m \in Body(n)
      <4>1. m - n \in 1 .. t /\ n + (m - n) = m
        <5> HIDE DEF t
        <5> QED
          BY <2>1, <2>4
      <4>2. m - n \in T
        <5> HIDE DEF T
        <5> QED
          BY <2>3, <4>1
      <4> QED
        BY <4>1, <4>2
    <3> HIDE DEF Body, t
    <3> QED
      BY <3>1, <3>2
  <2>6. Cardinality(Body(n)) = t
    <3> HIDE DEF Body, t
    <3>1. Cardinality(n + 1 .. n + t) = t
      BY <2>1, <2>4, FS_Interval
    <3> QED
      BY <2>5, <3>1
  <2> HIDE DEF t
  <2>7. \A k \in 1 .. t : n + k \in Nat /\ n + k \in DOMAIN md
    <3> TAKE k \in 1 .. t
    <3>1. n + k \in n + 1 .. n + t
      BY <2>1, <2>4
    <3>2. n + k \in Body(n)
      BY <2>5, <3>1
    <3> QED
      BY <1>2, <3>2
  <2> DEFINE body == [k \in 1 .. t |-> n + k]
  <2>8. Made(n) = body
    <3> HIDE DEF Body
    <3> QED
      BY <2>6
  <2>9. body \in Seq(Nat) /\ DOMAIN body = 1 .. t
    BY <2>4, <2>7
  <2>10. Indented(md, body)
    BY <1>4, <2>7 DEF Indented
  <2>11. \A i, j \in DOMAIN body : i < j => body[i] < body[j]
    BY <2>1, <2>4
  <2> HIDE DEF body, Body, Made
  <2> QED
    BY <2>8, <2>9, <2>10, <2>11 DEF Section
<1> QED
  <2> HIDE DEF Made, start
  <2> QED
    BY <1>1, <1>3, <1>5

(* The steps of a reply are those of its section, and none without one. *)
LEMMA StepsOfReply ==
    ASSUME NEW md \in Seq(Lines), NEW body \in extract_section(md, "Steps")
    PROVE  /\ Section(md, body)
           /\ \E s \in Passes : /\ SplitSoFar(md, body, Len(body), s)
                                /\ parse_plan_steps_from_markdown(md) = s.steps
<1>1. Section(md, body) /\ body = CHOOSE b \in extract_section(md, "Steps") : TRUE
  BY SectionKnown
<1> QED
  BY <1>1, BodyIsSplit DEF parse_plan_steps_from_markdown

(* Their number is a number. *)
LEMMA StepsCounted ==
    ASSUME NEW md \in Seq(Lines)
    PROVE  Len(parse_plan_steps_from_markdown(md)) \in Nat
<1>1. CASE extract_section(md, "Steps") = {}
  BY <1>1 DEF parse_plan_steps_from_markdown
<1>2. ASSUME NEW body \in extract_section(md, "Steps")
      PROVE  Len(parse_plan_steps_from_markdown(md)) \in Nat
  BY StepsOfReply DEF Passes
<1> QED
  BY <1>1, <1>2

(* The steps of a reply share its section out. *)
LEMMA StepsAreTheSection ==
    ASSUME planText \in Seq(Lines) PROVE StepsPartition /\ SubItemsStayInside
<1> DEFINE all == extract_section(planText, "Steps")
           steps == parse_plan_steps_from_markdown(planText)
           lines == UNION {ToSet(b) : b \in all}
           work == {n \in lines : /\ ~is_blank(planText[n])
                        /\ \E m \in lines : m <= n /\ strip_list_marker(planText[m])}
<1>1. CASE all = {}
  <2>1. steps = <<>> /\ lines = {} /\ DOMAIN steps = {}
    BY <1>1 DEF parse_plan_steps_from_markdown
  <2> QED
    BY <2>1 DEF StepsPartition, SubItemsStayInside
<1>2. ASSUME NEW body \in all PROVE StepsPartition /\ SubItemsStayInside
  <2>1. /\ Section(planText, body)
        /\ \A b \in all : b = body
    BY SectionKnown, StepsOfReply
  <2>2. PICK s \in Passes : /\ SplitSoFar(planText, body, Len(body), s)
                            /\ steps = s.steps
    BY StepsOfReply
  <2>3. lines = ToSet(body)
    <3> HIDE DEF all
    <3> QED
      BY <2>1, Zenon
  <2>4. /\ body \in Seq(Nat) /\ Len(body) \in Nat /\ DOMAIN body = 1 .. Len(body)
        /\ \A i \in 1 .. Len(body) : body[i] \in Nat
        /\ \A i, j \in 1 .. Len(body) : i < j => body[i] < body[j]
    BY <2>1 DEF Section
  <2>5. \A n : n \in lines <=> \E i \in 1 .. Len(body) : n = body[i]
    BY <2>3, <2>4 DEF ToSet
  <2> HIDE DEF all, steps, lines
  <2>6. \A j \in 1 .. Len(body) : body[j] \in work <=> Works(planText, body, j)
    <3> TAKE j \in 1 .. Len(body)
    <3>1. ASSUME NEW m \in lines, m <= body[j]
          PROVE  \E i \in 1 .. j : body[i] = m
      <4>1. PICK i \in 1 .. Len(body) : m = body[i]
        BY <2>5
      <4>2. ~(j < i)
        BY <2>4, <3>1, <4>1
      <4> QED
        BY <2>4, <4>1, <4>2
    <3>2. ASSUME NEW i \in 1 .. j PROVE body[i] \in lines /\ body[i] <= body[j]
      <4>1. i \in 1 .. Len(body) /\ (i < j \/ i = j)
        BY <2>4
      <4> QED
        BY <2>4, <2>5, <4>1
    <3>3. body[j] \in lines
      BY <2>5
    <3> QED
      BY <3>1, <3>2, <3>3 DEF Works, Begun
  <2>7. /\ Ordered(s.steps) /\ Inside(planText, body, Len(body), s.steps)
        /\ Covered(planText, body, Len(body), s.steps)
        /\ Deeper(planText, s) /\ Based(planText, body, Len(body), s)
    BY <2>2 DEF SplitSoFar
  <2>8. UNION {ToSet(steps[k]) : k \in DOMAIN steps} = work
    <3>1. ASSUME NEW k \in DOMAIN steps, NEW n \in ToSet(steps[k]) PROVE n \in work
      <4>1. PICK i \in DOMAIN steps[k] : n = steps[k][i]
        BY DEF ToSet
      <4>2. PICK j \in 1 .. Len(body) : n = body[j] /\ Works(planText, body, j)
        BY <2>2, <2>7, <4>1 DEF Inside
      <4> HIDE DEF work
      <4> QED
        BY <2>6, <4>2
    <3>2. ASSUME NEW n \in work PROVE \E k \in DOMAIN steps : n \in ToSet(steps[k])
      <4>1. PICK j \in 1 .. Len(body) : n = body[j]
        BY <2>5
      <4> HIDE DEF work
      <4>2. Works(planText, body, j)
        BY <2>6, <4>1
      <4>3. PICK k \in DOMAIN steps : \E i \in DOMAIN steps[k] : steps[k][i] = body[j]
        BY <2>2, <2>7, <4>2 DEF Covered
      <4> QED
        BY <4>1, <4>3 DEF ToSet
    <3> HIDE DEF work
    <3> QED
      BY <3>1, <3>2, Zenon
  <2>9. StepsPartition
    BY <2>2, <2>7, <2>8 DEF StepsPartition, Ordered, steps, lines, all
  <2>10. SubItemsStayInside
    <3> SUFFICES ASSUME NEW k \in DOMAIN steps, NEW j \in 2 .. Len(steps[k]),
                        strip_list_marker(planText[steps[k][j]])
                 PROVE  planText[steps[k][j]].indent > planText[steps[1][1]].indent
      BY DEF SubItemsStayInside, steps
    <3>1. s.steps # <<>>
      BY <2>2
    <3> QED
      BY <2>2, <2>7, <3>1 DEF Deeper, Based
  <2> QED
    BY <2>9, <2>10
<1> QED
  BY <1>1, <1>2

-----------------------------------------------------------------------------
(***************************************************************************)
(* Plan dispatch                                                           *)
(***************************************************************************)
Busy(d) == dispatcher[d].pc \in Dispatching
DispatcherStates ==
    [pc : {"idle", "check", "walk", "write", "acked"},
     plan : Plans \cup {NoPlan}, n : Nat, i : Nat]

PlanTypes ==
    /\ saved \in [Plans -> Nat] /\ planText \in Seq(Lines)
    /\ dispatcher \in [Dispatchers -> DispatcherStates]

(* The queue has steps of saved plans only, and with a step the ones       *)
(* before it.                                                              *)
PrefixClosed ==
    \A t \in Queued :
        /\ t \in Plans \X Nat /\ t[2] \in 1 .. saved[t[1]]
        /\ \A k \in 1 .. t[2] : <<t[1], k>> \in Queued

(* A dispatcher has queued the steps before the one it is at, all of them  *)
(* when it has acknowledged.                                               *)
InHand(s) ==
    /\ s.plan \in Plans /\ s.n <= saved[s.plan] /\ s.i \in 1 .. s.n
    /\ \A k \in 1 .. s.i - 1 : <<s.plan, k>> \in Queued
DispatchSound(d) ==
    LET s == dispatcher[d] IN
    /\ s.pc \in Dispatching => InHand(s)
    /\ s.pc = "acked" => \A k \in 1 .. s.n : <<s.plan, k>> \in Queued

(* Its looks have not met the step, or it was one they could not see.      *)
Looked(s) ==
    /\ s.pc = "walk" /\ StepOf(s) \in Queued \ claimedStep => Unseen(StepOf(s))
    /\ s.pc = "write" /\ StepOf(s) \in Queued => Unseen(StepOf(s))

(* A step that is in two places or was written twice was not seen, and two *)
(* dispatchers with one plan in hand are known to overlap.                 *)
OneEach ==
    /\ \A t \in Queued :
          \/ t \in pendingStep /\ t \in claimedStep
          \/ t \in pendingStep /\ t \in endedStep
          \/ t \in claimedStep /\ t \in endedStep
          \/ t \in rewritten
          => Unseen(t)
    /\ rewritten \subseteq Queued
    /\ \A d, e \in Dispatchers :
          d # e /\ Busy(d) /\ Busy(e) /\ dispatcher[d].plan = dispatcher[e].plan
          => dispatcher[d].plan \in overlapped

PlanInv ==
    /\ PlanTypes /\ PrefixClosed /\ OneEach
    /\ \A d \in Dispatchers : DispatchSound(d) /\ Looked(dispatcher[d])

-----------------------------------------------------------------------------
(* A step of one dispatcher, which leaves the queue alone. *)
LEMMA DispatcherMoves ==
    ASSUME PlanInv, NEW d \in Dispatchers, NEW s \in DispatcherStates,
           dispatcher' = [dispatcher EXCEPT ![d] = s],
           UNCHANGED <<planText, saved, queueVars>>,
           overlapped \subseteq overlapped',
           s.pc # "acked",
           s.pc \in Dispatching =>
              /\ InHand(s)
              /\ \/ Busy(d) /\ s.plan = dispatcher[d].plan
                 \/ \A e \in Dispatchers \ {d} :
                       Busy(e) /\ dispatcher[e].plan = s.plan => s.plan \in overlapped',
           Looked(s)
    PROVE  PlanInv'
<1>0. /\ UNCHANGED <<pendingStep, claimedStep, endedStep, rewritten, slipped>>
      /\ Queued' = Queued
      /\ \A t : Unseen(t) => Unseen(t)'
  BY DEF queueVars, Queued, Unseen
<1>1. PlanTypes'
  BY DEF PlanInv, PlanTypes
<1>2. /\ dispatcher'[d] = s
      /\ \A e \in Dispatchers : e # d => dispatcher'[e] = dispatcher[e]
  BY DEF PlanInv, PlanTypes
<1>3. PrefixClosed'
  BY <1>0 DEF PlanInv, PrefixClosed
<1>4. ASSUME NEW e \in Dispatchers PROVE DispatchSound(e)' /\ Looked(dispatcher[e])'
  <2>1. CASE e = d
    BY <1>0, <1>2, <2>1 DEF DispatchSound, Looked, InHand, StepOf
  <2>2. CASE e # d
    BY <1>0, <1>2, <2>2 DEF PlanInv, DispatchSound, Looked, InHand, StepOf
  <2> QED
    BY <2>1, <2>2
<1>5. OneEach'
  <2>1. ASSUME NEW e \in Dispatchers, e # d, Busy(d)', Busy(e)',
               dispatcher'[e].plan = s.plan
        PROVE  s.plan \in overlapped'
    BY <1>2, <2>1 DEF PlanInv, OneEach, Busy
  <2>2. ASSUME NEW e \in Dispatchers, NEW f \in Dispatchers, e # f,
               Busy(e)', Busy(f)', dispatcher'[e].plan = dispatcher'[f].plan
        PROVE  dispatcher'[e].plan \in overlapped'
    <3>1. CASE e = d
      BY <1>2, <2>1, <2>2, <3>1
    <3>2. CASE f = d
      BY <1>2, <2>1, <2>2, <3>2
    <3>3. CASE e # d /\ f # d
      BY <1>2, <2>2, <3>3 DEF PlanInv, OneEach, Busy
    <3> QED
      BY <3>1, <3>2, <3>3
  <2> QED
    BY <1>0, <2>2 DEF PlanInv, OneEach
<1> QED
  BY <1>1, <1>3, <1>4, <1>5 DEF PlanInv

(* A process that dispatches nothing claims nothing. *)
LEMMA IdleTyped ==
    /\ IdleDispatcher \in DispatcherStates
    /\ IdleDispatcher.pc = "idle" /\ "idle" \notin Dispatching
    /\ IdleDispatcher.pc \notin Dispatching /\ IdleDispatcher.pc # "acked"
    /\ Looked(IdleDispatcher)
BY DEF IdleDispatcher, DispatcherStates, Dispatching, Looked

(* A dispatch that starts knows how many of the plan's steps it takes. *)
LEMMA StartKeeps ==
    ASSUME PlanInv, NEW d \in Dispatchers, NEW p \in Plans, NEW limit \in Nat,
           StartDispatch(d, p, limit)
    PROVE  PlanInv'
<1> DEFINE n == IF limit < saved[p] THEN limit ELSE saved[p]
           s == IF n > 0 /\ \A k \in 1 .. n : is_valid_queue_id(p, k)
                THEN [pc |-> "check", plan |-> p, n |-> n, i |-> 1]
                ELSE IdleDispatcher
<1>1. /\ dispatcher' = [dispatcher EXCEPT ![d] = s]
      /\ UNCHANGED <<planText, saved, queueVars>>
      /\ overlapped' = IF \E e \in Dispatchers \ {d} :
                              /\ dispatcher[e].pc \in Dispatching
                              /\ dispatcher[e].plan = p
                       THEN overlapped \cup {p} ELSE overlapped
  BY DEF StartDispatch
<1>2. saved[p] \in Nat /\ n \in Nat /\ n <= saved[p]
  BY DEF PlanInv, PlanTypes
<1>3. s.pc \in {"check", "idle"}
  BY IdleTyped
<1>4. s \in DispatcherStates
  BY <1>2, IdleTyped DEF DispatcherStates
<1>5. s.pc = "check" => s.plan = p /\ s.n = n /\ s.i = 1 /\ n > 0
  BY IdleTyped
<1> HIDE DEF s
<1>6. overlapped \subseteq overlapped'
      /\ \A e \in Dispatchers \ {d} : Busy(e) /\ dispatcher[e].plan = p
                                      => p \in overlapped'
  BY <1>1 DEF Busy
<1>7. s.pc = "check" => InHand(s)
  BY <1>2, <1>5 DEF InHand
<1>8. (s.pc \in Dispatching => s.pc = "check") /\ s.pc # "acked" /\ Looked(s)
  BY <1>3, IdleTyped DEF Looked
<1> QED
  BY <1>1, <1>4, <1>5, <1>6, <1>7, <1>8, DispatcherMoves

(* The two looks at the queue: what the first has not met is in claimed/   *)
(* or nowhere, what the second has not met either is nowhere, unless it    *)
(* was moved or written meanwhile.                                         *)
LEMMA LookKeeps ==
    ASSUME PlanInv, NEW d \in Dispatchers,
           (\E fits \in BOOLEAN : CheckStep(d, fits)) \/ WalkClaimed(d)
    PROVE  PlanInv'
<1>0. /\ dispatcher[d] \in DispatcherStates
      /\ DispatchSound(d) /\ Looked(dispatcher[d])
  BY DEF PlanInv, PlanTypes
<1>1. ASSUME NEW pc \in {"walk", "write"}, Busy(d),
             dispatcher' = [dispatcher EXCEPT ![d] = [dispatcher[d] EXCEPT !.pc = pc]],
             UNCHANGED <<planText, saved, queueVars, overlapped>>,
             pc = "walk" => StepOf(dispatcher[d]) \notin Queued \ claimedStep,
             pc = "write" => (StepOf(dispatcher[d]) \in Queued
                                  => Unseen(StepOf(dispatcher[d])))
      PROVE  PlanInv'
  <2> DEFINE s == [dispatcher[d] EXCEPT !.pc = pc]
  <2>1. s \in DispatcherStates
    BY <1>0 DEF DispatcherStates
  <2>2. /\ s.pc = pc /\ s.plan = dispatcher[d].plan /\ s.n = dispatcher[d].n
        /\ s.i = dispatcher[d].i
    BY <1>0 DEF DispatcherStates
  <2>3. dispatcher' = [dispatcher EXCEPT ![d] = s]
    BY <1>1
  <2> HIDE DEF s
  <2>4. InHand(s)
    BY <1>0, <1>1, <2>2 DEF DispatchSound, Busy, InHand
  <2>5. Looked(s)
    BY <1>1, <2>2 DEF Looked, StepOf
  <2> QED
    BY <1>1, <2>1, <2>2, <2>3, <2>4, <2>5, DispatcherMoves
<1>2. ASSUME dispatcher' = [dispatcher EXCEPT ![d] = IdleDispatcher],
             UNCHANGED <<planText, saved, queueVars, overlapped>>
      PROVE  PlanInv'
  BY <1>2, IdleTyped, DispatcherMoves
<1>3. ASSUME NEW fits \in BOOLEAN, CheckStep(d, fits) PROVE PlanInv'
  <2>1. /\ dispatcher[d].pc = "check"
        /\ UNCHANGED <<planText, saved, queueVars, overlapped>>
    BY <1>3 DEF CheckStep
  <2>2. CASE ~fits \/ StepOf(dispatcher[d]) \in pendingStep \cup endedStep
    BY <1>2, <1>3, <2>1, <2>2 DEF CheckStep
  <2>3. CASE fits /\ StepOf(dispatcher[d]) \notin pendingStep \cup endedStep
    <3>1. dispatcher' = [dispatcher EXCEPT ![d] = [dispatcher[d] EXCEPT !.pc = "walk"]]
      BY <1>3, <2>3 DEF CheckStep
    <3>2. Busy(d) /\ StepOf(dispatcher[d]) \notin Queued \ claimedStep
      BY <2>1, <2>3 DEF Busy, Dispatching, Queued
    <3> QED
      BY <1>1, <2>1, <3>1, <3>2
  <2> QED
    BY <2>2, <2>3
<1>4. CASE WalkClaimed(d)
  <2>1. /\ dispatcher[d].pc = "walk"
        /\ UNCHANGED <<planText, saved, queueVars, overlapped>>
    BY <1>4 DEF WalkClaimed
  <2>2. CASE StepOf(dispatcher[d]) \in claimedStep
    BY <1>2, <1>4, <2>1, <2>2 DEF WalkClaimed
  <2>3. CASE StepOf(dispatcher[d]) \notin claimedStep
    <3>1. dispatcher' = [dispatcher EXCEPT ![d] = [dispatcher[d] EXCEPT !.pc = "write"]]
      BY <1>4, <2>3 DEF WalkClaimed
    <3>2. Busy(d) /\ (StepOf(dispatcher[d]) \in Queued => Unseen(StepOf(dispatcher[d])))
      BY <1>0, <2>1, <2>3 DEF Busy, Dispatching, Looked
    <3> QED
      BY <1>1, <2>1, <3>1, <3>2
  <2> QED
    BY <2>2, <2>3
<1> QED
  BY <1>3, <1>4

(* The end of a dispatcher, whichever way. *)
LEMMA StopKeeps ==
    ASSUME PlanInv, NEW d \in Dispatchers, EndDispatch(d) \/ KillDispatch(d)
    PROVE  PlanInv'
<1>1. /\ dispatcher' = [dispatcher EXCEPT ![d] = IdleDispatcher]
      /\ UNCHANGED <<planText, saved, queueVars, overlapped>>
  BY DEF EndDispatch, KillDispatch
<1> QED
  BY <1>1, IdleTyped, DispatcherMoves

(* The write of a step: the queue grows by the one the dispatcher is at. *)
LEMMA WriteKeeps ==
    ASSUME PlanInv, NEW d \in Dispatchers, WriteStep(d)
    PROVE  PlanInv'
<1> DEFINE s == dispatcher[d]
           u == IF s.i = s.n THEN [s EXCEPT !.pc = "acked"]
                ELSE [s EXCEPT !.pc = "check", !.i = s.i + 1]
<1>0. /\ s \in DispatcherStates
      /\ dispatcher \in [Dispatchers -> DispatcherStates]
      /\ saved \in [Plans -> Nat]
  BY DEF PlanInv, PlanTypes
<1>1. /\ dispatcher' = [dispatcher EXCEPT ![d] = u] /\ s.pc = "write"
      /\ pendingStep' = pendingStep \cup {<<s.plan, s.i>>}
      /\ rewritten' = rewritten \cup (Queued \cap {<<s.plan, s.i>>})
      /\ UNCHANGED <<planText, saved, claimedStep, endedStep, slipped, overlapped>>
  BY DEF WriteStep, StepOf
<1>2. /\ u \in DispatcherStates
      /\ u.pc \in {"acked", "check"} /\ u.plan = s.plan /\ u.n = s.n
      /\ u.pc = "acked" => s.i = s.n
      /\ u.pc = "check" => u.i = s.i + 1 /\ s.i # s.n
  <2>1. s.i + 1 \in Nat
    BY <1>0 DEF DispatcherStates
  <2>2. CASE s.i = s.n
    <3>1. u = [s EXCEPT !.pc = "acked"]
      BY <2>2
    <3> HIDE DEF u
    <3> QED
      BY <1>0, <2>2, <3>1 DEF DispatcherStates
  <2>3. CASE s.i # s.n
    <3>1. u = [s EXCEPT !.pc = "check", !.i = s.i + 1]
      BY <2>3
    <3> HIDE DEF u, s
    <3> QED
      BY <1>0, <2>1, <2>3, <3>1 DEF DispatcherStates
  <2> QED
    BY <2>2, <2>3
<1>3. /\ InHand(s) /\ s.plan \in Plans /\ s.n \in Nat /\ s.i \in Nat
      /\ saved[s.plan] \in Nat /\ Busy(d)
      /\ StepOf(s) \in Queued => Unseen(StepOf(s))
  <2>1. Busy(d) /\ InHand(s)
    BY <1>1 DEF PlanInv, DispatchSound, Busy, Dispatching
  <2>2. s.plan \in Plans /\ s.n \in Nat /\ s.i \in Nat /\ saved[s.plan] \in Nat
    BY <1>0, <2>1 DEF InHand, DispatcherStates
  <2>3. StepOf(s) \in Queued => Unseen(StepOf(s))
    BY <1>1 DEF PlanInv, Looked
  <2> QED
    BY <2>1, <2>2, <2>3
<1> HIDE DEF u
<1>4. PICK p, i : p = s.plan /\ i = s.i
  OBVIOUS
<1>5. /\ dispatcher'[d] = u
      /\ \A e \in Dispatchers : e # d => dispatcher'[e] = dispatcher[e]
      /\ Queued' = Queued \cup {<<p, i>>}
      /\ \A t : Unseen(t)' <=> Unseen(t)
      /\ <<p, i>> = StepOf(s) /\ (<<p, i>> \in Queued => Unseen(<<p, i>>))
  BY <1>0, <1>1, <1>3, <1>4 DEF Queued, Unseen, StepOf
<1>6. PlanTypes'
  BY <1>1, <1>2 DEF PlanInv, PlanTypes
<1>7. PrefixClosed'
  <2>1. ASSUME NEW t \in Queued
        PROVE  /\ t \in Plans \X Nat /\ t[2] \in 1 .. saved[t[1]]
               /\ \A k \in 1 .. t[2] : <<t[1], k>> \in Queued'
    BY <1>5 DEF PlanInv, PrefixClosed
  <2>2. /\ <<p, i>> \in Plans \X Nat /\ i \in 1 .. saved[p]
        /\ \A k \in 1 .. i : <<p, k>> \in Queued'
    BY <1>3, <1>4, <1>5 DEF InHand
  <2>3. <<p, i>>[1] = p /\ <<p, i>>[2] = i
    OBVIOUS
  <2> QED
    BY <1>1, <1>5, <2>1, <2>2, <2>3 DEF PrefixClosed
<1>8. \A e \in Dispatchers : DispatchSound(e)'
  <2> TAKE e \in Dispatchers
  <2>1. CASE e # d
    BY <1>1, <1>5, <2>1 DEF PlanInv, DispatchSound, InHand
  <2>2. CASE e = d
    <3>1. \A k \in 1 .. i : <<p, k>> \in Queued'
      BY <1>3, <1>4, <1>5 DEF InHand
    <3>2. u.pc = "check" => u.i \in 1 .. u.n /\ \A k \in 1 .. u.i - 1 : k \in 1 .. i
      BY <1>2, <1>3, <1>4 DEF InHand
    <3>3. u.pc = "check" =>
            /\ u.plan \in Plans /\ u.n <= saved'[u.plan] /\ u.i \in 1 .. u.n
            /\ \A k \in 1 .. u.i - 1 : <<u.plan, k>> \in Queued'
      BY <1>1, <1>2, <1>3, <1>4, <3>1, <3>2 DEF InHand
    <3>4. u.pc = "acked" => \A k \in 1 .. u.n : <<u.plan, k>> \in Queued'
      BY <1>2, <1>4, <3>1
    <3> QED
      BY <1>2, <1>5, <2>2, <3>3, <3>4 DEF DispatchSound, InHand, Dispatching
  <2> QED
    BY <2>1, <2>2
<1>9. ASSUME NEW e \in Dispatchers PROVE Looked(dispatcher[e])'
  <2>1. CASE e = d
    BY <1>2, <1>5, <2>1 DEF Looked
  <2>2. CASE e # d
    <3>1. dispatcher'[e] = dispatcher[e] /\ Looked(dispatcher[e])
      BY <1>5, <2>2 DEF PlanInv
    <3>2. CASE StepOf(dispatcher[e]) \in Queued
      BY <1>1, <1>5, <3>1, <3>2 DEF Looked, StepOf
    <3>3. CASE StepOf(dispatcher[e]) = <<p, i>> /\ dispatcher[e].pc \in Dispatching
      <4>1. dispatcher[e].plan = dispatcher[d].plan /\ dispatcher[d].plan = p /\ Busy(e)
        BY <1>4, <3>3 DEF StepOf, Busy
      <4>2. p \in overlapped
        BY <1>3, <2>2, <4>1 DEF PlanInv, OneEach
      <4>3. Unseen(<<p, i>>)'
        BY <1>1, <4>2 DEF Unseen
      <4> QED
        BY <3>1, <3>3, <4>3 DEF Looked, StepOf
    <3>4. CASE StepOf(dispatcher[e]) \notin Queued'
      BY <3>1, <3>4 DEF Looked, StepOf
    <3> QED
      BY <1>5, <3>1, <3>2, <3>3, <3>4 DEF Looked, Dispatching
  <2> QED
    BY <2>1, <2>2
<1>10. OneEach'
  <2>1. ASSUME NEW t \in Queued',
               \/ t \in pendingStep' /\ t \in claimedStep'
               \/ t \in pendingStep' /\ t \in endedStep'
               \/ t \in claimedStep' /\ t \in endedStep'
               \/ t \in rewritten'
        PROVE  Unseen(t)'
    <3>1. CASE t = <<p, i>>
      <4>1. t \in Queued
        BY <1>1, <1>4, <2>1, <3>1 DEF PlanInv, OneEach, Queued
      <4> QED
        BY <1>5, <3>1, <4>1
    <3>2. CASE t # <<p, i>>
      <4>1. /\ t \in pendingStep' <=> t \in pendingStep
            /\ t \in rewritten' <=> t \in rewritten
            /\ t \in Queued
        BY <1>1, <1>4, <1>5, <2>1, <3>2
      <4> QED
        BY <1>1, <1>5, <2>1, <4>1 DEF PlanInv, OneEach
    <3> QED
      BY <3>1, <3>2
  <2>2. rewritten' \subseteq Queued'
    BY <1>1, <1>5 DEF PlanInv, OneEach
  <2>3. ASSUME NEW e \in Dispatchers, NEW f \in Dispatchers, e # f,
               Busy(e)', Busy(f)', dispatcher'[e].plan = dispatcher'[f].plan
        PROVE  dispatcher'[e].plan \in overlapped'
    <3>1. \A g \in Dispatchers :
              Busy(g)' => Busy(g) /\ dispatcher'[g].plan = dispatcher[g].plan
      BY <1>2, <1>3, <1>5 DEF Busy
    <3> QED
      BY <1>1, <2>3, <3>1 DEF PlanInv, OneEach
  <2> QED
    BY <2>1, <2>2, <2>3 DEF OneEach
<1> QED
  BY <1>6, <1>7, <1>8, <1>9, <1>10 DEF PlanInv

(* Patrols and the sweep move a step from one place to another: the queue  *)
(* as a whole stays as it was.                                             *)
LEMMA MoveKeeps ==
    ASSUME PlanInv, NEW t \in Queued,
           PatrolTakes(t) \/ PatrolEnds(t) \/ SweepGivesBack(t)
    PROVE  PlanInv'
<1>1. /\ UNCHANGED <<planText, saved, dispatcher, overlapped, rewritten>>
      /\ slipped \subseteq slipped'
      /\ \/ /\ t \in pendingStep /\ endedStep' = endedStep
            /\ pendingStep' = pendingStep \ {t} /\ claimedStep' = claimedStep \cup {t}
         \/ /\ t \in claimedStep /\ claimedStep' = claimedStep \ {t}
            /\ \/ pendingStep' = pendingStep /\ endedStep' = endedStep \cup {t}
               \/ pendingStep' = pendingStep \cup {t} /\ endedStep' = endedStep
            /\ \A d \in Dispatchers :
                  dispatcher[d].pc = "walk" /\ StepOf(dispatcher[d]) = t
                      => t \in slipped'
  BY DEF PatrolTakes, PatrolEnds, SweepGivesBack, LeavesClaimed
<1>2. Queued' = Queued
  BY <1>1 DEF Queued
<1>3. \A u : Unseen(u) => Unseen(u)'
  BY <1>1 DEF Unseen
<1>4. \A u : u # t => /\ u \in pendingStep' <=> u \in pendingStep
                      /\ u \in claimedStep' <=> u \in claimedStep
                      /\ u \in endedStep' <=> u \in endedStep
  BY <1>1
<1>5. PlanTypes' /\ PrefixClosed' /\ \A e \in Dispatchers : DispatchSound(e)'
  BY <1>1, <1>2 DEF PlanInv, PlanTypes, PrefixClosed, DispatchSound, InHand
<1>6. ASSUME NEW e \in Dispatchers PROVE Looked(dispatcher[e])'
  <2>0. Looked(dispatcher[e]) /\ dispatcher'[e] = dispatcher[e]
        /\ StepOf(dispatcher[e])' = StepOf(dispatcher[e])
    BY <1>1 DEF PlanInv, StepOf
  <2>1. CASE StepOf(dispatcher[e]) # t
    BY <1>2, <1>3, <1>4, <2>0, <2>1 DEF Looked
  <2>2. CASE StepOf(dispatcher[e]) = t
    <3>1. dispatcher[e].pc = "write" => Unseen(t)'
      BY <1>3, <2>0, <2>2 DEF Looked
    <3>2. dispatcher[e].pc = "walk" /\ t \notin claimedStep' => Unseen(t)'
      BY <1>1, <2>2 DEF Unseen
    <3> QED
      BY <2>0, <2>2, <3>1, <3>2 DEF Looked
  <2> QED
    BY <2>1, <2>2
<1>7. OneEach'
  <2>1. ASSUME NEW u \in Queued,
               \/ u \in pendingStep' /\ u \in claimedStep'
               \/ u \in pendingStep' /\ u \in endedStep'
               \/ u \in claimedStep' /\ u \in endedStep'
               \/ u \in rewritten'
        PROVE  Unseen(u)'
    <3>1. CASE u # t
      BY <1>1, <1>3, <1>4, <2>1, <3>1 DEF PlanInv, OneEach
    <3>2. CASE u = t
      BY <1>1, <1>3, <2>1, <3>2 DEF PlanInv, OneEach
    <3> QED
      BY <3>1, <3>2
  <2>2. rewritten' \subseteq Queued'
    BY <1>1, <1>2 DEF PlanInv, OneEach
  <2>3. \A e, f \in Dispatchers :
            e # f /\ Busy(e)' /\ Busy(f)' /\ dispatcher'[e].plan = dispatcher'[f].plan
            => dispatcher'[e].plan \in overlapped'
    BY <1>1 DEF PlanInv, OneEach, Busy
  <2> QED
    BY <1>2, <2>1, <2>2, <2>3 DEF OneEach
<1> QED
  BY <1>5, <1>6, <1>7 DEF PlanInv

(* A plan is saved: nothing of it was queued or in hand before. *)
LEMMA MakeKeeps ==
    ASSUME PlanInv, NEW p \in Plans, MakePlan(p)
    PROVE  PlanInv'
<1>1. /\ saved[p] = 0
      /\ UNCHANGED <<planText, pendingStep, claimedStep, endedStep, rewritten,
                     slipped, dispatcher, overlapped>>
  BY DEF MakePlan, queueVars
<1> DEFINE n == Len(parse_plan_steps_from_markdown(planText))
<1>2. saved' = [saved EXCEPT ![p] = n]
  BY DEF MakePlan
<1>3. n \in Nat
  BY StepsCounted DEF PlanInv, PlanTypes
<1> HIDE DEF n
<1>4. saved' \in [Plans -> Nat] /\ \A q \in Plans : saved[q] \in Nat /\ saved[q] <= saved'[q]
  BY <1>1, <1>2, <1>3 DEF PlanInv, PlanTypes
<1>5. PlanTypes' /\ OneEach' /\ \A e \in Dispatchers : Looked(dispatcher[e])'
  BY <1>1, <1>4 DEF PlanInv, PlanTypes, OneEach, Queued, Busy, Looked, Unseen, StepOf
<1>6. PrefixClosed'
  BY <1>1, <1>4 DEF PlanInv, PrefixClosed, Queued
<1>7. \A e \in Dispatchers : DispatchSound(e)'
  <2> TAKE e \in Dispatchers
  <2>1. DispatchSound(e) /\ dispatcher'[e] = dispatcher[e] /\ dispatcher[e].n \in Nat
    BY <1>1 DEF PlanInv, PlanTypes, DispatcherStates
  <2> QED
    BY <1>1, <1>4, <2>1 DEF DispatchSound, InHand, Queued
<1> QED
  BY <1>5, <1>6, <1>7 DEF PlanInv

(* The invariant says that a plan is queued in order and once. *)
LEMMA PlanInvImplies ==
    ASSUME PlanInv
    PROVE  PlanHandedOver
<1>1. DispatchedPrefix
  <2> SUFFICES ASSUME NEW p \in Plans
               PROVE  LET known == {k \in 1 .. saved[p] : <<p, k>> \in Queued}
                      IN  known = 1 .. Cardinality(known)
    BY DEF DispatchedPrefix, Queued
  <2> DEFINE known == {k \in 1 .. saved[p] : <<p, k>> \in Queued}
  <2>1. saved[p] \in Nat /\ known \subseteq 1 .. saved[p]
    BY DEF PlanInv, PlanTypes
  <2>2. ASSUME NEW k \in known, NEW j \in 1 .. k PROVE j \in known
    <3>1. <<p, k>> \in Queued /\ k \in 1 .. saved[p] /\ <<p, k>>[1] = p /\ <<p, k>>[2] = k
      OBVIOUS
    <3>2. <<p, j>> \in Queued
      BY <2>2, <3>1 DEF PlanInv, PrefixClosed
    <3> QED
      BY <2>1, <2>2, <3>1, <3>2
  <2> HIDE DEF known
  <2>3. known = 1 .. Cardinality(known)
    BY <2>1, <2>2, DownwardClosed
  <2> QED
    BY <2>3 DEF known
<1>2. AckedIsQueued
  BY DEF PlanInv, DispatchSound, AckedIsQueued, Queued
<1>3. NoStepQueuedTwice
  BY DEF PlanInv, OneEach, NoStepQueuedTwice, Queued
<1>4. StepsPartition /\ SubItemsStayInside
  BY StepsAreTheSection DEF PlanInv, PlanTypes
<1> QED
  BY <1>1, <1>2, <1>3, <1>4 DEF PlanHandedOver

(***************************************************************************)
(* For every set of plans and dispatchers and any number of kills: the     *)
(* queue holds a beginning of each plan, an acknowledged dispatch has      *)
(* queued every step it counts, and no step is enqueued twice or is in two *)
(* places unless two dispatchers had its plan in hand at once, or it left  *)
(* claimed/ between the two looks of an enqueue (main.rs                   *)
(* dispatch_plan_steps, mayor_patrol.rs Mayor::enqueue).                   *)
(***************************************************************************)
THEOREM PlansAreHandedOver == PlanSpec => []PlanHandedOver
<1>1. PlanInit => PlanInv
  <2> SUFFICES ASSUME PlanInit PROVE PlanInv
    OBVIOUS
  <2>1. PlanTypes
    BY PlanAssumption, IdleTyped DEF PlanInit, PlanTypes
  <2>2. /\ Queued = {} /\ rewritten = {}
        /\ \A d \in Dispatchers : dispatcher[d].pc = "idle"
    BY IdleTyped DEF PlanInit, Queued
  <2> QED
    BY <2>1, <2>2 DEF PlanInv, PrefixClosed, OneEach, DispatchSound, Looked, Busy,
                      Dispatching
<1>2. PlanInv /\ [PlanNext]_planVars => PlanInv'
  <2> SUFFICES ASSUME PlanInv, [PlanNext]_planVars PROVE PlanInv'
    OBVIOUS
  <2>1. CASE AddLine
    <3>1. PlanTypes'
      BY <2>1 DEF AddLine, PlanInv, PlanTypes
    <3>2. PrefixClosed' /\ OneEach'
      BY <2>1 DEF AddLine, queueVars, PlanInv, PrefixClosed, OneEach, Busy, Queued, Unseen
    <3>3. \A d \in Dispatchers : DispatchSound(d)' /\ Looked(dispatcher[d])'
      BY <2>1 DEF AddLine, queueVars, PlanInv, DispatchSound, InHand, Looked, StepOf,
                  Queued, Unseen
    <3> QED
      BY <3>1, <3>2, <3>3 DEF PlanInv
  <2>2. CASE DispatchNext
    <3>1. 0 .. MaxSteps \subseteq Nat
      OBVIOUS
    <3>2. pendingStep \subseteq Queued /\ claimedStep \subseteq Queued
      BY DEF Queued
    <3> QED
      BY <2>2, <3>1, <3>2, MakeKeeps, StartKeeps, LookKeeps, WriteKeeps, StopKeeps,
         MoveKeeps DEF DispatchNext
  <2>3. CASE UNCHANGED planVars
    <3>1. UNCHANGED <<planText, saved, dispatcher, overlapped, pendingStep, claimedStep,
                      endedStep, rewritten, slipped>>
      BY <2>3 DEF planVars, queueVars
    <3>2. PlanTypes' /\ PrefixClosed' /\ OneEach'
      BY <3>1 DEF PlanInv, PlanTypes, PrefixClosed, OneEach, Busy, Queued, Unseen
    <3>3. \A d \in Dispatchers : DispatchSound(d)' /\ Looked(dispatcher[d])'
      BY <3>1 DEF PlanInv, DispatchSound, InHand, Looked, StepOf, Queued, Unseen
    <3> QED
      BY <3>2, <3>3 DEF PlanInv
  <2> QED
    BY <2>1, <2>2, <2>3 DEF PlanNext
<1> QED
  BY <1>1, <1>2, PlanInvImplies, PTL DEF PlanSpec

-----------------------------------------------------------------------------
(***************************************************************************)
(* The object in a reply                                                   *)
(***************************************************************************)
Places == {"out", "in", "after"}

(* q says where each token of text ends. *)
Quoting(q, text) ==
    /\ q \in [0 .. Len(text) -> Places]
    /\ q[0] = "out"
    /\ \A m \in 1 .. Len(text) : q[m] = Toggle(q[m - 1], text[m])
    /\ \A m \in 0 .. Len(text) : Quoted(text, m) <=> q[m] # "out"

(* Every text is somewhere after each of its tokens. *)
LEMMA QuotingExists ==
    ASSUME NEW text, Len(text) \in Nat
    PROVE  \E q : Quoting(q, text)
<1> DEFINE n == Len(text)
           F == [k \in 1 .. n |-> [p \in Places |-> Toggle(p, text[k])]]
           IsQ(q) == q = [m \in 0 .. n |-> IF m = 0 THEN "out" ELSE Toggle(q[m - 1], text[m])]
           f == CHOOSE q : IsQ(q)
<1>1. \A p \in Places : \A t : Toggle(p, t) \in Places
  BY DEF Toggle, Places
<1>2. F \in [1 .. n -> [Places -> Places]] /\ "out" \in Places
  BY <1>1 DEF Places
<1>3. PICK g : PassesOver(g, n, Places, "out", F)
  <2> HIDE DEF F, n
  <2>1. n \in Nat
    BY DEF n
  <2> QED
    BY ONLY <1>2, <2>1, PassExists
<1>4. /\ g \in [0 .. n -> Places]
      /\ \A k \in 0 .. n : g[k] = IF k = 0 THEN "out" ELSE F[k][g[k - 1]]
  BY <1>3 DEF PassesOver
<1>5. \A k \in 0 .. n : g[k] = IF k = 0 THEN "out" ELSE Toggle(g[k - 1], text[k])
  <2> TAKE k \in 0 .. n
  <2>1. CASE k \in 1 .. n
    <3>1. k - 1 \in 0 .. n
      BY <2>1
    <3>2. g[k - 1] \in Places
      BY <1>4, <3>1
    <3>3. F[k][g[k - 1]] = Toggle(g[k - 1], text[k])
      BY <2>1, <3>2
    <3> HIDE DEF F
    <3> QED
      BY <1>4, <2>1, <3>3
  <2>2. CASE k = 0
    BY <1>4, <2>2
  <2> QED
    BY <2>1, <2>2
<1>6. IsQ(g)
  BY <1>4, <1>5
<1>7. IsQ(f)
  BY <1>6
<1>8. \A m : Quoted(text, m) <=> f[m] # "out"
  BY DEF Quoted
<1> HIDE DEF f, n
<1>9. n \in Nat
  BY DEF n
<1>10. \A k \in 0 .. n : f[k] = IF k = 0 THEN "out" ELSE Toggle(f[k - 1], text[k])
  BY <1>7
<1>11. f \in [0 .. n -> Places]
  <2> DEFINE S == {k \in Nat : k <= n => f[k] \in Places}
  <2>1. 0 \in S
    BY <1>2, <1>9, <1>10
  <2>2. ASSUME NEW k \in Nat, k \in S PROVE k + 1 \in S
    <3> SUFFICES ASSUME k + 1 <= n PROVE f[k + 1] \in Places
      OBVIOUS
    <3>1. k + 1 \in 0 .. n /\ f[k] \in Places /\ (k + 1) - 1 = k /\ k + 1 # 0
      BY <1>9, <2>2
    <3>2. f[k + 1] = Toggle(f[k], text[k + 1])
      BY <1>10, <3>1
    <3> QED
      BY <1>1, <3>1, <3>2
  <2> HIDE DEF S
  <2>3. \A k \in Nat : k \in S => k + 1 \in S
    BY <2>2
  <2>4. Nat \subseteq S
    BY ONLY <2>1, <2>3, Induction
  <2>5. \A k \in 0 .. n : f[k] \in Places
    BY <1>9, <2>4 DEF S
  <2> QED
    BY <1>7, <2>5
<1>12. f[0] = "out" /\ \A m \in 1 .. n : f[m] = Toggle(f[m - 1], text[m])
  BY <1>9, <1>10
<1> QED
  BY <1>8, <1>11, <1>12 DEF Quoting, n

Scans == [string : BOOLEAN, escaped : BOOLEAN, depth : Int, start : Nat,
          found : Seq(TokenKinds)]

(* What token n does to the scan, in each place it can be. *)
LEMMA TokenKnown ==
    ASSUME NEW text \in Seq(TokenKinds), NEW n \in 1 .. Len(text), NEW s \in Scans,
           NEW t, t = ScanToken(text, s, n)
    PROVE  /\ t \in Scans
           /\ s.found # <<>> => t = s
           /\ s.found = <<>> /\ s.string =>
                 /\ t.depth = s.depth /\ t.start = s.start /\ t.found = <<>>
                 /\ t.string <=> s.escaped \/ text[n] # "quote"
                 /\ t.escaped <=> ~s.escaped /\ text[n] = "escape"
           /\ s.found = <<>> /\ ~s.string =>
                 /\ t.string <=> text[n] = "quote"
                 /\ t.escaped <=> s.escaped
                 /\ t.start = IF text[n] = "open" /\ s.depth = 0 THEN n ELSE s.start
                 /\ t.depth = IF text[n] = "open" THEN s.depth + 1
                              ELSE IF text[n] = "close" THEN s.depth - 1 ELSE s.depth
                 /\ t.found = IF text[n] = "close" /\ s.depth = 1 /\ s.start # 0
                              THEN SubSeq(text, s.start, n) ELSE <<>>
<1> DEFINE Q == Seq(TokenKinds)
<1>1. s.start # 0 => SubSeq(text, s.start, n) \in Q
  <2> SUFFICES ASSUME s.start # 0 PROVE SubSeq(text, s.start, n) \in Q
    OBVIOUS
  <2>1. s.start \in Nat \ {0} /\ n \in 0 .. Len(text)
    BY DEF Scans
  <2> QED
    BY <2>1, SubSeqProperties
<1>2. /\ s.string \in BOOLEAN /\ s.escaped \in BOOLEAN /\ s.depth \in Int
      /\ s.start \in Nat /\ s.found \in Q /\ n \in Nat /\ <<>> \in Q
  BY DEF Scans
<1> HIDE DEF Q
<1>3. CASE s.found # <<>>
  BY <1>3 DEF ScanToken
<1>4. CASE s.found = <<>> /\ s.string
  BY <1>2, <1>4 DEF ScanToken, Scans, Q
<1>5. CASE s.found = <<>> /\ ~s.string
  <2>1. CASE text[n] = "quote"
    BY <1>2, <1>5, <2>1 DEF ScanToken, Scans, Q
  <2>2. CASE text[n] = "open"
    <3> DEFINE a == IF s.depth = 0 THEN n ELSE s.start
               b == s.depth + 1
    <3>1. t = [s EXCEPT !.start = a, !.depth = b]
      BY <1>5, <2>2 DEF ScanToken
    <3>2. a \in Nat /\ b \in Int
      BY <1>2
    <3> HIDE DEF a, b
    <3>3. /\ t \in Scans /\ t.start = a /\ t.depth = b /\ t.string = s.string
          /\ t.escaped = s.escaped /\ t.found = s.found
      BY <3>1, <3>2 DEF Scans
    <3> QED
      BY <1>5, <2>2, <3>3 DEF a, b
  <2>3. CASE text[n] = "close"
    <3> DEFINE a == IF s.depth = 1 /\ s.start # 0
                    THEN SubSeq(text, s.start, n) ELSE <<>>
               b == s.depth - 1
    <3>1. t = [s EXCEPT !.depth = b, !.found = a]
      BY <1>5, <2>3 DEF ScanToken
    <3>2. a \in Q /\ b \in Int
      BY <1>1, <1>2
    <3> HIDE DEF a, b
    <3>3. /\ t \in Scans /\ t.start = s.start /\ t.depth = b /\ t.string = s.string
          /\ t.escaped = s.escaped /\ t.found = a
      BY <3>1, <3>2 DEF Scans, Q
    <3> QED
      BY <1>5, <2>3, <3>3 DEF a, b
  <2>4. CASE text[n] \notin {"quote", "open", "close"}
    BY <1>2, <1>5, <2>4 DEF ScanToken, Scans, Q
  <2> QED
    BY <2>1, <2>2, <2>3, <2>4
<1> QED
  BY <1>3, <1>4, <1>5

(* scan is a pass over the text. *)
ScansText(scan, text) ==
    /\ scan \in [0 .. Len(text) -> Scans]
    /\ scan[0] = ScanStart
    /\ \A n \in 1 .. Len(text) : scan[n] = ScanToken(text, scan[n - 1], n)

(* There is one, and it finds what is extracted. *)
LEMMA ScanExists ==
    ASSUME NEW answer, NEW text \in Seq(TokenKinds), text = strip_fenced_block(answer)
    PROVE  \E scan : ScansText(scan, text) /\ extract_json_object(answer) = scan[Len(text)].found
<1> DEFINE n == Len(text)
           F == [k \in 1 .. n |-> [s \in Scans |-> ScanToken(text, s, k)]]
           IsScan(g) == g = [k \in 0 .. n |-> IF k = 0 THEN ScanStart
                                              ELSE ScanToken(text, g[k - 1], k)]
           f == CHOOSE g : IsScan(g)
<1>1. n \in Nat
  OBVIOUS
<1>2. ScanStart \in Scans
  BY DEF ScanStart, Scans
<1>3. \A k \in 1 .. n : \A s \in Scans : ScanToken(text, s, k) \in Scans
  BY TokenKnown
<1>4. F \in [1 .. n -> [Scans -> Scans]]
  BY <1>3
<1>5. PICK g : PassesOver(g, n, Scans, ScanStart, F)
  <2> HIDE DEF F, n
  <2> QED
    BY ONLY <1>1, <1>2, <1>4, PassExists
<1>6. /\ g \in [0 .. n -> Scans]
      /\ \A k \in 0 .. n : g[k] = IF k = 0 THEN ScanStart ELSE F[k][g[k - 1]]
  BY <1>5 DEF PassesOver
<1>7. \A k \in 1 .. n : F[k][g[k - 1]] = ScanToken(text, g[k - 1], k)
  <2> TAKE k \in 1 .. n
  <2>1. k - 1 \in 0 .. n
    BY <1>1
  <2>2. g[k - 1] \in Scans
    BY <2>1, <1>6
  <2> QED
    BY <2>2
<1>8. \A k \in 0 .. n : g[k] = IF k = 0 THEN ScanStart ELSE ScanToken(text, g[k - 1], k)
  <2> HIDE DEF F, n
  <2> TAKE k \in 0 .. n
  <2>1. k = 0 \/ k \in 1 .. n
    BY <1>1
  <2> QED
    BY <1>6, <1>7, <2>1
<1>9. IsScan(g)
  BY <1>6, <1>8
<1>10. IsScan(f)
  BY <1>9
<1>11. extract_json_object(answer) = f[n].found
  BY DEF extract_json_object
<1> HIDE DEF f, F, n
<1>12. \A k \in 0 .. n : f[k] = IF k = 0 THEN ScanStart ELSE ScanToken(text, f[k - 1], k)
  BY <1>10
<1>13. f \in [0 .. n -> Scans]
  <2> DEFINE S == {k \in Nat : k <= n => f[k] \in Scans}
  <2>1. 0 \in S
    BY <1>1, <1>2, <1>12
  <2>2. ASSUME NEW k \in Nat, k \in S PROVE k + 1 \in S
    <3> SUFFICES ASSUME k + 1 <= n PROVE f[k + 1] \in Scans
      OBVIOUS
    <3>1. k + 1 \in 1 .. n /\ f[k] \in Scans /\ (k + 1) - 1 = k
      BY <1>1, <2>2
    <3>2. f[k + 1] = ScanToken(text, f[k], k + 1)
      BY <1>12, <3>1
    <3> QED
      BY <1>3, <3>1, <3>2
  <2> HIDE DEF S
  <2>3. \A k \in Nat : k \in S => k + 1 \in S
    BY <2>2
  <2>4. Nat \subseteq S
    BY ONLY <2>1, <2>3, Induction
  <2>5. \A k \in 0 .. n : f[k] \in Scans
    BY <1>1, <2>4 DEF S
  <2> QED
    BY <1>10, <2>5
<1>14. f[0] = ScanStart /\ \A k \in 1 .. n : f[k] = ScanToken(text, f[k - 1], k)
  BY <1>1, <1>12
<1> QED
  BY <1>11, <1>13, <1>14 DEF n, ScansText

(* A brace is counted where it stands. *)
LEMMA BracesStep ==
    ASSUME NEW text, Len(text) \in Nat, NEW kind, NEW m \in 0 .. Len(text) - 1
    PROVE  /\ Braces(text, kind, m) \in Nat
           /\ Braces(text, kind, m + 1) =
                 IF text[m + 1] = kind /\ ~Quoted(text, m)
                 THEN Braces(text, kind, m) + 1 ELSE Braces(text, kind, m)
<1> DEFINE At(k) == text[k] = kind /\ ~Quoted(text, k - 1)
           T(k) == {i \in 1 .. k : At(i)}
<1>1. IsFiniteSet(T(m)) /\ Cardinality(T(m)) \in Nat
  <2>0. m \in Int /\ 1 \in Int
    OBVIOUS
  <2>1. T(m) \subseteq 1 .. m
    OBVIOUS
  <2>2. IsFiniteSet(1 .. m)
    BY ONLY <2>0, FS_Interval
  <2> HIDE DEF T
  <2> QED
    BY <2>1, <2>2, FS_Subset, FS_CardinalityType
<1>2. m \in Nat /\ (m + 1) - 1 = m /\ m + 1 \notin T(m)
  OBVIOUS
<1> HIDE DEF At
<1>3. T(m + 1) = IF At(m + 1) THEN T(m) \cup {m + 1} ELSE T(m)
  <2>1. \A i : i \in 1 .. m + 1 <=> i \in 1 .. m \/ i = m + 1
    BY <1>2
  <2> QED
    BY <2>1
<1>4. \A k : Braces(text, kind, k) = Cardinality(T(k))
  BY DEF Braces, At
<1> HIDE DEF T
<1>5. Cardinality(T(m) \cup {m + 1}) = Cardinality(T(m)) + 1
  BY <1>1, <1>2, FS_AddElement
<1> QED
  BY <1>1, <1>2, <1>3, <1>4, <1>5 DEF At

(* At the start of a text there is none. *)
LEMMA NoBraces ==
    ASSUME NEW text, NEW kind PROVE Braces(text, kind, 0) = 0
<1>1. {m \in 1 .. 0 : text[m] = kind /\ ~Quoted(text, m - 1)} = {}
  OBVIOUS
<1> QED
  BY <1>1, FS_EmptySet DEF Braces

(* A beginning of a text is quoted, and has its braces, as the text does. *)
LEMMA BeginningAlike ==
    ASSUME NEW o, NEW p, Len(o) \in Nat, Len(p) \in Nat, Len(p) <= Len(o),
           \A i \in 1 .. Len(p) : p[i] = o[i]
    PROVE  \A i \in 0 .. Len(p) : \A kind : Braces(p, kind, i) = Braces(o, kind, i)
<1>1. PICK q : Quoting(q, o)
  BY QuotingExists
<1>2. PICK r : Quoting(r, p)
  BY QuotingExists
<1> DEFINE S == {k \in Nat : k <= Len(p) => r[k] = q[k]}
<1>3. 0 \in S
  BY <1>1, <1>2 DEF Quoting
<1>4. ASSUME NEW k \in Nat, k \in S PROVE k + 1 \in S
  <2> SUFFICES ASSUME k + 1 <= Len(p) PROVE r[k + 1] = q[k + 1]
    OBVIOUS
  <2>1. /\ k + 1 \in 1 .. Len(p) /\ k + 1 \in 1 .. Len(o) /\ (k + 1) - 1 = k
        /\ r[k] = q[k]
    BY <1>4
  <2>2. r[k + 1] = Toggle(r[k], p[k + 1]) /\ q[k + 1] = Toggle(q[k], o[k + 1])
    BY <1>1, <1>2, <2>1 DEF Quoting
  <2> QED
    BY <2>1, <2>2
<1>5. \A k \in 0 .. Len(p) : r[k] = q[k]
  <2> HIDE DEF S
  <2>1. \A k \in Nat : k \in S => k + 1 \in S
    BY <1>4
  <2>2. Nat \subseteq S
    BY ONLY <1>3, <2>1, Induction
  <2> QED
    BY <2>2 DEF S
<1>6. \A k \in 0 .. Len(p) : Quoted(p, k) <=> Quoted(o, k)
  <2> TAKE k \in 0 .. Len(p)
  <2>1. k \in 0 .. Len(o)
    OBVIOUS
  <2> QED
    BY <1>1, <1>2, <1>5, <2>1 DEF Quoting
<1> TAKE i \in 0 .. Len(p)
<1> TAKE kind
<1>7. \A m \in 1 .. i : p[m] = o[m] /\ (Quoted(p, m - 1) <=> Quoted(o, m - 1))
  BY <1>6
<1>8. {m \in 1 .. i : p[m] = kind /\ ~Quoted(p, m - 1)}
        = {m \in 1 .. i : o[m] = kind /\ ~Quoted(o, m - 1)}
  BY <1>7
<1> QED
  BY <1>8 DEF Braces

(* The text from a on, where it is in quotes, and how many of its braces   *)
(* are open after m tokens.                                                *)
From(text, a) == SubSeq(text, a, Len(text))
PlacesOf(o) == CHOOSE q : Quoting(q, o)
Open(o, m) == Braces(o, "open", m) - Braces(o, "close", m)

(* The scan of text is n tokens on and in an object that began at a. *)
Tracks(text, a, n, s) ==
    LET o == From(text, a)
        m == n - a + 1
    IN  /\ s.found = <<>> /\ s.start = a
        /\ s.string <=> PlacesOf(o)[m] # "out"
        /\ s.escaped <=> PlacesOf(o)[m] = "after"
        /\ s.depth = Open(o, m)
        /\ \A i \in 1 .. m : Open(o, i) > 0

(* What the rest of a text is made of. *)
LEMMA FromKnown ==
    ASSUME NEW text \in Seq(TokenKinds), NEW a \in 1 .. Len(text), NEW o,
           o = From(text, a)
    PROVE  /\ Len(o) = Len(text) - a + 1 /\ Len(o) \in Nat
           /\ \A i \in 1 .. Len(o) : o[i] = text[a + i - 1]
           /\ Quoting(PlacesOf(o), o)
           /\ Open(o, 0) = 0
           /\ \A m \in 0 .. Len(o) - 1 : Open(o, m) \in Int
<1>1. \A i \in a .. Len(text) : text[i] \in TokenKinds
  OBVIOUS
<1>2. a \in Int /\ Len(text) \in Int /\ a <= Len(text)
  OBVIOUS
<1>3. /\ Len(o) = Len(text) - a + 1
      /\ \A i \in 1 .. Len(text) - a + 1 : o[i] = text[a + i - 1]
  BY <1>1, <1>2, SubSeqProperties DEF From
<1>4. Len(o) \in Nat
  BY <1>3
<1>5. Quoting(PlacesOf(o), o)
  BY <1>4, QuotingExists DEF PlacesOf
<1>6. Open(o, 0) = 0
  BY NoBraces DEF Open
<1>7. \A m \in 0 .. Len(o) - 1 : Open(o, m) \in Int
  BY <1>4, BracesStep DEF Open
<1> QED
  BY <1>3, <1>4, <1>5, <1>6, <1>7

(* One brace more, one less, or as many as before. *)
LEMMA OpenStep ==
    ASSUME NEW o, Len(o) \in Nat, NEW m \in 0 .. Len(o) - 1
    PROVE  Open(o, m + 1) = IF Quoted(o, m) THEN Open(o, m)
                            ELSE IF o[m + 1] = "open" THEN Open(o, m) + 1
                            ELSE IF o[m + 1] = "close" THEN Open(o, m) - 1
                            ELSE Open(o, m)
<1>1. /\ Braces(o, "open", m) \in Nat /\ Braces(o, "close", m) \in Nat
      /\ Braces(o, "open", m + 1) = IF o[m + 1] = "open" /\ ~Quoted(o, m)
                 THEN Braces(o, "open", m) + 1 ELSE Braces(o, "open", m)
      /\ Braces(o, "close", m + 1) = IF o[m + 1] = "close" /\ ~Quoted(o, m)
                 THEN Braces(o, "close", m) + 1 ELSE Braces(o, "close", m)
  BY BracesStep
<1>2. "open" # "close"
  OBVIOUS
<1> HIDE DEF Braces
<1> QED
  BY <1>1, <1>2 DEF Open

(* The scan goes on in the object, or finds it where its braces close. *)
LEMMA TrackStep ==
    ASSUME NEW text \in Seq(TokenKinds), NEW n \in Nat, n + 1 <= Len(text),
           NEW a \in 1 .. n, NEW s \in Scans, Tracks(text, a, n, s),
           NEW t, t = ScanToken(text, s, n + 1)
    PROVE  LET d == Open(From(text, a), n - a + 2)
           IN  /\ d > 0 => Tracks(text, a, n + 1, t)
               /\ ~(d > 0) => d = 0 /\ t.found = SubSeq(text, a, n + 1)
<1> DEFINE o == From(text, a)
           m == n - a + 1
           q == PlacesOf(o)
           x == text[n + 1]
           d == Open(o, m + 1)
<1>1. /\ m \in Nat /\ m > 0 /\ m \in 0 .. Len(text) - a /\ a + (m + 1) - 1 = n + 1
      /\ n + 1 \in 1 .. Len(text) /\ n - a + 2 = m + 1 /\ (n + 1) - a + 1 = m + 1
      /\ a \in 1 .. Len(text) /\ (m + 1) - 1 = m
  OBVIOUS
<1> HIDE DEF o, m, q, x, d
<1>2. /\ Len(o) = Len(text) - a + 1 /\ Len(o) \in Nat
      /\ \A i \in 1 .. Len(o) : o[i] = text[a + i - 1]
      /\ Quoting(q, o)
      /\ \A i \in 0 .. Len(o) - 1 : Open(o, i) \in Int
  BY <1>1, FromKnown DEF o, q
<1>3. m \in 0 .. Len(o) - 1 /\ m + 1 \in 1 .. Len(o) /\ m \in 0 .. Len(o)
  BY <1>1, <1>2
<1>4. o[m + 1] = x
  BY <1>1, <1>2, <1>3 DEF x
<1>5. /\ q[m] \in Places /\ q[m + 1] = Toggle(q[m], x)
      /\ Quoted(o, m) <=> q[m] # "out"
  BY <1>1, <1>2, <1>3, <1>4 DEF Quoting
<1>6. /\ Open(o, m) \in Int /\ Open(o, m) > 0
      /\ d = IF q[m] # "out" THEN Open(o, m)
             ELSE IF x = "open" THEN Open(o, m) + 1
             ELSE IF x = "close" THEN Open(o, m) - 1
             ELSE Open(o, m)
  <2>1. \A i \in 1 .. m : Open(o, i) > 0
    BY <1>1 DEF Tracks, o, m
  <2> QED
    <3>1. Open(o, m + 1) = IF Quoted(o, m) THEN Open(o, m)
                            ELSE IF o[m + 1] = "open" THEN Open(o, m) + 1
                            ELSE IF o[m + 1] = "close" THEN Open(o, m) - 1
                            ELSE Open(o, m)
      BY <1>2, <1>3, OpenStep
    <3>2. Open(o, m) \in Int /\ Open(o, m) > 0
      BY <1>1, <1>2, <1>3, <2>1
    <3> QED
      BY <1>4, <1>5, <3>1, <3>2 DEF d
<1>7. /\ s.found = <<>> /\ s.start = a /\ s.start # 0
      /\ s.string <=> q[m] # "out"
      /\ s.escaped <=> q[m] = "after"
      /\ s.depth = Open(o, m)
      /\ \A i \in 1 .. m : Open(o, i) > 0
  BY <1>1 DEF Tracks, o, m, q
<1>8. /\ s.string =>
                 /\ t.depth = s.depth /\ t.start = s.start /\ t.found = <<>>
                 /\ t.string <=> s.escaped \/ x # "quote"
                 /\ t.escaped <=> ~s.escaped /\ x = "escape"
      /\ ~s.string =>
                 /\ t.string <=> x = "quote"
                 /\ t.escaped <=> s.escaped
                 /\ t.start = IF x = "open" /\ s.depth = 0 THEN n + 1 ELSE s.start
                 /\ t.depth = IF x = "open" THEN s.depth + 1
                              ELSE IF x = "close" THEN s.depth - 1 ELSE s.depth
                 /\ t.found = IF x = "close" /\ s.depth = 1 /\ s.start # 0
                              THEN SubSeq(text, s.start, n + 1) ELSE <<>>
  BY <1>1, <1>7, TokenKnown DEF x
<1>9. /\ t.string <=> q[m + 1] # "out"
      /\ t.escaped <=> q[m + 1] = "after"
  BY <1>5, <1>7, <1>8 DEF Toggle, Places
<1>10. t.depth = d /\ t.start = a
  BY <1>6, <1>7, <1>8
<1>11. CASE d > 0
  <2>1. t.found = <<>>
    BY <1>6, <1>7, <1>8, <1>11
  <2>2. \A i \in 1 .. m + 1 : Open(o, i) > 0
    BY <1>1, <1>7, <1>11 DEF d
  <2> QED
    BY <1>1, <1>9, <1>10, <1>11, <2>1, <2>2 DEF Tracks, o, q, d
<1>12. CASE ~(d > 0)
  <2>1. q[m] = "out" /\ x = "close" /\ Open(o, m) = 1 /\ d = 0
    BY <1>6, <1>12
  <2>2. t.found = SubSeq(text, a, n + 1)
    BY <1>7, <1>8, <2>1
  <2> QED
    BY <1>1, <1>12, <2>1, <2>2 DEF d, o
<1> QED
  BY <1>11, <1>12

(* What is found where the braces close is an object. *)
LEMMA FoundIsObject ==
    ASSUME NEW text \in Seq(TokenKinds), NEW n \in Nat, n + 1 <= Len(text),
           NEW a \in 1 .. n, NEW s, Tracks(text, a, n, s), text[a] = "open",
           Open(From(text, a), n - a + 2) = 0
    PROVE  SubSeq(text, a, n + 1) # <<>> /\ IsObject(SubSeq(text, a, n + 1))
<1> DEFINE o == From(text, a)
           p == SubSeq(text, a, n + 1)
           m == n - a + 2
<1>1. /\ m \in Nat /\ m > 1 /\ m <= Len(text) - a + 1 /\ m - 1 = n - a + 1
      /\ a \in 1 .. Len(text) /\ \A i \in a .. n + 1 : text[i] \in TokenKinds
      /\ a + 1 - 1 = a
  OBVIOUS
<1>2. /\ Len(p) = m
      /\ \A i \in 1 .. m : p[i] = text[a + i - 1]
  <2>1. a \in Int /\ n + 1 \in Int /\ a <= n + 1 /\ (n + 1) - a + 1 = m
    OBVIOUS
  <2> QED
    BY <1>1, <2>1, SubSeqProperties
<1> HIDE DEF o, p, m
<1>3. /\ Len(o) = Len(text) - a + 1 /\ Len(o) \in Nat
      /\ \A i \in 1 .. Len(o) : o[i] = text[a + i - 1]
  BY <1>1, FromKnown DEF o
<1>4. \A i \in 0 .. m : \A kind : Braces(p, kind, i) = Braces(o, kind, i)
  <2>1. Len(p) \in Nat /\ Len(p) <= Len(o) /\ \A i \in 1 .. Len(p) : p[i] = o[i]
    <3>1. \A i \in 1 .. Len(p) : i \in 1 .. m /\ i \in 1 .. Len(o)
      BY <1>1, <1>2, <1>3
    <3>2. \A i \in 1 .. Len(p) : p[i] = o[i]
      BY <1>2, <1>3, <3>1
    <3> QED
      BY <1>1, <1>2, <1>3, <3>2
  <2>2. \A i \in 0 .. Len(p) : \A kind : Braces(p, kind, i) = Braces(o, kind, i)
    BY ONLY <1>3, <2>1, BeginningAlike
  <2> QED
    BY <1>2, <2>2
<1>5. Open(o, m) = 0 /\ \A i \in 1 .. m - 1 : Open(o, i) > 0
  BY <1>1 DEF Tracks, o, m
<1>6. ASSUME NEW i \in 1 .. m
      PROVE  Braces(o, "open", i) > Braces(o, "close", i) <=> i < m
  <2>1. i - 1 \in 0 .. Len(o) - 1 /\ (i - 1) + 1 = i /\ i \in 0 .. m
    BY <1>1, <1>3
  <2>2. Braces(o, "open", i) \in Nat /\ Braces(o, "close", i) \in Nat
    <3>1. /\ Braces(o, "open", i - 1) \in Nat
          /\ Braces(o, "close", i - 1) \in Nat
          /\ Braces(o, "open", i) \in {Braces(o, "open", i - 1), Braces(o, "open", i - 1) + 1}
          /\ Braces(o, "close", i) \in {Braces(o, "close", i - 1), Braces(o, "close", i - 1) + 1}
      <4>1. \A kind :
           /\ Braces(o, kind, i - 1) \in Nat
           /\ Braces(o, kind, (i - 1) + 1) =
                 IF o[(i - 1) + 1] = kind /\ ~Quoted(o, i - 1)
                 THEN Braces(o, kind, i - 1) + 1 ELSE Braces(o, kind, i - 1)
        BY ONLY <1>3, <2>1, BracesStep
      <4> QED
        BY <2>1, <4>1
    <3> QED
      BY <3>1
  <2>3. CASE i = m
    BY <1>5, <2>2, <2>3 DEF Open
  <2>4. CASE i # m
    <3>1. i \in 1 .. m - 1 /\ i < m
      BY <1>1, <2>4
    <3>2. Open(o, i) > 0
      BY <1>5, <3>1
    <3> QED
      BY <2>2, <3>1, <3>2 DEF Open
  <2> QED
    BY <2>3, <2>4
<1>7. \A i \in 1 .. Len(p) :
         Braces(p, "open", i) > Braces(p, "close", i) <=> i < Len(p)
  <2> TAKE i \in 1 .. Len(p)
  <2>1. i \in 1 .. m /\ i \in 0 .. m
    BY <1>1, <1>2
  <2> QED
    BY <1>2, <1>4, <1>6, <2>1
<1>8. p # <<>> /\ p[1] = "open"
  BY <1>1, <1>2
<1> QED
  BY <1>7, <1>8 DEF IsObject, p

(* An object begins where a brace opens outside strings. *)
LEMMA TrackStart ==
    ASSUME NEW text \in Seq(TokenKinds), NEW n \in 1 .. Len(text), text[n] = "open",
           NEW s \in Scans, s.found = <<>>, ~s.string, ~s.escaped, s.depth = 0,
           NEW t, t = ScanToken(text, s, n)
    PROVE  Tracks(text, n, n, t)
<1> DEFINE o == From(text, n)
           q == PlacesOf(o)
<1>1. n - n + 1 = 1 /\ n + 1 - 1 = n /\ n \in Nat
  OBVIOUS
<1> HIDE DEF o, q
<1>2. /\ Len(o) \in Nat /\ 1 \in 1 .. Len(o) /\ 0 \in 0 .. Len(o) - 1 /\ 0 \in 0 .. Len(o)
      /\ o[1] = "open"
      /\ Quoting(q, o) /\ Open(o, 0) = 0
  <2>1. /\ Len(o) = Len(text) - n + 1 /\ Len(o) \in Nat
        /\ \A i \in 1 .. Len(o) : o[i] = text[n + i - 1]
        /\ Quoting(q, o) /\ Open(o, 0) = 0
    BY FromKnown DEF o, q
  <2>2. 1 \in 1 .. Len(o) /\ 0 \in 0 .. Len(o) - 1 /\ 0 \in 0 .. Len(o)
    BY <2>1
  <2> QED
    BY <1>1, <2>1, <2>2
<1>3. q[0] = "out" /\ q[1] = Toggle(q[0], o[1]) /\ ~Quoted(o, 0)
  BY <1>2 DEF Quoting
<1>4. q[1] = "out"
  BY <1>2, <1>3 DEF Toggle
<1>5. Open(o, 1) = 1
  <2>1. Open(o, 0 + 1) = IF Quoted(o, 0) THEN Open(o, 0)
                         ELSE IF o[0 + 1] = "open" THEN Open(o, 0) + 1
                         ELSE IF o[0 + 1] = "close" THEN Open(o, 0) - 1
                         ELSE Open(o, 0)
    BY ONLY <1>2, OpenStep
  <2> QED
    BY <1>2, <1>3, <2>1
<1>6. t.found = <<>> /\ t.start = n /\ ~t.string /\ ~t.escaped /\ t.depth = 1
  BY TokenKnown
<1>7. \A i \in 1 .. 1 : Open(o, i) > 0
  BY <1>5
<1> QED
  BY <1>1, <1>4, <1>5, <1>6, <1>7 DEF Tracks, o, q

(* Where a scan is after n tokens: before any object, in one, or done. *)
ScanSound(text, n, s) ==
    \/ s.found = <<>> /\ s.start = 0 /\ s.depth <= 0 /\ (s.escaped => s.string)
    \/ \E a \in 1 .. n : text[a] = "open" /\ Tracks(text, a, n, s)
    \/ s.found # <<>> /\ IsObject(s.found)

(* Every token keeps it there. *)
LEMMA ScanKeeps ==
    ASSUME NEW text \in Seq(TokenKinds), NEW n \in Nat, n + 1 <= Len(text),
           NEW s \in Scans, ScanSound(text, n, s),
           NEW t, t = ScanToken(text, s, n + 1)
    PROVE  ScanSound(text, n + 1, t)
<1>1. n + 1 \in 1 .. Len(text) /\ s.depth \in Int
  BY DEF Scans
<1>2. CASE s.found # <<>> /\ IsObject(s.found)
  BY <1>1, <1>2, TokenKnown DEF ScanSound
<1>3. ASSUME NEW a \in 1 .. n, text[a] = "open", Tracks(text, a, n, s)
      PROVE  ScanSound(text, n + 1, t)
  <2> DEFINE d == Open(From(text, a), n - a + 2)
  <2>1. /\ d > 0 => Tracks(text, a, n + 1, t)
        /\ ~(d > 0) => d = 0 /\ t.found = SubSeq(text, a, n + 1)
    BY <1>3, TrackStep
  <2>2. a \in 1 .. n + 1
    OBVIOUS
  <2>3. CASE d > 0
    BY <1>3, <2>1, <2>2, <2>3 DEF ScanSound
  <2>4. CASE ~(d > 0)
    BY <1>3, <2>1, <2>4, FoundIsObject DEF ScanSound
  <2> QED
    BY <2>3, <2>4
<1>4. CASE s.found = <<>> /\ s.start = 0 /\ s.depth <= 0 /\ (s.escaped => s.string)
  <2>1. CASE ~s.string /\ text[n + 1] = "open" /\ s.depth = 0
    <3>1. Tracks(text, n + 1, n + 1, t)
      BY <1>1, <1>4, <2>1, TrackStart
    <3> QED
      BY <2>1, <3>1 DEF ScanSound
  <2>2. CASE ~(~s.string /\ text[n + 1] = "open" /\ s.depth = 0)
    <3>1. t.found = <<>> /\ t.start = 0 /\ t.depth <= 0 /\ (t.escaped => t.string)
      <4>1. CASE s.string
        BY <1>1, <1>4, <4>1, TokenKnown
      <4>2. CASE ~s.string
        BY <1>1, <1>4, <2>2, <4>2, TokenKnown
      <4> QED
        BY <4>1, <4>2
    <3> QED
      BY <3>1 DEF ScanSound
  <2> QED
    BY <2>1, <2>2
<1> QED
  BY <1>2, <1>3, <1>4 DEF ScanSound

(* What a fence holds is tokens of the reply; without one it is all of it. *)
LEMMA StripKnown ==
    ASSUME NEW answer \in Seq(TokenKinds)
    PROVE  /\ strip_fenced_block(answer) \in Seq(TokenKinds)
           /\ (\A n \in DOMAIN answer : answer[n] \notin FenceTokens)
                 => strip_fenced_block(answer) = answer
<1> DEFINE json == {n \in DOMAIN answer : answer[n] = "jsonfence"}
           any == {n \in DOMAIN answer : answer[n] \in FenceTokens}
           first == IF json # {} THEN Min(json) ELSE Min(any)
           ends == {n \in any : n > first}
<1>1. strip_fenced_block(answer) = IF any = {} THEN answer
                                  ELSE IF ends = {} THEN answer
                                  ELSE SubSeq(answer, first + 1, Min(ends) - 1)
  BY DEF strip_fenced_block
<1>2. json \in SUBSET Nat /\ any \in SUBSET Nat /\ any \subseteq DOMAIN answer
      /\ json \subseteq DOMAIN answer
  OBVIOUS
<1>3. ASSUME any # {}, ends # {}
      PROVE  SubSeq(answer, first + 1, Min(ends) - 1) \in Seq(TokenKinds)
  <2>1. first \in DOMAIN answer
    <3> HIDE DEF json, any
    <3> QED
      BY <1>2, <1>3, MinKnown
  <2> HIDE DEF first
  <2>2. ends \in SUBSET Nat /\ ends \subseteq DOMAIN answer
    BY <1>2
  <2>3. Min(ends) \in DOMAIN answer
    <3> HIDE DEF ends
    <3> QED
      BY <1>3, <2>2, MinKnown
  <2>4. /\ first + 1 \in Int /\ Min(ends) - 1 \in Int
        /\ \A i \in first + 1 .. Min(ends) - 1 : answer[i] \in TokenKinds
    <3> HIDE DEF ends
    <3> QED
      BY <2>1, <2>3
  <2> HIDE DEF ends
  <2> QED
    BY <2>4, SubSeqProperties
<1>4. (\A n \in DOMAIN answer : answer[n] \notin FenceTokens) => any = {}
  OBVIOUS
<1> HIDE DEF any, ends, first
<1> QED
  BY <1>1, <1>3, <1>4

(* Whatever the reply, what is extracted is nothing or an object. *)
LEMMA ExtractedKnown ==
    ASSUME NEW answer \in Seq(TokenKinds), extract_json_object(answer) # <<>>
    PROVE  IsObject(extract_json_object(answer))
<1> DEFINE text == strip_fenced_block(answer)
<1>1. text \in Seq(TokenKinds)
  BY StripKnown
<1>2. PICK scan : ScansText(scan, text) /\ extract_json_object(answer) = scan[Len(text)].found
  BY <1>1, ScanExists
<1> HIDE DEF text
<1> DEFINE S == {n \in Nat : n <= Len(text) => ScanSound(text, n, scan[n])}
<1>3. 0 \in S
  <2>1. scan[0] = ScanStart
    BY <1>2 DEF ScansText
  <2>2. ScanSound(text, 0, ScanStart)
    BY DEF ScanSound, ScanStart
  <2> QED
    BY <2>1, <2>2
<1>4. ASSUME NEW n \in Nat, n \in S PROVE n + 1 \in S
  <2> SUFFICES ASSUME n + 1 <= Len(text) PROVE ScanSound(text, n + 1, scan[n + 1])
    OBVIOUS
  <2>1. /\ n + 1 \in 1 .. Len(text) /\ n \in 0 .. Len(text) /\ (n + 1) - 1 = n
        /\ ScanSound(text, n, scan[n])
    BY <1>1, <1>4
  <2>2. scan[n] \in Scans /\ scan[n + 1] = ScanToken(text, scan[n], n + 1)
    BY <1>2, <2>1 DEF ScansText
  <2> QED
    BY <1>1, <2>1, <2>2, ScanKeeps
<1>5. ScanSound(text, Len(text), scan[Len(text)])
  <2> HIDE DEF S
  <2>1. \A n \in Nat : n \in S => n + 1 \in S
    BY <1>4
  <2>2. Nat \subseteq S
    BY ONLY <1>3, <2>1, Induction
  <2> QED
    BY <1>1, <2>2 DEF S
<1> QED
  BY <1>2, <1>5 DEF ScanSound, Tracks

(* An object with only words before it, in a reply without fences, is what *)
(* is extracted.                                                           *)
LEMMA PlainKnown ==
    ASSUME NEW answer \in Seq(TokenKinds), NEW i \in DOMAIN answer,
           NEW j \in i .. Len(answer), IsObject(SubSeq(answer, i, j)),
           \A n \in 1 .. i - 1 : answer[n] = "other",
           \A n \in DOMAIN answer : answer[n] \notin FenceTokens
    PROVE  extract_json_object(answer) = SubSeq(answer, i, j)
<1> DEFINE p == SubSeq(answer, i, j)
           o == From(answer, i)
<1>1. strip_fenced_block(answer) = answer
  BY StripKnown
<1>2. PICK scan : ScansText(scan, answer) /\ extract_json_object(answer) = scan[Len(answer)].found
  BY <1>1, ScanExists
<1>3. /\ i \in Nat /\ j \in Nat /\ Len(answer) \in Nat /\ i > 0 /\ i <= j
      /\ j <= Len(answer) /\ i \in 1 .. Len(answer)
  OBVIOUS
<1>4. Len(p) = j - i + 1 /\ \A k \in 1 .. j - i + 1 : p[k] = answer[i + k - 1]
  <2>1. i \in Int /\ j \in Int /\ \A k \in i .. j : answer[k] \in TokenKinds
    OBVIOUS
  <2> QED
    BY <1>3, <2>1, SubSeqProperties
<1> HIDE DEF p, o
<1>5. /\ Len(o) = Len(answer) - i + 1 /\ Len(o) \in Nat
      /\ \A k \in 1 .. Len(o) : o[k] = answer[i + k - 1]
  BY <1>3, FromKnown DEF o
<1>6. \A k \in 0 .. j - i + 1 : \A kind : Braces(p, kind, k) = Braces(o, kind, k)
  <2>1. \A k \in 1 .. Len(p) : k \in 1 .. j - i + 1 /\ k \in 1 .. Len(o)
    BY <1>3, <1>4, <1>5
  <2>2. \A k \in 1 .. Len(p) : p[k] = o[k]
    BY <1>4, <1>5, <2>1
  <2>3. Len(p) \in Nat /\ Len(p) <= Len(o)
    BY <1>3, <1>4, <1>5
  <2>4. \A k \in 0 .. Len(p) : \A kind : Braces(p, kind, k) = Braces(o, kind, k)
    BY ONLY <1>5, <2>2, <2>3, BeginningAlike
  <2> QED
    BY <1>4, <2>4
<1>7. /\ p[1] = "open"
      /\ \A k \in 1 .. j - i + 1 :
            Braces(o, "open", k) > Braces(o, "close", k) <=> k < j - i + 1
  <2>1. \A k \in 1 .. j - i + 1 : k \in 0 .. j - i + 1
    BY <1>3
  <2>2. /\ p[1] = "open"
        /\ \A k \in 1 .. Len(p) :
              Braces(p, "open", k) > Braces(p, "close", k) <=> k < Len(p)
    BY DEF IsObject, p
  <2> QED
    BY <1>4, <1>6, <2>1, <2>2
<1>8. answer[i] = "open"
  BY <1>3, <1>4, <1>7
<1>9. \A k \in 1 .. j - i + 1 : Open(o, k) > 0 <=> k < j - i + 1
  <2> TAKE k \in 1 .. j - i + 1
  <2>1. k - 1 \in 0 .. Len(o) - 1 /\ (k - 1) + 1 = k
    BY <1>3, <1>5
  <2>2. \A kind :
           /\ Braces(o, kind, k - 1) \in Nat
           /\ Braces(o, kind, (k - 1) + 1) =
                 IF o[(k - 1) + 1] = kind /\ ~Quoted(o, k - 1)
                 THEN Braces(o, kind, k - 1) + 1 ELSE Braces(o, kind, k - 1)
    BY ONLY <1>5, <2>1, BracesStep
  <2>3. \A kind : Braces(o, kind, k) \in Nat
    <3> TAKE kind
    <3>1. /\ Braces(o, kind, k - 1) \in Nat
          /\ \/ Braces(o, kind, k) = Braces(o, kind, k - 1) + 1
             \/ Braces(o, kind, k) = Braces(o, kind, k - 1)
      BY <2>1, <2>2
    <3> QED
      BY <3>1
  <2>4. Braces(o, "open", k) > Braces(o, "close", k) <=> k < j - i + 1
    BY <1>7
  <2>5. Braces(o, "open", k) \in Nat /\ Braces(o, "close", k) \in Nat
    BY <2>3
  <2> QED
    BY <2>4, <2>5 DEF Open
<1>10. \A n \in 0 .. Len(answer) : scan[n] \in Scans
  BY <1>2 DEF ScansText
<1>11. \A n \in Nat : n + 1 <= Len(answer) =>
          /\ scan[n + 1] = ScanToken(answer, scan[n], n + 1)
          /\ scan[n] \in Scans /\ n + 1 \in 1 .. Len(answer)
  <2> SUFFICES ASSUME NEW n \in Nat, n + 1 <= Len(answer)
               PROVE  /\ scan[n + 1] = ScanToken(answer, scan[n], n + 1)
                      /\ scan[n] \in Scans /\ n + 1 \in 1 .. Len(answer)
    OBVIOUS
  <2>1. n \in 0 .. Len(answer) /\ n + 1 \in 1 .. Len(answer) /\ (n + 1) - 1 = n
    BY <1>3
  <2> QED
    BY <1>2, <1>10, <2>1 DEF ScansText
<1> DEFINE Plain(s) == s.found = <<>> /\ ~s.string /\ ~s.escaped /\ s.depth = 0
           Good(n) == /\ n < i => Plain(scan[n])
                      /\ n >= i /\ n < j => Tracks(answer, i, n, scan[n])
                      /\ n >= j => scan[n].found = p
           S == {n \in Nat : n <= Len(answer) => Good(n)}
<1>12. 0 \in S
  <2>1. scan[0] = ScanStart
    BY <1>2 DEF ScansText
  <2> QED
    BY <1>3, <2>1 DEF ScanStart
<1>13. ASSUME NEW n \in Nat, n \in S PROVE n + 1 \in S
  <2> SUFFICES ASSUME n + 1 <= Len(answer) PROVE Good(n + 1)
    OBVIOUS
  <2>1. /\ scan[n + 1] = ScanToken(answer, scan[n], n + 1)
        /\ scan[n] \in Scans /\ n + 1 \in 1 .. Len(answer)
    BY <1>11
  <2>2. Good(n)
    BY <1>3, <1>13
  <2>3. CASE n + 1 < i
    <3>1. Plain(scan[n]) /\ answer[n + 1] = "other"
      BY <1>3, <2>2, <2>3
    <3>2. Plain(scan[n + 1])
      BY <2>1, <3>1, TokenKnown
    <3> QED
      BY <1>3, <2>3, <3>2
  <2>4. CASE n + 1 = i
    <3>1. Plain(scan[n]) /\ answer[n + 1] = "open"
      BY <1>3, <1>8, <2>2, <2>4
    <3>2. Tracks(answer, n + 1, n + 1, scan[n + 1])
      BY <2>1, <3>1, TrackStart
    <3>3. i < j
      <4>1. i # j
        <5> SUFFICES ASSUME i = j PROVE FALSE
          OBVIOUS
        <5>1. Open(o, 1) > 0
          BY <1>3, <2>4, <3>2 DEF Tracks, o
        <5>2. 1 \in 1 .. j - i + 1 /\ ~(1 < j - i + 1)
          BY <1>3
        <5> QED
          BY <1>9, <5>1, <5>2
      <4> QED
        BY <1>3, <4>1
    <3> QED
      BY <1>3, <2>4, <3>2, <3>3
  <2>5. CASE n >= i /\ n < j
    <3> DEFINE d == Open(From(answer, i), n - i + 2)
    <3>1. Tracks(answer, i, n, scan[n]) /\ i \in 1 .. n
      BY <1>3, <2>2, <2>5
    <3>2. /\ d > 0 => Tracks(answer, i, n + 1, scan[n + 1])
          /\ ~(d > 0) => d = 0 /\ scan[n + 1].found = SubSeq(answer, i, n + 1)
      BY <2>1, <3>1, TrackStep
    <3>3. n - i + 2 \in 1 .. j - i + 1 /\ (n - i + 2 < j - i + 1 <=> n + 1 < j)
      BY <1>3, <2>5
    <3>4. d > 0 <=> n + 1 < j
      BY <1>9, <3>3 DEF o
    <3> HIDE DEF d
    <3>5. CASE n + 1 < j
      BY <1>3, <2>5, <3>2, <3>4, <3>5
    <3>6. CASE n + 1 = j
      BY <1>3, <2>5, <3>2, <3>4, <3>6 DEF p
    <3> QED
      BY <1>3, <2>5, <3>5, <3>6
  <2>6. CASE n >= j
    <3>1. scan[n].found = p /\ p # <<>>
      BY <1>3, <1>4, <2>2, <2>6
    <3>2. scan[n + 1] = scan[n]
      BY <2>1, <3>1, TokenKnown
    <3> QED
      BY <1>3, <2>6, <3>1, <3>2
  <2> QED
    BY <1>3, <2>3, <2>4, <2>5, <2>6
<1>14. Good(Len(answer))
  <2> HIDE DEF S, Good
  <2>1. \A n \in Nat : n \in S => n + 1 \in S
    BY <1>13
  <2>2. Nat \subseteq S
    BY ONLY <1>12, <2>1, Induction
  <2> QED
    BY <1>3, <2>2 DEF S
<1> QED
  BY <1>2, <1>3, <1>14 DEF p

(***************************************************************************)
(* Whatever an adapter answers, of whatever length: what is cut out of the *)
(* reply is one whole object, braces in strings and escaped quotes         *)
(* notwithstanding, and an object that only words surround is what is cut  *)
(* out (goal_intent.rs extract_json_object, strip_fenced_block).           *)
(***************************************************************************)
THEOREM ObjectsAreExtracted ==
    IntentInit /\ [][IntentNext]_raw => [](ExtractedIsObject /\ PlainObjectIsFound)
<1> DEFINE Tokenised == raw \in Seq(TokenKinds)
<1>1. IntentInit => Tokenised
  BY DEF IntentInit
<1>2. Tokenised /\ [IntentNext]_raw => Tokenised'
  BY DEF IntentNext
<1>3. Tokenised => ExtractedIsObject /\ PlainObjectIsFound
  BY ExtractedKnown, PlainKnown DEF ExtractedIsObject, PlainObjectIsFound
<1> QED
  BY <1>1, <1>2, <1>3, PTL

-----------------------------------------------------------------------------
(* The arguments of /budget: what the typed digits are worth, what is kept *)
(* of a cost, and what is read of word after word.                         *)

(* A function that takes every state by F to the next stays in D. *)
LEMMA PassTyped ==
    ASSUME NEW D, NEW base \in D, NEW n \in Nat, NEW F \in [1 .. n -> [D -> D]],
           NEW f, f[0] = base, \A k \in 1 .. n : f[k - 1] \in D => f[k] = F[k][f[k - 1]]
    PROVE  \A k \in 0 .. n : f[k] \in D
<1> DEFINE S == {k \in Nat : k <= n => f[k] \in D}
<1>1. 0 \in S
  OBVIOUS
<1>2. ASSUME NEW k \in Nat, k \in S PROVE k + 1 \in S
  <2> SUFFICES ASSUME k + 1 <= n PROVE f[k + 1] \in D
    OBVIOUS
  <2>1. k + 1 \in 1 .. n /\ f[k] \in D /\ (k + 1) - 1 = k
    BY <1>2
  <2>2. f[k + 1] = F[k + 1][f[k]]
    BY <2>1
  <2> QED
    BY <2>1, <2>2
<1> HIDE DEF S
<1>3. \A k \in Nat : k \in S => k + 1 \in S
  BY <1>2
<1>4. Nat \subseteq S
  BY ONLY <1>1, <1>3, Induction
<1> QED
  BY <1>4 DEF S

-----------------------------------------------------------------------------
(* p has the powers of ten up to the n-th. *)
Scales(p, n) ==
    /\ p \in [0 .. n -> Nat] /\ p[0] = 1
    /\ \A k \in 1 .. n : p[k] = 10 * p[k - 1]
    /\ Scale(n) = p[n]

(* There are such powers. *)
LEMMA ScalesExist == ASSUME NEW n \in Nat PROVE \E p : Scales(p, n)
<1> DEFINE F == [k \in 1 .. n |-> [x \in Nat |-> 10 * x]]
           IsF(g) == g = [k \in 0 .. n |-> IF k = 0 THEN 1 ELSE 10 * g[k - 1]]
           f == CHOOSE g : IsF(g)
<1>1. F \in [1 .. n -> [Nat -> Nat]] /\ 1 \in Nat
  OBVIOUS
<1>2. PICK g : PassesOver(g, n, Nat, 1, F)
  <2> HIDE DEF F
  <2> QED
    BY ONLY <1>1, n \in Nat, PassExists
<1>3. /\ g \in [0 .. n -> Nat]
      /\ \A k \in 0 .. n : g[k] = IF k = 0 THEN 1 ELSE 10 * g[k - 1]
  <2>1. /\ g \in [0 .. n -> Nat]
        /\ \A k \in 0 .. n : g[k] = IF k = 0 THEN 1 ELSE F[k][g[k - 1]]
    BY <1>2 DEF PassesOver
  <2>2. \A k \in 1 .. n : k - 1 \in 0 .. n
    OBVIOUS
  <2>3. \A k \in 1 .. n : F[k][g[k - 1]] = 10 * g[k - 1]
    BY <2>1, <2>2
  <2>4. \A k \in 0 .. n : k = 0 \/ k \in 1 .. n
    OBVIOUS
  <2> HIDE DEF F
  <2> QED
    BY <2>1, <2>3, <2>4
<1>4. IsF(g)
  BY <1>3
<1>5. IsF(f)
  BY <1>4
<1>6. Scale(n) = f[n]
  BY DEF Scale
<1> HIDE DEF f
<1>7. \A k \in 0 .. n : f[k] = IF k = 0 THEN 1 ELSE 10 * f[k - 1]
  BY <1>5
<1>8. f[0] = 1 /\ \A k \in 1 .. n : f[k] = 10 * f[k - 1]
  BY <1>7
<1>9. \A k \in 0 .. n : f[k] \in Nat
  <2>1. \A k \in 1 .. n : f[k - 1] \in Nat => f[k] = F[k][f[k - 1]]
    BY <1>8
  <2> HIDE DEF F
  <2> QED
    BY ONLY <1>1, <1>8, <2>1, n \in Nat, PassTyped
<1>10. f \in [0 .. n -> Nat]
  BY <1>5, <1>9
<1> QED
  BY <1>6, <1>8, <1>10 DEF Scales

(* The powers of ten. *)
LEMMA ScaleKnown ==
    /\ Scale(0) = 1
    /\ \A n \in Nat : Scale(n) \in Nat /\ Scale(n + 1) = 10 * Scale(n)
<1>1. Scale(0) = 1
  BY ScalesExist DEF Scales
<1>2. ASSUME NEW n \in Nat PROVE Scale(n) \in Nat /\ Scale(n + 1) = 10 * Scale(n)
  <2>1. PICK p : Scales(p, n)
    BY ScalesExist
  <2>2. PICK r : Scales(r, n + 1)
    BY ScalesExist
  <2> DEFINE S == {k \in Nat : k <= n => p[k] = r[k]}
  <2>3. 0 \in S
    BY <2>1, <2>2 DEF Scales
  <2>4. ASSUME NEW k \in Nat, k \in S PROVE k + 1 \in S
    <3> SUFFICES ASSUME k + 1 <= n PROVE p[k + 1] = r[k + 1]
      OBVIOUS
    <3>1. /\ k + 1 \in 1 .. n /\ k + 1 \in 1 .. n + 1 /\ (k + 1) - 1 = k
          /\ p[k] = r[k]
      BY <2>4
    <3> QED
      BY <2>1, <2>2, <3>1 DEF Scales
  <2>5. p[n] = r[n]
    <3> HIDE DEF S
    <3>1. \A k \in Nat : k \in S => k + 1 \in S
      BY <2>4
    <3>2. Nat \subseteq S
      BY ONLY <2>3, <3>1, Induction
    <3> QED
      BY <3>2 DEF S
  <2>6. n + 1 \in 1 .. n + 1 /\ (n + 1) - 1 = n /\ n \in 0 .. n
    OBVIOUS
  <2> QED
    BY <2>1, <2>2, <2>5, <2>6 DEF Scales
<1> QED
  BY <1>1, <1>2

(* None of them is zero. *)
LEMMA ScalePositive == \A n \in Nat : Scale(n) > 0
<1> DEFINE S == {n \in Nat : Scale(n) > 0}
<1>1. 0 \in S
  BY ScaleKnown
<1>2. \A n \in Nat : n \in S => n + 1 \in S
  <2> SUFFICES ASSUME NEW n \in Nat, Scale(n) > 0 PROVE Scale(n + 1) > 0
    OBVIOUS
  <2>1. Scale(n) \in Nat /\ Scale(n + 1) = 10 * Scale(n)
    BY ScaleKnown
  <2> QED
    BY <2>1
<1> HIDE DEF S
<1>3. Nat \subseteq S
  BY ONLY <1>1, <1>2, Induction
<1> QED
  BY <1>3 DEF S

(* They multiply as powers do. *)
LEMMA ScaleSum ==
    ASSUME NEW m \in Nat, NEW n \in Nat
    PROVE  Scale(m + n) = Scale(m) * Scale(n)
<1> DEFINE S == {k \in Nat : Scale(m + k) = Scale(m) * Scale(k)}
<1>1. 0 \in S
  <2>1. Scale(0) = 1 /\ Scale(m) \in Nat /\ m + 0 = m
    BY ScaleKnown
  <2> QED
    BY <2>1
<1>2. \A k \in Nat : k \in S => k + 1 \in S
  <2> SUFFICES ASSUME NEW k \in Nat, Scale(m + k) = Scale(m) * Scale(k)
               PROVE  Scale(m + (k + 1)) = Scale(m) * Scale(k + 1)
    OBVIOUS
  <2> DEFINE a == Scale(m)
             b == Scale(k)
             c == Scale(m + k)
  <2>1. /\ m + (k + 1) = (m + k) + 1 /\ m + k \in Nat
    OBVIOUS
  <2>2. Scale(m + (k + 1)) = 10 * c /\ Scale(k + 1) = 10 * b /\ a \in Nat /\ b \in Nat /\ c \in Nat
    BY <2>1, ScaleKnown
  <2> HIDE DEF a, b, c
  <2>3. c = a * b
    BY DEF a, b, c
  <2>4. 10 * (a * b) = a * (10 * b)
    BY <2>2
  <2> QED
    BY <2>2, <2>3, <2>4 DEF a
<1> HIDE DEF S
<1>3. Nat \subseteq S
  BY ONLY <1>1, <1>2, Induction
<1> QED
  BY <1>3 DEF S

-----------------------------------------------------------------------------
(* v has the values of the beginnings of some digits. *)
Values(v, digits) ==
    /\ v \in [0 .. Len(digits) -> Nat] /\ v[0] = 0
    /\ \A k \in 1 .. Len(digits) : v[k] = 10 * v[k - 1] + digits[k]
    /\ ValueOf(digits) = v[Len(digits)]

(* The value of digits is reached digit by digit. *)
LEMMA ValuesExist ==
    ASSUME NEW digits \in Seq(Nat) PROVE \E v : Values(v, digits)
<1> DEFINE n == Len(digits)
           F == [k \in 1 .. n |-> [x \in Nat |-> 10 * x + digits[k]]]
           IsF(g) == g = [k \in 0 .. n |-> IF k = 0 THEN 0 ELSE 10 * g[k - 1] + digits[k]]
           f == CHOOSE g : IsF(g)
<1>0. n \in Nat /\ \A k \in 1 .. n : digits[k] \in Nat
  OBVIOUS
<1>6. ValueOf(digits) = f[n]
  BY DEF ValueOf
<1> HIDE DEF n
<1>1. F \in [1 .. n -> [Nat -> Nat]] /\ 0 \in Nat
  BY <1>0
<1>2. PICK g : PassesOver(g, n, Nat, 0, F)
  <2> HIDE DEF F
  <2> QED
    BY ONLY <1>0, <1>1, PassExists
<1>3. /\ g \in [0 .. n -> Nat]
      /\ \A k \in 0 .. n : g[k] = IF k = 0 THEN 0 ELSE 10 * g[k - 1] + digits[k]
  <2>1. /\ g \in [0 .. n -> Nat]
        /\ \A k \in 0 .. n : g[k] = IF k = 0 THEN 0 ELSE F[k][g[k - 1]]
    BY <1>2 DEF PassesOver
  <2>2. \A k \in 1 .. n : k - 1 \in 0 .. n
    BY <1>0
  <2>3. \A k \in 1 .. n : F[k][g[k - 1]] = 10 * g[k - 1] + digits[k]
    BY <2>1, <2>2
  <2>4. \A k \in 0 .. n : k = 0 \/ k \in 1 .. n
    BY <1>0
  <2> HIDE DEF F
  <2> QED
    BY <2>1, <2>3, <2>4
<1>4. IsF(g)
  BY <1>3
<1>5. IsF(f)
  BY <1>4
<1> HIDE DEF f
<1>7. \A k \in 0 .. n : f[k] = IF k = 0 THEN 0 ELSE 10 * f[k - 1] + digits[k]
  BY <1>5
<1>8. f[0] = 0 /\ \A k \in 1 .. n : f[k] = 10 * f[k - 1] + digits[k]
  BY <1>0, <1>7
<1>9. \A k \in 0 .. n : f[k] \in Nat
  <2>1. \A k \in 1 .. n : f[k - 1] \in Nat => f[k] = F[k][f[k - 1]]
    BY <1>8
  <2> HIDE DEF F
  <2> QED
    BY ONLY <1>0, <1>1, <1>8, <2>1, PassTyped
<1>10. f \in [0 .. n -> Nat]
  BY <1>5, <1>9
<1> QED
  BY <1>6, <1>8, <1>10 DEF Values, n

(* d and e have their first n digits in common; those of e come after the  *)
(* first i of d.                                                           *)
Alike(d, e, n) ==
    /\ Len(d) \in Nat /\ Len(e) \in Nat /\ n <= Len(d) /\ n <= Len(e)
    /\ \A i \in 1 .. n : d[i] = e[i]
After(d, e, i) ==
    /\ Len(d) \in Nat /\ Len(e) \in Nat /\ i + Len(e) <= Len(d)
    /\ \A k \in 1 .. Len(e) : d[i + k] = e[k] /\ e[k] \in Nat

(* Digits that begin alike have beginnings of the same value. *)
LEMMA ValuesAlike ==
    ASSUME NEW d, NEW e, NEW v, NEW w, NEW n \in Nat, Values(v, d), Values(w, e),
           Alike(d, e, n)
    PROVE  v[n] = w[n]
<1> DEFINE S == {k \in Nat : k <= n => v[k] = w[k]}
<1>1. 0 \in S
  BY DEF Values
<1>2. ASSUME NEW k \in Nat, k \in S PROVE k + 1 \in S
  <2> SUFFICES ASSUME k + 1 <= n PROVE v[k + 1] = w[k + 1]
    OBVIOUS
  <2>1. /\ k + 1 \in 1 .. n /\ k + 1 \in 1 .. Len(d) /\ k + 1 \in 1 .. Len(e)
        /\ (k + 1) - 1 = k /\ v[k] = w[k] /\ d[k + 1] = e[k + 1]
    BY <1>2 DEF Alike
  <2>2. v[k + 1] = 10 * v[k] + d[k + 1] /\ w[k + 1] = 10 * w[k] + e[k + 1]
    BY <2>1 DEF Values
  <2> QED
    BY <2>1, <2>2
<1> HIDE DEF S
<1>3. \A k \in Nat : k \in S => k + 1 \in S
  BY <1>2
<1>4. Nat \subseteq S
  BY ONLY <1>1, <1>3, Induction
<1> QED
  BY <1>4 DEF S

(* Digits e after the first i of d: their value is added to that of the    *)
(* first, moved up by as many places.                                      *)
LEMMA ValuesAfter ==
    ASSUME NEW d, NEW e, NEW v, NEW w, NEW i \in Nat, Values(v, d), Values(w, e),
           After(d, e, i), NEW n, n = Len(e), NEW j, j = i + n
    PROVE  v[j] = v[i] * Scale(n) + w[n]
<1> DEFINE S == {k \in Nat : k <= Len(e) => v[i + k] = v[i] * Scale(k) + w[k]}
<1>0. i \in 0 .. Len(d) /\ v[i] \in Nat
  <2>1. i \in 0 .. Len(d)
    BY DEF After
  <2> QED
    BY <2>1 DEF Values
<1>1. 0 \in S
  <2>1. Scale(0) = 1 /\ w[0] = 0 /\ i + 0 = i
    BY ScaleKnown DEF Values
  <2> QED
    BY <1>0, <2>1
<1>2. ASSUME NEW k \in Nat, k \in S PROVE k + 1 \in S
  <2> SUFFICES ASSUME k + 1 <= Len(e)
               PROVE  v[i + (k + 1)] = v[i] * Scale(k + 1) + w[k + 1]
    OBVIOUS
  <2> DEFINE x == v[i]
             z == Scale(k)
             y == w[k]
             c == e[k + 1]
  <2>1. /\ k + 1 \in 1 .. Len(e) /\ i + (k + 1) \in 1 .. Len(d)
        /\ (k + 1) - 1 = k /\ (i + (k + 1)) - 1 = i + k /\ k \in 0 .. Len(e)
    BY <1>2 DEF After
  <2>2. /\ v[i + k] = x * z + y
        /\ v[i + (k + 1)] = 10 * v[i + k] + c
        /\ w[k + 1] = 10 * y + c
        /\ Scale(k + 1) = 10 * z /\ z \in Nat /\ y \in Nat /\ c \in Nat
    <3>1. v[i + k] = x * z + y /\ Scale(k + 1) = 10 * z /\ z \in Nat
      BY <1>2, <2>1, ScaleKnown
    <3>2. v[i + (k + 1)] = 10 * v[i + k] + d[i + (k + 1)] /\ d[i + (k + 1)] = c /\ c \in Nat
      BY <2>1 DEF Values, After
    <3>3. w[k + 1] = 10 * y + c /\ y \in Nat
      BY <2>1 DEF Values
    <3> QED
      BY <3>1, <3>2, <3>3
  <2> HIDE DEF x, y, z, c
  <2>3. x \in Nat
    BY <1>0 DEF x
  <2>4. 10 * (x * z + y) + c = x * (10 * z) + (10 * y + c)
    BY <2>2, <2>3
  <2> QED
    BY <2>2, <2>4 DEF x
<1> HIDE DEF S
<1>3. \A k \in Nat : k \in S => k + 1 \in S
  BY <1>2
<1>4. Nat \subseteq S
  BY ONLY <1>1, <1>3, Induction
<1> QED
  BY <1>4 DEF S, After

(* Noughts are worth nothing. *)
LEMMA Noughts ==
    ASSUME NEW e, NEW w, Len(e) \in Nat, Values(w, e), \A k \in 1 .. Len(e) : e[k] = 0
    PROVE  w[Len(e)] = 0
<1> DEFINE S == {k \in Nat : k <= Len(e) => w[k] = 0}
<1>1. 0 \in S
  BY DEF Values
<1>2. ASSUME NEW k \in Nat, k \in S PROVE k + 1 \in S
  <2> SUFFICES ASSUME k + 1 <= Len(e) PROVE w[k + 1] = 0
    OBVIOUS
  <2>1. k + 1 \in 1 .. Len(e) /\ (k + 1) - 1 = k /\ w[k] = 0
    BY <1>2
  <2>2. w[k + 1] = 10 * w[k] + e[k + 1] /\ e[k + 1] = 0
    BY <2>1 DEF Values
  <2> QED
    BY <2>1, <2>2
<1> HIDE DEF S
<1>3. \A k \in Nat : k \in S => k + 1 \in S
  BY <1>2
<1>4. Nat \subseteq S
  BY ONLY <1>1, <1>3, Induction
<1> QED
  BY <1>4 DEF S

(* Digits are worth less than the next power of ten. *)
LEMMA ValueBounded ==
    ASSUME NEW e \in Seq(0 .. 9), NEW w, Values(w, e)
    PROVE  w[Len(e)] < Scale(Len(e))
<1> DEFINE S == {k \in Nat : k <= Len(e) => w[k] < Scale(k)}
<1>1. 0 \in S
  BY ScaleKnown DEF Values
<1>2. ASSUME NEW k \in Nat, k \in S PROVE k + 1 \in S
  <2> SUFFICES ASSUME k + 1 <= Len(e) PROVE w[k + 1] < Scale(k + 1)
    OBVIOUS
  <2>1. k + 1 \in 1 .. Len(e) /\ (k + 1) - 1 = k /\ w[k] < Scale(k) /\ k \in 0 .. Len(e)
    BY <1>2
  <2>2. /\ w[k + 1] = 10 * w[k] + e[k + 1] /\ e[k + 1] \in 0 .. 9 /\ w[k] \in Nat
        /\ Scale(k + 1) = 10 * Scale(k) /\ Scale(k) \in Nat
    <3>0. e[k + 1] \in 0 .. 9
      BY <2>1
    <3>1. Scale(k + 1) = 10 * Scale(k) /\ Scale(k) \in Nat
      BY ScaleKnown
    <3>2. w[k + 1] = 10 * w[k] + e[k + 1]
      BY <2>1 DEF Values
    <3>3. w[k] \in Nat
      BY <2>1 DEF Values
    <3> QED
      BY <3>0, <3>1, <3>2, <3>3
  <2> QED
    BY <2>1, <2>2
<1> HIDE DEF S
<1>3. \A k \in Nat : k \in S => k + 1 \in S
  BY <1>2
<1>4. Nat \subseteq S
  BY ONLY <1>1, <1>3, Induction
<1> QED
  BY <1>4 DEF S

(* Rounding down. *)
LEMMA Quotient ==
    ASSUME NEW x \in Nat, NEW y \in Nat, y > 0, NEW q \in Nat,
           q * y <= x, x < (q + 1) * y
    PROVE  x \div y = q
BY SMT

(* A product is divided without rest. *)
LEMMA Exactly ==
    ASSUME NEW W \in Nat, NEW f \in Nat, NEW b \in Nat, NEW l \in Nat, NEW x, NEW q,
           x = (W * l + f) * (b * l), q = W * (b * l) + f * b
    PROVE  q \in Nat /\ x = q * l
<1>1. q \in Nat
  BY SMT
<1>2. (W * l + f) * (b * l) = (W * (b * l) + f * b) * l
  BY SMT
<1> QED
  BY <1>1, <1>2

(* What is less than the divisor is lost. *)
LEMMA RoundedDown ==
    ASSUME NEW W \in Nat, NEW P \in Nat, NEW r \in Nat, NEW e \in Nat, NEW c \in Nat,
           r < e, c > 0,
           NEW x, x = (W * (e * c) + (P * e + r)) * c,
           NEW q, q = W * c + P
    PROVE  /\ q * (e * c) <= x
           /\ x < (q + 1) * (e * c)
<1> DEFINE u == W * (e * c) + P * e
<1>1. u \in Nat /\ q \in Nat
  BY SMT
<1>2. q * (e * c) = u * c
  BY SMT
<1>3. (q + 1) * (e * c) = (u + e) * c
  BY SMT
<1>4. x = (u + r) * c
  BY SMT
<1> HIDE DEF u
<1>5. u * c <= (u + r) * c /\ (u + r) * c < (u + e) * c
  BY <1>1, SMT
<1> QED
  BY <1>2, <1>3, <1>4, <1>5

(* The value of digits after others. *)
LEMMA ValueConcat ==
    ASSUME NEW d \in Seq(Nat), NEW e \in Seq(Nat)
    PROVE  /\ ValueOf(d) \in Nat /\ ValueOf(e) \in Nat
           /\ ValueOf(d \o e) = ValueOf(d) * Scale(Len(e)) + ValueOf(e)
<1> DEFINE c == d \o e
<1>1. /\ c \in Seq(Nat) /\ Len(c) = Len(d) + Len(e)
      /\ Len(d) \in Nat /\ Len(e) \in Nat
      /\ \A i \in 1 .. Len(d) : c[i] = d[i]
      /\ \A k \in 1 .. Len(e) : c[Len(d) + k] = e[k] /\ e[k] \in Nat
  BY ConcatProperties
<1> HIDE DEF c
<1>2. PICK v : Values(v, c)
  BY <1>1, ValuesExist
<1>3. PICK x : Values(x, d)
  BY ValuesExist
<1>4. PICK w : Values(w, e)
  BY ValuesExist
<1>5. Len(c) \in Nat /\ Len(d) <= Len(c) /\ Len(d) + Len(e) <= Len(c)
  BY <1>1
<1>6. v[Len(d)] = x[Len(d)]
  <2>1. Alike(c, d, Len(d)) /\ Len(d) \in Nat
    BY <1>1, <1>5 DEF Alike
  <2> QED
    BY ONLY <1>2, <1>3, <2>1, ValuesAlike
<1>7. v[Len(d) + Len(e)] = v[Len(d)] * Scale(Len(e)) + w[Len(e)]
  <2>1. After(c, e, Len(d)) /\ Len(d) \in Nat
    BY <1>1, <1>5 DEF After
  <2> QED
    BY ONLY <1>2, <1>4, <2>1, ValuesAfter
<1>8. /\ ValueOf(d) = x[Len(d)] /\ ValueOf(e) = w[Len(e)] /\ ValueOf(c) = v[Len(c)]
      /\ x[Len(d)] \in Nat /\ w[Len(e)] \in Nat
  <2>1. Len(d) \in 0 .. Len(d) /\ Len(e) \in 0 .. Len(e)
    BY <1>1
  <2> QED
    BY <1>2, <1>3, <1>4, <2>1 DEF Values
<1> QED
  BY <1>1, <1>6, <1>7, <1>8 DEF c

(* The decimals that are kept, noughts where none were typed. *)
LEMMA PaddedKnown ==
    ASSUME NEW f \in Seq(0 .. 9)
    PROVE  /\ Padded(f) \in Seq(0 .. 9) /\ Len(Padded(f)) = Decimals
           /\ \A i \in 1 .. Decimals :
                 Padded(f)[i] = IF i <= Len(f) THEN f[i] ELSE 0
<1> DEFINE z == [i \in 1 .. Decimals |-> 0]
           c == f \o z
           D == 0 .. 9
<1>1. Decimals \in Nat
  BY ArgsAssumption
<1>2. z \in Seq(D) /\ Len(z) = Decimals /\ \A i \in 1 .. Decimals : z[i] = 0
  <2>1. \A i \in 1 .. Decimals : 0 \in D
    OBVIOUS
  <2> QED
    BY <1>1, <2>1
<1> HIDE DEF D, z
<1>3. f \in Seq(D) /\ Len(f) \in Nat
  BY DEF D
<1>4. /\ c \in Seq(D) /\ Len(c) = Len(f) + Decimals
      /\ \A i \in 1 .. Len(f) : c[i] = f[i]
      /\ \A k \in 1 .. Decimals : c[Len(f) + k] = 0
  <2>1. /\ c \in Seq(D) /\ Len(c) = Len(f) + Len(z)
        /\ \A i \in 1 .. Len(f) + Len(z) :
              c[i] = IF i <= Len(f) THEN f[i] ELSE z[i - Len(f)]
    BY ONLY <1>2, <1>3, ConcatProperties
  <2>2. ASSUME NEW k \in 1 .. Decimals PROVE c[Len(f) + k] = 0
    <3>1. /\ Len(f) + k \in 1 .. Len(f) + Len(z) /\ ~(Len(f) + k <= Len(f))
          /\ (Len(f) + k) - Len(f) = k
      BY <1>1, <1>2, <1>3
    <3> QED
      BY <1>2, <2>1, <3>1
  <2>3. ASSUME NEW i \in 1 .. Len(f) PROVE c[i] = f[i]
    <3>1. i \in 1 .. Len(f) + Len(z) /\ i <= Len(f)
      BY <1>1, <1>2, <1>3
    <3> QED
      BY <2>1, <3>1
  <2> QED
    BY <1>2, <2>1, <2>2, <2>3
<1> HIDE DEF c
<1>5. /\ 1 \in Int /\ Decimals \in Int
      /\ \A i \in 1 .. Decimals : i \in 1 .. Len(c)
  BY <1>1, <1>3, <1>4
<1>6. \A i \in 1 .. Decimals : c[i] \in D
  BY <1>4, <1>5
<1>7. /\ SubSeq(c, 1, Decimals) \in Seq(D)
      /\ Len(SubSeq(c, 1, Decimals)) = IF 1 <= Decimals THEN Decimals - 1 + 1 ELSE 0
      /\ \A i \in 1 .. Decimals - 1 + 1 : SubSeq(c, 1, Decimals)[i] = c[1 + i - 1]
  BY ONLY <1>5, <1>6, SubSeqProperties
<1>8. Padded(f) = SubSeq(c, 1, Decimals)
  BY DEF Padded, c, z
<1>9. Decimals - 1 + 1 = Decimals /\ (~(1 <= Decimals) => Decimals = 0)
      /\ \A i \in 1 .. Decimals : 1 + i - 1 = i
  BY <1>1
<1>10. ASSUME NEW i \in 1 .. Decimals
       PROVE  c[i] = IF i <= Len(f) THEN f[i] ELSE 0
  <2>1. CASE i <= Len(f)
    BY <1>3, <1>4, <2>1
  <2>2. CASE ~(i <= Len(f))
    <3>1. i - Len(f) \in 1 .. Decimals /\ Len(f) + (i - Len(f)) = i
      BY <1>1, <1>3, <2>2
    <3> QED
      BY <1>4, <2>2, <3>1
  <2> QED
    BY <2>1, <2>2
<1>11. \A i \in 1 .. Decimals : Padded(f)[i] = c[i]
  BY <1>7, <1>8, <1>9
<1>12. Len(Padded(f)) = Decimals /\ Padded(f) \in Seq(D)
  BY <1>7, <1>8, <1>9
<1> QED
  BY <1>10, <1>11, <1>12 DEF D

(* A cost is the amount that was typed, rounded down to the units kept. *)
LEMMA CostMeant ==
    ASSUME NEW whole \in Seq(0 .. 9), NEW frac \in Seq(0 .. 9)
    PROVE  /\ ValueOf(whole) \in Nat /\ ValueOf(Padded(frac)) \in Nat
           /\ ValueOf(whole) * Scale(Decimals) + ValueOf(Padded(frac))
                = (ValueOf(whole \o frac) * Scale(Decimals)) \div Scale(Len(frac))
<1> DEFINE W == ValueOf(whole)
           P == ValueOf(Padded(frac))
           f == ValueOf(frac)
           L == Len(frac)
           c == Scale(Decimals)
           l == Scale(L)
           x == ValueOf(whole \o frac) * c
           q == W * c + P
           pad == Padded(frac)
<1>1. whole \in Seq(Nat) /\ frac \in Seq(Nat) /\ L \in Nat /\ Decimals \in Nat
  BY ArgsAssumption
<1>2. /\ pad \in Seq(0 .. 9) /\ Len(pad) = Decimals
      /\ \A i \in 1 .. Decimals : pad[i] = IF i <= L THEN frac[i] ELSE 0
  BY PaddedKnown
<1> HIDE DEF pad
<1>3. pad \in Seq(Nat)
  BY <1>2
<1>4. W \in Nat /\ f \in Nat /\ ValueOf(whole \o frac) = W * l + f
  BY <1>1, ValueConcat
<1>5. P \in Nat
  BY <1>3, ValueConcat DEF pad
<1>6. c \in Nat /\ c > 0 /\ l \in Nat /\ l > 0
  BY <1>1, ScaleKnown, ScalePositive
<1>7. PICK v : Values(v, frac)
  BY <1>1, ValuesExist
<1>8. PICK p : Values(p, pad)
  BY <1>3, ValuesExist
<1>9. f = v[L] /\ P = p[Decimals]
  BY <1>2, <1>7, <1>8 DEF Values, pad
<1> HIDE DEF W, P, f, L, c, l
<1>10. x = (W * l + f) * c
  BY <1>4
<1> HIDE DEF x, q
<1>11. CASE L <= Decimals
  <2> DEFINE b == Scale(Decimals - L)
             e == [i \in 1 .. Decimals - L |-> 0]
  <2>1. Decimals - L \in Nat /\ (Decimals - L) + L = Decimals /\ L + (Decimals - L) = Decimals
    BY <1>1, <1>11
  <2>2. b \in Nat /\ c = b * l
    <3>1. Scale((Decimals - L) + L) = Scale(Decimals - L) * Scale(L)
      BY ONLY <1>1, <2>1, ScaleSum
    <3> QED
      BY <2>1, <3>1, ScaleKnown DEF c, l
  <2>3. /\ e \in Seq(Nat) /\ Len(e) = Decimals - L
        /\ \A k \in 1 .. Len(e) : e[k] = 0 /\ e[k] \in Nat
    BY <2>1
  <2> HIDE DEF e
  <2>4. PICK w : Values(w, e)
    BY <2>3, ValuesExist
  <2>5. w[Len(e)] = 0
    BY <2>1, <2>3, <2>4, Noughts
  <2>6. p[L] = v[L]
    <3>1. \A i \in 1 .. L : pad[i] = frac[i]
      <4> TAKE i \in 1 .. L
      <4>1. i \in 1 .. Decimals /\ i <= L
        BY <1>1, <1>11
      <4> QED
        BY <1>2, <4>1
    <3>2. Len(pad) \in Nat /\ Len(frac) \in Nat /\ L <= Len(pad) /\ L <= Len(frac) /\ L \in Nat
      BY <1>1, <1>2, <1>11 DEF L
    <3> QED
      <4>1. Alike(pad, frac, L) /\ L \in Nat
        BY <3>1, <3>2 DEF Alike
      <4> QED
        BY ONLY <1>7, <1>8, <4>1, ValuesAlike
  <2>7. p[L + Len(e)] = p[L] * Scale(Len(e)) + w[Len(e)]
    <3>1. \A k \in 1 .. Len(e) : pad[L + k] = e[k]
      <4> TAKE k \in 1 .. Len(e)
      <4>1. L + k \in 1 .. Decimals /\ ~(L + k <= L)
        BY <1>1, <2>1, <2>3
      <4> QED
        BY <1>2, <2>3, <4>1
    <3>2. /\ Len(pad) \in Nat /\ Len(e) \in Nat /\ L + Len(e) <= Len(pad) /\ L \in Nat
          /\ \A k \in 1 .. Len(e) : e[k] \in Nat
      BY <1>1, <1>2, <2>1, <2>3
    <3> QED
      <4>1. After(pad, e, L) /\ L \in Nat
        BY <3>1, <3>2 DEF After
      <4> QED
        BY ONLY <1>8, <2>4, <4>1, ValuesAfter
  <2> HIDE DEF b
  <2>8. P = f * b
    <3>1. P = f * b + 0
      BY <1>9, <2>1, <2>3, <2>5, <2>6, <2>7 DEF b
    <3> QED
      BY <1>4, <2>2, <3>1
  <2>9. x = (W * l + f) * (b * l) /\ q = W * (b * l) + f * b
    BY <1>10, <2>2, <2>8 DEF q
  <2>10. q \in Nat /\ x = q * l
    BY ONLY <1>4, <1>6, <2>2, <2>9, Exactly
  <2>11. x \in Nat /\ q * l <= x /\ x < (q + 1) * l
    BY ONLY <1>6, <2>10
  <2>12. x \div l = q
    BY ONLY <1>6, <2>10, <2>11, Quotient
  <2> QED
    BY <1>4, <1>5, <2>12 DEF x, l, q, c, W, P, L
<1>12. CASE ~(L <= Decimals)
  <2> DEFINE e == Scale(L - Decimals)
             tail == [i \in 1 .. L - Decimals |-> frac[Decimals + i]]
  <2>1. /\ L - Decimals \in Nat /\ (L - Decimals) + Decimals = L
        /\ Decimals + (L - Decimals) = L /\ Decimals <= L
    BY <1>1, <1>12
  <2>2. e \in Nat /\ l = e * c
    <3>1. Scale((L - Decimals) + Decimals) = Scale(L - Decimals) * Scale(Decimals)
      BY ONLY <1>1, <2>1, ScaleSum
    <3> QED
      BY <2>1, <3>1, ScaleKnown DEF c, l
  <2>3. /\ tail \in Seq(0 .. 9) /\ tail \in Seq(Nat) /\ Len(tail) = L - Decimals
        /\ \A k \in 1 .. L - Decimals : tail[k] = frac[Decimals + k]
    <3>1. \A k \in 1 .. L - Decimals : frac[Decimals + k] \in 0 .. 9
      <4> TAKE k \in 1 .. L - Decimals
      <4>1. Decimals + k \in 1 .. Len(frac)
        BY <1>1, <2>1 DEF L
      <4> QED
        BY <4>1
    <3> DEFINE D == 0 .. 9
    <3>2. tail \in Seq(D) /\ Len(tail) = L - Decimals
      <4>1. \A k \in 1 .. L - Decimals : tail[k] \in D
        BY <3>1
      <4>2. tail \in [1 .. L - Decimals -> D]
        BY <4>1
      <4> HIDE DEF D, tail
      <4> QED
        BY <2>1, <4>2
    <3> QED
      BY <2>1, <3>1, <3>2
  <2> HIDE DEF tail
  <2>4. PICK w : Values(w, tail)
    BY <2>3, ValuesExist
  <2> DEFINE r == w[Len(tail)]
  <2>5. r \in Nat /\ r < e
    <3>1. r < Scale(Len(tail))
      BY <2>3, <2>4, ValueBounded
    <3>2. r \in Nat
      BY <2>1, <2>3, <2>4 DEF Values
    <3> QED
      BY <2>3, <3>1, <3>2
  <2>6. p[Decimals] = v[Decimals]
    <3>1. \A i \in 1 .. Decimals : pad[i] = frac[i]
      <4> TAKE i \in 1 .. Decimals
      <4>1. i <= L
        BY <1>1, <2>1
      <4> QED
        BY <1>2, <4>1
    <3>2. /\ Len(pad) \in Nat /\ Len(frac) \in Nat /\ Decimals <= Len(pad)
          /\ Decimals <= Len(frac) /\ Decimals \in Nat
      BY <1>1, <1>2, <2>1 DEF L
    <3> QED
      <4>1. Alike(pad, frac, Decimals) /\ Decimals \in Nat
        BY <3>1, <3>2 DEF Alike
      <4> QED
        BY ONLY <1>7, <1>8, <4>1, ValuesAlike
  <2>7. v[Decimals + Len(tail)] = v[Decimals] * Scale(Len(tail)) + w[Len(tail)]
    <3>1. \A k \in 1 .. Len(tail) : frac[Decimals + k] = tail[k]
      BY <2>3
    <3>2. /\ Len(frac) \in Nat /\ Len(tail) \in Nat /\ Decimals + Len(tail) <= Len(frac)
          /\ Decimals \in Nat
      BY <1>1, <2>1, <2>3 DEF L
    <3>3. \A k \in 1 .. Len(tail) : tail[k] \in Nat
      BY <2>3
    <3> QED
      <4>1. After(frac, tail, Decimals) /\ Decimals \in Nat
        BY <3>1, <3>2, <3>3 DEF After
      <4> QED
        BY ONLY <1>7, <2>4, <4>1, ValuesAfter
  <2>8. f = P * e + r
    BY <1>9, <2>1, <2>3, <2>6, <2>7
  <2> HIDE DEF e, r
  <2>9. x = (W * (e * c) + (P * e + r)) * c /\ q = W * c + P
    BY <1>10, <2>2, <2>8 DEF q
  <2>10. q * (e * c) <= x /\ x < (q + 1) * (e * c)
    BY ONLY <1>4, <1>5, <1>6, <2>2, <2>5, <2>9, RoundedDown
  <2>11. x \in Nat /\ q \in Nat
    <3>1. W * l \in Nat /\ W * c \in Nat
      BY ONLY <1>4, <1>6
    <3>2. (W * l + f) * c \in Nat /\ W * c + P \in Nat
      BY ONLY <1>4, <1>5, <1>6, <3>1
    <3> QED
      BY <1>10, <2>9, <3>2
  <2>12. q * l <= x /\ x < (q + 1) * l
    BY <2>2, <2>10
  <2>13. x \div l = q
    BY ONLY <1>6, <2>11, <2>12, Quotient
  <2> QED
    BY <1>4, <1>5, <2>13 DEF x, l, q, c, W, P, L
<1> QED
  BY <1>11, <1>12

-----------------------------------------------------------------------------
Digits == Seq(0 .. 9)
Typings == [kind : {"cost", "tokens", "force", "show", "other"}, dollar : BOOLEAN,
            whole : Digits, point : BOOLEAN, frac : Digits, odd : BOOLEAN]
Readings == [what : {"set", "refused"}, cost : Nat, tokens : Nat, force : BOOLEAN]

(* A word is worth something exactly when it says what it should, and then *)
(* what was meant.                                                         *)
LEMMA WordMeant ==
    ASSUME NEW a \in Typings, a.frac # <<>> => a.point
    PROVE  /\ parse_cost_value(a) \in Nat /\ parse_tokens_value(a) \in Nat
           /\ a.kind = "cost" =>
                 /\ parse_cost_value(a) > 0 <=> SoundArg(a)
                 /\ SoundArg(a) => parse_cost_value(a) = MeantCap(a)
           /\ a.kind = "tokens" =>
                 /\ parse_tokens_value(a) > 0 <=> SoundArg(a)
                 /\ SoundArg(a) => parse_tokens_value(a) = MeantCap(a)
<1> DEFINE W == ValueOf(a.whole)
           P == ValueOf(Padded(a.frac))
           c == Scale(Decimals)
           total == W * c + P
           all == ValueOf(a.whole \o a.frac)
<1>1. /\ a.whole \in Seq(0 .. 9) /\ a.frac \in Seq(0 .. 9)
      /\ a.dollar \in BOOLEAN /\ a.odd \in BOOLEAN /\ a.point \in BOOLEAN
  BY DEF Typings, Digits
<1>2. /\ W \in Nat /\ P \in Nat
      /\ total = (all * c) \div Scale(Len(a.frac))
  BY <1>1, CostMeant
<1>3. c \in Nat /\ c > 0 /\ MaxU64 \in Nat
  BY ScaleKnown, ScalePositive, ArgsAssumption
<1>4. parse_cost_value(a) = IF /\ a.dollar /\ ~a.odd /\ a.whole # <<>>
                               /\ W <= MaxU64 /\ total <= MaxU64
                            THEN total ELSE 0
  BY DEF parse_cost_value
<1>5. parse_tokens_value(a) = IF /\ ~a.odd /\ ~a.point /\ ~a.dollar /\ a.whole # <<>>
                                 /\ W <= MaxU64
                              THEN W ELSE 0
  BY DEF parse_tokens_value
<1>6. a.kind = "cost" => MeantCap(a) = total
  BY <1>2 DEF MeantCap
<1>7. a.kind = "tokens" /\ ~a.point => MeantCap(a) = W
  <2> SUFFICES ASSUME a.kind = "tokens", ~a.point PROVE MeantCap(a) = W
    OBVIOUS
  <2>1. a.frac = <<>>
    OBVIOUS
  <2>2. a.whole \o a.frac = a.whole
    BY <1>1, <2>1, ConcatEmptySeq
  <2> QED
    BY <2>2 DEF MeantCap
<1> HIDE DEF W, P, c, all
<1>8. total \in Nat /\ W <= total
  <2>1. W * c \in Nat /\ W <= W * c
    BY <1>2, <1>3, SMT
  <2> QED
    BY <1>2, <2>1
<1> HIDE DEF total
<1>9. a.kind = "cost" => (SoundArg(a) <=> /\ ~a.odd /\ a.whole # <<>> /\ a.dollar
                                         /\ total \in 1 .. MaxU64)
  BY <1>1, <1>6 DEF SoundArg
<1>10. a.kind = "tokens" => (SoundArg(a) <=> /\ ~a.odd /\ a.whole # <<>> /\ ~a.dollar
                                            /\ ~a.point /\ W \in 1 .. MaxU64)
  BY <1>1, <1>7 DEF SoundArg
<1>11. parse_cost_value(a) \in Nat /\ parse_tokens_value(a) \in Nat
  BY <1>2, <1>4, <1>5, <1>8
<1>12. ASSUME a.kind = "cost"
       PROVE  /\ parse_cost_value(a) > 0 <=> SoundArg(a)
              /\ SoundArg(a) => parse_cost_value(a) = MeantCap(a)
  BY <1>2, <1>3, <1>4, <1>6, <1>8, <1>9, <1>12
<1>13. ASSUME a.kind = "tokens"
       PROVE  /\ parse_tokens_value(a) > 0 <=> SoundArg(a)
              /\ SoundArg(a) => parse_tokens_value(a) = MeantCap(a)
  BY <1>2, <1>3, <1>5, <1>7, <1>10, <1>13
<1> QED
  BY <1>11, <1>12, <1>13

(* What a word does to what was read before it. *)
LEMMA ArgRead ==
    ASSUME NEW a \in Typings, a.frac # <<>> => a.point,
           NEW s \in Readings, s.what = "set" \/ s = Refusal,
           NEW t, t = ReadArg(s, a)
    PROVE  /\ t \in Readings
           /\ s = Refusal \/ ~SoundArg(a) => t = Refusal
           /\ s.what = "set" /\ SoundArg(a) =>
                 /\ t.what = "set"
                 /\ t.cost = IF a.kind = "cost" THEN MeantCap(a) ELSE s.cost
                 /\ t.tokens = IF a.kind = "tokens" THEN MeantCap(a) ELSE s.tokens
                 /\ t.force <=> s.force \/ a.kind = "force"
<1> DEFINE x == parse_cost_value(a)
           y == parse_tokens_value(a)
<1>1. /\ x \in Nat /\ y \in Nat
      /\ a.kind = "cost" => (x > 0 <=> SoundArg(a)) /\ (SoundArg(a) => x = MeantCap(a))
      /\ a.kind = "tokens" => (y > 0 <=> SoundArg(a)) /\ (SoundArg(a) => y = MeantCap(a))
  BY WordMeant
<1>2. Refusal \in Readings /\ Refusal.what = "refused"
  BY DEF Refusal, Readings
<1>3. t = CASE s = Refusal -> Refusal
            [] s # Refusal /\ a.kind = "force" -> [s EXCEPT !.force = TRUE]
            [] s # Refusal /\ a.kind = "cost" /\ x > 0 -> [s EXCEPT !.cost = x]
            [] s # Refusal /\ a.kind = "tokens" /\ y > 0 -> [s EXCEPT !.tokens = y]
            [] OTHER -> Refusal
  BY DEF ReadArg
<1> HIDE DEF x, y
<1>4. CASE s = Refusal
  BY <1>2, <1>3, <1>4
<1>5. CASE s # Refusal /\ s.what = "set"
  <2>1. CASE a.kind = "force"
    <3>1. t = [s EXCEPT !.force = TRUE] /\ SoundArg(a)
      BY <1>3, <1>5, <2>1 DEF SoundArg
    <3>2. /\ t \in Readings /\ t.what = s.what /\ t.cost = s.cost
          /\ t.tokens = s.tokens /\ t.force
      BY <3>1 DEF Readings
    <3> QED
      BY <1>5, <2>1, <3>1, <3>2
  <2>2. CASE a.kind = "cost"
    <3>1. CASE x > 0
      <4>1. t = [s EXCEPT !.cost = x]
        BY <1>3, <1>5, <2>2, <3>1
      <4>2. /\ t \in Readings /\ t.what = s.what /\ t.cost = x
            /\ t.tokens = s.tokens /\ t.force = s.force
        BY <1>1, <4>1 DEF Readings
      <4> QED
        BY <1>1, <1>5, <2>2, <3>1, <4>2
    <3>2. CASE ~(x > 0)
      <4>1. t = Refusal
        BY <1>3, <1>5, <2>2, <3>2
      <4> QED
        BY <1>1, <1>2, <2>2, <3>2, <4>1
    <3> QED
      BY <3>1, <3>2
  <2>3. CASE a.kind = "tokens"
    <3>1. CASE y > 0
      <4>1. t = [s EXCEPT !.tokens = y]
        BY <1>3, <1>5, <2>3, <3>1
      <4>2. /\ t \in Readings /\ t.what = s.what /\ t.cost = s.cost
            /\ t.tokens = y /\ t.force = s.force
        BY <1>1, <4>1 DEF Readings
      <4> QED
        BY <1>1, <1>5, <2>3, <3>1, <4>2
    <3>2. CASE ~(y > 0)
      <4>1. t = Refusal
        BY <1>3, <1>5, <2>3, <3>2
      <4> QED
        BY <1>1, <1>2, <2>3, <3>2, <4>1
    <3> QED
      BY <3>1, <3>2
  <2>4. CASE a.kind \notin {"force", "cost", "tokens"}
    <3>1. t = Refusal /\ ~SoundArg(a)
      BY <1>3, <1>5, <2>4 DEF SoundArg
    <3> QED
      BY <1>2, <3>1
  <2> QED
    BY <2>1, <2>2, <2>3, <2>4
<1> QED
  BY <1>2, <1>4, <1>5

(* The words of a command, and what has been read after each of them. *)
Command(words) ==
    /\ words \in Seq(Typings)
    /\ \A i \in DOMAIN words : words[i].frac # <<>> => words[i].point
NothingRead == [Refusal EXCEPT !.what = "set"]
HeardSoFar == {s \in Readings : s.what = "set" \/ s = Refusal}
Reads(r, words) ==
    /\ r \in [0 .. Len(words) -> HeardSoFar] /\ r[0] = NothingRead
    /\ \A k \in 1 .. Len(words) : r[k] = ReadArg(r[k - 1], words[k])

(* Every command is read that way. *)
LEMMA ReadsExist ==
    ASSUME NEW words, Command(words)
    PROVE  \E r : /\ Reads(r, words)
                  /\ parse_budget_args(words) =
                        IF Len(words) = 1 /\ words[1].kind = "show"
                        THEN [Refusal EXCEPT !.what = "show"]
                        ELSE IF r[Len(words)].cost = 0 /\ r[Len(words)].tokens = 0
                        THEN Refusal ELSE r[Len(words)]
<1> DEFINE n == Len(words)
           F == [k \in 1 .. n |-> [x \in HeardSoFar |-> ReadArg(x, words[k])]]
           IsF(g) == g = [k \in 0 .. n |-> IF k = 0 THEN [Refusal EXCEPT !.what = "set"]
                                           ELSE ReadArg(g[k - 1], words[k])]
           f == CHOOSE g : IsF(g)
<1>0. n \in Nat /\ \A k \in 1 .. n : /\ words[k] \in Typings
                                     /\ words[k].frac # <<>> => words[k].point
  BY DEF Command
<1>6. parse_budget_args(words) =
        IF n = 1 /\ words[1].kind = "show" THEN [Refusal EXCEPT !.what = "show"]
        ELSE IF f[n].cost = 0 /\ f[n].tokens = 0 THEN Refusal ELSE f[n]
  BY DEF parse_budget_args
<1> HIDE DEF n
<1>1. NothingRead \in HeardSoFar
  BY DEF HeardSoFar, NothingRead, Readings, Refusal
<1>2. \A k \in 1 .. n : \A x \in HeardSoFar : ReadArg(x, words[k]) \in HeardSoFar
  <2> TAKE k \in 1 .. n
  <2> TAKE x \in HeardSoFar
  <2> DEFINE a == words[k]
             t == ReadArg(x, a)
  <2>1. a \in Typings /\ (a.frac # <<>> => a.point)
    BY <1>0
  <2>2. x \in Readings /\ (x.what = "set" \/ x = Refusal)
    BY DEF HeardSoFar
  <2> HIDE DEF a
  <2>3. /\ t \in Readings
        /\ x = Refusal \/ ~SoundArg(a) => t = Refusal
        /\ x.what = "set" /\ SoundArg(a) => t.what = "set"
    BY ONLY <2>1, <2>2, ArgRead
  <2> HIDE DEF t
  <2>4. t \in HeardSoFar
    BY <2>2, <2>3 DEF HeardSoFar
  <2> QED
    BY <2>4 DEF t, a
<1>3. F \in [1 .. n -> [HeardSoFar -> HeardSoFar]]
  BY <1>2
<1>4. PICK g : PassesOver(g, n, HeardSoFar, NothingRead, F)
  <2> HIDE DEF F
  <2> QED
    BY ONLY <1>0, <1>1, <1>3, PassExists
<1>5. /\ g \in [0 .. n -> HeardSoFar]
      /\ \A k \in 0 .. n : g[k] = IF k = 0 THEN NothingRead ELSE ReadArg(g[k - 1], words[k])
  <2>1. /\ g \in [0 .. n -> HeardSoFar]
        /\ \A k \in 0 .. n : g[k] = IF k = 0 THEN NothingRead ELSE F[k][g[k - 1]]
    BY <1>4 DEF PassesOver
  <2>2. \A k \in 1 .. n : k - 1 \in 0 .. n
    BY <1>0
  <2>3. \A k \in 1 .. n : F[k][g[k - 1]] = ReadArg(g[k - 1], words[k])
    BY <2>1, <2>2
  <2>4. \A k \in 0 .. n : k = 0 \/ k \in 1 .. n
    BY <1>0
  <2> HIDE DEF F
  <2> QED
    BY <2>1, <2>3, <2>4
<1>7. IsF(g)
  BY <1>5 DEF NothingRead
<1>8. IsF(f)
  BY <1>7
<1> HIDE DEF f
<1>9. \A k \in 0 .. n : f[k] = IF k = 0 THEN NothingRead ELSE ReadArg(f[k - 1], words[k])
  BY <1>8 DEF NothingRead
<1>10. f[0] = NothingRead /\ \A k \in 1 .. n : f[k] = ReadArg(f[k - 1], words[k])
  BY <1>0, <1>9
<1>11. \A k \in 0 .. n : f[k] \in HeardSoFar
  <2>1. \A k \in 1 .. n : f[k - 1] \in HeardSoFar => f[k] = F[k][f[k - 1]]
    BY <1>10
  <2> HIDE DEF F
  <2> QED
    BY ONLY <1>0, <1>1, <1>3, <1>10, <2>1, PassTyped
<1>12. f \in [0 .. n -> HeardSoFar]
  BY <1>8, <1>11
<1>13. Reads(f, words)
  BY <1>10, <1>12 DEF Reads, n
<1> QED
  BY <1>6, <1>13 DEF n

(* x is the amount the last word of a kind among the first k means. *)
IsLast(words, kind, k, x) ==
    \/ x = 0 /\ \A i \in 1 .. k : words[i].kind # kind
    \/ \E i \in 1 .. k : /\ words[i].kind = kind /\ x = MeantCap(words[i])
                         /\ \A j \in 1 .. k : words[j].kind = kind => j <= i

(* What was read after k words. *)
ReadSoFar(words, k, s) ==
    IF \A i \in 1 .. k : SoundArg(words[i])
    THEN /\ s.what = "set"
         /\ IsLast(words, "cost", k, s.cost) /\ IsLast(words, "tokens", k, s.tokens)
         /\ s.force <=> \E i \in 1 .. k : words[i].kind = "force"
    ELSE s = Refusal

(* Another word of the kind is the last, any other leaves the last. *)
LEMMA LastStep ==
    ASSUME NEW words, NEW kind, NEW k \in Nat, NEW x, NEW y, IsLast(words, kind, k, x),
           y = IF words[k + 1].kind = kind THEN MeantCap(words[k + 1]) ELSE x
    PROVE  IsLast(words, kind, k + 1, y)
<1>1. \A i \in 1 .. k + 1 : i \in 1 .. k \/ i = k + 1
  OBVIOUS
<1>2. \A i \in 1 .. k : i \in 1 .. k + 1 /\ i <= k + 1
  OBVIOUS
<1>3. k + 1 \in 1 .. k + 1 /\ k + 1 <= k + 1
  OBVIOUS
<1>4. CASE words[k + 1].kind = kind
  BY <1>1, <1>2, <1>3, <1>4 DEF IsLast
<1>5. CASE words[k + 1].kind # kind
  <2>1. CASE x = 0 /\ \A i \in 1 .. k : words[i].kind # kind
    BY <1>1, <1>5, <2>1 DEF IsLast
  <2>2. CASE \E i \in 1 .. k : /\ words[i].kind = kind /\ x = MeantCap(words[i])
                               /\ \A j \in 1 .. k : words[j].kind = kind => j <= i
    BY <1>1, <1>2, <1>5, <2>2 DEF IsLast
  <2> QED
    BY <2>1, <2>2 DEF IsLast
<1> QED
  BY <1>4, <1>5

(* Every word keeps it. *)
LEMMA ReadKeeps ==
    ASSUME NEW words, Command(words), NEW k \in Nat, k + 1 <= Len(words),
           NEW s \in HeardSoFar, ReadSoFar(words, k, s),
           NEW t, t = ReadArg(s, words[k + 1])
    PROVE  ReadSoFar(words, k + 1, t)
<1> DEFINE a == words[k + 1]
           Sound(m) == \A i \in 1 .. m : SoundArg(words[i])
<1>1. a \in Typings /\ (a.frac # <<>> => a.point) /\ k + 1 \in 1 .. Len(words)
  BY DEF Command
<1>2. s \in Readings /\ (s.what = "set" \/ s = Refusal)
  BY DEF HeardSoFar
<1>3. /\ s = Refusal \/ ~SoundArg(a) => t = Refusal
      /\ s.what = "set" /\ SoundArg(a) =>
            /\ t.what = "set"
            /\ t.cost = IF a.kind = "cost" THEN MeantCap(a) ELSE s.cost
            /\ t.tokens = IF a.kind = "tokens" THEN MeantCap(a) ELSE s.tokens
            /\ t.force <=> s.force \/ a.kind = "force"
  BY <1>1, <1>2, ArgRead
<1>4. /\ \A i \in 1 .. k + 1 : i \in 1 .. k \/ i = k + 1
      /\ \A i \in 1 .. k : i \in 1 .. k + 1
      /\ k + 1 \in 1 .. k + 1
  OBVIOUS
<1>5. Sound(k + 1) <=> Sound(k) /\ SoundArg(a)
  BY <1>4
<1>6. CASE ~Sound(k)
  BY <1>3, <1>5, <1>6 DEF ReadSoFar
<1>7. CASE Sound(k) /\ ~SoundArg(a)
  BY <1>3, <1>5, <1>7 DEF ReadSoFar
<1>8. CASE Sound(k) /\ SoundArg(a)
  <2>1. /\ s.what = "set"
        /\ IsLast(words, "cost", k, s.cost) /\ IsLast(words, "tokens", k, s.tokens)
        /\ s.force <=> \E i \in 1 .. k : words[i].kind = "force"
    BY <1>8 DEF ReadSoFar
  <2>2. IsLast(words, "cost", k + 1, t.cost)
    BY <1>3, <1>8, <2>1, LastStep
  <2>3. IsLast(words, "tokens", k + 1, t.tokens)
    BY <1>3, <1>8, <2>1, LastStep
  <2>4. t.force <=> \E i \in 1 .. k + 1 : words[i].kind = "force"
    BY <1>3, <1>4, <1>8, <2>1
  <2> QED
    BY <1>3, <1>5, <1>8, <2>1, <2>2, <2>3, <2>4 DEF ReadSoFar
<1> QED
  BY <1>6, <1>7, <1>8

(* The same as the property names it. *)
LastAmount(words, kind) ==
    LET at == {i \in DOMAIN words : words[i].kind = kind}
    IN  IF at = {} THEN 0
        ELSE MeantCap(words[CHOOSE i \in at : \A j \in at : j <= i])

(* The two name the same amount. *)
LEMMA LastKnown ==
    ASSUME NEW words, NEW n \in Nat, DOMAIN words = 1 .. n, NEW kind, NEW x,
           IsLast(words, kind, n, x)
    PROVE  x = LastAmount(words, kind)
<1> DEFINE at == {i \in DOMAIN words : words[i].kind = kind}
<1> SUFFICES x = IF at = {} THEN 0
                 ELSE MeantCap(words[CHOOSE i \in at : \A j \in at : j <= i])
  BY DEF LastAmount
<1>1. CASE x = 0 /\ \A i \in 1 .. n : words[i].kind # kind
  BY <1>1
<1>2. CASE \E i \in 1 .. n : /\ words[i].kind = kind /\ x = MeantCap(words[i])
                             /\ \A j \in 1 .. n : words[j].kind = kind => j <= i
  <2>1. PICK i \in 1 .. n : /\ words[i].kind = kind /\ x = MeantCap(words[i])
                            /\ \A j \in 1 .. n : words[j].kind = kind => j <= i
    BY <1>2
  <2>2. i \in at /\ (\A j \in at : j <= i) /\ at # {}
    BY <2>1
  <2>3. \A m \in at : (\A j \in at : j <= m) => m = i
    BY <2>2
  <2>4. (CHOOSE m \in at : \A j \in at : j <= m) = i
    BY <2>2, <2>3
  <2> QED
    BY <2>1, <2>2, <2>4
<1> QED
  BY <1>1, <1>2 DEF IsLast

(* Whatever is typed, a cap is what was meant. *)
LEMMA CapsKnown == ASSUME Command(args) PROVE CapsAreMeant
<1> DEFINE n == Len(args)
           read == parse_budget_args(args)
           Sound == \A i \in DOMAIN args : SoundArg(args[i])
           Named == \E i \in DOMAIN args : args[i].kind # "force"
<1>1. n \in Nat /\ DOMAIN args = 1 .. n /\ \A i \in 1 .. n : args[i] \in Typings
  BY DEF Command
<1>2. PICK r : /\ Reads(r, args)
               /\ read = IF n = 1 /\ args[1].kind = "show"
                         THEN [Refusal EXCEPT !.what = "show"]
                         ELSE IF r[n].cost = 0 /\ r[n].tokens = 0
                         THEN Refusal ELSE r[n]
  BY ReadsExist
<1> HIDE DEF read
<1> DEFINE S == {k \in Nat : k <= n => ReadSoFar(args, k, r[k])}
<1>3. 0 \in S
  <2>1. r[0] = NothingRead
    BY <1>2 DEF Reads
  <2>2. /\ NothingRead.what = "set" /\ NothingRead.cost = 0
        /\ NothingRead.tokens = 0 /\ ~NothingRead.force
    BY DEF NothingRead, Refusal
  <2>3. \A i : i \notin 1 .. 0
    OBVIOUS
  <2>4. ReadSoFar(args, 0, r[0])
    BY <2>1, <2>2, <2>3 DEF ReadSoFar, IsLast
  <2> QED
    BY <2>4
<1>4. ASSUME NEW k \in Nat, k \in S PROVE k + 1 \in S
  <2> SUFFICES ASSUME k + 1 <= n PROVE ReadSoFar(args, k + 1, r[k + 1])
    OBVIOUS
  <2>1. /\ ReadSoFar(args, k, r[k]) /\ k + 1 <= Len(args)
        /\ k + 1 \in 1 .. n /\ (k + 1) - 1 = k /\ k \in 0 .. n
    BY <1>1, <1>4
  <2>2. r[k] \in HeardSoFar /\ r[k + 1] = ReadArg(r[k], args[k + 1])
    BY <1>2, <2>1 DEF Reads
  <2> QED
    BY ONLY Command(args), k \in Nat, <2>1, <2>2, ReadKeeps
<1>5. ReadSoFar(args, n, r[n]) /\ r[n] \in Readings
  <2> HIDE DEF S
  <2>1. \A k \in Nat : k \in S => k + 1 \in S
    BY <1>4
  <2>2. Nat \subseteq S
    BY ONLY <1>3, <2>1, Induction
  <2>3. n \in 0 .. n
    BY <1>1
  <2> QED
    BY <1>1, <1>2, <2>2, <2>3 DEF S, Reads, HeardSoFar
<1> HIDE DEF n
<1>6. CASE n = 1 /\ args[1].kind = "show"
  <2>1. read.what = "show"
    BY <1>2, <1>6 DEF Refusal
  <2>2. ~Sound
    BY <1>1, <1>6 DEF SoundArg
  <2> QED
    BY <2>1, <2>2 DEF CapsAreMeant, read
<1>7. CASE ~(n = 1 /\ args[1].kind = "show") /\ ~Sound
  <2>1. read = Refusal
    BY <1>1, <1>2, <1>5, <1>7 DEF ReadSoFar
  <2>2. read.what = "refused"
    BY <2>1 DEF Refusal
  <2> QED
    BY <1>7, <2>2 DEF CapsAreMeant, read
<1>8. CASE ~(n = 1 /\ args[1].kind = "show") /\ Sound
  <2> DEFINE s == r[n]
  <2>1. /\ s.what = "set"
        /\ IsLast(args, "cost", n, s.cost) /\ IsLast(args, "tokens", n, s.tokens)
        /\ s.force <=> \E i \in 1 .. n : args[i].kind = "force"
    BY <1>1, <1>5, <1>8 DEF ReadSoFar
  <2>2. s.cost = LastAmount(args, "cost") /\ s.tokens = LastAmount(args, "tokens")
    <3>1. s.cost = LastAmount(args, "cost")
      BY <1>1, <2>1, LastKnown
    <3>2. s.tokens = LastAmount(args, "tokens")
      BY <1>1, <2>1, LastKnown
    <3> QED
      BY <3>1, <3>2
  <2> HIDE DEF s
  <2>3. \A i \in 1 .. n : args[i].kind # "force" =>
           /\ args[i].kind \in {"cost", "tokens"}
           /\ MeantCap(args[i]) > 0
    BY <1>1, <1>8 DEF SoundArg
  <2>4. ASSUME NEW kind \in {"cost", "tokens"}, NEW x, IsLast(args, kind, n, x)
        PROVE  x = 0 <=> \A i \in 1 .. n : args[i].kind # kind
    BY <2>3, <2>4 DEF IsLast
  <2>5. s.cost = 0 /\ s.tokens = 0 <=> ~Named
    <3>1. s.cost = 0 <=> \A i \in 1 .. n : args[i].kind # "cost"
      BY <2>1, <2>4
    <3>2. s.tokens = 0 <=> \A i \in 1 .. n : args[i].kind # "tokens"
      BY <2>1, <2>4
    <3> QED
      BY <1>1, <2>3, <3>1, <3>2
  <2>6. CASE ~Named
    <3>1. read = Refusal
      BY <1>2, <1>8, <2>5, <2>6 DEF s
    <3>2. read.what = "refused"
      BY <3>1 DEF Refusal
    <3> QED
      BY <2>6, <3>2 DEF CapsAreMeant, read
  <2>7. CASE Named
    <3>1. read = s
      BY <1>2, <1>8, <2>5, <2>7 DEF s
    <3>2. /\ read.what = "set" /\ read.cost = LastAmount(args, "cost")
          /\ read.tokens = LastAmount(args, "tokens")
          /\ read.force <=> \E i \in DOMAIN args : args[i].kind = "force"
      BY <1>1, <2>1, <2>2, <3>1
    <3> QED
      BY <1>8, <2>7, <3>2 DEF CapsAreMeant, read, LastAmount
  <2> QED
    BY <2>6, <2>7
<1> QED
  BY <1>6, <1>7, <1>8

(* What is typed is a command. *)
LEMMA TypedIsCommand ==
    ASSUME Command(args), [ArgsNext]_args PROVE Command(args)'
<1> DEFINE at == Len(args)
<1>0. args \in Seq(Typings) /\ at \in Nat
  BY DEF Command
<1>1. CASE UNCHANGED args
  BY <1>1 DEF Command
<1>2. CASE TypeArg
  <2>1. PICK a \in FirstArgs : args' = Append(args, a)
    BY <1>2 DEF TypeArg
  <2>2. <<>> \in Digits
    BY DEF Digits
  <2>3. a \in Typings /\ a.frac = <<>>
    <3>1. PICK kind \in {"cost", "tokens", "force", "show", "other"},
               dollar \in BOOLEAN, odd \in BOOLEAN : a = Arg(kind, dollar, odd)
      BY <2>1 DEF FirstArgs
    <3> QED
      BY <2>2, <3>1 DEF Arg, Typings
  <2>4. /\ args' \in Seq(Typings) /\ DOMAIN args' = 1 .. at + 1 /\ args'[at + 1] = a
        /\ DOMAIN args = 1 .. at
        /\ \A i \in 1 .. at : args'[i] = args[i]
        /\ \A i \in 1 .. at + 1 : i \in 1 .. at \/ i = at + 1
    BY <1>0, <2>1, <2>3
  <2> QED
    BY <2>3, <2>4 DEF Command
<1>3. CASE TypeDigit \/ TypePoint
  <2>1. /\ at \in DOMAIN args /\ args[at] \in Typings
        /\ args[at].frac # <<>> => args[at].point
    BY <1>0, <1>3 DEF TypeDigit, TypePoint, Command
  <2>2. PICK b \in Typings : /\ args' = [args EXCEPT ![at] = b]
                             /\ b.frac # <<>> => b.point
    <3>1. CASE TypePoint
      <4> DEFINE b == [args[at] EXCEPT !.point = TRUE]
      <4>1. b \in Typings /\ b.point
        BY <2>1 DEF Typings
      <4>2. args' = [args EXCEPT ![at] = b]
        BY <3>1 DEF TypePoint
      <4> QED
        BY <4>1, <4>2
    <3>2. CASE TypeDigit
      <4>1. PICK d \in Typed : args' = IF args[at].point
                     THEN [args EXCEPT ![at].frac = Append(@, d)]
                     ELSE [args EXCEPT ![at].whole = Append(@, d)]
        BY <3>2 DEF TypeDigit
      <4>2. d \in 0 .. 9
        BY ArgsAssumption
      <4>3. /\ Append(args[at].frac, d) \in Digits
            /\ Append(args[at].whole, d) \in Digits
        BY <2>1, <4>2 DEF Typings, Digits
      <4>4. CASE args[at].point
        <5> DEFINE b == [args[at] EXCEPT !.frac = Append(args[at].frac, d)]
        <5>1. b \in Typings /\ b.point = args[at].point
          BY <2>1, <4>3 DEF Typings
        <5>2. args' = [args EXCEPT ![at] = b]
          BY <4>1, <4>4
        <5> QED
          BY <4>4, <5>1, <5>2
      <4>5. CASE ~args[at].point
        <5> DEFINE b == [args[at] EXCEPT !.whole = Append(args[at].whole, d)]
        <5>1. b \in Typings /\ b.point = args[at].point /\ b.frac = args[at].frac
          BY <2>1, <4>3 DEF Typings
        <5>2. args' = [args EXCEPT ![at] = b]
          BY <4>1, <4>5
        <5> QED
          BY <2>1, <5>1, <5>2
      <4> QED
        BY <4>4, <4>5
    <3> QED
      BY <1>3, <3>1, <3>2
  <2>3. /\ args' \in Seq(Typings) /\ DOMAIN args' = DOMAIN args
        /\ \A i \in DOMAIN args : args'[i] = IF i = at THEN b ELSE args[i]
    BY <1>0, <2>1, <2>2, ExceptSeq
  <2> QED
    BY <2>2, <2>3 DEF Command
<1> QED
  BY <1>1, <1>2, <1>3 DEF ArgsNext

(* Whatever is typed after /budget, a cap is set exactly when every word   *)
(* is sound and one names a cap, to the amount typed last, rounded down    *)
(* and never wrapped (main.rs, parse_budget_args, parse_cost_value).       *)
THEOREM CapsAreAsTyped == ArgsInit /\ [][ArgsNext]_args => []CapsAreMeant
<1>1. ArgsInit => Command(args)
  BY DEF ArgsInit, Command
<1>2. Command(args) /\ [ArgsNext]_args => Command(args)'
  BY TypedIsCommand
<1>3. Command(args) => CapsAreMeant
  BY CapsKnown
<1> QED
  BY <1>1, <1>2, <1>3, PTL

-----------------------------------------------------------------------------
(***************************************************************************)
(* The hunks of a diff                                                     *)
(***************************************************************************)
(* Hunks over lines of any kind. *)
MarkedLine(W) == [mark : {" ", "+", "-"}, line : W]
HunkOf(W) ==
    [old_start : Nat, old_count : Nat, new_count : Nat, lines : Seq(MarkedLine(W))]

(* The lines of a hunk are lines. *)
LEMMA HunkTyped ==
    ASSUME NEW W, NEW h \in HunkOf(W)
    PROVE  /\ Len(h.lines) \in Nat /\ h.old_start \in Nat
           /\ \A k \in 1 .. Len(h.lines) : /\ h.lines[k] \in MarkedLine(W)
                                          /\ h.lines[k].line \in W
<1>1. h.lines \in Seq(MarkedLine(W)) /\ h.old_start \in Nat
  BY DEF HunkOf
<1>2. Len(h.lines) \in Nat
  BY <1>1
<1>3. \A k \in 1 .. Len(h.lines) : h.lines[k] \in MarkedLine(W)
  BY ONLY <1>1, ElementOfSeq
<1>4. \A l \in MarkedLine(W) : l.line \in W
  BY DEF MarkedLine
<1> QED
  BY <1>1, <1>2, <1>3, <1>4

(* side goes over the lines of a hunk and leaves out those with a mark. *)
Sides(side, W, h, mark) ==
    /\ side \in [0 .. Len(h.lines) -> Seq(W)] /\ side[0] = <<>>
    /\ \A k \in 1 .. Len(h.lines) :
          side[k] = IF h.lines[k].mark = mark THEN side[k - 1]
                    ELSE Append(side[k - 1], h.lines[k].line)
    /\ HunkSide(h, mark) = side[Len(h.lines)]

(* A side of a hunk is reached line by line. *)
LEMMA SidesExist ==
    ASSUME NEW W, NEW h \in HunkOf(W), NEW mark
    PROVE  \E side : Sides(side, W, h, mark)
<1> DEFINE n == Len(h.lines)
           Next(x, k) == IF h.lines[k].mark = mark THEN x ELSE Append(x, h.lines[k].line)
           F == [k \in 1 .. n |-> [x \in Seq(W) |-> Next(x, k)]]
           IsF(g) == g = [k \in 0 .. n |-> IF k = 0 THEN <<>> ELSE Next(g[k - 1], k)]
           f == CHOOSE g : IsF(g)
<1>0. n \in Nat
  BY HunkTyped
<1>1. HunkSide(h, mark) = f[n]
  BY DEF HunkSide
<1>2. <<>> \in Seq(W) /\ \A k \in 1 .. n : \A x \in Seq(W) : Next(x, k) \in Seq(W)
  BY HunkTyped
<1> HIDE DEF n, Next
<1>3. F \in [1 .. n -> [Seq(W) -> Seq(W)]]
  BY <1>2
<1>4. PICK g : PassesOver(g, n, Seq(W), <<>>, F)
  <2> HIDE DEF F
  <2> QED
    BY ONLY <1>0, <1>2, <1>3, PassExists
<1>5. \A k \in 1 .. n : k - 1 \in 0 .. n /\ k \in 0 .. n /\ k # 0
  BY <1>0
<1>6. IsF(g)
  <2>1. /\ g \in [0 .. n -> Seq(W)]
        /\ \A k \in 0 .. n : g[k] = IF k = 0 THEN <<>> ELSE F[k][g[k - 1]]
    BY <1>4 DEF PassesOver
  <2>2. \A k \in 1 .. n : F[k][g[k - 1]] = Next(g[k - 1], k)
    BY <1>5, <2>1
  <2>3. \A k \in 0 .. n : k = 0 \/ k \in 1 .. n
    BY <1>0
  <2> HIDE DEF F
  <2> QED
    BY <2>1, <2>2, <2>3
<1>7. IsF(f)
  BY <1>6
<1> HIDE DEF f
<1>8. f[0] = <<>> /\ \A k \in 1 .. n : f[k] = Next(f[k - 1], k)
  <2>1. 0 \in 0 .. n
    BY <1>0
  <2> QED
    BY <1>5, <1>7, <2>1
<1>9. \A k \in 0 .. n : f[k] \in Seq(W)
  <2>1. \A k \in 1 .. n : f[k - 1] \in Seq(W) => f[k] = F[k][f[k - 1]]
    BY <1>8
  <2> HIDE DEF F
  <2> QED
    BY ONLY <1>0, <1>2, <1>3, <1>8, <2>1, PassTyped
<1>10. f \in [0 .. n -> Seq(W)]
  BY <1>7, <1>9
<1>11. Sides(f, W, h, mark)
  BY <1>1, <1>8, <1>10 DEF Sides, n, Next
<1> QED
  BY <1>11

(* Where an application stands, and the pass over the lines of a hunk. *)
Accs(W) == [ok : BOOLEAN, at : Nat, out : Seq(W)]
Takings(t, W, original, acc, h) ==
    /\ t \in [0 .. Len(h.lines) -> Accs(W)] /\ t[0] = CopyUpTo(original, acc, h)
    /\ \A k \in 1 .. Len(h.lines) : t[k] = TakeLine(original, t[k - 1], h.lines[k])
    /\ ApplyHunk(original, acc, h) =
          IF acc.ok /\ validate_hunk_counts(h) THEN t[Len(h.lines)]
          ELSE [acc EXCEPT !.ok = FALSE]

(* What is copied is part of the file. *)
LEMMA CopyTyped ==
    ASSUME NEW W, NEW original \in Seq(W), NEW acc \in Accs(W), NEW h \in HunkOf(W),
           InRange(original, acc, h)
    PROVE  /\ HunkTarget(h) \in 0 .. Len(original) /\ acc.at <= HunkTarget(h)
           /\ SubSeq(original, acc.at + 1, HunkTarget(h)) \in Seq(W)
           /\ CopyUpTo(original, acc, h) \in Accs(W)
<1> DEFINE T == HunkTarget(h)
           a == acc.at
           s == SubSeq(original, a + 1, T)
<1>1. T \in Nat
  BY DEF HunkOf, HunkTarget
<1>2. a \in Nat /\ acc.out \in Seq(W) /\ Len(original) \in Nat
  BY DEF Accs
<1>3. T \in a .. Len(original)
  BY DEF InRange
<1> HIDE DEF T, a
<1>4. a <= T /\ T <= Len(original) /\ T \in 0 .. Len(original)
  BY <1>1, <1>2, <1>3
<1>5. \A i \in a + 1 .. T : original[i] \in W
  BY <1>1, <1>2, <1>4
<1>6. s \in Seq(W)
  BY ONLY <1>1, <1>2, <1>5, SubSeqProperties, a + 1 \in Int, T \in Int
<1> HIDE DEF s
<1>7. acc.out \o s \in Seq(W)
  BY <1>2, <1>6
<1>8. CopyUpTo(original, acc, h) = [ok |-> TRUE, at |-> T, out |-> acc.out \o s]
  BY DEF CopyUpTo, T, s, a
<1> QED
  BY <1>1, <1>4, <1>6, <1>7, <1>8 DEF Accs, T, a, s

(* Taking a line leads from a state to a state. *)
LEMMA TakeTyped ==
    ASSUME NEW W, NEW original, NEW x \in Accs(W),
           NEW l \in MarkedLine(W)
    PROVE  TakeLine(original, x, l) \in Accs(W)
<1>1. x.ok \in BOOLEAN /\ x.at \in Nat /\ x.out \in Seq(W)
  BY DEF Accs
<1>4. l.line \in W
  BY DEF MarkedLine
<1>5. x.at + 1 \in Nat
  BY <1>1
<1>2. Append(x.out, l.line) \in Seq(W)
  BY <1>1, <1>4
<1>3. (l.mark = "+" \/ consume_original_line(original, x.at, l)) \in BOOLEAN
  OBVIOUS
<1> QED
  BY <1>1, <1>2, <1>3, <1>5 DEF TakeLine, Accs

(* The lines of a hunk are taken one by one. *)
LEMMA TakingsExist ==
    ASSUME NEW W, NEW original \in Seq(W), NEW acc \in Accs(W), NEW h \in HunkOf(W),
           InRange(original, acc, h)
    PROVE  \E t : Takings(t, W, original, acc, h)
<1> DEFINE n == Len(h.lines)
           D == Accs(W)
           base == CopyUpTo(original, acc, h)
           Next(x, k) == TakeLine(original, x, h.lines[k])
           F == [k \in 1 .. n |-> [x \in D |-> Next(x, k)]]
           IsF(g) == g = [k \in 0 .. n |-> IF k = 0 THEN base ELSE Next(g[k - 1], k)]
           f == CHOOSE g : IsF(g)
<1>0. n \in Nat
  BY HunkTyped
<1>1. ApplyHunk(original, acc, h) =
        IF acc.ok /\ validate_hunk_counts(h) THEN f[n] ELSE [acc EXCEPT !.ok = FALSE]
  BY DEF ApplyHunk
<1>2. base \in D /\ \A k \in 1 .. n : \A x \in D : Next(x, k) \in D
  BY HunkTyped, CopyTyped, TakeTyped
<1> HIDE DEF n, Next, base, D
<1>3. F \in [1 .. n -> [D -> D]]
  BY <1>2
<1>4. PICK g : PassesOver(g, n, D, base, F)
  <2> HIDE DEF F
  <2> QED
    BY ONLY <1>0, <1>2, <1>3, PassExists
<1>5. \A k \in 1 .. n : k - 1 \in 0 .. n /\ k \in 0 .. n /\ k # 0
  BY <1>0
<1>6. IsF(g)
  <2>1. /\ g \in [0 .. n -> D]
        /\ \A k \in 0 .. n : g[k] = IF k = 0 THEN base ELSE F[k][g[k - 1]]
    BY <1>4 DEF PassesOver
  <2>2. \A k \in 1 .. n : F[k][g[k - 1]] = Next(g[k - 1], k)
    BY <1>5, <2>1
  <2>3. \A k \in 0 .. n : k = 0 \/ k \in 1 .. n
    BY <1>0
  <2> HIDE DEF F
  <2> QED
    BY <2>1, <2>2, <2>3
<1>7. IsF(f)
  BY <1>6
<1> HIDE DEF f
<1>8. f[0] = base /\ \A k \in 1 .. n : f[k] = Next(f[k - 1], k)
  <2>1. 0 \in 0 .. n
    BY <1>0
  <2> QED
    BY <1>5, <1>7, <2>1
<1>9. \A k \in 0 .. n : f[k] \in D
  <2>1. \A k \in 1 .. n : f[k - 1] \in D => f[k] = F[k][f[k - 1]]
    BY <1>8
  <2> HIDE DEF F
  <2> QED
    BY ONLY <1>0, <1>2, <1>3, <1>8, <2>1, PassTyped
<1>10. f \in [0 .. n -> D]
  BY <1>7, <1>9
<1>11. Takings(f, W, original, acc, h)
  BY <1>1, <1>8, <1>10 DEF Takings, n, Next, base, D
<1> QED
  BY <1>11

(* a is s with x behind it. *)
Longer(a, s, x) ==
    /\ Len(a) = Len(s) + 1 /\ a[Len(s) + 1] = x
    /\ \A i \in 1 .. Len(s) : a[i] = s[i]

(* What is appended stands behind what was there. *)
LEMMA AppendKnown ==
    ASSUME NEW W, NEW s \in Seq(W), NEW x \in W
    PROVE  Append(s, x) \in Seq(W) /\ Longer(Append(s, x), s, x)
BY DEF Longer

(* To add x to two texts in a row is to add it to the second. *)
AddsToLast(s, t, x) == Append(s \o t, x) = s \o Append(t, x)

(* Whatever the line. *)
LEMMA AppendToLast ==
    ASSUME NEW W, NEW s \in Seq(W), NEW t \in Seq(W), NEW x \in W
    PROVE  AddsToLast(s, t, x)
BY DEF AddsToLast

(* A state within a hunk at T, when these old and new lines were taken and *)
(* base was written before.                                                *)
Stands(s, original, T, base, old, new) ==
    /\ s.ok <=> \A i \in 1 .. Len(old) : /\ T + i <= Len(original)
                                         /\ original[T + i] = old[i]
    /\ s.ok => s.at = T + Len(old) /\ s.out = base \o new

(* Another line keeps it. *)
LEMMA LineTaken ==
    ASSUME NEW W, NEW original \in Seq(W), NEW T \in Nat, NEW base \in Seq(W),
           NEW old \in Seq(W), NEW new \in Seq(W), NEW s \in Accs(W),
           NEW l \in MarkedLine(W), Stands(s, original, T, base, old, new),
           NEW o, o = IF l.mark = "+" THEN old ELSE Append(old, l.line),
           NEW w, w = IF l.mark = "-" THEN new ELSE Append(new, l.line),
           NEW t, t = TakeLine(original, s, l)
    PROVE  Stands(t, original, T, base, o, w)
<1> DEFINE x == l.line
           m == Len(old)
<1>1. x \in W /\ l.mark \in {" ", "+", "-"}
  BY DEF MarkedLine
<1> HIDE DEF x
<1>0. m \in Nat /\ Len(original) \in Nat
  OBVIOUS
<1>2. /\ s.ok <=> \A i \in 1 .. m : T + i <= Len(original) /\ original[T + i] = old[i]
      /\ s.ok => s.at = T + m /\ s.out = base \o new
      /\ s.ok \in BOOLEAN
  BY DEF Stands, Accs
<1>3. /\ Append(old, x) \in Seq(W) /\ Len(Append(old, x)) = m + 1
      /\ Append(old, x)[m + 1] = x
      /\ \A i \in 1 .. m : Append(old, x)[i] = old[i]
  <2>1. Append(old, x) \in Seq(W) /\ Longer(Append(old, x), old, x)
    BY <1>1, AppendKnown
  <2> QED
    BY <2>1 DEF Longer, m
<1>4. Append(base \o new, x) = base \o Append(new, x)
  <2>1. AddsToLast(base, new, x)
    BY <1>1, AppendToLast
  <2> QED
    BY <2>1 DEF AddsToLast
<1> HIDE DEF m
<1>5. \A i \in 1 .. m + 1 : i \in 1 .. m \/ i = m + 1
  BY ONLY <1>0
<1>6. \A i \in 1 .. m : i \in 1 .. m + 1
  BY ONLY <1>0
<1>7. m + 1 \in 1 .. m + 1
  BY ONLY <1>0
<1>8. CASE ~s.ok
  <2>1. t = s
    BY <1>8 DEF TakeLine
  <2>2. ~ \A i \in 1 .. Len(o) : T + i <= Len(original) /\ original[T + i] = o[i]
    BY <1>2, <1>3, <1>6, <1>8 DEF x, m
  <2> QED
    BY <1>8, <2>1, <2>2 DEF Stands
<1>9. CASE s.ok
  <2>1. /\ t.ok <=> \/ l.mark = "+"
                    \/ s.at < Len(original) /\ original[s.at + 1] = x
        /\ t.at = IF l.mark = "+" THEN s.at ELSE s.at + 1
        /\ t.out = IF l.mark = "-" THEN s.out ELSE Append(s.out, x)
    BY <1>9 DEF TakeLine, consume_original_line, x
  <2>2. s.at = T + m /\ s.out = base \o new
    BY <1>2, <1>9
  <2>3. t.out = base \o w
    BY <1>4, <2>1, <2>2 DEF x
  <2>4. CASE l.mark = "+"
    BY <1>2, <1>9, <2>1, <2>2, <2>3, <2>4 DEF Stands, m
  <2>5. CASE l.mark # "+"
    <3>1. o = Append(old, x) /\ Len(o) = m + 1 /\ o[m + 1] = x
          /\ \A i \in 1 .. m : o[i] = old[i]
      BY <1>3, <2>5 DEF x
    <3>2. t.at = T + Len(o)
      BY ONLY <1>0, <2>1, <2>2, <2>5, <3>1, T \in Nat
    <3>3. t.ok <=> T + (m + 1) <= Len(original) /\ original[T + (m + 1)] = x
      BY ONLY <1>0, <2>1, <2>2, <2>5, T \in Nat
    <3>4. t.ok <=> \A i \in 1 .. m + 1 : T + i <= Len(original) /\ original[T + i] = o[i]
      BY <1>2, <1>5, <1>6, <1>7, <1>9, <3>1, <3>3
    <3> QED
      BY <2>3, <3>1, <3>2, <3>4 DEF Stands
  <2> QED
    BY <2>4, <2>5
<1> QED
  BY <1>8, <1>9

(* The old lines of a hunk stand where it says. *)
OldFits(original, h) ==
    /\ OldEnd(h) <= Len(original)
    /\ SubSeq(original, HunkTarget(h) + 1, OldEnd(h)) = HunkSide(h, "+")

(* Which is so if each of them does. *)
LEMMA LinesFit ==
    ASSUME NEW W, NEW original \in Seq(W), NEW T \in 0 .. Len(original),
           NEW old \in Seq(W),
           NEW s, s = SubSeq(original, T + 1, T + Len(old))
    PROVE  (\A i \in 1 .. Len(old) : T + i <= Len(original) /\ original[T + i] = old[i])
              <=> (T + Len(old) <= Len(original) /\ s = old)
<1> DEFINE m == Len(old)
           n == Len(original)
<1>1. m \in Nat /\ n \in Nat /\ T \in Nat /\ T <= n
  OBVIOUS
<1>2. DOMAIN old = 1 .. m
  OBVIOUS
<1>3. ASSUME T + m <= n
      PROVE  s \in Seq(W) /\ Len(s) = m /\ \A i \in 1 .. m : s[i] = original[T + i]
  <2>1. \A i \in T + 1 .. T + m : original[i] \in W
    BY <1>1, <1>3
  <2>2. T + 1 \in Int /\ T + m \in Int
    BY <1>1
  <2>3. /\ s \in Seq(W)
        /\ Len(s) = IF T + 1 <= T + m THEN (T + m) - (T + 1) + 1 ELSE 0
        /\ \A i \in 1 .. (T + m) - (T + 1) + 1 : s[i] = original[(T + 1) + i - 1]
    BY ONLY <2>1, <2>2, SubSeqProperties, s = SubSeq(original, T + 1, T + m)
  <2>4. (T + m) - (T + 1) + 1 = m /\ \A i \in 1 .. m : (T + 1) + i - 1 = T + i
    BY <1>1
  <2>5. Len(s) = m
    BY <1>1, <2>3, <2>4
  <2> QED
    BY <2>3, <2>4, <2>5
<1>4. m \in 1 .. m \/ m = 0
  BY <1>1
<1> HIDE DEF m
<1>5. ASSUME \A i \in 1 .. m : T + i <= n /\ original[T + i] = old[i]
      PROVE  T + m <= n /\ s = old
  <2>1. T + m <= n
    BY <1>1, <1>4, <1>5
  <2>2. s \in Seq(W) /\ Len(s) = m /\ \A i \in 1 .. m : s[i] = old[i]
    BY <1>3, <1>5, <2>1
  <2>3. s = old
    BY <2>2, SeqEqual DEF m
  <2> QED
    BY <2>1, <2>3
<1>6. ASSUME T + m <= n, s = old
      PROVE  \A i \in 1 .. m : T + i <= n /\ original[T + i] = old[i]
  <2>1. \A i \in 1 .. m : s[i] = original[T + i]
    BY <1>3, <1>6
  <2>2. \A i \in 1 .. m : T + i <= n
    BY <1>1, <1>6
  <2> QED
    BY <1>6, <2>1, <2>2
<1> QED
  BY <1>5, <1>6 DEF m

(* What is written by a hunk, and where the next one may start. *)
Written(t, original, acc, h) ==
    /\ t.at = OldEnd(h)
    /\ t.out = (acc.out \o SubSeq(original, acc.at + 1, HunkTarget(h)))
                   \o HunkSide(h, "-")

(* A hunk in range is taken if its old lines stand there. *)
LEMMA HunkTaken ==
    ASSUME NEW W, NEW original \in Seq(W), NEW acc \in Accs(W), NEW h \in HunkOf(W),
           InRange(original, acc, h), acc.ok, validate_hunk_counts(h),
           NEW t, t = ApplyHunk(original, acc, h)
    PROVE  /\ t \in Accs(W) /\ (t.ok <=> OldFits(original, h))
           /\ t.ok => Written(t, original, acc, h)
<1> DEFINE n == Len(h.lines)
           T == HunkTarget(h)
           copied == SubSeq(original, acc.at + 1, T)
           base == acc.out \o copied
<1>1. n \in Nat /\ \A k \in 1 .. n : h.lines[k] \in MarkedLine(W)
  BY HunkTyped
<1>2. /\ T \in 0 .. Len(original) /\ T \in Nat /\ copied \in Seq(W)
      /\ CopyUpTo(original, acc, h) \in Accs(W)
  BY CopyTyped
<1>3. base \in Seq(W)
  <2>1. acc.out \in Seq(W)
    BY DEF Accs
  <2> HIDE DEF copied
  <2> QED
    BY <1>2, <2>1
<1> HIDE DEF copied, base
<1>4. PICK g : Takings(g, W, original, acc, h)
  BY TakingsExist
<1>5. PICK o : Sides(o, W, h, "+")
  BY SidesExist
<1>6. PICK w : Sides(w, W, h, "-")
  BY SidesExist
<1>7. \A k \in 0 .. n : g[k] \in Accs(W) /\ o[k] \in Seq(W) /\ w[k] \in Seq(W)
  BY <1>4, <1>5, <1>6 DEF Takings, Sides
<1>8. \A k \in 1 .. n :
         /\ g[k] = TakeLine(original, g[k - 1], h.lines[k])
         /\ o[k] = IF h.lines[k].mark = "+" THEN o[k - 1]
                   ELSE Append(o[k - 1], h.lines[k].line)
         /\ w[k] = IF h.lines[k].mark = "-" THEN w[k - 1]
                   ELSE Append(w[k - 1], h.lines[k].line)
  BY <1>4, <1>5, <1>6 DEF Takings, Sides
<1>9. /\ t = g[n] /\ HunkSide(h, "+") = o[n] /\ HunkSide(h, "-") = w[n]
      /\ g[0] = CopyUpTo(original, acc, h) /\ o[0] = <<>> /\ w[0] = <<>>
  BY <1>4, <1>5, <1>6 DEF Takings, Sides
<1> DEFINE S == {k \in Nat : k <= n => Stands(g[k], original, T, base, o[k], w[k])}
<1> HIDE DEF n
<1>10. 0 \in S
  <2>1. base \o <<>> = base
    BY <1>3, ConcatEmptySeq
  <2>2. g[0].ok = TRUE /\ g[0].at = T /\ g[0].out = base
    <3>1. CopyUpTo(original, acc, h) = [ok |-> TRUE, at |-> T, out |-> base]
      BY DEF CopyUpTo, base, copied
    <3> HIDE DEF T
    <3> QED
      BY ONLY <1>9, <3>1
  <2>3. Len(<<>>) = 0 /\ T + 0 = T /\ \A i : i \notin 1 .. 0
    BY <1>2
  <2>4. Stands(g[0], original, T, base, o[0], w[0])
    BY <1>9, <2>1, <2>2, <2>3 DEF Stands
  <2> QED
    BY <2>4
<1>11. ASSUME NEW k \in Nat, k \in S PROVE k + 1 \in S
  <2> SUFFICES ASSUME k + 1 <= n
               PROVE  Stands(g[k + 1], original, T, base, o[k + 1], w[k + 1])
    OBVIOUS
  <2>1. k \in 0 .. n /\ k + 1 \in 1 .. n /\ (k + 1) - 1 = k
    BY <1>1
  <2>2. Stands(g[k], original, T, base, o[k], w[k])
    BY <1>11, <2>1
  <2> DEFINE l == h.lines[k + 1]
  <2>3. l \in MarkedLine(W)
    BY <1>1, <2>1
  <2>4. /\ g[k + 1] = TakeLine(original, g[k], l)
        /\ o[k + 1] = IF l.mark = "+" THEN o[k] ELSE Append(o[k], l.line)
        /\ w[k + 1] = IF l.mark = "-" THEN w[k] ELSE Append(w[k], l.line)
    BY <1>8, <2>1
  <2>5. g[k] \in Accs(W) /\ o[k] \in Seq(W) /\ w[k] \in Seq(W)
    BY <1>7, <2>1
  <2>6. original \in Seq(W) /\ T \in Nat /\ base \in Seq(W)
    BY <1>2, <1>3
  <2> HIDE DEF l, T
  <2> QED
    BY ONLY <2>2, <2>3, <2>4, <2>5, <2>6, LineTaken
<1>12. Stands(g[n], original, T, base, o[n], w[n])
  <2> HIDE DEF S
  <2>1. \A k \in Nat : k \in S => k + 1 \in S
    BY <1>11
  <2>2. Nat \subseteq S
    BY ONLY <1>10, <2>1, Induction
  <2> QED
    BY <1>1, <2>2 DEF S
<1> DEFINE old == HunkSide(h, "+")
<1>13. n \in 0 .. n
  BY <1>1
<1>14. old \in Seq(W) /\ t \in Accs(W) /\ OldEnd(h) = T + Len(old)
  BY <1>7, <1>9, <1>13 DEF OldEnd
<1> HIDE DEF T
<1>15. /\ t.ok <=> \A i \in 1 .. Len(old) : /\ T + i <= Len(original)
                                            /\ original[T + i] = old[i]
       /\ t.ok => t.at = T + Len(old) /\ t.out = base \o HunkSide(h, "-")
  BY <1>9, <1>12 DEF Stands
<1> HIDE DEF old
<1>16. t.ok <=> T + Len(old) <= Len(original) /\ SubSeq(original, T + 1, T + Len(old)) = old
  <2> DEFINE sub == SubSeq(original, T + 1, T + Len(old))
  <2> HIDE DEF sub
  <2>1. sub = SubSeq(original, T + 1, T + Len(old))
    BY DEF sub
  <2>2. T \in 0 .. Len(original) /\ old \in Seq(W) /\ original \in Seq(W)
    BY <1>2, <1>14
  <2>3. (\A i \in 1 .. Len(old) : T + i <= Len(original) /\ original[T + i] = old[i])
           <=> (T + Len(old) <= Len(original) /\ sub = old)
    BY ONLY <2>1, <2>2, LinesFit
  <2> QED
    BY <1>15, <2>3 DEF sub
<1> QED
  BY <1>14, <1>15, <1>16 DEF OldFits, Written, base, copied, old, T

(* A hunk that is taken at a place, and what taking it does. *)
Applicable(original, at, h) ==
    validate_hunk_counts(h) /\ at <= HunkTarget(h) /\ OldFits(original, h)
Took(t, original, acc, h) ==
    /\ t.ok <=> acc.ok /\ Applicable(original, acc.at, h)
    /\ t.ok => Written(t, original, acc, h)

(* The end of the old lines is a number, not before their beginning. *)
LEMMA OldEndKnown ==
    ASSUME NEW W, NEW h \in HunkOf(W)
    PROVE  /\ HunkTarget(h) \in Nat /\ OldEnd(h) \in Nat
           /\ HunkTarget(h) <= OldEnd(h)
           /\ HunkSide(h, "+") \in Seq(W) /\ HunkSide(h, "-") \in Seq(W)
           /\ OldEnd(h) = HunkTarget(h) + Len(HunkSide(h, "+"))
<1> DEFINE n == Len(h.lines)
<1>1. h.old_start \in Nat /\ n \in 0 .. n
  BY HunkTyped
<1>2. PICK o : Sides(o, W, h, "+")
  BY SidesExist
<1>3. PICK w : Sides(w, W, h, "-")
  BY SidesExist
<1>4. HunkSide(h, "+") \in Seq(W) /\ HunkSide(h, "-") \in Seq(W)
  BY <1>1, <1>2, <1>3 DEF Sides
<1>5. HunkTarget(h) \in Nat
  BY <1>1 DEF HunkTarget
<1>6. Len(HunkSide(h, "+")) \in Nat
  BY <1>4
<1>7. OldEnd(h) = HunkTarget(h) + Len(HunkSide(h, "+"))
  BY DEF OldEnd
<1> QED
  BY <1>4, <1>5, <1>6, <1>7

(* Every hunk is taken if it fits, and else nothing more is. *)
LEMMA HunkApplied ==
    ASSUME NEW W, NEW original \in Seq(W), NEW acc \in Accs(W), NEW h \in HunkOf(W)
    PROVE  /\ ApplyHunk(original, acc, h) \in Accs(W)
           /\ Took(ApplyHunk(original, acc, h), original, acc, h)
<1> DEFINE t == ApplyHunk(original, acc, h)
<1>1. /\ HunkTarget(h) \in Nat /\ OldEnd(h) \in Nat /\ HunkTarget(h) <= OldEnd(h)
      /\ Len(original) \in Nat
  BY OldEndKnown
<1>2. acc.ok \in BOOLEAN /\ acc.at \in Nat /\ acc.out \in Seq(W)
  BY DEF Accs
<1>3. Applicable(original, acc.at, h) => InRange(original, acc, h)
  BY <1>1, <1>2 DEF Applicable, OldFits, InRange
<1>4. InRange(original, acc, h) => acc.at <= HunkTarget(h)
  BY <1>1, <1>2 DEF InRange
<1>5. CASE acc.ok /\ validate_hunk_counts(h) /\ InRange(original, acc, h)
  <2> HIDE DEF t
  <2>1. t = ApplyHunk(original, acc, h)
    BY DEF t
  <2>2. acc.ok /\ validate_hunk_counts(h) /\ InRange(original, acc, h)
    BY <1>5
  <2>3. /\ t \in Accs(W) /\ (t.ok <=> OldFits(original, h))
        /\ t.ok => Written(t, original, acc, h)
    BY <2>1, <2>2, HunkTaken
  <2>4. t \in Accs(W) /\ Took(t, original, acc, h)
    BY <1>4, <1>5, <2>3 DEF Took, Applicable
  <2> QED
    BY <2>4 DEF t
<1>6. CASE ~(acc.ok /\ validate_hunk_counts(h) /\ InRange(original, acc, h))
  <2>1. t = [acc EXCEPT !.ok = FALSE]
    BY <1>6 DEF ApplyHunk
  <2>2. [acc EXCEPT !.ok = FALSE] \in Accs(W) /\ ~[acc EXCEPT !.ok = FALSE].ok
    BY DEF Accs
  <2> HIDE DEF t
  <2>3. t \in Accs(W) /\ ~t.ok
    BY <2>1, <2>2
  <2>4. ~(acc.ok /\ Applicable(original, acc.at, h))
    BY <1>3, <1>6 DEF Applicable
  <2>5. t \in Accs(W) /\ Took(t, original, acc, h)
    BY <2>3, <2>4 DEF Took
  <2> QED
    BY <2>5 DEF t
<1> QED
  BY <1>5, <1>6

(* The pass over the hunks. *)
Applications(a, W, original, hunks) ==
    /\ a \in [0 .. Len(hunks) -> Accs(W)]
    /\ a[0] = [ok |-> TRUE, at |-> 0, out |-> <<>>]
    /\ \A k \in 1 .. Len(hunks) : a[k] = ApplyHunk(original, a[k - 1], hunks[k])
    /\ apply_hunks(original, hunks) =
          IF a[Len(hunks)].ok
          THEN Ok(a[Len(hunks)].out
                      \o SubSeq(original, a[Len(hunks)].at + 1, Len(original)))
          ELSE Err

(* The hunks are taken one by one. *)
LEMMA ApplicationsExist ==
    ASSUME NEW W, NEW original \in Seq(W), NEW hunks \in Seq(HunkOf(W))
    PROVE  \E a : Applications(a, W, original, hunks)
<1> DEFINE n == Len(hunks)
           D == Accs(W)
           base == [ok |-> TRUE, at |-> 0, out |-> <<>>]
           Next(x, k) == ApplyHunk(original, x, hunks[k])
           F == [k \in 1 .. n |-> [x \in D |-> Next(x, k)]]
           IsF(g) == g = [k \in 0 .. n |-> IF k = 0 THEN base ELSE Next(g[k - 1], k)]
           f == CHOOSE g : IsF(g)
<1>0. n \in Nat /\ \A k \in 1 .. n : hunks[k] \in HunkOf(W)
  BY ElementOfSeq
<1>1. apply_hunks(original, hunks) =
        IF f[n].ok THEN Ok(f[n].out \o SubSeq(original, f[n].at + 1, Len(original)))
        ELSE Err
  BY DEF apply_hunks
<1>2. base \in D /\ \A k \in 1 .. n : \A x \in D : Next(x, k) \in D
  <2>1. base \in D
    BY DEF Accs
  <2> QED
    BY <1>0, <2>1, HunkApplied
<1> HIDE DEF n, Next, base, D
<1>3. F \in [1 .. n -> [D -> D]]
  BY <1>2
<1>4. PICK g : PassesOver(g, n, D, base, F)
  <2> HIDE DEF F
  <2> QED
    BY ONLY <1>0, <1>2, <1>3, PassExists
<1>5. \A k \in 1 .. n : k - 1 \in 0 .. n /\ k \in 0 .. n /\ k # 0
  BY <1>0
<1>6. IsF(g)
  <2>1. /\ g \in [0 .. n -> D]
        /\ \A k \in 0 .. n : g[k] = IF k = 0 THEN base ELSE F[k][g[k - 1]]
    BY <1>4 DEF PassesOver
  <2>2. \A k \in 1 .. n : F[k][g[k - 1]] = Next(g[k - 1], k)
    BY <1>5, <2>1
  <2>3. \A k \in 0 .. n : k = 0 \/ k \in 1 .. n
    BY <1>0
  <2> HIDE DEF F
  <2> QED
    BY <2>1, <2>2, <2>3
<1>7. IsF(f)
  BY <1>6
<1> HIDE DEF f
<1>8. f[0] = base /\ \A k \in 1 .. n : f[k] = Next(f[k - 1], k)
  <2>1. 0 \in 0 .. n
    BY <1>0
  <2> QED
    BY <1>5, <1>7, <2>1
<1>9. \A k \in 0 .. n : f[k] \in D
  <2>1. \A k \in 1 .. n : f[k - 1] \in D => f[k] = F[k][f[k - 1]]
    BY <1>8
  <2> HIDE DEF F
  <2> QED
    BY ONLY <1>0, <1>2, <1>3, <1>8, <2>1, PassTyped
<1>10. f \in [0 .. n -> D]
  BY <1>7, <1>9
<1>11. Applications(f, W, original, hunks)
  BY <1>1, <1>8, <1>10 DEF Applications, n, Next, base, D
<1> QED
  BY <1>11

(* Three texts in a row, joined from the left or from the right. *)
Joined(s, t, u) == (s \o t) \o u = s \o (t \o u)

(* It does not matter which two of three texts are joined first. *)
LEMMA JoinedKnown ==
    ASSUME NEW W, NEW s \in Seq(W), NEW t \in Seq(W), NEW u \in Seq(W)
    PROVE  Joined(s, t, u)
BY ConcatAssociative DEF Joined

(* Two texts in a row are a text. *)
LEMMA ConcatTyped ==
    ASSUME NEW W, NEW s \in Seq(W), NEW t \in Seq(W), NEW r, r = s \o t
    PROVE  r \in Seq(W)
OBVIOUS

(* p is the part of a text behind its i-th line up to the j-th. *)
IsPart(p, text, i, j) ==
    /\ p = SubSeq(text, i + 1, j) /\ Len(p) = j - i
    /\ \A m \in 1 .. j - i : p[m] = text[i + m]

(* Parts of a text are texts. *)
LEMMA PartKnown ==
    ASSUME NEW W, NEW text \in Seq(W), NEW i \in Nat, NEW j \in Nat, i <= j,
           j <= Len(text)
    PROVE  /\ SubSeq(text, i + 1, j) \in Seq(W)
           /\ IsPart(SubSeq(text, i + 1, j), text, i, j)
<1> DEFINE p == SubSeq(text, i + 1, j)
<1>1. \A m \in i + 1 .. j : text[m] \in W
  OBVIOUS
<1>2. i + 1 \in Int /\ j \in Int
  OBVIOUS
<1>3. /\ p \in Seq(W) /\ Len(p) = IF i + 1 <= j THEN j - (i + 1) + 1 ELSE 0
      /\ \A m \in 1 .. j - (i + 1) + 1 : p[m] = text[(i + 1) + m - 1]
  BY ONLY <1>1, <1>2, SubSeqProperties
<1> HIDE DEF p
<1>4. j - (i + 1) + 1 = j - i /\ \A m \in 1 .. j - i : (i + 1) + m - 1 = i + m
  OBVIOUS
<1>5. Len(p) = j - i
  BY <1>3, <1>4
<1>6. IsPart(p, text, i, j)
  BY <1>3, <1>4, <1>5 DEF IsPart, p
<1> QED
  BY <1>3, <1>6 DEF p

(* A text that begins like another one up to its end-th line. *)
LEMMA PartsOfBoth ==
    ASSUME NEW W, NEW original \in Seq(W), NEW tail \in Seq(W),
           NEW T \in Nat, NEW end \in Nat, T <= end, end <= Len(original),
           NEW x, x = SubSeq(original, 1, end) \o tail
    PROVE  /\ x \in Seq(W) /\ SubSeq(x, 1, T) = SubSeq(original, 1, T)
           /\ SubSeq(x, end + 1, Len(x)) = tail
<1> DEFINE p == SubSeq(original, 1, end)
<1>1. p \in Seq(W) /\ Len(p) = end /\ \A m \in 1 .. end : p[m] = original[m]
  <2>1. SubSeq(original, 0 + 1, end) \in Seq(W)
        /\ IsPart(SubSeq(original, 0 + 1, end), original, 0, end)
    BY PartKnown
  <2> QED
    BY <2>1 DEF IsPart
<1> HIDE DEF p
<1>2. /\ x \in Seq(W) /\ Len(x) = end + Len(tail)
      /\ \A m \in 1 .. end : x[m] = original[m]
      /\ \A m \in 1 .. Len(tail) : x[end + m] = tail[m]
  <2>1. x = p \o tail
    BY DEF p
  <2>2. /\ p \o tail \in Seq(W) /\ Len(p \o tail) = Len(p) + Len(tail)
        /\ \A m \in 1 .. Len(p) + Len(tail) :
              (p \o tail)[m] = IF m <= Len(p) THEN p[m] ELSE tail[m - Len(p)]
    <3>1. p \in Seq(W) /\ tail \in Seq(W)
      BY <1>1
    <3> QED
      BY ONLY <3>1, ConcatProperties
  <2>3. Len(tail) \in Nat
    OBVIOUS
  <2>4. \A m \in 1 .. end : m \in 1 .. end + Len(tail) /\ m <= end
    BY <2>3
  <2>5. \A m \in 1 .. Len(tail) : /\ end + m \in 1 .. end + Len(tail)
                                  /\ ~(end + m <= end) /\ (end + m) - end = m
    BY <2>3
  <2> QED
    BY <1>1, <2>1, <2>2, <2>4, <2>5
<1> DEFINE b == SubSeq(x, 1, T)
           c == SubSeq(original, 1, T)
           d == SubSeq(x, end + 1, Len(x))
<1>3. Len(tail) \in Nat /\ Len(x) \in Nat /\ end <= Len(x) /\ T <= Len(x)
  BY <1>2
<1>4. b \in Seq(W) /\ Len(b) = T /\ \A m \in 1 .. T : b[m] = x[m]
  <2>0. x \in Seq(W) /\ 0 \in Nat /\ T \in Nat /\ 0 <= T /\ T <= Len(x)
    BY <1>2, <1>3
  <2>1. SubSeq(x, 0 + 1, T) \in Seq(W) /\ IsPart(SubSeq(x, 0 + 1, T), x, 0, T)
    BY ONLY <2>0, PartKnown
  <2> QED
    BY <2>1 DEF IsPart
<1>5. c \in Seq(W) /\ Len(c) = T /\ \A m \in 1 .. T : c[m] = original[m]
  <2>1. /\ SubSeq(original, 0 + 1, T) \in Seq(W)
        /\ IsPart(SubSeq(original, 0 + 1, T), original, 0, T)
    BY PartKnown
  <2> QED
    BY <2>1 DEF IsPart
<1>6. d \in Seq(W) /\ Len(d) = Len(tail) /\ \A m \in 1 .. Len(tail) : d[m] = x[end + m]
  <2>1. d \in Seq(W) /\ IsPart(d, x, end, Len(x))
    <3>1. /\ x \in Seq(W) /\ end \in Nat /\ Len(x) \in Nat
          /\ end <= Len(x) /\ Len(x) <= Len(x)
      BY <1>2, <1>3
    <3> QED
      BY ONLY <3>1, PartKnown
  <2>2. Len(x) - end = Len(tail)
    BY <1>2, <1>3
  <2> QED
    BY <2>1, <2>2 DEF IsPart
<1> HIDE DEF b, c, d
<1>7. b = c
  <2>1. \A m \in 1 .. Len(b) : b[m] = c[m]
    BY <1>2, <1>4, <1>5
  <2> QED
    BY ONLY <1>4, <1>5, <2>1, SeqEqual
<1>8. d = tail
  <2>1. \A m \in 1 .. Len(d) : d[m] = tail[m]
    BY <1>2, <1>6
  <2> QED
    BY <1>6, <2>1, SeqEqual
<1> QED
  BY <1>2, <1>7, <1>8 DEF b, c, d

(* x is the file with the hunks behind the place of s replaced: r, the     *)
(* result, goes on behind what was written at s as x does behind the place.*)
Remains(x, W, original, s, r) ==
    \E u \in Seq(W) : x = SubSeq(original, 1, s.at) \o u /\ r = s.out \o u

(* The hunk before that place is replaced too. *)
LEMMA SpliceStep ==
    ASSUME NEW W, NEW original \in Seq(W), NEW h \in HunkOf(W), NEW s \in Accs(W),
           s.at <= HunkTarget(h), OldEnd(h) <= Len(original),
           NEW t, Written(t, original, s, h), NEW r, NEW x,
           Remains(x, W, original, t, r)
    PROVE  Splice(x, h) \in Seq(W) /\ Remains(Splice(x, h), W, original, s, r)
<1>0. PICK tail \in Seq(W) : x = SubSeq(original, 1, OldEnd(h)) \o tail /\ r = t.out \o tail
  BY DEF Remains, Written
<1> DEFINE T == HunkTarget(h)
           end == OldEnd(h)
           e == s.at
           out == s.out
           A == SubSeq(original, 1, e)
           B == SubSeq(original, e + 1, T)
           C == SubSeq(original, 1, T)
           N == HunkSide(h, "-")
           BN == B \o N
           u == BN \o tail
<1>12. e \in Nat /\ out \in Seq(W)
  BY DEF Accs
<1> HIDE DEF e, out
<1>13. e <= T
  BY DEF e
<1>1. T \in Nat /\ end \in Nat /\ T <= end /\ N \in Seq(W) /\ Len(original) \in Nat
  BY OldEndKnown
<1>2. SubSeq(x, 1, T) = C /\ SubSeq(x, end + 1, Len(x)) = tail
  <2> HIDE DEF T, end
  <2>1. x = SubSeq(original, 1, end) \o tail
    BY <1>0 DEF end
  <2>2. end <= Len(original) /\ tail \in Seq(W) /\ original \in Seq(W)
    BY DEF end
  <2> QED
    BY ONLY <1>1, <2>1, <2>2, PartsOfBoth DEF C
<1>3. Splice(x, h) = (C \o N) \o tail
  <2>1. Splice(x, h) = (SubSeq(x, 1, T) \o N) \o SubSeq(x, end + 1, Len(x))
    BY DEF Splice
  <2> HIDE DEF T, end, N, C
  <2> QED
    BY ONLY <1>2, <2>1
<1>4. t.out = (out \o B) \o N
  BY DEF Written, e, out
<1>5. A \in Seq(W) /\ B \in Seq(W) /\ C \in Seq(W) /\ A \o B = C
  <2>1. e <= T /\ T <= Len(original) /\ e <= Len(original) /\ 0 \in Nat /\ 0 <= e /\ 0 <= T
    BY <1>1, <1>12, <1>13
  <2> HIDE DEF T
  <2>2. SubSeq(original, 0 + 1, e) \in Seq(W)
    BY ONLY <2>1, PartKnown, original \in Seq(W), <1>12
  <2>3. SubSeq(original, e + 1, T) \in Seq(W)
    BY ONLY <1>1, <2>1, PartKnown, original \in Seq(W), <1>12
  <2>4. SubSeq(original, 0 + 1, T) \in Seq(W)
    BY ONLY <1>1, <2>1, PartKnown, original \in Seq(W)
  <2>5. /\ 1 \in 1 .. Len(original) + 1 /\ e \in 1 - 1 .. Len(original)
        /\ T \in e .. Len(original)
    BY <1>1, <1>12, <2>1
  <2>6. SubSeq(original, 1, e) \o SubSeq(original, e + 1, T) = SubSeq(original, 1, T)
    BY ONLY <2>5, original \in Seq(W), ConcatAdjacentSubSeq
  <2>7. 0 + 1 = 1
    OBVIOUS
  <2> QED
    BY <2>2, <2>3, <2>4, <2>6, <2>7
<1> HIDE DEF A, B, C, N, T, end
<1>6. BN \in Seq(W)
  BY <1>1, <1>5, ConcatTyped
<1>7. Joined(A, B, N) /\ Joined(out, B, N)
  BY <1>1, <1>5, <1>12, JoinedKnown
<1> HIDE DEF BN
<1>8. Joined(A, BN, tail) /\ Joined(out, BN, tail)
  BY <1>5, <1>6, <1>12, JoinedKnown
<1>9. u \in Seq(W) /\ A \o u \in Seq(W)
  <2>1. u \in Seq(W)
    BY <1>6, ConcatTyped
  <2> HIDE DEF u
  <2> QED
    BY <1>5, <2>1, ConcatTyped
<1>10. Splice(x, h) = A \o u
  <2>1. C \o N = A \o BN
    BY <1>5, <1>7 DEF Joined, BN
  <2>2. (A \o BN) \o tail = A \o u
    BY <1>8 DEF Joined
  <2> QED
    BY ONLY <1>3, <2>1, <2>2
<1>11. t.out \o tail = out \o u
  <2>1. (out \o B) \o N = out \o BN
    BY <1>7 DEF Joined, BN
  <2>2. (out \o BN) \o tail = out \o u
    BY <1>8 DEF Joined
  <2> QED
    BY ONLY <1>4, <2>1, <2>2
<1> HIDE DEF u
<1> QED
  BY <1>0, <1>9, <1>10, <1>11 DEF A, e, out, Remains

(* Where the first k hunks end, and that they fit one behind the other. *)
EndOf(hunks, k) == IF k = 0 THEN 0 ELSE OldEnd(hunks[k])
FitUpTo(original, hunks, k) ==
    \A j \in 1 .. k : Applicable(original, EndOf(hunks, j - 1), hunks[j])

(* The pass goes on exactly while the hunks fit. *)
LEMMA ApplicationsKnown ==
    ASSUME NEW W, NEW original \in Seq(W), NEW hunks \in Seq(HunkOf(W)), NEW a,
           Applications(a, W, original, hunks)
    PROVE  \A k \in 0 .. Len(hunks) :
              /\ a[k].ok <=> FitUpTo(original, hunks, k)
              /\ a[k].ok => a[k].at = EndOf(hunks, k)
<1> DEFINE n == Len(hunks)
           Known(k) == /\ a[k].ok <=> FitUpTo(original, hunks, k)
                       /\ a[k].ok => a[k].at = EndOf(hunks, k)
           S == {k \in Nat : k <= n => Known(k)}
<1>1. n \in Nat /\ \A k \in 1 .. n : hunks[k] \in HunkOf(W)
  BY ElementOfSeq
<1>2. /\ \A k \in 0 .. n : a[k] \in Accs(W)
      /\ a[0] = [ok |-> TRUE, at |-> 0, out |-> <<>>]
      /\ \A k \in 1 .. n : a[k] = ApplyHunk(original, a[k - 1], hunks[k])
  BY DEF Applications
<1> HIDE DEF n
<1>3. 0 \in S
  <2>1. a[0].ok /\ a[0].at = 0
    BY <1>2
  <2>2. FitUpTo(original, hunks, 0)
    BY DEF FitUpTo
  <2> QED
    BY <2>1, <2>2 DEF EndOf
<1>4. ASSUME NEW k \in Nat, k \in S PROVE k + 1 \in S
  <2> SUFFICES ASSUME k + 1 <= n PROVE Known(k + 1)
    OBVIOUS
  <2>1. k \in 0 .. n /\ k + 1 \in 1 .. n /\ (k + 1) - 1 = k /\ k + 1 # 0
    BY <1>1
  <2> DEFINE h == hunks[k + 1]
  <2>2. Known(k)
    BY <1>4, <2>1
  <2>3. Took(a[k + 1], original, a[k], h)
    <3>1. a[k] \in Accs(W) /\ h \in HunkOf(W)
      BY <1>1, <1>2, <2>1
    <3>2. a[k + 1] = ApplyHunk(original, a[k], h)
      BY <1>2, <2>1
    <3> HIDE DEF h
    <3> QED
      BY <3>1, <3>2, HunkApplied
  <2>4. /\ a[k + 1].ok <=> a[k].ok /\ Applicable(original, a[k].at, h)
        /\ a[k + 1].ok => a[k + 1].at = OldEnd(h)
    BY <2>3 DEF Took, Written
  <2>5. FitUpTo(original, hunks, k + 1) <=>
           FitUpTo(original, hunks, k) /\ Applicable(original, EndOf(hunks, k), h)
    <3>1. \A j \in 1 .. k + 1 : j \in 1 .. k \/ j = k + 1
      OBVIOUS
    <3>2. \A j \in 1 .. k : j \in 1 .. k + 1
      OBVIOUS
    <3> QED
      BY <2>1, <3>1, <3>2 DEF FitUpTo
  <2>6. EndOf(hunks, k + 1) = OldEnd(h)
    BY <2>1 DEF EndOf
  <2> HIDE DEF h
  <2> QED
    BY ONLY <2>2, <2>4, <2>5, <2>6
<1>5. Nat \subseteq S
  <2> HIDE DEF S
  <2>1. \A k \in Nat : k \in S => k + 1 \in S
    BY <1>4
  <2> QED
    BY ONLY <1>3, <2>1, Induction
<1> QED
  BY <1>1, <1>5 DEF n

(* Which is what the property says of all of them. *)
LEMMA AllFit ==
    ASSUME NEW W, NEW original \in Seq(W), NEW hunks \in Seq(HunkOf(W))
    PROVE  FitUpTo(original, hunks, Len(hunks)) <=>
              /\ \A k \in DOMAIN hunks : validate_hunk_counts(hunks[k])
              /\ HunksFit(original, hunks)
<1> DEFINE n == Len(hunks)
<1>1. n \in Nat /\ DOMAIN hunks = 1 .. n /\ \A k \in 1 .. n : hunks[k] \in HunkOf(W)
  BY ElementOfSeq
<1>2. \A k \in 1 .. n : HunkTarget(hunks[k]) \in Nat
  BY <1>1, OldEndKnown
<1> HIDE DEF n
<1>3. \A k \in 1 .. n : EndOf(hunks, k - 1) <= HunkTarget(hunks[k]) <=>
                           (k > 1 => OldEnd(hunks[k - 1]) <= HunkTarget(hunks[k]))
  <2> TAKE k \in 1 .. n
  <2>1. CASE k = 1
    BY <1>2, <2>1 DEF EndOf
  <2>2. CASE k # 1
    BY <1>1, <2>2 DEF EndOf
  <2> QED
    BY <2>1, <2>2
<1>4. \A k \in 1 .. n :
         Applicable(original, EndOf(hunks, k - 1), hunks[k]) <=>
            /\ validate_hunk_counts(hunks[k]) /\ OldFits(original, hunks[k])
            /\ k > 1 => OldEnd(hunks[k - 1]) <= HunkTarget(hunks[k])
  BY <1>3 DEF Applicable
<1>5. HunksFit(original, hunks) <=>
         \A k \in 1 .. n : /\ OldFits(original, hunks[k])
                           /\ k > 1 => OldEnd(hunks[k - 1]) <= HunkTarget(hunks[k])
  BY <1>1 DEF HunksFit, OldFits
<1> QED
  BY <1>1, <1>4, <1>5 DEF FitUpTo, n

(* The m-th of hunks that all fit. *)
LEMMA FittingHunk ==
    ASSUME NEW W, NEW original \in Seq(W), NEW hunks \in Seq(HunkOf(W)), NEW a,
           Applications(a, W, original, hunks), a[Len(hunks)].ok,
           NEW m \in 1 .. Len(hunks)
    PROVE  /\ hunks[m] \in HunkOf(W) /\ a[m] \in Accs(W) /\ a[m - 1] \in Accs(W)
           /\ a[m - 1].at <= HunkTarget(hunks[m])
           /\ OldEnd(hunks[m]) <= Len(original) /\ a[m].at = OldEnd(hunks[m])
           /\ Written(a[m], original, a[m - 1], hunks[m])
<1> DEFINE n == Len(hunks)
<1>1. n \in Nat /\ hunks[m] \in HunkOf(W) /\ m \in Nat /\ m <= n
  BY ElementOfSeq
<1>2. /\ m \in 0 .. n /\ m - 1 \in 0 .. n /\ n \in 0 .. n
      /\ m \in 1 .. n
  BY <1>1
<1> HIDE DEF n
<1>3. \A k \in 0 .. n : /\ a[k].ok <=> FitUpTo(original, hunks, k)
                        /\ a[k].ok => a[k].at = EndOf(hunks, k)
  BY ApplicationsKnown DEF n
<1>4. FitUpTo(original, hunks, n)
  BY <1>2, <1>3 DEF n
<1>5. FitUpTo(original, hunks, m) /\ FitUpTo(original, hunks, m - 1)
  <2>1. (\A j \in 1 .. m : j \in 1 .. n) /\ (\A j \in 1 .. m - 1 : j \in 1 .. n)
    BY <1>1
  <2> QED
    BY <1>4, <2>1 DEF FitUpTo
<1>6. a[m].ok /\ a[m].at = EndOf(hunks, m) /\ a[m - 1].at = EndOf(hunks, m - 1)
  BY <1>2, <1>3, <1>5
<1>7. Applicable(original, a[m - 1].at, hunks[m])
  BY <1>2, <1>4, <1>6 DEF FitUpTo
<1>8. EndOf(hunks, m) = OldEnd(hunks[m])
  BY <1>2 DEF EndOf
<1>9. a[m] \in Accs(W) /\ a[m - 1] \in Accs(W)
  BY <1>2 DEF Applications, n
<1>10. Took(a[m], original, a[m - 1], hunks[m])
  <2>1. a[m] = ApplyHunk(original, a[m - 1], hunks[m])
    BY <1>2 DEF Applications, n
  <2> QED
    BY <1>1, <1>9, <2>1, HunkApplied
<1> QED
  BY <1>1, <1>6, <1>7, <1>8, <1>9, <1>10 DEF Took, Applicable, OldFits

(* The m-th hunk is replaced. *)
LEMMA HunkReplaced ==
    ASSUME NEW W, NEW original \in Seq(W), NEW hunks \in Seq(HunkOf(W)), NEW a,
           Applications(a, W, original, hunks), a[Len(hunks)].ok,
           NEW m \in 1 .. Len(hunks), NEW r, NEW x, Remains(x, W, original, a[m], r)
    PROVE  /\ Splice(x, hunks[m]) \in Seq(W)
           /\ Remains(Splice(x, hunks[m]), W, original, a[m - 1], r)
<1> DEFINE h == hunks[m]
<1>1. /\ h \in HunkOf(W) /\ a[m - 1] \in Accs(W)
      /\ a[m - 1].at <= HunkTarget(h) /\ OldEnd(h) <= Len(original)
      /\ Written(a[m], original, a[m - 1], h)
  BY FittingHunk
<1> HIDE DEF h
<1>2. Splice(x, h) \in Seq(W) /\ Remains(Splice(x, h), W, original, a[m - 1], r)
  BY <1>1, SpliceStep
<1> QED
  BY <1>2 DEF h

(* It stays so while one hunk after the other is replaced from the end. *)
LEMMA SplicesRemain ==
    ASSUME NEW W, NEW original \in Seq(W), NEW hunks \in Seq(HunkOf(W)), NEW a,
           Applications(a, W, original, hunks), a[Len(hunks)].ok,
           NEW n, n = Len(hunks),
           NEW r, r = a[n].out \o SubSeq(original, a[n].at + 1, Len(original)),
           NEW f, f[0] = original,
           \A k \in 1 .. n :
              f[k - 1] \in Seq(W) /\ Splice(f[k - 1], hunks[n - k + 1]) \in Seq(W) =>
                 f[k] = Splice(f[k - 1], hunks[n - k + 1])
    PROVE  \A k \in 0 .. n : /\ f[k] \in Seq(W)
                             /\ Remains(f[k], W, original, a[n - k], r)
<1> DEFINE Known(k) == f[k] \in Seq(W) /\ Remains(f[k], W, original, a[n - k], r)
           S == {k \in Nat : k <= n => Known(k)}
<1>1. n \in Nat /\ n \in 0 .. n /\ Len(original) \in Nat
  OBVIOUS
<1>2. 0 \in S
  <2> DEFINE at == a[n].at
             u == SubSeq(original, at + 1, Len(original))
  <2>1. at \in 0 .. Len(original)
    <3>1. CASE n = 0
      <4>1. at = 0
        BY <3>1 DEF Applications
      <4> QED
        BY <1>1, <4>1
    <3>2. CASE n # 0
      <4>1. n \in 1 .. Len(hunks)
        BY <1>1, <3>2
      <4>2. at <= Len(original) /\ a[n] \in Accs(W)
        BY <4>1, FittingHunk
      <4>3. at \in Nat
        BY <4>2 DEF Accs
      <4> QED
        BY <1>1, <4>2, <4>3
    <3> QED
      BY <3>1, <3>2
  <2> HIDE DEF at
  <2>2. u \in Seq(W)
    BY <1>1, <2>1, PartKnown
  <2>3. original = SubSeq(original, 1, at) \o u
    <3>1. /\ 1 \in 1 .. Len(original) + 1 /\ at \in 1 - 1 .. Len(original)
          /\ Len(original) \in at .. Len(original)
      BY <1>1, <2>1
    <3>2. SubSeq(original, 1, at) \o u = SubSeq(original, 1, Len(original))
      BY ONLY <3>1, original \in Seq(W), ConcatAdjacentSubSeq
    <3>3. SubSeq(original, 1, Len(original)) = original
      BY SubSeqFull
    <3> QED
      BY <3>2, <3>3
  <2>4. r = a[n].out \o u
    BY DEF at
  <2> HIDE DEF u
  <2>5. Remains(original, W, original, a[n], r)
    BY <2>2, <2>3, <2>4 DEF Remains, at
  <2>6. n - 0 = n
    BY <1>1
  <2> QED
    BY <2>5, <2>6
<1>3. ASSUME NEW k \in Nat, k \in S PROVE k + 1 \in S
  <2> SUFFICES ASSUME k + 1 <= n PROVE Known(k + 1)
    OBVIOUS
  <2> DEFINE m == n - k
             h == hunks[m]
             x == f[k]
  <2>1. /\ m \in 1 .. Len(hunks) /\ m - 1 = n - (k + 1)
        /\ k + 1 \in 1 .. n /\ (k + 1) - 1 = k /\ n - (k + 1) + 1 = m
    BY <1>1
  <2>2. x \in Seq(W) /\ Remains(x, W, original, a[m], r)
    BY <1>3, <2>1
  <2> HIDE DEF m, x
  <2>7. Splice(x, h) \in Seq(W) /\ Remains(Splice(x, h), W, original, a[m - 1], r)
    BY <2>1, <2>2, HunkReplaced
  <2> HIDE DEF h
  <2>9. f[k + 1] = Splice(x, h)
    <3>1. f[(k + 1) - 1] = x /\ hunks[n - (k + 1) + 1] = h
      BY <2>1 DEF x, h
    <3>2. /\ f[(k + 1) - 1] \in Seq(W)
          /\ Splice(f[(k + 1) - 1], hunks[n - (k + 1) + 1]) \in Seq(W)
      BY <2>2, <2>7, <3>1
    <3>3. f[k + 1] = Splice(f[(k + 1) - 1], hunks[n - (k + 1) + 1])
      BY <2>1, <3>2
    <3> QED
      BY <3>1, <3>3
  <2> QED
    BY <2>1, <2>7, <2>9
<1>4. Nat \subseteq S
  <2> HIDE DEF S
  <2>1. \A k \in Nat : k \in S => k + 1 \in S
    BY <1>3
  <2> QED
    BY ONLY <1>2, <2>1, Induction
<1> QED
  BY <1>1, <1>4

(* What is written is the file with every hunk replaced, from the last one *)
(* to the first.                                                           *)
LEMMA SplicedKnown ==
    ASSUME NEW W, NEW original \in Seq(W), NEW hunks \in Seq(HunkOf(W)), NEW a,
           Applications(a, W, original, hunks), a[Len(hunks)].ok,
           NEW r, r = a[Len(hunks)].out
                         \o SubSeq(original, a[Len(hunks)].at + 1, Len(original))
    PROVE  Spliced(original, hunks) = r
<1> DEFINE n == Len(hunks)
           D == Seq(W)
           Next(x, k) == Splice(x, hunks[n - k + 1])
           F == [k \in 1 .. n |-> [x \in D |-> IF Next(x, k) \in D THEN Next(x, k) ELSE <<>>]]
           IsF(g) == g = [k \in 0 .. n |-> IF k = 0 THEN original ELSE Next(g[k - 1], k)]
           f == CHOOSE g : IsF(g)
           Steps(g) == /\ g[0] = original
                       /\ \A k \in 1 .. n : g[k - 1] \in D /\ Next(g[k - 1], k) \in D =>
                             g[k] = Next(g[k - 1], k)
           Known(g) == \A k \in 0 .. n : g[k] \in D /\ Remains(g[k], W, original, a[n - k], r)
<1>0. n \in Nat /\ original \in D /\ <<>> \in D
  OBVIOUS
<1>1. Spliced(original, hunks) = f[n]
  BY DEF Spliced
<1>2. ASSUME NEW g, Steps(g) PROVE Known(g)
  <2>1. n = Len(hunks)
    OBVIOUS
  <2> HIDE DEF n
  <2> QED
    BY <1>2, <2>1, SplicesRemain
<1>3. ASSUME NEW g, Known(g), NEW k \in 1 .. n
      PROVE  g[k - 1] \in D /\ Next(g[k - 1], k) \in D
  <2> DEFINE m == n - k + 1
             x == g[k - 1]
  <2>1. k - 1 \in 0 .. n /\ n - (k - 1) = m /\ m \in 1 .. Len(hunks)
    BY <1>0
  <2>2. x \in D /\ Remains(x, W, original, a[m], r)
    BY <1>3, <2>1
  <2> HIDE DEF m, x
  <2>3. Splice(x, hunks[m]) \in Seq(W)
    BY <2>1, <2>2, HunkReplaced
  <2> QED
    BY <2>2, <2>3 DEF m, x
<1> HIDE DEF n, Next, D
<1>4. F \in [1 .. n -> [D -> D]]
  BY <1>0
<1>5. PICK g : PassesOver(g, n, D, original, F)
  <2> HIDE DEF F
  <2> QED
    BY ONLY <1>0, <1>4, PassExists
<1>6. /\ g \in [0 .. n -> D]
      /\ \A k \in 0 .. n : g[k] = IF k = 0 THEN original ELSE F[k][g[k - 1]]
  BY <1>5 DEF PassesOver
<1>7. \A k \in 1 .. n : k - 1 \in 0 .. n /\ k \in 0 .. n /\ k # 0
  BY <1>0
<1>8. \A k \in 1 .. n :
         g[k] = IF Next(g[k - 1], k) \in D THEN Next(g[k - 1], k) ELSE <<>>
  BY <1>6, <1>7
<1> HIDE DEF F
<1>9. Steps(g)
  <2>1. 0 \in 0 .. n
    BY <1>0
  <2>2. g[0] = original
    BY ONLY <1>6, <2>1
  <2> QED
    BY <1>8, <2>2
<1>10. IsF(g)
  <2>1. \A k \in 1 .. n : Next(g[k - 1], k) \in D
    <3> HIDE DEF Known
    <3> QED
      BY <1>2, <1>3, <1>9
  <2>2. \A k \in 1 .. n : g[k] = Next(g[k - 1], k)
    BY <1>8, <2>1
  <2>3. \A k \in 0 .. n : k = 0 \/ k \in 1 .. n
    BY <1>0
  <2>4. g[0] = original
    BY <1>9
  <2> QED
    BY <1>6, <2>2, <2>3, <2>4
<1>11. IsF(f)
  BY <1>10
<1> HIDE DEF f
<1>12. Steps(f)
  <2>1. 0 \in 0 .. n
    BY <1>0
  <2> QED
    BY <1>7, <1>11, <2>1
<1>13. f[n] \in D /\ Remains(f[n], W, original, a[0], r)
  <2>1. n \in 0 .. n /\ n - n = 0
    BY <1>0
  <2>2. Known(f)
    BY <1>2, <1>12
  <2> QED
    BY <2>1, <2>2
<1>14. a[0].at = 0 /\ a[0].out = <<>>
  BY DEF Applications
<1>15. PICK u \in Seq(W) : f[n] = SubSeq(original, 1, 0) \o u /\ r = <<>> \o u
  BY <1>13, <1>14 DEF Remains
<1>16. SubSeq(original, 1, 0) = <<>>
  BY SubSeqEmpty
<1>17. <<>> \o u = u
  BY ConcatEmptySeq
<1> QED
  BY ONLY <1>1, <1>15, <1>16, <1>17

(***************************************************************************)
(* For every file and every list of hunks, over lines of any kind: the     *)
(* hunks are applied exactly if each has the lines its header counts, its  *)
(* old lines stand in the file where it says, and no hunk begins before    *)
(* the end of the one before it; the result is then the file with exactly  *)
(* those ranges replaced.  Where a hunk is, is HunkTarget, the code's own  *)
(* place for it: for a hunk without old lines that is one line before the  *)
(* one a unified diff means (nerve-patch lib.rs, apply_hunks,              *)
(* validate_hunk_counts, consume_original_line).                           *)
(***************************************************************************)
THEOREM HunksApplyExactly ==
    ASSUME NEW W, NEW original \in Seq(W), NEW hunks \in Seq(HunkOf(W))
    PROVE  apply_hunks(original, hunks) =
              IF /\ \A k \in DOMAIN hunks : validate_hunk_counts(hunks[k])
                 /\ HunksFit(original, hunks)
              THEN Ok(Spliced(original, hunks))
              ELSE Err
<1> DEFINE n == Len(hunks)
           Fine == /\ \A k \in DOMAIN hunks : validate_hunk_counts(hunks[k])
                   /\ HunksFit(original, hunks)
<1>1. PICK a : Applications(a, W, original, hunks)
  BY ApplicationsExist
<1> DEFINE r == a[n].out \o SubSeq(original, a[n].at + 1, Len(original))
<1>2. apply_hunks(original, hunks) = IF a[n].ok THEN Ok(r) ELSE Err
  BY <1>1 DEF Applications
<1>3. a[n].ok <=> FitUpTo(original, hunks, n)
  <2>1. n \in 0 .. n
    OBVIOUS
  <2> QED
    BY <1>1, <2>1, ApplicationsKnown
<1>4. FitUpTo(original, hunks, n) <=> Fine
  BY AllFit
<1>5. ASSUME a[n].ok PROVE Spliced(original, hunks) = r
  BY <1>1, <1>5, SplicedKnown
<1> HIDE DEF n, r, Fine
<1>6. apply_hunks(original, hunks) = IF Fine THEN Ok(Spliced(original, hunks)) ELSE Err
  BY <1>2, <1>3, <1>4, <1>5
<1> QED
  BY <1>6 DEF Fine

-----------------------------------------------------------------------------
(***************************************************************************)
(* The prompt                                                              *)
(***************************************************************************)
Specifications ==
    [program : Programs, timeout : Int, keys : SUBSET EnvKeys] \cup Found
Goals == [id : Nat, spec : Specifications, by : {"file", "argv", "prose"},
          ws : Workspaces] \cup {NoGoal}
Sessions == [ws : Workspaces, parent : Nat, patch : BOOLEAN, goal : Goals]

ConsoleSteps == {"ready", "confirm", "write"}
ConsoleStates(n) ==
    [at : Workspaces, apply : BOOLEAN, goal : Goals, last : 0 .. n, cur : 0 .. n,
     paste : BOOLEAN, step : ConsoleSteps, intent : Goals]

PromptTypes ==
    /\ goalFile \in [Workspaces -> Goals]
    /\ goalHistory = [w \in Workspaces |-> goalHistory[w]]
    /\ sessions \in Seq(Sessions)
    /\ applied \in [Workspaces -> SUBSET (1 .. Len(sessions))]
    /\ console \in [Consoles -> ConsoleStates(Len(sessions))]
    /\ goals \in Nat

(* The limit on the time a proposed check may take. *)
Timely(g) == g.spec.timeout \in 1 .. 3600

(* A goal in force in workspace w: it belongs there, and if it came from   *)
(* prose the history of w has it.                                          *)
Home(g, w, h) ==
    g # NoGoal =>
        /\ g.ws = w
        /\ g.by = "prose" => g.id \in h[w] /\ Timely(g)

GoalsAtHome ==
    /\ \A w \in Workspaces : Home(goalFile[w], w, goalHistory)
    /\ \A c \in Consoles :
          /\ Home(console[c].goal, console[c].at, goalHistory)
          /\ console[c].goal # NoGoal => validate(console[c].goal.spec)

(* What a prompt asks to confirm, and what it is about to write.           *)
IntentSound(c) ==
    console[c].step # "ready" =>
        /\ console[c].intent.ws = console[c].at
        /\ validate(console[c].intent.spec)
        /\ Timely(console[c].intent)
        /\ console[c].step = "write" =>
              console[c].intent.id \in goalHistory[console[c].at]

ParentsBefore == \A n \in DOMAIN sessions : sessions[n].parent \in 0 .. n - 1

PromptInv ==
    /\ PromptTypes /\ GoalsAtHome /\ ParentsBefore
    /\ SessionGoalIsOwn /\ PatchStaysHome /\ BranchStaysHome
    /\ \A c \in Consoles : IntentSound(c)

-----------------------------------------------------------------------------
(* The steps of a prompt that change nothing but its own state. *)
LEMMA ConsoleMoves ==
    ASSUME PromptInv, NEW c \in Consoles, NEW s \in ConsoleStates(Len(sessions)),
           console' = [console EXCEPT ![c] = s],
           UNCHANGED <<goalFile, goalHistory, sessions, applied>>, goals' \in Nat,
           Home(s.goal, s.at, goalHistory), s.goal # NoGoal => validate(s.goal.spec),
           s.step # "ready" =>
              /\ s.intent.ws = s.at /\ validate(s.intent.spec)
              /\ Timely(s.intent)
              /\ s.step = "write" => s.intent.id \in goalHistory[s.at]
    PROVE  PromptInv'
<1>1. PromptTypes'
  BY DEF PromptInv, PromptTypes
<1>2. /\ console'[c] = s
      /\ \A d \in Consoles : d # c => console'[d] = console[d]
  BY DEF PromptInv, PromptTypes
<1>3. GoalsAtHome'
  BY <1>2 DEF PromptInv, GoalsAtHome
<1>4. \A d \in Consoles : IntentSound(d)'
  BY <1>2 DEF PromptInv, IntentSound
<1>5. ParentsBefore' /\ SessionGoalIsOwn' /\ PatchStaysHome' /\ BranchStaysHome'
  BY DEF PromptInv, ParentsBefore, SessionGoalIsOwn, PatchStaysHome, BranchStaysHome
<1> QED
  BY <1>1, <1>3, <1>4, <1>5 DEF PromptInv

(* What is known of a prompt. *)
LEMMA ConsoleKnown ==
    ASSUME PromptInv, NEW c \in Consoles
    PROVE  /\ console[c] \in ConsoleStates(Len(sessions)) /\ Len(sessions) \in Nat
           /\ console[c].at \in Workspaces /\ console[c].goal \in Goals
           /\ console[c].intent \in Goals
           /\ console[c].last \in 0 .. Len(sessions)
           /\ console[c].cur \in 0 .. Len(sessions)
           /\ Home(console[c].goal, console[c].at, goalHistory)
           /\ console[c].goal # NoGoal => validate(console[c].goal.spec)
           /\ console[c].step # "ready" =>
                 /\ console[c].intent.ws = console[c].at
                 /\ validate(console[c].intent.spec)
                 /\ Timely(console[c].intent)
                 /\ console[c].step = "write" =>
                       console[c].intent.id \in goalHistory[console[c].at]
<1>1. console[c] \in ConsoleStates(Len(sessions)) /\ Len(sessions) \in Nat
  BY DEF PromptInv, PromptTypes
<1>2. /\ console[c].at \in Workspaces /\ console[c].goal \in Goals
      /\ console[c].intent \in Goals
      /\ console[c].last \in 0 .. Len(sessions)
      /\ console[c].cur \in 0 .. Len(sessions)
  BY <1>1 DEF ConsoleStates
<1> QED
  BY <1>1, <1>2 DEF PromptInv, GoalsAtHome, IntentSound

(* What a prompt loads is a goal of its workspace that validates. *)
LEMMA LoadedGoal ==
    ASSUME PromptInv, NEW w \in Workspaces
    PROVE  /\ load_active_goal(w) \in Goals
           /\ Home(load_active_goal(w), w, goalHistory)
           /\ load_active_goal(w) # NoGoal => validate(load_active_goal(w).spec)
<1>1. goalFile[w] \in Goals /\ Home(goalFile[w], w, goalHistory) /\ NoGoal \in Goals
  BY DEF PromptInv, PromptTypes, GoalsAtHome, Goals
<1>2. Home(NoGoal, w, goalHistory)
  BY DEF Home
<1> QED
  BY <1>1, <1>2 DEF load_active_goal

(* A prompt that is opened, and one that changes workspace or mode. *)
LEMMA QuietKeeps ==
    ASSUME PromptInv, NEW c \in Consoles,
           \/ \E mode \in BOOLEAN : Mode(c, mode)
           \/ \E w \in Workspaces : ChangeDirectory(c, w)
           \/ \E on \in BOOLEAN : Paste(c, on)
           \/ \E w \in Workspaces, mode \in BOOLEAN : Reopen(c, w, mode)
    PROVE  PromptInv'
<1>0. /\ UNCHANGED <<goalFile, goalHistory, sessions, applied, goals>>
      /\ goals' \in Nat /\ Len(sessions) \in Nat /\ "ready" \in ConsoleSteps
  <2>1. UNCHANGED <<goalFile, goalHistory, sessions, applied, goals>>
    BY DEF Mode, ChangeDirectory, Paste, Reopen, FilesSame
  <2> QED
    BY <2>1 DEF PromptInv, PromptTypes, ConsoleSteps
<1>k. /\ console[c] \in ConsoleStates(Len(sessions))
      /\ Home(console[c].goal, console[c].at, goalHistory)
      /\ console[c].goal # NoGoal => validate(console[c].goal.spec)
      /\ console \in [Consoles -> ConsoleStates(Len(sessions))]
  BY ConsoleKnown DEF PromptInv, PromptTypes
<1>1. ASSUME NEW mode \in BOOLEAN, Mode(c, mode) PROVE PromptInv'
  <2> DEFINE s == [console[c] EXCEPT !.apply = mode]
  <2>1. console' = [console EXCEPT ![c] = s] /\ console[c].step = "ready"
    BY <1>1 DEF Mode, Ready
  <2>2. /\ s \in ConsoleStates(Len(sessions)) /\ s.goal = console[c].goal
        /\ s.at = console[c].at /\ s.step = console[c].step
    BY <1>k DEF ConsoleStates
  <2> HIDE DEF s
  <2> QED
    BY <1>0, <1>k, <2>1, <2>2, ConsoleMoves
<1>2. ASSUME NEW on \in BOOLEAN, Paste(c, on) PROVE PromptInv'
  <2> DEFINE s == [console[c] EXCEPT !.paste = on]
  <2>1. console' = [console EXCEPT ![c] = s] /\ console[c].step = "ready"
    BY <1>2 DEF Paste
  <2>2. /\ s \in ConsoleStates(Len(sessions)) /\ s.goal = console[c].goal
        /\ s.at = console[c].at /\ s.step = console[c].step
    BY <1>k DEF ConsoleStates
  <2> HIDE DEF s
  <2> QED
    BY <1>0, <1>k, <2>1, <2>2, ConsoleMoves
<1>3. ASSUME NEW w \in Workspaces, ChangeDirectory(c, w) PROVE PromptInv'
  <2> DEFINE s == [console[c] EXCEPT !.at = w, !.goal = load_active_goal(w)]
  <2>0. load_active_goal(w) \in Goals
    BY LoadedGoal
  <2>1. console' = [console EXCEPT ![c] = s] /\ console[c].step = "ready"
    BY <1>3, <1>k DEF ChangeDirectory, Ready
  <2>2. /\ s \in ConsoleStates(Len(sessions)) /\ s.goal = load_active_goal(w)
        /\ s.at = w /\ s.step = console[c].step
    BY <1>k, <2>0 DEF ConsoleStates
  <2> HIDE DEF s
  <2> QED
    BY <1>0, <1>k, <2>1, <2>2, LoadedGoal, ConsoleMoves
<1>4. ASSUME NEW w \in Workspaces, NEW mode \in BOOLEAN, Reopen(c, w, mode) PROVE PromptInv'
  <2>0. load_active_goal(w) \in Goals /\ NoGoal \in Goals
    BY LoadedGoal DEF Goals
  <2>1. console' = [console EXCEPT ![c] = Opened(w, mode)]
    BY <1>4 DEF Reopen
  <2>2. /\ Opened(w, mode) \in ConsoleStates(Len(sessions))
        /\ Opened(w, mode).goal = load_active_goal(w)
        /\ Opened(w, mode).at = w /\ Opened(w, mode).step = "ready"
    BY <1>0, <2>0 DEF ConsoleStates, Opened
  <2> QED
    BY <1>0, <2>1, <2>2, LoadedGoal, ConsoleMoves
<1> QED
  BY <1>1, <1>2, <1>3, <1>4

(* A session more: its goal, its parent and its patch are those of its     *)
(* workspace.                                                              *)
LEMMA SessionKeeps ==
    ASSUME PromptInv, NEW c \in Consoles, NEW r \in Sessions,
           sessions' = Append(sessions, r),
           NEW s \in ConsoleStates(Len(sessions) + 1),
           console' = [console EXCEPT ![c] = s],
           UNCHANGED <<goalFile, goalHistory, goals>>,
           s.at = console[c].at, s.goal = console[c].goal, s.step = "ready",
           r.ws = console[c].at,
           r.goal \in {NoGoal, console[c].goal},
           r.parent \in 0 .. Len(sessions),
           r.parent # 0 => sessions[r.parent].ws = r.ws,
           \/ applied' = applied
           \/ applied' = [applied EXCEPT ![r.ws] = @ \cup {Len(sessions) + 1}]
    PROVE  PromptInv'
<1>0. /\ sessions \in Seq(Sessions) /\ Len(sessions) \in Nat
      /\ r.ws \in Workspaces
  BY DEF PromptInv, PromptTypes, Sessions
<1>1. /\ sessions' \in Seq(Sessions) /\ Len(sessions') = Len(sessions) + 1
      /\ sessions'[Len(sessions) + 1] = r
      /\ \A n \in 1 .. Len(sessions) : sessions'[n] = sessions[n]
      /\ DOMAIN sessions = 1 .. Len(sessions)
      /\ DOMAIN sessions' = 1 .. Len(sessions) + 1
  BY <1>0, AppendProperties
<1>2. /\ console'[c] = s
      /\ \A d \in Consoles : d # c => console'[d] = console[d]
      /\ \A d \in Consoles : console'[d].at = console[d].at /\ console'[d].goal = console[d].goal
  BY DEF PromptInv, PromptTypes
<1>3. \A w \in Workspaces : \A n \in applied'[w] :
          n \in applied[w] \/ (n = Len(sessions) + 1 /\ w = r.ws)
  BY <1>0 DEF PromptInv, PromptTypes
<1>4. PromptTypes'
  <2>1. console' \in [Consoles -> ConsoleStates(Len(sessions'))]
    <3>1. ASSUME NEW x \in ConsoleStates(Len(sessions))
          PROVE  x \in ConsoleStates(Len(sessions) + 1)
      BY <1>0 DEF ConsoleStates
    <3> QED
      BY <1>1, <3>1 DEF PromptInv, PromptTypes
  <2>2. applied' \in [Workspaces -> SUBSET (1 .. Len(sessions'))]
    BY <1>0, <1>1 DEF PromptInv, PromptTypes
  <2> QED
    BY <1>1, <2>1, <2>2 DEF PromptInv, PromptTypes
<1>5. GoalsAtHome'
  BY <1>2 DEF PromptInv, GoalsAtHome
<1>6. \A d \in Consoles : IntentSound(d)'
  BY <1>2 DEF PromptInv, IntentSound
<1>7. ParentsBefore'
  BY <1>0, <1>1 DEF PromptInv, ParentsBefore
<1>8. SessionGoalIsOwn'
  <2>1. r.goal # NoGoal => r.goal.ws = r.ws /\ validate(r.goal.spec)
    BY ConsoleKnown DEF Home
  <2> QED
    BY <1>0, <1>1, <2>1 DEF PromptInv, SessionGoalIsOwn
<1>9. PatchStaysHome'
  <2>1. \A w \in Workspaces : \A n \in applied[w] : n \in 1 .. Len(sessions)
    BY DEF PromptInv, PromptTypes
  <2> QED
    BY <1>0, <1>1, <1>3, <2>1 DEF PromptInv, PatchStaysHome
<1>10. BranchStaysHome'
  <2>1. ASSUME NEW n \in 1 .. Len(sessions), sessions[n].parent # 0
        PROVE  sessions[n].parent \in 1 .. Len(sessions)
    BY <1>0, <1>1, <2>1 DEF PromptInv, ParentsBefore
  <2>2. r.parent # 0 => r.parent \in 1 .. Len(sessions)
    BY <1>0
  <2>3. ASSUME NEW n \in DOMAIN sessions', sessions'[n].parent # 0
        PROVE  sessions'[sessions'[n].parent].ws = sessions'[n].ws
    <3>1. CASE n \in 1 .. Len(sessions)
      BY <1>1, <2>1, <2>3, <3>1 DEF PromptInv, BranchStaysHome
    <3>2. CASE n = Len(sessions) + 1
      BY <1>1, <2>2, <2>3, <3>2
    <3>3. n \in 1 .. Len(sessions) + 1
      BY <1>1
    <3>4. n \in 1 .. Len(sessions) \/ n = Len(sessions) + 1
      BY <1>0, <3>3
    <3> QED
      BY <3>1, <3>2, <3>4
  <2> QED
    BY <2>3 DEF BranchStaysHome
<1> QED
  BY <1>4, <1>5, <1>6, <1>7, <1>8, <1>9, <1>10 DEF PromptInv

(* A task runs in a new session, under the goal of its workspace. *)
LEMMA TaskKeeps ==
    ASSUME PromptInv, NEW c \in Consoles, NEW patch \in BOOLEAN,
           NEW accepted \in BOOLEAN, Task(c, patch, accepted)
    PROVE  PromptInv'
<1> DEFINE n == Len(sessions) + 1
           r == [ws |-> console[c].at, parent |-> 0, patch |-> patch,
                 goal |-> console[c].goal]
           s == [console[c] EXCEPT !.cur = n, !.last = n, !.paste = FALSE]
<1>0. /\ console[c] \in ConsoleStates(Len(sessions)) /\ Len(sessions) \in Nat
      /\ console[c].at \in Workspaces /\ console[c].goal \in Goals
      /\ applied \in [Workspaces -> SUBSET (1 .. Len(sessions))]
  BY ConsoleKnown DEF PromptInv, PromptTypes
<1>1. /\ sessions' = Append(sessions, r) /\ console[c].step = "ready"
      /\ UNCHANGED <<goalFile, goalHistory, goals>>
      /\ console' = [console EXCEPT ![c] = s]
      /\ applied' = [applied EXCEPT ![console[c].at] =
            IF console[c].apply /\ patch /\ accepted THEN @ \cup {n} ELSE @]
  BY DEF Task, PromptInv, PromptTypes
<1>2. /\ s \in ConsoleStates(n) /\ s.at = console[c].at
      /\ s.goal = console[c].goal /\ s.step = console[c].step
  <2>1. n \in 0 .. n /\ FALSE \in BOOLEAN
    BY <1>0
  <2>2. console[c] \in ConsoleStates(n)
    BY <1>0 DEF ConsoleStates
  <2> HIDE DEF n
  <2> QED
    BY <2>1, <2>2 DEF ConsoleStates
<1>3. r \in Sessions /\ r.ws = console[c].at /\ r.goal = console[c].goal /\ r.parent = 0
  BY <1>0 DEF Sessions
<1>4. \/ applied' = applied
      \/ applied' = [applied EXCEPT ![r.ws] = @ \cup {n}]
  BY <1>0, <1>1, <1>3
<1>5. r.goal \in {NoGoal, console[c].goal} /\ r.parent \in 0 .. Len(sessions)
  BY <1>0, <1>3
<1> HIDE DEF s, r
<1> QED
  BY <1>1, <1>2, <1>3, <1>4, <1>5, SessionKeeps

(* A fork is a new session below an older one of its workspace. *)
LEMMA ForkKeeps ==
    ASSUME PromptInv, NEW c \in Consoles, Fork(c)
    PROVE  PromptInv'
<1> DEFINE n == Len(sessions) + 1
           parent == IF console[c].cur # 0 THEN console[c].cur ELSE console[c].last
           r == [ws |-> console[c].at, parent |-> parent, patch |-> FALSE,
                 goal |-> NoGoal]
           s == [console[c] EXCEPT !.cur = n]
<1>0. /\ console[c] \in ConsoleStates(Len(sessions)) /\ Len(sessions) \in Nat
      /\ console[c].at \in Workspaces /\ NoGoal \in Goals
      /\ parent \in 0 .. Len(sessions)
  BY ConsoleKnown DEF Goals
<1>1. /\ sessions' = Append(sessions, r) /\ console[c].step = "ready"
      /\ UNCHANGED <<goalFile, goalHistory, goals, applied>>
      /\ console' = [console EXCEPT ![c] = s]
      /\ sessions[parent].ws = console[c].at
  BY DEF Fork, Ready
<1>2. /\ s \in ConsoleStates(n) /\ s.at = console[c].at
      /\ s.goal = console[c].goal /\ s.step = console[c].step
  BY <1>0 DEF ConsoleStates
<1>3. /\ r \in Sessions /\ r.ws = console[c].at /\ r.goal = NoGoal
      /\ r.parent = parent
  BY <1>0 DEF Sessions
<1> HIDE DEF s, r, parent
<1> QED
  BY <1>0, <1>1, <1>2, <1>3, SessionKeeps

(* /apply and /rollback touch the tree of the workspace of the session. *)
LEMMA PatchKeeps ==
    ASSUME PromptInv, NEW c \in Consoles, Apply(c) \/ Rollback(c)
    PROVE  PromptInv'
<1> DEFINE n == last_patch_id(c)
<1>0. /\ console[c].at \in Workspaces /\ console[c].last \in 0 .. Len(sessions)
      /\ Len(sessions) \in Nat
      /\ applied \in [Workspaces -> SUBSET (1 .. Len(sessions))]
  BY ConsoleKnown DEF PromptInv, PromptTypes
<1>1. /\ UNCHANGED <<goalFile, goalHistory, sessions, console, goals>>
      /\ n # 0 /\ sessions[n].ws = console[c].at
      /\ \/ applied' = [applied EXCEPT ![console[c].at] = @ \cup {n}]
         \/ applied' = [applied EXCEPT ![console[c].at] = @ \ {n}]
  BY DEF Apply, Rollback
<1>2. n \in 1 .. Len(sessions)
  BY <1>0, <1>1 DEF last_patch_id
<1> HIDE DEF n
<1>3. /\ applied' \in [Workspaces -> SUBSET (1 .. Len(sessions))]
      /\ \A w \in Workspaces : \A m \in applied'[w] :
            m \in applied[w] \/ (m = n /\ w = console[c].at)
  BY <1>0, <1>1, <1>2
<1>4. PromptTypes' /\ GoalsAtHome' /\ ParentsBefore' /\ SessionGoalIsOwn' /\ BranchStaysHome'
  BY <1>1, <1>3 DEF PromptInv, PromptTypes, GoalsAtHome, ParentsBefore,
                    SessionGoalIsOwn, BranchStaysHome
<1>5. PatchStaysHome'
  BY <1>1, <1>3 DEF PromptInv, PatchStaysHome
<1>6. \A d \in Consoles : IntentSound(d)'
  BY <1>1 DEF PromptInv, IntentSound
<1> QED
  BY <1>4, <1>5, <1>6 DEF PromptInv

(* A goal written to the file of a workspace and taken into memory. *)
LEMMA GoalKeeps ==
    ASSUME PromptInv, NEW c \in Consoles, NEW s \in ConsoleStates(Len(sessions)),
           console' = [console EXCEPT ![c] = s], NEW g \in Goals,
           \/ goalFile' = goalFile
           \/ goalFile' = [goalFile EXCEPT ![console[c].at] = g],
           UNCHANGED <<goalHistory, sessions, applied>>, goals' \in Nat,
           s.at = console[c].at, s.goal = g, s.step = "ready",
           Home(g, console[c].at, goalHistory), g # NoGoal => validate(g.spec)
    PROVE  PromptInv'
<1>0. /\ console[c].at \in Workspaces
      /\ console'[c] = s
      /\ \A d \in Consoles : d # c => console'[d] = console[d]
      /\ \A w \in Workspaces :
            \/ goalFile'[w] = goalFile[w]
            \/ w = console[c].at /\ goalFile'[w] = g
  BY ConsoleKnown DEF PromptInv, PromptTypes
<1>1. PromptTypes'
  BY <1>0 DEF PromptInv, PromptTypes
<1>2. GoalsAtHome'
  BY <1>0 DEF PromptInv, GoalsAtHome
<1>3. \A d \in Consoles : IntentSound(d)'
  BY <1>0 DEF PromptInv, IntentSound
<1>4. ParentsBefore' /\ SessionGoalIsOwn' /\ PatchStaysHome' /\ BranchStaysHome'
  BY DEF PromptInv, ParentsBefore, SessionGoalIsOwn, PatchStaysHome, BranchStaysHome
<1> QED
  BY <1>1, <1>2, <1>3, <1>4 DEF PromptInv

(* A goal given on the command line belongs to the workspace. *)
LEMMA ArgvEffect ==
    ASSUME PromptInv, NEW c \in Consoles, NEW program \in Programs \ {"none"},
           NEW secs \in {0, 300}, RegisterArgv(c, program, secs)
    PROVE  \E g \in Goals, s \in ConsoleStates(Len(sessions)) :
              /\ console' = [console EXCEPT ![c] = s]
              /\ goalFile' = [goalFile EXCEPT ![console[c].at] = g]
              /\ UNCHANGED <<goalHistory, sessions, applied>> /\ goals' \in Nat
              /\ s.at = console[c].at /\ s.goal = g /\ s.step = "ready"
              /\ Home(g, console[c].at, goalHistory)
              /\ g # NoGoal => validate(g.spec)
<1> DEFINE spec == [program |-> program, timeout |-> secs, keys |-> {}]
           g == Goal(goals + 1, spec, "argv", console[c].at)
           s == [console[c] EXCEPT !.goal = g]
<1>0. /\ console[c] \in ConsoleStates(Len(sessions)) /\ console[c].at \in Workspaces
      /\ goals \in Nat
  BY ConsoleKnown DEF PromptInv, PromptTypes
<1>1. /\ console' = [console EXCEPT ![c] = s] /\ validate(spec) /\ goals' = goals + 1
      /\ goalFile' = [goalFile EXCEPT ![console[c].at] = g]
      /\ UNCHANGED <<goalHistory, sessions, applied>> /\ console[c].step = "ready"
  BY DEF RegisterArgv, Ready
<1>2. spec \in Specifications
  BY DEF Specifications
<1> HIDE DEF spec
<1>3. g \in Goals /\ g.spec = spec /\ g.ws = console[c].at /\ g.by = "argv"
  BY <1>0, <1>2 DEF Goals, Goal
<1> HIDE DEF g
<1>4. /\ s \in ConsoleStates(Len(sessions)) /\ s.at = console[c].at /\ s.goal = g
      /\ s.step = console[c].step
  BY <1>0, <1>3 DEF ConsoleStates
<1>5. /\ Home(g, console[c].at, goalHistory)
      /\ g # NoGoal => validate(g.spec)
  BY <1>1, <1>3 DEF Home
<1> HIDE DEF s
<1>6. /\ goals' \in Nat /\ s.step = "ready" /\ g \in Goals
      /\ UNCHANGED <<goalHistory, sessions, applied>>
  BY <1>0, <1>1, <1>3, <1>4
<1>7. /\ console' = [console EXCEPT ![c] = s]
      /\ goalFile' = [goalFile EXCEPT ![console[c].at] = g]
  BY <1>1
<1> QED
  BY <1>4, <1>5, <1>6, <1>7

(* A goal given on the command line. *)
LEMMA ArgvKeeps ==
    ASSUME PromptInv, NEW c \in Consoles, NEW program \in Programs \ {"none"},
           NEW secs \in {0, 300}, RegisterArgv(c, program, secs)
    PROVE  PromptInv'
BY ArgvEffect, GoalKeeps

(* A goal in prose is written after its audit. *)
LEMMA WriteGoalKeeps ==
    ASSUME PromptInv, NEW c \in Consoles, WriteGoal(c)
    PROVE  PromptInv'
<1> DEFINE g == console[c].intent
           s == [console[c] EXCEPT !.step = "ready", !.intent = NoGoal, !.goal = g]
<1>0. /\ console[c] \in ConsoleStates(Len(sessions)) /\ g \in Goals
      /\ goals \in Nat /\ "ready" \in ConsoleSteps /\ NoGoal \in Goals
  BY ConsoleKnown DEF PromptInv, PromptTypes, ConsoleSteps, Goals
<1>1. /\ console' = [console EXCEPT ![c] = s] /\ validate(g.spec) /\ goals' = goals
      /\ goalFile' = [goalFile EXCEPT ![console[c].at] = g]
      /\ UNCHANGED <<goalHistory, sessions, applied>> /\ console[c].step = "write"
  BY DEF WriteGoal
<1>2. g.ws = console[c].at /\ Timely(g) /\ g.id \in goalHistory[console[c].at]
  BY <1>1, ConsoleKnown
<1>3. Home(g, console[c].at, goalHistory)
  BY <1>2 DEF Home
<1> HIDE DEF g
<1>4. /\ s \in ConsoleStates(Len(sessions)) /\ s.at = console[c].at /\ s.goal = g
      /\ s.step = "ready"
  BY <1>0 DEF ConsoleStates
<1> HIDE DEF s
<1> QED
  BY <1>0, <1>1, <1>3, <1>4, GoalKeeps

(* A goal is cleared: its file may or may not go. *)
LEMMA ClearKeeps ==
    ASSUME PromptInv, NEW c \in Consoles, NEW removed \in BOOLEAN, ClearGoal(c, removed)
    PROVE  PromptInv'
<1> DEFINE s == [console[c] EXCEPT !.goal = NoGoal]
<1>0. /\ console[c] \in ConsoleStates(Len(sessions)) /\ goals \in Nat /\ NoGoal \in Goals
  BY ConsoleKnown DEF PromptInv, PromptTypes, Goals
<1>1. /\ console' = [console EXCEPT ![c] = s] /\ goals' = goals
      /\ \/ goalFile' = goalFile
         \/ goalFile' = [goalFile EXCEPT ![console[c].at] = NoGoal]
      /\ UNCHANGED <<goalHistory, sessions, applied>> /\ console[c].step = "ready"
  BY DEF ClearGoal, Ready
<1>2. /\ s \in ConsoleStates(Len(sessions)) /\ s.at = console[c].at /\ s.goal = NoGoal
      /\ s.step = console[c].step
  BY <1>0 DEF ConsoleStates
<1>3. Home(NoGoal, console[c].at, goalHistory)
  BY DEF Home
<1> HIDE DEF s
<1> QED
  BY <1>0, <1>1, <1>2, <1>3, GoalKeeps

(* What convert lets through validates, and may take an hour at most. *)
LEMMA Converted ==
    ASSUME NEW p \in Proposed, NEW spec \in convert(p)
    PROVE  /\ spec \in Specifications /\ validate(spec)
           /\ spec.timeout \in 1 .. 3600
<1> DEFINE sp == [program |-> p.program, keys |-> p.keys,
                  timeout |-> IF p.timeout = NoTimeout THEN 60 ELSE p.timeout]
<1>1. spec = sp /\ validate(sp) /\ sp.timeout \in 1 .. 3600
  BY DEF convert
<1>2. p \in Proposals
  BY PromptAssumption
<1>3. sp \in Specifications
  BY <1>2 DEF Proposals, Specifications, NoTimeout
<1> HIDE DEF sp
<1> QED
  BY <1>1, <1>3

(* A goal in prose is proposed and waits for its answer. *)
LEMMA ProposeKeeps ==
    ASSUME PromptInv, NEW c \in Consoles, NEW p \in Proposed, ProposeGoal(c, p)
    PROVE  PromptInv'
<1>1. PICK spec \in convert(p) :
          /\ goals' = goals + 1
          /\ console' = [console EXCEPT ![c].step = "confirm",
                 ![c].intent = Goal(goals + 1, spec, "prose", console[c].at)]
  BY DEF ProposeGoal
<1> DEFINE g == Goal(goals + 1, spec, "prose", console[c].at)
           s == [console[c] EXCEPT !.step = "confirm", !.intent = g]
<1>2. /\ UNCHANGED <<goalFile, goalHistory, sessions, applied>>
      /\ console[c].step = "ready"
  BY DEF ProposeGoal, Ready
<1>3. /\ console[c] \in ConsoleStates(Len(sessions)) /\ goals \in Nat
      /\ console[c].at \in Workspaces /\ "confirm" \in ConsoleSteps
      /\ Home(console[c].goal, console[c].at, goalHistory)
      /\ console[c].goal # NoGoal => validate(console[c].goal.spec)
      /\ console \in [Consoles -> ConsoleStates(Len(sessions))]
  BY ConsoleKnown DEF PromptInv, PromptTypes, ConsoleSteps
<1>4. spec \in Specifications /\ validate(spec)
  BY Converted
<1>5. g \in Goals /\ g.spec = spec /\ g.ws = console[c].at
  BY <1>3, <1>4 DEF Goals, Goal
<1>6. Timely(g)
  <2>1. spec.timeout \in 1 .. 3600
    BY Converted
  <2> HIDE DEF g
  <2> QED
    BY <1>5, <2>1 DEF Timely
<1>7. console' = [console EXCEPT ![c] = s]
  BY <1>1, <1>3
<1> HIDE DEF g
<1>8. /\ s \in ConsoleStates(Len(sessions)) /\ s.at = console[c].at
      /\ s.goal = console[c].goal /\ s.step = "confirm" /\ s.intent = g
  BY <1>3, <1>5 DEF ConsoleStates
<1> HIDE DEF s
<1>9. goals' \in Nat
  BY <1>1, <1>3
<1> QED
  BY <1>2, <1>3, <1>4, <1>5, <1>6, <1>7, <1>8, <1>9, ConsoleMoves

(* The answer to a proposal: a confirmed one is in the history first. *)
LEMMA AnswerKeeps ==
    ASSUME PromptInv, NEW c \in Consoles, NEW yes \in BOOLEAN, AnswerProposal(c, yes)
    PROVE  PromptInv'
<1>0. /\ console[c].step = "confirm"
      /\ UNCHANGED <<goalFile, sessions, applied, goals>> /\ goals \in Nat
      /\ console[c] \in ConsoleStates(Len(sessions))
      /\ console[c].at \in Workspaces /\ console[c].intent \in Goals
      /\ Home(console[c].goal, console[c].at, goalHistory)
      /\ console[c].goal # NoGoal => validate(console[c].goal.spec)
      /\ console \in [Consoles -> ConsoleStates(Len(sessions))]
      /\ goalHistory = [w \in Workspaces |-> goalHistory[w]]
  BY ConsoleKnown DEF AnswerProposal, PromptInv, PromptTypes
<1>1. CASE ~yes
  <2> DEFINE s == [console[c] EXCEPT !.step = "ready", !.intent = NoGoal]
  <2>1. console' = [console EXCEPT ![c] = s] /\ goalHistory' = goalHistory
    BY <1>0, <1>1 DEF AnswerProposal
  <2>2. "ready" \in ConsoleSteps /\ NoGoal \in Goals
    BY DEF ConsoleSteps, Goals
  <2>3. /\ s \in ConsoleStates(Len(sessions)) /\ s.at = console[c].at
        /\ s.goal = console[c].goal /\ s.step = "ready"
    BY <1>0, <2>2 DEF ConsoleStates
  <2> HIDE DEF s
  <2> QED
    BY <1>0, <2>1, <2>3, ConsoleMoves
<1>2. CASE yes
  <2> DEFINE s == [console[c] EXCEPT !.step = "write"]
  <2>1. /\ console' = [console EXCEPT ![c] = s]
        /\ goalHistory' = [goalHistory EXCEPT ![console[c].at] =
                              @ \cup {console[c].intent.id}]
    BY <1>0, <1>2 DEF AnswerProposal, append_goal_history_entry
  <2>2. "write" \in ConsoleSteps
    BY DEF ConsoleSteps
  <2>3. /\ s \in ConsoleStates(Len(sessions)) /\ s.at = console[c].at
        /\ s.goal = console[c].goal /\ s.step = "write" /\ s.intent = console[c].intent
    BY <1>0, <2>2 DEF ConsoleStates
  <2> HIDE DEF s
  <2>4. /\ console'[c] = s
        /\ \A d \in Consoles : d # c => console'[d] = console[d]
        /\ \A w \in Workspaces : goalHistory[w] \subseteq goalHistory'[w]
        /\ console[c].intent.id \in goalHistory'[console[c].at]
    BY <1>0, <2>1
  <2>5. PromptTypes'
    <3>1. console' \in [Consoles -> ConsoleStates(Len(sessions))]
      BY <1>0, <2>1, <2>3
    <3>3. goalHistory' = [w \in Workspaces |-> goalHistory'[w]]
      BY <1>0, <2>1
    <3> QED
      BY <1>0, <3>1, <3>3 DEF PromptInv, PromptTypes
  <2>6. GoalsAtHome'
    <3>1. \A g, w : w \in Workspaces /\ Home(g, w, goalHistory) => Home(g, w, goalHistory')
      BY <2>4 DEF Home
    <3>2. \A d \in Consoles :
              /\ console'[d].goal = console[d].goal /\ console'[d].at = console[d].at
              /\ console[d].at \in Workspaces
      BY <2>3, <2>4, ConsoleKnown
    <3> QED
      BY <1>0, <3>1, <3>2 DEF PromptInv, GoalsAtHome
  <2>7. \A d \in Consoles : IntentSound(d)'
    <3>1. \A d \in Consoles : console[d].at \in Workspaces
      BY ConsoleKnown
    <3> QED
      BY <1>0, <2>3, <2>4, <3>1, ConsoleKnown DEF PromptInv, IntentSound
  <2>8. ParentsBefore' /\ SessionGoalIsOwn' /\ PatchStaysHome' /\ BranchStaysHome'
    BY <1>0 DEF PromptInv, ParentsBefore, SessionGoalIsOwn, PatchStaysHome, BranchStaysHome
  <2> QED
    BY <2>5, <2>6, <2>7, <2>8 DEF PromptInv
<1> QED
  BY <1>1, <1>2

(***************************************************************************)
(* For any number of prompts, workspaces, sessions, goals and kills: a     *)
(* goal that came from prose is in force only where the history has it, a  *)
(* session runs under a valid goal of its own workspace, and patches and   *)
(* branches stay in the workspace of their session (main.rs, the prompt).  *)
(***************************************************************************)
THEOREM PromptStaysSafe == PromptSpec => []PromptSafe
<1>1. PromptInit => PromptInv
  <2> SUFFICES ASSUME PromptInit PROVE PromptInv
    OBVIOUS
  <2>1. PICK f \in [Workspaces -> {NoGoal} \cup Found] :
            goalFile = [w \in Workspaces |-> IF f[w] = NoGoal THEN NoGoal
                                             ELSE Goal(0, f[w], "file", w)]
    BY DEF PromptInit
  <2>2. PICK v \in Workspaces : console = [c \in Consoles |-> Opened(v, FALSE)]
    BY DEF PromptInit
  <2>3. /\ goalHistory = [w \in Workspaces |-> {}] /\ sessions = <<>> /\ goals = 0
        /\ applied = [w \in Workspaces |-> {}]
    BY DEF PromptInit
  <2>4. ASSUME NEW w \in Workspaces
        PROVE  /\ goalFile[w] \in Goals
               /\ goalFile[w] # NoGoal => goalFile[w].ws = w /\ goalFile[w].by = "file"
    <3>1. NoGoal \in Goals
      BY DEF Goals
    <3>2. ASSUME f[w] # NoGoal
          PROVE  /\ Goal(0, f[w], "file", w) \in Goals
                 /\ Goal(0, f[w], "file", w).ws = w
                 /\ Goal(0, f[w], "file", w).by = "file"
      <4>1. f[w] \in Specifications
        BY <3>2 DEF Specifications
      <4> QED
        BY <4>1 DEF Goal, Goals
    <3> QED
      BY <2>1, <3>1, <3>2
  <2>5. \A w \in Workspaces : Home(goalFile[w], w, goalHistory)
    BY <2>4 DEF Home
  <2>6. /\ load_active_goal(v) \in Goals
        /\ Home(load_active_goal(v), v, goalHistory)
        /\ load_active_goal(v) # NoGoal => validate(load_active_goal(v).spec)
    <3>1. NoGoal \in Goals /\ Home(NoGoal, v, goalHistory)
      BY DEF Goals, Home
    <3> QED
      BY <2>4, <2>5, <3>1 DEF load_active_goal
  <2>7. /\ Opened(v, FALSE) \in ConsoleStates(0)
        /\ Opened(v, FALSE).goal = load_active_goal(v) /\ Opened(v, FALSE).at = v
        /\ Opened(v, FALSE).step = "ready"
    <3>1. NoGoal \in Goals /\ "ready" \in ConsoleSteps /\ 0 \in 0 .. 0
      BY DEF Goals, ConsoleSteps
    <3> QED
      BY <2>6, <3>1 DEF Opened, ConsoleStates
  <2>8. sessions \in Seq(Sessions) /\ Len(sessions) = 0 /\ DOMAIN sessions = {}
    BY <2>3
  <2>9. PromptTypes
    BY <2>1, <2>2, <2>3, <2>4, <2>7, <2>8 DEF PromptTypes
  <2>10. GoalsAtHome /\ \A c \in Consoles : IntentSound(c)
    BY <2>2, <2>5, <2>6, <2>7 DEF GoalsAtHome, IntentSound
  <2>11. ParentsBefore /\ SessionGoalIsOwn /\ PatchStaysHome /\ BranchStaysHome
    BY <2>3, <2>8 DEF ParentsBefore, SessionGoalIsOwn, PatchStaysHome, BranchStaysHome
  <2> QED
    BY <2>9, <2>10, <2>11 DEF PromptInv
<1>2. PromptInv /\ [PromptNext]_promptVars => PromptInv'
  <2> SUFFICES ASSUME PromptInv, [PromptNext]_promptVars PROVE PromptInv'
    OBVIOUS
  <2>1. ASSUME NEW c \in Consoles, PromptStep(c) PROVE PromptInv'
    <3> USE <2>1
    <3>1. CASE \/ \E mode \in BOOLEAN : Mode(c, mode)
               \/ \E w \in Workspaces : ChangeDirectory(c, w)
               \/ \E on \in BOOLEAN : Paste(c, on)
               \/ \E w \in Workspaces, mode \in BOOLEAN : Reopen(c, w, mode)
      BY <3>1, QuietKeeps
    <3>2. CASE \E patch, accepted \in BOOLEAN : Task(c, patch, accepted)
      BY <3>2, TaskKeeps
    <3>3. CASE Apply(c) \/ Rollback(c) \/ Fork(c) \/ WriteGoal(c)
      BY <3>3, PatchKeeps, ForkKeeps, WriteGoalKeeps
    <3>4. CASE \E program \in Programs \ {"none"}, timeout \in {0, 300} :
                  RegisterArgv(c, program, timeout)
      BY <3>4, ArgvKeeps
    <3>5. CASE \E p \in Proposed : ProposeGoal(c, p)
      BY <3>5, ProposeKeeps
    <3>6. CASE \E yes \in BOOLEAN : AnswerProposal(c, yes)
      BY <3>6, AnswerKeeps
    <3>7. CASE \E removed \in BOOLEAN : ClearGoal(c, removed)
      BY <3>7, ClearKeeps
    <3> QED
      BY <3>1, <3>2, <3>3, <3>4, <3>5, <3>6, <3>7 DEF PromptStep
  <2>2. CASE UNCHANGED promptVars
    BY <2>2 DEF promptVars, PromptInv, PromptTypes, GoalsAtHome, IntentSound,
                ParentsBefore, SessionGoalIsOwn, PatchStaysHome, BranchStaysHome
  <2> QED
    BY <2>1, <2>2 DEF PromptNext
<1>3. PromptInv => PromptSafe
  <2> SUFFICES ASSUME PromptInv PROVE ProseGoalIsAudited
    BY DEF PromptInv, PromptSafe
  <2> DEFINE inForce == {console[c].goal : c \in Consoles}
                          \cup {goalFile[w] : w \in Workspaces}
  <2>1. ASSUME NEW g \in inForce \ {NoGoal}
        PROVE  g.by = "prose" => /\ g.id \in goalHistory[g.ws]
                                 /\ g.spec.timeout \in 1 .. 3600
    <3>1. PICK w : Home(g, w, goalHistory)
      BY DEF PromptInv, GoalsAtHome
    <3> QED
      BY <3>1 DEF Home, Timely
  <2> HIDE DEF inForce
  <2>2. \A g \in inForce \ {NoGoal} :
           g.by = "prose" => /\ g.id \in goalHistory[g.ws]
                             /\ g.spec.timeout \in 1 .. 3600
    BY <2>1
  <2> QED
    BY <2>2, Zenon DEF ProseGoalIsAudited, inForce
<1> QED
  BY <1>1, <1>2, <1>3, PTL DEF PromptSpec

-----------------------------------------------------------------------------
(***************************************************************************)
(* The limits of a check                                                   *)
(***************************************************************************)
LimitSteps == {"order", "warn", "prepare", "configure", "join", "set", "refused",
               "running", "over"}
Groups == {"none", "made", "removed", "left"}
Notes == FieldNames \cup {"cgroup", "leftover"}
Hooks == [at : LimitSteps, next : 1 .. 5, group : Groups,
          caps : SUBSET Controllers, joined : BOOLEAN,
          inForce : [FieldNames -> Nat], noted : SUBSET Notes]
AllOrders == Orders([FieldNames -> SUBSET Nat], [FieldNames -> Nat], Bases)

LimitTypes == order \in AllOrders /\ hooks \in Hooks

(* No limit is looser than Nerve's own, and one that is not asked for is   *)
(* not touched.                                                            *)
NeverLooser ==
    \A n \in FieldNames :
        /\ hooks.inForce[n] <= order.inherited[n]
        /\ order.spec[n] = {} => hooks.inForce[n] = order.inherited[n]

(* What holds for a field once its turn is over. *)
Settled(n) ==
    order.spec[n] # {} =>
        hooks.inForce[n] \in order.spec[n] \ {0} \/ n \in hooks.noted
SettledSoFar ==
    /\ \A i \in 1 .. 4 : i < hooks.next => Settled(Fields[i])
    /\ hooks.at = "running" => \A n \in FieldNames : Settled(n)

(* Where macOS may not enforce nproc, that was noted before the spawn. *)
MacNoted ==
    hooks.at \notin {"order", "warn"} /\ order.os = "macos" /\ order.spec["nproc"] # {}
        => "nproc" \in hooks.noted \/ hooks.at = "refused"

(* What was told of a cgroup that could not be removed. *)
LeftIsTold(group, noted, joined) ==
    group = "left" => "leftover" \in noted \/ ("cgroup" \in noted /\ ~joined)

(* The cgroup from its creation to its removal. *)
GroupSound ==
    /\ LeftIsTold(hooks.group, hooks.noted, hooks.joined)
    /\ hooks.at \in {"order", "warn"} => hooks.noted = {}
    /\ hooks.at \in {"order", "warn", "prepare"} => hooks.group = "none"
    /\ hooks.at \in {"configure", "join"} => hooks.group = "made"
    /\ hooks.at \in {"refused", "over"} => hooks.group # "made"
    /\ hooks.at = "join" => hooks.caps = Wanted
    /\ hooks.joined => hooks.caps = Wanted /\ hooks.at \in {"set", "running", "refused", "over"}
    /\ hooks.at \in {"set", "running"} /\ Requested =>
          "cgroup" \in hooks.noted \/ hooks.joined

LimitInv ==
    LimitTypes /\ NeverLooser /\ SettledSoFar /\ MacNoted /\ GroupSound

-----------------------------------------------------------------------------
(* The four limits, in the order in which they are set. *)
LEMMA FieldsKnown ==
    /\ Len(Fields) = 4 /\ DOMAIN Fields = 1 .. 4
    /\ \A i \in 1 .. 4 : Fields[i] \in FieldNames
    /\ \A n \in FieldNames : \E i \in 1 .. 4 : n = Fields[i]
    /\ "nproc" \in FieldNames
<1>1. Len(Fields) = 4 /\ DOMAIN Fields = 1 .. 4 /\ Fields[1] = "nproc"
  BY DEF Fields
<1>2. FieldNames = {Fields[i] : i \in 1 .. 4}
  BY <1>1 DEF FieldNames
<1> HIDE DEF Fields
<1> QED
  BY <1>1, <1>2

(* The steps that leave the limits alone and change how far the spawn is. *)
LEMMA HookKeeps ==
    ASSUME LimitInv, UNCHANGED order, hooks' \in Hooks,
           hooks'.inForce = hooks.inForce, hooks'.next = hooks.next,
           hooks.noted \subseteq hooks'.noted,
           hooks'.at = "running" => \A n \in FieldNames : Settled(n),
           MacNoted', GroupSound'
    PROVE  LimitInv'
<1>1. LimitTypes' /\ NeverLooser'
  BY DEF LimitInv, LimitTypes, NeverLooser
<1>2. SettledSoFar'
  <2>1. \A n : Settled(n) => Settled(n)'
    BY DEF Settled
  <2> QED
    BY <2>1 DEF LimitInv, SettledSoFar
<1> QED
  BY <1>1, <1>2 DEF LimitInv

(* The order and the warnings. *)
LEMMA OrderKeeps ==
    ASSUME LimitInv, OrderCheck \/ WarnUnenforced
    PROVE  LimitInv'
<1>0. hooks \in Hooks /\ order \in AllOrders
  BY DEF LimitInv, LimitTypes
<1>1. CASE OrderCheck
  <2> DEFINE at == IF is_empty(order.spec) THEN "running"
                   ELSE IF validate_limits(order.spec) THEN "warn" ELSE "refused"
  <2>1. /\ hooks' = [hooks EXCEPT !.at = at] /\ order' = order /\ hooks.at = "order"
    BY <1>1 DEF OrderCheck
  <2>2. at \in LimitSteps /\ at \in {"running", "warn", "refused"}
        /\ (at = "running" => is_empty(order.spec))
    BY DEF LimitSteps
  <2> HIDE DEF at
  <2>3. /\ hooks' \in Hooks /\ hooks'.inForce = hooks.inForce
        /\ hooks'.next = hooks.next /\ hooks'.noted = hooks.noted
        /\ hooks'.at = at /\ hooks'.group = hooks.group
        /\ hooks'.caps = hooks.caps /\ hooks'.joined = hooks.joined
    BY <1>0, <2>1, <2>2 DEF Hooks
  <2>4. at = "running" => \A n \in FieldNames : order.spec[n] = {}
    BY <2>2 DEF is_empty
  <2>5. at = "running" => \A n \in FieldNames : Settled(n)
    BY <2>4 DEF Settled
  <2>6. MacNoted'
    BY <2>1, <2>2, <2>3, <2>4, FieldsKnown DEF MacNoted
  <2>7. at = "running" => ~Requested
    BY <2>4 DEF Requested, Wanted, Controllers, FieldNames, Fields
  <2>8. GroupSound'
    BY <2>1, <2>2, <2>3, <2>7 DEF LimitInv, GroupSound, Requested, Wanted
  <2> QED
    BY <2>1, <2>3, <2>5, <2>6, <2>8, HookKeeps
<1>2. CASE WarnUnenforced
  <2> DEFINE told == unenforced_notes(order.spec)
  <2>1. /\ hooks' = [hooks EXCEPT !.at = "prepare", !.noted = told]
        /\ order' = order /\ hooks.at = "warn"
    BY <1>2 DEF WarnUnenforced
  <2>2. /\ told \subseteq FieldNames
        /\ order.os = "macos" /\ order.spec["nproc"] # {} => "nproc" \in told
    BY FieldsKnown DEF unenforced_notes
  <2> HIDE DEF told
  <2>3. "prepare" \in LimitSteps
    BY DEF LimitSteps
  <2>4. /\ hooks' \in Hooks /\ hooks'.inForce = hooks.inForce
        /\ hooks'.next = hooks.next /\ hooks'.noted = told
        /\ hooks'.at = "prepare" /\ hooks'.group = hooks.group
        /\ hooks'.caps = hooks.caps /\ hooks'.joined = hooks.joined
    BY <1>0, <2>1, <2>2, <2>3 DEF Hooks, Notes
  <2>5. hooks.noted \subseteq hooks'.noted
    BY <2>1 DEF LimitInv, GroupSound
  <2>6. MacNoted'
    BY <2>1, <2>2, <2>4 DEF MacNoted
  <2>7. GroupSound'
    BY <2>1, <2>4 DEF LimitInv, GroupSound, LeftIsTold, Requested, Wanted
  <2> QED
    BY <2>1, <2>4, <2>5, <2>6, <2>7, HookKeeps
<1> QED
  BY <1>1, <1>2

(* Dropping the guard changes nothing but the cgroup and what is noted.    *)
LEMMA TeardownKnown ==
    ASSUME hooks \in Hooks, GroupSound, NEW removed \in BOOLEAN,
           NEW at \in {"refused", "over"}
    PROVE  \E group \in Groups, noted \in SUBSET Notes :
             /\ [teardown(hooks, removed) EXCEPT !.at = at] =
                   [hooks EXCEPT !.at = at, !.group = group, !.noted = noted]
             /\ hooks.noted \subseteq noted /\ group # "made"
             /\ LeftIsTold(group, noted, hooks.joined)
<1> DEFINE made == hooks.group = "made"
           group == IF ~made THEN hooks.group
                    ELSE IF removed THEN "removed" ELSE "left"
           noted == IF ~made \/ removed THEN hooks.noted
                    ELSE hooks.noted \cup {"leftover"}
<1>1. group \in Groups /\ group # "made"
  BY DEF Hooks, Groups
<1>2. noted \in SUBSET Notes /\ hooks.noted \subseteq noted
  BY DEF Hooks, Notes
<1>3. LeftIsTold(group, noted, hooks.joined)
  BY DEF GroupSound, LeftIsTold
<1>4. [teardown(hooks, removed) EXCEPT !.at = at] =
         [hooks EXCEPT !.at = at, !.group = group, !.noted = noted]
  BY DEF teardown, Hooks
<1> HIDE DEF group, noted
<1> QED
  BY <1>1, <1>2, <1>3, <1>4

(* What the steps of the cgroup have in common: the limits stay as they    *)
(* are, and a cgroup that is not joined as it was wanted is noted.         *)
GroupStep ==
    \E at \in {"set", "configure", "join", "refused"},
       group \in Groups, caps \in SUBSET Controllers,
       joined \in BOOLEAN, noted \in SUBSET Notes :
         /\ hooks.noted \subseteq noted /\ LeftIsTold(group, noted, joined)
         /\ hooks' = [hooks EXCEPT !.at = at, !.group = group, !.caps = caps,
                                   !.joined = joined, !.noted = noted]
         /\ hooks.at \in {"prepare", "configure", "join"}
         /\ at = "refused" => group # "made"
         /\ at \in {"configure", "join"} => group = "made"
         /\ at = "join" => caps = Wanted
         /\ joined => caps = Wanted /\ at = "set"
         /\ at = "set" /\ Requested => "cgroup" \in noted \/ joined

(* The cgroup is made, configured and joined, or its absence is noted. *)
LEMMA GroupKeeps ==
    ASSUME LimitInv,
           \/ PrepareInert \/ PrepareDegrades \/ CreateGroup
           \/ \E b, removed \in BOOLEAN : ConfigureGroup(b, removed) \/ JoinGroup(b, removed)
    PROVE  LimitInv'
<1> DEFINE told == hooks.noted \cup {"cgroup"}
<1>a. hooks \in Hooks /\ order \in AllOrders /\ GroupSound
  BY DEF LimitInv, LimitTypes
<1>b. /\ ~hooks.joined => /\ LeftIsTold(hooks.group, hooks.noted, FALSE)
                           /\ LeftIsTold(hooks.group, told, FALSE)
      /\ hooks.group \in Groups /\ hooks.caps \in SUBSET Controllers
      /\ hooks.noted \in SUBSET Notes
      /\ told \in SUBSET Notes /\ hooks.noted \subseteq told /\ "cgroup" \in told
      /\ \A noted, joined : LeftIsTold("made", noted, joined)
  BY <1>a DEF Hooks, Notes, LeftIsTold, GroupSound
<1>0. /\ hooks \in Hooks /\ order \in AllOrders /\ order' = order /\ GroupSound
      /\ Wanted' = Wanted /\ Requested' = Requested /\ Wanted \subseteq Controllers
      /\ {"set", "configure", "join", "refused"} \subseteq LimitSteps
  BY <1>a DEF PrepareInert, PrepareDegrades, CreateGroup, ConfigureGroup, JoinGroup,
              Wanted, Requested, LimitSteps
<1>1. GroupStep
  <2>1. CASE PrepareInert
    <3>1. /\ hooks' = [hooks EXCEPT !.at = "set", !.group = hooks.group,
                          !.caps = hooks.caps, !.joined = FALSE, !.noted = hooks.noted]
          /\ hooks.at = "prepare" /\ ~Requested /\ ~hooks.joined
      BY <1>0, <2>1 DEF PrepareInert, LimitInv, GroupSound, Hooks
    <3> QED
      BY <1>0, <1>b, <3>1 DEF Hooks, GroupStep
  <2>2. CASE PrepareDegrades
    <3>1. /\ hooks' = [hooks EXCEPT !.at = "set", !.group = hooks.group,
                          !.caps = hooks.caps, !.joined = FALSE, !.noted = told]
          /\ hooks.at = "prepare" /\ ~hooks.joined
      BY <1>0, <2>2 DEF PrepareDegrades, LimitInv, GroupSound, Hooks
    <3> HIDE DEF told
    <3> QED
      BY <1>0, <1>b, <3>1 DEF Hooks, GroupStep
  <2>3. CASE CreateGroup
    <3>1. /\ hooks' = [hooks EXCEPT !.at = "configure", !.group = "made",
                          !.caps = hooks.caps, !.joined = FALSE, !.noted = hooks.noted]
          /\ hooks.at = "prepare"
      BY <1>0, <2>3 DEF CreateGroup, LimitInv, GroupSound, Hooks
    <3> QED
      BY <1>0, <1>b, <3>1 DEF Hooks, GroupStep, Groups
  <2>4. ASSUME NEW b \in BOOLEAN, NEW removed \in BOOLEAN, ConfigureGroup(b, removed)
        PROVE  GroupStep
    <3>0. /\ hooks.at = "configure" /\ hooks.joined = FALSE
          /\ hooks.group = "made" /\ hooks.group \in Groups /\ hooks.noted \in SUBSET Notes
          /\ hooks.caps \subseteq Controllers /\ NextController \in Controllers
      BY <1>0, <2>4 DEF ConfigureGroup, LimitInv, GroupSound, Hooks, NextController,
                        Controllers
    <3>1. CASE hooks' = [hooks EXCEPT !.at = "join"] /\ Wanted = hooks.caps
      <4>1. hooks' = [hooks EXCEPT !.at = "join", !.group = hooks.group,
                         !.caps = hooks.caps, !.joined = FALSE, !.noted = hooks.noted]
        BY <1>0, <3>0, <3>1 DEF Hooks
      <4> QED
        BY <1>0, <1>b, <3>0, <3>1, <4>1 DEF GroupStep
    <3>2. CASE hooks' = [hooks EXCEPT !.caps = @ \cup {NextController}]
      <4>1. hooks' = [hooks EXCEPT !.at = "configure", !.group = hooks.group,
                         !.caps = hooks.caps \cup {NextController}, !.joined = FALSE,
                         !.noted = hooks.noted]
        BY <1>0, <3>0, <3>2 DEF Hooks
      <4>2. hooks.caps \cup {NextController} \in SUBSET Controllers
        BY <3>0
      <4> QED
        BY <1>b, <3>0, <4>1, <4>2 DEF GroupStep
    <3>3. CASE hooks' = [hooks EXCEPT !.at = "set", !.caps = {},
                                      !.noted = @ \cup {"cgroup"},
                                      !.group = IF removed THEN "removed" ELSE "left"]
      <4> DEFINE group == IF removed THEN "removed" ELSE "left"
      <4>1. hooks' = [hooks EXCEPT !.at = "set", !.group = group, !.caps = {},
                         !.joined = FALSE, !.noted = told]
        BY <1>0, <3>0, <3>3 DEF Hooks
      <4>2. group \in Groups
        BY DEF Groups
      <4> HIDE DEF group
      <4>3. LeftIsTold(group, told, FALSE) /\ hooks.noted \subseteq told
        BY DEF LeftIsTold
      <4> QED
        BY <1>0, <1>b, <3>0, <4>1, <4>2, <4>3 DEF GroupStep
    <3> QED
      BY <2>4, <3>1, <3>2, <3>3 DEF ConfigureGroup
  <2>5. ASSUME NEW b \in BOOLEAN, NEW removed \in BOOLEAN, JoinGroup(b, removed)
        PROVE  GroupStep
    <3>0. /\ hooks.at = "join" /\ hooks.caps = Wanted /\ hooks.joined = FALSE
          /\ hooks.group = "made" /\ hooks.group \in Groups /\ hooks.noted \in SUBSET Notes
      BY <1>0, <2>5 DEF JoinGroup, LimitInv, GroupSound, Hooks
    <3>1. CASE hooks' = [hooks EXCEPT !.at = "set", !.joined = TRUE]
      <4>1. hooks' = [hooks EXCEPT !.at = "set", !.group = hooks.group,
                         !.caps = hooks.caps, !.joined = TRUE, !.noted = hooks.noted]
        BY <1>0, <3>0, <3>1 DEF Hooks
      <4>2. LeftIsTold(hooks.group, hooks.noted, TRUE)
        BY <3>0 DEF LeftIsTold
      <4> QED
        BY <1>b, <3>0, <4>1, <4>2 DEF GroupStep
    <3>2. CASE hooks' = Refused(removed)
      <4>1. PICK group \in Groups, noted \in SUBSET Notes :
               /\ hooks' = [hooks EXCEPT !.at = "refused", !.group = group, !.noted = noted]
               /\ hooks.noted \subseteq noted /\ group # "made"
               /\ LeftIsTold(group, noted, hooks.joined)
        BY <1>0, <3>2, TeardownKnown DEF Refused
      <4>2. hooks' = [hooks EXCEPT !.at = "refused", !.group = group,
                         !.caps = hooks.caps, !.joined = FALSE, !.noted = noted]
        BY <1>0, <3>0, <4>1 DEF Hooks
      <4>3. LeftIsTold(group, noted, FALSE)
        BY <3>0, <4>1 DEF LeftIsTold
      <4> QED
        BY <1>0, <1>b, <3>0, <4>1, <4>2, <4>3 DEF GroupStep
    <3> QED
      BY <2>5, <3>1, <3>2 DEF JoinGroup
  <2> QED
    BY <2>1, <2>2, <2>3, <2>4, <2>5
<1>2. PICK at \in {"set", "configure", "join", "refused"},
           group \in Groups, caps \in SUBSET Controllers,
           joined \in BOOLEAN, noted \in SUBSET Notes :
         /\ hooks.noted \subseteq noted /\ LeftIsTold(group, noted, joined)
         /\ hooks' = [hooks EXCEPT !.at = at, !.group = group, !.caps = caps,
                                   !.joined = joined, !.noted = noted]
         /\ hooks.at \in {"prepare", "configure", "join"}
         /\ at = "refused" => group # "made"
         /\ at \in {"configure", "join"} => group = "made"
         /\ at = "join" => caps = Wanted
         /\ joined => caps = Wanted /\ at = "set"
         /\ at = "set" /\ Requested => "cgroup" \in noted \/ joined
  BY <1>1 DEF GroupStep
<1>3. at \in LimitSteps
  BY <1>0
<1>4. /\ hooks' \in Hooks /\ hooks'.inForce = hooks.inForce
      /\ hooks'.next = hooks.next /\ hooks'.noted = noted
      /\ hooks'.at = at /\ hooks'.group = group
      /\ hooks'.caps = caps /\ hooks'.joined = joined
  BY <1>0, <1>2, <1>3 DEF Hooks
<1>5. MacNoted'
  BY <1>0, <1>2, <1>3, <1>4 DEF LimitInv, MacNoted
<1>6. GroupSound'
  BY <1>0, <1>2, <1>4 DEF GroupSound
<1> QED
  BY <1>0, <1>2, <1>3, <1>4, <1>5, <1>6, HookKeeps

(* A limit is set, let pass, or the spawn is refused. *)
LEMMA SetKeeps ==
    ASSUME LimitInv, NEW b \in BOOLEAN, NEW removed \in BOOLEAN, SetLimit(b, removed)
    PROVE  LimitInv'
<1>0. /\ hooks \in Hooks /\ order \in AllOrders /\ order' = order
      /\ hooks.at = "set" /\ hooks.next \in 1 .. 4 /\ "set" \in LimitSteps
      /\ Wanted' = Wanted /\ Requested' = Requested
      /\ "refused" \in LimitSteps
      /\ order.spec \in [FieldNames -> SUBSET Nat]
      /\ order.inherited \in [FieldNames -> Nat]
      /\ hooks.inForce \in [FieldNames -> Nat]
  BY FieldsKnown DEF LimitInv, LimitTypes, Hooks, SetLimit, Wanted, Requested, LimitSteps,
                     AllOrders, Orders
<1>1. CASE hooks' = Refused(removed)
  <2>1. PICK group \in Groups, noted \in SUBSET Notes :
           /\ hooks' = [hooks EXCEPT !.at = "refused", !.group = group, !.noted = noted]
           /\ hooks.noted \subseteq noted /\ group # "made"
           /\ LeftIsTold(group, noted, hooks.joined)
    BY <1>0, <1>1, TeardownKnown DEF LimitInv, Refused
  <2>2. /\ hooks' \in Hooks /\ hooks'.inForce = hooks.inForce
        /\ hooks'.next = hooks.next /\ hooks'.noted = noted
        /\ hooks'.at = "refused" /\ hooks'.group = group
        /\ hooks'.caps = hooks.caps /\ hooks'.joined = hooks.joined
    BY <1>0, <2>1 DEF Hooks
  <2>3. MacNoted' /\ GroupSound'
    BY <1>0, <2>1, <2>2 DEF LimitInv, MacNoted, GroupSound
  <2> QED
    BY <1>0, <2>1, <2>2, <2>3, HookKeeps
<1>f. PICK field : field = Fields[hooks.next]
  OBVIOUS
<1>g. /\ field \in FieldNames
      /\ \A i \in 1 .. 4 : i < hooks.next + 1 => i < hooks.next \/ Fields[i] = field
      /\ \A n \in FieldNames : order.inherited[n] \in Nat /\ hooks.inForce[n] \in Nat
  <2>1. \A i \in 1 .. 4 : i < hooks.next + 1 => i < hooks.next \/ i = hooks.next
    BY <1>0
  <2> QED
    BY <1>0, <1>f, <2>1, FieldsKnown
<1> DEFINE limit == CHOOSE l \in order.spec[field] : TRUE
<1>2. ASSUME NEW f \in [FieldNames -> Nat],
             hooks' = [hooks EXCEPT !.next = @ + 1, !.inForce = f],
             \A n \in FieldNames \ {field} : f[n] = hooks.inForce[n],
             f[field] <= hooks.inForce[field],
             order.spec[field] = {} => f[field] = hooks.inForce[field],
             order.spec[field] # {} =>
                f[field] \in order.spec[field] \ {0} \/ field \in hooks.noted
      PROVE  LimitInv'
  <2>1. /\ hooks' \in Hooks /\ hooks'.inForce = f
        /\ hooks'.next = hooks.next + 1 /\ hooks'.noted = hooks.noted
        /\ hooks'.at = "set" /\ hooks'.group = hooks.group
        /\ hooks'.caps = hooks.caps /\ hooks'.joined = hooks.joined
    <3>1. hooks.next + 1 \in 1 .. 5
      BY <1>0
    <3> QED
      BY <1>0, <1>2, <3>1 DEF Hooks
  <2>2. LimitTypes' /\ MacNoted' /\ GroupSound'
    BY <1>0, <2>1 DEF LimitInv, LimitTypes, MacNoted, GroupSound
  <2>3. NeverLooser'
    <3> SUFFICES ASSUME NEW n \in FieldNames
                 PROVE  /\ f[n] <= order.inherited[n]
                        /\ order.spec[n] = {} => f[n] = order.inherited[n]
      BY <1>0, <2>1 DEF NeverLooser
    <3>1. /\ hooks.inForce[n] <= order.inherited[n]
          /\ order.spec[n] = {} => hooks.inForce[n] = order.inherited[n]
      BY DEF LimitInv, NeverLooser
    <3>2. f[n] \in Nat /\ f[n] <= hooks.inForce[n]
          /\ (order.spec[n] = {} => f[n] = hooks.inForce[n])
      BY <1>g, <1>2
    <3> QED
      BY <1>g, <3>1, <3>2
  <2>4. SettledSoFar'
    <3>1. Settled(field)'
      BY <1>0, <1>2, <2>1 DEF Settled
    <3>2. ASSUME NEW n \in FieldNames, Settled(n) PROVE Settled(n)'
      <4>1. CASE n = field
        BY <3>1, <4>1
      <4>2. CASE n # field
        BY <1>0, <1>2, <2>1, <3>2, <4>2 DEF Settled
      <4> QED
        BY <4>1, <4>2
    <3>3. ASSUME NEW i \in 1 .. 4, i < hooks.next + 1 PROVE Settled(Fields[i])'
      <4>1. CASE i < hooks.next
        BY <3>2, <4>1, FieldsKnown DEF LimitInv, SettledSoFar
      <4>2. CASE Fields[i] = field
        BY <3>1, <4>2
      <4> QED
        BY <1>g, <3>3, <4>1, <4>2
    <3> QED
      BY <2>1, <3>3 DEF SettledSoFar
  <2> QED
    BY <2>2, <2>3, <2>4 DEF LimitInv
<1>3. ASSUME hooks' = [hooks EXCEPT !.next = @ + 1],
             order.spec[field] = {} \/ (order.os = "macos" /\ field = "nproc")
      PROVE  LimitInv'
  <2>1. PICK f \in [FieldNames -> Nat] :
            /\ f = hooks.inForce /\ hooks' = [hooks EXCEPT !.next = @ + 1, !.inForce = f]
    BY <1>0, <1>3 DEF Hooks
  <2>2. order.spec[field] # {} => field \in hooks.noted
    BY <1>0, <1>3 DEF LimitInv, MacNoted
  <2>3. f[field] <= hooks.inForce[field]
    BY <1>g, <2>1
  <2> QED
    BY <1>2, <2>1, <2>2, <2>3
<1>4. ASSUME hooks' = [hooks EXCEPT !.next = @ + 1, !.inForce[field] = limit],
             order.spec[field] # {}, limit <= hooks.inForce[field],
             validate_limits(order.spec)
      PROVE  LimitInv'
  <2>1. limit \in order.spec[field]
    BY <1>4
  <2>2. limit \in Nat /\ limit # 0
    BY <1>0, <1>4, <1>g, <2>1 DEF validate_limits
  <2> HIDE DEF limit
  <2> DEFINE f == [hooks.inForce EXCEPT ![field] = limit]
  <2>3. /\ hooks' = [hooks EXCEPT !.next = @ + 1, !.inForce = f]
        /\ f \in [FieldNames -> Nat] /\ f[field] = limit
        /\ \A n \in FieldNames \ {field} : f[n] = hooks.inForce[n]
    BY <1>0, <1>4, <1>g, <2>2 DEF Hooks
  <2> HIDE DEF f
  <2> QED
    BY <1>2, <1>4, <2>1, <2>2, <2>3
<1> QED
  BY <1>f, <1>1, <1>3, <1>4 DEF SetLimit

(* The check is executed, and is over. *)
LEMMA EndKeeps ==
    ASSUME LimitInv, ExecCheck \/ \E removed \in BOOLEAN : DropGuard(removed)
    PROVE  LimitInv'
<1>0. /\ hooks \in Hooks /\ order \in AllOrders /\ order' = order
      /\ Wanted' = Wanted /\ Requested' = Requested
      /\ "running" \in LimitSteps /\ "over" \in LimitSteps
  BY DEF LimitInv, LimitTypes, ExecCheck, DropGuard, Wanted, Requested, LimitSteps
<1>1. CASE ExecCheck
  <2>1. /\ hooks' = [hooks EXCEPT !.at = "running"] /\ hooks.at = "set"
        /\ hooks.next > 4
    BY <1>1, FieldsKnown DEF ExecCheck
  <2>2. /\ hooks' \in Hooks /\ hooks'.inForce = hooks.inForce
        /\ hooks'.next = hooks.next /\ hooks'.noted = hooks.noted
        /\ hooks'.at = "running" /\ hooks'.group = hooks.group
        /\ hooks'.caps = hooks.caps /\ hooks'.joined = hooks.joined
    BY <1>0, <2>1 DEF Hooks
  <2>3. hooks.next = 5
    BY <1>0, <2>1 DEF Hooks
  <2>4. \A n \in FieldNames : Settled(n)
    <3>1. \A i \in 1 .. 4 : Settled(Fields[i])
      BY <2>3 DEF LimitInv, SettledSoFar
    <3> QED
      BY <3>1, FieldsKnown
  <2>5. MacNoted' /\ GroupSound'
    BY <1>0, <2>1, <2>2 DEF LimitInv, MacNoted, GroupSound
  <2> QED
    BY <1>0, <2>2, <2>4, <2>5, HookKeeps
<1>2. ASSUME NEW removed \in BOOLEAN, DropGuard(removed) PROVE LimitInv'
  <2>1. PICK group \in Groups, noted \in SUBSET Notes :
           /\ hooks' = [hooks EXCEPT !.at = "over", !.group = group, !.noted = noted]
           /\ hooks.noted \subseteq noted /\ group # "made"
           /\ LeftIsTold(group, noted, hooks.joined)
    BY <1>0, <1>2, TeardownKnown DEF LimitInv, DropGuard
  <2>2. hooks.at = "running"
    BY <1>2 DEF DropGuard
  <2>3. /\ hooks' \in Hooks /\ hooks'.inForce = hooks.inForce
        /\ hooks'.next = hooks.next /\ hooks'.noted = noted
        /\ hooks'.at = "over" /\ hooks'.group = group
        /\ hooks'.caps = hooks.caps /\ hooks'.joined = hooks.joined
    BY <1>0, <2>1 DEF Hooks
  <2>4. MacNoted' /\ GroupSound'
    BY <1>0, <2>1, <2>2, <2>3 DEF LimitInv, MacNoted, GroupSound
  <2> QED
    BY <1>0, <2>1, <2>3, <2>4, HookKeeps
<1> QED
  BY <1>1, <1>2

(* LimitInv is inductive, and it is what LimitsHold claims and more. *)
LEMMA LimitInvHolds ==
    ASSUME NEW orders, orders \subseteq AllOrders
    PROVE  /\ LimitInit(orders) => LimitInv
           /\ LimitInv /\ [LimitNext]_limitVars => LimitInv'
           /\ LimitInv => LimitsHold
<1>1. LimitInit(orders) => LimitInv
  <2> SUFFICES ASSUME LimitInit(orders) PROVE LimitInv
    OBVIOUS
  <2>1. /\ order \in AllOrders /\ order.inherited \in [FieldNames -> Nat]
        /\ "order" \in LimitSteps
    BY DEF LimitInit, AllOrders, Orders, LimitSteps
  <2>2. hooks = [at |-> "order", next |-> 1, group |-> "none", caps |-> {},
                 joined |-> FALSE, inForce |-> order.inherited, noted |-> {}]
    BY DEF LimitInit
  <2>3. LimitTypes
    BY <2>1, <2>2 DEF LimitTypes, Hooks, Groups
  <2>4. NeverLooser /\ SettledSoFar /\ MacNoted /\ GroupSound
    BY <2>1, <2>2 DEF NeverLooser, SettledSoFar, MacNoted, GroupSound, LeftIsTold
  <2> QED
    BY <2>3, <2>4 DEF LimitInv
<1>2. LimitInv /\ [LimitNext]_limitVars => LimitInv'
  <2>1. LimitInv /\ LimitNext => LimitInv'
    BY OrderKeeps, GroupKeeps, SetKeeps, EndKeeps DEF LimitNext
  <2>2. LimitInv /\ UNCHANGED limitVars => LimitInv'
    BY DEF limitVars, LimitInv, LimitTypes, NeverLooser, SettledSoFar, Settled, MacNoted,
           GroupSound, Wanted, Requested
  <2> QED
    BY <2>1, <2>2
<1>3. LimitInv => LimitsHold
  BY DEF LimitInv, NeverLooser, SettledSoFar, Settled, GroupSound, LeftIsTold, LimitsHold
<1> QED
  BY <1>1, <1>2, <1>3

-----------------------------------------------------------------------------
(***************************************************************************)
(* The configuration of a run                                              *)
(***************************************************************************)
RunSteps == {"idle", "announced", "gated", "running"}
Gates == {"none", "goal", "cargo", "go", "npm", "bare", "path"}
Runs == [step : RunSteps, config : Configs, source : {"project", "user", "default"},
         goal : BOOLEAN, consent : BOOLEAN, announced : Gates, gate : Gates, rounds : Nat]

ConfigInv ==
    /\ projectFile \in Configs \cup {Missing} /\ userFile \in Configs \cup {Missing}
    /\ consent \in BOOLEAN /\ started \in Runs
    /\ RepositoryCannotOptIn /\ RunIsBounded

-----------------------------------------------------------------------------
(* The first of the rules that settle a list is one of them. *)
LEMMA FirstKnown ==
    ASSUME NEW rules \in Seq(Rules), NEW outcomes
    PROVE  LET found == {n \in DOMAIN rules : rules[n] \in outcomes}
           IN  /\ found = {} => FirstOf(rules, outcomes) = "none"
               /\ found # {} => \E n \in DOMAIN rules :
                     FirstOf(rules, outcomes) = rules[n] /\ rules[n] \in outcomes
<1> DEFINE found == {n \in DOMAIN rules : rules[n] \in outcomes}
<1>1. DOMAIN rules \subseteq Nat
  OBVIOUS
<1>2. found # {} => Min(found) \in found
  <2>1. found \in SUBSET Nat
    BY <1>1
  <2> HIDE DEF found
  <2> QED
    BY <2>1, MinKnown
<1> QED
  BY <1>2 DEF FirstOf

(* A list whose rules can all be compiled is a conjunction or a            *)
(* disjunction, whatever the order of its rules.                           *)
LEMMA RulesKnown ==
    ASSUME NEW rules \in Seq(Rules), \A r \in DOMAIN rules : rules[r] # "bad"
    PROVE  /\ any_rule_matches(rules) =
                IF \E r \in DOMAIN rules : rules[r] = "hit" THEN "yes" ELSE "no"
           /\ all_rules_match(rules) =
                IF \A r \in DOMAIN rules : rules[r] = "hit" THEN "yes" ELSE "no"
<1>0. \A r \in DOMAIN rules : rules[r] = "hit" \/ rules[r] = "miss"
  BY DEF Rules
<1>1. any_rule_matches(rules) =
         IF \E r \in DOMAIN rules : rules[r] = "hit" THEN "yes" ELSE "no"
  <2>1. CASE \E r \in DOMAIN rules : rules[r] = "hit"
    <3>1. FirstOf(rules, {"hit", "bad"}) = "hit"
      BY <1>0, <2>1, FirstKnown
    <3> QED
      BY <2>1, <3>1 DEF any_rule_matches
  <2>2. CASE ~\E r \in DOMAIN rules : rules[r] = "hit"
    <3>1. FirstOf(rules, {"hit", "bad"}) = "none"
      BY <1>0, <2>2, FirstKnown
    <3> QED
      BY <2>2, <3>1 DEF any_rule_matches
  <2> QED
    BY <2>1, <2>2
<1>2. all_rules_match(rules) =
         IF \A r \in DOMAIN rules : rules[r] = "hit" THEN "yes" ELSE "no"
  <2>1. CASE \A r \in DOMAIN rules : rules[r] = "hit"
    <3>1. FirstOf(rules, {"miss", "bad"}) = "none"
      BY <2>1, FirstKnown
    <3> QED
      BY <2>1, <3>1 DEF all_rules_match
  <2>2. CASE ~\A r \in DOMAIN rules : rules[r] = "hit"
    <3>1. FirstOf(rules, {"miss", "bad"}) = "miss"
      BY <1>0, <2>2, FirstKnown
    <3> QED
      BY <2>2, <3>1 DEF all_rules_match
  <2> QED
    BY <2>1, <2>2
<1> QED
  BY <1>1, <1>2

(* The profile that is selected, and the rounds it allows. *)
LEMMA SelectedProfile ==
    ASSUME NEW c \in ConfigType
    PROVE  /\ config_valid(c) => /\ select_profile(c).rounds \in Nat
                                 /\ select_profile(c).rounds <= 5
           /\ LET settled == {n \in DOMAIN c.profiles : profile_matches(c.profiles[n]) # "no"}
              IN  select_profile(c).id = IF settled = {} THEN NoProfile ELSE Min(settled)
<1> DEFINE settled == {n \in DOMAIN c.profiles : profile_matches(c.profiles[n]) # "no"}
           n == Min(settled)
           allowed == IF c.profiles[n].rounds = {} THEN {c.rounds} ELSE c.profiles[n].rounds
<1>1. /\ c.profiles \in Seq(Profiles) /\ DOMAIN c.profiles \subseteq Nat /\ c.rounds \in Nat
      /\ \A k \in DOMAIN c.profiles : c.profiles[k].rounds \in SUBSET Nat
  <2>1. c.profiles \in Seq(Profiles) /\ c.rounds \in Nat
    BY DEF ConfigType
  <2>2. \A k \in DOMAIN c.profiles : c.profiles[k] \in Profiles
    BY <2>1
  <2> QED
    BY <2>1, <2>2 DEF Profiles
<1>2. settled # {} => n \in DOMAIN c.profiles
  <2>1. settled \in SUBSET Nat
    BY <1>1
  <2>2. settled \subseteq DOMAIN c.profiles
    OBVIOUS
  <2> HIDE DEF settled
  <2> QED
    BY <2>1, <2>2, MinKnown
<1> HIDE DEF n
<1>3. settled # {} /\ config_valid(c) => Min(allowed) \in Nat /\ Min(allowed) <= 5
  <2> SUFFICES ASSUME settled # {}, config_valid(c)
               PROVE  Min(allowed) \in Nat /\ Min(allowed) <= 5
    OBVIOUS
  <2>1. allowed \in SUBSET Nat /\ allowed # {}
    BY <1>1, <1>2
  <2>2. \A r \in allowed : r <= 5
    BY <1>2 DEF config_valid
  <2> HIDE DEF allowed
  <2> QED
    BY <2>1, <2>2, MinKnown
<1>4. config_valid(c) => c.rounds <= 5
  BY DEF config_valid
<1>5. select_profile(c) =
         IF settled = {} THEN [ok |-> TRUE, id |-> NoProfile, rounds |-> c.rounds]
         ELSE [ok |-> profile_matches(c.profiles[n]) = "yes", id |-> n,
               rounds |-> Min(allowed)]
  BY DEF select_profile, n
<1> HIDE DEF settled, allowed
<1>6. /\ config_valid(c) => select_profile(c).rounds \in Nat /\ select_profile(c).rounds <= 5
      /\ select_profile(c).id = IF settled = {} THEN NoProfile ELSE n
  BY <1>1, <1>3, <1>4, <1>5
<1> QED
  BY <1>6 DEF settled, n

(* The rules of a profile, if they compile, and the profile that fits. *)
LEMMA MatchKnown ==
    ASSUME NEW p \in Profiles, \A r \in DOMAIN p.all : p.all[r] # "bad",
           \A r \in DOMAIN p.any : p.any[r] # "bad"
    PROVE  profile_matches(p) # "no" <=>
              /\ Len(p.all) + Len(p.any) > 0
              /\ \A r \in DOMAIN p.all : p.all[r] = "hit"
              /\ p.any # <<>> => \E r \in DOMAIN p.any : p.any[r] = "hit"
<1>1. p.all \in Seq(Rules) /\ p.any \in Seq(Rules)
  BY DEF Profiles
<1>2. Len(p.all) + Len(p.any) > 0 <=> ~(p.all = <<>> /\ p.any = <<>>)
  <2>1. \A q \in Seq(Rules) : Len(q) \in Nat /\ (Len(q) = 0 <=> q = <<>>)
    BY EmptySeq
  <2>2. PICK a, b \in Nat : /\ a = Len(p.all) /\ (a = 0 <=> p.all = <<>>)
                            /\ b = Len(p.any) /\ (b = 0 <=> p.any = <<>>)
    BY <1>1, <2>1, Zenon
  <2>3. a + b > 0 <=> ~(a = 0 /\ b = 0)
    OBVIOUS
  <2> QED
    BY <2>2, <2>3, Zenon
<1>3. /\ all_rules_match(p.all) =
            IF \A r \in DOMAIN p.all : p.all[r] = "hit" THEN "yes" ELSE "no"
      /\ any_rule_matches(p.any) =
            IF \E r \in DOMAIN p.any : p.any[r] = "hit" THEN "yes" ELSE "no"
  BY <1>1, RulesKnown
<1>4. p.any = <<>> => ~\E r \in DOMAIN p.any : p.any[r] = "hit"
  OBVIOUS
<1> QED
  BY <1>2, <1>3, <1>4 DEF profile_matches

(* The profile that is selected is the first that fits. *)
LEMMA FirstMatch ==
    ASSUME ConfigInv
    PROVE  SelectionIsFirstMatch
<1> DEFINE profiles == started.config.profiles
           Compiles(rules) == \A r \in DOMAIN rules : rules[r] # "bad"
           Fits(p) == /\ Len(p.all) + Len(p.any) > 0
                      /\ \A r \in DOMAIN p.all : p.all[r] = "hit"
                      /\ p.any # <<>> => \E r \in DOMAIN p.any : p.any[r] = "hit"
           fitting == {n \in DOMAIN profiles : Fits(profiles[n])}
           settled == {n \in DOMAIN profiles : profile_matches(profiles[n]) # "no"}
<1> SUFFICES ASSUME \A n \in DOMAIN profiles :
                       Compiles(profiles[n].all) /\ Compiles(profiles[n].any)
             PROVE  select_profile(started.config).id =
                       IF fitting = {} THEN NoProfile ELSE Min(fitting)
  BY DEF SelectionIsFirstMatch
<1>1. started.config \in ConfigType
  BY ConfigAssumption DEF ConfigInv, Runs
<1>2. \A n \in DOMAIN profiles : profiles[n] \in Profiles
  BY <1>1 DEF ConfigType
<1>3. \A n \in DOMAIN profiles : profile_matches(profiles[n]) # "no" <=> Fits(profiles[n])
  BY <1>2, MatchKnown
<1>4. settled = fitting
  <2> HIDE DEF profiles, Fits
  <2> QED
    BY <1>3
<1> HIDE DEF fitting
<1> QED
  BY <1>1, <1>4, SelectedProfile

(* The gate that is resolved executes something only if it may. *)
LEMMA GateKnown ==
    ASSUME NEW c \in Configs, NEW source \in {"project", "user", "default"},
           NEW operator_consent \in BOOLEAN, NEW goal \in BOOLEAN
    PROVE  LET gate == IF goal THEN "goal" ELSE
                  resolve_builtin_verifier(c.verifier, tree,
                      builtin_verifier_exec_trusted(source, operator_consent))
           IN  /\ gate \in Gates
               /\ gate \notin {"none", "goal"} =>
                    /\ c.verifier.mode # "off"
                    /\ source = "project" => operator_consent
<1>1. c.verifier.command \in {"none", "bare", "path"}
  BY ConfigAssumption DEF ConfigType
<1>2. detect_builtin_verifier(tree) \in {"cargo", "go", "npm", "none"}
  BY DEF detect_builtin_verifier
<1> QED
  BY <1>1, <1>2 DEF Gates, resolve_builtin_verifier, builtin_verifier_exec_trusted

(* No run is on. *)
LEMMA NoRunKnown ==
    /\ NoRunYet \in Runs /\ NoRunYet.gate = "none" /\ NoRunYet.step = "idle"
    /\ NoRunYet.rounds = 0
BY ConfigAssumption DEF NoRunYet, Runs, RunSteps, Gates

(* A run is started, and its gate resolved again. *)
LEMMA StartRunKeeps ==
    ASSUME ConfigInv, NEW goal \in BOOLEAN, StartRun(goal)
    PROVE  ConfigInv'
<1>1. PICK l \in load_from :
          started' = [NoRunYet EXCEPT !.step = "announced", !.config = l.config,
                         !.source = l.source, !.goal = goal, !.consent = consent,
                         !.announced = IF goal THEN "goal" ELSE
                             resolve_builtin_verifier(l.config.verifier, tree,
                                 builtin_verifier_exec_trusted(l.source, consent))]
  BY DEF StartRun
<1>2. /\ UNCHANGED <<projectFile, userFile, tree, consent, checkouts>>
      /\ consent \in BOOLEAN
  BY DEF StartRun, ConfigInv
<1>3. /\ l.config \in Configs /\ l.source \in {"project", "user", "default"}
      /\ config_valid(l.config)
  BY ConfigAssumption DEF load_from, ConfigInv
<1> DEFINE gate == IF goal THEN "goal" ELSE
                      resolve_builtin_verifier(l.config.verifier, tree,
                          builtin_verifier_exec_trusted(l.source, consent))
<1>4. gate \in Gates /\ "announced" \in RunSteps
  BY <1>2, <1>3, GateKnown DEF RunSteps
<1> HIDE DEF gate
<1>5. /\ started' \in Runs /\ started'.gate = "none" /\ started'.config = l.config
      /\ started'.rounds = 0
  <2>1. started' = [NoRunYet EXCEPT !.step = "announced", !.config = l.config,
                         !.source = l.source, !.goal = goal, !.consent = consent,
                         !.announced = gate]
    BY <1>1 DEF gate
  <2> QED
    BY <1>2, <1>3, <1>4, <2>1, NoRunKnown DEF Runs
<1>6. RunIsBounded' /\ RepositoryCannotOptIn'
  BY <1>3, <1>5 DEF RunIsBounded, RepositoryCannotOptIn, config_valid, verifier_valid
<1> QED
  BY <1>2, <1>5, <1>6 DEF ConfigInv

(* The loop resolves the gate again, from the tree as it is now. *)
LEMMA VerifierKeeps ==
    ASSUME ConfigInv, ApplyVerifier
    PROVE  ConfigInv'
<1> DEFINE gate == IF started.goal THEN "goal" ELSE
               resolve_builtin_verifier(started.config.verifier, tree,
                   builtin_verifier_exec_trusted(started.source, started.consent))
<1>1. /\ started' = [started EXCEPT !.step = "gated", !.gate = gate]
      /\ UNCHANGED <<projectFile, userFile, tree, consent, checkouts>>
      /\ started.step = "announced"
  BY DEF ApplyVerifier
<1>2. /\ started \in Runs /\ started.config \in Configs /\ started.goal \in BOOLEAN
      /\ started.source \in {"project", "user", "default"}
      /\ started.consent \in BOOLEAN /\ "gated" \in RunSteps
  BY DEF ConfigInv, Runs, RunSteps
<1>3. /\ gate \in Gates
      /\ gate \notin {"none", "goal"} =>
            /\ started.config.verifier.mode # "off"
            /\ started.source = "project" => started.consent
  BY <1>2, GateKnown
<1> HIDE DEF gate
<1>4. /\ started' \in Runs /\ started'.gate = gate /\ started'.config = started.config
      /\ started'.source = started.source /\ started'.consent = started.consent
      /\ started'.rounds = started.rounds
  BY <1>1, <1>2, <1>3 DEF Runs
<1>5. RunIsBounded' /\ RepositoryCannotOptIn'
  BY <1>1, <1>3, <1>4 DEF ConfigInv, RunIsBounded, RepositoryCannotOptIn, config_valid,
                          verifier_valid
<1> QED
  BY <1>1, <1>4, <1>5 DEF ConfigInv

(* The roles are chosen. *)
LEMMA RolesKeep ==
    ASSUME ConfigInv, SelectRoles
    PROVE  ConfigInv'
<1> DEFINE n == select_profile(started.config).rounds
<1>1. /\ \/ started' = NoRunYet
         \/ started' = [started EXCEPT !.step = "running", !.rounds = n]
      /\ UNCHANGED <<projectFile, userFile, tree, consent, checkouts>>
      /\ started.step = "gated"
  BY DEF SelectRoles
<1>2. /\ started \in Runs /\ started.config \in ConfigType /\ "running" \in RunSteps
      /\ config_valid(started.config)
  BY <1>1, ConfigAssumption DEF ConfigInv, Runs, RunSteps, RunIsBounded
<1>3. n \in Nat /\ n <= 5
  BY <1>2, SelectedProfile
<1> HIDE DEF n
<1>4. CASE started' = NoRunYet
  BY <1>1, <1>4, NoRunKnown DEF ConfigInv, RunIsBounded, RepositoryCannotOptIn
<1>5. CASE started' = [started EXCEPT !.step = "running", !.rounds = n]
  <2>1. /\ started' \in Runs /\ started'.gate = started.gate
        /\ started'.config = started.config /\ started'.source = started.source
        /\ started'.consent = started.consent /\ started'.rounds = n
    BY <1>2, <1>3, <1>5 DEF Runs
  <2>2. RunIsBounded' /\ RepositoryCannotOptIn'
    BY <1>2, <1>3, <2>1 DEF ConfigInv, RunIsBounded, RepositoryCannotOptIn, config_valid,
                            verifier_valid
  <2> QED
    BY <1>1, <2>1, <2>2 DEF ConfigInv
<1> QED
  BY <1>1, <1>4, <1>5

(***************************************************************************)
(* For every set of configurations, trees and limits, and any number of    *)
(* checkouts: a run obeys a valid configuration and at most five rounds,   *)
(* its roles are those of the first profile that fits, nothing a           *)
(* repository brings along makes it execute code without consent, and a    *)
(* check runs under the limits it was given or the operator was told       *)
(* (nerve-config load_from, validate and select_profile, verifier.rs,      *)
(* ulimit.rs, cgroup.rs, goal.rs).                                         *)
(***************************************************************************)
THEOREM ConfigIsObeyed ==
    ASSUME NEW orders, orders \subseteq AllOrders
    PROVE  ConfigInit /\ [][ConfigNext]_configVars
           /\ LimitInit(orders) /\ [][LimitNext]_limitVars => []ConfigObeyed
<1>1. ConfigInit => ConfigInv
  BY NoRunKnown DEF ConfigInit, ConfigInv, RunIsBounded, RepositoryCannotOptIn
<1>2. ConfigInv /\ [ConfigNext]_configVars => ConfigInv'
  <2> SUFFICES ASSUME ConfigInv, [ConfigNext]_configVars PROVE ConfigInv'
    OBVIOUS
  <2>1. CASE \E c \in Configs \cup {Missing} :
                EditUserFile(c) \/ \E markers \in Trees : Checkout(c, markers)
    BY <2>1 DEF EditUserFile, Checkout, ConfigInv, RunIsBounded, RepositoryCannotOptIn,
                config_valid, verifier_valid
  <2>2. CASE EndRun
    BY <2>2, NoRunKnown DEF EndRun, ConfigInv, RunIsBounded, RepositoryCannotOptIn
  <2>3. CASE UNCHANGED configVars
    BY <2>3 DEF configVars, ConfigInv, RunIsBounded, RepositoryCannotOptIn, config_valid,
                verifier_valid
  <2> QED
    BY <2>1, <2>2, <2>3, StartRunKeeps, VerifierKeeps, RolesKeep DEF ConfigNext
<1>3. ConfigInv /\ LimitInv => ConfigObeyed
  BY FirstMatch, LimitInvHolds DEF ConfigInv, ConfigObeyed
<1>4. /\ LimitInit(orders) => LimitInv
      /\ LimitInv /\ [LimitNext]_limitVars => LimitInv'
  BY LimitInvHolds
<1> QED
  BY <1>1, <1>2, <1>3, <1>4, PTL

-----------------------------------------------------------------------------
(***************************************************************************)
(* A reviewer's reply                                                      *)
(***************************************************************************)
Replies == [format : {"text", "events"}, lead : Leads, words : SUBSET Words,
            objects : Seq(JsonObjects)]

(* The ranks, and what the parsers return. *)
LEMMA RankKnown ==
    /\ \A v \in Verdicts : block_severity_rank(v) \in 0 .. 3
    /\ \A v \in Verdicts : v \in Accepting <=> block_severity_rank(v) <= 1
    /\ NoVerdict \notin Verdicts /\ Accepting \subseteq Verdicts
    /\ "block" \in Verdicts \ Accepting /\ "request_changes" \in Verdicts \ Accepting
BY DEF Verdicts, Accepting, NoVerdict, block_severity_rank

(* The more severe of two verdicts accepts only if both do. *)
LEMMA MaxKnown ==
    ASSUME NEW a \in Verdicts, NEW b \in Verdicts
    PROVE  /\ max_verdict(a, b) \in Verdicts
           /\ max_verdict(a, b) \in Accepting => a \in Accepting /\ b \in Accepting
<1>1. /\ block_severity_rank(a) \in 0 .. 3 /\ block_severity_rank(b) \in 0 .. 3
      /\ a \in Accepting <=> block_severity_rank(a) <= 1
      /\ b \in Accepting <=> block_severity_rank(b) <= 1
  BY RankKnown
<1> QED
  BY <1>1 DEF max_verdict

(* An object that parses accepts, or says nothing, only if it neither      *)
(* rejects, blocks nor repeats a key.                                      *)
LEMMA ObjectKnown ==
    ASSUME NEW objects \in Seq(JsonObjects), NEW i \in all_json_objects(objects)
    PROVE  /\ ObjectVerdict(objects, i) \in Verdicts \cup {NoVerdict}
           /\ ObjectVerdict(objects, i) \in Accepting \cup {NoVerdict} =>
                 /\ objects[i].verdict \in Accepting \cup {NoVerdict}
                 /\ objects[i].blocking = "no" /\ ~objects[i].duplicate
<1>1. objects[i] \in JsonObjects
  BY DEF all_json_objects
<1>2. /\ objects[i].verdict \in Verdicts \cup {NoVerdict}
      /\ objects[i].blocking \in {"no", "severity", "issue"}
  BY <1>1 DEF JsonObjects
<1>3. objects[i].duplicate => json_has_duplicate_keys(objects, i)
  BY DEF json_has_duplicate_keys
<1> QED
  BY <1>2, <1>3, RankKnown DEF ObjectVerdict, structured_verdict_from_object

(* There is a most severe object among those with a verdict. *)
LEMMA MostSevereKnown ==
    ASSUME NEW objects \in Seq(JsonObjects), Resolved(objects) # {}
    PROVE  /\ MostSevere(objects) \in Resolved(objects)
           /\ \A j \in Resolved(objects) :
                 block_severity_rank(ObjectVerdict(objects, j))
                     <= block_severity_rank(ObjectVerdict(objects, MostSevere(objects)))
<1> DEFINE Rank(i) == block_severity_rank(ObjectVerdict(objects, i))
           n == Len(objects)
<1>0. /\ n \in Nat /\ Resolved(objects) \subseteq 1 .. n
      /\ \A i \in Resolved(objects) : Rank(i) \in 0 .. 3
  <2>1. \A i \in Resolved(objects) :
            i \in all_json_objects(objects) /\ ObjectVerdict(objects, i) # NoVerdict
    BY DEF Resolved
  <2>2. all_json_objects(objects) \subseteq 1 .. n
    BY DEF all_json_objects
  <2> QED
    BY <2>1, <2>2, ObjectKnown, RankKnown
<1> HIDE DEF Rank, n
<1>1. PICK top \in Resolved(objects) : \A j \in Resolved(objects) : Rank(j) <= Rank(top)
  <2> DEFINE gaps == {3 - Rank(i) : i \in Resolved(objects)}
  <2>1. gaps \in SUBSET Nat /\ gaps # {}
    BY <1>0
  <2> HIDE DEF gaps
  <2>2. PICK g \in gaps : \A k \in gaps : g <= k
    BY <2>1, LeastNumber
  <2>3. PICK top \in Resolved(objects) : g = 3 - Rank(top)
    BY DEF gaps
  <2>4. \A j \in Resolved(objects) : 3 - Rank(top) <= 3 - Rank(j)
    BY <2>2, <2>3 DEF gaps
  <2>5. \A j \in Resolved(objects) : Rank(j) <= Rank(top)
    BY <1>0, <2>4
  <2> QED
    BY <2>5
<1>2. PICK last \in Resolved(objects) :
          /\ Rank(last) = Rank(top)
          /\ \A j \in Resolved(objects) : Rank(j) = Rank(top) => j <= last
  <2> DEFINE level == {i \in Resolved(objects) : Rank(i) = Rank(top)}
             gaps == {n - i : i \in level}
  <2>1. gaps \in SUBSET Nat /\ gaps # {}
    BY <1>0
  <2> HIDE DEF gaps
  <2>2. PICK g \in gaps : \A k \in gaps : g <= k
    BY <2>1, LeastNumber
  <2>3. PICK last \in level : g = n - last
    BY DEF gaps
  <2>4. \A j \in level : n - last <= n - j
    BY <2>2, <2>3 DEF gaps
  <2> QED
    BY <1>0, <2>4
<1>3. \A j \in Resolved(objects) :
          Rank(j) < Rank(last) \/ (Rank(j) = Rank(last) /\ j <= last)
  BY <1>0, <1>1, <1>2
<1>4. /\ MostSevere(objects) \in Resolved(objects)
      /\ \A j \in Resolved(objects) :
            \/ Rank(j) < Rank(MostSevere(objects))
            \/ Rank(j) = Rank(MostSevere(objects)) /\ j <= MostSevere(objects)
  BY <1>3 DEF MostSevere, Rank
<1>5. \A j \in Resolved(objects) : Rank(j) <= Rank(MostSevere(objects))
  BY <1>0, <1>4
<1> QED
  BY <1>4, <1>5 DEF Rank

(* The verdict of the text, before any object is looked at. *)
LEMMA TextKnown ==
    ASSUME NEW r \in Replies
    PROVE  LET free == parse_verdict_token(Seen(r))
           IN  /\ free \in Verdicts \cup {NoVerdict}
               /\ free \in Accepting =>
                     /\ r.format = "text" /\ Seen(r) = r
                     /\ r.lead.clean /\ r.lead.token \in Accepting /\ r.words = {}
<1>0. /\ r.format \in {"text", "events"} /\ r.lead \in Leads /\ r.words \subseteq Words
  BY DEF Replies
<1>1. \A x \in Leads : /\ x.clean => x.token \in Accepting
                       /\ x.token \in Accepting \cup {NoVerdict}
  BY DEF Leads, NoLead
<1>2. ASSUME NEW W \in SUBSET Words
      PROVE  /\ rejection_signal(W) \in {"block", "request_changes", NoVerdict}
             /\ rejection_signal(W) = NoVerdict => W = {}
  BY DEF rejection_signal, Words, NoVerdict
<1>3. CASE r.format = "text"
  <2>1. Seen(r) = r
    BY <1>3 DEF Seen
  <2> QED
    BY <1>0, <1>1, <1>2, <1>3, <2>1, RankKnown
       DEF parse_verdict_token, leading_accept_token
<1>4. CASE r.format # "text"
  <2>1. Seen(r).lead = NoLead /\ Seen(r).words \in SUBSET Words
    BY <1>0, <1>4 DEF Seen, Replies
  <2>2. leading_accept_token(NoLead) = NoVerdict
    BY DEF leading_accept_token, NoLead
  <2> QED
    BY <1>2, <2>1, <2>2, RankKnown DEF parse_verdict_token
<1> QED
  BY <1>3, <1>4

(* What a reply is read as: an acceptance is earned, and anything but a    *)
(* plain lgtm comes with an issue.                                         *)
LEMMA VerdictKnown ==
    ASSUME reply \in Replies
    PROVE  AcceptIsEarned /\ RejectionIsExplained
<1>1. PICK seen, free : seen = Seen(reply) /\ free = parse_verdict_token(seen)
  OBVIOUS
<1>2. /\ free \in Verdicts \cup {NoVerdict}
      /\ free \in Accepting =>
            /\ reply.format = "text" /\ seen = reply
            /\ reply.lead.clean /\ reply.lead.token \in Accepting /\ reply.words = {}
  BY <1>1, TextKnown
<1>3. seen.objects \in Seq(JsonObjects) /\ reply.objects \in Seq(JsonObjects)
  BY <1>1 DEF Seen, Replies
<1> DEFINE floor == IF free = NoVerdict THEN "request_changes" ELSE free
           top == MostSevere(seen.objects)
           block == ObjectVerdict(seen.objects, top)
           v == max_verdict(floor, block)
           heard == Resolved(seen.objects) # {} /\ honor_block_verdict(block, free)
<1>4. feedback_from_text(reply) =
         IF heard
         THEN [verdict |-> v, issues |-> ensure_issues_for_verdict(v,
                                        ObjectIssues(seen.objects, top))]
         ELSE [verdict |-> floor, issues |-> severity_for_verdict(floor)]
  BY <1>1 DEF feedback_from_text
<1>5. floor \in Verdicts /\ (floor \in Accepting => floor = free)
  BY <1>2, RankKnown
<1>6. Resolved(seen.objects) # {} => top \in Resolved(seen.objects) /\ block \in Verdicts
  <2>1. Resolved(seen.objects) # {} => top \in Resolved(seen.objects)
    BY <1>3, MostSevereKnown
  <2>2. \A i \in Resolved(seen.objects) :
            /\ i \in all_json_objects(seen.objects)
            /\ ObjectVerdict(seen.objects, i) # NoVerdict
    BY DEF Resolved
  <2> QED
    BY <1>3, <2>1, <2>2, ObjectKnown
<1>7. heard => v \in Verdicts /\ (v \in Accepting => floor \in Accepting /\ block \in Accepting)
  BY <1>5, <1>6, MaxKnown
<1>8. \A x \in Verdicts : x # "lgtm" => severity_for_verdict(x) # {}
  BY DEF Verdicts, severity_for_verdict
<1>9. RejectionIsExplained
  <2>1. \A x \in Verdicts : \A issues :
            x # "lgtm" => ensure_issues_for_verdict(x, issues) # {}
    BY <1>8 DEF ensure_issues_for_verdict
  <2> HIDE DEF heard, v, floor, top
  <2> QED
    BY <1>4, <1>5, <1>7, <1>8, <2>1 DEF RejectionIsExplained
<1>10. AcceptIsEarned
  <2> SUFFICES ASSUME Verdict(reply) \in Accepting
               PROVE  /\ reply.lead.clean /\ reply.lead.token \in Accepting
                      /\ reply.words = {}
                      /\ \A i \in 1 .. Len(reply.objects) :
                            \/ reply.objects[i].broken
                            \/ /\ reply.objects[i].verdict \in Accepting \cup {NoVerdict}
                               /\ reply.objects[i].blocking = "no"
                               /\ ~reply.objects[i].duplicate
    BY DEF AcceptIsEarned
  <2>1. free \in Accepting /\ (heard => block \in Accepting)
    <3>1. Verdict(reply) = IF heard THEN v ELSE floor
      <4> HIDE DEF heard, v, floor, top
      <4> QED
        BY <1>4 DEF Verdict
    <3> HIDE DEF heard, v
    <3> QED
      BY <1>5, <1>7, <3>1
  <2>2. seen = reply
    BY <1>2, <2>1
  <2>3. heard <=> Resolved(seen.objects) # {}
    BY <2>1 DEF honor_block_verdict
  <2>4. ASSUME NEW i \in all_json_objects(seen.objects)
        PROVE  ObjectVerdict(seen.objects, i) \in Accepting \cup {NoVerdict}
    <3>1. CASE i \notin Resolved(seen.objects)
      BY <2>4, <3>1 DEF Resolved
    <3>2. CASE i \in Resolved(seen.objects)
      <4>1. /\ ObjectVerdict(seen.objects, i) \in Verdicts
            /\ block_severity_rank(ObjectVerdict(seen.objects, i))
                  <= block_severity_rank(block)
            /\ block \in Accepting
        <5>1. ObjectVerdict(seen.objects, i) \in Verdicts
          BY <1>3, <2>4, <3>2, ObjectKnown DEF Resolved
        <5> QED
          BY <1>3, <2>1, <2>3, <3>2, <5>1, MostSevereKnown
      <4> HIDE DEF block
      <4>2. block \in Verdicts
        BY <4>1, RankKnown
      <4> QED
        BY <4>1, <4>2, RankKnown
    <3> QED
      BY <3>1, <3>2
  <2> QED
    BY <1>2, <1>3, <2>1, <2>2, <2>4, ObjectKnown DEF all_json_objects
<1> QED
  BY <1>9, <1>10

(* The usage that is charged is the last one that names tokens. *)
LEMMA UsageKnown ==
    ASSUME usages \in Seq(Usages)
    PROVE  LastUsageCounts
<1> DEFINE n == Len(usages)
           u == usages[n]
           given == {i \in 1 .. Len(usages) : parse_usage_object(usages[i]).known}
<1> SUFFICES ASSUME n > 0, u.input + u.output > 0 \/ (u.hasTotal /\ u.total > 0)
             PROVE  usage_from_raw_text(usages).tokens =
                       IF u.input + u.output > 0 THEN u.input + u.output ELSE u.total
  BY DEF LastUsageCounts
<1>0. n \in Nat \ {0} /\ u \in Usages
  OBVIOUS
<1>1. u.input \in Nat /\ u.output \in Nat /\ u.total \in Nat
  BY <1>0, ReplyAssumption DEF Usages
<1>2. /\ parse_usage_object(u).known
      /\ parse_usage_object(u).tokens =
            IF u.input + u.output > 0 THEN u.input + u.output ELSE u.total
      /\ parse_usage_object(u).tokens # 0
  <2> HIDE DEF u
  <2>1. CASE u.input = 0 /\ u.output = 0
    <3>1. u.input + u.output = 0 /\ u.hasTotal /\ u.total # 0
      BY <1>1, <2>1
    <3>2. /\ parse_usage_object(u).known = (u.hasTotal \/ u.cost)
          /\ parse_usage_object(u).tokens = u.total
      BY <2>1, <3>1 DEF parse_usage_object
    <3>3. ~(u.input + u.output > 0)
      BY <3>1
    <3> QED
      BY <3>1, <3>2, <3>3
  <2>2. CASE ~(u.input = 0 /\ u.output = 0)
    <3>1. u.input + u.output > 0 /\ u.input + u.output # 0
      BY <1>1, <2>2
    <3> QED
      BY <2>2, <3>1 DEF parse_usage_object
  <2> QED
    BY <2>1, <2>2
<1>3. n \in given /\ \A j \in given : j \in 1 .. n
  BY <1>0, <1>2
<1>4. (CHOOSE i \in given : \A j \in given : j <= i) = n
  <2>1. \A j \in given : j <= n
    BY <1>0, <1>3
  <2>2. PICK c : c = CHOOSE i \in given : \A j \in given : j <= i
    OBVIOUS
  <2>3. c \in given /\ \A j \in given : j <= c
    BY <1>3, <2>1, <2>2
  <2>4. c \in 1 .. n /\ n <= c
    BY <1>3, <2>3
  <2> QED
    BY <1>0, <2>2, <2>4
<1>5. usage_from_raw_text(usages) = parse_usage_object(u)
  <2>1. given # {}
    BY <1>3
  <2>2. usage_from_raw_text(usages) =
           LET last == parse_usage_object(usages[CHOOSE i \in given :
                                                    \A j \in given : j <= i])
           IN  IF given = {} \/ (last.tokens = 0 /\ ~last.cost) THEN NoUsage ELSE last
    BY DEF usage_from_raw_text
  <2>3. usages[CHOOSE i \in given : \A j \in given : j <= i] = u
    BY <1>4
  <2> HIDE DEF given, u
  <2> QED
    BY <1>2, <2>1, <2>2, <2>3
<1> QED
  BY <1>2, <1>5

(* The verdict of the text alone, and the least the reply is read as. *)
Free(r) == parse_verdict_token(Seen(r))
Floor(r) == IF Free(r) = NoVerdict THEN "request_changes" ELSE Free(r)
Rank(r) == block_severity_rank(Verdict(r))

(* A reply is read as its floor or as one of its objects, the accepting    *)
(* ones only if the text accepts too; and as nothing less severe.          *)
LEMMA RankBounds ==
    ASSUME NEW r \in Replies
    PROVE  LET objects == Seen(r).objects
               Counts(i) == ObjectVerdict(objects, i) \notin Accepting \/ Free(r) \in Accepting
           IN  /\ Verdict(r) \in Verdicts /\ Floor(r) \in Verdicts
               /\ block_severity_rank(Floor(r)) <= Rank(r)
               /\ \A i \in Resolved(objects) : Counts(i) =>
                     block_severity_rank(ObjectVerdict(objects, i)) <= Rank(r)
               /\ \/ Verdict(r) = Floor(r)
                  \/ \E i \in Resolved(objects) :
                        Counts(i) /\ Verdict(r) = ObjectVerdict(objects, i)
<1>1. PICK objects, free, floor :
          objects = Seen(r).objects /\ free = Free(r) /\ floor = Floor(r)
  OBVIOUS
<1>2. objects \in Seq(JsonObjects)
  BY <1>1 DEF Seen, Replies
<1>3. /\ free \in Verdicts \cup {NoVerdict} /\ floor \in Verdicts
      /\ block_severity_rank(floor) \in 0 .. 3
  BY <1>1, TextKnown, RankKnown DEF Free, Floor
<1>4. PICK top : top = MostSevere(objects)
  OBVIOUS
<1>5. PICK block : block = ObjectVerdict(objects, top)
  OBVIOUS
<1>6. \A i \in Resolved(objects) :
          /\ ObjectVerdict(objects, i) \in Verdicts
          /\ block_severity_rank(ObjectVerdict(objects, i)) \in 0 .. 3
  <2>1. \A i \in Resolved(objects) :
            i \in all_json_objects(objects) /\ ObjectVerdict(objects, i) # NoVerdict
    BY DEF Resolved
  <2> QED
    BY <1>2, <2>1, ObjectKnown, RankKnown
<1>7. Resolved(objects) # {} =>
        /\ top \in Resolved(objects) /\ block \in Verdicts
        /\ block_severity_rank(block) \in 0 .. 3
        /\ \A i \in Resolved(objects) :
              block_severity_rank(ObjectVerdict(objects, i)) <= block_severity_rank(block)
  BY <1>2, <1>4, <1>5, <1>6, MostSevereKnown
<1> DEFINE heard == Resolved(objects) # {} /\ honor_block_verdict(block, free)
<1>8. Verdict(r) = IF heard THEN max_verdict(floor, block) ELSE floor
  <2>1. feedback_from_text(r) =
           IF heard
           THEN [verdict |-> max_verdict(floor, block),
                 issues |-> ensure_issues_for_verdict(max_verdict(floor, block),
                                                      ObjectIssues(objects, top))]
           ELSE [verdict |-> floor, issues |-> severity_for_verdict(floor)]
    BY <1>1, <1>4, <1>5 DEF feedback_from_text, Free, Floor
  <2> HIDE DEF heard
  <2> QED
    BY <2>1 DEF Verdict
<1>9. heard => /\ max_verdict(floor, block) \in {floor, block}
               /\ block_severity_rank(floor) <= block_severity_rank(max_verdict(floor, block))
               /\ block_severity_rank(block) <= block_severity_rank(max_verdict(floor, block))
  BY <1>3, <1>7 DEF max_verdict
<1>10. ASSUME NEW i \in Resolved(objects),
              ObjectVerdict(objects, i) \notin Accepting \/ free \in Accepting
       PROVE  heard
  <2>1. ObjectVerdict(objects, i) \notin Accepting => block \notin Accepting
    BY <1>6, <1>7, RankKnown
  <2> QED
    BY <1>10, <2>1 DEF honor_block_verdict
<1>11. heard => block \notin Accepting \/ free \in Accepting
  BY DEF honor_block_verdict
<1> HIDE DEF heard
<1>12. Verdict(r) \in Verdicts /\ block_severity_rank(floor) <= Rank(r)
  <2>1. CASE heard
    BY <1>3, <1>7, <1>8, <1>9, <2>1 DEF Rank, heard
  <2>2. CASE ~heard
    BY <1>3, <1>8, <2>2 DEF Rank
  <2> QED
    BY <2>1, <2>2
<1>13. ASSUME NEW i \in Resolved(objects),
              ObjectVerdict(objects, i) \notin Accepting \/ free \in Accepting
       PROVE  block_severity_rank(ObjectVerdict(objects, i)) <= Rank(r)
  <2>1. heard
    BY <1>10, <1>13
  <2>2. block_severity_rank(block) <= Rank(r) /\ Rank(r) \in 0 .. 3
    BY <1>8, <1>9, <1>12, <2>1, RankKnown DEF Rank
  <2> QED
    BY <1>6, <1>7, <2>2
<1>14. \/ Verdict(r) = floor
       \/ \E i \in Resolved(objects) :
             /\ ObjectVerdict(objects, i) \notin Accepting \/ free \in Accepting
             /\ Verdict(r) = ObjectVerdict(objects, i)
  <2>1. heard => top \in Resolved(objects)
    BY <1>7 DEF heard
  <2> QED
    BY <1>5, <1>8, <1>9, <1>11, <2>1
<1> QED
  BY <1>1, <1>3, <1>12, <1>13, <1>14

(* A reply whose floor is no lower and whose objects are all there, none   *)
(* less severe, is not read as less severe.                                *)
LEMMA RankGrows ==
    ASSUME NEW r \in Replies, NEW q \in Replies,
           block_severity_rank(Floor(r)) <= block_severity_rank(Floor(q)),
           \A i \in Resolved(Seen(r).objects) :
              /\ i \in Resolved(Seen(q).objects)
              /\ block_severity_rank(ObjectVerdict(Seen(r).objects, i))
                    <= block_severity_rank(ObjectVerdict(Seen(q).objects, i))
    PROVE  Rank(q) >= Rank(r)
<1>1. PICK a, b : a = Seen(r).objects /\ b = Seen(q).objects
  OBVIOUS
<1>2. /\ a \in Seq(JsonObjects) /\ b \in Seq(JsonObjects)
      /\ Floor(r) \in Verdicts /\ Floor(q) \in Verdicts
      /\ Rank(r) \in 0 .. 3 /\ Rank(q) \in 0 .. 3
      /\ block_severity_rank(Floor(r)) \in 0 .. 3
      /\ block_severity_rank(Floor(q)) \in 0 .. 3
      /\ block_severity_rank(Floor(q)) <= Rank(q)
  <2>1. a \in Seq(JsonObjects) /\ b \in Seq(JsonObjects)
    BY <1>1 DEF Seen, Replies
  <2> QED
    BY <2>1, RankBounds, RankKnown DEF Rank
<1>3. \A x \in Seq(JsonObjects) : \A i \in Resolved(x) :
          ObjectVerdict(x, i) \in Verdicts
  <2>1. \A x \in Seq(JsonObjects) : \A i \in Resolved(x) :
            i \in all_json_objects(x) /\ ObjectVerdict(x, i) # NoVerdict
    BY DEF Resolved
  <2> QED
    BY <2>1, ObjectKnown
<1>4. CASE Verdict(r) = Floor(r)
  BY <1>2, <1>4 DEF Rank
<1>5. ASSUME NEW i \in Resolved(a), Verdict(r) = ObjectVerdict(a, i),
             ObjectVerdict(a, i) \notin Accepting \/ Free(r) \in Accepting
      PROVE  Rank(q) >= Rank(r)
  <2>1. /\ i \in Resolved(b)
        /\ ObjectVerdict(a, i) \in Verdicts /\ ObjectVerdict(b, i) \in Verdicts
        /\ block_severity_rank(ObjectVerdict(a, i))
              <= block_severity_rank(ObjectVerdict(b, i))
        /\ block_severity_rank(ObjectVerdict(a, i)) \in 0 .. 3
        /\ block_severity_rank(ObjectVerdict(b, i)) \in 0 .. 3
        /\ Rank(r) = block_severity_rank(ObjectVerdict(a, i))
    BY <1>1, <1>2, <1>3, <1>5, RankKnown DEF Rank
  <2>2. CASE ObjectVerdict(b, i) \notin Accepting \/ Free(q) \in Accepting
    <3>1. block_severity_rank(ObjectVerdict(b, i)) <= Rank(q)
      BY <1>1, <2>1, <2>2, RankBounds
    <3> QED
      BY <1>2, <2>1, <3>1
  <2>3. CASE ObjectVerdict(b, i) \in Accepting /\ Free(q) \notin Accepting
    <3>1. Floor(q) \notin Accepting
      BY <2>3, RankKnown DEF Floor
    <3>2. block_severity_rank(ObjectVerdict(b, i)) <= 1
          /\ ~(block_severity_rank(Floor(q)) <= 1)
      BY <1>2, <2>1, <2>3, <3>1, RankKnown
    <3> QED
      BY <1>2, <2>1, <3>2
  <2> QED
    BY <2>2, <2>3
<1> QED
  BY <1>1, <1>4, <1>5, RankBounds

(* A word more: the text is read as the same or as something more severe,  *)
(* and its objects as before.                                              *)
LEMMA WordDeepens ==
    ASSUME reply \in Replies, NEW w \in Words, AddWord(w), reply' \in Replies
    PROVE  Rank(reply') >= Rank(reply)
<1>1. /\ reply' = [reply EXCEPT !.words = reply.words \cup {w}]
      /\ reply.format \in {"text", "events"} /\ reply.words \subseteq Words
  BY DEF AddWord, Replies
<1>2. /\ Seen(reply').objects = Seen(reply).objects
      /\ Seen(reply').lead = Seen(reply).lead
      /\ Seen(reply).words \subseteq Seen(reply').words
      /\ Seen(reply').words \subseteq Words
      /\ Seen(reply).lead \in Leads
  BY <1>1 DEF Seen, Replies, Leads
<1>3. PICK old, new : old = Seen(reply) /\ new = Seen(reply')
  OBVIOUS
<1>4. PICK sold, snew : /\ sold = rejection_signal(old.words)
                        /\ snew = rejection_signal(new.words)
  OBVIOUS
<1>5. /\ sold = "block" => snew = "block"
      /\ sold = "request_changes" => snew \in {"request_changes", "block"}
      /\ snew = NoVerdict => old.words = new.words
      /\ sold \in {"block", "request_changes", NoVerdict}
      /\ snew \in {"block", "request_changes", NoVerdict}
  BY <1>2, <1>3, <1>4 DEF rejection_signal, Words, NoVerdict
<1>6. block_severity_rank(Floor(reply)) <= block_severity_rank(Floor(reply'))
  <2>1. PICK t : t = leading_accept_token(old.lead) /\ t \in Accepting \cup {NoVerdict}
    BY <1>2, <1>3 DEF leading_accept_token, Leads, NoLead
  <2>2. /\ Free(reply) = IF sold # NoVerdict THEN sold ELSE t
        /\ Free(reply') = IF snew # NoVerdict THEN snew ELSE t
    BY <1>2, <1>3, <1>4, <2>1 DEF Free, parse_verdict_token
  <2>3. /\ block_severity_rank("block") = 3 /\ block_severity_rank("request_changes") = 2
        /\ \A x \in Accepting : block_severity_rank(x) \in 0 .. 1
        /\ NoVerdict \notin Accepting /\ "block" # NoVerdict /\ "request_changes" # NoVerdict
    BY RankKnown DEF block_severity_rank, Accepting, Verdicts, NoVerdict
  <2>4. snew = NoVerdict => sold = NoVerdict
    BY <1>4, <1>5
  <2> QED
    BY <1>5, <2>1, <2>2, <2>3, <2>4 DEF Floor
<1>7. \A i \in Resolved(Seen(reply).objects) :
         block_severity_rank(ObjectVerdict(Seen(reply).objects, i)) \in 0 .. 3
  <2>1. PICK objects \in Seq(JsonObjects) : objects = Seen(reply).objects
    <3>1. Seen(reply).objects \in Seq(JsonObjects)
      BY DEF Seen, Replies
    <3> QED
      BY <3>1
  <2>2. \A i \in Resolved(objects) :
            i \in all_json_objects(objects) /\ ObjectVerdict(objects, i) # NoVerdict
    BY DEF Resolved
  <2> QED
    BY <2>1, <2>2, ObjectKnown, RankKnown
<1> QED
  BY <1>2, <1>6, <1>7, RankGrows

(* An object more: the others count as before, or as blocking when it      *)
(* brings a repeated key into their span.                                  *)
LEMMA ObjectDeepens ==
    ASSUME reply \in Replies, NEW o \in JsonObjects, NEW p \in 0 .. Len(reply.objects),
           AddObject(o, p), reply' \in Replies
    PROVE  Rank(reply') >= Rank(reply)
<1>1. /\ reply' = [reply EXCEPT !.objects = Append(reply.objects, o)]
      /\ reply.format \in {"text", "events"} /\ reply.objects \in Seq(JsonObjects)
  BY DEF AddObject, Replies
<1>2. /\ Seen(reply').lead = Seen(reply).lead /\ Seen(reply').words = Seen(reply).words
      /\ \/ Seen(reply).objects = <<>>
         \/ /\ Seen(reply).objects = reply.objects
            /\ Seen(reply').objects = Append(reply.objects, o)
  BY <1>1 DEF Seen, Replies
<1>3. Floor(reply') = Floor(reply)
  BY <1>2 DEF Floor, Free, parse_verdict_token
<1>4. block_severity_rank(Floor(reply)) \in 0 .. 3
  BY RankBounds, RankKnown
<1>5. CASE Seen(reply).objects = <<>>
  <2>1. Resolved(<<>>) = {}
    BY DEF Resolved, all_json_objects
  <2> QED
    BY <1>3, <1>4, <1>5, <2>1, RankGrows
<1>6. ASSUME NEW a \in Seq(JsonObjects), NEW b \in Seq(JsonObjects), b = Append(a, o),
             NEW i \in Resolved(a)
      PROVE  /\ i \in Resolved(b)
             /\ block_severity_rank(ObjectVerdict(a, i))
                   <= block_severity_rank(ObjectVerdict(b, i))
  <2>1. Len(b) = Len(a) + 1 /\ \A j \in 1 .. Len(a) : b[j] = a[j]
    BY <1>6
  <2>2. \A j \in all_json_objects(a) :
            j \in all_json_objects(b) /\ a[j] = b[j] /\ j \in 1 .. Len(a)
    BY <2>1 DEF all_json_objects
  <2>3. /\ i \in all_json_objects(a) /\ ObjectVerdict(a, i) # NoVerdict
        /\ ObjectVerdict(a, i) \in Verdicts
    BY <1>6, ObjectKnown DEF Resolved
  <2>4. json_has_duplicate_keys(a, i) => json_has_duplicate_keys(b, i)
    BY <2>2, <2>3 DEF json_has_duplicate_keys
  <2>5. ObjectVerdict(b, i) = "block" \/ ObjectVerdict(b, i) = ObjectVerdict(a, i)
    BY <2>2, <2>3, <2>4 DEF ObjectVerdict
  <2>6. /\ "block" # NoVerdict /\ block_severity_rank("block") = 3
        /\ block_severity_rank(ObjectVerdict(a, i)) \in 0 .. 3
    BY <2>3, RankKnown DEF block_severity_rank, NoVerdict
  <2> QED
    BY <2>2, <2>3, <2>5, <2>6 DEF Resolved
<1>7. CASE Seen(reply).objects = reply.objects
           /\ Seen(reply').objects = Append(reply.objects, o)
  <2>1. PICK a \in Seq(JsonObjects), b \in Seq(JsonObjects) :
            a = Seen(reply).objects /\ b = Seen(reply').objects /\ b = Append(a, o)
    <3>1. Append(reply.objects, o) \in Seq(JsonObjects)
      BY <1>1
    <3> QED
      BY <1>1, <1>7, <3>1
  <2>2. \A i \in Resolved(a) :
           /\ i \in Resolved(b)
           /\ block_severity_rank(ObjectVerdict(a, i))
                 <= block_severity_rank(ObjectVerdict(b, i))
    BY <1>6, <2>1
  <2>3. block_severity_rank(Floor(reply)) <= block_severity_rank(Floor(reply'))
    BY <1>3, <1>4
  <2> QED
    BY <2>1, <2>2, <2>3, RankGrows
<1> QED
  BY <1>2, <1>5, <1>7

(* A reply stays one, whatever is added to it. *)
LEMMA RepliesTyped ==
    /\ ReplyInit => reply \in Replies
    /\ reply \in Replies /\ [ReplyNext]_reply => reply' \in Replies
<1>1. ReplyInit => reply \in Replies
  BY ReplyAssumption DEF ReplyInit, Replies
<1>2. reply \in Replies /\ [ReplyNext]_reply => reply' \in Replies
  <2> SUFFICES ASSUME reply \in Replies, [ReplyNext]_reply PROVE reply' \in Replies
    OBVIOUS
  <2>1. ASSUME NEW w \in Words, AddWord(w) PROVE reply' \in Replies
    BY <2>1 DEF AddWord, Replies
  <2>2. ASSUME NEW o \in JsonObjects, NEW p \in 0 .. Len(reply.objects), AddObject(o, p)
        PROVE  reply' \in Replies
    <3>1. reply' = [reply EXCEPT !.objects = Append(reply.objects, o)]
      BY <2>2 DEF AddObject, Replies
    <3>2. Append(reply.objects, o) \in Seq(JsonObjects)
      BY DEF Replies
    <3> QED
      BY <3>1, <3>2 DEF Replies
  <2> QED
    BY <2>1, <2>2 DEF ReplyNext
<1> QED
  BY <1>1, <1>2

(***************************************************************************)
(* For every number of rejection words, JSON objects, however they are     *)
(* nested, and usage objects: a reply is read as an acceptance only when   *)
(* its first line says so and nothing in it rejects, a verdict that is not *)
(* a plain lgtm hands on an issue, and the tokens named last are the ones  *)
(* that count (adapter lib.rs feedback_from_text, usage_from_raw_text).    *)
(***************************************************************************)
THEOREM RepliesAreReadSafely ==
    ReplyInit /\ [][ReplyNext]_reply /\ UsageInit /\ [][UsageNext]_usages
        => []ReplyReadSafely
<1>1. ReplyInit => reply \in Replies
  BY RepliesTyped
<1>2. reply \in Replies /\ [ReplyNext]_reply => (reply \in Replies)'
  BY RepliesTyped
<1>3. UsageInit => usages \in Seq(Usages)
  BY DEF UsageInit
<1>4. usages \in Seq(Usages) /\ [UsageNext]_usages => (usages \in Seq(Usages))'
  BY DEF UsageNext, AddUsage
<1>5. reply \in Replies /\ usages \in Seq(Usages) => ReplyReadSafely
  BY VerdictKnown, UsageKnown DEF ReplyReadSafely
<1> QED
  BY <1>1, <1>2, <1>3, <1>4, <1>5, PTL

(***************************************************************************)
(* The one-way ratchet of feedback_from_text, for every number of words    *)
(* and objects: whatever a reply also quotes, an accepting verdict         *)
(* included, can only make it more severe (adapter lib.rs:841-944).        *)
(***************************************************************************)
THEOREM QuotesOnlyDeepen == ReplyInit /\ [][ReplyNext]_reply => VerdictOnlyDeepens
<1>1. ReplyInit => reply \in Replies
  BY RepliesTyped
<1>2. reply \in Replies /\ [ReplyNext]_reply => (reply \in Replies)'
  BY RepliesTyped
<1>3. reply \in Replies /\ [ReplyNext]_reply =>
         [block_severity_rank(Verdict(reply'))
             >= block_severity_rank(Verdict(reply))]_reply
  <2> SUFFICES ASSUME reply \in Replies, ReplyNext PROVE Rank(reply') >= Rank(reply)
    BY DEF Rank
  <2>1. reply' \in Replies
    BY RepliesTyped
  <2> QED
    BY <2>1, WordDeepens, ObjectDeepens DEF ReplyNext
<1> QED
  BY <1>1, <1>2, <1>3, PTL DEF VerdictOnlyDeepens

-----------------------------------------------------------------------------
(***************************************************************************)
(* The line editor                                                         *)
(***************************************************************************)
(* What the palette shows is a finite set: something is marked. *)
LEMMA PaletteFinite ==
    ASSUME NEW line
    PROVE  /\ Cardinality(command_suggestions(line)) \in Nat
           /\ command_suggestions(line) # {} =>
                 0 \in 0 .. Cardinality(command_suggestions(line)) - 1
<1>1. command_suggestions(line) \subseteq DOMAIN Commands
  BY DEF command_suggestions
<1>2. IsFiniteSet(DOMAIN Commands)
  <2>1. DOMAIN Commands = 1 .. Len(Commands) /\ Len(Commands) \in Nat
    BY EditorAssumption
  <2> QED
    BY <2>1, FS_Interval
<1>3. IsFiniteSet(command_suggestions(line))
  BY <1>1, <1>2, FS_Subset
<1>4. /\ Cardinality(command_suggestions(line)) \in Nat
      /\ Cardinality(command_suggestions(line)) = 0 <=> command_suggestions(line) = {}
  BY <1>3, FS_CardinalityType, FS_EmptySet
<1> QED
  BY <1>4

EditorInv ==
    /\ selected_suggestion \in Nat /\ EditorSound
    /\ terminal \in {"raw", "cooked"} /\ reading \in {"edit", "command", "ended"}

(***************************************************************************)
(* For every set of keys and commands, lines of any length and a history   *)
(* of any length: the line that was typed survives the wandering through   *)
(* the history, the palette marks a command it shows, and the terminal is  *)
(* raw exactly while a line is edited (main.rs InteractiveLineEditor,      *)
(* RawTerminalGuard).                                                      *)
(***************************************************************************)
THEOREM EditorStaysSound ==
    EditorInit /\ [][EditorNext]_editorVars => []EditorSound
<1>1. EditorInit => EditorInv
  <2> SUFFICES ASSUME EditorInit PROVE EditorInv
    OBVIOUS
  <2>1. SelectionIsShown
    BY PaletteFinite DEF EditorInit, SelectionIsShown, suggestions, has_command_suggestions
  <2> QED
    BY <2>1 DEF EditorInit, EditorInv, EditorSound, TypedLineSurvives, TerminalGivenBack,
                Editing, NoIndex
<1>2. EditorInv /\ [EditorNext]_editorVars => EditorInv'
  <2> SUFFICES ASSUME EditorInv, [EditorNext]_editorVars PROVE EditorInv'
    OBVIOUS
  <2>0. /\ TypedLineSurvives /\ TerminalGivenBack /\ selected_suggestion \in Nat
        /\ terminal \in {"raw", "cooked"} /\ reading \in {"edit", "command", "ended"}
    BY DEF EditorInv, EditorSound
  <2>1. ASSUME selected_suggestion' = 0 PROVE SelectionIsShown'
    BY <2>1, PaletteFinite DEF SelectionIsShown, suggestions, has_command_suggestions
  <2>2. ASSUME selected_suggestion' = 0, TypedLineSurvives', TerminalGivenBack',
               terminal' \in {"raw", "cooked"},
               reading' \in {"edit", "command", "ended"}
        PROVE  EditorInv'
    BY <2>1, <2>2 DEF EditorInv, EditorSound
  <2>3. ASSUME NEW line, Editing, Edit(line) PROVE EditorInv'
    BY <2>0, <2>2, <2>3 DEF Edit, LineOnly, TypedLineSurvives, TerminalGivenBack, Editing
  <2>4. CASE complete_selected_suggestion
    BY <2>0, <2>2, <2>4 DEF complete_selected_suggestion, LineOnly, TypedLineSurvives,
                            TerminalGivenBack, Editing
  <2>5. ASSUME NEW delta \in {-1, 1}, move_suggestion(delta) PROVE EditorInv'
    <3>1. /\ selected_suggestion' = (selected_suggestion + delta) % Cardinality(suggestions)
          /\ suggestions # {} /\ UNCHANGED <<buffer, history_index, draft, typed>>
          /\ UNCHANGED <<history, terminal, reading>>
      BY <2>5 DEF move_suggestion, LineOnly, has_command_suggestions
    <3>2. PICK n \in Nat : n = Cardinality(suggestions) /\ n > 0
      BY <3>1, PaletteFinite DEF suggestions
    <3>3. selected_suggestion' \in 0 .. n - 1
      BY <2>0, <3>1, <3>2
    <3>4. SelectionIsShown' /\ selected_suggestion' \in Nat
      BY <3>1, <3>2, <3>3 DEF SelectionIsShown, suggestions
    <3> QED
      BY <2>0, <3>1, <3>4 DEF EditorInv, EditorSound, TypedLineSurvives, TerminalGivenBack,
                              Editing
  <2>6. ASSUME NEW delta \in {-1, 1}, move_history(delta) PROVE EditorInv'
    BY <2>0, <2>2, <2>6 DEF move_history, LineOnly, TypedLineSurvives, TerminalGivenBack,
                            Editing
  <2>7. CASE Enter
    BY <2>0, <2>7 DEF Enter, EditorInv, EditorSound, TypedLineSurvives, SelectionIsShown,
                      TerminalGivenBack, Editing
  <2>8. CASE Interrupt
    BY <2>0, <2>2, <2>8 DEF Interrupt, Restarted, TypedLineSurvives, TerminalGivenBack,
                            Editing
  <2>9. CASE EndOfInput
    BY <2>0, <2>9 DEF EndOfInput, EditorInv, EditorSound, TypedLineSurvives,
                      SelectionIsShown, TerminalGivenBack, Editing
  <2>10. ASSUME NEW exit \in BOOLEAN, CommandDone(exit) PROVE EditorInv'
    BY <2>0, <2>2, <2>10 DEF CommandDone, Restarted, TypedLineSurvives, TerminalGivenBack,
                             Editing
  <2>11. CASE UNCHANGED editorVars
    BY <2>11 DEF editorVars, EditorInv, EditorSound, TypedLineSurvives, SelectionIsShown,
                 TerminalGivenBack, Editing, suggestions, has_command_suggestions
  <2> QED
    BY <2>3, <2>4, <2>5, <2>6, <2>7, <2>8, <2>9, <2>10, <2>11
       DEF EditorNext, Type, Backspace, Arrow
<1> QED
  BY <1>1, <1>2, PTL DEF EditorInv

-----------------------------------------------------------------------------
(***************************************************************************)
(* The calls an MCP client lets through                                    *)
(***************************************************************************)
PathTypes ==
    /\ path \in [anchored : BOOLEAN, ok : BOOLEAN, stack : Seq(Names)]
    /\ trail \in [at : Seq(Names), length : Nat, inside : BOOLEAN]

(* As long as the walk is not refused it is where the path leads; a        *)
(* relative path is refused at the moment it leaves the root.              *)
PathInv ==
    /\ PathTypes
    /\ path.ok => trail.at = path.stack
    /\ ~path.anchored /\ path.ok => StartsWith(path.stack, Root) /\ trail.inside
    /\ ~path.anchored /\ ~path.ok /\ Root # <<>> => ~trail.inside

-----------------------------------------------------------------------------
(* A name more, or a name less that is not one of the prefix, keep it. *)
LEMMA PrefixKept ==
    ASSUME NEW s \in Seq(Names), NEW t \in Seq(Names), StartsWith(s, t)
    PROVE  /\ \A c \in Names : StartsWith(Append(s, c), t)
           /\ Len(t) < Len(s) => StartsWith(SubSeq(s, 1, Len(s) - 1), t)
<1>1. ASSUME NEW c \in Names PROVE StartsWith(Append(s, c), t)
  <2>1. Len(Append(s, c)) = Len(s) + 1 /\ \A i \in 1 .. Len(s) : Append(s, c)[i] = s[i]
    BY AppendProperties
  <2> QED
    BY <2>1 DEF StartsWith
<1>2. ASSUME Len(t) < Len(s) PROVE StartsWith(SubSeq(s, 1, Len(s) - 1), t)
  <2>1. /\ Len(SubSeq(s, 1, Len(s) - 1)) = Len(s) - 1
        /\ \A i \in 1 .. Len(s) - 1 : SubSeq(s, 1, Len(s) - 1)[i] = s[i]
    <3>1. PICK n \in Nat : n = Len(s) - 1
      BY <1>2
    <3>2. \A i \in 1 .. n : s[i] \in Names
      BY <3>1
    <3>3. /\ Len(SubSeq(s, 1, n)) = IF 1 <= n THEN n - 1 + 1 ELSE 0
          /\ \A i \in 1 .. n - 1 + 1 : SubSeq(s, 1, n)[i] = s[1 + i - 1]
      BY <3>2, SubSeqProperties
    <3> QED
      BY <3>1, <3>3
  <2> QED
    BY <1>2, <2>1 DEF StartsWith
<1> QED
  BY <1>1, <1>2

(* One component more. *)
LEMMA WalkKeeps ==
    ASSUME PathInv, NEW c \in Names \cup {"..", "."}, WalkComponent(c)
    PROVE  PathInv'
<1> DEFINE at == Onward(trail.at, c)
<1>0. /\ path \in [anchored : BOOLEAN, ok : BOOLEAN, stack : Seq(Names)]
      /\ trail \in [at : Seq(Names), length : Nat, inside : BOOLEAN]
      /\ path.stack \in Seq(Names) /\ trail.at \in Seq(Names)
      /\ Root \in Seq(Names) /\ Len(Root) \in Nat /\ Len(path.stack) \in Nat
  BY PolicyAssumption DEF PathInv, PathTypes
<1>1. /\ path' = Walked(path, c)
      /\ trail' = [at |-> at, length |-> trail.length + 1,
                   inside |-> trail.inside /\ StartsWith(at, Root)]
  BY DEF WalkComponent
<1>2. at \in Seq(Names)
  <2>1. trail.at # <<>> => SubSeq(trail.at, 1, Len(trail.at) - 1) \in Seq(Names)
    BY <1>0, EmptySeq
  <2> QED
    BY <1>0, <2>1 DEF Onward
<1>3. (trail.inside /\ StartsWith(at, Root)) \in BOOLEAN
  BY <1>0 DEF StartsWith
<1>4. /\ trail' \in [at : Seq(Names), length : Nat, inside : BOOLEAN]
      /\ trail'.at = at /\ trail'.inside = (trail.inside /\ StartsWith(at, Root))
  <2> HIDE DEF at
  <2> QED
    BY <1>0, <1>1, <1>2, <1>3
<1>5. CASE ~path.ok
  <2>1. path' = path
    BY <1>1, <1>5 DEF Walked
  <2> QED
    BY <1>0, <1>4, <1>5, <2>1 DEF PathInv, PathTypes
<1>6. CASE path.ok /\ c = "."
  <2>1. path' = path /\ at = trail.at
    BY <1>1, <1>6 DEF Walked, Onward
  <2> QED
    BY <1>0, <1>4, <1>6, <2>1 DEF PathInv, PathTypes
<1>7. CASE path.ok /\ c \notin {".", ".."}
  <2>1. path' = [path EXCEPT !.stack = Append(path.stack, c)] /\ at = Append(trail.at, c)
    BY <1>0, <1>1, <1>7 DEF Walked, Onward
  <2>2. Append(path.stack, c) \in Seq(Names) /\ c \in Names
    BY <1>0, <1>7
  <2>3. /\ path' \in [anchored : BOOLEAN, ok : BOOLEAN, stack : Seq(Names)]
        /\ path'.anchored = path.anchored /\ path'.ok = path.ok /\ path'.stack = at
    BY <1>0, <1>7, <2>1, <2>2 DEF PathInv
  <2>4. ~path.anchored => StartsWith(at, Root)
    BY <1>0, <1>7, <2>1, <2>2, PrefixKept DEF PathInv
  <2> HIDE DEF at
  <2> QED
    BY <1>4, <1>7, <2>3, <2>4 DEF PathInv, PathTypes
<1>8. CASE path.ok /\ c = ".." /\ Len(path.stack) <= Len(Root)
  <2>1. path' = [path EXCEPT !.ok = FALSE]
    BY <1>1, <1>8 DEF Walked
  <2>2. /\ path' \in [anchored : BOOLEAN, ok : BOOLEAN, stack : Seq(Names)]
        /\ path'.anchored = path.anchored /\ path'.ok = FALSE
    BY <1>0, <2>1
  <2>3. ASSUME ~path.anchored, Root # <<>> PROVE ~StartsWith(at, Root)
    <3>1. Len(path.stack) = Len(Root) /\ trail.at = path.stack
      BY <1>0, <1>8, <2>3 DEF PathInv, StartsWith
    <3>2. Len(Root) > 0 /\ trail.at # <<>>
      BY <1>0, <2>3, <3>1, EmptySeq
    <3>3. at = SubSeq(trail.at, 1, Len(trail.at) - 1)
      BY <1>8, <3>2 DEF Onward
    <3>4. Len(at) = Len(Root) - 1
      BY <1>0, <3>1, <3>2, <3>3
    <3> QED
      BY <1>0, <3>4 DEF StartsWith
  <2> HIDE DEF at
  <2> QED
    BY <1>4, <2>2, <2>3 DEF PathInv, PathTypes
<1>9. CASE path.ok /\ c = ".." /\ ~(Len(path.stack) <= Len(Root))
  <2>1. path' = [path EXCEPT !.stack = SubSeq(path.stack, 1, Len(path.stack) - 1)]
    BY <1>0, <1>1, <1>9 DEF Walked
  <2>2. trail.at = path.stack /\ path.stack # <<>>
    BY <1>0, <1>9, EmptySeq DEF PathInv
  <2>3. at = SubSeq(path.stack, 1, Len(path.stack) - 1)
    BY <1>9, <2>2 DEF Onward
  <2>4. /\ path' \in [anchored : BOOLEAN, ok : BOOLEAN, stack : Seq(Names)]
        /\ path'.anchored = path.anchored /\ path'.ok = path.ok /\ path'.stack = at
    <3> HIDE DEF at
    <3> QED
      BY <1>0, <1>2, <2>1, <2>3
  <2>5. ~path.anchored => StartsWith(at, Root)
    <3>1. Len(Root) < Len(path.stack)
      BY <1>0, <1>9
    <3>2. ~path.anchored => StartsWith(path.stack, Root)
      BY <1>9 DEF PathInv
    <3> QED
      BY <1>0, <2>3, <3>1, <3>2, PrefixKept
  <2> HIDE DEF at
  <2> QED
    BY <1>4, <1>9, <2>4, <2>5 DEF PathInv, PathTypes
<1> QED
  BY <1>5, <1>6, <1>7, <1>8, <1>9

(* Whatever the settings: a read-only server is asked for no tool with a   *)
(* writing name, and for what nobody vouches for only where the operator   *)
(* said so.                                                                *)
LEMMA ReadOnlyKnown ==
    ASSUME ask \in Asks(Arguments)
    PROVE  ReadOnlyHolds
<1> DEFINE allowed == scope_mcp_spec_to_allowlist(ask.allowed, ask.global)
<1>1. allowed # {} /\ ask.tool \in allowed => ask.tool \in ask.allowed \cup ask.global
  BY DEF scope_mcp_spec_to_allowlist
<1>2. ask.posture \in Postures /\ ask.source \in Sources
  BY DEF Asks
<1>3. ASSUME resolve_mcp_read_only_posture(ask.source, ask.posture, ask.consent)
                = "legacy_denylist"
      PROVE  ask.posture = "legacy_denylist" /\ (ask.source # "project" \/ ask.consent)
  BY <1>3 DEF resolve_mcp_read_only_posture
<1> HIDE DEF allowed
<1> QED
  BY <1>1, <1>3 DEF ReadOnlyHolds, Admitted, read_only_admits, tool_has_read_only_evidence,
                    allowed

(* An allowlist binds, unless its intersection with the other is empty.    *)
LEMMA AllowlistsBind ==
    ASSUME ask \in Asks(Arguments)
    PROVE  AllowlistHolds
<1> DEFINE allowed == scope_mcp_spec_to_allowlist(ask.allowed, ask.global)
<1>1. Admitted(ask, path) => (allowed # {} => ask.tool \in allowed)
  BY DEF Admitted
<1>2. CASE ask.allowed = {} \/ ask.global = {}
  BY <1>1, <1>2 DEF AllowlistHolds, scope_mcp_spec_to_allowlist
<1>3. CASE ask.allowed # {} /\ ask.global # {}
  <2>1. allowed = ask.allowed \cap ask.global
    BY <1>3 DEF scope_mcp_spec_to_allowlist
  <2> HIDE DEF allowed
  <2> QED
    BY <1>1, <1>3, <2>1 DEF AllowlistHolds
<1> QED
  BY <1>2, <1>3

(***************************************************************************)
(* For every project root, every set of tools and settings and a path of   *)
(* any number of components: an admitted call's path leads into the root   *)
(* and, if it is relative, never left it; a relative path that stays       *)
(* inside is not refused; a read-only server gets no call of a tool with a *)
(* writing name, nor of one without evidence; and the allowlists bind as   *)
(* far as AllowlistHolds says (mcp.rs path_is_within_root,                 *)
(* enforce_argument_policy, call_tool, scope_mcp_spec_to_allowlist).       *)
(***************************************************************************)
THEOREM CallsStayConfined ==
    ask \in Asks(Arguments) /\ [][FALSE]_ask /\ PathInit /\ [][PathNext]_pathVars
        => []CallsConfined
<1>1. PathInit => PathInv
  <2> SUFFICES ASSUME PathInit PROVE PathInv
    OBVIOUS
  <2>1. PICK anchored \in BOOLEAN :
            LET start == IF anchored THEN <<>> ELSE Root
            IN  /\ path = [anchored |-> anchored, ok |-> TRUE, stack |-> start]
                /\ trail = [at |-> start, length |-> 0, inside |-> StartsWith(start, Root)]
    BY DEF PathInit
  <2>2. PICK start \in Seq(Names) : start = IF anchored THEN <<>> ELSE Root
    <3>1. Root \in Seq(Names) /\ <<>> \in Seq(Names)
      BY PolicyAssumption
    <3> QED
      BY <3>1
  <2>3. StartsWith(start, Root) \in BOOLEAN /\ (~anchored => StartsWith(start, Root))
    BY <2>2, PolicyAssumption DEF StartsWith
  <2>4. /\ path = [anchored |-> anchored, ok |-> TRUE, stack |-> start]
        /\ trail = [at |-> start, length |-> 0, inside |-> StartsWith(start, Root)]
    BY <2>1, <2>2
  <2> QED
    BY <2>3, <2>4 DEF PathInv, PathTypes
<1>2. PathInv /\ [PathNext]_pathVars => PathInv'
  <2>1. PathInv /\ UNCHANGED pathVars => PathInv'
    BY DEF pathVars, PathInv, PathTypes
  <2> QED
    BY <2>1, WalkKeeps DEF PathNext
<1>3. ask \in Asks(Arguments) /\ [FALSE]_ask => (ask \in Asks(Arguments))'
  OBVIOUS
<1>4. PathInv /\ ask \in Asks(Arguments) => CallsConfined
  <2> SUFFICES ASSUME PathInv, ask \in Asks(Arguments) PROVE CallsConfined
    OBVIOUS
  <2>1. PathStaysInside
    BY DEF PathStaysInside, Admitted, enforce_argument_policy, path_is_within_root, PathInv
  <2>2. InsidePathAccepted
    BY DEF InsidePathAccepted, path_is_within_root, PathInv
  <2> QED
    BY <2>1, <2>2, ReadOnlyKnown, AllowlistsBind DEF CallsConfined
<1> QED
  BY <1>1, <1>2, <1>3, <1>4, PTL

=============================================================================
