----------------------------- MODULE HomeProofs -----------------------------
(***************************************************************************)
(* Proofs about what Nerve keeps below .nerve/ beside its run reports: the *)
(* mailbox, the session tree and the budget log.  They share no state, and *)
(* each has an inductive invariant of its own.                             *)
(***************************************************************************)
EXTENDS Mailbox, SessionFork, BudgetAudit, WellFoundedInduction,
        SequenceTheorems, TLAPS

-----------------------------------------------------------------------------
(***************************************************************************)
(* The mailbox                                                             *)
(***************************************************************************)

(* Append adds its element to the range of a sequence. *)
LEMMA AppendRange ==
    ASSUME NEW S, NEW s \in Seq(S), NEW x \in S
    PROVE  Append(s, x) \in Seq(S) /\ Range(Append(s, x)) = Range(s) \cup {x}
<1> DEFINE a == Append(s, x)
<1>1. /\ a \in Seq(S) /\ DOMAIN a = 1..(Len(s) + 1)
      /\ DOMAIN s = 1..Len(s) /\ Len(s) \in Nat
  OBVIOUS
<1>2. a[Len(s) + 1] = x /\ \A i \in 1..Len(s) : a[i] = s[i]
  OBVIOUS
<1>3. \A i \in 1..(Len(s) + 1) : i \in 1..Len(s) \/ i = Len(s) + 1
  BY <1>1
<1> HIDE DEF a
<1>4. Range(a) = Range(s) \cup {x}
  BY <1>1, <1>2, <1>3 DEF Range
<1> QED
  BY <1>1, <1>4 DEF a

(* A drain is a record whose list may be any sequence: the sort of the     *)
(* names is left to the library.                                           *)
DrainShape ==
    /\ DOMAIN drain = Drainers
    /\ \A d \in Drainers : /\ DOMAIN drain[d] = {"at", "todo", "out"}
                           /\ drain[d].out \in Seq(Mails)
                           /\ drain[d].at = "idle" => drain[d].out = <<>>

(* A drainer that is about to remove a file has a mail of that name among  *)
(* those it will return, and the file holds one of them or one that came   *)
(* behind it.                                                              *)
Holds(d) ==
    drain[d].at = "remove" =>
        \A i \in MailIds : i = Head(drain[d].todo) =>
           /\ \E n \in Range(drain[d].out) : NameOf[n] = i
           /\ inbox[i] \in Mails => inbox[i] \in Range(drain[d].out) \cup behind

(* A file holds a mail of its name, and nothing sent is out of reach.      *)
MailInv ==
    /\ DrainShape
    /\ sentMail \in Seq(Mails)
    /\ inbox \in [MailIds -> Mails \cup {NoMail, Malformed}]
    /\ \A i \in MailIds : inbox[i] \in Mails => NameOf[inbox[i]] = i
    /\ \A d \in Drainers : Holds(d)
    /\ MailNotLost

(* A drainer that a step does not touch holds what it held.                *)
LEMMA HoldsKept ==
    ASSUME NEW e, Holds(e), drain'[e] = drain[e], behind \subseteq behind',
           \A i \in MailIds : inbox'[i] = inbox[i] \/ inbox'[i] \notin Mails
    PROVE  Holds(e)'
BY DEF Holds

(* A step that sends nothing keeps what is sent within reach if it keeps   *)
(* what is reachable, but for mails that came behind a drainer, of whose   *)
(* name another one is reachable.                                          *)
LEMMA SentKept ==
    ASSUME MailNotLost, sentMail \in Seq(Mails),
           UNCHANGED sentMail, behind \subseteq behind',
           \A m \in Mails : Reachable(m) =>
              \/ Reachable(m)'
              \/ /\ m \in behind'
                 /\ \E n \in Mails : NameOf[n] = NameOf[m] /\ Reachable(n)'
    PROVE  MailNotLost'
<1> SUFFICES ASSUME Enabled, NEW k \in DOMAIN sentMail
             PROVE  /\ \/ Reachable(sentMail[k])'
                       \/ sentMail[k] \in behind'
                       \/ \E j \in DOMAIN sentMail :
                             k < j /\ NameOf[sentMail[j]] = NameOf[sentMail[k]]
                    /\ \E m \in Mails : /\ NameOf[m] = NameOf[sentMail[k]]
                                         /\ Reachable(m)'
  BY DEF MailNotLost
<1>1. sentMail[k] \in Mails
  OBVIOUS
<1>2. PICK m \in Mails : NameOf[m] = NameOf[sentMail[k]] /\ Reachable(m)
  BY DEF MailNotLost
<1>3. \E n \in Mails : NameOf[n] = NameOf[sentMail[k]] /\ Reachable(n)'
  BY <1>2
<1> QED
  BY <1>1, <1>3 DEF MailNotLost

(* Every step keeps what was sent within reach. *)
LEMMA MailInvNext == MailInv /\ [MailNext]_mailVars => MailInv'
<1> SUFFICES ASSUME MailInv, [MailNext]_mailVars PROVE MailInv'
  OBVIOUS
<1> USE DEF MailInv, DrainShape
<1>0. Range(<<>>) = {} /\ \A m \in Mails : NameOf[m] \in MailIds
  BY DEF Range, MailIds
<1>1. ASSUME NEW m \in Mails, send_mail(m) PROVE MailInv'
  <2>1. /\ sentMail' \in Seq(Mails)
        /\ DOMAIN sentMail' = DOMAIN sentMail \cup {Len(sentMail) + 1}
        /\ \A k \in DOMAIN sentMail : sentMail'[k] = sentMail[k]
        /\ \A k \in DOMAIN sentMail : k < Len(sentMail) + 1
        /\ sentMail'[Len(sentMail) + 1] = m
    BY <1>1 DEF send_mail
  <2>2. /\ \A i \in MailIds \ {NameOf[m]} : inbox'[i] = inbox[i]
        /\ Enabled => inbox'[NameOf[m]] = m
        /\ ~Enabled => inbox' = inbox
        /\ inbox' \in [MailIds -> Mails \cup {NoMail, Malformed}]
        /\ UNCHANGED <<drain, returned, lostMail>>
        /\ behind \subseteq behind'
        /\ BeingRemoved(NameOf[m]) => m \in behind'
    BY <1>0, <1>1 DEF send_mail
  <2>3. Enabled => Reachable(m)'
    BY <2>2 DEF Reachable
  <2>4. \A n \in Mails : Reachable(n) /\ NameOf[n] # NameOf[m] => Reachable(n)'
    BY <1>0, <2>2 DEF Reachable
  <2>5. MailNotLost'
    <3> SUFFICES ASSUME Enabled, NEW k \in DOMAIN sentMail'
                 PROVE  /\ \/ Reachable(sentMail[k])'
                           \/ sentMail'[k] \in behind'
                           \/ \E j \in DOMAIN sentMail' :
                                 /\ k < j
                                 /\ NameOf[sentMail'[j]] = NameOf[sentMail'[k]]
                        /\ \E n \in Mails : /\ NameOf[n] = NameOf[sentMail'[k]]
                                             /\ Reachable(n)'
      BY DEF MailNotLost
    <3>1. CASE k = Len(sentMail) + 1
      BY <2>1, <2>3, <3>1
    <3>2. CASE k \in DOMAIN sentMail /\ NameOf[sentMail[k]] = NameOf[m]
      BY <2>1, <2>3, <3>2
    <3>3. CASE k \in DOMAIN sentMail /\ NameOf[sentMail[k]] # NameOf[m]
      <4>1. sentMail[k] \in Mails /\ sentMail'[k] = sentMail[k]
        BY <2>1, <3>3
      <4>2. PICK n \in Mails : NameOf[n] = NameOf[sentMail[k]] /\ Reachable(n)
        BY <3>3 DEF MailNotLost
      <4>3. \/ Reachable(sentMail[k])
            \/ sentMail[k] \in behind
            \/ \E j \in DOMAIN sentMail :
                  k < j /\ NameOf[sentMail[j]] = NameOf[sentMail[k]]
        BY <3>3 DEF MailNotLost
      <4>4. Reachable(sentMail[k]) => Reachable(sentMail[k])'
        <5>1. \A x : x = sentMail[k] /\ Reachable(x) => Reachable(x)'
          BY <2>4, <3>3, <4>1
        <5> QED
          BY <4>1, <5>1 DEF Reachable
      <4>5. \E x \in Mails : /\ NameOf[x] = NameOf[sentMail'[k]]
                             /\ Reachable(x)'
        BY <2>4, <3>3, <4>1, <4>2
      <4>6. \A j \in DOMAIN sentMail :
               j \in DOMAIN sentMail' /\ sentMail'[j] = sentMail[j]
        BY <2>1
      <4> QED
        BY <2>2, <4>1, <4>3, <4>4, <4>5, <4>6
    <3> QED
      BY <2>1, <3>1, <3>2, <3>3
  <2>6. \A i \in MailIds : inbox'[i] \in Mails => NameOf[inbox'[i]] = i
    BY <1>0, <2>2, MailAssumption
  <2>7. ASSUME NEW d \in Drainers PROVE Holds(d)'
    BY <2>2 DEF BeingRemoved, Holds
  <2> QED
    BY <2>1, <2>2, <2>5, <2>6, <2>7
<1>2. ASSUME NEW d \in Drainers, ListInbox(d) PROVE MailInv'
  <2>1. /\ \A e \in Drainers \ {d} : drain'[e] = drain[e]
        /\ drain'[d].at = "read" /\ drain'[d].out = <<>>
        /\ drain[d].out = <<>>
        /\ UNCHANGED <<inbox, sentMail, returned, lostMail, behind>>
        /\ DrainShape'
    BY <1>2 DEF ListInbox, MailIdle
  <2>2. \A m \in Mails : Reachable(m) => Reachable(m)'
    BY <2>1 DEF Reachable
  <2>3. MailNotLost'
    BY <2>1, <2>2, SentKept
  <2>4. ASSUME NEW e \in Drainers PROVE Holds(e)'
    <3>1. CASE e = d
      BY <2>1, <3>1 DEF Holds
    <3> QED
      BY <2>1, <3>1, HoldsKept
  <2> QED
    BY <2>1, <2>3, <2>4
<1>3. ASSUME NEW d \in Drainers, ReadMail(d) PROVE MailInv'
  <2> DEFINE found == inbox[Head(drain[d].todo)]
  <2>0. UNCHANGED <<inbox, sentMail, returned, lostMail, behind>>
    BY <1>3 DEF ReadMail
  <2>1. CASE found \in Mails
    <3>1. /\ \A e \in Drainers \ {d} : drain'[e] = drain[e]
          /\ drain'[d].at = "remove" /\ drain'[d].todo = drain[d].todo
          /\ drain'[d].out = Append(drain[d].out, found)
          /\ DOMAIN drain' = Drainers
          /\ DOMAIN drain'[d] = {"at", "todo", "out"}
      BY <1>3, <2>1 DEF ReadMail
    <3>2. /\ drain'[d].out \in Seq(Mails)
          /\ Range(drain'[d].out) = Range(drain[d].out) \cup {found}
      BY <2>1, <3>1, AppendRange
    <3>3. DrainShape'
      BY <3>1, <3>2
    <3>4. \A i \in MailIds : i = Head(drain[d].todo) => NameOf[found] = i
      BY <2>1
    <3>5. \A m \in Mails : Reachable(m) => Reachable(m)'
      BY <2>0, <3>1, <3>2 DEF Reachable
    <3>6. MailNotLost'
      BY <2>0, <3>5, SentKept
    <3>7. ASSUME NEW e \in Drainers PROVE Holds(e)'
      <4>1. CASE e = d
        BY <2>0, <3>1, <3>2, <3>4, <4>1 DEF Holds
      <4> QED
        BY <2>0, <3>1, <4>1, HoldsKept
    <3> QED
      BY <2>0, <3>3, <3>6, <3>7
  <2>2. CASE found \notin Mails
    <3>1. /\ \A e \in Drainers \ {d} : drain'[e] = drain[e]
          /\ drain'[d].at = "read" /\ drain'[d].out = drain[d].out
          /\ DrainShape'
      BY <1>3, <2>2 DEF ReadMail
    <3>2. \A m \in Mails : Reachable(m) => Reachable(m)'
      BY <2>0, <3>1 DEF Reachable
    <3>3. MailNotLost'
      BY <2>0, <3>2, SentKept
    <3>4. ASSUME NEW e \in Drainers PROVE Holds(e)'
      <4>1. CASE e = d
        BY <3>1, <4>1 DEF Holds
      <4> QED
        BY <2>0, <3>1, <4>1, HoldsKept
    <3> QED
      BY <2>0, <3>1, <3>3, <3>4
  <2> QED
    BY <2>1, <2>2
<1>4. ASSUME NEW d \in Drainers, RemoveMail(d) PROVE MailInv'
  <2> DEFINE h == Head(drain[d].todo)
  <2>1. /\ \A e \in Drainers \ {d} : drain'[e] = drain[e]
        /\ drain[d].at = "remove" /\ drain'[d].at = "read"
        /\ drain'[d].out = drain[d].out
        /\ DrainShape'
        /\ UNCHANGED <<sentMail, returned, lostMail, behind>>
    BY <1>4 DEF RemoveMail, Visited
  <2>2. /\ inbox' \in [MailIds -> Mails \cup {NoMail, Malformed}]
        /\ \A i \in MailIds : inbox'[i] = inbox[i] \/ (i = h /\ inbox'[i] = NoMail)
    BY <1>4 DEF RemoveMail
  <2>3. \A m \in Mails : Reachable(m) =>
           \/ Reachable(m)'
           \/ /\ m \in behind'
              /\ \E n \in Mails : NameOf[n] = NameOf[m] /\ Reachable(n)'
    <3> SUFFICES ASSUME NEW m \in Mails, Reachable(m), ~Reachable(m)'
                 PROVE  /\ m \in behind'
                        /\ \E n \in Mails : NameOf[n] = NameOf[m] /\ Reachable(n)'
      OBVIOUS
    <3>1. /\ m \notin returned \cup lostMail
          /\ \A e \in Drainers : m \notin Range(drain[e].out)
      BY <2>1 DEF Reachable
    <3>2. inbox[NameOf[m]] = m /\ inbox'[NameOf[m]] # m
      BY <3>1 DEF Reachable
    <3>3. NameOf[m] \in MailIds /\ NameOf[m] = h
      BY <1>0, <2>2, <3>2
    <3>4. m \in behind
      BY <2>1, <3>1, <3>2, <3>3 DEF Holds
    <3>5. PICK n \in Range(drain[d].out) : NameOf[n] = NameOf[m]
      BY <2>1, <3>3 DEF Holds
    <3>6. n \in Mails /\ Reachable(n)'
      <4>1. Range(drain[d].out) \subseteq Mails
        BY DEF Range
      <4>2. n \in Range(drain'[d].out)
        BY <2>1
      <4> QED
        BY <4>1, <4>2 DEF Reachable
    <3> QED
      BY <2>1, <3>4, <3>5, <3>6
  <2>4. MailNotLost'
    BY <2>1, <2>3, SentKept
  <2>5. \A i \in MailIds : inbox'[i] \in Mails => NameOf[inbox'[i]] = i
    BY <2>2, MailAssumption
  <2>6. ASSUME NEW e \in Drainers PROVE Holds(e)'
    <3>1. CASE e = d
      BY <2>1, <3>1 DEF Holds
    <3>2. \A i \in MailIds : inbox'[i] = inbox[i] \/ inbox'[i] \notin Mails
      BY <2>2, MailAssumption
    <3> QED
      BY <2>1, <3>1, <3>2, HoldsKept
  <2> QED
    BY <2>1, <2>2, <2>4, <2>5, <2>6
<1>5. ASSUME NEW d \in Drainers, ReturnMails(d) \/ KillDrainer(d)
      PROVE  MailInv'
  <2>1. /\ drain' = [drain EXCEPT ![d] = MailIdle]
        /\ Range(drain[d].out) \cup returned \cup lostMail
              \subseteq returned' \cup lostMail'
        /\ UNCHANGED <<inbox, sentMail, behind>>
    BY <1>5 DEF ReturnMails, KillDrainer
  <2>2. /\ \A e \in Drainers \ {d} : drain'[e] = drain[e]
        /\ drain'[d].at = "idle" /\ drain'[d].out = <<>>
        /\ DrainShape'
    BY <2>1 DEF MailIdle
  <2>3. \A m \in Mails : Reachable(m) => Reachable(m)'
    BY <2>1, <2>2 DEF Reachable
  <2>4. MailNotLost'
    BY <2>1, <2>3, SentKept
  <2>5. ASSUME NEW e \in Drainers PROVE Holds(e)'
    <3>1. CASE e = d
      BY <2>2, <3>1 DEF Holds
    <3> QED
      BY <2>1, <2>2, <3>1, HoldsKept
  <2> QED
    BY <2>1, <2>2, <2>4, <2>5
<1>6. CASE UNCHANGED mailVars
  <2>1. UNCHANGED <<inbox, sentMail, drain, returned, lostMail, behind>>
    BY <1>6 DEF mailVars
  <2>2. \A m \in Mails : Reachable(m) => Reachable(m)'
    BY <2>1 DEF Reachable
  <2>3. MailNotLost'
    BY <2>1, <2>2, SentKept
  <2>4. ASSUME NEW e \in Drainers PROVE Holds(e)'
    BY <2>1, HoldsKept
  <2> QED
    BY <2>1, <2>3, <2>4
<1> QED
  BY <1>1, <1>2, <1>3, <1>4, <1>5, <1>6 DEF MailNext

(* No interleaving of senders and drainers and no kill makes a mail        *)
(* disappear unread whose id does not come again; of the mails of one id   *)
(* at least one was read or will be.                                       *)
THEOREM MailReachesSomebody == MailSpec => []MailNotLost
<1>1. MailInit => MailInv
  <2>1. Range(<<>>) = {}
    BY DEF Range
  <2> SUFFICES ASSUME MailInit PROVE MailInv
    OBVIOUS
  <2>2. DrainShape /\ \A d \in Drainers : drain[d].at = "idle"
    <3>1. DOMAIN drain = Drainers /\ \A d \in Drainers : drain[d] = MailIdle
      BY DEF MailInit
    <3>2. /\ MailIdle.at = "idle" /\ MailIdle.out = <<>>
          /\ DOMAIN MailIdle = {"at", "todo", "out"}
      BY DEF MailIdle
    <3>3. \A d \in Drainers : /\ drain[d].at = "idle" /\ drain[d].out = <<>>
                              /\ DOMAIN drain[d] = {"at", "todo", "out"}
      BY <3>1, <3>2
    <3>4. \A d \in Drainers : drain[d].out \in Seq(Mails)
      <4>1. <<>> \in Seq(Mails)
        OBVIOUS
      <4> QED
        BY <3>3, <4>1, Zenon
    <3> QED
      BY <3>1, <3>3, <3>4, Zenon DEF DrainShape
  <2>3. MailNotLost
    BY DEF MailInit, MailNotLost
  <2> QED
    BY <2>2, <2>3, MailAssumption DEF MailInit, MailInv, Holds
<1>2. MailInv => MailNotLost
  BY DEF MailInv
<1> QED
  BY <1>1, <1>2, MailInvNext, PTL DEF MailSpec

-----------------------------------------------------------------------------
(***************************************************************************)
(* The session tree                                                        *)
(***************************************************************************)
(* The steps of a process, those under the lock, and those between the     *)
(* parent that was resolved and the index.                                 *)
ForkSteps == {"rest", "rootLock", "forkLock", "rootPayload", "rootIndex",
              "resolve", "child", "parent", "index"}
Locked == {"rootPayload", "rootIndex", "resolve", "child", "parent", "index"}
Writing == {"child", "parent", "index"}

(* Payloads, the index and the local state of a process. *)
Trees == [present : BOOLEAN, parent : Ids \cup {NoId}, children : SUBSET Ids,
          rounds : Seq(Nat), at : Nat]
Entries == [Ids -> [known : BOOLEAN, parent : Ids \cup {NoId}]]
Calls == [step : ForkSteps, id : Ids \cup {NoId}, from : Nat,
          child : Ids \cup {NoId}, tree : Trees, parent : Trees,
          seen : Entries]

ForkTypes ==
    /\ payload \in [Ids \X Ids -> Trees]
    /\ entries \in Entries
    /\ call \in [ForkProcs -> Calls]
    /\ granted \subseteq Minted

(* Where the payload of a session the index knows lies. *)
File(i) == <<Bucket(entries[i], i), i>>

(* What ChildHistoryIsPrefix says of a child's payload, given the rounds   *)
(* of its parent.                                                          *)
Descends(t, r) ==
    /\ IsPrefix(t.rounds, r)
    /\ Len(t.rounds) <= MaxCopied
    /\ \A k \in DOMAIN t.rounds : t.rounds[k] <= t.at

(* Two versions of a payload that differ in their children at most. *)
SameHistory(t, u) ==
    /\ t.present = u.present /\ t.parent = u.parent
    /\ t.rounds = u.rounds /\ t.at = u.at

(* A payload in a session's own bucket is that of a root, and its rounds   *)
(* are those of the stored report, however often it was registered.        *)
RootsSound ==
    \A i \in Ids : payload[<<i, i>>].present =>
        /\ i \in Reports
        /\ payload[<<i, i>>].parent = NoId
        /\ payload[<<i, i>>].rounds = RoundsOf[i]
        /\ payload[<<i, i>>].at = 0

(* An entry of the index has its payload, and the parent of a child has    *)
(* its own; the child's history is a beginning of the parent's.            *)
Indexed(i) ==
    /\ i \in Reports <=> entries[i].parent = NoId
    /\ payload[File(i)].present
    /\ payload[File(i)].parent = entries[i].parent
    /\ entries[i].parent # NoId =>
          /\ entries[i].parent # i
          /\ entries[entries[i].parent].known
          /\ Descends(payload[File(i)],
                      payload[File(entries[i].parent)].rounds)

IndexSound == \A i \in Ids : entries[i].known => Indexed(i)

(* A process between the lock and the index: it is alone, what it read is  *)
(* still so, and what it will put in the index is on disk.                 *)
CallSound(p) ==
    /\ call[p].step # "rest" => call[p].id \in Ids
    /\ call[p].step \in {"rootLock", "rootPayload", "rootIndex"}
          => call[p].id \in Reports
    /\ call[p].step \in Locked => flock = p
    /\ call[p].step \in {"rootIndex"} \cup Writing => call[p].seen = entries
    /\ call[p].step = "rootIndex"
          => payload[<<call[p].id, call[p].id>>].present
    /\ call[p].step \in Writing =>
          /\ entries[call[p].id].known
          /\ call[p].child \in Minted /\ ~entries[call[p].child].known
          /\ call[p].tree.present /\ call[p].tree.parent = call[p].id
          /\ SameHistory(call[p].parent, payload[File(call[p].id)])
          /\ Descends(call[p].tree, payload[File(call[p].id)].rounds)
    /\ call[p].step \in {"parent", "index"}
          => payload[<<call[p].id, call[p].child>>] = call[p].tree

ForkInv ==
    /\ ForkTypes /\ RootsSound /\ IndexSound
    /\ \A p \in ForkProcs : CallSound(p)
    /\ \A c \in granted : entries[c].known

-----------------------------------------------------------------------------
(* A set of natural numbers that is not empty has a least element. *)
LEMMA LeastElement ==
    ASSUME NEW T \in SUBSET Nat, T # {}
    PROVE  \E x \in T : \A y \in T : x <= y
<1>1. PICK x \in T : \A y \in T : ~ (<<y, x>> \in OpToRel(<, Nat))
  BY NatLessThanWellFounded, WFMin DEF OpToRel
<1>2. \A y \in T : y \in Nat /\ x \in Nat
  OBVIOUS
<1>3. \A y \in T : ~(y < x)
  BY <1>1, <1>2 DEF OpToRel
<1> QED
  BY <1>2, <1>3

(* The rounds a child takes over are a beginning of its parent's, no more  *)
(* than the ceiling allows and none after the branch point.                *)
LEMMA CopiedDescend ==
    ASSUME NEW r \in Seq(Nat), NEW at \in Nat
    PROVE  LET c == CopiedRounds(r, at) IN
           /\ c \in Seq(Nat) /\ IsPrefix(c, r) /\ Len(c) <= MaxCopied
           /\ \A k \in DOMAIN c : c[k] <= at
<1> DEFINE past == {i \in DOMAIN r : r[i] > at}
           first == CHOOSE i \in past : \A j \in past : i <= j
           upTo == IF past = {} THEN Len(r) ELSE first - 1
           n == IF upTo < MaxCopied THEN upTo ELSE MaxCopied
           c == SubSeq(r, 1, n)
<1>0. DOMAIN r = 1..Len(r) /\ Len(r) \in Nat /\ MaxCopied \in Nat
  BY ForkAssumption
<1>1. past \subseteq Nat
  BY <1>0
<1>2. past # {} => first \in past /\ \A j \in past : first <= j
  BY <1>1, LeastElement
<1>3. upTo \in 0..Len(r)
  BY <1>0, <1>2
<1>4. \A k \in 1..upTo : k \notin past
  <2> SUFFICES ASSUME NEW k \in 1..upTo, k \in past PROVE FALSE
    OBVIOUS
  <2> QED
    BY <1>0, <1>1, <1>2
<1> HIDE DEF upTo, first
<1>5. /\ n \in 0..Len(r) /\ n <= MaxCopied
      /\ \A k \in 1..n : r[k] \in Nat /\ r[k] <= at
  <2>1. n \in 0..Len(r) /\ n <= MaxCopied /\ n <= upTo
    BY <1>0, <1>3
  <2>2. \A k \in 1..n : k \in 1..upTo /\ k \in DOMAIN r
    BY <1>0, <1>3, <2>1
  <2> QED
    BY <1>0, <1>4, <2>1, <2>2
<1> HIDE DEF n
<1>6. /\ c \in Seq(Nat) /\ Len(c) = n
      /\ \A k \in 1..n : c[k] = r[k]
  <2>1. /\ c \in Seq(Nat) /\ Len(c) = IF 1 <= n THEN n-1+1 ELSE 0
        /\ \A i \in 1 .. n-1+1 : c[i] = r[1+i-1]
    BY <1>0, <1>5, SubSeqProperties
  <2> QED
    BY <1>5, <2>1
<1>7. SubSeq(c, 1, Len(c)) = c
  BY <1>6, SubSeqFull
<1>8. IsPrefix(c, r)
  BY <1>0, <1>5, <1>6, <1>7 DEF IsPrefix
<1>9. DOMAIN c = 1..n
  BY <1>5, <1>6
<1>10. CopiedRounds(r, at) = c
  BY DEF CopiedRounds, n, upTo, first
<1> QED
  BY <1>5, <1>6, <1>8, <1>9, <1>10

(* So a child descends from its parent, with its history or without. *)
LEMMA ChildDescends ==
    ASSUME NEW r \in Seq(Nat), NEW at \in Nat, NEW copy \in BOOLEAN, NEW t,
           t.rounds = (IF copy THEN CopiedRounds(r, at) ELSE <<>>), t.at = at
    PROVE  t.rounds \in Seq(Nat) /\ Descends(t, r)
<1>1. CASE copy
  BY <1>1, CopiedDescend DEF Descends
<1>2. CASE ~copy
  <2>1. t.rounds = <<>> /\ Len(<<>>) = 0 /\ <<>> \in Seq(Nat) /\ DOMAIN <<>> = {}
    BY <1>2
  <2>2. SubSeq(<<>>, 1, 0) = <<>> /\ SubSeq(r, 1, 0) = <<>>
    BY <2>1, SubSeqEmpty
  <2>3. 0 <= Len(r) /\ 0 <= MaxCopied
    BY ForkAssumption
  <2>4. IsPrefix(t.rounds, r)
    BY <2>1, <2>2, <2>3 DEF IsPrefix
  <2> QED
    BY <2>1, <2>3, <2>4 DEF Descends
<1> QED
  BY <1>1, <1>2

-----------------------------------------------------------------------------
(* Only the history of a payload counts for what descends from it. *)
LEMMA HistoryCounts ==
    ASSUME NEW t, NEW u, NEW r, SameHistory(t, u), Descends(u, r)
    PROVE  Descends(t, r)
BY DEF SameHistory, Descends

(* A session the index knows is loaded from its file; one it does not      *)
(* know is a root that is being registered, or nothing.                    *)
LEMMA LoadsItsFile ==
    ASSUME ForkInv, NEW i \in Ids
    PROVE  /\ entries[i].known => LoadPayload(i) = payload[File(i)]
           /\ ~entries[i].known => LoadPayload(i).parent = NoId
<1>1. CASE payload[<<i, i>>].present
  <2>1. i \in Reports /\ payload[<<i, i>>].parent = NoId
    BY <1>1 DEF ForkInv, RootsSound
  <2>2. entries[i].known => Bucket(entries[i], i) = i
    BY <2>1 DEF ForkInv, IndexSound, Indexed, Bucket
  <2> QED
    BY <1>1, <2>1, <2>2 DEF LoadPayload, File
<1>2. CASE ~payload[<<i, i>>].present
  BY <1>2 DEF LoadPayload, File, NoFile
<1> QED
  BY <1>1, <1>2

(* The file of a session that is known is in the table of payloads. *)
LEMMA FileTyped ==
    ASSUME ForkInv, NEW i \in Ids
    PROVE  /\ File(i) \in Ids \X Ids /\ File(i)[2] = i
           /\ payload[File(i)] \in Trees
           /\ LoadPayload(i) \in Trees
<1>1. entries[i] \in [known : BOOLEAN, parent : Ids \cup {NoId}]
  BY DEF ForkInv, ForkTypes, Entries
<1>2. Bucket(entries[i], i) \in Ids
  BY <1>1 DEF Bucket
<1>3. File(i) \in Ids \X Ids /\ File(i)[2] = i /\ <<i, i>> \in Ids \X Ids
  BY <1>2 DEF File
<1>4. payload[File(i)] \in Trees /\ payload[<<i, i>>] \in Trees
  BY <1>3 DEF ForkInv, ForkTypes
<1>5. NoFile \in Trees
  BY DEF NoFile, Trees
<1> QED
  BY <1>3, <1>4, <1>5 DEF LoadPayload, File

(* Payloads may change where no known session has its file, and in the     *)
(* children they list.                                                     *)
LEMMA IndexKept ==
    ASSUME ForkInv, entries' = entries,
           \A i \in Ids : entries[i].known
               => SameHistory(payload'[File(i)], payload[File(i)])
    PROVE  IndexSound'
<1>1. \A i : File(i)' = <<Bucket(entries[i], i), i>>
  BY DEF File, Bucket
<1>2. \A i : File(i)' = File(i)
  BY <1>1 DEF File
<1> SUFFICES ASSUME NEW i \in Ids, entries[i].known PROVE Indexed(i)'
  BY DEF IndexSound
<1>3. Indexed(i)
  BY DEF ForkInv, IndexSound
<1>4. SameHistory(payload'[File(i)], payload[File(i)])
  OBVIOUS
<1>5. ASSUME entries[i].parent # NoId
      PROVE  LET j == entries[i].parent IN
             /\ j # i /\ entries[j].known
             /\ payload'[File(j)].rounds = payload[File(j)].rounds
             /\ Descends(payload[File(i)], payload[File(j)].rounds)
  <2>1. entries[i].parent \in Ids
    BY <1>5 DEF ForkInv, ForkTypes, Entries
  <2> QED
    BY <1>3, <1>5, <2>1 DEF Indexed, SameHistory
<1>6. entries[i].parent # NoId =>
          Descends(payload'[File(i)], payload'[File(entries[i].parent)].rounds)
  BY <1>4, <1>5, HistoryCounts
<1> QED
  BY <1>2, <1>3, <1>4, <1>5, <1>6 DEF Indexed, SameHistory

(* A step of one process keeps the invariant if the process itself is      *)
(* sound afterwards and, unless it holds the lock, changes no file.        *)
LEMMA ForkInvFrom ==
    ASSUME ForkInv, NEW p \in ForkProcs,
           ForkTypes', RootsSound', IndexSound', CallSound(p)',
           \A c \in granted' : entries'[c].known,
           \A q \in ForkProcs \ {p} : call'[q] = call[q],
           \/ flock = p
           \/ /\ payload' = payload /\ entries' = entries
              /\ flock' = flock \/ flock = Unlocked
    PROVE  ForkInv'
<1> SUFFICES ASSUME NEW q \in ForkProcs \ {p} PROVE CallSound(q)'
  BY DEF ForkInv
<1>0. CallSound(q) /\ call'[q] = call[q] /\ q # Unlocked
  BY ForkAssumption DEF ForkInv
<1>1. CASE call[q].step \notin Locked
  BY <1>0, <1>1 DEF CallSound, Locked, Writing
<1>2. CASE call[q].step \in Locked
  <2>1. flock = q /\ payload' = payload /\ entries' = entries /\ flock' = flock
    BY <1>0, <1>2 DEF CallSound
  <2>2. \A i : File(i)' = File(i)
    BY <2>1 DEF File, Bucket
  <2> QED
    BY <1>0, <2>1, <2>2 DEF CallSound
<1> QED
  BY <1>1, <1>2

(* Most steps change no file. *)
LEMMA QuietFork ==
    ASSUME ForkInv, NEW p \in ForkProcs, call' \in [ForkProcs -> Calls],
           UNCHANGED <<payload, entries, granted>>,
           CallSound(p)', \A q \in ForkProcs \ {p} : call'[q] = call[q],
           flock = p \/ flock' = flock \/ flock = Unlocked
    PROVE  ForkInv'
<1>1. ForkTypes' /\ RootsSound'
  BY DEF ForkInv, ForkTypes, RootsSound
<1>2. IndexSound'
  <2>1. \A i \in Ids : SameHistory(payload'[File(i)], payload[File(i)])
    BY DEF SameHistory
  <2> QED
    BY <2>1, IndexKept
<1>3. \A c \in granted' : entries'[c].known
  BY DEF ForkInv
<1> QED
  BY <1>1, <1>2, <1>3, ForkInvFrom

-----------------------------------------------------------------------------
(* A process at rest is well typed and holds no lock. *)
LEMMA RestingTyped ==
    /\ Resting \in Calls /\ Resting.step = "rest" /\ NoFile \in Trees
    /\ "rest" \notin Locked /\ "rest" \notin Writing
<1>1. NoFile \in Trees
  BY DEF NoFile, Trees
<1>2. [i \in Ids |-> Unknown] \in Entries
  BY DEF Unknown, Entries
<1>3. "rest" \in ForkSteps /\ "rest" \notin Locked /\ "rest" \notin Writing
  BY DEF ForkSteps, Locked, Writing
<1> QED
  BY <1>1, <1>2, <1>3 DEF Resting, Calls

(* A process that comes to rest, giving up the lock if it had it. *)
LEMMA RestKeeps ==
    ASSUME ForkInv, NEW p \in ForkProcs, call' = [call EXCEPT ![p] = Resting],
           UNCHANGED <<payload, entries, granted>>,
           flock = p \/ flock' = flock
    PROVE  ForkInv'
<1>1. /\ call' \in [ForkProcs -> Calls] /\ call'[p] = Resting
      /\ \A q \in ForkProcs \ {p} : call'[q] = call[q]
  BY RestingTyped DEF ForkInv, ForkTypes
<1>2. CallSound(p)'
  BY <1>1, RestingTyped DEF CallSound, Writing
<1> QED
  BY <1>1, <1>2, QuietFork

(* A fork starts without the lock; only a stored report is registered. *)
LEMMA StartForkKeeps ==
    ASSUME ForkInv, NEW p \in ForkProcs, NEW id \in Ids,
           NEW from \in FromRounds, StartFork(p, id, from)
    PROVE  ForkInv'
<1> DEFINE s == IF entries[id].known \/ id \notin Reports
                THEN "forkLock" ELSE "rootLock"
           c == [Resting EXCEPT !.step = s, !.id = id, !.from = from]
<1>1. /\ s \in ForkSteps /\ s \notin Locked /\ s \notin Writing
      /\ s \in {"rootLock", "rootPayload", "rootIndex"} => id \in Reports
      /\ s # "rootIndex" /\ s # "parent" /\ s # "index"
  BY DEF ForkSteps, Locked, Writing
<1>2. call' = [call EXCEPT ![p] = c]
  BY DEF StartFork
<1> HIDE DEF s
<1>3. c \in Calls /\ c.step = s /\ c.id = id
  BY <1>1, RestingTyped, ForkAssumption DEF Calls, Resting
<1> HIDE DEF c
<1>4. /\ call' \in [ForkProcs -> Calls] /\ call'[p] = c
      /\ \A q \in ForkProcs \ {p} : call'[q] = call[q]
  BY <1>2, <1>3 DEF ForkInv, ForkTypes
<1>5. CallSound(p)'
  BY <1>1, <1>3, <1>4 DEF CallSound
<1> QED
  BY <1>4, <1>5, QuietFork DEF StartFork

(* The lock is taken when nobody holds it. *)
LEMMA AcquireKeeps ==
    ASSUME ForkInv, NEW p \in ForkProcs, AcquireSessions(p)
    PROVE  ForkInv'
<1> DEFINE s == IF Doing(p, "rootLock") THEN "rootPayload" ELSE "resolve"
<1>1. /\ s \in ForkSteps /\ s \notin Writing /\ s # "rootIndex"
      /\ s # "parent" /\ s # "index" /\ s # "rootLock"
      /\ s = "rootPayload" => call[p].step = "rootLock"
  BY DEF ForkSteps, Writing, Doing
<1>2. call' = [call EXCEPT ![p].step = s] /\ flock' = p /\ call[p].step # "rest"
  BY DEF AcquireSessions, GoTo
<1> HIDE DEF s
<1>3. /\ call' \in [ForkProcs -> Calls] /\ call'[p].step = s
      /\ call'[p].id = call[p].id
      /\ \A q \in ForkProcs \ {p} : call'[q] = call[q]
  BY <1>1, <1>2 DEF ForkInv, ForkTypes, Calls
<1>4. CallSound(p)'
  <2>1. CallSound(p)
    BY DEF ForkInv
  <2> QED
    BY <1>1, <1>2, <1>3, <2>1 DEF CallSound
<1> QED
  BY <1>3, <1>4, QuietFork DEF AcquireSessions

(* The child that is built descends from the parent that was loaded. *)
LEMMA ResolveKeeps ==
    ASSUME ForkInv, NEW p \in ForkProcs, NEW child \in Minted,
           NEW copy \in CopyHistory, ResolveFork(p, child, copy)
    PROVE  ForkInv'
<1> DEFINE id == call[p].id
           parent == LoadPayload(id)
           at == BranchPoint(parent.rounds, call[p].from)
           r == IF copy THEN CopiedRounds(parent.rounds, at) ELSE <<>>
           t == [present |-> TRUE, parent |-> id, children |-> {},
                 rounds |-> r, at |-> at]
<1>0. /\ CallSound(p) /\ call[p].step = "resolve" /\ call[p] \in Calls
      /\ copy \in BOOLEAN
  BY ForkAssumption DEF ForkInv, ForkTypes, ResolveFork, Doing
<1>1. /\ id \in Ids /\ flock = p /\ entries[id].known
      /\ ~entries[child].known /\ call[p].from \in Nat
  BY <1>0 DEF CallSound, ResolveFork, Resolvable, Locked, Calls
<1>2. parent = payload[File(id)] /\ parent \in Trees
  BY <1>1, LoadsItsFile, FileTyped
<1>3. call' = [call EXCEPT ![p].step = "child", ![p].child = child,
                  ![p].seen = entries, ![p].parent = parent, ![p].tree = t]
  BY DEF ResolveFork
<1> HIDE DEF id, parent
<1>4. parent.rounds \in Seq(Nat)
  BY <1>2 DEF Trees
<1>5. at \in Nat
  BY <1>1, <1>4 DEF BranchPoint, Last
<1> HIDE DEF at
<1>6. t.rounds = r /\ t.at = at /\ t.present /\ t.parent = id
  OBVIOUS
<1>7. t.rounds \in Seq(Nat) /\ Descends(t, parent.rounds)
  BY <1>0, <1>4, <1>5, <1>6, ChildDescends
<1> HIDE DEF r
<1>8. t \in Trees
  BY <1>1, <1>5, <1>6, <1>7 DEF Trees
<1> HIDE DEF t
<1>9. "child" \in ForkSteps /\ child \in Ids /\ entries \in Entries
  BY DEF ForkSteps, Ids, ForkInv, ForkTypes
<1> DEFINE c == [call[p] EXCEPT !.step = "child", !.child = child,
                    !.seen = entries, !.parent = parent, !.tree = t]
<1>a. c \in Calls
  BY <1>0, <1>2, <1>8, <1>9 DEF Calls
<1>b. call' = [call EXCEPT ![p] = c]
  BY <1>3
<1> HIDE DEF c
<1>10. /\ call' \in [ForkProcs -> Calls]
       /\ \A q \in ForkProcs \ {p} : call'[q] = call[q]
  BY <1>a, <1>b DEF ForkInv, ForkTypes
<1>11. /\ call'[p].step = "child" /\ call'[p].child = child
       /\ call'[p].seen = entries /\ call'[p].parent = parent
       /\ call'[p].tree = t /\ call'[p].id = id
  BY <1>0, <1>3 DEF ForkInv, ForkTypes, Calls, id
<1>12. /\ UNCHANGED <<payload, entries, flock, granted>>
       /\ \A i : File(i)' = File(i)
  BY DEF ResolveFork, File, Bucket
<1>13. CallSound(p)'
  <2>1. SameHistory(parent, payload[File(id)])
    BY <1>2 DEF SameHistory
  <2> QED
    BY <1>1, <1>2, <1>6, <1>7, <1>11, <1>12, <2>1 DEF CallSound
<1> QED
  BY <1>10, <1>12, <1>13, QuietFork

(* A root that is registered a second time gets the rounds it had: only its *)
(* list of children is lost.                                               *)
LEMMA RootPayloadKeeps ==
    ASSUME ForkInv, NEW p \in ForkProcs, PersistRootPayload(p)
    PROVE  ForkInv'
<1> DEFINE id == call[p].id
           t == RootTree(RoundsOf[id])
<1>0. CallSound(p) /\ call[p].step = "rootPayload" /\ call[p] \in Calls
  BY DEF ForkInv, ForkTypes, PersistRootPayload, Doing
<1>1. id \in Reports /\ id \in Ids /\ flock = p
  BY <1>0 DEF CallSound, Locked
<1>2. /\ payload' = [payload EXCEPT ![<<id, id>>] = t]
      /\ call' = [call EXCEPT ![p].step = "rootIndex", ![p].seen = entries]
      /\ UNCHANGED <<entries, flock, granted>>
  BY DEF PersistRootPayload
<1>3. /\ t \in Trees /\ t.present /\ t.parent = NoId
      /\ t.rounds = RoundsOf[id] /\ t.at = 0
  <2>1. RoundsOf[id] \in Seq(Nat)
    BY <1>1, ForkAssumption
  <2> QED
    BY <2>1 DEF RootTree, NoFile, Trees
<1> HIDE DEF id, t
<1>4. /\ <<id, id>> \in Ids \X Ids
      /\ payload' \in [Ids \X Ids -> Trees] /\ payload'[<<id, id>>] = t
      /\ \A b \in Ids \X Ids : b # <<id, id>> => payload'[b] = payload[b]
  BY <1>1, <1>2, <1>3 DEF ForkInv, ForkTypes
<1>5. "rootIndex" \in ForkSteps /\ entries \in Entries
  BY DEF ForkSteps, ForkInv, ForkTypes
<1>6. /\ call' \in [ForkProcs -> Calls]
      /\ \A q \in ForkProcs \ {p} : call'[q] = call[q]
      /\ call'[p].step = "rootIndex" /\ call'[p].id = id
      /\ call'[p].seen = entries
  BY <1>2, <1>5 DEF ForkInv, ForkTypes, Calls, id
<1>7. RootsSound'
  <2> SUFFICES ASSUME NEW i \in Ids, payload'[<<i, i>>].present
               PROVE  /\ i \in Reports
                      /\ payload'[<<i, i>>].parent = NoId
                      /\ payload'[<<i, i>>].rounds = RoundsOf[i]
                      /\ payload'[<<i, i>>].at = 0
    BY DEF RootsSound
  <2>1. CASE i = id
    BY <1>1, <1>3, <1>4, <2>1
  <2>2. CASE i # id
    BY <1>4, <2>2 DEF ForkInv, RootsSound
  <2> QED
    BY <2>1, <2>2
<1>8. IndexSound'
  <2> SUFFICES ASSUME NEW i \in Ids, entries[i].known
               PROVE  SameHistory(payload'[File(i)], payload[File(i)])
    BY <1>2, IndexKept
  <2>1. CASE File(i) # <<id, id>>
    BY <1>4, <2>1, FileTyped DEF SameHistory
  <2>2. CASE File(i) = <<id, id>>
    <3>1. i = id
      BY <2>2, FileTyped
    <3>2. payload[<<id, id>>].present /\ payload[<<id, id>>].parent = NoId
      BY <1>1, <2>2, <3>1 DEF ForkInv, IndexSound, Indexed
    <3>3. payload[<<id, id>>].rounds = RoundsOf[id] /\ payload[<<id, id>>].at = 0
      BY <1>1, <3>2 DEF ForkInv, RootsSound
    <3>4. payload[<<id, id>>] \in Trees
      BY <1>4 DEF ForkInv, ForkTypes
    <3> QED
      BY <1>3, <1>4, <2>2, <3>2, <3>3, <3>4 DEF SameHistory, Trees
  <2> QED
    BY <2>1, <2>2
<1>9. CallSound(p)'
  BY <1>1, <1>2, <1>3, <1>4, <1>6 DEF CallSound, Locked, Writing
<1>10. ForkTypes' /\ \A c \in granted' : entries'[c].known
  BY <1>2, <1>4, <1>6 DEF ForkInv, ForkTypes
<1> QED
  BY <1>1, <1>2, <1>6, <1>7, <1>8, <1>9, <1>10, ForkInvFrom

(* A root enters the index when its payload is there. *)
LEMMA RootIndexKeeps ==
    ASSUME ForkInv, NEW p \in ForkProcs, PersistRootIndex(p)
    PROVE  ForkInv'
<1> PICK id : id = call[p].id
  OBVIOUS
<1> DEFINE e == [known |-> TRUE, parent |-> NoId]
<1>0. CallSound(p) /\ call[p].step = "rootIndex" /\ call[p] \in Calls
  BY DEF ForkInv, ForkTypes, PersistRootIndex, Doing
<1>1. /\ id \in Reports /\ id \in Ids /\ flock = p
      /\ call[p].seen = entries /\ payload[<<id, id>>].present
  BY <1>0 DEF CallSound, Locked
<1>2. /\ entries' = [entries EXCEPT ![id] = e]
      /\ call' = [call EXCEPT ![p].step = "forkLock"]
      /\ UNCHANGED <<payload, granted>>
  BY <1>1 DEF PersistRootIndex, GoTo
<1>3. /\ entries' \in Entries /\ entries'[id] = e
      /\ \A i \in Ids \ {id} : entries'[i] = entries[i]
  BY <1>1, <1>2 DEF ForkInv, ForkTypes, Entries
<1>4. /\ call' \in [ForkProcs -> Calls]
      /\ \A q \in ForkProcs \ {p} : call'[q] = call[q]
      /\ call'[p].step = "forkLock" /\ call'[p].id = id
  BY <1>2 DEF ForkInv, ForkTypes, Calls, ForkSteps
<1>5. entries[id].known => entries[id].parent = NoId
  BY <1>1 DEF ForkInv, IndexSound, Indexed
<1>6. \A i \in Ids : entries[i].known =>
          entries'[i].known /\ entries'[i].parent = entries[i].parent
  BY <1>3, <1>5
<1>7. \A i : File(i)' = <<Bucket(entries'[i], i), i>>
  BY DEF File, Bucket
<1>8. /\ File(id)' = <<id, id>>
      /\ \A i \in Ids : entries[i].known => File(i)' = File(i)
  <2>1. Bucket(entries'[id], id) = id
    BY <1>3 DEF Bucket
  <2>2. \A i \in Ids : entries[i].known
            => Bucket(entries'[i], i) = Bucket(entries[i], i)
    BY <1>6 DEF Bucket
  <2> QED
    BY <1>7, <2>1, <2>2 DEF File
<1>9. IndexSound'
  <2> SUFFICES ASSUME NEW i \in Ids, entries'[i].known PROVE Indexed(i)'
    BY DEF IndexSound
  <2>1. CASE i = id
    <3>1. payload[<<id, id>>].parent = NoId
      BY <1>1 DEF ForkInv, RootsSound
    <3>2. entries'[id].parent = NoId /\ payload'[File(id)'] = payload[<<id, id>>]
      BY <1>2, <1>3, <1>8
    <3> QED
      BY <1>1, <2>1, <3>1, <3>2 DEF Indexed
  <2>2. CASE i # id
    <3>1. entries[i].known /\ Indexed(i) /\ entries'[i] = entries[i]
      BY <1>3, <2>2 DEF ForkInv, IndexSound
    <3>2. entries[i].parent \in Ids \cup {NoId}
      BY DEF ForkInv, ForkTypes, Entries
    <3> QED
      BY <1>2, <1>6, <1>8, <3>1, <3>2 DEF Indexed
  <2> QED
    BY <2>1, <2>2
<1>10. CallSound(p)'
  BY <1>1, <1>4 DEF CallSound, Locked, Writing
<1>11. RootsSound' /\ ForkTypes' /\ \A c \in granted' : entries'[c].known
  <2>1. granted \subseteq Ids
    BY DEF ForkInv, ForkTypes, Ids
  <2> QED
    BY <1>2, <1>3, <1>4, <1>6, <2>1 DEF ForkInv, ForkTypes, RootsSound
<1> QED
  BY <1>1, <1>4, <1>9, <1>10, <1>11, ForkInvFrom

(* The child's payload goes where no known session has its file. *)
LEMMA WriteChildKeeps ==
    ASSUME ForkInv, NEW p \in ForkProcs, WriteChild(p)
    PROVE  ForkInv'
<1> PICK id, child, t :
        id = call[p].id /\ child = call[p].child /\ t = call[p].tree
  OBVIOUS
<1>0. CallSound(p) /\ call[p].step = "child" /\ call[p] \in Calls
  BY DEF ForkInv, ForkTypes, WriteChild, Doing
<1>1. /\ id \in Ids /\ flock = p /\ entries[id].known /\ child \in Minted
      /\ ~entries[child].known /\ call[p].seen = entries
      /\ t.present /\ t.parent = id
      /\ SameHistory(call[p].parent, payload[File(id)])
      /\ Descends(t, payload[File(id)].rounds)
  BY <1>0 DEF CallSound, Locked, Writing
<1>2. /\ payload' = [payload EXCEPT ![<<id, child>>] = t]
      /\ call' = [call EXCEPT ![p].step = "parent"]
      /\ UNCHANGED <<entries, flock, granted>>
  BY DEF WriteChild, GoTo
<1>3. id # child /\ child \in Ids /\ t \in Trees
  BY <1>0, <1>1 DEF Ids, Calls
<1>4. /\ <<id, child>> \in Ids \X Ids
      /\ payload' \in [Ids \X Ids -> Trees] /\ payload'[<<id, child>>] = t
      /\ \A b \in Ids \X Ids : b # <<id, child>> => payload'[b] = payload[b]
  BY <1>1, <1>2, <1>3 DEF ForkInv, ForkTypes
<1>5. "parent" \in ForkSteps
  BY DEF ForkSteps
<1>6. /\ call' \in [ForkProcs -> Calls]
      /\ \A q \in ForkProcs \ {p} : call'[q] = call[q]
  BY <1>2, <1>5 DEF ForkInv, ForkTypes, Calls
<1>7. /\ call'[p].step = "parent" /\ call'[p].id = id /\ call'[p].child = child
      /\ call'[p].tree = t /\ call'[p].seen = entries
      /\ call'[p].parent = call[p].parent
  BY <1>1, <1>2 DEF ForkInv, ForkTypes, Calls
<1>8. \A i \in Ids : entries[i].known => payload'[File(i)] = payload[File(i)]
  <2> SUFFICES ASSUME NEW i \in Ids, entries[i].known
               PROVE  payload'[File(i)] = payload[File(i)]
    OBVIOUS
  <2>1. File(i) \in Ids \X Ids /\ File(i)[2] = i /\ i # child
    BY <1>1, FileTyped
  <2>2. File(i) # <<id, child>>
    BY <2>1
  <2> QED
    BY <1>4, <2>1, <2>2
<1>9. RootsSound'
  <2> SUFFICES ASSUME NEW i \in Ids PROVE payload'[<<i, i>>] = payload[<<i, i>>]
    BY DEF ForkInv, RootsSound
  <2>1. <<i, i>> # <<id, child>> /\ <<i, i>> \in Ids \X Ids
    BY <1>3
  <2> QED
    BY <1>4, <2>1
<1>10. IndexSound'
  BY <1>2, <1>8, IndexKept DEF SameHistory
<1>11. CallSound(p)'
  <2>1. File(id)' = File(id)
    BY <1>2 DEF File, Bucket
  <2> QED
    BY <1>1, <1>2, <1>4, <1>7, <1>8, <2>1 DEF CallSound
<1>12. ForkTypes' /\ \A c \in granted' : entries'[c].known
  BY <1>2, <1>4, <1>6 DEF ForkInv, ForkTypes
<1> QED
  BY <1>1, <1>6, <1>9, <1>10, <1>11, <1>12, ForkInvFrom

(* The parent's payload changes in its children only. *)
LEMMA WriteParentKeeps ==
    ASSUME ForkInv, NEW p \in ForkProcs, WriteParent(p)
    PROVE  ForkInv'
<1> PICK id, child, old, t :
        /\ id = call[p].id /\ child = call[p].child /\ old = call[p].parent
        /\ t = [call[p].parent EXCEPT !.children = @ \cup {call[p].child}]
  OBVIOUS
<1>0. CallSound(p) /\ call[p].step = "parent" /\ call[p] \in Calls
  BY DEF ForkInv, ForkTypes, WriteParent, Doing
<1>1. /\ id \in Ids /\ flock = p /\ entries[id].known /\ child \in Minted
      /\ ~entries[child].known /\ call[p].seen = entries
      /\ call[p].tree.present /\ call[p].tree.parent = id
      /\ SameHistory(old, payload[File(id)])
      /\ Descends(call[p].tree, payload[File(id)].rounds)
      /\ payload[<<id, child>>] = call[p].tree
  BY <1>0 DEF CallSound, Locked, Writing
<1>2. PICK f : f = File(id)
  OBVIOUS
<1>3. /\ payload' = [payload EXCEPT ![f] = t]
      /\ call' = [call EXCEPT ![p].step = "index"]
      /\ UNCHANGED <<entries, flock, granted>>
  BY <1>1, <1>2 DEF WriteParent, GoTo, File
<1>4. id # child /\ child \in Ids /\ old \in Trees
  BY <1>0, <1>1 DEF Ids, Calls
<1>5. t \in Trees /\ SameHistory(t, old)
  BY <1>4 DEF Trees, SameHistory
<1>6. SameHistory(t, payload[f])
  BY <1>1, <1>2, <1>5 DEF SameHistory
<1>7. /\ f \in Ids \X Ids /\ f[2] = id
      /\ payload' \in [Ids \X Ids -> Trees] /\ payload'[f] = t
      /\ \A b \in Ids \X Ids : b # f => payload'[b] = payload[b]
  BY <1>1, <1>2, <1>3, <1>5, FileTyped DEF ForkInv, ForkTypes
<1>8. \A b \in Ids \X Ids : SameHistory(payload'[b], payload[b])
  BY <1>6, <1>7 DEF SameHistory
<1>9. "index" \in ForkSteps
  BY DEF ForkSteps
<1>10. /\ call' \in [ForkProcs -> Calls]
       /\ \A q \in ForkProcs \ {p} : call'[q] = call[q]
  BY <1>3, <1>9 DEF ForkInv, ForkTypes, Calls
<1>11. /\ call'[p].step = "index" /\ call'[p].id = id
       /\ call'[p].child = child /\ call'[p].tree = call[p].tree
       /\ call'[p].seen = entries /\ call'[p].parent = old
  BY <1>1, <1>3 DEF ForkInv, ForkTypes, Calls
<1>12. RootsSound'
  <2>1. \A i \in Ids : <<i, i>> \in Ids \X Ids
    OBVIOUS
  <2> QED
    BY <1>8, <2>1 DEF ForkInv, RootsSound, SameHistory
<1>13. IndexSound'
  BY <1>3, <1>8, IndexKept, FileTyped
<1>14. CallSound(p)'
  <2>1. File(id)' = f
    BY <1>2, <1>3 DEF File, Bucket
  <2>2. payload'[<<id, child>>] = call[p].tree
    BY <1>1, <1>4, <1>7
  <2>3. SameHistory(old, t) /\ t.rounds = payload[f].rounds
    BY <1>5, <1>6 DEF SameHistory
  <2> QED
    BY <1>1, <1>2, <1>3, <1>7, <1>11, <2>1, <2>2, <2>3 DEF CallSound
<1>15. ForkTypes' /\ \A c \in granted' : entries'[c].known
  BY <1>3, <1>7, <1>10 DEF ForkInv, ForkTypes
<1> QED
  BY <1>1, <1>10, <1>12, <1>13, <1>14, <1>15, ForkInvFrom

(* The child enters the index when its payload and its parent are there. *)
LEMMA ForkIndexKeeps ==
    ASSUME ForkInv, NEW p \in ForkProcs, WriteForkIndex(p)
    PROVE  ForkInv'
<1> PICK id, child, t :
        id = call[p].id /\ child = call[p].child /\ t = call[p].tree
  OBVIOUS
<1> DEFINE e == [known |-> TRUE, parent |-> id]
<1>0. CallSound(p) /\ call[p].step = "index" /\ call[p] \in Calls
  BY DEF ForkInv, ForkTypes, WriteForkIndex, Doing
<1>1. /\ id \in Ids /\ flock = p /\ entries[id].known /\ child \in Minted
      /\ ~entries[child].known /\ call[p].seen = entries
      /\ t.present /\ t.parent = id
      /\ Descends(t, payload[File(id)].rounds)
      /\ payload[<<id, child>>] = t
  BY <1>0 DEF CallSound, Locked, Writing
<1>2. /\ entries' = [entries EXCEPT ![child] = e]
      /\ call' = [call EXCEPT ![p] = Resting]
      /\ payload' = payload /\ granted' = granted \cup {child}
  BY <1>1 DEF WriteForkIndex
<1>3. id # child /\ child \in Ids /\ child \notin Reports /\ id # NoId
  BY <1>1, ForkAssumption DEF Ids
<1>4. /\ entries' \in Entries /\ entries'[child] = e
      /\ \A i \in Ids \ {child} : entries'[i] = entries[i]
  BY <1>1, <1>2, <1>3 DEF ForkInv, ForkTypes, Entries
<1>5. /\ call' \in [ForkProcs -> Calls]
      /\ \A q \in ForkProcs \ {p} : call'[q] = call[q]
      /\ call'[p] = Resting
  BY <1>2, RestingTyped DEF ForkInv, ForkTypes
<1>6. \A i \in Ids : entries[i].known => i # child /\ entries'[i] = entries[i]
  BY <1>1, <1>4
<1>7. \A i : File(i)' = <<Bucket(entries'[i], i), i>>
  BY DEF File, Bucket
<1>8. /\ File(child)' = <<id, child>>
      /\ \A i \in Ids : entries[i].known => File(i)' = File(i)
  <2>1. Bucket(entries'[child], child) = id
    BY <1>3, <1>4 DEF Bucket
  <2>2. \A i \in Ids : entries[i].known
            => Bucket(entries'[i], i) = Bucket(entries[i], i)
    BY <1>6 DEF Bucket
  <2> QED
    BY <1>7, <2>1, <2>2 DEF File
<1>9. IndexSound'
  <2> SUFFICES ASSUME NEW i \in Ids, entries'[i].known PROVE Indexed(i)'
    BY DEF IndexSound
  <2>1. CASE i = child
    <3>1. entries'[child].parent = id /\ payload'[File(child)'] = t
      BY <1>1, <1>2, <1>4, <1>8
    <3>2. entries'[id].known /\ payload'[File(id)'] = payload[File(id)]
      BY <1>1, <1>2, <1>6, <1>8
    <3> QED
      BY <1>1, <1>3, <2>1, <3>1, <3>2 DEF Indexed
  <2>2. CASE i # child
    <3>1. entries[i].known /\ Indexed(i) /\ entries'[i] = entries[i]
      BY <1>4, <2>2 DEF ForkInv, IndexSound
    <3>2. entries[i].parent \in Ids \cup {NoId}
      BY DEF ForkInv, ForkTypes, Entries
    <3> QED
      BY <1>2, <1>6, <1>8, <3>1, <3>2 DEF Indexed
  <2> QED
    BY <2>1, <2>2
<1>10. CallSound(p)'
  BY <1>5, RestingTyped DEF CallSound, Writing
<1>11. RootsSound' /\ ForkTypes' /\ \A c \in granted' : entries'[c].known
  <2>1. granted \subseteq Ids
    BY DEF ForkInv, ForkTypes, Ids
  <2> QED
    BY <1>1, <1>2, <1>4, <1>5, <1>6, <2>1 DEF ForkInv, ForkTypes, RootsSound
<1> QED
  BY <1>1, <1>5, <1>9, <1>10, <1>11, ForkInvFrom

(* The invariant holds at the start and no step breaks it. *)
LEMMA ForkInvariant == ForkSpec => []ForkInv
<1>1. ForkInit => ForkInv
  <2> SUFFICES ASSUME ForkInit PROVE ForkInv
    OBVIOUS
  <2>1. \A i \in Ids : ~entries[i].known /\ ~payload[<<i, i>>].present
    BY DEF ForkInit, Unknown, NoFile
  <2>2. \A p \in ForkProcs : call[p] = Resting
    BY DEF ForkInit
  <2>3. ForkTypes
    <3>1. payload \in [Ids \X Ids -> Trees] /\ call \in [ForkProcs -> Calls]
      BY RestingTyped DEF ForkInit
    <3>2. entries \in Entries /\ granted \subseteq Minted
      BY DEF ForkInit, Entries, Unknown
    <3> QED
      BY <3>1, <3>2 DEF ForkTypes
  <2>4. \A p \in ForkProcs : CallSound(p)
    BY <2>2, RestingTyped DEF CallSound, Writing
  <2> QED
    BY <2>1, <2>3, <2>4 DEF ForkInit, ForkInv, RootsSound, IndexSound
<1>2. ForkInv /\ [ForkNext]_forkVars => ForkInv'
  <2> SUFFICES ASSUME ForkInv, [ForkNext]_forkVars PROVE ForkInv'
    OBVIOUS
  <2>1. ASSUME NEW p \in ForkProcs,
               SessionsLockTimeout(p) \/ RefuseFork(p) \/ ForkKill(p)
        PROVE  ForkInv'
    <3>1. RefuseFork(p) => flock = p
      BY DEF RefuseFork, Doing, ForkInv, CallSound, Locked
    <3> QED
      BY <2>1, <3>1, RestKeeps DEF SessionsLockTimeout, RefuseFork, ForkKill
  <2>2. CASE UNCHANGED forkVars
    BY <2>2 DEF forkVars, ForkInv, ForkTypes, RootsSound, IndexSound, Indexed,
                CallSound, File
  <2> QED
    BY <2>1, <2>2, StartForkKeeps, AcquireKeeps, ResolveKeeps,
       RootPayloadKeeps, RootIndexKeeps, WriteChildKeeps, WriteParentKeeps,
       ForkIndexKeeps DEF ForkNext, ForkStep
<1> QED
  BY <1>1, <1>2, PTL DEF ForkSpec

(* For every number of processes, reports and minted ids and whatever is   *)
(* killed: what the index knows loads, a branch the operator was given is  *)
(* shown under its parent, and its history is the parent's up to the       *)
(* branch point (session_fork.rs:247-363, 426-461).                        *)
THEOREM TreeStaysWhole == ForkSpec => []SessionTreeWhole
<1>1. ForkInv => SessionTreeWhole
  <2> SUFFICES ASSUME ForkInv PROVE SessionTreeWhole
    OBVIOUS
  <2>1. IndexedSessionLoads
    BY LoadsItsFile DEF IndexedSessionLoads, ForkInv, IndexSound, Indexed
  <2>2. GrantedChildShown
    <3>1. granted \subseteq Ids
      BY DEF ForkInv, ForkTypes, Ids
    <3> QED
      BY <3>1 DEF GrantedChildShown, ForkInv, Hydrate
  <2>3. ChildHistoryIsPrefix
    <3> SUFFICES ASSUME NEW i \in Ids, LoadPayload(i).present,
                        LoadPayload(i).parent # NoId
                 PROVE  Descends(LoadPayload(i),
                                 LoadPayload(LoadPayload(i).parent).rounds)
      BY DEF ChildHistoryIsPrefix, Descends
    <3>1. entries[i].known /\ LoadPayload(i) = payload[File(i)]
      BY LoadsItsFile
    <3>2. Indexed(i)
      BY <3>1 DEF ForkInv, IndexSound
    <3>3. LoadPayload(i).parent = entries[i].parent
      BY <3>1, <3>2 DEF Indexed
    <3>4. entries[i].parent \in Ids
      BY <3>3 DEF ForkInv, ForkTypes, Entries
    <3>5. LoadPayload(entries[i].parent) = payload[File(entries[i].parent)]
      BY <3>2, <3>3, <3>4, LoadsItsFile DEF Indexed
    <3> QED
      BY <3>1, <3>2, <3>3, <3>5 DEF Indexed
  <2> QED
    BY <2>1, <2>2, <2>3 DEF SessionTreeWhole
<1> QED
  BY <1>1, ForkInvariant, PTL

-----------------------------------------------------------------------------
(***************************************************************************)
(* The budget audit log                                                    *)
(***************************************************************************)
(* The steps of a command, its request and the state of a prompt. *)
PromptSteps == {"prompt", "load", "lock", "append", "unlock"}
Requests == [step : PromptSteps, next : Nat \cup {NoCap}, confirmed : BOOLEAN]
Prompts == [env : Envs, key : {Key, Unkeyed, BadKey},
            override : Nat \cup {NoCap}, req : Requests]

(* A link holds the entry before it, which holds its own link, and so on:  *)
(* there is no set of all entries, only their shape.                       *)
Shaped(e) ==
    e = [prev |-> e.prev, next |-> e.next, confirmed |-> e.confirmed,
         link |-> e.link, mac |-> e.mac]
IsLog(s) == (\E S : s \in Seq(S)) /\ \A i \in 1..Len(s) : Shaped(s[i])

(* Two versions of an entry that differ in the cap at most. *)
SameButCap(e, f) ==
    /\ e.prev = f.prev /\ e.confirmed = f.confirmed
    /\ e.link = f.link /\ e.mac = f.mac

(* The log and the trail differ in caps that the chain covers. *)
TrailFits ==
    /\ IsLog(log) /\ IsLog(trail) /\ Len(trail) = Len(log)
    /\ \A i \in 1..Len(log) :
          /\ SameButCap(log[i], trail[i])
          /\ log[i] # trail[i] => Covered(i) /\ log[i].next # trail[i].next

(* A link is the hash of the entry before it as the trail has it, and a    *)
(* keyed link was made over an authenticated entry.                        *)
LinksFit ==
    \A i \in 1..Len(log) - 1 : log[i + 1].link # NoHash =>
        \E k \in {Key, Unkeyed} :
            /\ log[i + 1].link = Hash(trail[i], k)
            /\ k = Key => trail[i].mac = Hash(trail[i], Key)

(* What a prompt will put in the log, and has put there before it runs     *)
(* under its new cap.                                                      *)
PromptSound(r) ==
    /\ repl[r].key = KeyOf(repl[r].env)
    /\ repl[r].req.step # "prompt" =>
          /\ repl[r].key # BadKey
          /\ repl[r].req.next \in Nat
          /\ Ceiling # NoCap => repl[r].req.next <= Ceiling
    /\ repl[r].req.step \in {"append", "unlock"} => blk = r
    /\ repl[r].req.step = "unlock" /\ handEdits = MaxHandEdits =>
          /\ Len(log) # 0 /\ log[Len(log)].next = repl[r].req.next
          /\ repl[r].key = Key
                => log[Len(log)].mac = Hash(log[Len(log)], Key)
    /\ repl[r].override # NoCap =>
          /\ Ceiling # NoCap => repl[r].override <= Ceiling
          /\ handEdits = MaxHandEdits =>
                \E i \in 1..Len(log) : log[i].next = repl[r].override

AuditInv ==
    /\ repl \in [Repls -> Prompts]
    /\ handEdits \in Nat /\ handEdits <= MaxHandEdits
    /\ TrailFits /\ LinksFit /\ ChainHolds
    /\ \A r \in Repls : PromptSound(r)

-----------------------------------------------------------------------------
(* What the library says of a sequence whose elements have no type. *)
LEMMA LogIsSequence ==
    ASSUME NEW s, IsLog(s)
    PROVE  Len(s) \in Nat /\ DOMAIN s = 1..Len(s) /\ (s = <<>> <=> Len(s) = 0)
<1> PICK S : s \in Seq(S)
  BY DEF IsLog
<1> QED
  BY EmptySeq, LenProperties

(* Appending to a log. *)
LEMMA LogAppended ==
    ASSUME NEW s, IsLog(s), NEW e, Shaped(e)
    PROVE  LET t == Append(s, e) IN
           /\ IsLog(t) /\ Len(t) = Len(s) + 1
           /\ t[Len(s) + 1] = e /\ \A i \in 1..Len(s) : t[i] = s[i]
<1> DEFINE t == Append(s, e)
<1>0. Len(s) \in Nat
  BY LogIsSequence
<1>1. PICK S : s \in Seq(S)
  BY DEF IsLog
<1>2. s \in Seq(S \cup {e})
  BY <1>1, SeqMonotonic
<1>3. /\ t \in Seq(S \cup {e}) /\ Len(t) = Len(s) + 1
      /\ t[Len(s) + 1] = e /\ \A i \in 1..Len(s) : t[i] = s[i]
  BY <1>2, AppendProperties
<1> HIDE DEF t
<1>4. \A i \in 1..Len(t) : Shaped(t[i])
  <2> TAKE i \in 1..Len(t)
  <2>1. i \in 1..Len(s) \/ i = Len(s) + 1
    BY <1>0, <1>3
  <2> QED
    BY <1>3, <2>1 DEF IsLog
<1>5. IsLog(t)
  BY <1>3, <1>4 DEF IsLog
<1> QED
  BY <1>3, <1>5 DEF t

(* Changing one cap of a log. *)
LEMMA LogEdited ==
    ASSUME NEW s, IsLog(s), NEW i \in 1..Len(s), NEW cap
    PROVE  LET t == [s EXCEPT ![i].next = cap] IN
           /\ IsLog(t) /\ Len(t) = Len(s)
           /\ \A j \in 1..Len(s) \ {i} : t[j] = s[j]
           /\ t[i].next = cap /\ SameButCap(t[i], s[i])
<1> DEFINE e == [s[i] EXCEPT !.next = cap]
           t == [s EXCEPT ![i] = e]
<1>0. Len(s) \in Nat
  BY LogIsSequence
<1>1. PICK S : s \in Seq(S)
  BY DEF IsLog
<1>2. Shaped(s[i])
  BY DEF IsLog
<1>3. Shaped(e) /\ e.next = cap /\ SameButCap(e, s[i])
  BY <1>2 DEF Shaped, SameButCap
<1>4. s \in Seq(S \cup {e})
  BY <1>1, SeqMonotonic
<1>t. t = [s EXCEPT ![i].next = cap]
  OBVIOUS
<1> HIDE DEF e
<1>5. /\ t \in Seq(S \cup {e}) /\ Len(t) = Len(s)
      /\ \A j \in 1..Len(s) : t[j] = IF j = i THEN e ELSE s[j]
  BY <1>4, ExceptSeq
<1> HIDE DEF t
<1>6. \A j \in 1..Len(s) : Shaped(t[j])
  BY <1>3, <1>5 DEF IsLog
<1>7. IsLog(t)
  BY <1>5, <1>6 DEF IsLog
<1>8. t[i] = e /\ \A j \in 1..Len(s) \ {i} : t[j] = s[j]
  BY <1>5
<1> QED
  BY <1>3, <1>5, <1>7, <1>8, <1>t

(* A hash tells the key and the entry, and no hash is the missing one. *)
LEMMA HashTells ==
    ASSUME NEW e, NEW f, NEW k, NEW j, Shaped(e), Shaped(f)
    PROVE  /\ Hash(e, k) # NoHash
           /\ Hash(e, k) = Hash(f, j) => k = j /\ e.next = f.next
<1>1. Hash(e, k) # NoHash
  BY DEF Hash, NoHash
<1>2. ASSUME Hash(e, k) = Hash(f, j) PROVE k = j /\ e.next = f.next
  <2>1. k = j /\ <<Bare(e)>> = <<Bare(f)>>
    BY <1>2 DEF Hash
  <2>2. Bare(e) = Bare(f)
    BY <2>1
  <2>3. Bare(e).next = e.next /\ Bare(f).next = f.next
    BY DEF Bare, Shaped
  <2> QED
    BY <2>1, <2>2, <2>3
<1> QED
  BY <1>1, <1>2

(* A log that verifies with the key or without it is the trail: a change   *)
(* of an entry that another links to breaks that link.                     *)
LEMMA EditBreaksLink ==
    ASSUME TrailFits, LinksFit, NEW k \in {Key, Unkeyed}, Verifies(log, k)
    PROVE  log = trail
<1>0. /\ IsLog(log) /\ IsLog(trail) /\ Len(log) = Len(trail)
      /\ Len(log) \in Nat /\ DOMAIN log = 1..Len(log)
  BY LogIsSequence DEF TrailFits
<1>1. SUFFICES \A i \in 1..Len(log) : log[i] = trail[i]
  <2>1. PICK S : log \in Seq(S)
    BY <1>0 DEF IsLog
  <2>2. PICK T : trail \in Seq(T)
    BY <1>0 DEF IsLog
  <2>3. log \in Seq(S \cup T) /\ trail \in Seq(S \cup T)
    BY <2>1, <2>2, SeqMonotonic
  <2> QED
    BY <1>0, <1>1, <2>3, SeqEqual
<1> SUFFICES ASSUME NEW i \in 1..Len(log), log[i] # trail[i] PROVE FALSE
  OBVIOUS
<1>2. /\ i < Len(log) /\ log[i + 1].link # NoHash
      /\ log[i].next # trail[i].next
  BY DEF TrailFits, Covered
<1>3. i \in 1..Len(log) - 1 /\ i + 1 \in 2..Len(log) /\ (i + 1) - 1 = i
  BY <1>0, <1>2
<1>4. PICK j : log[i + 1].link = Hash(trail[i], j)
  BY <1>2, <1>3 DEF LinksFit
<1>5. Shaped(log[i]) /\ Shaped(trail[i])
  BY <1>0 DEF IsLog
<1>6. ~Linked(log, i + 1, k)
  BY <1>2, <1>3, <1>4, <1>5, HashTells DEF Linked
<1>7. ~Tolerated(log, i + 1, k)
  BY <1>2 DEF Tolerated
<1> QED
  BY <1>3, <1>6, <1>7 DEF Verifies

(* An entry appended to a log that verifies, with the same key, leaves one *)
(* that verifies.                                                          *)
LEMMA ChainGrows ==
    ASSUME NEW s, IsLog(s), NEW k, Verifies(s, k), NEW e, Shaped(e),
           e.link = ChainHead(s, k), k # Unkeyed => e.mac = Hash(e, k)
    PROVE  Verifies(Append(s, e), k)
<1> DEFINE t == Append(s, e)
           n == Len(s)
<1>0. n \in Nat /\ (s = <<>> <=> n = 0)
  BY LogIsSequence
<1>1. /\ Len(t) = n + 1 /\ t[n + 1] = e /\ \A i \in 1..n : t[i] = s[i]
  BY LogAppended
<1> HIDE DEF t, n
<1>2. \A i \in 2..n : Linked(t, i, k) <=> Linked(s, i, k)
  <2> TAKE i \in 2..n
  <2>1. i \in 1..n /\ i - 1 \in 1..n
    BY <1>0
  <2>2. t[i] = s[i] /\ t[i - 1] = s[i - 1]
    BY <1>1, <2>1
  <2> QED
    BY <2>2 DEF Linked
<1>3. ASSUME NEW i \in 2..n PROVE Linked(t, i, k) \/ Tolerated(t, i, k)
  <2>1. Linked(s, i, k) \/ Tolerated(s, i, k)
    BY <1>0 DEF Verifies, n
  <2>2. \A j \in 2 .. i - 1 : j \in 2..n
    BY <1>0
  <2>3. t[i] = s[i]
    BY <1>0, <1>1
  <2> QED
    BY <1>2, <2>1, <2>2, <2>3 DEF Tolerated
<1>4. n # 0 => Linked(t, n + 1, k)
  <2> SUFFICES ASSUME n # 0 PROVE Linked(t, n + 1, k)
    OBVIOUS
  <2>1. e.link = Hash(s[n], k)
    BY <1>0 DEF ChainHead, n
  <2>2. t[n + 1] = e /\ t[(n + 1) - 1] = s[n]
    BY <1>0, <1>1
  <2> QED
    BY <2>1, <2>2 DEF Linked
<1>5. \A i \in 2..Len(t) : Linked(t, i, k) \/ Tolerated(t, i, k)
  <2> TAKE i \in 2..Len(t)
  <2>1. i \in 2..n \/ (i = n + 1 /\ n # 0)
    BY <1>0, <1>1
  <2> QED
    BY <1>3, <1>4, <2>1
<1>6. k # Unkeyed => t[Len(t)].mac = Hash(t[Len(t)], k)
  BY <1>1
<1> QED
  BY <1>5, <1>6 DEF Verifies, t

(* The logs of an earlier version verify without a key. *)
LEMMA LegacyFits ==
    ASSUME NEW s \in Legacy
    PROVE  /\ IsLog(s) /\ Verifies(s, Unkeyed)
           /\ \A i \in 1..Len(s) : s[i].link = NoHash
<1> DEFINE E == [prev : Nat \cup {NoCap}, next : Nat, confirmed : BOOLEAN,
                 link : {NoHash}, mac : {NoHash}]
<1>1. s \in Seq(E)
  BY LegacyAssumption
<1>2. \A e \in E : Shaped(e) /\ e.link = NoHash
  BY DEF Shaped
<1> HIDE DEF E
<1>3. Len(s) \in Nat /\ \A i \in 1..Len(s) : s[i] \in E
  BY <1>1
<1>4. IsLog(s)
  BY <1>1, <1>2, <1>3 DEF IsLog
<1>5. \A i \in 1..Len(s) : s[i].link = NoHash /\ Shaped(s[i])
  BY <1>2, <1>3
<1>6. \A i \in 2..Len(s) : ~Linked(s, i, Unkeyed)
  <2> TAKE i \in 2..Len(s)
  <2>1. i \in 1..Len(s) /\ i - 1 \in 1..Len(s)
    BY <1>3
  <2> QED
    BY <1>5, <2>1, HashTells DEF Linked
<1>7. \A i \in 2..Len(s) : Tolerated(s, i, Unkeyed)
  <2> TAKE i \in 2..Len(s)
  <2>1. i \in 1..Len(s) /\ \A j \in 2 .. i - 1 : j \in 2..Len(s)
    BY <1>3
  <2> QED
    BY <1>5, <1>6, <2>1 DEF Tolerated
<1> QED
  BY <1>4, <1>5, <1>7 DEF Verifies

-----------------------------------------------------------------------------
(* Most steps leave the log alone and change one prompt. *)
LEMMA QuietPrompt ==
    ASSUME AuditInv, NEW r \in Repls, repl' \in [Repls -> Prompts],
           \A q \in Repls \ {r} : repl'[q] = repl[q], PromptSound(r)',
           blk = r \/ blk' = blk \/ blk = NoRepl,
           UNCHANGED <<log, trail, handEdits>>
    PROVE  AuditInv'
<1>1. TrailFits' /\ LinksFit' /\ ChainHolds'
  BY DEF AuditInv, TrailFits, LinksFit, ChainHolds, Covered
<1>2. ASSUME NEW q \in Repls \ {r} PROVE PromptSound(q)'
  <2>1. PromptSound(q) /\ repl'[q] = repl[q] /\ q # NoRepl
    BY <1>2, AuditAssumption DEF AuditInv
  <2> QED
    BY <2>1 DEF PromptSound
<1> QED
  BY <1>1, <1>2 DEF AuditInv

(* A prompt that waits has no request. *)
LEMMA WaitingTyped ==
    Waiting \in Requests /\ Waiting.step = "prompt"
BY DEF Waiting, Requests, PromptSteps

(* One prompt changes, the others stay. *)
LEMMA PromptBecomes ==
    ASSUME AuditInv, NEW r \in Repls, NEW p \in Prompts,
           repl' = [repl EXCEPT ![r] = p]
    PROVE  /\ repl' \in [Repls -> Prompts] /\ repl'[r] = p
           /\ \A q \in Repls \ {r} : repl'[q] = repl[q]
BY DEF AuditInv

(* A prompt that gets another request keeps its key and its cap. *)
LEMMA RequestBecomes ==
    ASSUME AuditInv, NEW r \in Repls, NEW q \in Requests,
           repl' = [repl EXCEPT ![r].req = q]
    PROVE  /\ repl' \in [Repls -> Prompts]
           /\ repl'[r].req = q /\ repl'[r].key = repl[r].key
           /\ repl'[r].env = repl[r].env /\ repl'[r].override = repl[r].override
           /\ \A p \in Repls \ {r} : repl'[p] = repl[p]
<1> DEFINE p == [repl[r] EXCEPT !.req = q]
<1>0. repl[r] \in Prompts
  BY DEF AuditInv
<1>1. /\ p \in Prompts /\ p.req = q /\ p.key = repl[r].key
      /\ p.env = repl[r].env /\ p.override = repl[r].override
  BY <1>0 DEF Prompts
<1>2. repl' = [repl EXCEPT ![r] = p]
  OBVIOUS
<1> HIDE DEF p
<1> QED
  BY <1>1, <1>2, PromptBecomes

(* A request that passes the checks is below the ceiling and has a usable  *)
(* key.                                                                    *)
LEMMA SetBudgetKeeps ==
    ASSUME AuditInv, NEW r \in Repls, NEW cap \in Caps,
           NEW force \in BOOLEAN, NEW answer \in BOOLEAN,
           SetBudget(r, cap, force, answer)
    PROVE  AuditInv'
<1> DEFINE asks == NeedsConfirmation(InForce(r), cap, force)
           q == [step |-> "load", next |-> cap, confirmed |-> asks]
<1>1. cap \in Nat /\ asks \in BOOLEAN
  BY AuditAssumption DEF NeedsConfirmation
<1>2. repl' = [repl EXCEPT ![r].req = q]
  BY DEF SetBudget
<1> HIDE DEF asks
<1>3. q \in Requests /\ q.step = "load" /\ q.next = cap
  BY <1>1 DEF Requests, PromptSteps
<1> HIDE DEF q
<1>4. /\ repl' \in [Repls -> Prompts]
      /\ repl'[r].req = q /\ repl'[r].key = repl[r].key
      /\ repl'[r].env = repl[r].env /\ repl'[r].override = repl[r].override
      /\ \A p \in Repls \ {r} : repl'[p] = repl[p]
  BY <1>2, <1>3, RequestBecomes
<1>5. /\ PromptSound(r) /\ repl[r].key # BadKey
      /\ Ceiling # NoCap => cap <= Ceiling
      /\ UNCHANGED <<log, blk, trail, handEdits>>
  BY DEF AuditInv, SetBudget
<1>6. PromptSound(r)'
  BY <1>1, <1>3, <1>4, <1>5 DEF PromptSound
<1> QED
  BY <1>4, <1>5, <1>6, QuietPrompt

(* The steps that only move a request on or give it up. *)
LEMMA RequestKeeps ==
    ASSUME AuditInv, NEW r \in Repls,
           \/ LoadChain(r) \/ LoadChainFails(r) \/ LockLog(r) \/ AppendFails(r)
    PROVE  AuditInv'
<1>0. /\ PromptSound(r) /\ repl[r] \in Prompts
      /\ UNCHANGED <<log, trail, handEdits>>
  BY DEF AuditInv, LoadChain, LoadChainFails, LockLog, AppendFails
<1>1. repl[r].req \in Requests
  BY <1>0 DEF Prompts
<1>2. PICK q \in Requests :
          /\ repl' = [repl EXCEPT ![r].req = q]
          /\ \/ q.step = "prompt"
             \/ /\ repl[r].req.step # "prompt" /\ q.step \in {"lock", "append"}
                /\ q.next = repl[r].req.next
                /\ q.step = "append" => blk' = r
          /\ blk = r \/ blk' = blk \/ blk = NoRepl
  <2>1. CASE LoadChainFails(r)
    BY <2>1, WaitingTyped DEF LoadChainFails, Reply
  <2>2. CASE AppendFails(r)
    <3>1. blk = r
      BY <1>0, <2>2 DEF PromptSound, AppendFails
    <3> QED
      BY <2>2, <3>1, WaitingTyped DEF AppendFails, Reply
  <2>3. CASE LoadChain(r)
    <3> DEFINE q == [repl[r].req EXCEPT !.step = "lock"]
    <3>1. q \in Requests /\ q.step = "lock" /\ q.next = repl[r].req.next
      BY <1>1 DEF Requests, PromptSteps
    <3>2. repl' = [repl EXCEPT ![r].req = q]
      BY <2>3 DEF LoadChain
    <3> QED
      BY <2>3, <3>1, <3>2 DEF LoadChain
  <2>4. CASE LockLog(r)
    <3> DEFINE q == [repl[r].req EXCEPT !.step = "append"]
    <3>1. q \in Requests /\ q.step = "append" /\ q.next = repl[r].req.next
      BY <1>1 DEF Requests, PromptSteps
    <3>2. repl' = [repl EXCEPT ![r].req = q]
      BY <2>4 DEF LockLog
    <3> QED
      BY <2>4, <3>1, <3>2 DEF LockLog
  <2> QED
    BY <2>1, <2>2, <2>3, <2>4
<1>3. /\ repl' \in [Repls -> Prompts]
      /\ repl'[r].req = q /\ repl'[r].key = repl[r].key
      /\ repl'[r].env = repl[r].env /\ repl'[r].override = repl[r].override
      /\ \A p \in Repls \ {r} : repl'[p] = repl[p]
  BY <1>2, RequestBecomes
<1>4. PromptSound(r)'
  BY <1>0, <1>2, <1>3 DEF PromptSound
<1> QED
  BY <1>0, <1>2, <1>3, <1>4, QuietPrompt

(* A prompt that takes a cap has put it in the log; one that starts again  *)
(* has none.                                                               *)
LEMMA OverrideKeeps ==
    ASSUME AuditInv, NEW r \in Repls, TakeCap(r) \/ Restart(r)
    PROVE  AuditInv'
<1>0. /\ PromptSound(r) /\ repl[r] \in Prompts /\ r # NoRepl
      /\ UNCHANGED <<log, trail, handEdits>>
  BY AuditAssumption DEF AuditInv, TakeCap, Restart
<1>1. /\ repl[r].req \in Requests /\ repl[r].req.next \in Nat \cup {NoCap}
      /\ IsLog(log)
  BY <1>0 DEF Prompts, Requests, AuditInv, TrailFits
<1>2. PICK c \in Nat \cup {NoCap} :
          /\ repl' = [repl EXCEPT ![r].override = c, ![r].req = Waiting]
          /\ c = NoCap \/ /\ repl[r].req.step = "unlock"
                          /\ c = repl[r].req.next
          /\ blk = r \/ blk' = blk
  <2>1. CASE TakeCap(r)
    BY <1>0, <1>1, <2>1 DEF TakeCap, PromptSound
  <2>2. CASE Restart(r)
    BY <2>2 DEF Restart
  <2> QED
    BY <2>1, <2>2
<1> DEFINE p == [repl[r] EXCEPT !.override = c, !.req = Waiting]
<1>3. /\ p \in Prompts /\ p.req.step = "prompt" /\ p.key = repl[r].key
      /\ p.env = repl[r].env /\ p.override = c
  BY <1>0, WaitingTyped DEF Prompts
<1>4. repl' = [repl EXCEPT ![r] = p]
  BY <1>2
<1> HIDE DEF p
<1>5. /\ repl' \in [Repls -> Prompts] /\ repl'[r] = p
      /\ \A q \in Repls \ {r} : repl'[q] = repl[q]
  BY <1>3, <1>4, PromptBecomes
<1>6. c # NoCap =>
          /\ Ceiling # NoCap => c <= Ceiling
          /\ handEdits = MaxHandEdits =>
                \E i \in 1..Len(log) : log[i].next = c
  <2> SUFFICES ASSUME c # NoCap
               PROVE  /\ Ceiling # NoCap => c <= Ceiling
                      /\ handEdits = MaxHandEdits =>
                            \E i \in 1..Len(log) : log[i].next = c
    OBVIOUS
  <2>1. Len(log) \in Nat
    BY <1>1, LogIsSequence
  <2>2. Len(log) # 0 => Len(log) \in 1..Len(log)
    BY <2>1
  <2> QED
    BY <1>0, <1>2, <2>2 DEF PromptSound
<1>7. PromptSound(r)'
  BY <1>0, <1>3, <1>5, <1>6 DEF PromptSound
<1> QED
  BY <1>0, <1>2, <1>5, <1>7, QuietPrompt

(* The entry a prompt appends is linked to the last one and, with a key,   *)
(* authenticates itself.                                                   *)
LEMMA NewEntryFits ==
    ASSUME NEW r \in Repls
    PROVE  LET e == NewEntry(r) IN
           /\ Shaped(e) /\ e.next = repl[r].req.next
           /\ e.link = ChainHead(log, repl[r].key)
           /\ repl[r].key # Unkeyed => e.mac = Hash(e, repl[r].key)
<1> DEFINE k == repl[r].key
           b == [prev |-> InForce(r), next |-> repl[r].req.next,
                 confirmed |-> repl[r].req.confirmed,
                 link |-> ChainHead(log, k), mac |-> NoHash]
           m == [b EXCEPT !.mac = Hash(b, k)]
<1>1. NewEntry(r) = IF k = Unkeyed THEN b ELSE m
  BY DEF NewEntry
<1> HIDE DEF k
<1>2. /\ Shaped(b) /\ b.next = repl[r].req.next /\ b.link = ChainHead(log, k)
      /\ b.mac = NoHash
  BY DEF Shaped
<1> HIDE DEF b
<1>3. Shaped(m) /\ m.next = b.next /\ m.link = b.link /\ m.mac = Hash(b, k)
  BY <1>2 DEF Shaped
<1>4. Bare(m) = Bare(b)
  BY <1>2 DEF Bare, Shaped
<1>5. Hash(m, k) = Hash(b, k)
  BY <1>4 DEF Hash
<1> HIDE DEF m
<1> QED
  BY <1>1, <1>2, <1>3, <1>5 DEF k

(* An append reads the log again under the lock, and what it links to is   *)
(* what it verified.                                                       *)
LEMMA AppendKeeps ==
    ASSUME AuditInv, NEW r \in Repls, AppendEntry(r)
    PROVE  AuditInv'
<1> PICK k, e, n : k = repl[r].key /\ e = NewEntry(r) /\ n = Len(log)
  OBVIOUS
<1>0. /\ PromptSound(r) /\ repl[r] \in Prompts
      /\ repl[r].req.step = "append" /\ Verifies(log, k)
      /\ log' = Append(log, e) /\ trail' = Append(trail, e)
      /\ UNCHANGED <<blk, handEdits>>
  BY DEF AuditInv, AppendEntry
<1>1. /\ k \in {Key, Unkeyed} /\ blk = r /\ repl[r].req \in Requests
      /\ repl[r].req.next \in Nat /\ Key # Unkeyed
      /\ Ceiling # NoCap => repl[r].req.next <= Ceiling
  BY <1>0, AuditAssumption DEF PromptSound, Prompts
<1>2. /\ Shaped(e) /\ e.next = repl[r].req.next /\ e.link = ChainHead(log, k)
      /\ k # Unkeyed => e.mac = Hash(e, k)
  BY NewEntryFits
<1>3. IsLog(log) /\ n \in Nat /\ (log = <<>> <=> n = 0)
  BY LogIsSequence DEF AuditInv, TrailFits
<1>4. log = trail
  BY <1>0, <1>1, EditBreaksLink DEF AuditInv
<1>5. /\ IsLog(log') /\ Len(log') = n + 1 /\ log'[n + 1] = e
      /\ \A i \in 1..n : log'[i] = log[i]
  BY <1>0, <1>2, <1>3, LogAppended
<1>6. trail' = log' /\ Verifies(log', k)
  BY <1>0, <1>2, <1>3, <1>4, ChainGrows
<1>7. TrailFits'
  BY <1>5, <1>6 DEF TrailFits, SameButCap
<1>8. LinksFit'
  <2> SUFFICES ASSUME NEW i \in 1..Len(log') - 1, log'[i + 1].link # NoHash
               PROVE  \E j \in {Key, Unkeyed} :
                         /\ log'[i + 1].link = Hash(log'[i], j)
                         /\ j = Key => log'[i].mac = Hash(log'[i], Key)
    BY <1>6 DEF LinksFit
  <2>0. i \in 1..n /\ log'[i] = log[i]
    BY <1>3, <1>5
  <2>1. CASE i = n
    <3>1. log # <<>> /\ log'[i + 1] = e /\ log'[i] = log[n]
      BY <1>3, <1>5, <2>0, <2>1
    <3>2. e.link = Hash(log[n], k)
      BY <1>2, <3>1 DEF ChainHead
    <3>3. k = Key => log[n].mac = Hash(log[n], Key)
      BY <1>0, <1>1, <3>1 DEF Verifies
    <3> QED
      BY <1>1, <3>1, <3>2, <3>3
  <2>2. CASE i # n
    <3>1. i \in 1..n - 1 /\ i + 1 \in 1..n
      BY <1>3, <2>0, <2>2
    <3>2. log'[i + 1] = log[i + 1]
      BY <1>5, <3>1
    <3> QED
      BY <1>4, <2>0, <3>1, <3>2 DEF AuditInv, LinksFit
  <2> QED
    BY <2>1, <2>2
<1>9. ChainHolds'
  BY <1>1, <1>6 DEF ChainHolds
<1> DEFINE q == [repl[r].req EXCEPT !.step = "unlock"]
<1>10. q \in Requests /\ q.step = "unlock" /\ q.next = repl[r].req.next
  BY <1>1 DEF Requests, PromptSteps
<1>11. repl' = [repl EXCEPT ![r].req = q]
  BY DEF AppendEntry
<1> HIDE DEF q
<1>12. /\ repl' \in [Repls -> Prompts]
       /\ repl'[r].req = q /\ repl'[r].key = repl[r].key
       /\ repl'[r].env = repl[r].env /\ repl'[r].override = repl[r].override
       /\ \A p \in Repls \ {r} : repl'[p] = repl[p]
  BY <1>10, <1>11, RequestBecomes
<1>13. ASSUME NEW c, \E i \in 1..n : log[i].next = c
       PROVE  \E i \in 1..Len(log') : log'[i].next = c
  <2> PICK i \in 1..n : log[i].next = c
    BY <1>13
  <2>1. i \in 1..Len(log') /\ log'[i] = log[i]
    BY <1>3, <1>5
  <2> QED
    BY <2>1
<1>14. PromptSound(r)'
  <2>1. /\ Len(log') # 0 /\ log'[Len(log')] = e
    BY <1>3, <1>5
  <2> QED
    BY <1>0, <1>1, <1>2, <1>10, <1>12, <1>13, <2>1 DEF PromptSound
<1>15. ASSUME NEW p \in Repls \ {r} PROVE PromptSound(p)'
  <2>1. PromptSound(p) /\ repl'[p] = repl[p] /\ blk # p
    BY <1>1, <1>12, <1>15 DEF AuditInv
  <2> QED
    BY <1>0, <1>13, <2>1 DEF PromptSound
<1>16. handEdits' \in Nat /\ handEdits' <= MaxHandEdits
  BY <1>0 DEF AuditInv
<1> QED
  BY <1>7, <1>8, <1>9, <1>12, <1>14, <1>15, <1>16 DEF AuditInv

(* A hand edit leaves links and macs as they are, and the trail too where  *)
(* the chain covers the entry.                                             *)
LEMMA EditKeeps ==
    ASSUME AuditInv, NEW i \in 1..Len(log), NEW cap \in Caps, EditEntry(i, cap)
    PROVE  AuditInv'
<1> PICK n : n = Len(log)
  OBVIOUS
<1>0. /\ IsLog(log) /\ IsLog(trail) /\ n \in Nat /\ Len(trail) = n
      /\ i \in 1..n
  BY LogIsSequence DEF AuditInv, TrailFits
<1>1. /\ log' = [log EXCEPT ![i].next = cap]
      /\ trail' = IF Covered(i) THEN trail ELSE [trail EXCEPT ![i].next = cap]
      /\ UNCHANGED <<blk, repl>>
      /\ handEdits' \in Nat /\ handEdits' < MaxHandEdits
  BY AuditAssumption DEF AuditInv, EditEntry
<1>2. /\ IsLog(log') /\ Len(log') = n
      /\ \A j \in 1..n \ {i} : log'[j] = log[j]
      /\ log'[i].next = cap /\ SameButCap(log'[i], log[i])
  <2> DEFINE t == [log EXCEPT ![i].next = cap]
  <2>1. /\ IsLog(t) /\ Len(t) = Len(log)
        /\ \A j \in 1..Len(log) \ {i} : t[j] = log[j]
        /\ t[i].next = cap /\ SameButCap(t[i], log[i])
    BY <1>0, LogEdited
  <2> HIDE DEF t
  <2> QED
    BY <1>1, <2>1 DEF t
<1>3. \A j \in 1..n : SameButCap(log'[j], log[j]) /\ SameButCap(log[j], trail[j])
  BY <1>2 DEF AuditInv, TrailFits, SameButCap
<1>s. \A j \in 1..n : Shaped(log'[j]) /\ Shaped(trail[j]) /\ Shaped(log[j])
  BY <1>0, <1>2 DEF IsLog
<1>l. \A j \in 1..n : log'[j].link = log[j].link
  BY <1>3 DEF SameButCap
<1>4. \A j \in 1..n : Covered(j)' <=> Covered(j)
  <2> TAKE j \in 1..n
  <2>1. j < n => j + 1 \in 1..n
    BY <1>0
  <2> QED
    BY <1>2, <1>l, <2>1 DEF Covered
<1>5. \A j \in 1..n : log[j] # trail[j] =>
                          Covered(j) /\ log[j].next # trail[j].next
  BY DEF AuditInv, TrailFits
<1>6. /\ IsLog(trail') /\ Len(trail') = n
      /\ \A j \in 1..n : j # i \/ Covered(i) => trail'[j] = trail[j]
      /\ ~Covered(i) => trail'[i].next = cap
      /\ SameButCap(trail'[i], trail[i])
  <2>1. CASE Covered(i)
    BY <1>0, <1>1, <2>1 DEF SameButCap
  <2>2. CASE ~Covered(i)
    <3> DEFINE t == [trail EXCEPT ![i].next = cap]
    <3>1. /\ IsLog(t) /\ Len(t) = Len(trail)
          /\ \A j \in 1..Len(trail) \ {i} : t[j] = trail[j]
          /\ t[i].next = cap /\ SameButCap(t[i], trail[i])
      BY <1>0, LogEdited
    <3> HIDE DEF t
    <3> QED
      BY <1>0, <1>1, <2>2, <3>1 DEF t
  <2> QED
    BY <2>1, <2>2
<1>7. \A j \in 1..n : Shaped(trail'[j]) /\ SameButCap(log'[j], trail'[j])
  BY <1>0, <1>3, <1>6 DEF IsLog, SameButCap
<1>8. \A j \in 1..n : log'[j] # trail'[j] =>
                          Covered(j)' /\ log'[j].next # trail'[j].next
  <2> SUFFICES ASSUME NEW j \in 1..n, log'[j] # trail'[j]
               PROVE  Covered(j) /\ log'[j].next # trail'[j].next
    BY <1>4
  <2>1. log'[j].next # trail'[j].next
    BY <1>s, <1>7 DEF Shaped, SameButCap
  <2>2. Covered(j)
    <3>1. CASE j = i
      BY <1>2, <1>6, <2>1, <3>1
    <3>2. CASE j # i
      BY <1>2, <1>5, <1>6, <3>2
    <3> QED
      BY <3>1, <3>2
  <2> QED
    BY <2>1, <2>2
<1>9. TrailFits'
  BY <1>2, <1>6, <1>7, <1>8 DEF TrailFits
<1>10. LinksFit'
  <2> SUFFICES ASSUME NEW j \in 1..n - 1, log'[j + 1].link # NoHash
               PROVE  \E k \in {Key, Unkeyed} :
                         /\ log'[j + 1].link = Hash(trail'[j], k)
                         /\ k = Key => trail'[j].mac = Hash(trail'[j], Key)
    BY <1>2 DEF LinksFit
  <2>1. j \in 1..n /\ j + 1 \in 1..n /\ j < n
    BY <1>0
  <2>2. log'[j + 1].link = log[j + 1].link
    BY <1>l, <2>1
  <2>3. Covered(j)
    BY <2>1, <2>2 DEF Covered
  <2>4. trail'[j] = trail[j]
    BY <1>6, <2>1, <2>3
  <2> QED
    BY <2>2, <2>4 DEF AuditInv, LinksFit
<1>11. ASSUME NEW r \in Repls PROVE PromptSound(r)'
  BY <1>1, AuditAssumption DEF AuditInv, PromptSound
<1>12. ChainHolds'
  BY <1>1 DEF ChainHolds
<1> QED
  BY <1>1, <1>9, <1>10, <1>11, <1>12, AuditAssumption DEF AuditInv

(* The invariant holds at the start and no step breaks it. *)
LEMMA AuditInvariant == AuditSpec => []AuditInv
<1>1. AuditInit => AuditInv
  <2> SUFFICES ASSUME AuditInit PROVE AuditInv
    OBVIOUS
  <2>1. PICK env \in [Repls -> Envs] :
           repl = [r \in Repls |-> [env |-> env[r], key |-> KeyOf(env[r]),
                                    override |-> NoCap, req |-> Waiting]]
    BY DEF AuditInit
  <2>2. \A e \in Envs : KeyOf(e) \in {Key, Unkeyed, BadKey}
    BY DEF KeyOf
  <2>3. repl \in [Repls -> Prompts]
    BY <2>1, <2>2, WaitingTyped DEF Prompts
  <2>4. \A r \in Repls : PromptSound(r)
    BY <2>1, WaitingTyped DEF PromptSound
  <2>5. /\ IsLog(log) /\ Verifies(log, Unkeyed) /\ trail = log
        /\ \A i \in 1..Len(log) : log[i].link = NoHash
    BY LegacyFits DEF AuditInit
  <2>6. TrailFits /\ ChainHolds
    BY <2>5 DEF TrailFits, ChainHolds, SameButCap
  <2>7. LinksFit
    <3>1. Len(log) \in Nat
      BY <2>5, LogIsSequence
    <3>2. \A i \in 1..Len(log) - 1 : i + 1 \in 1..Len(log)
      BY <3>1
    <3> QED
      BY <2>5, <3>2 DEF LinksFit
  <2>8. handEdits \in Nat /\ handEdits <= MaxHandEdits
    BY AuditAssumption DEF AuditInit
  <2> QED
    BY <2>3, <2>4, <2>6, <2>7, <2>8 DEF AuditInv
<1>2. AuditInv /\ [AuditNext]_auditVars => AuditInv'
  <2> SUFFICES ASSUME AuditInv, [AuditNext]_auditVars PROVE AuditInv'
    OBVIOUS
  <2>1. DOMAIN log = 1..Len(log)
    BY LogIsSequence DEF AuditInv, TrailFits
  <2>2. CASE UNCHANGED auditVars
    BY <2>2 DEF auditVars, AuditInv, TrailFits, LinksFit, ChainHolds, Covered,
                PromptSound
  <2>3. CASE AuditNext
    BY <2>1, <2>3, SetBudgetKeeps, RequestKeeps, OverrideKeeps, AppendKeeps,
       EditKeeps DEF AuditNext
  <2> QED
    BY <2>2, <2>3
<1> QED
  BY <1>1, <1>2, PTL DEF AuditSpec

(* For every number of prompts, with and without a key, every log an       *)
(* earlier version left and any number of hand edits: the chain holds      *)
(* while nobody edits it, what is changed in it is noticed, a keyed log is *)
(* authenticated to its last entry, and no prompt runs under a cap that is *)
(* not in the log or above the ceiling (budget_audit.rs:167-213, 335-418,  *)
(* 460-492).                                                               *)
THEOREM AuditStaysSound == AuditSpec => []AuditTrailSound
<1>1. AuditInv => AuditTrailSound
  <2> SUFFICES ASSUME AuditInv PROVE AuditTrailSound
    OBVIOUS
  <2>0. /\ TrailFits /\ LinksFit /\ Len(log) \in Nat
        /\ DOMAIN log = 1..Len(log) /\ Key # Unkeyed
        /\ (log = <<>> <=> Len(log) = 0)
    BY LogIsSequence, AuditAssumption DEF AuditInv, TrailFits
  <2>1. EditIsNoticed
    BY <2>0, EditBreaksLink DEF EditIsNoticed
  <2>2. KeyedLogIsKeyed
    <3> SUFFICES ASSUME Verifies(log, Key), NEW i \in 1..Len(log)
                 PROVE  log[i].mac = Hash(log[i], Key)
      BY <2>0 DEF KeyedLogIsKeyed
    <3>1. log = trail
      BY <2>0, EditBreaksLink
    <3>2. CASE i = Len(log)
      BY <2>0, <3>2 DEF Verifies
    <3>3. CASE i # Len(log)
      <4>1. i \in 1..Len(log) - 1 /\ i + 1 \in 2..Len(log) /\ (i + 1) - 1 = i
        <5>1. Len(log) \in Nat /\ i \in 1..Len(log) /\ i # Len(log)
          BY <2>0, <3>3
        <5> QED
          BY <5>1
      <4>2. log[i + 1].link = Hash(log[i], Key)
        BY <2>0, <4>1 DEF Verifies, Tolerated, Linked
      <4>3. Shaped(log[i])
        BY <2>0 DEF TrailFits, IsLog
      <4> QED
        BY <2>0, <3>1, <4>1, <4>2, <4>3, HashTells DEF LinksFit
    <3> QED
      BY <3>2, <3>3
  <2>3. RequestedKeyIsUsed
    <3> SUFFICES ASSUME NEW r \in Repls, Requested(repl[r].env),
                        repl[r].req.step = "unlock", handEdits = MaxHandEdits
                 PROVE  log[Len(log)].mac = Hash(log[Len(log)], Key)
      BY AuditAssumption DEF RequestedKeyIsUsed, AuditInv
    <3>1. PromptSound(r) /\ repl[r].env \in Envs
      BY DEF AuditInv, Prompts
    <3> PICK e : e = repl[r].env
      OBVIOUS
    <3>2. KeyOf(e) \in {Key, BadKey}
      <4>1. e.raw \in {"notUnicode", "key"} \/ e.file \notin {"absent", "blank"}
        BY DEF Requested
      <4>2. CASE e.raw = "notUnicode"
        BY <4>2 DEF KeyOf
      <4>3. CASE e.raw = "key"
        BY <4>3 DEF KeyOf
      <4>4. CASE /\ e.raw \notin {"notUnicode", "key"}
                 /\ e.file \notin {"absent", "blank"}
        <5>1. CASE e.file = "key"
          BY <4>4, <5>1 DEF KeyOf
        <5>2. CASE e.file # "key"
          BY <4>4, <5>2 DEF KeyOf
        <5> QED
          BY <5>1, <5>2
      <4> QED
        BY <4>1, <4>2, <4>3, <4>4
    <3> QED
      BY <3>1, <3>2 DEF PromptSound
  <2>4. ChainHolds /\ MigrationIsNamed
    BY <2>0 DEF AuditInv, ChainHolds, MigrationIsNamed, Diagnosis
  <2>5. CapIsAudited
    BY <2>0 DEF AuditInv, PromptSound, CapIsAudited
  <2> QED
    BY <2>1, <2>2, <2>3, <2>4, <2>5 DEF AuditTrailSound
<1> QED
  BY <1>1, AuditInvariant, PTL
=============================================================================
