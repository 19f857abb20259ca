------------------------------ MODULE Mailbox ------------------------------
(***************************************************************************)
(* The mailbox of the coordination ledger (mayor_patrol.rs): a mail is a   *)
(* file in its recipient's inbox, written in one rename; draining reads    *)
(* and removes the files one by one in name order.  Nothing locks the      *)
(* inbox: several processes send to it and drain it, and one may be killed *)
(* while it drains.  The one sender, recover_orphans, gives a mail the id  *)
(* of the task it took from the recipient, so that ids repeat.             *)
(***************************************************************************)
EXTENDS Naturals, Sequences, SequencesExt, FiniteSets

CONSTANTS
    Mails,         \* what is sent, each once
    NameOf,        \* the id of a mail, a task id: the rank of its file name
    Drainers,      \* processes that drain the inbox
    Malformed,     \* a file that does not parse
    NoMail,        \* no file of that name
    Enabled,       \* coordination_enabled
    MaxMailKills   \* bound: drainers killed

MailIds == {NameOf[m] : m \in Mails}

ASSUME MailAssumption ==
    /\ NameOf \in [Mails -> Nat]
    /\ {Malformed, NoMail} \cap Mails = {}
    /\ Enabled \in BOOLEAN
    /\ MaxMailKills \in Nat

VARIABLES
    inbox,     \* what is in the file of each id
    sentMail,  \* mails send_mail returned Ok for, in order
    drain,     \* each drainer: the names it listed and has to visit, its out
    returned,  \* the mails drain_mail returned
    lostMail,  \* mails a killed drainer had read
    behind,    \* history: mails that came while a drainer had read the file of
               \* their name and not yet removed it
    mailKills

mailVars == <<inbox, sentMail, drain, returned, lostMail, behind, mailKills>>

MailIdle == [at |-> "idle", todo |-> <<>>, out |-> <<>>]

MailInit ==
    /\ inbox \in [MailIds -> {NoMail, Malformed}]
    /\ sentMail = <<>>
    /\ drain = [d \in Drainers |-> MailIdle]
    /\ returned = {}
    /\ lostMail = {}
    /\ behind = {}
    /\ mailKills = 0

(* Somebody has read the file of a name and is about to remove it. *)
BeingRemoved(i) ==
    \E d \in Drainers : drain[d].at = "remove" /\ Head(drain[d].todo) = i

(* write_json_atomic replaces what the file held; disabled, nothing. *)
send_mail(m) ==
    /\ m \notin Range(sentMail)
    /\ inbox' = IF Enabled THEN [inbox EXCEPT ![NameOf[m]] = m] ELSE inbox
    /\ sentMail' = Append(sentMail, m)
    /\ behind' = IF BeingRemoved(NameOf[m]) THEN behind \cup {m} ELSE behind
    /\ UNCHANGED <<drain, returned, lostMail, mailKills>>

(* drain_mail lists the file names, sorted. *)
SortedNames ==
    SetToSortSeq({i \in MailIds : Enabled /\ inbox[i] # NoMail},
                 LAMBDA x, y : x < y)

ListInbox(d) ==
    /\ drain[d].at = "idle"
    /\ drain' = [drain EXCEPT ![d] =
                    [MailIdle EXCEPT !.at = "read", !.todo = SortedNames]]
    /\ UNCHANGED <<inbox, sentMail, returned, lostMail, behind, mailKills>>

(* A file that is gone or does not parse is passed over. *)
ReadMail(d) ==
    /\ drain[d].at = "read" /\ drain[d].todo # <<>>
    /\ LET found == inbox[Head(drain[d].todo)]
       IN drain' = IF found \in Mails
                   THEN [drain EXCEPT ![d].at = "remove", ![d].out = Append(@, found)]
                   ELSE [drain EXCEPT ![d].todo = Tail(@)]
    /\ UNCHANGED <<inbox, sentMail, returned, lostMail, behind, mailKills>>

(* The drainer goes on to the next name. *)
Visited(d) == drain' = [drain EXCEPT ![d].at = "read", ![d].todo = Tail(@)]

(* Mutation: the inbox is removed as a whole with its last listed file. *)
RemoveMail_Directory(d) ==
    /\ drain[d].at = "remove"
    /\ inbox' = IF Len(drain[d].todo) = 1
                THEN [i \in MailIds |-> NoMail]
                ELSE [inbox EXCEPT ![Head(drain[d].todo)] = NoMail]
    /\ Visited(d)
    /\ UNCHANGED <<sentMail, returned, lostMail, behind, mailKills>>

(* Whatever the file holds by now is removed; an error is passed over. *)
RemoveMail(d) ==
    /\ drain[d].at = "remove"
    /\ \/ inbox' = [inbox EXCEPT ![Head(drain[d].todo)] = NoMail]
       \/ UNCHANGED inbox
    /\ Visited(d)
    /\ UNCHANGED <<sentMail, returned, lostMail, behind, mailKills>>

ReturnMails(d) ==
    /\ drain[d].at = "read" /\ drain[d].todo = <<>>
    /\ returned' = returned \cup Range(drain[d].out)
    /\ drain' = [drain EXCEPT ![d] = MailIdle]
    /\ UNCHANGED <<inbox, sentMail, lostMail, behind, mailKills>>

KillDrainer(d) ==
    /\ mailKills < MaxMailKills
    /\ drain[d].at # "idle"
    /\ lostMail' = lostMail \cup Range(drain[d].out)
    /\ drain' = [drain EXCEPT ![d] = MailIdle]
    /\ mailKills' = mailKills + 1
    /\ UNCHANGED <<inbox, sentMail, returned, behind>>

MailNext ==
    \/ \E m \in Mails : send_mail(m)
    \/ \E d \in Drainers : \/ ListInbox(d) \/ ReadMail(d) \/ RemoveMail(d)
                           \/ ReturnMails(d) \/ KillDrainer(d)

MailSpec == MailInit /\ [][MailNext]_mailVars

-----------------------------------------------------------------------------
(* A mail is in its file, or somebody has read it. *)
Reachable(m) ==
    \/ inbox[NameOf[m]] = m
    \/ m \in returned \cup lostMail
    \/ \E d \in Drainers : m \in Range(drain[d].out)

(***************************************************************************)
(* A mail that was sent is in the inbox until somebody has read it,        *)
(* whoever drains at the same time, unless its id comes again: a later     *)
(* mail of that id replaces it unread, and one that comes while a drainer  *)
(* stands between reading and removing the file of that id is removed      *)
(* unread (mayor_patrol.rs:371, 1411).  Of the mails about one task at     *)
(* least one is always within reach.  A drain that lists the inbox before  *)
(* a mail arrives does not take it away, and only a drainer that is killed *)
(* before it returns loses what it had taken out.                          *)
(***************************************************************************)
MailNotLost ==
    Enabled =>
        \A k \in DOMAIN sentMail :
            /\ \/ Reachable(sentMail[k])
               \/ sentMail[k] \in behind
               \/ \E j \in DOMAIN sentMail :
                     k < j /\ NameOf[sentMail[j]] = NameOf[sentMail[k]]
            /\ \E m \in Mails : /\ NameOf[m] = NameOf[sentMail[k]]
                                 /\ Reachable(m)
=============================================================================
