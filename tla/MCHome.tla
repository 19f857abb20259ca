------------------------------- MODULE MCHome -------------------------------
(***************************************************************************)
(* What Nerve keeps below .nerve/: the session store, the session tree,    *)
(* the budget log and the mailbox.  They share no state, so that each      *)
(* history follows one of them and leaves the others as they start.        *)
(***************************************************************************)
EXTENDS SessionStore, SessionFork, BudgetAudit, Mailbox

VARIABLE focus   \* the component a history is about

homeVars == <<storeVars, forkVars, auditVars, mailVars, focus>>

(* Two rounds in the stored report. *)
MCRoundsOf == [r \in Reports |-> <<1, 2>>]

(* No key, a key in the environment, and a key file that cannot be read. *)
NoKeyEnv == [raw |-> "absent", file |-> "absent"]
MCEnvs == {NoKeyEnv, [raw |-> "key", file |-> "absent"],
           [raw |-> "blank", file |-> "unreadable"]}

(* An empty log, and one entry of the time before the chain. *)
MCLegacy ==
    {<<>>, <<[prev |-> NoCap, next |-> 1, confirmed |-> FALSE,
              link |-> NoHash, mac |-> NoHash]>>}

(* Two mails about one task, and one about another. *)
MCNameOf == [m \in Mails |-> IF m = <<"mail", 3>> THEN 2 ELSE 1]
MCMails == {<<"mail", i>> : i \in 1 .. 3}

MCInit ==
    /\ focus \in {"store", "tree", "audit", "mail"}
    /\ StoreInit /\ ForkInit /\ AuditInit /\ MailInit
    /\ focus # "audit" => log = <<>> /\ \A r \in Repls : repl[r].env = NoKeyEnv
    /\ focus # "mail" => \A i \in MailIds : inbox[i] = NoMail

MCNext ==
    /\ \/ /\ focus = "store" /\ StoreNext
          /\ UNCHANGED <<forkVars, auditVars, mailVars>>
       \/ /\ focus = "tree" /\ ForkNext
          /\ UNCHANGED <<storeVars, auditVars, mailVars>>
       \/ /\ focus = "audit" /\ AuditNext
          /\ UNCHANGED <<storeVars, forkVars, mailVars>>
       \/ /\ focus = "mail" /\ MailNext
          /\ UNCHANGED <<storeVars, forkVars, auditVars>>
    /\ UNCHANGED focus

MCSpec == MCInit /\ [][MCNext]_homeVars

=============================================================================
