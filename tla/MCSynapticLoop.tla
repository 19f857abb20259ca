--------------------------- MODULE MCSynapticLoop ---------------------------
(* Constants of the instances of SynapticLoop that TLC checks. *)
EXTENDS SynapticLoop

(* Every strategy, policy and strictness, with and without a check. *)
GateConfigs ==
    {c \in [strategy : {"consensus", "pipeline", "tournament"},
            policy : Policies, nits : BOOLEAN, goal : BOOLEAN,
            stallMax : {0}, halts : BOOLEAN, enforces : {TRUE},
            apply : {FALSE}, daemon : {TRUE}] :
        c.halts <=> c.strategy = "consensus"}

(* The refinement loop with a stall limit of one or two. *)
StallConfigs ==
    [strategy : {"consensus"}, policy : {"lead"}, nits : {TRUE},
     goal : {TRUE}, stallMax : {1, 2}, halts : {FALSE}, enforces : {FALSE},
     apply : {TRUE}, daemon : {FALSE}]

(* What a call reports: nothing, a token, or an estimated cost. *)
Free   == [tokens |-> 0, cost |-> 0]
Token  == [tokens |-> 1, cost |-> 0]
Dollar == [tokens |-> 0, cost |-> 1]

Nothing     == {Free}
SomeTokens  == {Free, Token}
EitherUsage == {Free, Token, Dollar}

(* One plain configuration of the loop, applied on acceptance. *)
PlainConfigs ==
    [strategy : {"consensus"}, policy : {"abort"}, nits : {TRUE},
     goal : {TRUE}, stallMax : {0}, halts : {FALSE}, enforces : {FALSE},
     apply : {TRUE}, daemon : {TRUE}]

=============================================================================
