--------------------------------- MODULE MCApi ---------------------------------
(***************************************************************************)
(* The parts of the API process that share no state: the chat log, the     *)
(* database sessions with their tenants, the rate limiter, and the cached  *)
(* clients.  One run checks all four, one at a time.                       *)
(***************************************************************************)
EXTENDS ChatLog, Tenancy, Limits, TLC

CONSTANTS t1, t2, t3, t4, s1, s2, r1, r2, poll, job, m1, m2, c1, c2, c3, ip1, ip2, k1, k2, k3, k4

VARIABLE part

\* Chats.
FourTurns == {t1, t2, t3, t4}
OneStream == {t2}
OneSide == {t1}
MCLimit == <<2, 0>>
MCSessions == {s1, s2}
TwoSessions == [t \in FourTurns |-> IF t = t4 THEN s2 ELSE s1]

\* Two streamed chats with two models, a request without one, and a job in a pool of its own.
MCRequests == {r1, r2}
MCTasks == {job}
MCBare == {poll}
MCModels == {m1, m2}
MCTenant == r1 :> m1 @@ r2 :> m2 @@ job :> m1
MCConns == {c1, c2, c3}
MCPool == [u \in {r1, r2, poll} |-> {c1, c2}] @@ job :> {c3}

MCCallers == {ip1, ip2}
MCApiKeys == {k1, k2, k3, k4}

all == <<vars, tvars, lvars, part>>

ApiInit == Init /\ TenancyInit /\ LimitsInit /\ part \in {"chats", "sessions", "limiter", "clients"}

ApiNext == \/ part = "chats" /\ Next /\ UNCHANGED <<tvars, lvars, part>>
           \/ part = "sessions" /\ TenancyNext /\ UNCHANGED <<vars, lvars, part>>
           \/ part = "limiter" /\ Limiting /\ UNCHANGED <<vars, tvars, part>>
           \/ part = "clients" /\ Caching /\ UNCHANGED <<vars, tvars, part>>

ApiSpec == ApiInit /\ [][ApiNext]_all /\ Fairness /\ TenancyFairness
===============================================================================
