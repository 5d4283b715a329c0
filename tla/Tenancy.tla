-------------------------------- MODULE Tenancy --------------------------------
(***************************************************************************)
(* Database sessions and the tenant they run under: app.model_id is        *)
(* published to the transaction of a pooled connection, by the after_begin *)
(* listener from a unit's ContextVar, or by bind_tenant where the tenant   *)
(* was found by a query.  Row-level security reads it.                     *)
(*                                                                         *)
(* A unit is a request or a job.  A streamed chat logs in a session of its *)
(* own, while the request's session is still open.                         *)
(***************************************************************************)
EXTENDS Naturals, FiniteSets

CONSTANTS
    Requests,  \* requests to a model, named by its slug
    Streamed,  \* the chat requests answered by a stream
    Tasks,     \* jobs in a worker's hands
    Bare,      \* requests and polls that are about no model
    Models,
    Tenant,    \* Tenant[u]: the model of a request or a job
    Conns,     \* pooled connections
    Pool,      \* Pool[u]: the connections of u's process
    Nobody,    \* no tenant
    NoConn

Units  == Requests \cup Tasks \cup Bare
Scoped == Requests \cup Tasks
Both   == {"main", "log"}

ASSUME TenancyAssumption ==
    /\ Requests \cap Tasks = {} /\ Scoped \cap Bare = {} /\ Streamed \subseteq Requests
    /\ Nobody \notin Models /\ NoConn \notin Conns
    /\ Tenant \in [Scoped -> Models]
    /\ Pool \in [Units -> SUBSET Conns]

VARIABLES
    phase,    \* phase[u]
    tenant,   \* tenant[u]: current_model_id() in u's context
    tx,       \* tx[u][k]: the connection of the open transaction of u's session k
    setting,  \* setting[c]: app.model_id on connection c
    ran       \* history: the tenants u's statements ran under, once u was let in

tvars == <<phase, tenant, tx, setting, ran>>

TenancyInit ==
    /\ phase = [u \in Units |-> "new"]
    /\ tenant = [u \in Units |-> Nobody]
    /\ tx = [u \in Units |-> [k \in Both |-> NoConn]]
    /\ setting = [c \in Conns |-> Nobody]
    /\ ran = [u \in Units |-> {}]

-------------------------------------------------------------------------------
(* Transactions *)

Idle == {c \in Conns : \A u \in Units, k \in Both : tx[u][k] # c}

Move(u, to) == phase' = [phase EXCEPT ![u] = to]

\* Nothing is published where nothing is known.
AfterBegin(u, c) == IF tenant[u] = Nobody THEN setting[c] ELSE tenant[u]

\* A statement of session k runs on c; the first one begins a transaction.
Execute(u, k, c) ==
    /\ \/ c = tx[u][k] /\ UNCHANGED setting
       \/ /\ tx[u][k] = NoConn /\ c \in Pool[u] \cap Idle
          /\ setting' = [setting EXCEPT ![c] = AfterBegin(u, c)]
    /\ c \in Conns
    /\ tx' = [tx EXCEPT ![u][k] = c]

\* Mutant: the setting outlives its transaction.
Unset_Never(cs) == setting

Unset(cs) == [c \in Conns |-> IF c \in cs THEN Nobody ELSE setting[c]]

\* COMMIT or ROLLBACK: the setting goes, and the connection back to the pool.
EndTransactions(u, ks) ==
    /\ tx' = [tx EXCEPT ![u] = [k \in Both |-> IF k \in ks THEN NoConn ELSE tx[u][k]]]
    /\ setting' = Unset({tx[u][k] : k \in ks})
-------------------------------------------------------------------------------
(* Requests and jobs *)

\* The slug is looked up; 404 if there is no such model, or no longer.
Resolve(u) == /\ u \in Requests /\ phase[u] = "new"
              /\ \E c \in Conns : Execute(u, "main", c)
              /\ Move(u, "resolved") \/ Move(u, "closing")
              /\ UNCHANGED <<tenant, ran>>

\* Mutant: the transaction that is already open is not told.
BindTenant_ContextOnly(u) == /\ phase[u] = "resolved"
                             /\ tenant' = [tenant EXCEPT ![u] = Tenant[u]]
                             /\ Move(u, "bound")
                             /\ UNCHANGED <<tx, setting, ran>>

BindTenant(u) == /\ phase[u] = "resolved"
                 /\ tenant' = [tenant EXCEPT ![u] = Tenant[u]]
                 /\ setting' = [setting EXCEPT ![tx[u]["main"]] = Tenant[u]]
                 /\ Move(u, "bound")
                 /\ UNCHANGED <<tx, ran>>

\* Hosted chat, or a Clerk user whose row needs no change.
LetIn(u) == /\ phase[u] = "bound"
            /\ Move(u, "in")
            /\ UNCHANGED <<tenant, tx, setting, ran>>

\* An API key's last_used_at, or the user's row, is committed in the request's session.
LetInAndCommit(u) == /\ phase[u] = "bound"
                     /\ EndTransactions(u, {"main"})
                     /\ Move(u, "in")
                     /\ UNCHANGED <<tenant, ran>>

\* The worker's tenant_scope around a handler.
EnterScope(u) == /\ u \in Tasks /\ phase[u] = "new"
                 /\ tenant' = [tenant EXCEPT ![u] = Tenant[u]]
                 /\ Move(u, "in")
                 /\ UNCHANGED <<tx, setting, ran>>

\* No model is looked up, or not by its slug.
EnterBare(u) == /\ u \in Bare /\ phase[u] = "new"
                /\ Move(u, "in")
                /\ UNCHANGED <<tenant, tx, setting, ran>>

\* Any statement of an endpoint or a handler; those on content_chunks see, and may
\* write, the rows of the setting's model.
Query(u) == /\ phase[u] = "in"
            /\ \E c \in Conns : /\ Execute(u, "main", c)
                                /\ ran' = [ran EXCEPT ![u] = @ \cup {setting'[c]}]
            /\ UNCHANGED <<phase, tenant>>

\* A commit on the way, or the end of one of a handler's sessions.
Commit(u) == /\ phase[u] = "in" /\ tx[u]["main"] # NoConn
             /\ EndTransactions(u, {"main"})
             /\ UNCHANGED <<phase, tenant, ran>>

\* The context is found; the generation streams on, with the request's session open.
Stream(u) == /\ u \in Streamed /\ phase[u] = "in"
             /\ Move(u, "streaming")
             /\ UNCHANGED <<tenant, tx, setting, ran>>

\* _log_message in the stream's own session.
OpenLog(u) == /\ phase[u] = "streaming"
              /\ \E c \in Conns : /\ Execute(u, "log", c)
                                  /\ ran' = [ran EXCEPT ![u] = @ \cup {setting'[c]}]
              /\ Move(u, "logging")
              /\ UNCHANGED tenant

\* Answered, refused, failed or cancelled.
Leave(u) == /\ phase[u] \in {"bound", "in", "streaming", "logging"}
            /\ Move(u, "closing")
            /\ UNCHANGED <<tenant, tx, setting, ran>>

\* Mutant: a request waits for a connection as long as it takes.
PoolTimeout_Never(u) == FALSE

\* The pool is exhausted for longer than its timeout.
PoolTimeout(u) == /\ \/ u \in Requests /\ phase[u] = "new"
                     \/ phase[u] = "in" /\ tx[u]["main"] = NoConn
                     \/ phase[u] = "streaming"
                  /\ Pool[u] \cap Idle = {}
                  /\ Move(u, "closing")
                  /\ UNCHANGED <<tenant, tx, setting, ran>>

\* The sessions close, and the context or the scope ends.
Close(u) == /\ phase[u] = "closing"
            /\ EndTransactions(u, Both)
            /\ tenant' = [tenant EXCEPT ![u] = Nobody]
            /\ Move(u, "over")
            /\ UNCHANGED ran

Answered(u) == phase[u] \in {"in", "logging"} /\ Leave(u)

\* What leads to the end of a unit that has begun.
Progress(u) == \/ BindTenant(u) \/ LetIn(u) \/ Answered(u)
               \/ OpenLog(u) \/ PoolTimeout(u) \/ Close(u)

UnitStep(u) == \/ Resolve(u) \/ BindTenant(u) \/ LetIn(u) \/ LetInAndCommit(u)
               \/ EnterScope(u) \/ EnterBare(u) \/ Query(u) \/ Commit(u)
               \/ Stream(u) \/ OpenLog(u) \/ Leave(u) \/ PoolTimeout(u) \/ Close(u)

TenancyNext == \E u \in Units : UnitStep(u)

TenancySpec == TenancyInit /\ [][TenancyNext]_tvars

TenancyFairness == \A u \in Units : WF_tvars(Progress(u))
-------------------------------------------------------------------------------
(* Properties *)

TenancyTypeOK ==
    /\ phase \in [Units -> {"new", "resolved", "bound", "in", "streaming", "logging",
                            "closing", "over"}]
    /\ tenant \in [Units -> Models \cup {Nobody}]
    /\ tx \in [Units -> [Both -> Conns \cup {NoConn}]]
    /\ setting \in [Conns -> Models \cup {Nobody}]
    /\ ran \in [Units -> SUBSET (Models \cup {Nobody})]
    /\ \A u \in Units : phase[u] \in {"new", "over"} => tx[u] = [k \in Both |-> NoConn]

\* Whoever is let in, every statement runs under its own model: neither under another's,
\* left on the connection or in the context by a neighbour, nor under none, which would
\* hide every chunk; after a commit in the middle of the request, too.
RanScoped ==
    \A u \in Units : ran[u] \subseteq IF u \in Bare THEN {Nobody} ELSE {Tenant[u]}

\* A connection returns to the pool without a tenant, and serves one transaction at a time.
PooledClean ==
    /\ \A c \in Idle : setting[c] = Nobody
    /\ \A u, v \in Units : \A k, l \in Both :
          tx[u][k] = tx[v][l] /\ tx[u][k] # NoConn => u = v /\ k = l

\* Every request and job ends.  Streams may all hold a connection for their request and
\* wait for one to log with; then the timeout of the pool ends some of them unlogged.
UnitsEnd == \A u \in Units : phase[u] # "new" ~> phase[u] = "over"
===============================================================================
