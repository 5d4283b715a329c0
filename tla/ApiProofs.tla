------------------------------- MODULE ApiProofs -------------------------------
(***************************************************************************)
(* What the API process keeps between requests.                            *)
(*                                                                         *)
(* Every statement runs under its own model's tenant, for any requests,    *)
(* jobs, models and connections.  What makes it inductive: the setting of  *)
(* a connection with an open transaction is the tenant of the context that *)
(* opened it (OwnSetting), which changes only together with the setting.   *)
(*                                                                         *)
(* The rate limiter keeps its rate, for any callers and limits: what it    *)
(* has forgotten of the grants had expired (Left), and grants that are     *)
(* MaxRequests apart are Window apart (Spaced).  The client cache evicts a *)
(* fresh client only if all are fresh: the dict lists each key once, in    *)
(* Cached.                                                                 *)
(***************************************************************************)
EXTENDS Tenancy, Limits, FiniteSetTheorems, TLAPS

Want(u) == IF u \in Bare THEN Nobody ELSE Tenant[u]

Phases == {"new", "resolved", "bound", "in", "streaming", "logging", "closing", "over"}

Typed ==
    /\ phase \in [Units -> Phases]
    /\ tenant \in [Units -> Models \cup {Nobody}]
    /\ tx \in [Units -> [Both -> Conns \cup {NoConn}]]
    /\ setting \in [Conns -> Models \cup {Nobody}]
    /\ ran \in [Units -> SUBSET (Models \cup {Nobody})]

Exclusive == \A u, v \in Units : \A k, l \in Both :
                tx[u][k] = tx[v][l] /\ tx[u][k] # NoConn => u = v /\ k = l

IdleClean == \A c \in Idle : setting[c] = Nobody

OwnSetting == \A u \in Units, k \in Both : tx[u][k] # NoConn => setting[tx[u][k]] = tenant[u]

\* What a unit's phase says of its context and its sessions.
Placed(u) ==
    /\ phase[u] \in {"new", "resolved", "over"} => tenant[u] = Nobody
    /\ phase[u] \in {"bound", "in", "streaming", "logging"} => tenant[u] = Want(u)
    /\ phase[u] \in {"resolved", "bound"} => u \in Requests
    /\ phase[u] = "resolved" => tx[u]["main"] # NoConn
    /\ phase[u] \in {"new", "over"} => tx[u]["main"] = NoConn
    /\ phase[u] \notin {"logging", "closing"} => tx[u]["log"] = NoConn

Database == Typed /\ Exclusive /\ IdleClean /\ OwnSetting

TInv == Database /\ (\A u \in Units : Placed(u)) /\ RanScoped

-------------------------------------------------------------------------------
(* The two things a session does *)

\* A statement of u runs on the connection of u's tenant, and leaves the others alone.
LEMMA ExecuteKeeps ==
    ASSUME TenancyAssumption, Database, NEW u \in Units, NEW k \in Both, NEW c \in Conns,
           Execute(u, k, c), tenant' = tenant, phase' \in [Units -> Phases],
           ran' \in [Units -> SUBSET (Models \cup {Nobody})]
    PROVE  /\ Database' /\ setting'[c] = tenant[u] /\ tx'[u][k] = c
           /\ \A v \in Units, l \in Both : v # u \/ l # k => tx'[v][l] = tx[v][l]
<1>1. /\ tx'[u][k] = c
      /\ \A v \in Units, l \in Both : v # u \/ l # k => tx'[v][l] = tx[v][l]
      /\ tx' \in [Units -> [Both -> Conns \cup {NoConn}]]
  BY DEF Database, Typed, Execute
<1>n. c # NoConn
  BY DEF TenancyAssumption
<1>2. CASE c = tx[u][k] /\ UNCHANGED setting
  <2>1. tx' = tx
    BY <1>2 DEF Execute, Database, Typed
  <2> QED
    BY <1>1, <1>2, <1>n, <2>1 DEF Database, Typed, Exclusive, IdleClean, OwnSetting, Idle
<1>3. CASE /\ tx[u][k] = NoConn /\ c \in Pool[u] \cap Idle
           /\ setting' = [setting EXCEPT ![c] = AfterBegin(u, c)]
  <2>1. AfterBegin(u, c) = tenant[u]
    BY <1>3 DEF AfterBegin, Database, IdleClean
  <2>2. /\ setting'[c] = tenant[u]
        /\ \A d \in Conns : d # c => setting'[d] = setting[d]
        /\ setting' \in [Conns -> Models \cup {Nobody}]
    BY <1>3, <2>1 DEF Database, Typed
  <2>3. \A v \in Units, l \in Both : tx[v][l] # c
    BY <1>3 DEF Idle
  <2>4. Exclusive'
    <3> SUFFICES ASSUME NEW v \in Units, NEW w \in Units, NEW l \in Both, NEW m \in Both,
                        tx'[v][l] = tx'[w][m], tx'[v][l] # NoConn
                 PROVE  v = w /\ l = m
      BY DEF Exclusive
    <3>1. CASE v = u /\ l = k
      <4>1. tx'[w][m] = c
        BY <3>1, <1>1
      <4> QED BY <3>1, <4>1, <1>1, <2>3
    <3>2. CASE w = u /\ m = k
      <4>1. tx'[v][l] = c
        BY <3>2, <1>1
      <4> QED BY <3>2, <4>1, <1>1, <2>3
    <3>3. CASE ~(v = u /\ l = k) /\ ~(w = u /\ m = k)
      <4>1. tx'[v][l] = tx[v][l] /\ tx'[w][m] = tx[w][m]
        BY <3>3, <1>1
      <4>2. tx[v][l] = tx[w][m] /\ tx[v][l] # NoConn
        BY <4>1
      <4> QED BY <4>2 DEF Database, Exclusive
    <3> QED BY <3>1, <3>2, <3>3
  <2>5. ASSUME NEW d \in Idle' PROVE d # c /\ d \in Idle
    <3>1. d \in Conns /\ \A v \in Units, l \in Both : tx'[v][l] # d
      BY DEF Idle
    <3>2. d # c
      BY <1>1, <3>1
    <3>3. ASSUME NEW v \in Units, NEW l \in Both PROVE tx[v][l] # d
      <4>1. CASE v = u /\ l = k
        BY <4>1, <1>3, <3>1 DEF TenancyAssumption
      <4>2. CASE ~(v = u /\ l = k)
        BY <4>2, <1>1, <3>1
      <4> QED BY <4>1, <4>2
    <3> QED BY <3>1, <3>2, <3>3 DEF Idle
  <2>6. IdleClean'
    BY <2>2, <2>5 DEF Database, IdleClean, Idle
  <2>7. OwnSetting'
    <3> SUFFICES ASSUME NEW v \in Units, NEW l \in Both, tx'[v][l] # NoConn
                 PROVE  setting'[tx'[v][l]] = tenant[v]
      BY DEF OwnSetting
    <3>1. CASE v = u /\ l = k
      BY <3>1, <1>1, <2>2
    <3>2. CASE ~(v = u /\ l = k)
      BY <3>2, <1>1, <2>2, <2>3 DEF Database, Typed, OwnSetting
    <3> QED BY <3>1, <3>2
  <2> QED BY <1>1, <2>2, <2>4, <2>6, <2>7 DEF Database, Typed
<1> QED BY <1>2, <1>3 DEF Execute

\* Ending transactions cleans their connections, and leaves the others alone.
LEMMA EndKeeps ==
    ASSUME TenancyAssumption, Database, NEW u \in Units, NEW ks \in SUBSET Both,
           EndTransactions(u, ks),
           tenant' \in [Units -> Models \cup {Nobody}],
           \A v \in Units : v # u \/ ks # Both => tenant'[v] = tenant[v],
           phase' \in [Units -> Phases],
           ran' \in [Units -> SUBSET (Models \cup {Nobody})]
    PROVE  /\ Database'
           /\ \A v \in Units, l \in Both :
                 tx'[v][l] = IF v = u /\ l \in ks THEN NoConn ELSE tx[v][l]
<1>1. /\ \A v \in Units, l \in Both :
            tx'[v][l] = IF v = u /\ l \in ks THEN NoConn ELSE tx[v][l]
      /\ tx' \in [Units -> [Both -> Conns \cup {NoConn}]]
  BY DEF Database, Typed, EndTransactions
<1>2. /\ setting' \in [Conns -> Models \cup {Nobody}]
      /\ \A c \in Conns : c \in {tx[u][k] : k \in ks} => setting'[c] = Nobody
      /\ \A c \in Conns : c \notin {tx[u][k] : k \in ks} => setting'[c] = setting[c]
  BY DEF Database, Typed, EndTransactions, Unset
<1>3. Exclusive'
  <2> SUFFICES ASSUME NEW v \in Units, NEW w \in Units, NEW l \in Both, NEW m \in Both,
                      tx'[v][l] = tx'[w][m], tx'[v][l] # NoConn
               PROVE  v = w /\ l = m
    BY DEF Exclusive
  <2>1. tx'[v][l] = tx[v][l] /\ tx'[w][m] = tx[w][m]
    BY <1>1
  <2>2. tx[v][l] = tx[w][m] /\ tx[v][l] # NoConn
    BY <2>1
  <2> QED BY <2>2 DEF Database, Exclusive
<1>4. IdleClean'
  <2> SUFFICES ASSUME NEW c \in Idle'
               PROVE  setting'[c] = Nobody
    BY DEF IdleClean
  <2>1. c \in Conns /\ \A v \in Units, l \in Both : tx'[v][l] # c
    BY DEF Idle
  <2>2. CASE c \in {tx[u][k] : k \in ks}
    BY <2>1, <2>2, <1>2
  <2>3. CASE c \notin {tx[u][k] : k \in ks}
    <3>1. c \in Idle
      BY <1>1, <2>1, <2>3 DEF Idle
    <3> QED BY <2>1, <2>3, <3>1, <1>2 DEF Database, IdleClean
  <2> QED BY <2>2, <2>3
<1>5. OwnSetting'
  <2> SUFFICES ASSUME NEW v \in Units, NEW l \in Both, tx'[v][l] # NoConn
               PROVE  setting'[tx'[v][l]] = tenant'[v]
    BY DEF OwnSetting
  <2>1. ~(v = u /\ l \in ks) /\ tx'[v][l] = tx[v][l]
    BY <1>1
  <2>2. tenant'[v] = tenant[v]
    BY <2>1
  <2>3. tx[v][l] \notin {tx[u][k] : k \in ks}
    BY <2>1 DEF Database, Exclusive
  <2>4. tx[v][l] \in Conns
    BY <2>1 DEF Database, Typed
  <2> QED BY <2>1, <2>2, <2>3, <2>4, <1>2 DEF Database, OwnSetting
<1> QED BY <1>1, <1>2, <1>3, <1>4, <1>5 DEF Database, Typed
-------------------------------------------------------------------------------
(* The invariant *)

\* The invariant holds initially.
LEMMA InitTInv == TenancyInit => TInv
<1> SUFFICES ASSUME TenancyInit PROVE TInv
  OBVIOUS
<1>n. \A u \in Units, k \in Both : tx[u][k] = NoConn
  BY DEF TenancyInit
<1>t. Typed
  BY DEF TenancyInit, Typed, Phases
<1>1. Typed /\ Exclusive /\ IdleClean /\ OwnSetting
  <2>1. Exclusive
    BY <1>n DEF Exclusive
  <2>2. IdleClean
    BY DEF IdleClean, Idle, TenancyInit
  <2>3. OwnSetting
    BY <1>n DEF OwnSetting
  <2> QED BY <1>t, <2>1, <2>2, <2>3
<1>2. ASSUME NEW u \in Units PROVE Placed(u)
  BY DEF TenancyInit, Placed, Both
<1>3. RanScoped
  BY DEF TenancyInit, RanScoped
<1> QED BY <1>1, <1>2, <1>3 DEF TInv, Database

\* The other units are where they were.
LEMMA OthersPlaced ==
    ASSUME TInv, NEW u \in Units, NEW v \in Units, v # u,
           phase'[v] = phase[v], tenant'[v] = tenant[v],
           tx'[v]["main"] = tx[v]["main"], tx'[v]["log"] = tx[v]["log"]
    PROVE  Placed(v)'
BY DEF TInv, Placed

\* A step of u that changes neither a session nor a tenant.
LEMMA MoveKeeps ==
    ASSUME TenancyAssumption, TInv, NEW u \in Units, NEW to \in Phases, Move(u, to),
           UNCHANGED <<tx, setting, ran>>,
           \/ tenant' = tenant
           \/ /\ tx[u]["main"] = NoConn /\ tx[u]["log"] = NoConn
              /\ tenant' = [tenant EXCEPT ![u] = Want(u)]
    PROVE  /\ Database' /\ RanScoped' /\ phase'[u] = to
           /\ \A v \in Units : v # u => Placed(v)'
<1>1. /\ phase' \in [Units -> Phases] /\ phase'[u] = to
      /\ \A v \in Units : v # u => phase'[v] = phase[v]
  BY DEF TInv, Database, Typed, Move
<1>2. /\ tenant' \in [Units -> Models \cup {Nobody}]
      /\ \A v \in Units : v # u => tenant'[v] = tenant[v]
  <2>1. Want(u) \in Models \cup {Nobody}
    BY DEF Want, Units, Scoped, TenancyAssumption
  <2> QED BY <2>1 DEF TInv, Database, Typed
<1>3. OwnSetting'
  <2> SUFFICES ASSUME NEW v \in Units, NEW k \in Both, tx[v][k] # NoConn
               PROVE  setting[tx[v][k]] = tenant'[v]
    BY DEF OwnSetting
  <2>1. tenant'[v] = tenant[v]
    BY <1>2 DEF Both
  <2> QED BY <2>1 DEF TInv, Database, OwnSetting
<1>4. Database'
  BY <1>1, <1>2, <1>3 DEF TInv, Database, Typed, Exclusive, IdleClean, Idle
<1>5. ASSUME NEW v \in Units, v # u PROVE Placed(v)'
  BY <1>1, <1>2, <1>5, OthersPlaced
<1> QED BY <1>1, <1>4, <1>5 DEF TInv, RanScoped

\* A statement of u once it was let in: it runs under the tenant u wants.
LEMMA StatementKeeps ==
    ASSUME TenancyAssumption, TInv, NEW u \in Units, NEW k \in Both, NEW c \in Conns,
           Execute(u, k, c), tenant' = tenant, phase[u] \in {"in", "streaming"},
           phase' \in [Units -> Phases], \A v \in Units : v # u => phase'[v] = phase[v],
           ran' = [ran EXCEPT ![u] = @ \cup {setting'[c]}]
    PROVE  /\ Database' /\ RanScoped'
           /\ \A v \in Units : v # u => Placed(v)'
           /\ \A l \in Both : l # k => tx'[u][l] = tx[u][l]
<1>1. tenant[u] = Want(u)
  BY DEF TInv, Placed
<1>2. AfterBegin(u, c) \in Models \cup {Nobody} /\ setting'[c] \in Models \cup {Nobody}
  BY DEF TInv, Database, Typed, Execute, AfterBegin
<1>3. ran' \in [Units -> SUBSET (Models \cup {Nobody})]
  BY <1>2 DEF TInv, Database, Typed
<1>4. /\ Database' /\ setting'[c] = tenant[u]
      /\ \A v \in Units, l \in Both : v # u \/ l # k => tx'[v][l] = tx[v][l]
  BY <1>3, ExecuteKeeps DEF TInv
<1>5. ASSUME NEW v \in Units, v # u PROVE Placed(v)'
  <2>1. tx'[v]["main"] = tx[v]["main"] /\ tx'[v]["log"] = tx[v]["log"]
    BY <1>4, <1>5 DEF Both
  <2> QED BY <1>5, <2>1, OthersPlaced
<1>6. ASSUME NEW v \in Units
      PROVE  ran'[v] \subseteq IF v \in Bare THEN {Nobody} ELSE {Tenant[v]}
  <2>1. ran[v] \subseteq IF v \in Bare THEN {Nobody} ELSE {Tenant[v]}
    BY DEF TInv, RanScoped
  <2>2. CASE v = u
    <3>1. ran'[u] = ran[u] \cup {Want(u)}
      BY <1>1, <1>4 DEF TInv, Database, Typed
    <3> QED BY <2>1, <2>2, <3>1 DEF Want
  <2>3. CASE v # u
    BY <2>1, <2>3 DEF TInv, Database, Typed
  <2> QED BY <2>2, <2>3
<1> QED BY <1>4, <1>5, <1>6 DEF RanScoped

\* Every step keeps the invariant.
LEMMA StepTInv == TenancyAssumption /\ TInv /\ [TenancyNext]_tvars => TInv'
<1> SUFFICES ASSUME TenancyAssumption, TInv, [TenancyNext]_tvars PROVE TInv'
  OBVIOUS
<1>t. Database /\ Typed /\ RanScoped /\ \A v \in Units : Placed(v)
  BY DEF TInv, Database
<1>b. "main" \in Both /\ "log" \in Both /\ Both \in SUBSET Both /\ {"main"} \in SUBSET Both
  BY DEF Both
<1>1. ASSUME NEW u \in Units, Resolve(u) PROVE TInv'
  <2>1. PICK c \in Conns : Execute(u, "main", c)
    BY <1>1 DEF Resolve
  <2>2. /\ phase' \in [Units -> Phases]
        /\ phase'[u] \in {"resolved", "closing"}
        /\ \A v \in Units : v # u => phase'[v] = phase[v]
        /\ u \in Requests /\ phase[u] = "new"
        /\ tenant' = tenant /\ ran' = ran
    BY <1>1, <1>t DEF Resolve, Move, Typed, Phases
  <2>3. /\ Database' /\ tx'[u]["main"] = c
        /\ \A v \in Units, l \in Both : v # u \/ l # "main" => tx'[v][l] = tx[v][l]
    BY <2>1, <2>2, <1>t, <1>b, ExecuteKeeps DEF Typed
  <2>4. Placed(u)'
    BY <2>2, <2>3, <1>t, <1>b DEF Placed, TenancyAssumption
  <2>5. ASSUME NEW v \in Units, v # u PROVE Placed(v)'
    BY <2>2, <2>3, <2>5, <1>b, OthersPlaced
  <2>6. RanScoped'
    BY <2>2, <1>t DEF RanScoped
  <2> QED BY <2>3, <2>4, <2>5, <2>6 DEF TInv
<1>2. ASSUME NEW u \in Units, BindTenant(u) PROVE TInv'
  <2> DEFINE c == tx[u]["main"]
  <2>1. /\ phase[u] = "resolved" /\ u \in Requests /\ c \in Conns /\ c # NoConn
        /\ tx[u]["log"] = NoConn
    BY <1>2, <1>t, <1>b DEF BindTenant, Placed, Typed
  <2>2. Want(u) = Tenant[u] /\ Tenant[u] \in Models
    BY <2>1 DEF Want, Scoped, TenancyAssumption
  <2> HIDE DEF c
  <2>3. /\ phase' \in [Units -> Phases] /\ phase'[u] = "bound"
        /\ \A v \in Units : v # u => phase'[v] = phase[v]
    BY <1>2, <1>t DEF BindTenant, Move, Typed, Phases
  <2>4. /\ tenant' \in [Units -> Models \cup {Nobody}] /\ tenant'[u] = Want(u)
        /\ \A v \in Units : v # u => tenant'[v] = tenant[v]
    BY <1>2, <1>t, <2>2 DEF BindTenant, Typed
  <2>5. /\ setting' \in [Conns -> Models \cup {Nobody}] /\ setting'[c] = Want(u)
        /\ \A d \in Conns : d # c => setting'[d] = setting[d]
    BY <1>2, <1>t, <2>1, <2>2 DEF BindTenant, Typed, c
  <2>6. tx' = tx /\ ran' = ran
    BY <1>2 DEF BindTenant
  <2>7. IdleClean'
    BY <2>1, <2>5, <2>6, <1>t, <1>b DEF Database, IdleClean, Idle, c
  <2>8. OwnSetting'
    <3> SUFFICES ASSUME NEW v \in Units, NEW k \in Both, tx[v][k] # NoConn
                 PROVE  setting'[tx[v][k]] = tenant'[v]
      BY <2>6 DEF OwnSetting
    <3>1. CASE v = u /\ k = "main"
      BY <3>1, <2>4, <2>5 DEF c
    <3>2. CASE ~(v = u /\ k = "main")
      <4>1. v # u
        BY <3>2, <2>1 DEF Both
      <4>2. tx[v][k] # c /\ tx[v][k] \in Conns
        BY <4>1, <1>t, <1>b DEF Database, Exclusive, Typed, c
      <4> QED BY <4>1, <4>2, <2>4, <2>5, <1>t DEF Database, OwnSetting
    <3> QED BY <3>1, <3>2
  <2>9. Database'
    BY <2>3, <2>4, <2>5, <2>6, <2>7, <2>8, <1>t DEF Database, Typed, Exclusive
  <2>10. Placed(u)'
    BY <2>1, <2>3, <2>4, <2>6 DEF Placed
  <2>11. ASSUME NEW v \in Units, v # u PROVE Placed(v)'
    BY <2>3, <2>4, <2>6, <2>11, OthersPlaced
  <2> QED BY <2>6, <2>9, <2>10, <2>11, <1>t DEF TInv, RanScoped
<1>3. ASSUME NEW u \in Units, LetIn(u) PROVE TInv'
  <2>1. Database' /\ RanScoped' /\ phase'[u] = "in" /\ (\A v \in Units : v # u => Placed(v)')
    BY <1>3, <1>t, MoveKeeps DEF LetIn, Phases
  <2>2. Placed(u)'
    BY <1>3, <2>1, <1>t DEF LetIn, Placed
  <2> QED BY <2>1, <2>2 DEF TInv
<1>4. ASSUME NEW u \in Units, LetInAndCommit(u) PROVE TInv'
  <2>1. /\ phase' \in [Units -> Phases] /\ phase'[u] = "in" /\ phase[u] = "bound"
        /\ \A v \in Units : v # u => phase'[v] = phase[v]
        /\ tenant' = tenant /\ ran' = ran
    BY <1>4, <1>t DEF LetInAndCommit, Move, Typed, Phases
  <2>2. /\ Database'
        /\ \A v \in Units, l \in Both :
              tx'[v][l] = IF v = u /\ l \in {"main"} THEN NoConn ELSE tx[v][l]
    BY <1>4, <2>1, <1>t, <1>b, EndKeeps DEF LetInAndCommit, Typed
  <2>3. Placed(u)'
    BY <2>1, <2>2, <1>t, <1>b DEF Placed
  <2>4. ASSUME NEW v \in Units, v # u PROVE Placed(v)'
    BY <2>1, <2>2, <2>4, <1>b, OthersPlaced
  <2> QED BY <2>1, <2>2, <2>3, <2>4, <1>t DEF TInv, RanScoped
<1>5. ASSUME NEW u \in Units, EnterScope(u) PROVE TInv'
  <2>1. /\ Want(u) = Tenant[u] /\ phase[u] = "new" /\ u \notin Requests
        /\ tx[u]["main"] = NoConn /\ tx[u]["log"] = NoConn
    BY <1>5, <1>t DEF EnterScope, Want, Placed, Scoped, TenancyAssumption
  <2>2. Database' /\ RanScoped' /\ phase'[u] = "in" /\ (\A v \in Units : v # u => Placed(v)')
    BY <1>5, <2>1, <1>t, MoveKeeps DEF EnterScope, Phases
  <2>3. tenant'[u] = Want(u) /\ tx' = tx
    BY <1>5, <2>1, <1>t DEF EnterScope, Typed
  <2>4. Placed(u)'
    BY <2>1, <2>2, <2>3 DEF Placed
  <2> QED BY <2>2, <2>4 DEF TInv
<1>6. ASSUME NEW u \in Units, EnterBare(u) PROVE TInv'
  <2>1. /\ Want(u) = Nobody /\ tenant[u] = Nobody /\ phase[u] = "new"
        /\ tenant' = tenant /\ tx' = tx
    BY <1>6, <1>t DEF EnterBare, Want, Placed
  <2>2. Database' /\ RanScoped' /\ phase'[u] = "in" /\ (\A v \in Units : v # u => Placed(v)')
    BY <1>6, <1>t, MoveKeeps DEF EnterBare, Phases
  <2>3. Placed(u)'
    BY <2>1, <2>2, <1>t DEF Placed
  <2> QED BY <2>2, <2>3 DEF TInv
<1>7. ASSUME NEW u \in Units, Query(u) PROVE TInv'
  <2>1. PICK c \in Conns : /\ Execute(u, "main", c)
                           /\ ran' = [ran EXCEPT ![u] = @ \cup {setting'[c]}]
    BY <1>7 DEF Query
  <2>2. phase[u] = "in" /\ phase' = phase /\ tenant' = tenant
    BY <1>7 DEF Query
  <2>3. /\ Database' /\ RanScoped' /\ (\A v \in Units : v # u => Placed(v)')
        /\ \A l \in Both : l # "main" => tx'[u][l] = tx[u][l]
    BY <2>1, <2>2, <1>t, <1>b, StatementKeeps DEF Typed
  <2>4. Placed(u)'
    BY <2>2, <2>3, <1>t, <1>b DEF Placed
  <2> QED BY <2>3, <2>4 DEF TInv
<1>8. ASSUME NEW u \in Units, Commit(u) PROVE TInv'
  <2>1. phase' = phase /\ tenant' = tenant /\ ran' = ran /\ phase[u] = "in"
    BY <1>8 DEF Commit
  <2>2. /\ Database'
        /\ \A v \in Units, l \in Both :
              tx'[v][l] = IF v = u /\ l \in {"main"} THEN NoConn ELSE tx[v][l]
    BY <1>8, <2>1, <1>t, <1>b, EndKeeps DEF Commit, Typed
  <2>3. Placed(u)'
    BY <2>1, <2>2, <1>t, <1>b DEF Placed
  <2>4. ASSUME NEW v \in Units, v # u PROVE Placed(v)'
    BY <2>1, <2>2, <2>4, <1>b, OthersPlaced
  <2> QED BY <2>1, <2>2, <2>3, <2>4, <1>t DEF TInv, RanScoped
<1>9. ASSUME NEW u \in Units, Stream(u) PROVE TInv'
  <2>1. Database' /\ RanScoped' /\ phase'[u] = "streaming" /\ (\A v \in Units : v # u => Placed(v)')
    BY <1>9, <1>t, MoveKeeps DEF Stream, Phases
  <2>2. Placed(u)'
    BY <1>9, <2>1, <1>t DEF Stream, Placed
  <2> QED BY <2>1, <2>2 DEF TInv
<1>10. ASSUME NEW u \in Units, OpenLog(u) PROVE TInv'
  <2>1. PICK c \in Conns : /\ Execute(u, "log", c)
                           /\ ran' = [ran EXCEPT ![u] = @ \cup {setting'[c]}]
    BY <1>10 DEF OpenLog
  <2>2. /\ phase' \in [Units -> Phases] /\ phase'[u] = "logging" /\ phase[u] = "streaming"
        /\ \A v \in Units : v # u => phase'[v] = phase[v]
        /\ tenant' = tenant
    BY <1>10, <1>t DEF OpenLog, Move, Typed, Phases
  <2>3. Database' /\ RanScoped' /\ (\A v \in Units : v # u => Placed(v)')
    BY <2>1, <2>2, <1>t, <1>b, StatementKeeps
  <2>4. Placed(u)'
    BY <2>2, <1>t DEF Placed
  <2> QED BY <2>3, <2>4 DEF TInv
<1>11. ASSUME NEW u \in Units, Leave(u) PROVE TInv'
  <2>1. Database' /\ RanScoped' /\ phase'[u] = "closing" /\ (\A v \in Units : v # u => Placed(v)')
    BY <1>11, <1>t, MoveKeeps DEF Leave, Phases
  <2>2. Placed(u)'
    BY <1>11, <2>1, <1>t DEF Leave, Placed
  <2> QED BY <2>1, <2>2 DEF TInv
<1>12. ASSUME NEW u \in Units, PoolTimeout(u) PROVE TInv'
  <2>1. Database' /\ RanScoped' /\ phase'[u] = "closing" /\ (\A v \in Units : v # u => Placed(v)')
    BY <1>12, <1>t, MoveKeeps DEF PoolTimeout, Phases
  <2>2. Placed(u)'
    BY <1>12, <2>1, <1>t DEF PoolTimeout, Placed
  <2> QED BY <2>1, <2>2 DEF TInv
<1>13. ASSUME NEW u \in Units, Close(u) PROVE TInv'
  <2>1. /\ phase' \in [Units -> Phases] /\ phase'[u] = "over"
        /\ \A v \in Units : v # u => phase'[v] = phase[v]
        /\ tenant' \in [Units -> Models \cup {Nobody}] /\ tenant'[u] = Nobody
        /\ \A v \in Units : v # u => tenant'[v] = tenant[v]
        /\ ran' = ran
    BY <1>13, <1>t DEF Close, Move, Typed, Phases
  <2>2. /\ Database'
        /\ \A v \in Units, l \in Both :
              tx'[v][l] = IF v = u /\ l \in Both THEN NoConn ELSE tx[v][l]
    BY <1>13, <2>1, <1>t, <1>b, EndKeeps DEF Close, Typed
  <2>3. Placed(u)'
    BY <2>1, <2>2, <1>b DEF Placed
  <2>4. ASSUME NEW v \in Units, v # u PROVE Placed(v)'
    BY <2>1, <2>2, <2>4, <1>b, OthersPlaced
  <2> QED BY <2>1, <2>2, <2>3, <2>4, <1>t DEF TInv, RanScoped
<1>14. CASE UNCHANGED tvars
  BY <1>14 DEF tvars, TInv, Database, Typed, Exclusive, IdleClean, Idle, OwnSetting,
               Placed, RanScoped
<1> QED BY <1>1, <1>2, <1>3, <1>4, <1>5, <1>6, <1>7, <1>8, <1>9, <1>10, <1>11, <1>12,
           <1>13, <1>14 DEF TenancyNext, UnitStep

\* The invariant of sessions, transactions and the pool.
LEMMA TInvHolds == TenancySpec => []TInv
<1>1. TenancyInit => TInv
  BY InitTInv
<1>2. TInv /\ [TenancyNext]_tvars => TInv'
  BY StepTInv, TenancyAssumption
<1> QED BY <1>1, <1>2, PTL DEF TenancySpec
-------------------------------------------------------------------------------
(* The theorems *)

\* State, sessions and settings have their types; a unit that has not begun, or is over,
\* holds no connection (get_session, database.py).
THEOREM TenancyTyped == TenancySpec => []TenancyTypeOK
<1>1. TInv => TenancyTypeOK
  <2> SUFFICES ASSUME TInv PROVE TenancyTypeOK
    OBVIOUS
  <2>1. ASSUME NEW u \in Units, phase[u] \in {"new", "over"}
        PROVE  tx[u] = [k \in Both |-> NoConn]
    <3>1. tx[u]["main"] = NoConn /\ tx[u]["log"] = NoConn /\ tx[u] \in [Both -> Conns \cup {NoConn}]
      BY <2>1 DEF TInv, Database, Typed, Placed
    <3> QED BY <3>1 DEF Both
  <2> QED BY <2>1 DEF TInv, Database, Typed, TenancyTypeOK, Phases
<1> QED BY <1>1, TInvHolds, PTL

\* No statement of a request or a job ever runs under another model's tenant, or under
\* none, however requests and jobs share the connections (tenancy.py, deps.py).
THEOREM StatementsScoped == TenancySpec => []RanScoped
<1>1. TInv => RanScoped
  BY DEF TInv
<1> QED BY <1>1, TInvHolds, PTL

\* The pool hands out clean connections, each to one transaction (after_begin, SET LOCAL).
THEOREM PoolStaysClean == TenancySpec => []PooledClean
<1>1. TInv => PooledClean
  BY DEF TInv, Database, IdleClean, Exclusive, PooledClean
<1> QED BY <1>1, TInvHolds, PTL

-------------------------------------------------------------------------------
(* The rate limiter *)

\* Times that ascend, none after now.
Ascends(times) ==
    /\ times \in Seq(Nat)
    /\ \A i \in 1 .. Len(times) : times[i] <= now
    /\ \A i, j \in 1 .. Len(times) : i <= j => times[i] <= times[j]

\* What is left of times when the first d have expired and gone.
LeftFrom(seq, times, d) ==
    /\ d \in 0 .. Len(times)
    /\ \A i \in 1 .. d : Expired(times[i])
    /\ seq \in Seq(Nat) /\ Len(seq) = Len(times) - d
    /\ \A i \in 1 .. Len(seq) : seq[i] = times[d + i]

Left(seq, times) == \E d \in Nat : LeftFrom(seq, times, d)

\* Requests that are MaxRequests apart are Window apart.
Spaced(k) == \A i \in 1 .. Len(granted[k]) :
                i + MaxRequests <= Len(granted[k]) =>
                    granted[k][i] + Window <= granted[k][i + MaxRequests]

\* One who is refused was allowed MaxRequests that have not expired.
Exhausted(k) == LET n == Len(granted[k]) IN
                n >= MaxRequests /\ ~Expired(granted[k][n - MaxRequests + 1])

Windows ==
    /\ now \in Nat /\ DOMAIN granted = Callers
    /\ \A k \in Callers : /\ Ascends(granted[k]) /\ Spaced(k)
                          /\ Left(Kept(k), granted[k])
                          /\ k \in refused => Exhausted(k)

\* A set of numbers has a least one.
LEMMA Least ==
    ASSUME NEW S \in SUBSET Nat, S # {}
    PROVE  \E m \in S : \A k \in S : m <= k
<1>1. IsWellFoundedOn(OpToRel(<, Nat), Nat)
  BY NatLessThanWellFounded
<1>2. PICK m \in S : \A k \in S : ~ (<<k, m>> \in OpToRel(<, Nat))
  BY <1>1, WFMin
<1>3. \A k \in S : ~ (k < m)
  BY <1>2 DEF OpToRel
<1> QED
  BY <1>3

\* The end of a sequence, element by element.
LEMMA EndOf ==
    ASSUME NEW s \in Seq(Nat), NEW e \in 0 .. Len(s)
    PROVE  /\ SubSeq(s, e + 1, Len(s)) \in Seq(Nat)
           /\ Len(SubSeq(s, e + 1, Len(s))) = Len(s) - e
           /\ \A i \in 1 .. Len(s) - e : SubSeq(s, e + 1, Len(s))[i] = s[e + i]
<1>1. Len(SubSeq(s, e + 1, Len(s))) = Len(s) - e
  OBVIOUS
<1>2. SubSeq(s, e + 1, Len(s)) \in Seq(Nat)
  OBVIOUS
<1>3. \A i \in 1 .. Len(s) - e : SubSeq(s, e + 1, Len(s))[i] = s[e + i]
  OBVIOUS
<1> QED
  BY <1>1, <1>2, <1>3

\* Of times that ascend the first ones have expired, and Recent keeps the others.
LEMMA RecentKept ==
    ASSUME LimitsAssumption, now \in Nat, NEW times, Ascends(times)
    PROVE  \E e \in 0 .. Len(times) :
              /\ \A i \in 1 .. Len(times) : Expired(times[i]) <=> i <= e
              /\ Recent(times) \in Seq(Nat) /\ Len(Recent(times)) = Len(times) - e
              /\ \A i \in 1 .. Len(times) - e : Recent(times)[i] = times[e + i]
<1> DEFINE gone == {i \in DOMAIN times : Expired(times[i])}
           left == {i \in 1 .. Len(times) + 1 : i \in 1 .. Len(times) => ~Expired(times[i])}
<1>1. times \in Seq(Nat) /\ DOMAIN times = 1 .. Len(times) /\ Len(times) \in Nat
  BY DEF Ascends
<1>2. PICK m \in left : \A i \in left : m <= i
  <2>1. left \in SUBSET Nat /\ Len(times) + 1 \in left
    BY <1>1
  <2> HIDE DEF left
  <2> QED
    BY <2>1, Least
<1> DEFINE e == m - 1
<1>3. e \in 0 .. Len(times) /\ m = e + 1
  BY <1>1, <1>2
<1>4. \A i \in 1 .. Len(times) : Expired(times[i]) <=> i <= e
  <2> SUFFICES ASSUME NEW i \in 1 .. Len(times)
               PROVE  Expired(times[i]) <=> i <= e
    OBVIOUS
  <2>1. CASE i <= e
    <3> SUFFICES ASSUME ~Expired(times[i]) PROVE FALSE
      BY <2>1
    <3>1. i \in left
      BY <1>1
    <3>2. m <= i /\ i \in Nat /\ m \in Nat
      BY <1>1, <1>2, <3>1
    <3> QED
      BY <1>3, <2>1, <3>2
  <2>2. CASE i > e
    <3>1. m \in 1 .. Len(times) /\ ~Expired(times[m]) /\ m <= i
      BY <1>1, <1>2, <1>3, <2>2
    <3>2. times[m] <= times[i] /\ times[m] \in Nat /\ times[i] \in Nat
      BY <3>1, <1>1 DEF Ascends
    <3> QED
      BY <3>1, <3>2, <2>2, <1>3 DEF Expired, LimitsAssumption
  <2> QED
    BY <1>1, <1>3, <2>1, <2>2
<1> HIDE DEF e
<1>5. Cardinality(gone) = e
  <2>1. gone = 1 .. e
    BY <1>1, <1>3, <1>4
  <2>2. Cardinality(1 .. e) = e
    <3>1. e \in Int /\ 1 \in Int /\ e >= 0
      BY <1>3, <1>1
    <3>2. Cardinality(1 .. e) = IF 1 > e THEN 0 ELSE e - 1 + 1
      BY <3>1, FS_Interval
    <3> QED
      BY <3>1, <3>2
  <2> QED
    BY <2>1, <2>2
<1>6. Recent(times) = SubSeq(times, e + 1, Len(times))
  BY <1>5 DEF Recent
<1>7. /\ Recent(times) \in Seq(Nat) /\ Len(Recent(times)) = Len(times) - e
      /\ \A i \in 1 .. Len(times) - e : Recent(times)[i] = times[e + i]
  BY <1>1, <1>3, <1>6, EndOf
<1> QED
  BY <1>3, <1>4, <1>7

\* The kept times of a caller ascend like those that were granted.
LEMMA LeftAscends ==
    ASSUME NEW seq, NEW times, Ascends(times), Left(seq, times)
    PROVE  Ascends(seq)
<1>1. PICK d \in Nat : LeftFrom(seq, times, d)
  BY DEF Left
<1>2. /\ times \in Seq(Nat) /\ Len(times) \in Nat
      /\ seq \in Seq(Nat) /\ Len(seq) = Len(times) - d
      /\ \A i \in 1 .. Len(seq) : d + i \in 1 .. Len(times) /\ seq[i] = times[d + i]
  BY <1>1 DEF LeftFrom, Ascends
<1>3. \A i \in 1 .. Len(seq) : seq[i] <= now
  BY <1>2 DEF Ascends
<1>4. \A i, j \in 1 .. Len(seq) : i <= j => seq[i] <= seq[j]
  <2> SUFFICES ASSUME NEW i \in 1 .. Len(seq), NEW j \in 1 .. Len(seq), i <= j
               PROVE  seq[i] <= seq[j]
    OBVIOUS
  <2>1. d + i <= d + j
    BY <1>2
  <2>2. times[d + i] <= times[d + j]
    BY <1>2, <2>1 DEF Ascends
  <2> QED
    BY <1>2, <2>2
<1> QED
  BY <1>2, <1>3, <1>4 DEF Ascends

\* A stale entry may go.
LEMMA StaleMayGo ==
    ASSUME LimitsAssumption, now \in Nat, NEW seq, NEW times, Ascends(times), Left(seq, times),
           Stale(seq)
    PROVE  Left(<<>>, times)
<1>1. PICK d \in Nat : LeftFrom(seq, times, d)
  BY DEF Left
<1> DEFINE n == Len(times)
<1>2. /\ times \in Seq(Nat) /\ n \in Nat /\ d <= n
      /\ seq \in Seq(Nat) /\ Len(seq) = n - d
      /\ \A i \in 1 .. Len(seq) : seq[i] = times[d + i]
      /\ \A i \in 1 .. d : Expired(times[i])
  BY <1>1 DEF LeftFrom, Ascends
<1> HIDE DEF n
<1>3. \A i \in 1 .. n : Expired(times[i])
  <2>1. CASE d = n
    BY <1>2, <2>1
  <2>2. CASE d < n
    <3>1. Len(seq) \in 1 .. Len(seq) /\ d + Len(seq) = n
      BY <1>2, <2>2
    <3>2. seq[Len(seq)] = times[n]
      BY <1>2, <3>1
    <3>3. seq # <<>>
      BY <3>1
    <3>4. Expired(times[n])
      BY <3>2, <3>3 DEF Stale, Last
    <3> SUFFICES ASSUME NEW i \in 1 .. n PROVE Expired(times[i])
      OBVIOUS
    <3>5. times[i] <= times[n] /\ times[i] \in Nat /\ times[n] \in Nat
      <4>1. i \in 1 .. Len(times) /\ n \in 1 .. Len(times) /\ i <= n
        BY <1>2 DEF n
      <4>2. \A j, k \in 1 .. Len(times) : j <= k => times[j] <= times[k]
        BY DEF Ascends
      <4> QED
        BY SMTT(30), <1>2, <4>1, <4>2
    <3> QED
      BY <3>4, <3>5 DEF Expired, LimitsAssumption
  <2>3. d = n \/ d < n
    BY <1>2
  <2> QED
    BY <2>1, <2>2, <2>3
<1>4. LeftFrom(<<>>, times, n)
  <2>1. <<>> \in Seq(Nat) /\ Len(<<>>) = 0
    OBVIOUS
  <2>2. n \in 0 .. Len(times) /\ Len(times) - n = 0
    BY <1>2 DEF n
  <2>3. \A i \in 1 .. Len(<<>>) : <<>>[i] = times[n + i]
    BY <2>1
  <2> QED
    BY <1>3, <2>1, <2>2, <2>3 DEF LeftFrom
<1> QED
  BY <1>2, <1>4 DEF Left

KeptIn(r, k) == IF k \in DOMAIN r THEN r[k] ELSE <<>>

\* What the eviction leaves of an entry.
LEMMA EvictedKept ==
    ASSUME NEW r, NEW k
    PROVE  \/ KeptIn(Evicted(r), k) = KeptIn(r, k)
           \/ KeptIn(Evicted(r), k) = <<>> /\ Stale(KeptIn(r, k))
<1>1. CASE Cardinality(DOMAIN r) > MaxKeys
  <2>1. Evicted(r) = Restrict(r, {j \in DOMAIN r : ~Stale(r[j])})
    BY <1>1 DEF Evicted
  <2>2. /\ DOMAIN Evicted(r) = {j \in DOMAIN r : ~Stale(r[j])}
        /\ \A j \in DOMAIN Evicted(r) : Evicted(r)[j] = r[j]
    BY <2>1 DEF Restrict
  <2> QED
    BY <2>2 DEF KeptIn, Stale
<1>2. CASE ~(Cardinality(DOMAIN r) > MaxKeys)
  BY <1>2 DEF Evicted, KeptIn
<1> QED
  BY <1>1, <1>2

\* What a call leaves of an entry whose caller it does not record.
LEMMA OthersKept ==
    ASSUME LimitsAssumption, Windows, NEW k \in Callers, NEW r, NEW j \in Callers,
           r = requests \/ (r = Restrict(requests, DOMAIN requests \ {k}) /\ j # k)
    PROVE  Left(KeptIn(Evicted(r), j), granted[j])
<1>1. KeptIn(r, j) = Kept(j)
  <2>1. CASE r = requests
    BY <2>1 DEF KeptIn, Kept
  <2>2. CASE r = Restrict(requests, DOMAIN requests \ {k}) /\ j # k
    BY <2>2 DEF KeptIn, Kept, Restrict
  <2> QED
    BY <2>1, <2>2
<1>2. now \in Nat /\ Ascends(granted[j]) /\ Left(Kept(j), granted[j])
  BY DEF Windows
<1>3. CASE KeptIn(Evicted(r), j) = KeptIn(r, j)
  BY <1>1, <1>2, <1>3
<1>4. CASE KeptIn(Evicted(r), j) = <<>> /\ Stale(KeptIn(r, j))
  BY <1>1, <1>2, <1>4, StaleMayGo
<1> QED
  BY <1>3, <1>4, EvictedKept

\* What is_allowed counts: the granted times that have not expired.
LEMMA RecentCounted ==
    ASSUME LimitsAssumption, Windows, NEW k \in Callers
    PROVE  \E d \in Nat :
              /\ LeftFrom(Recent(Kept(k)), granted[k], d)
              /\ \A i \in d + 1 .. Len(granted[k]) : ~Expired(granted[k][i])
<1>1. now \in Nat /\ Ascends(granted[k]) /\ Left(Kept(k), granted[k])
  BY DEF Windows
<1>2. Ascends(Kept(k))
  BY <1>1, LeftAscends
<1>3. PICK d \in Nat : LeftFrom(Kept(k), granted[k], d)
  BY <1>1 DEF Left
<1>4. PICK e \in 0 .. Len(Kept(k)) :
        /\ \A i \in 1 .. Len(Kept(k)) : Expired(Kept(k)[i]) <=> i <= e
        /\ Recent(Kept(k)) \in Seq(Nat) /\ Len(Recent(Kept(k))) = Len(Kept(k)) - e
        /\ \A i \in 1 .. Len(Kept(k)) - e : Recent(Kept(k))[i] = Kept(k)[e + i]
  BY <1>1, <1>2, RecentKept
<1> DEFINE kept == Kept(k)
           recent == Recent(kept)
           times == granted[k]
<1>5. /\ Len(times) \in Nat /\ d \in 0 .. Len(times)
      /\ \A i \in 1 .. d : Expired(times[i])
      /\ Len(kept) = Len(times) - d
      /\ \A i \in 1 .. Len(kept) : kept[i] = times[d + i]
  BY <1>1, <1>3 DEF LeftFrom, Ascends
<1>6. /\ e \in 0 .. Len(kept) /\ recent \in Seq(Nat) /\ Len(recent) = Len(kept) - e
      /\ \A i \in 1 .. Len(kept) : Expired(kept[i]) <=> i <= e
      /\ \A i \in 1 .. Len(kept) - e : recent[i] = kept[e + i]
  BY <1>4
<1> HIDE DEF kept, recent, times
<1> DEFINE r == d + e
<1>7. r \in 0 .. Len(times) /\ Len(recent) = Len(times) - r
  BY SMTT(30), <1>5, <1>6
<1>8. \A i \in 1 .. Len(times) : Expired(times[i]) <=> i <= r
  <2> SUFFICES ASSUME NEW i \in 1 .. Len(times) PROVE Expired(times[i]) <=> i <= r
    OBVIOUS
  <2>1. CASE i <= d
    BY <1>5, <1>6, <2>1
  <2>2. CASE i > d
    <3>1. i - d \in 1 .. Len(kept) /\ d + (i - d) = i
      BY <1>5, <2>2
    <3>2. kept[i - d] = times[i]
      BY <1>5, <3>1
    <3>3. Expired(times[i]) <=> i - d <= e
      BY <1>6, <3>1, <3>2
    <3> QED
      BY <1>5, <1>6, <3>3
  <2> QED
    BY <1>5, <2>1, <2>2
<1>9. \A i \in 1 .. Len(recent) : recent[i] = times[r + i]
  <2> SUFFICES ASSUME NEW i \in 1 .. Len(recent) PROVE recent[i] = times[r + i]
    OBVIOUS
  <2>1. i \in 1 .. Len(kept) - e /\ e + i \in 1 .. Len(kept) /\ d + (e + i) = r + i
    BY <1>5, <1>6
  <2>2. recent[i] = kept[e + i] /\ kept[e + i] = times[d + (e + i)]
    BY <1>5, <1>6, <2>1
  <2> QED
    BY <2>1, <2>2
<1> HIDE DEF r
<1>10. \A i \in 1 .. r : Expired(times[i])
  BY <1>5, <1>7, <1>8
<1>11. LeftFrom(recent, times, r)
  BY <1>6, <1>7, <1>9, <1>10 DEF LeftFrom
<1>12. \A i \in r + 1 .. Len(times) : ~Expired(times[i])
  BY <1>5, <1>7, <1>8
<1>13. r \in Nat
  BY <1>5, <1>7
<1> QED
  BY <1>11, <1>12, <1>13 DEF recent, times, kept

\* A request that is refused leaves everyone's grants, and had MaxRequests of its own.
LEMMA RefusalKeeps ==
    ASSUME LimitsAssumption, Windows, NEW k \in Callers, IsAllowed(k),
           Len(Recent(Kept(k))) >= MaxRequests
    PROVE  Windows'
<1> DEFINE recent == Recent(Kept(k))
<1>1. PICK d \in Nat : /\ LeftFrom(recent, granted[k], d)
                       /\ \A i \in d + 1 .. Len(granted[k]) : ~Expired(granted[k][i])
  BY RecentCounted
<1>2. /\ requests' = Evicted(IF recent = <<>> THEN Restrict(requests, DOMAIN requests \ {k})
                             ELSE requests)
      /\ refused' = refused \cup {k} /\ UNCHANGED <<now, granted>>
  BY DEF IsAllowed
<1>3. /\ recent \in Seq(Nat) /\ Len(granted[k]) \in Nat /\ d \in 0 .. Len(granted[k])
      /\ Len(recent) = Len(granted[k]) - d /\ MaxRequests \in Nat \ {0}
  BY <1>1 DEF LeftFrom, Windows, Ascends, LimitsAssumption
<1>4. recent # <<>> /\ Len(recent) >= MaxRequests
  BY <1>3
<1>5. requests' = Evicted(requests)
  BY <1>2, <1>4
<1>6. \A j \in Callers : Kept(j)' = KeptIn(Evicted(requests), j)
  BY <1>5 DEF Kept, KeptIn
<1>7. \A j \in Callers : Left(Kept(j)', granted[j])
  BY <1>6, OthersKept
<1>8. Exhausted(k)
  <2>1. Len(granted[k]) - MaxRequests + 1 \in d + 1 .. Len(granted[k])
    BY <1>3, <1>4
  <2> QED
    BY SMTT(30), <1>1, <1>3, <1>4, <2>1 DEF Exhausted
<1>9. \A j \in Callers : Left(Kept(j), granted[j])'
  BY <1>2, <1>7 DEF Left, LeftFrom, Expired
<1>10. \A j \in Callers : (Ascends(granted[j]) /\ Spaced(j))'
  BY <1>2 DEF Windows, Ascends, Spaced
<1>11. \A j \in Callers : (j \in refused => Exhausted(j))'
  BY <1>2, <1>8 DEF Windows, Exhausted, Expired
<1>12. now' \in Nat /\ DOMAIN granted' = Callers
  BY <1>2 DEF Windows
<1> QED
  BY <1>9, <1>10, <1>11, <1>12 DEF Windows

\* One more at the end, element by element.
LEMMA OneMore ==
    ASSUME NEW seq \in Seq(Nat), NEW t \in Nat
    PROVE  /\ Append(seq, t) \in Seq(Nat) /\ Len(Append(seq, t)) = Len(seq) + 1
           /\ Append(seq, t)[Len(seq) + 1] = t
           /\ \A i \in 1 .. Len(seq) : Append(seq, t)[i] = seq[i]
OBVIOUS

\* A request that is allowed is the last of k's, and the one MaxRequests before has expired.
LEMMA GrantKeeps ==
    ASSUME LimitsAssumption, Windows, NEW k \in Callers, IsAllowed(k),
           ~(Len(Recent(Kept(k))) >= MaxRequests)
    PROVE  Windows'
<1> DEFINE recent == Recent(Kept(k))
           r == IF recent = <<>> THEN Restrict(requests, DOMAIN requests \ {k}) ELSE requests
           times == granted[k]
           n == Len(times)
<1>1. PICK d \in Nat : /\ LeftFrom(recent, times, d)
                       /\ \A i \in d + 1 .. n : ~Expired(times[i])
  BY RecentCounted
<1>2. /\ requests' = [j \in DOMAIN Evicted(r) \cup {k} |->
                         IF j = k THEN Append(recent, now) ELSE Evicted(r)[j]]
      /\ granted' = [granted EXCEPT ![k] = Append(@, now)]
      /\ UNCHANGED <<now, refused>>
  BY DEF IsAllowed
<1>3. /\ recent \in Seq(Nat) /\ times \in Seq(Nat) /\ n \in Nat /\ d \in 0 .. n
      /\ Len(recent) = n - d /\ Len(recent) < MaxRequests
      /\ \A i \in 1 .. Len(recent) : recent[i] = times[d + i]
      /\ \A i \in 1 .. d : Expired(times[i])
      /\ \A i \in 1 .. n : times[i] <= now
      /\ \A i, j \in 1 .. n : i <= j => times[i] <= times[j]
      /\ now \in Nat /\ MaxRequests \in Nat \ {0} /\ Window \in Nat \ {0}
  <2>1. now \in Nat /\ Ascends(times)
    BY DEF Windows
  <2>2. /\ recent \in Seq(Nat) /\ d \in 0 .. n /\ Len(recent) = n - d
        /\ \A i \in 1 .. Len(recent) : recent[i] = times[d + i]
        /\ \A i \in 1 .. d : Expired(times[i])
    BY <1>1 DEF LeftFrom
  <2>3. MaxRequests \in Nat \ {0} /\ Window \in Nat \ {0}
    BY DEF LimitsAssumption
  <2> HIDE DEF recent, r, times
  <2>4. Len(recent) < MaxRequests
    <3>1. Len(recent) \in Nat
      BY <2>2
    <3> QED
      BY <2>3, <3>1 DEF recent
  <2> QED
    BY <2>1, <2>2, <2>3, <2>4 DEF Ascends
<1>4. /\ DOMAIN granted' = Callers /\ now' = now /\ refused' = refused
      /\ granted'[k] = Append(times, now) /\ \A j \in Callers \ {k} : granted'[j] = granted[j]
  BY <1>2 DEF Windows
<1>5. Kept(k)' = Append(recent, now) /\ \A j \in Callers \ {k} : Kept(j)' = KeptIn(Evicted(r), j)
  BY <1>2 DEF Kept, KeptIn
<1>6. \A j \in Callers \ {k} : Left(KeptIn(Evicted(r), j), granted[j])
  BY OthersKept
<1>7. \A j \in Callers \ {k} : (Ascends(granted[j]) /\ Spaced(j) /\ Left(Kept(j), granted[j])
                                /\ (j \in refused => Exhausted(j)))'
  <2> SUFFICES ASSUME NEW j \in Callers \ {k}
               PROVE  /\ Ascends(granted[j])' /\ Spaced(j)' /\ Left(Kept(j), granted[j])'
                      /\ (j \in refused => Exhausted(j))'
    OBVIOUS
  <2>1. granted'[j] = granted[j] /\ now' = now /\ refused' = refused
    BY <1>4
  <2>2. Ascends(granted[j])' /\ Spaced(j)'
    BY <2>1 DEF Windows, Ascends, Spaced
  <2>3. (j \in refused => Exhausted(j))'
    BY <2>1 DEF Windows, Exhausted, Expired
  <2>4. Left(Kept(j)', granted[j])
    BY <1>5, <1>6
  <2>5. Left(Kept(j), granted[j])'
    BY <2>1, <2>4 DEF Left, LeftFrom, Expired
  <2> QED
    BY <2>2, <2>3, <2>5
<1> HIDE DEF recent, r, times, n
<1> DEFINE new == granted'[k]
<1>8. /\ new \in Seq(Nat) /\ Len(new) = n + 1 /\ new[n + 1] = now
      /\ \A i \in 1 .. n : new[i] = times[i]
  BY <1>3, <1>4 DEF n
<1> HIDE DEF new
<1>9. Ascends(granted[k])'
  <2>1. \A i \in 1 .. n + 1 : new[i] <= now
    <3> SUFFICES ASSUME NEW i \in 1 .. n + 1 PROVE new[i] <= now
      OBVIOUS
    <3>1. i = n + 1 \/ i \in 1 .. n
      BY <1>3
    <3> QED
      <4>1. now \in Nat /\ \A h \in 1 .. n : times[h] <= now
        BY <1>3
      <4>2. CASE i = n + 1
        BY <1>8, <4>1, <4>2
      <4>3. CASE i \in 1 .. n
        <5>1. new[i] = times[i] /\ times[i] <= now
          BY <1>8, <4>1, <4>3
        <5> QED
          BY <5>1
      <4> QED
        BY <3>1, <4>2, <4>3
  <2>2. \A i, j \in 1 .. n + 1 : i <= j => new[i] <= new[j]
    <3> SUFFICES ASSUME NEW i \in 1 .. n + 1, NEW j \in 1 .. n + 1, i <= j
                 PROVE  new[i] <= new[j]
      OBVIOUS
    <3>1. CASE j = n + 1
      BY <2>1, <1>8, <3>1
    <3>2. CASE j <= n
      <4>1. i \in 1 .. n /\ j \in 1 .. n
        BY <1>3, <3>2
      <4> QED
        BY <1>3, <1>8, <4>1
    <3> QED
      BY <1>3, <3>1, <3>2
  <2> QED
    BY <1>4, <1>8, <2>1, <2>2 DEF Ascends, new
<1>10. Spaced(k)'
  <2> SUFFICES ASSUME NEW i \in 1 .. n + 1, i + MaxRequests <= n + 1
               PROVE  new[i] + Window <= new[i + MaxRequests]
    BY <1>8 DEF Spaced, new
  <2>1. CASE i + MaxRequests <= n
    <3>1. i \in 1 .. n /\ i + MaxRequests \in 1 .. n
      BY <1>3, <2>1
    <3>2. times[i] + Window <= times[i + MaxRequests]
      BY <1>3, <2>1, <3>1 DEF Windows, Spaced, times, n
    <3> QED
      BY <1>8, <3>1, <3>2
  <2>2. CASE i + MaxRequests = n + 1
    <3>1. i \in 1 .. d /\ i \in 1 .. n
      BY <1>3, <2>2
    <3>2. Expired(times[i]) /\ times[i] \in Nat
      BY SMTT(30), <1>3, <3>1 DEF n
    <3>3. times[i] + Window <= now
      BY <1>3, <3>2 DEF Expired
    <3> QED
      BY <1>8, <2>2, <3>1, <3>3
  <2> QED
    BY <1>3, <2>1, <2>2
<1>11. Left(Kept(k), granted[k])'
  <2>1. /\ Kept(k)' \in Seq(Nat) /\ Len(Kept(k)') = Len(recent) + 1
        /\ Kept(k)'[Len(recent) + 1] = now
        /\ \A i \in 1 .. Len(recent) : Kept(k)'[i] = recent[i]
    <3>1. recent \in Seq(Nat) /\ now \in Nat
      BY <1>3
    <3>2. /\ Append(recent, now) \in Seq(Nat) /\ Len(Append(recent, now)) = Len(recent) + 1
          /\ Append(recent, now)[Len(recent) + 1] = now
          /\ \A i \in 1 .. Len(recent) : Append(recent, now)[i] = recent[i]
      BY <3>1, OneMore
    <3>3. Kept(k)' = Append(recent, now)
      BY <1>5
    <3> QED
      BY <3>2, <3>3
  <2>2. \A i \in 1 .. Len(Kept(k)') : Kept(k)'[i] = new[d + i]
    <3> SUFFICES ASSUME NEW i \in 1 .. Len(Kept(k)') PROVE Kept(k)'[i] = new[d + i]
      OBVIOUS
    <3>1. CASE i = Len(recent) + 1
      <4>1. d + i = n + 1
        BY <1>3, <3>1
      <4> QED
        BY <1>8, <2>1, <3>1, <4>1
    <3>2. CASE i <= Len(recent)
      <4>1. i \in 1 .. Len(recent) /\ d + i \in 1 .. n
        BY <1>3, <2>1, <3>2
      <4> QED
        BY <1>3, <1>8, <2>1, <4>1
    <3> QED
      BY <1>3, <2>1, <3>1, <3>2
  <2>3. \A i \in 1 .. d : new[i] <= now - Window
    <3> SUFFICES ASSUME NEW i \in 1 .. d PROVE new[i] <= now - Window
      OBVIOUS
    <3>1. i \in 1 .. n /\ Expired(times[i])
      BY <1>3
    <3> QED
      BY <1>8, <3>1 DEF Expired
  <2>4. LeftFrom(Kept(k), granted[k], d)'
    <3>1. d \in 0 .. Len(new) /\ Len(Kept(k)') = Len(new) - d
      BY <1>3, <1>8, <2>1
    <3>2. \A i \in 1 .. d : new[i] <= now' - Window
      BY <1>4, <2>3
    <3> QED
      BY <2>1, <2>2, <3>1, <3>2 DEF LeftFrom, new, Expired
  <2> QED
    BY <2>4 DEF Left
<1>12. (k \in refused => Exhausted(k))'
  <2> SUFFICES ASSUME k \in refused PROVE Exhausted(k)'
    BY <1>4
  <2>1. n >= MaxRequests /\ ~Expired(times[n - MaxRequests + 1])
    BY DEF Windows, Exhausted, times, n
  <2> DEFINE m == n + 1 - MaxRequests + 1
  <2>2. ~(new[m] <= now - Window)
    <3>1. CASE MaxRequests = 1
      BY <1>3, <1>8, <3>1
    <3>2. CASE MaxRequests > 1
      <4>1. m \in 1 .. n /\ n - MaxRequests + 1 \in 1 .. n /\ n - MaxRequests + 1 <= m
        BY <1>3, <2>1, <3>2
      <4>2. times[n - MaxRequests + 1] <= times[m] /\ new[m] = times[m]
        BY <1>3, <1>8, <4>1
      <4>3. times[n - MaxRequests + 1] \in Nat /\ times[m] \in Nat
        <5>1. n - MaxRequests + 1 \in DOMAIN times /\ m \in DOMAIN times
          BY SMTT(30), <1>3, <4>1 DEF n
        <5> QED
          BY SMTT(30), <1>3, <5>1
      <4> QED
        BY <1>3, <2>1, <4>2, <4>3 DEF Expired
    <3> QED
      BY <1>3, <3>1, <3>2
  <2> HIDE DEF m
  <2>3. Len(new) >= MaxRequests /\ m = Len(new) - MaxRequests + 1
    BY <1>3, <1>8, <2>1 DEF m
  <2> QED
    BY <1>4, <2>2, <2>3 DEF Exhausted, Expired, new
<1>13. \A j \in Callers : (Ascends(granted[j]) /\ Spaced(j) /\ Left(Kept(j), granted[j])
                           /\ (j \in refused => Exhausted(j)))'
  BY <1>7, <1>9, <1>10, <1>11, <1>12
<1> QED
  BY <1>3, <1>4, <1>13 DEF Windows

\* The windows are kept by every step.
LEMMA WindowsStep ==
    ASSUME LimitsAssumption, Windows, [LimitsNext]_lvars
    PROVE  Windows'
<1>1. CASE Tick
  <2>1. /\ now' = now + 1 /\ refused' = {} /\ UNCHANGED <<requests, granted>>
        /\ now \in Nat
    BY <1>1 DEF Tick, Windows
  <2> SUFFICES ASSUME NEW k \in Callers
               PROVE  /\ Ascends(granted[k])' /\ Spaced(k)' /\ Left(Kept(k), granted[k])'
    BY <2>1 DEF Windows
  <2>2. Ascends(granted[k]) /\ Spaced(k) /\ Left(Kept(k), granted[k])
    BY DEF Windows
  <2>3. Ascends(granted[k])'
    <3>1. \A i \in 1 .. Len(granted[k]) : granted[k][i] <= now + 1
      <4> SUFFICES ASSUME NEW i \in 1 .. Len(granted[k]) PROVE granted[k][i] <= now + 1
        OBVIOUS
      <4>1. granted[k][i] <= now /\ granted[k][i] \in Nat
        BY <2>2 DEF Ascends
      <4> QED
        BY <2>1, <4>1
    <3> QED
      BY <2>1, <2>2, <3>1 DEF Ascends
  <2>4. Left(Kept(k), granted[k])'
    <3>1. PICK d \in Nat : LeftFrom(Kept(k), granted[k], d)
      BY <2>2 DEF Left
    <3>2. \A i \in 1 .. d : granted[k][i] <= now + 1 - Window
      <4> SUFFICES ASSUME NEW i \in 1 .. d PROVE granted[k][i] <= now + 1 - Window
        OBVIOUS
      <4>1. granted[k][i] <= now - Window /\ i \in DOMAIN granted[k]
        BY <2>2, <3>1 DEF LeftFrom, Expired, Ascends
      <4>2. granted[k][i] \in Nat
        BY <2>2, <4>1 DEF Ascends
      <4> QED
        BY <2>1, <4>1, <4>2 DEF LimitsAssumption
    <3>3. Kept(k)' = Kept(k)
      BY <2>1 DEF Kept
    <3>4. LeftFrom(Kept(k), granted[k], d)'
      <4>1. \A i \in 1 .. d : granted'[k][i] <= now' - Window
        BY <2>1, <3>2
      <4> QED
        BY <2>1, <3>1, <3>3, <4>1 DEF LeftFrom, Expired
    <3> QED
      BY <3>4 DEF Left
  <2> QED
    BY <2>1, <2>2, <2>3, <2>4 DEF Spaced
<1>2. CASE \E k \in Callers : IsAllowed(k)
  BY <1>2, RefusalKeeps, GrantKeeps
<1>3. CASE UNCHANGED <<now, requests, granted, refused>>
  <2> SUFFICES ASSUME NEW k \in Callers
               PROVE  /\ Ascends(granted[k])' /\ Spaced(k)' /\ Left(Kept(k), granted[k])'
                      /\ (k \in refused => Exhausted(k))'
    BY <1>3 DEF Windows
  <2>1. Ascends(granted[k])' /\ Spaced(k)'
    BY <1>3 DEF Windows, Ascends, Spaced
  <2>2. Left(Kept(k), granted[k])'
    BY <1>3 DEF Windows, Left, LeftFrom, Kept, Expired
  <2>3. (k \in refused => Exhausted(k))'
    BY <1>3 DEF Windows, Exhausted, Expired
  <2> QED
    BY <2>1, <2>2, <2>3
<1> QED
  BY <1>1, <1>2, <1>3 DEF LimitsNext, Limiting, Caching, Get, GetFresh, MakeClient, lvars

\* The windows hold at first.
LEMMA WindowsInit ==
    ASSUME LimitsAssumption, LimitsInit
    PROVE  Windows
<1>1. <<>> \in Seq(Nat) /\ Len(<<>>) = 0
  OBVIOUS
<1>2. /\ now = 0 /\ refused = {} /\ granted = [k \in Callers |-> <<>>]
      /\ \A k \in Callers : Kept(k) = <<>>
  BY DEF LimitsInit, Kept
<1>3. MaxRequests \in Nat
  BY DEF LimitsAssumption
<1> SUFFICES ASSUME NEW k \in Callers
             PROVE  Ascends(<<>>) /\ Spaced(k) /\ Left(<<>>, <<>>)
  BY <1>2 DEF Windows
<1>4. Ascends(<<>>) /\ Spaced(k)
  BY <1>1, <1>2, <1>3 DEF Ascends, Spaced
<1>5. LeftFrom(<<>>, <<>>, 0)
  BY <1>1 DEF LeftFrom
<1> QED
  BY <1>4, <1>5 DEF Left

\* An interval by its length.
LEMMA LengthOf ==
    ASSUME NEW a \in Nat, NEW m \in Nat
    PROVE  IsFiniteSet(a .. a + m - 1) /\ Cardinality(a .. a + m - 1) = m
<1> DEFINE b == a + m - 1
<1>1. a \in Int /\ b \in Int /\ (IF a > b THEN 0 ELSE b - a + 1) = m
  OBVIOUS
<1> HIDE DEF b
<1>2. IsFiniteSet(a .. b) /\ Cardinality(a .. b) = m
  BY <1>1, FS_Interval
<1> QED
  BY <1>2 DEF b

\* Of times that ascend and are Window apart when MaxRequests apart, no window holds more
\* than MaxRequests, and those since an unexpired one all count.
LEMMA WindowsCount ==
    ASSUME LimitsAssumption, Windows
    PROVE  RateKept
<1> SUFFICES ASSUME NEW k \in Callers
             PROVE  /\ \A t \in 0 .. now : Within(k, t, t + Window - 1) <= MaxRequests
                    /\ k \in refused => Within(k, now - Window + 1, now) >= MaxRequests
  BY DEF RateKept
<1> DEFINE times == granted[k]
           n == Len(times)
<1>1. /\ times \in Seq(Nat) /\ n \in Nat /\ DOMAIN times = 1 .. n /\ now \in Nat
      /\ \A i \in 1 .. n : times[i] \in Nat
      /\ MaxRequests \in Nat \ {0} /\ Window \in Nat \ {0}
  <2>1. times \in Seq(Nat) /\ now \in Nat
    BY DEF Windows, Ascends
  <2>2. MaxRequests \in Nat \ {0} /\ Window \in Nat \ {0}
    BY DEF LimitsAssumption
  <2> QED
    BY <2>1, <2>2
<1>2. \A i \in 1 .. n : times[i] <= now
  BY DEF Windows, Ascends
<1>3. \A i, j \in 1 .. n : i <= j => times[i] <= times[j]
  BY DEF Windows, Ascends
<1>4. \A i \in 1 .. n : i + MaxRequests <= n => times[i] + Window <= times[i + MaxRequests]
  BY DEF Windows, Spaced
<1>5. k \in refused => n >= MaxRequests /\ ~Expired(times[n - MaxRequests + 1])
  BY DEF Windows, Exhausted
<1>6. \A from, to : Within(k, from, to) = Cardinality({i \in 1 .. n : times[i] \in from .. to})
  BY <1>1 DEF Within
<1> HIDE DEF times, n
<1>7. ASSUME NEW t \in 0 .. now
      PROVE  Within(k, t, t + Window - 1) <= MaxRequests
  <2> DEFINE S == {i \in 1 .. n : times[i] \in t .. t + Window - 1}
  <2>1. CASE S = {}
    BY <1>1, <1>6, <2>1, FS_EmptySet
  <2>2. CASE S # {}
    <3>1. PICK a \in S : \A i \in S : a <= i
      <4>1. S \in SUBSET Nat
        BY <1>1
      <4> HIDE DEF S
      <4> QED
        BY <2>2, <4>1, Least
    <3>2. \A i \in S : i \in a .. a + MaxRequests - 1
      <4> SUFFICES ASSUME NEW i \in S, i >= a + MaxRequests PROVE FALSE
        BY <1>1, <3>1
      <4>1. a + MaxRequests \in 1 .. n /\ i \in 1 .. n /\ a \in 1 .. n /\ a + MaxRequests <= n
        BY <1>1
      <4>2. times[a] + Window <= times[a + MaxRequests] /\ times[a + MaxRequests] <= times[i]
        BY <1>3, <1>4, <4>1
      <4>3. times[a] >= t /\ times[i] <= t + Window - 1
        OBVIOUS
      <4>4. times[a] \in Nat /\ times[a + MaxRequests] \in Nat /\ times[i] \in Nat
        BY <1>1, <4>1
      <4> QED
        BY SMTT(30), <1>1, <4>2, <4>3, <4>4
    <3>3. /\ IsFiniteSet(a .. a + MaxRequests - 1)
          /\ Cardinality(a .. a + MaxRequests - 1) = MaxRequests
      <4>1. a \in Nat /\ MaxRequests \in Nat
        BY <1>1
      <4> QED
        BY <4>1, LengthOf
    <3>4. S \in SUBSET (a .. a + MaxRequests - 1)
      BY <3>2
    <3>5. Cardinality(S) <= MaxRequests
      BY <3>3, <3>4, FS_Subset
    <3> QED
      BY <1>6, <3>5
  <2> QED
    BY <2>1, <2>2
<1>8. ASSUME k \in refused
      PROVE  Within(k, now - Window + 1, now) >= MaxRequests
  <2> DEFINE S == {i \in 1 .. n : times[i] \in now - Window + 1 .. now}
             a == n - MaxRequests + 1
  <2>1. /\ a \in 1 .. n /\ times[a] > now - Window
    <3>1. a \in 1 .. n /\ ~(times[a] <= now - Window)
      BY <1>1, <1>5, <1>8 DEF Expired
    <3>2. times[a] \in Nat
      BY <1>1, <3>1
    <3> QED
      BY <1>1, <3>1, <3>2
  <2>2. \A i \in a .. n : i \in S
    <3> SUFFICES ASSUME NEW i \in a .. n PROVE i \in S
      OBVIOUS
    <3>1. i \in 1 .. n /\ a <= i
      BY <1>1, <2>1
    <3>2. times[a] <= times[i] /\ times[i] <= now /\ times[i] \in Nat /\ times[a] \in Nat
      BY <1>1, <1>2, <1>3, <2>1, <3>1
    <3>3. times[i] \in now - Window + 1 .. now
      BY <1>1, <2>1, <3>2
    <3> QED
      BY <3>1, <3>3
  <2>3. IsFiniteSet(1 .. n)
    BY <1>1, FS_Interval
  <2>4. Cardinality(a .. n) = MaxRequests
    <3>1. a \in Int /\ n \in Int /\ ~(a > n)
      BY <1>1, <2>1
    <3>2. Cardinality(a .. n) = IF a > n THEN 0 ELSE n - a + 1
      BY <3>1, FS_Interval
    <3> QED
      BY <1>1, <3>1, <3>2
  <2>5. IsFiniteSet(S) /\ Cardinality(S) \in Nat
    <3>1. S \in SUBSET (1 .. n)
      OBVIOUS
    <3> QED
      BY <2>3, <3>1, FS_Subset, FS_CardinalityType
  <2>6. Cardinality(a .. n) <= Cardinality(S)
    <3>1. a .. n \in SUBSET S
      BY <2>2
    <3> QED
      BY <2>5, <3>1, FS_Subset
  <2> QED
    BY <1>1, <1>6, <2>4, <2>5, <2>6
<1> QED
  BY <1>7, <1>8

\* For any callers, limits, windows and evictions: RateLimiter.is_allowed lets no caller make
\* more than max_requests in any window, and refuses no one who has made fewer.
THEOREM RatesKept == LimitsSpec => []RateKept
<1>1. LimitsInit => Windows
  BY LimitsAssumption, WindowsInit
<1>2. Windows /\ [LimitsNext]_lvars => Windows'
  BY LimitsAssumption, WindowsStep
<1>3. Windows => RateKept
  BY LimitsAssumption, WindowsCount
<1> QED
  BY <1>1, <1>2, <1>3, PTL DEF LimitsSpec

-------------------------------------------------------------------------------
(* The cache *)

Once(seq) == \A i, j \in 1 .. Len(seq) : seq[i] = seq[j] => i = j

\* The keys in the order of the dict, each once, and what the last eviction cost.
Cached ==
    /\ now \in Nat
    /\ IsFiniteSet(DOMAIN cache) /\ DOMAIN cache \in SUBSET ApiKeys
    /\ \A k \in DOMAIN cache : cache[k] \in Nat
    /\ order \in Seq(ApiKeys) /\ Once(order)
    /\ FreshSurvives

\* A sequence without one of its places.
LEMMA Without ==
    ASSUME NEW S, NEW seq \in Seq(S), NEW p \in 1 .. Len(seq)
    PROVE  /\ RemoveAt(seq, p) \in Seq(S) /\ Len(RemoveAt(seq, p)) = Len(seq) - 1
           /\ \A i \in 1 .. Len(seq) - 1 :
                 RemoveAt(seq, p)[i] = IF i < p THEN seq[i] ELSE seq[i + 1]
<1> DEFINE s == SubSeq(seq, 1, p - 1)
           t == SubSeq(seq, p + 1, Len(seq))
<1>1. Len(seq) \in Nat /\ p \in Nat /\ p >= 1 /\ p <= Len(seq)
  OBVIOUS
<1>2. s \in Seq(S) /\ Len(s) = p - 1 /\ \A i \in 1 .. p - 1 : s[i] = seq[i]
  <2>1. s \in Seq(S)
    OBVIOUS
  <2>2. Len(s) = p - 1
    OBVIOUS
  <2>3. \A i \in 1 .. p - 1 : s[i] = seq[i]
    OBVIOUS
  <2> QED
    BY <2>1, <2>2, <2>3
<1>3. t \in Seq(S) /\ Len(t) = Len(seq) - p /\ \A i \in 1 .. Len(seq) - p : t[i] = seq[p + i]
  <2>1. t \in Seq(S)
    OBVIOUS
  <2>2. Len(t) = Len(seq) - p
    OBVIOUS
  <2>3. \A i \in 1 .. Len(seq) - p : t[i] = seq[p + i]
    OBVIOUS
  <2> QED
    BY <2>1, <2>2, <2>3
<1>4. RemoveAt(seq, p) = s \o t
  BY DEF RemoveAt
<1> HIDE DEF s, t
<1> DEFINE c == s \o t
<1>5. c \in Seq(S) /\ Len(c) = Len(seq) - 1
  BY <1>1, <1>2, <1>3
<1>6. \A i \in 1 .. p - 1 : c[i] = s[i]
  BY <1>1, <1>2, <1>3
<1>7. \A i \in p .. Len(seq) - 1 : c[i] = t[i - (p - 1)]
  BY <1>1, <1>2, <1>3
<1> HIDE DEF c
<1>8. ASSUME NEW i \in 1 .. Len(seq) - 1
      PROVE  c[i] = IF i < p THEN seq[i] ELSE seq[i + 1]
  <2>1. CASE i < p
    BY <1>1, <1>2, <1>6, <2>1
  <2>2. CASE ~(i < p)
    <3>1. i \in p .. Len(seq) - 1 /\ i - (p - 1) \in 1 .. Len(seq) - p /\ p + (i - (p - 1)) = i + 1
      BY <1>1, <2>2
    <3>2. t[i - (p - 1)] = seq[p + (i - (p - 1))]
      BY <1>3, <3>1
    <3> QED
      BY <1>7, <2>2, <3>1, <3>2
  <2> QED
    BY <2>1, <2>2
<1> QED
  BY <1>4, <1>5, <1>8 DEF c

\* Without one of its places, a sequence that lists each once loses that one.
LEMMA WithoutOnce ==
    ASSUME NEW S, NEW seq \in Seq(S), Once(seq), NEW p \in 1 .. Len(seq)
    PROVE  /\ RemoveAt(seq, p) \in Seq(S) /\ Once(RemoveAt(seq, p))
           /\ Len(RemoveAt(seq, p)) = Len(seq) - 1
           /\ ToSet(RemoveAt(seq, p)) = ToSet(seq) \ {seq[p]}
<1> DEFINE c == RemoveAt(seq, p)
           at(i) == IF i < p THEN i ELSE i + 1
<1>1. c \in Seq(S) /\ Len(c) = Len(seq) - 1
  BY Without
<1>2. \A i \in 1 .. Len(seq) - 1 : c[i] = seq[at(i)]
  BY Without
<1>3. Len(seq) \in Nat /\ DOMAIN seq = 1 .. Len(seq) /\ DOMAIN c = 1 .. Len(seq) - 1
  BY <1>1
<1> HIDE DEF c
<1>4. /\ \A i \in 1 .. Len(seq) - 1 : at(i) \in 1 .. Len(seq) /\ at(i) # p
      /\ \A i, j \in 1 .. Len(seq) - 1 : at(i) = at(j) => i = j
      /\ \A j \in 1 .. Len(seq) : j # p => \E i \in 1 .. Len(seq) - 1 : at(i) = j
  <2>1. \A i \in 1 .. Len(seq) - 1 : at(i) \in 1 .. Len(seq) /\ at(i) # p
    BY <1>3
  <2>2. \A i, j \in 1 .. Len(seq) - 1 : at(i) = at(j) => i = j
    BY <1>3
  <2>3. ASSUME NEW j \in 1 .. Len(seq), j # p
        PROVE  \E i \in 1 .. Len(seq) - 1 : at(i) = j
    <3> DEFINE i == IF j < p THEN j ELSE j - 1
    <3>1. i \in 1 .. Len(seq) - 1 /\ at(i) = j
      BY <1>3, <2>3
    <3> QED
      BY <3>1
  <2> QED
    BY <2>1, <2>2, <2>3
<1> HIDE DEF at
<1>5. Once(c)
  <2> SUFFICES ASSUME NEW i \in 1 .. Len(seq) - 1, NEW j \in 1 .. Len(seq) - 1, c[i] = c[j]
               PROVE  i = j
    BY <1>1 DEF Once
  <2>1. seq[at(i)] = seq[at(j)] /\ at(i) \in 1 .. Len(seq) /\ at(j) \in 1 .. Len(seq)
    BY <1>2, <1>4
  <2>2. at(i) = at(j)
    BY <2>1 DEF Once
  <2> QED
    BY <1>4, <2>2
<1>6. ToSet(c) = ToSet(seq) \ {seq[p]}
  <2>1. ASSUME NEW x \in ToSet(c) PROVE x \in ToSet(seq) \ {seq[p]}
    <3>1. PICK i \in 1 .. Len(seq) - 1 : x = c[i]
      BY <1>3 DEF ToSet
    <3>2. x = seq[at(i)] /\ at(i) \in 1 .. Len(seq) /\ at(i) # p
      BY <1>2, <1>4, <3>1
    <3> QED
      BY <1>3, <3>2 DEF ToSet, Once
  <2>2. ASSUME NEW x \in ToSet(seq) \ {seq[p]} PROVE x \in ToSet(c)
    <3>1. PICK j \in 1 .. Len(seq) : x = seq[j] /\ j # p
      BY <1>3 DEF ToSet
    <3>2. PICK i \in 1 .. Len(seq) - 1 : at(i) = j
      BY <1>4, <3>1
    <3>3. x = c[i]
      BY <1>2, <3>1, <3>2
    <3> QED
      BY <1>3, <3>3 DEF ToSet
  <2> QED
    BY <2>1, <2>2
<1> QED
  BY <1>1, <1>5, <1>6 DEF c

\* There is an oldest entry, the first of several.
LEMMA OldestIs ==
    ASSUME Cached, order # <<>>
    PROVE  /\ Oldest \in 1 .. Len(order)
           /\ \A k \in DOMAIN cache : cache[order[Oldest]] <= cache[k]
<1> DEFINE n == Len(order)
           T == {cache[order[i]] : i \in 1 .. n}
<1>1. /\ n \in Nat /\ n >= 1 /\ DOMAIN order = 1 .. n
      /\ \A i \in 1 .. n : order[i] \in DOMAIN cache /\ cache[order[i]] \in Nat
      /\ \A k \in DOMAIN cache : \E i \in 1 .. n : order[i] = k
  <2>1. order \in Seq(ApiKeys) /\ ToSet(order) = DOMAIN cache
    BY DEF Cached, FreshSurvives
  <2>2. n \in Nat /\ n >= 1 /\ DOMAIN order = 1 .. n
    BY <2>1
  <2> HIDE DEF n
  <2>3. \A i \in 1 .. n : order[i] \in DOMAIN cache
    BY <2>1, <2>2 DEF ToSet
  <2>4. \A k \in DOMAIN cache : \E i \in 1 .. n : order[i] = k
    BY <2>1, <2>2 DEF ToSet
  <2> QED
    BY <2>2, <2>3, <2>4 DEF Cached
<1> HIDE DEF n
<1>2. PICK m \in T : \A t \in T : m <= t
  <2>1. T \in SUBSET Nat /\ T # {}
    BY <1>1
  <2> HIDE DEF T
  <2> QED
    BY <2>1, Least
<1> DEFINE I == {i \in 1 .. n : cache[order[i]] = m}
<1>3. PICK p \in I : \A i \in I : p <= i
  <2>1. I \in SUBSET Nat /\ I # {}
    BY SMTT(30), <1>1, <1>2
  <2> HIDE DEF I
  <2> QED
    BY <2>1, Least
<1>4. \E i \in DOMAIN order :
         \A j \in DOMAIN order : \/ cache[order[i]] < cache[order[j]]
                                 \/ cache[order[i]] = cache[order[j]] /\ i <= j
  <2>1. p \in DOMAIN order /\ cache[order[p]] = m
    BY <1>1, <1>3
  <2> SUFFICES ASSUME NEW j \in 1 .. n
               PROVE  \/ cache[order[p]] < cache[order[j]]
                      \/ cache[order[p]] = cache[order[j]] /\ p <= j
    BY <1>1, <2>1
  <2>2. m <= cache[order[j]] /\ m \in Nat /\ cache[order[j]] \in Nat
    BY <1>1, <1>2
  <2>3. CASE m = cache[order[j]]
    BY <1>3, <2>1, <2>3
  <2>4. CASE m < cache[order[j]]
    BY <2>1, <2>4
  <2> QED
    BY <2>2, <2>3, <2>4
<1>5. /\ Oldest \in DOMAIN order
      /\ \A j \in DOMAIN order : \/ cache[order[Oldest]] < cache[order[j]]
                                 \/ cache[order[Oldest]] = cache[order[j]] /\ Oldest <= j
  BY <1>4, Zenon DEF Oldest
<1>6. ASSUME NEW k \in DOMAIN cache
      PROVE  cache[order[Oldest]] <= cache[k]
  <2>1. PICK j \in 1 .. n : order[j] = k
    BY <1>1
  <2>2. cache[order[Oldest]] \in Nat /\ cache[order[j]] \in Nat
    BY <1>1, <1>5
  <2>3. cache[order[Oldest]] < cache[order[j]] \/ cache[order[Oldest]] = cache[order[j]]
    BY <1>1, <1>5
  <2> QED
    BY <2>1, <2>2, <2>3
<1> QED
  BY <1>1, <1>5, <1>6 DEF n

\* The entries that are left, and their order, when a client is made.
LEMMA LeftOver ==
    ASSUME LimitsAssumption, Cached,
           NEW left, NEW kept,
           left = IF Full THEN Restrict(cache, DOMAIN cache \ {order[Oldest]}) ELSE cache,
           kept = IF Full THEN RemoveAt(order, Oldest) ELSE order
    PROVE  /\ DOMAIN left \in SUBSET (DOMAIN cache) /\ \A k \in DOMAIN left : left[k] = cache[k]
           /\ IsFiniteSet(DOMAIN left) /\ Cardinality(DOMAIN left) \in Nat
           /\ Cardinality(DOMAIN left) < MaxSize
           /\ kept \in Seq(ApiKeys) /\ Once(kept)
           /\ ToSet(kept) = DOMAIN left /\ Len(kept) = Cardinality(DOMAIN left)
<1> DEFINE D == DOMAIN cache
<1>1. /\ order \in Seq(ApiKeys) /\ Once(order) /\ ToSet(order) = D /\ Len(order) = Cardinality(D)
      /\ IsFiniteSet(D) /\ Cardinality(D) \in Nat /\ Cardinality(D) <= MaxSize
      /\ MaxSize \in Nat \ {0}
  BY FS_CardinalityType DEF Cached, FreshSurvives, LimitsAssumption
<1>2. CASE Full
  <2>1. Cardinality(D) = MaxSize
    BY <1>1, <1>2 DEF Full
  <2>2. order # <<>>
    BY <1>1, <2>1
  <2>3. Oldest \in 1 .. Len(order) /\ order[Oldest] \in D
    <3>1. Oldest \in 1 .. Len(order)
      BY <2>2, OldestIs
    <3> QED
      BY <1>1, <3>1 DEF ToSet
  <2> DEFINE e == order[Oldest]
  <2>4. /\ DOMAIN left = D \ {e} /\ \A k \in DOMAIN left : left[k] = cache[k]
    BY <1>2 DEF Restrict
  <2>5. /\ kept \in Seq(ApiKeys) /\ Once(kept)
        /\ Len(kept) = Len(order) - 1 /\ ToSet(kept) = D \ {e}
    <3>1. kept = RemoveAt(order, Oldest)
      BY <1>2
    <3>2. order \in Seq(ApiKeys) /\ Once(order) /\ Oldest \in 1 .. Len(order)
      BY <1>1, <2>3
    <3>3. /\ RemoveAt(order, Oldest) \in Seq(ApiKeys) /\ Once(RemoveAt(order, Oldest))
          /\ Len(RemoveAt(order, Oldest)) = Len(order) - 1
          /\ ToSet(RemoveAt(order, Oldest)) = ToSet(order) \ {order[Oldest]}
      BY <3>2, WithoutOnce
    <3> QED
      BY <1>1, <3>1, <3>3
  <2>6. IsFiniteSet(D \ {e}) /\ Cardinality(D \ {e}) = Cardinality(D) - 1
    BY <1>1, <2>3, FS_RemoveElement
  <2> HIDE DEF e, D
  <2>7. IsFiniteSet(DOMAIN left) /\ Cardinality(DOMAIN left) = MaxSize - 1
    BY <2>1, <2>4, <2>6
  <2>8. Cardinality(DOMAIN left) \in Nat /\ Cardinality(DOMAIN left) < MaxSize
    BY <1>1, <2>7
  <2>9. ToSet(kept) = DOMAIN left /\ Len(kept) = Cardinality(DOMAIN left)
    BY <1>1, <2>1, <2>4, <2>5, <2>7
  <2> QED
    BY <2>4, <2>5, <2>7, <2>8, <2>9 DEF D
<1>3. CASE ~Full
  <2>1. left = cache /\ kept = order
    BY <1>3
  <2>2. Cardinality(D) < MaxSize
    BY <1>1, <1>3 DEF Full
  <2> QED
    BY <1>1, <2>1, <2>2
<1> QED
  BY <1>2, <1>3

\* One more at the end, each still once.
LEMMA OneMoreOnce ==
    ASSUME NEW S, NEW seq \in Seq(S), Once(seq), NEW k \in S, k \notin ToSet(seq)
    PROVE  /\ Append(seq, k) \in Seq(S) /\ Once(Append(seq, k))
           /\ Len(Append(seq, k)) = Len(seq) + 1
           /\ ToSet(Append(seq, k)) = ToSet(seq) \cup {k}
<1> DEFINE c == Append(seq, k)
           n == Len(seq)
<1>1. c \in Seq(S) /\ Len(c) = n + 1 /\ DOMAIN c = 1 .. n + 1
  OBVIOUS
<1>2. n \in Nat /\ DOMAIN seq = 1 .. n
  OBVIOUS
<1>3. c[n + 1] = k /\ \A i \in 1 .. n : c[i] = seq[i]
  OBVIOUS
<1>4. \A i \in 1 .. n : seq[i] # k
  BY <1>2 DEF ToSet
<1>5. \A i, j \in 1 .. n : seq[i] = seq[j] => i = j
  BY DEF Once
<1> HIDE DEF c, n
<1>6. ToSet(c) = ToSet(seq) \cup {k}
  <2>1. \A i \in 1 .. n + 1 : i = n + 1 \/ i \in 1 .. n
    BY <1>2
  <2>2. n + 1 \in 1 .. n + 1 /\ \A i \in 1 .. n : i \in 1 .. n + 1
    BY <1>2
  <2>3. ASSUME NEW x \in ToSet(c) PROVE x \in ToSet(seq) \cup {k}
    BY <1>1, <1>2, <1>3, <2>1 DEF ToSet
  <2>4. ASSUME NEW x \in ToSet(seq) \cup {k} PROVE x \in ToSet(c)
    BY <1>1, <1>2, <1>3, <2>2 DEF ToSet
  <2> QED
    BY <2>3, <2>4
<1>7. Once(c)
  <2>1. \A i \in 1 .. n + 1 : i = n + 1 \/ i \in 1 .. n
    BY <1>2
  <2> SUFFICES ASSUME NEW i \in 1 .. n + 1, NEW j \in 1 .. n + 1, c[i] = c[j] PROVE i = j
    BY <1>1 DEF Once
  <2> QED
    BY <1>3, <1>4, <1>5, <2>1
<1> QED
  BY <1>1, <1>6, <1>7 DEF c, n

\* Making a client costs a client that is not expired only if all are such.
LEMMA MakeClientKeeps ==
    ASSUME LimitsAssumption, Cached, NEW k \in ApiKeys, MakeClient(k)
    PROVE  Cached'
<1> DEFINE left == IF Full THEN Restrict(cache, DOMAIN cache \ {order[Oldest]}) ELSE cache
           kept == IF Full THEN RemoveAt(order, Oldest) ELSE order
           L == DOMAIN left
<1>1. /\ cache' = [j \in L \cup {k} |-> IF j = k THEN now ELSE left[j]]
      /\ order' = IF k \in L THEN kept ELSE Append(kept, k)
      /\ dropped' = IF Full THEN {[key |-> order[Oldest], among |-> {j \in ApiKeys : Fresh(j)}]}
                    ELSE {}
      /\ now' = now
  BY DEF MakeClient
<1>2. /\ L \in SUBSET (DOMAIN cache) /\ \A j \in L : left[j] = cache[j]
      /\ IsFiniteSet(L) /\ Cardinality(L) \in Nat /\ Cardinality(L) < MaxSize
      /\ kept \in Seq(ApiKeys) /\ Once(kept)
      /\ ToSet(kept) = L /\ Len(kept) = Cardinality(L)
  BY LeftOver
<1>3. /\ now \in Nat /\ IsFiniteSet(DOMAIN cache) /\ DOMAIN cache \in SUBSET ApiKeys
      /\ \A j \in DOMAIN cache : cache[j] \in Nat
      /\ ToSet(order) = DOMAIN cache /\ Len(order) = Cardinality(DOMAIN cache)
      /\ Cardinality(DOMAIN cache) \in Nat /\ Cardinality(DOMAIN cache) <= MaxSize
      /\ order \in Seq(ApiKeys)
      /\ MaxSize \in Nat \ {0} /\ Ttl \in Nat \ {0}
  BY FS_CardinalityType DEF Cached, FreshSurvives, LimitsAssumption
<1>4. \A d \in dropped' : d.key \in d.among => Cardinality(d.among) = MaxSize
  <2> DEFINE fresh == {j \in ApiKeys : Fresh(j)}
  <2> SUFFICES ASSUME Full, order[Oldest] \in fresh PROVE Cardinality(fresh) = MaxSize
    <3> SUFFICES ASSUME NEW d \in dropped', d.key \in d.among PROVE Cardinality(d.among) = MaxSize
      OBVIOUS
    <3>1. Full /\ d = [key |-> order[Oldest], among |-> fresh]
      BY <1>1
    <3>2. d.key = order[Oldest] /\ d.among = fresh
      BY <3>1
    <3> HIDE DEF fresh
    <3> QED
      BY <3>1, <3>2
  <2>1. order # <<>> /\ Cardinality(DOMAIN cache) = MaxSize
    BY <1>3 DEF Full
  <2>2. /\ order[Oldest] \in DOMAIN cache /\ now - cache[order[Oldest]] < Ttl
        /\ \A j \in DOMAIN cache : cache[order[Oldest]] <= cache[j]
    BY <2>1, OldestIs DEF Fresh
  <2>3. fresh = DOMAIN cache
    <3>1. ASSUME NEW j \in DOMAIN cache PROVE Fresh(j)
      <4>1. cache[order[Oldest]] <= cache[j] /\ cache[order[Oldest]] \in Nat /\ cache[j] \in Nat
        BY <1>3, <2>2
      <4> QED
        BY <1>3, <2>2, <4>1 DEF Fresh
    <3> QED
      BY <1>3, <3>1 DEF Fresh
  <2> QED
    BY <2>1, <2>3
<1> HIDE DEF left, kept, L
<1>5. DOMAIN cache' = L \cup {k} /\ DOMAIN cache' \in SUBSET ApiKeys
  BY <1>1, <1>2, <1>3
<1>6. \A j \in DOMAIN cache' : cache'[j] \in Nat
  BY <1>1, <1>2, <1>3
<1>7. CASE k \in L
  <2>1. L \cup {k} = L /\ order' = kept
    BY <1>1, <1>7
  <2>2. /\ IsFiniteSet(DOMAIN cache') /\ Cardinality(DOMAIN cache') <= MaxSize
        /\ order' \in Seq(ApiKeys) /\ Once(order')
        /\ ToSet(order') = DOMAIN cache' /\ Len(order') = Cardinality(DOMAIN cache')
    <3>1. DOMAIN cache' = L
      BY <1>5, <2>1
    <3>2. Cardinality(L) <= MaxSize
      BY <1>2, <1>3
    <3> QED
      BY <1>2, <2>1, <3>1, <3>2
  <2> QED
    BY <1>1, <1>3, <1>4, <1>5, <1>6, <2>2 DEF Cached, FreshSurvives, Once
<1>8. CASE k \notin L
  <2>1. order' = Append(kept, k)
    BY <1>1, <1>8
  <2>2. /\ order' \in Seq(ApiKeys) /\ Once(order') /\ Len(order') = Cardinality(L) + 1
        /\ ToSet(order') = L \cup {k}
    BY <1>2, <1>8, <2>1, OneMoreOnce
  <2>3. IsFiniteSet(L \cup {k}) /\ Cardinality(L \cup {k}) = Cardinality(L) + 1
    BY <1>2, <1>8, FS_AddElement
  <2>4. /\ IsFiniteSet(DOMAIN cache') /\ Cardinality(DOMAIN cache') <= MaxSize
        /\ ToSet(order') = DOMAIN cache' /\ Len(order') = Cardinality(DOMAIN cache')
    BY <1>2, <1>3, <1>5, <2>2, <2>3
  <2> QED
    BY <1>1, <1>3, <1>4, <1>5, <1>6, <2>2, <2>4 DEF Cached, FreshSurvives, Once
<1> QED
  BY <1>7, <1>8

\* The cache is kept by every step.
LEMMA CachedStep ==
    ASSUME LimitsAssumption, Cached, [LimitsNext]_lvars
    PROVE  Cached'
<1>1. CASE Tick \/ (\E k \in Callers : IsAllowed(k)) \/ UNCHANGED lvars
  <2>1. now' \in Nat /\ UNCHANGED <<cache, order, dropped>>
    <3>1. CASE Tick
      BY <3>1 DEF Tick, Cached
    <3>2. CASE \E k \in Callers : IsAllowed(k)
      BY <3>2 DEF IsAllowed, Cached
    <3>3. CASE UNCHANGED lvars
      BY <3>3 DEF lvars, Cached
    <3> QED
      BY <1>1, <3>1, <3>2, <3>3
  <2> QED
    BY <2>1 DEF Cached, FreshSurvives, Once
<1>2. CASE \E k \in ApiKeys : GetFresh(k)
  <2>1. dropped' = {} /\ UNCHANGED <<now, cache, order>>
    BY <1>2 DEF GetFresh
  <2> QED
    BY <2>1 DEF Cached, FreshSurvives, Once
<1>3. CASE \E k \in ApiKeys : MakeClient(k)
  BY <1>3, MakeClientKeeps
<1> QED
  BY <1>1, <1>2, <1>3 DEF LimitsNext, Limiting, Caching, Get

\* For any keys, size and time to live: ClientCache._get_custom never keeps more than max_size
\* clients, and evicts one that has not expired only when none has.
THEOREM FreshClientsSurvive == LimitsSpec => []FreshSurvives
<1>1. LimitsInit => Cached
  <2> SUFFICES ASSUME LimitsInit PROVE Cached
    OBVIOUS
  <2>1. now = 0 /\ cache = <<>> /\ order = <<>> /\ dropped = {}
    BY DEF LimitsInit
  <2>2. DOMAIN cache = {} /\ order \in Seq(ApiKeys) /\ Len(order) = 0 /\ DOMAIN order = {}
    BY <2>1
  <2>3. IsFiniteSet({}) /\ Cardinality({}) = 0
    BY FS_EmptySet
  <2>4. ToSet(order) = {} /\ Once(order)
    BY <2>2 DEF ToSet, Once
  <2>5. FreshSurvives
    BY <2>1, <2>2, <2>3, <2>4, LimitsAssumption DEF FreshSurvives, LimitsAssumption
  <2> QED
    BY <2>1, <2>2, <2>3, <2>4, <2>5 DEF Cached
<1>2. Cached /\ [LimitsNext]_lvars => Cached'
  BY LimitsAssumption, CachedStep
<1>3. Cached => FreshSurvives
  BY DEF Cached
<1> QED
  BY <1>1, <1>2, <1>3, PTL DEF LimitsSpec
===============================================================================
