---------------------------- MODULE ChatLogProofs ----------------------------
(***************************************************************************)
(* Theorems about ChatLog for any number of turns, sessions and months,    *)
(* and about the migration that made the conversations, for any logs.      *)
(***************************************************************************)
EXTENDS ChatLog, Backfill, FiniteSetTheorems, TLAPS

(***************************************************************************)
(* The inductive invariant.  OneCharge is the row lock of record_usage: at *)
(* most one transaction has an uncommitted upsert of a month, so what it   *)
(* wrote is still one more than what is committed.  NotYet says nothing is *)
(* charged to a month before it comes.                                     *)
(***************************************************************************)
OneCharge ==
    \A t \in Turns : pc[t] \in Logging =>
        /\ total[t] = usage[at[t]] + 1
        /\ at[t] <= month
        /\ \A u \in Turns : pc[u] \in Logging /\ at[u] = at[t] => u = t

Explained(t) ==
    \/ convo[Session[t]] = "deleted"
    \/ \E u \in Turns : pc[u] = "logged" /\ Session[u] = Session[t] /\ at[u] # at[t]

Missed ==
    /\ \A t \in Turns : pc[t] = "missing" => convo[Session[t]] = "none" \/ Explained(t)
    /\ \A t \in Turns : pc[t] = "collided" => Explained(t)
    /\ \A s \in Sessions : dpc[s] # "idle" => convo[s] # "none"

Inv == TypeOK /\ OneCharge /\ Missed

\* The invariant holds initially.
LEMMA InitInv == Init => Inv
<1> SUFFICES ASSUME Init PROVE Inv
  OBVIOUS
<1>1. TypeOK
  BY ChatAssumption DEF Init, TypeOK, Flying, Ended, Logging
<1>2. OneCharge /\ Missed
  BY DEF Init, OneCharge, Missed, Logging
<1> QED
  BY <1>1, <1>2 DEF Inv

\* The types are kept.
LEMMA TypeStep == TypeOK /\ [Next]_vars => TypeOK'
<1> SUFFICES ASSUME TypeOK, [Next]_vars PROVE TypeOK'
  OBVIOUS
<1> USE DEF TypeOK, Flying, Ended, Logging, Goto
<1>1. ASSUME NEW t \in Turns, Admit(t) \/ Refuse(t) \/ Generate(t) \/ Cancel(t) PROVE TypeOK'
  <2>1. CASE Admit(t)
    BY <2>1 DEF Admit, deletion
  <2>2. CASE Refuse(t)
    BY <2>2 DEF Refuse, deletion
  <2>3. CASE Generate(t)
    BY <2>3 DEF Generate, Answer, AnswerAside, deletion
  <2>4. CASE Cancel(t)
    <3>1. /\ pc' = [pc EXCEPT ![t] = "cancelled"]
          /\ UNCHANGED <<at, total, usage, convo, count, hidden, dpc, month>>
      BY <2>4 DEF Cancel, deletion
    <3> QED
      BY <3>1
  <2> QED
    BY <1>1, <2>1, <2>2, <2>3, <2>4
<1>2. ASSUME NEW t \in Turns, Charge(t) PROVE TypeOK'
  <2>1. usage[month] + 1 \in Nat
    BY ChatAssumption
  <2>2. /\ pc' = [pc EXCEPT ![t] = "charged"]
        /\ at' = [at EXCEPT ![t] = month]
        /\ total' = [total EXCEPT ![t] = usage[month] + 1]
        /\ UNCHANGED <<usage, convo, count, hidden, dpc, month>>
    BY <1>2 DEF Charge, deletion
  <2> QED
    BY <2>1, <2>2
<1>3. ASSUME NEW t \in Turns, Find(t) \/ Insert(t) \/ Count(t) PROVE TypeOK'
  BY <1>3 DEF Find, Insert, Count, deletion
<1>4. ASSUME NEW t \in Turns, Log(t) PROVE TypeOK'
  <2>1. Session[t] \in Sessions
    BY ChatAssumption
  <2> QED
    BY <1>4, <2>1 DEF Log, deletion
<1>5. ASSUME NEW s \in Sessions, Select(s) \/ Hide(s) \/ FinishDelete(s) PROVE TypeOK'
  BY <1>5 DEF Select, Hide, FinishDelete, turn
<1>6. CASE NextMonth
  BY <1>6, ChatAssumption DEF NextMonth, turn, deletion
<1>7. CASE UNCHANGED vars
  BY <1>7 DEF vars, turn, deletion
<1> QED
  BY <1>1, <1>2, <1>3, <1>4, <1>5, <1>6, <1>7 DEF Next, LogStep

\* Every step keeps the invariant.
LEMMA InvStep == Inv /\ [Next]_vars => Inv'
<1> SUFFICES ASSUME Inv, [Next]_vars PROVE OneCharge' /\ Missed'
  BY TypeStep DEF Inv
<1> USE DEF Inv, TypeOK
<1>0. Session \in [Turns -> Sessions]
  BY ChatAssumption
<1>1. ASSUME NEW t \in Turns, Admit(t) \/ Refuse(t) \/ Generate(t) \/ Cancel(t)
      PROVE  OneCharge' /\ Missed'
  <2>1. UNCHANGED <<at, total, usage, convo, dpc, month>>
    BY <1>1 DEF Admit, Refuse, Generate, Answer, AnswerAside, Cancel, deletion
  <2>2. /\ pc[t] # "logged"
        /\ \E to \in {"admitted", "refused", "unrecorded", "answered", "cancelled"} :
              pc' = [pc EXCEPT ![t] = to]
    BY <1>1 DEF Admit, Refuse, Generate, Answer, AnswerAside, Cancel, Goto, Flying, Logging
  <2>3. OneCharge'
    BY <2>1, <2>2 DEF OneCharge, Logging
  <2>4. \A u \in Turns : Explained(u) => Explained(u)'
    BY <2>1, <2>2 DEF Explained
  <2> QED
    BY <2>1, <2>2, <2>3, <2>4 DEF Missed
<1>2. ASSUME NEW t \in Turns, Charge(t) PROVE OneCharge' /\ Missed'
  <2>1. OneCharge'
    BY <1>2 DEF Charge, Goto, UsageFree, OneCharge, Logging
  <2>2. \A u \in Turns : pc[u] \in {"missing", "collided"} /\ Explained(u) => Explained(u)'
    BY <1>2 DEF Charge, Goto, Explained
  <2> QED
    BY <1>2, <2>1, <2>2 DEF Charge, Goto, Missed, deletion
<1>3. ASSUME NEW t \in Turns, Find(t) \/ Insert(t) \/ Count(t) PROVE OneCharge' /\ Missed'
  <2>1. UNCHANGED <<at, total, usage, convo, dpc, month>>
    BY <1>3 DEF Find, Insert, Count, deletion
  <2>2. /\ pc[t] \in Logging
        /\ \E to \in {"found", "missing", "counted", "collided"} : pc' = [pc EXCEPT ![t] = to]
    BY <1>3 DEF Find, Insert, Count, Goto, Logging
  <2>3. OneCharge'
    BY <2>1, <2>2 DEF OneCharge, Logging
  <2>4. \A u \in Turns : Explained(u) => Explained(u)'
    BY <2>1, <2>2 DEF Explained, Logging
  <2>5. Missed'
    <3>1. CASE Find(t)
      BY <1>0, <2>1, <2>4, <3>1 DEF Find, Goto, Missed, Explained
    <3>2. CASE Insert(t)
      BY <1>0, <2>1, <2>4, <3>2 DEF Insert, Goto, Missed
    <3>3. CASE Count(t)
      BY <2>1, <2>4, <3>3 DEF Count, Goto, Missed
    <3> QED
      BY <1>3, <3>1, <3>2, <3>3
  <2> QED
    BY <2>3, <2>5
<1>4. ASSUME NEW t \in Turns, Log(t) PROVE OneCharge' /\ Missed'
  <2>1. OneCharge'
    BY <1>4 DEF Log, Goto, OneCharge, Logging
  <2>2. \A u \in Turns : Explained(u) => Explained(u)'
    BY <1>0, <1>4 DEF Log, Goto, Explained
  <2>3. \A u \in Turns : pc'[u] = "missing" => convo'[Session[u]] = "none" \/ Explained(u)'
    <3> SUFFICES ASSUME NEW u \in Turns, pc'[u] = "missing", ~Explained(u)'
                 PROVE  convo'[Session[u]] = "none"
      OBVIOUS
    <3>1. pc[u] = "missing" /\ u # t /\ at[u] # at[t]
      BY <1>4 DEF Log, Goto, OneCharge, Logging
    <3>2. convo[Session[u]] = "none"
      BY <2>2, <3>1 DEF Missed
    <3>3. Session[u] # Session[t]
      BY <1>4, <3>1 DEF Log, Goto, Explained
    <3> QED
      BY <1>0, <1>4, <3>2, <3>3 DEF Log
  <2>4. \A u \in Turns : pc'[u] = "collided" => Explained(u)'
    BY <1>4, <2>2 DEF Log, Goto, Missed
  <2>5. \A s \in Sessions : dpc'[s] # "idle" => convo'[s] # "none"
    BY <1>0, <1>4 DEF Log, Missed, deletion
  <2> QED
    BY <2>1, <2>3, <2>4, <2>5 DEF Missed
<1>5. ASSUME NEW s \in Sessions, Select(s) \/ Hide(s) \/ FinishDelete(s)
      PROVE  OneCharge' /\ Missed'
  <2>1. OneCharge'
    BY ZenonT(60), <1>5 DEF Select, Hide, FinishDelete, OneCharge, turn
  <2>2. \A u \in Turns : Explained(u) => Explained(u)'
    BY <1>0, <1>5 DEF Select, Hide, FinishDelete, Explained, turn
  <2>3. \A u \in Turns : convo[Session[u]] = "none" => convo'[Session[u]] = "none"
    BY <1>0, <1>5 DEF Select, Hide, FinishDelete, Missed
  <2>4. \A r \in Sessions : dpc'[r] # "idle" => convo'[r] # "none"
    BY <1>5 DEF Select, Hide, FinishDelete, Missed
  <2> QED
    BY <1>5, <2>1, <2>2, <2>3, <2>4 DEF Select, Hide, FinishDelete, Missed, turn
<1>6. CASE NextMonth
  BY <1>6 DEF NextMonth, OneCharge, Missed, Explained, turn, deletion
<1>7. CASE UNCHANGED vars
  BY <1>7 DEF vars, OneCharge, Missed, Explained, turn, deletion
<1> QED
  BY <1>1, <1>2, <1>3, <1>4, <1>5, <1>6, <1>7 DEF Next, LogStep

\* Types of the usage, the conversations and the turns.
THEOREM TypeCorrect == Spec => []TypeOK
<1>1. Inv => TypeOK
  BY DEF Inv
<1> QED
  BY <1>1, InitInv, InvStep, PTL DEF Spec

\* Within a month nothing but a deletion makes an answered turn fail to be logged.
THEOREM CollisionsExplained == Spec => []CollisionExplained
<1>1. Inv => CollisionExplained
  BY DEF Inv, Missed, Explained, CollisionExplained
<1> QED
  BY <1>1, InitInv, InvStep, PTL DEF Spec

(***************************************************************************)
(* Accounting: only Log changes what is logged, usage or counts, and by    *)
(* OneCharge the total it writes is one more than the committed usage.     *)
(***************************************************************************)
LoggedIn(m) == {t \in Turns : pc[t] = "logged" /\ at[t] = m}
LoggedOf(s) == {t \in Turns : pc[t] = "logged" /\ Session[t] = s}

\* Every step but Log keeps what is logged.
LEMMA LoggedKept ==
    ASSUME Inv, Next, \A t \in Turns : ~Log(t)
    PROVE  /\ UNCHANGED <<usage, count>>
           /\ \A t \in Turns : pc'[t] = "logged" <=> pc[t] = "logged"
           /\ \A t \in Turns : pc[t] = "logged" => at'[t] = at[t]
<1> USE DEF Inv, TypeOK
<1>1. ASSUME NEW t \in Turns, Admit(t) \/ Refuse(t) \/ Generate(t) \/ Cancel(t)
      PROVE  /\ UNCHANGED <<at, usage, count>>
             /\ \A u \in Turns : pc'[u] = "logged" <=> pc[u] = "logged"
  <2>1. UNCHANGED <<at, usage, count>>
    BY <1>1 DEF Admit, Refuse, Generate, Answer, AnswerAside, Cancel
  <2>2. /\ pc[t] # "logged"
        /\ \E to \in {"admitted", "refused", "unrecorded", "answered", "cancelled"} :
              pc' = [pc EXCEPT ![t] = to]
    BY <1>1 DEF Admit, Refuse, Generate, Answer, AnswerAside, Cancel, Goto, Flying, Logging
  <2> QED
    BY <2>1, <2>2
<1>2. ASSUME NEW t \in Turns, Find(t) \/ Insert(t) \/ Count(t)
      PROVE  /\ UNCHANGED <<at, usage, count>>
             /\ \A u \in Turns : pc'[u] = "logged" <=> pc[u] = "logged"
  BY <1>2 DEF Find, Insert, Count, Goto
<1>3. ASSUME NEW t \in Turns, Charge(t)
      PROVE  /\ UNCHANGED <<usage, count>>
             /\ \A u \in Turns : pc'[u] = "logged" <=> pc[u] = "logged"
             /\ \A u \in Turns : pc[u] = "logged" => at'[u] = at[u]
  BY <1>3 DEF Charge, Goto
<1>4. ASSUME NEW s \in Sessions, Select(s) \/ Hide(s) \/ FinishDelete(s)
      PROVE  UNCHANGED <<pc, at, usage, count>>
  BY <1>4 DEF Select, Hide, FinishDelete, turn
<1>5. NextMonth => UNCHANGED <<pc, at, usage, count>>
  BY DEF NextMonth, turn
<1> QED
  BY <1>1, <1>2, <1>3, <1>4, <1>5 DEF Next, LogStep

\* Logging a turn counts it where the turn is logged, and nothing else counts.
LEMMA AccountedStep ==
    ASSUME Inv, [Next]_vars, MessagesAccounted
    PROVE  MessagesAccounted'
<1> USE DEF Inv, TypeOK
<1>1. CASE UNCHANGED vars
  BY <1>1 DEF vars, turn, MessagesAccounted
<1>2. CASE Next /\ \A t \in Turns : ~Log(t)
  <2>1. \A m : LoggedIn(m)' = LoggedIn(m)
    BY <1>2, LoggedKept DEF LoggedIn
  <2>2. \A s : LoggedOf(s)' = LoggedOf(s)
    BY <1>2, LoggedKept DEF LoggedOf
  <2>3. UNCHANGED <<usage, count>>
    BY <1>2, LoggedKept
  <2>4. \A m \in 1 .. Months : usage[m] = Cardinality(LoggedIn(m))
    BY DEF MessagesAccounted, LoggedIn
  <2>5. \A s \in Sessions : count[s] = Cardinality(LoggedOf(s))
    BY DEF MessagesAccounted, LoggedOf
  <2>6. \A m \in 1 .. Months : usage'[m] = Cardinality(LoggedIn(m)')
    BY <2>1, <2>3, <2>4
  <2>7. \A s \in Sessions : count'[s] = Cardinality(LoggedOf(s)')
    BY <2>2, <2>3, <2>5
  <2> QED
    BY <2>6, <2>7 DEF MessagesAccounted, LoggedIn, LoggedOf
<1>3. ASSUME NEW t \in Turns, Log(t) PROVE MessagesAccounted'
  <2>0. Session[t] \in Sessions /\ IsFiniteSet(Turns)
    BY ChatAssumption
  <2>1. /\ pc[t] = "counted" /\ pc' = [pc EXCEPT ![t] = "logged"] /\ at' = at
        /\ usage' = [usage EXCEPT ![at[t]] = usage[at[t]] + 1]
        /\ count' = [count EXCEPT ![Session[t]] = count[Session[t]] + 1]
    BY <1>3 DEF Log, Goto, OneCharge, Logging
  <2>2. ASSUME NEW m \in 1 .. Months PROVE usage'[m] = Cardinality(LoggedIn(m)')
    <3>1. usage[m] = Cardinality(LoggedIn(m)) /\ IsFiniteSet(LoggedIn(m))
      BY <2>0, FS_Subset DEF MessagesAccounted, LoggedIn
    <3>2. CASE m = at[t]
      <4>1. LoggedIn(m)' = LoggedIn(m) \cup {t} /\ t \notin LoggedIn(m)
        BY <2>1, <3>2 DEF LoggedIn
      <4>2. Cardinality(LoggedIn(m)') = Cardinality(LoggedIn(m)) + 1
        BY <3>1, <4>1, FS_AddElement
      <4>3. usage'[m] = usage[m] + 1
        BY <2>1, <3>2
      <4> QED
        BY <3>1, <4>2, <4>3
    <3>3. CASE m # at[t]
      <4>1. LoggedIn(m)' = LoggedIn(m)
        BY <2>1, <3>3 DEF LoggedIn
      <4> QED
        BY <2>1, <3>1, <3>3, <4>1
    <3> QED
      BY <3>2, <3>3
  <2>3. ASSUME NEW s \in Sessions PROVE count'[s] = Cardinality(LoggedOf(s)')
    <3>1. count[s] = Cardinality(LoggedOf(s)) /\ IsFiniteSet(LoggedOf(s))
      BY <2>0, FS_Subset DEF MessagesAccounted, LoggedOf
    <3>2. CASE s = Session[t]
      <4>1. LoggedOf(s)' = LoggedOf(s) \cup {t} /\ t \notin LoggedOf(s)
        BY <2>1, <3>2 DEF LoggedOf
      <4>2. Cardinality(LoggedOf(s)') = Cardinality(LoggedOf(s)) + 1
        BY ZenonT(60), <3>1, <4>1, FS_AddElement
      <4>3. count'[s] = count[s] + 1
        BY <2>1, <3>2
      <4> QED
        BY <3>1, <4>2, <4>3
    <3>3. CASE s # Session[t]
      <4>1. LoggedOf(s)' = LoggedOf(s)
        BY <2>1, <3>3 DEF LoggedOf
      <4> QED
        BY <2>1, <3>1, <3>3, <4>1
    <3> QED
      BY <3>2, <3>3
  <2> QED
    BY <2>2, <2>3 DEF MessagesAccounted, LoggedIn, LoggedOf
<1> QED
  BY <1>1, <1>2, <1>3

\* What is charged and counted is what is logged, for any number of turns and sessions:
\* no concurrent _log_message loses another's charge, a rollback leaves none behind.
THEOREM Accounted == Spec => []MessagesAccounted
<1>1. Init => MessagesAccounted
  <2> SUFFICES ASSUME Init PROVE MessagesAccounted
    OBVIOUS
  <2>1. /\ \A m : {t \in Turns : pc[t] = "logged" /\ at[t] = m} = {}
        /\ \A s : {t \in Turns : pc[t] = "logged" /\ Session[t] = s} = {}
    BY DEF Init
  <2> QED
    BY <2>1, FS_EmptySet DEF Init, MessagesAccounted
<1> QED
  BY <1>1, InitInv, InvStep, AccountedStep, PTL DEF Spec

(***************************************************************************)
(* The overshoot: to the committed usage of a month come the charges not   *)
(* yet committed to it, and those that the admitted turns may still make.  *)
(* Together they stay below the allowance and Slots, since a turn is       *)
(* admitted only below the allowance, and Slots are in flight.             *)
(***************************************************************************)
Pending(m) ==
    {t \in Turns : \/ pc[t] \in Logging /\ at[t] = m
                   \/ pc[t] \in {"admitted", "answered"} /\ m >= month}

PendingBounded == \A m \in 1 .. Months : usage[m] + Cardinality(Pending(m)) < Allowance(m) + Slots

Budget ==
    /\ Cardinality(InFlight) <= Slots
    /\ \A m \in 1 .. Months : m > month => usage[m] = 0
    /\ PendingBounded

\* The turns in flight can be counted.
LEMMA FlightsFinite ==
    ASSUME NEW S, S \subseteq Turns
    PROVE  IsFiniteSet(S) /\ Cardinality(S) \in Nat
BY ChatAssumption, FS_Subset, FS_CardinalityType

\* Fewer turns in flight count less.
LEMMA SmallerFlight ==
    ASSUME NEW T, T \subseteq Turns, NEW S, S \subseteq T
    PROVE  Cardinality(S) <= Cardinality(T)
BY FlightsFinite, FS_Subset

\* The allowance is what check_budget compares with.
LEMMA AllowanceIs ==
    ASSUME NEW m \in 1 .. Months
    PROVE  /\ Allowance(m) \in Nat \ {0}
           /\ usage[m] \in Nat => (WithinBudget(m) <=> usage[m] < Allowance(m))
BY ChatAssumption DEF Allowance, WithinBudget

\* A step that admits no turn, logs none and adds nothing to Pending.
LEMMA BudgetKept ==
    ASSUME Inv, Budget, month' \in 1 .. Months, month' >= month,
           usage' = usage, InFlight' \subseteq InFlight,
           \A m \in 1 .. Months : Pending(m)' \subseteq Pending(m)
    PROVE  Budget'
<1> USE DEF Inv, TypeOK
<1>0. InFlight \subseteq Turns /\ Slots \in Nat /\ Months \in Nat
  BY ChatAssumption DEF InFlight
<1>1. Cardinality(InFlight') <= Slots
  <2>1. Cardinality(InFlight') <= Cardinality(InFlight)
    BY <1>0, SmallerFlight
  <2>2. Cardinality(InFlight') \in Nat /\ Cardinality(InFlight) \in Nat
    BY <1>0, FlightsFinite
  <2> QED
    BY <1>0, <2>1, <2>2 DEF Budget
<1>2. \A m \in 1 .. Months : m > month' => usage'[m] = 0
  BY <1>0 DEF Budget
<1>3. ASSUME NEW m \in 1 .. Months
      PROVE  usage'[m] + Cardinality(Pending(m)') < Allowance(m) + Slots
  <2>1. Pending(m) \subseteq Turns
    BY DEF Pending
  <2>2. Cardinality(Pending(m)') <= Cardinality(Pending(m))
    BY <2>1, SmallerFlight
  <2>3. Cardinality(Pending(m)') \in Nat /\ Cardinality(Pending(m)) \in Nat
    BY <2>1, FlightsFinite
  <2>4. usage[m] + Cardinality(Pending(m)) < Allowance(m) + Slots
    BY DEF Budget, PendingBounded
  <2> QED
    BY AllowanceIs, <1>0, <2>2, <2>3, <2>4
<1>4. PendingBounded'
  BY <1>3 DEF PendingBounded
<1> QED
  BY <1>1, <1>2, <1>4 DEF Budget

\* Admitting a turn below the limit leaves room for it.
LEMMA AdmitBudget == ASSUME Inv, Budget, NEW t \in Turns, Admit(t) PROVE Budget'
<1> USE DEF Inv, TypeOK
<1>0. Slots \in Nat /\ Months \in Nat
  BY ChatAssumption
<1>1. /\ pc[t] = "new" /\ pc' = [pc EXCEPT ![t] = "admitted"]
      /\ UNCHANGED <<at, usage, month>>
      /\ Cardinality(InFlight) < Slots /\ usage[month] < Allowance(month)
  BY AllowanceIs DEF Admit, Goto
<1>2. InFlight' = InFlight \cup {t} /\ t \notin InFlight /\ InFlight \subseteq Turns
  BY <1>1 DEF InFlight, Flying, Logging
<1>3. Cardinality(InFlight') <= Slots
  <2>1. Cardinality(InFlight') = Cardinality(InFlight) + 1 /\ Cardinality(InFlight) \in Nat
    BY <1>2, FlightsFinite, FS_AddElement
  <2> QED
    BY <1>0, <1>1, <2>1
<1>4. ASSUME NEW m \in 1 .. Months
      PROVE  usage'[m] + Cardinality(Pending(m)') < Allowance(m) + Slots
  <2>1. CASE m < month
    <3>1. Pending(m)' = Pending(m)
      BY <1>0, <1>1, <2>1 DEF Pending, Logging
    <3> QED
      BY <1>1, <3>1 DEF Budget, PendingBounded
  <2>2. CASE m >= month
    <3>1. usage[m] < Allowance(m) /\ usage[m] \in Nat
      <4>1. Allowance(m) \in Nat \ {0}
        BY AllowanceIs
      <4>2. m = month \/ usage[m] = 0
        BY <1>0, <2>2 DEF Budget
      <4> QED
        BY <1>1, <4>1, <4>2
    <3>2. Pending(m)' \subseteq InFlight' /\ InFlight' \subseteq Turns
      BY <1>2 DEF Pending, InFlight, Flying
    <3>3. Cardinality(Pending(m)') <= Cardinality(InFlight')
      BY <3>2, SmallerFlight
    <3>4. Cardinality(Pending(m)') \in Nat /\ Cardinality(InFlight') \in Nat
      BY <3>2, FlightsFinite
    <3>5. usage'[m] = usage[m] /\ Allowance(m) \in Nat
      BY <1>1, AllowanceIs
    <3> QED
      BY <1>0, <1>3, <3>1, <3>3, <3>4, <3>5
  <2> QED
    BY <1>0, <2>1, <2>2
<1>5. \A m \in 1 .. Months : m > month' => usage'[m] = 0
  BY <1>1 DEF Budget
<1>6. PendingBounded'
  BY <1>4 DEF PendingBounded
<1> QED
  BY <1>3, <1>5, <1>6 DEF Budget

\* Logging a turn moves it from those in flight to those counted.
LEMMA LogBudget == ASSUME Inv, Budget, NEW t \in Turns, Log(t) PROVE Budget'
<1> USE DEF Inv, TypeOK
<1>0. Slots \in Nat /\ Months \in Nat
  BY ChatAssumption
<1>1. /\ pc[t] = "counted" /\ pc' = [pc EXCEPT ![t] = "logged"]
      /\ UNCHANGED <<at, month>> /\ at[t] <= month
      /\ usage' = [usage EXCEPT ![at[t]] = usage[at[t]] + 1]
  BY DEF Log, Goto, OneCharge, Logging
<1>2. Cardinality(InFlight') <= Slots
  <2>1. InFlight' \subseteq InFlight /\ InFlight \subseteq Turns
    BY <1>1 DEF InFlight, Flying, Logging
  <2>2. Cardinality(InFlight') <= Cardinality(InFlight)
    BY <2>1, SmallerFlight
  <2>3. Cardinality(InFlight') \in Nat /\ Cardinality(InFlight) \in Nat
    BY <2>1, FlightsFinite
  <2> QED
    BY <1>0, <2>2, <2>3 DEF Budget
<1>3. \A m \in 1 .. Months : m > month' => usage'[m] = 0
  BY <1>0, <1>1 DEF Budget
<1>4. ASSUME NEW m \in 1 .. Months
      PROVE  usage'[m] + Cardinality(Pending(m)') < Allowance(m) + Slots
  <2>0. /\ usage[m] + Cardinality(Pending(m)) < Allowance(m) + Slots
        /\ IsFiniteSet(Pending(m)) /\ Cardinality(Pending(m)) \in Nat
    BY FlightsFinite DEF Budget, PendingBounded, Pending
  <2>1. CASE m = at[t]
    <3>1. Pending(m)' = Pending(m) \ {t} /\ t \in Pending(m)
      BY <1>0, <1>1, <2>1 DEF Pending, Logging
    <3>2. Cardinality(Pending(m)') = Cardinality(Pending(m)) - 1
      BY <2>0, <3>1, FS_RemoveElement
    <3>3. usage'[m] = usage[m] + 1 /\ usage[m] \in Nat
      BY <1>1, <2>1
    <3> QED
      BY <1>0, <2>0, <3>2, <3>3
  <2>2. CASE m # at[t]
    <3>1. Pending(m)' = Pending(m)
      BY <1>1, <2>2 DEF Pending, Logging
    <3>2. usage'[m] = usage[m]
      BY <1>1, <2>2
    <3> QED
      BY <2>0, <3>1, <3>2
  <2> QED
    BY <2>1, <2>2
<1>5. PendingBounded'
  BY <1>4 DEF PendingBounded
<1> QED
  BY <1>2, <1>3, <1>5 DEF Budget

\* Every step keeps usage and flights within the bound.
LEMMA BudgetStep == ASSUME Inv, [Next]_vars, Budget PROVE Budget'
<1> USE DEF Inv, TypeOK
<1>0. Months \in Nat
  BY ChatAssumption
<1>1. ASSUME NEW t \in Turns, Refuse(t) \/ Generate(t) \/ Cancel(t) PROVE Budget'
  <2>1. UNCHANGED <<at, usage, month>>
    BY <1>1 DEF Refuse, Generate, Answer, AnswerAside, Cancel
  <2>2. \E to \in {"refused", "unrecorded", "answered", "cancelled"} :
            /\ pc' = [pc EXCEPT ![t] = to]
            /\ to = "answered" => pc[t] = "admitted"
    BY <1>1 DEF Refuse, Generate, Answer, AnswerAside, Cancel, Goto
  <2>3. InFlight' \subseteq InFlight
    BY <2>2 DEF InFlight, Flying, Logging
  <2>4. \A m \in 1 .. Months : Pending(m)' \subseteq Pending(m)
    BY <2>1, <2>2 DEF Pending, Logging
  <2> QED
    BY <1>0, <2>1, <2>3, <2>4, BudgetKept
<1>2. ASSUME NEW t \in Turns, Charge(t) PROVE Budget'
  <2>1. /\ pc[t] = "answered" /\ pc' = [pc EXCEPT ![t] = "charged"]
        /\ at' = [at EXCEPT ![t] = month] /\ UNCHANGED <<usage, month>>
    BY <1>2 DEF Charge, Goto
  <2>2. InFlight' \subseteq InFlight
    BY <2>1 DEF InFlight, Flying, Logging
  <2>3. \A m \in 1 .. Months : Pending(m)' \subseteq Pending(m)
    BY <1>0, <2>1 DEF Pending, Logging
  <2> QED
    BY SMTT(30), <1>0, <2>1, <2>2, <2>3, BudgetKept
<1>3. ASSUME NEW t \in Turns, Find(t) \/ Insert(t) \/ Count(t) PROVE Budget'
  <2>1. UNCHANGED <<at, usage, month>>
    BY <1>3 DEF Find, Insert, Count
  <2>2. /\ pc[t] \in Logging
        /\ \E to \in {"found", "missing", "counted", "collided"} : pc' = [pc EXCEPT ![t] = to]
    BY <1>3 DEF Find, Insert, Count, Goto, Logging
  <2>3. InFlight' \subseteq InFlight
    BY <2>2 DEF InFlight, Flying, Logging
  <2>4. \A m \in 1 .. Months : Pending(m)' \subseteq Pending(m)
    BY <2>1, <2>2 DEF Pending, Logging
  <2> QED
    BY <1>0, <2>1, <2>3, <2>4, BudgetKept
<1>4. ASSUME NEW s \in Sessions, Select(s) \/ Hide(s) \/ FinishDelete(s) PROVE Budget'
  <2>1. UNCHANGED <<pc, at, usage, month>>
    BY <1>4 DEF Select, Hide, FinishDelete, turn
  <2> QED
    BY <2>1 DEF Budget, PendingBounded, Pending, InFlight
<1>5. CASE NextMonth
  <2>1. UNCHANGED <<pc, at, usage>> /\ month' = month + 1 /\ month' \in 1 .. Months
    BY <1>0, <1>5 DEF NextMonth, turn
  <2>2. InFlight' \subseteq InFlight
    BY <2>1 DEF InFlight
  <2>3. \A m \in 1 .. Months : Pending(m)' \subseteq Pending(m)
    BY <1>0, <2>1 DEF Pending
  <2> QED
    BY <1>0, <2>1, <2>2, <2>3, BudgetKept
<1>6. CASE UNCHANGED vars
  BY <1>6 DEF vars, turn, Budget, PendingBounded, Pending, InFlight
<1> QED
  BY <1>1, <1>2, <1>3, <1>4, <1>5, <1>6, AdmitBudget, LogBudget DEF Next, LogStep

\* However many turns there are, a month's usage passes its limit, or the first charge that
\* a limit of 0 lets in, by less than the turns that can be in flight at once, although the
\* check and the charge are far apart.
THEOREM Overshoot == Spec => []OvershootBounded
<1>1. Init => Budget
  <2> SUFFICES ASSUME Init PROVE Budget
    OBVIOUS
  <2>1. InFlight = {} /\ \A m : Pending(m) = {}
    BY DEF Init, InFlight, Pending, Flying, Logging
  <2>2. Cardinality(InFlight) = 0 /\ \A m : Cardinality(Pending(m)) = 0
    BY <2>1, FS_EmptySet
  <2> QED
    BY AllowanceIs, <2>2, ChatAssumption DEF Init, Budget, PendingBounded
<1>2. ASSUME Inv, Budget PROVE OvershootBounded
  <2> SUFFICES ASSUME NEW m \in 1 .. Months PROVE usage[m] < Allowance(m) + Slots
    BY DEF OvershootBounded
  <2>1. usage[m] + Cardinality(Pending(m)) < Allowance(m) + Slots
    BY <1>2 DEF Budget, PendingBounded
  <2>2. Cardinality(Pending(m)) \in Nat
    BY FlightsFinite DEF Pending
  <2> QED
    BY AllowanceIs, <1>2, <2>1, <2>2, ChatAssumption DEF Inv, TypeOK
<1> QED
  BY <1>1, <1>2, InitInv, InvStep, BudgetStep, PTL DEF Spec

-------------------------------------------------------------------------------
(***************************************************************************)
(* The migration.  Random names the session a bare log gets; a log is      *)
(* placed in the conversation of its session, or, if it had none, in its   *)
(* own or in that of a twin.                                               *)
(***************************************************************************)
Random(l) == <<"random", l>>

\* The conversation of a session, and that of a log without one.
Grouped(c) == \E l \in Keyed :
    /\ c.id = GroupOf(l) /\ c.model = log[l].model /\ c.session = log[l].session
    /\ c.count = Cardinality(GroupOf(l))
    /\ \E f \in GroupOf(l) : c.title = log[f].title /\ c.created = log[f].time

Own(c) == \E l \in Bare :
    /\ c.id = {l} /\ c.model = log[l].model /\ c.session = Random(l)
    /\ c.count = 1 /\ c.title = log[l].title /\ c.created = log[l].time

AllGrouped == /\ \A c \in convs : Grouped(c) \/ Own(c)
              /\ \A l \in Keyed : \E c \in convs : c.id = GroupOf(l)
              /\ \A c, d \in convs : c.id = d.id => c = d

AllMade == AllGrouped /\ \A l \in Bare : \E c \in convs : Own(c) /\ c.id = {l}

KeyedLinked == \A l \in Keyed : link[l] = GroupOf(l)

BareLinked == \A l \in Bare : \E m \in Logs : /\ m = l \/ Twins(l, m)
                                              /\ link[l] = {m}
                                              /\ \E c \in convs : c.id = {m}

\* The session that the way back gives a log.
Given(m) == IF m \in Keyed THEN log[m].session ELSE Random(m)

AllRestored == /\ \A l \in Keyed : restored[l] = log[l].session
               /\ \A l \in Bare : \E m \in Logs : (m = l \/ Twins(l, m)) /\ restored[l] = Given(m)

Migrating ==
    /\ log \in Tables
    /\ migration \in {"column added", "grouped", "all made", "keyed linked", "linked", "upgraded",
                      "downgraded"}
    /\ migration = "grouped" => AllGrouped /\ \A c \in convs : Grouped(c)
    /\ migration \in {"all made", "keyed linked", "linked", "upgraded"} => AllMade
    /\ migration \in {"keyed linked", "linked", "upgraded"} => KeyedLinked
    /\ migration \in {"linked", "upgraded"} => BareLinked
    /\ migration = "downgraded" => AllRestored

\* The groups: a log is in its own, and the logs of a group have the same one.
LEMMA Groups ==
    ASSUME NEW l \in Keyed
    PROVE  /\ l \in GroupOf(l) /\ GroupOf(l) \in SUBSET Keyed
           /\ \A m \in GroupOf(l) : /\ GroupOf(m) = GroupOf(l) /\ log[m].model = log[l].model
                                    /\ log[m].session = log[l].session
           /\ \A m \in Keyed : log[m].model = log[l].model /\ log[m].session = log[l].session
                                  => m \in GroupOf(l) /\ GroupOf(m) = GroupOf(l)
BY DEF GroupOf

\* The parts of a conversation that is inserted.
LEMMA Inserted ==
    ASSUME NEW group, NEW session, NEW title, NEW created
    PROVE  LET c == Conversation(group, session, title, created) IN
           /\ c.id = group /\ c.session = session /\ c.title = title /\ c.created = created
           /\ c.count = Cardinality(group) /\ c.model = log[CHOOSE l \in group : TRUE].model
BY DEF Conversation

\* 3a makes one conversation for each session.
LEMMA GroupedStep ==
    ASSUME Migrating, GroupKeyed
    PROVE  Migrating'
<1>1. /\ migration = "column added" /\ migration' = "grouped" /\ UNCHANGED <<log, link, restored>>
  BY DEF GroupKeyed, Advance
<1>2. PICK first \in [{GroupOf(l) : l \in Keyed} -> Logs] :
        /\ \A g \in DOMAIN first : first[g] \in First(g)
        /\ convs' = {Conversation(g, log[first[g]].session, log[first[g]].title,
                                  log[first[g]].time) : g \in DOMAIN first}
  BY DEF GroupKeyed
<1> DEFINE new(g) == Conversation(g, log[first[g]].session, log[first[g]].title, log[first[g]].time)
<1>3. /\ DOMAIN first = {GroupOf(l) : l \in Keyed}
      /\ convs' = {new(g) : g \in DOMAIN first}
      /\ \A g \in DOMAIN first : new(g).id = g
  BY <1>2, Inserted
<1>4. ASSUME NEW l \in Keyed
      PROVE  Grouped(new(GroupOf(l)))
  <2> DEFINE g == GroupOf(l)
             f == first[g]
             m == CHOOSE x \in g : TRUE
  <2>1. f \in g
    BY <1>2, <1>3 DEF First
  <2>2. m \in g
    BY Groups
  <2>3. /\ log[f].session = log[l].session /\ log[m].model = log[l].model
    BY <2>1, <2>2, Groups
  <2>4. /\ new(g).id = g /\ new(g).session = log[f].session /\ new(g).title = log[f].title
        /\ new(g).created = log[f].time /\ new(g).count = Cardinality(g)
        /\ new(g).model = log[m].model
    BY Inserted
  <2> HIDE DEF m, new
  <2> QED
    BY <2>1, <2>3, <2>4 DEF Grouped
<1> HIDE DEF new
<1>5. \A c \in convs' : Grouped(c)
  BY <1>3, <1>4
<1>6. \A l \in Keyed : \E c \in convs' : c.id = GroupOf(l)
  BY <1>3
<1>7. \A c, d \in convs' : c.id = d.id => c = d
  BY <1>3
<1>8. Keyed' = Keyed /\ Bare' = Bare /\ \A l : GroupOf(l)' = GroupOf(l)
  BY <1>1 DEF Keyed, Bare, GroupOf
<1>9. \A c : Grouped(c)' <=> Grouped(c)
  BY <1>1, <1>8 DEF Grouped
<1>10. AllGrouped' /\ \A c \in convs' : Grouped(c)'
  BY <1>5, <1>6, <1>7, <1>8, <1>9 DEF AllGrouped
<1> QED
  BY <1>1, <1>10 DEF Migrating

\* The rows of the logs stay, so groups, conversations and twins keep their meaning.
LEMMA LogStays ==
    ASSUME log' = log
    PROVE  /\ Keyed' = Keyed /\ Bare' = Bare
           /\ \A l : GroupOf(l)' = GroupOf(l) /\ Given(l)' = Given(l)
           /\ \A c : (Grouped(c)' <=> Grouped(c)) /\ (Own(c)' <=> Own(c))
           /\ \A l, m : Twins(l, m)' <=> Twins(l, m)
<1>1. Keyed' = Keyed /\ Bare' = Bare
  BY DEF Keyed, Bare
<1>2. \A l : GroupOf(l)' = GroupOf(l)
  BY <1>1 DEF GroupOf
<1>3. \A l : Given(l)' = Given(l)
  BY <1>1 DEF Given, Random
<1>4. \A c : Grouped(c)' <=> Grouped(c)
  BY <1>1, <1>2 DEF Grouped
<1>5. \A c : Own(c)' <=> Own(c)
  BY <1>1 DEF Own, Random
<1>6. \A l, m : Twins(l, m)' <=> Twins(l, m)
  BY <1>1, <1>2 DEF Twins
<1> QED
  BY <1>1, <1>2, <1>3, <1>4, <1>5, <1>6

\* 3b makes one for each log without a session.
LEMMA OwnStep ==
    ASSUME Migrating, MakeOwn
    PROVE  Migrating'
<1> DEFINE new(l) == Conversation({l}, <<"random", l>>, log[l].title, log[l].time)
<1>1. /\ migration = "grouped" /\ migration' = "all made" /\ UNCHANGED <<log, link, restored>>
      /\ convs' = convs \cup {new(l) : l \in Bare}
  BY DEF MakeOwn, Advance
<1>2. /\ \A c \in convs : Grouped(c)
      /\ \A l \in Keyed : \E c \in convs : c.id = GroupOf(l)
      /\ \A c, d \in convs : c.id = d.id => c = d
  BY <1>1 DEF Migrating, AllGrouped
<1>3. ASSUME NEW l \in Bare
      PROVE  Own(new(l)) /\ new(l).id = {l}
  <2>1. (CHOOSE x \in {l} : TRUE) = l
    OBVIOUS
  <2>2. Cardinality({l}) = 1
    BY FS_Singleton
  <2>3. /\ new(l).id = {l} /\ new(l).session = <<"random", l>> /\ new(l).title = log[l].title
        /\ new(l).created = log[l].time /\ new(l).count = Cardinality({l})
        /\ new(l).model = log[CHOOSE x \in {l} : TRUE].model
    BY Inserted
  <2> HIDE DEF new
  <2> QED
    BY <2>1, <2>2, <2>3 DEF Own, Random
<1> HIDE DEF new
<1>4. \A c \in convs' : Grouped(c) \/ Own(c)
  BY <1>1, <1>2, <1>3
<1>5. \A l \in Keyed : \E c \in convs' : c.id = GroupOf(l)
  BY <1>1, <1>2
<1>6. \A l \in Bare : \E c \in convs' : Own(c) /\ c.id = {l}
  BY <1>1, <1>3
<1>7. \A c, d \in convs' : c.id = d.id => c = d
  <2>1. \A l \in Bare, c \in convs : c.id # new(l).id
    <3> SUFFICES ASSUME NEW l \in Bare, NEW c \in convs, c.id = {l} PROVE FALSE
      BY <1>3
    <3>1. PICK k \in Keyed : c.id = GroupOf(k)
      BY <1>2 DEF Grouped
    <3>2. l \in Keyed
      BY <3>1, Groups
    <3> QED
      BY <3>2 DEF Bare
  <2>2. \A l, m \in Bare : new(l).id = new(m).id => l = m
    BY <1>3
  <2> SUFFICES ASSUME NEW c \in convs', NEW d \in convs', c.id = d.id PROVE c = d
    OBVIOUS
  <2>3. CASE c \in convs /\ d \in convs
    BY <1>2, <2>3
  <2>4. CASE c \in convs /\ \E l \in Bare : d = new(l)
    BY <2>1, <2>4
  <2>5. CASE d \in convs /\ \E l \in Bare : c = new(l)
    BY <2>1, <2>5
  <2>6. CASE \E l, m \in Bare : c = new(l) /\ d = new(m)
    BY <2>2, <2>6
  <2> QED
    BY <1>1, <2>3, <2>4, <2>5, <2>6
<1>8. AllMade'
  BY <1>1, <1>4, <1>5, <1>6, <1>7, LogStays DEF AllMade, AllGrouped
<1> QED
  BY <1>1, <1>8 DEF Migrating

\* 3c finds the conversation of the group, since no session id is a random one.
LEMMA LinkKeyedStep ==
    ASSUME BackfillAssumption, Migrating, LinkKeyed
    PROVE  Migrating'
<1>1. /\ migration = "all made" /\ migration' = "keyed linked" /\ UNCHANGED <<log, convs, restored>>
      /\ link' = [l \in Logs |-> IF l \in Bare THEN link[l]
                  ELSE (CHOOSE c \in convs : c.model = log[l].model /\ c.session = log[l].session).id]
  BY DEF LinkKeyed, Advance
<1>2. AllMade /\ log \in Tables
  BY <1>1 DEF Migrating
<1>3. ASSUME NEW l \in Keyed
      PROVE  link'[l] = GroupOf(l)
  <2> DEFINE Right(c) == c.model = log[l].model /\ c.session = log[l].session
  <2>1. \E c \in convs : Right(c)
    <3>1. PICK c \in convs : c.id = GroupOf(l)
      BY <1>2 DEF AllMade, AllGrouped
    <3>2. l \in GroupOf(l)
      BY Groups
    <3>3. Grouped(c)
      <4> SUFFICES ASSUME Own(c) PROVE FALSE
        BY <1>2 DEF AllMade, AllGrouped
      <4>1. PICK b \in Bare : c.id = {b}
        BY DEF Own
      <4> QED
        BY <3>1, <3>2, <4>1 DEF Bare
    <3>4. PICK k \in Keyed : c.id = GroupOf(k) /\ c.model = log[k].model /\ c.session = log[k].session
      BY <3>3 DEF Grouped
    <3>5. Right(c)
      BY <3>1, <3>2, <3>4, Groups
    <3> QED
      BY <3>5
  <2>2. \A c \in convs : Right(c) => c.id = GroupOf(l)
    <3> SUFFICES ASSUME NEW c \in convs, Right(c) PROVE c.id = GroupOf(l)
      OBVIOUS
    <3>1. ~Own(c)
      BY <1>2 DEF Own, Random, BackfillAssumption, Keyed, Bare
    <3>2. PICK k \in Keyed : c.id = GroupOf(k) /\ c.model = log[k].model /\ c.session = log[k].session
      BY <1>2, <3>1 DEF AllMade, AllGrouped, Grouped
    <3> QED
      BY <3>2, Groups
  <2>3. (CHOOSE c \in convs : Right(c)).id = GroupOf(l)
    <3> HIDE DEF Right
    <3> QED
      BY <2>1, <2>2
  <2>4. l \in Logs /\ l \notin Bare
    BY DEF Keyed, Bare
  <2> QED
    BY <1>1, <2>3, <2>4
<1>4. AllMade'
  BY <1>1, <1>2, LogStays DEF AllMade, AllGrouped
<1>5. KeyedLinked'
  BY <1>1, <1>3, LogStays DEF KeyedLinked
<1> QED
  BY <1>1, <1>4, <1>5 DEF Migrating

\* What 3d matches a log with is its own conversation or a twin's.
LEMMA MatchesTwins ==
    ASSUME BackfillAssumption, AllMade, NEW l \in Bare
    PROVE  /\ Matches(l) # {}
           /\ \A c \in Matches(l) : \E m \in Logs : (m = l \/ Twins(l, m)) /\ c.id = {m}
<1>1. \E c \in Matches(l) : TRUE
  <2>1. PICK c \in convs : Own(c) /\ c.id = {l}
    BY DEF AllMade
  <2>2. PICK b \in Bare : /\ c.id = {b} /\ c.model = log[b].model /\ c.count = 1
                          /\ c.title = log[b].title /\ c.created = log[b].time
    BY <2>1 DEF Own
  <2>3. b = l
    BY <2>1, <2>2
  <2> QED
    BY <2>2, <2>3 DEF Matches
<1>2. ASSUME NEW c \in Matches(l)
      PROVE  \E m \in Logs : (m = l \/ Twins(l, m)) /\ c.id = {m}
  <2>1. /\ c \in convs /\ c.model = log[l].model /\ c.title = log[l].title
        /\ c.created = log[l].time /\ c.count = 1
    BY DEF Matches
  <2>2. CASE Own(c)
    <3>1. PICK m \in Bare : /\ c.id = {m} /\ c.model = log[m].model
                            /\ c.title = log[m].title /\ c.created = log[m].time
      BY <2>2 DEF Own
    <3> QED
      BY <2>1, <3>1 DEF Twins, Bare
  <2>3. CASE Grouped(c)
    <3>1. PICK k \in Keyed : /\ c.id = GroupOf(k) /\ c.model = log[k].model
                             /\ c.count = Cardinality(GroupOf(k))
                             /\ \E f \in GroupOf(k) : c.title = log[f].title /\ c.created = log[f].time
      BY <2>3 DEF Grouped
    <3>2. IsFiniteSet(GroupOf(k)) /\ Cardinality(GroupOf(k)) = 1
      <4>1. GroupOf(k) \in SUBSET Logs
        BY DEF GroupOf, Keyed
      <4> QED
        BY <2>1, <3>1, <4>1, FS_Subset DEF BackfillAssumption
    <3>3. GroupOf(k) = {k}
      <4>1. k \in GroupOf(k)
        BY Groups
      <4> QED
        BY <3>2, <4>1, FS_Singleton
    <3>4. c.title = log[k].title /\ c.created = log[k].time
      BY <3>1, <3>3
    <3>5. k \in Logs /\ k # l
      BY DEF Keyed, Bare
    <3> QED
      BY <2>1, <3>1, <3>3, <3>4, <3>5 DEF Twins
  <2> QED
    BY <2>1, <2>2, <2>3 DEF AllMade, AllGrouped
<1> QED
  BY <1>1, <1>2

\* 3d leaves no log unlinked.
LEMMA LinkBareStep ==
    ASSUME BackfillAssumption, Migrating, LinkBare
    PROVE  Migrating'
<1>1. /\ migration = "keyed linked" /\ migration' = "linked" /\ UNCHANGED <<log, convs, restored>>
  BY DEF LinkBare, Advance
<1>2. PICK pick \in [Bare -> {c.id : c \in convs} \cup {Unlinked}] :
        /\ \A l \in Bare : IF Matches(l) = {} THEN pick[l] = Unlinked
                                              ELSE \E c \in Matches(l) : c.id = pick[l]
        /\ link' = [l \in Logs |-> IF l \in Bare THEN pick[l] ELSE link[l]]
  BY DEF LinkBare
<1>3. AllMade /\ KeyedLinked /\ log \in Tables
  BY <1>1 DEF Migrating
<1>4. \A l \in Keyed : l \in Logs /\ l \notin Bare
  BY DEF Keyed, Bare
<1>5. \A l \in Keyed : link'[l] = GroupOf(l)
  BY <1>2, <1>3, <1>4 DEF KeyedLinked
<1>6. ASSUME NEW l \in Bare
      PROVE  \E m \in Logs : /\ m = l \/ Twins(l, m)
                             /\ link'[l] = {m}
                             /\ \E c \in convs : c.id = {m}
  <2>1. PICK c \in Matches(l) : c.id = pick[l]
    BY <1>2, <1>3, MatchesTwins
  <2>2. PICK m \in Logs : (m = l \/ Twins(l, m)) /\ c.id = {m}
    BY <1>3, <2>1, MatchesTwins
  <2>3. c \in convs
    BY DEF Matches
  <2>4. l \in Logs /\ link'[l] = pick[l]
    BY <1>2 DEF Bare
  <2> QED
    BY <2>1, <2>2, <2>3, <2>4
<1>7. AllMade' /\ KeyedLinked'
  BY <1>1, <1>3, <1>5, LogStays DEF AllMade, AllGrouped, KeyedLinked
<1>8. BareLinked'
  BY <1>1, <1>6, LogStays DEF BareLinked
<1> QED
  BY <1>1, <1>3, <1>7, <1>8 DEF Migrating

\* Every log has a conversation: the column can become NOT NULL.
LEMMA TightenStep ==
    ASSUME BackfillAssumption, Migrating, Tighten
    PROVE  Migrating'
<1>1. /\ migration = "linked" /\ UNCHANGED <<log, convs, link, restored>>
      /\ migration' = IF \E l \in Logs : link[l] = Unlinked THEN "failed" ELSE "upgraded"
  BY DEF Tighten, Advance
<1>2. AllMade /\ KeyedLinked /\ BareLinked /\ log \in Tables
  BY <1>1 DEF Migrating
<1>3. \A l \in Logs : link[l] # Unlinked
  <2> SUFFICES ASSUME NEW l \in Logs PROVE link[l] \in SUBSET Logs
    BY DEF BackfillAssumption
  <2>1. CASE l \in Keyed
    BY <1>2, <2>1 DEF KeyedLinked, GroupOf, Keyed
  <2>2. CASE l \in Bare
    BY <1>2, <2>2 DEF BareLinked
  <2> QED
    BY <2>1, <2>2 DEF Bare
<1>4. migration' = "upgraded"
  BY <1>1, <1>3
<1>5. AllMade' /\ KeyedLinked' /\ BareLinked'
  <2>1. AllMade'
    BY <1>1, <1>2, LogStays DEF AllMade, AllGrouped
  <2>2. KeyedLinked'
    BY <1>1, <1>2, LogStays DEF KeyedLinked
  <2>3. BareLinked'
    BY <1>1, <1>2, LogStays DEF BareLinked
  <2> QED
    BY <2>1, <2>2, <2>3
<1> QED
  BY <1>1, <1>2, <1>4, <1>5 DEF Migrating

\* The session of the conversation that is known by an id.
LEMMA SessionOf ==
    ASSUME AllMade, NEW m \in Logs, NEW id,
           (m \in Keyed /\ id = GroupOf(m)) \/ id = {m}, \E c \in convs : c.id = id
    PROVE  (CHOOSE c \in convs : c.id = id).session = Given(m)
<1> DEFINE c == CHOOSE x \in convs : x.id = id
<1>1. c \in convs /\ c.id = id
  OBVIOUS
<1> HIDE DEF c
<1>2. m \in id
  BY Groups
<1>3. CASE Grouped(c)
  <2>1. PICK k \in Keyed : c.id = GroupOf(k) /\ c.session = log[k].session
    BY <1>3 DEF Grouped
  <2>2. m \in Keyed /\ log[m].session = log[k].session
    BY <1>1, <1>2, <2>1, Groups
  <2> QED
    BY <2>1, <2>2 DEF Given, c
<1>4. CASE Own(c)
  <2>1. PICK b \in Bare : c.id = {b} /\ c.session = Random(b)
    BY <1>4 DEF Own
  <2>2. m = b /\ m \notin Keyed
    BY <1>1, <1>2, <2>1 DEF Bare
  <2> QED
    BY <2>1, <2>2 DEF Given, c
<1> QED
  BY <1>1, <1>3, <1>4 DEF AllMade, AllGrouped

\* The way back gives each log the session of its conversation.
LEMMA DowngradeStep ==
    ASSUME Migrating, Downgrade
    PROVE  Migrating'
<1>1. /\ migration = "upgraded" /\ migration' = "downgraded" /\ log' = log
      /\ restored' = [l \in Logs |-> (CHOOSE c \in convs : c.id = link[l]).session]
  BY DEF Downgrade, Advance
<1>2. AllMade /\ KeyedLinked /\ BareLinked /\ log \in Tables
  BY <1>1 DEF Migrating
<1>3. ASSUME NEW l \in Keyed
      PROVE  restored'[l] = log[l].session
  <2>1. link[l] = GroupOf(l) /\ \E c \in convs : c.id = link[l]
    BY <1>2 DEF KeyedLinked, AllMade, AllGrouped
  <2>2. l \in Logs
    BY DEF Keyed
  <2>3. (CHOOSE c \in convs : c.id = link[l]).session = Given(l)
    BY <1>2, <2>1, <2>2, SessionOf
  <2> QED
    BY <1>1, <2>2, <2>3 DEF Given
<1>4. ASSUME NEW l \in Bare
      PROVE  \E m \in Logs : (m = l \/ Twins(l, m)) /\ restored'[l] = Given(m)
  <2>1. PICK m \in Logs : /\ m = l \/ Twins(l, m)
                          /\ link[l] = {m} /\ \E c \in convs : c.id = {m}
    BY <1>2 DEF BareLinked
  <2>2. (CHOOSE c \in convs : c.id = link[l]).session = Given(m)
    BY <1>2, <2>1, SessionOf
  <2> QED
    BY <1>1, <2>1, <2>2 DEF Bare
<1>5. AllRestored'
  BY <1>1, <1>3, <1>4, LogStays DEF AllRestored
<1> QED
  BY <1>1, <1>2, <1>5 DEF Migrating

\* What the migration leaves when it is done, and when it is undone.
LEMMA MigratedTrue ==
    ASSUME BackfillAssumption, Migrating
    PROVE  ConversationsTrue
<1>1. migration # "failed" /\ log \in Tables
  BY DEF Migrating
<1>2. ASSUME migration = "upgraded"
      PROVE  /\ \A l, m \in Logs : Together(l, m) => link[l] = link[m]
             /\ \A l, m \in Logs : link[l] = link[m] => Together(l, m) \/ Twins(l, m) \/ Twins(m, l)
             /\ \A c \in convs : \/ c.count = Cardinality({l \in Logs : link[l] = c.id})
                                 \/ \E l \in c.id : Confused(l)
  <2>1. AllMade /\ KeyedLinked /\ BareLinked
    BY <1>2 DEF Migrating
  <2>2. \A l, m \in Logs : Together(l, m) => link[l] = link[m]
    BY <2>1, Groups DEF Together, KeyedLinked
  <2>3. ASSUME NEW l \in Logs, NEW m \in Logs, link[l] = link[m]
        PROVE  Together(l, m) \/ Twins(l, m) \/ Twins(m, l)
    <3>1. CASE l \in Keyed /\ m \in Keyed
      BY <2>1, <2>3, <3>1, Groups DEF KeyedLinked, Together
    <3>2. ASSUME NEW a \in Bare, NEW b \in Keyed, link[a] = link[b]
          PROVE  Twins(a, b)
      <4>1. PICK x \in Logs : (x = a \/ Twins(a, x)) /\ link[a] = {x}
        BY <2>1 DEF BareLinked
      <4>2. b \in {x} /\ a # b
        <5>1. b \in GroupOf(b) /\ link[b] = GroupOf(b)
          BY <2>1, Groups DEF KeyedLinked
        <5> QED
          BY <3>2, <4>1, <5>1 DEF Bare
      <4> QED
        BY <4>1, <4>2
    <3>3. CASE l \in Bare /\ m \in Bare
      <4>1. PICK x \in Logs : (x = l \/ Twins(l, x)) /\ link[l] = {x}
        BY <2>1, <3>3 DEF BareLinked
      <4>2. PICK y \in Logs : (y = m \/ Twins(m, y)) /\ link[m] = {y}
        BY <2>1, <3>3 DEF BareLinked
      <4>3. x = y
        BY <2>3, <4>1, <4>2
      <4> QED
        BY <3>3, <4>1, <4>2, <4>3 DEF Twins, Together
    <3> QED
      BY <2>3, <3>1, <3>2, <3>3 DEF Bare
  <2>4. ASSUME NEW c \in convs, \A l \in c.id : ~Confused(l)
        PROVE  c.count = Cardinality({l \in Logs : link[l] = c.id})
    <3>1. ASSUME NEW l \in Bare, NEW x \in Logs, (x = l) \/ Twins(l, x), x \in c.id
          PROVE  x = l
      BY <2>4, <3>1 DEF Confused, Bare
    <3>2. CASE Grouped(c)
      <4>1. PICK k \in Keyed : c.id = GroupOf(k) /\ c.count = Cardinality(GroupOf(k))
        BY <3>2 DEF Grouped
      <4>2. ASSUME NEW l \in Logs, link[l] = c.id PROVE l \in GroupOf(k)
        <5>1. CASE l \in Keyed
          BY <2>1, <4>1, <4>2, <5>1, Groups DEF KeyedLinked
        <5>2. CASE l \in Bare
          <6>1. PICK x \in Logs : (x = l \/ Twins(l, x)) /\ link[l] = {x}
            BY <2>1, <5>2 DEF BareLinked
          <6>2. x = l
            BY <3>1, <4>2, <5>2, <6>1
          <6> QED
            BY <4>1, <4>2, <6>1, <6>2
        <5> QED
          BY <5>1, <5>2 DEF Bare
      <4>3. \A l \in GroupOf(k) : l \in Logs /\ link[l] = c.id
        BY <2>1, <4>1, Groups DEF KeyedLinked, Keyed
      <4>4. {l \in Logs : link[l] = c.id} = GroupOf(k)
        BY <4>2, <4>3
      <4> QED
        BY <4>1, <4>4
    <3>3. CASE Own(c)
      <4>1. PICK b \in Bare : c.id = {b} /\ c.count = 1
        BY <3>3 DEF Own
      <4>2. ASSUME NEW l \in Logs, link[l] = {b} PROVE l = b
        <5>1. CASE l \in Keyed
          BY <2>1, <4>2, <5>1, Groups DEF KeyedLinked
        <5>2. CASE l \in Bare
          <6>1. PICK x \in Logs : (x = l \/ Twins(l, x)) /\ link[l] = {x}
            BY <2>1, <5>2 DEF BareLinked
          <6> QED
            BY <3>1, <4>1, <4>2, <5>2, <6>1
        <5> QED
          BY <5>1, <5>2 DEF Bare
      <4>3. b \in Logs /\ link[b] = {b}
        <5>1. PICK x \in Logs : (x = b \/ Twins(b, x)) /\ link[b] = {x}
          BY <2>1 DEF BareLinked
        <5>2. b \in c.id
          BY <4>1
        <5> QED
          BY <2>4, <5>1, <5>2 DEF Confused, Bare
      <4>4. {l \in Logs : link[l] = c.id} = {b}
        BY <4>1, <4>2, <4>3
      <4> QED
        BY <4>1, <4>4, FS_Singleton
    <3> QED
      BY <2>1, <3>2, <3>3 DEF AllMade, AllGrouped
  <2> QED
    BY <2>2, <2>3, <2>4
<1>3. ASSUME migration = "downgraded", NEW l \in Logs, NEW m \in Logs, ~Confused(l), ~Confused(m)
      PROVE  Together(l, m) <=> (restored[l] = restored[m] /\ log[l].model = log[m].model)
  <2>1. AllRestored
    BY <1>3 DEF Migrating
  <2>2. restored[l] = Given(l) /\ restored[m] = Given(m)
    BY <1>3, <2>1 DEF AllRestored, Confused, Bare, Given
  <2>3. \A a, b \in Logs : log[a].session # Random(b)
    BY <1>1 DEF BackfillAssumption, Random
  <2>4. Together(l, m) => Given(l) = Given(m) /\ log[l].model = log[m].model
    BY Groups DEF Together, Given
  <2>5. ASSUME Given(l) = Given(m), log[l].model = log[m].model
        PROVE  Together(l, m)
    <3>1. CASE l \in Keyed /\ m \in Keyed
      BY <2>5, <3>1, Groups DEF Together, Given
    <3>2. CASE l \notin Keyed /\ m \notin Keyed
      BY <2>5, <3>2 DEF Together, Given, Random
    <3> QED
      BY <2>3, <2>5, <3>1, <3>2 DEF Given
  <2> QED
    BY <2>2, <2>4, <2>5
<1> QED
  BY <1>1, <1>2, <1>3 DEF ConversationsTrue

\* For any logs, sessions and coincidences: the migration to conversations links every log,
\* groups them as their sessions did and counts them, and its downgrade splits them again,
\* all but for logs without a session that have a twin.
THEOREM MigrationTrue == BackfillSpec => []ConversationsTrue
<1>1. BackfillInit => Migrating
  BY DEF BackfillInit, Migrating
<1>2. Migrating /\ [BackfillNext]_bvars => Migrating'
  <2> SUFFICES ASSUME Migrating, [BackfillNext]_bvars PROVE Migrating'
    OBVIOUS
  <2>1. CASE UNCHANGED bvars
    <3>1. UNCHANGED <<log, convs, link, restored, migration>>
      BY <2>1 DEF bvars
    <3>2. /\ AllGrouped' <=> AllGrouped
          /\ AllMade' <=> AllMade
          /\ KeyedLinked' <=> KeyedLinked
      BY <3>1, LogStays DEF AllGrouped, AllMade, KeyedLinked
    <3>3. BareLinked' <=> BareLinked
      BY <3>1, LogStays DEF BareLinked
    <3>4. AllRestored' <=> AllRestored
      BY <3>1, LogStays DEF AllRestored
    <3>5. (\A c \in convs : Grouped(c))' <=> \A c \in convs : Grouped(c)
      BY <3>1, LogStays
    <3> QED
      BY <3>1, <3>2, <3>3, <3>4, <3>5 DEF Migrating
  <2> QED
    BY <2>1, BackfillAssumption, GroupedStep, OwnStep, LinkKeyedStep, LinkBareStep, TightenStep,
       DowngradeStep DEF BackfillNext
<1>3. Migrating => ConversationsTrue
  BY BackfillAssumption, MigratedTrue
<1> QED
  BY <1>1, <1>2, <1>3, PTL DEF BackfillSpec
===============================================================================
