------------------------------- MODULE ChatLog -------------------------------
(***************************************************************************)
(* One model's chat turns: the budget check in front of a generation, and  *)
(* the transaction of _log_message behind it, which charges the month's    *)
(* usage, finds or creates the conversation and adds the message, against  *)
(* delete_conversation and the turn of the month.                          *)
(*                                                                         *)
(* Row locks are read off the positions of the transactions that hold      *)
(* them.  A generation costs one unit; a conversation is named by its      *)
(* session, since uq_conversations_model_session allows one row for each.  *)
(***************************************************************************)
EXTENDS Naturals, FiniteSets

CONSTANTS
    Turns,    \* requests that end in a generation
    Streams,  \* those whose client may go away in the middle
    Side,     \* generate-system-prompt and generate-sample-messages calls
    Sessions, Session,  \* Session[t]: the session_id of turn t
    Limit,    \* Limit[m]: what check_budget compares the usage of month m with
    Slots,    \* bound: turns in flight at once
    Months    \* bound: the last month

ASSUME ChatAssumption ==
    /\ IsFiniteSet(Turns)
    /\ Streams \subseteq Turns /\ Side \subseteq Turns
    /\ Session \in [Turns -> Sessions]
    /\ Slots \in Nat \ {0} /\ Months \in Nat \ {0}
    /\ Limit \in [1 .. Months -> Nat]

VARIABLES
    pc,      \* pc[t]: where turn t stands
    at,      \* at[t]: the month turn t charges
    total,   \* total[t]: the usage that t's upsert wrote, not yet committed
    usage,   \* usage[m]: the committed token_usage row of month m
    convo,   \* convo[s]: the committed conversation row
    count,   \* count[s]: its message_count
    hidden,  \* logged turns whose message has a deleted_at
    dpc,     \* dpc[s]: where a delete_conversation of s stands
    month    \* the current month

turn == <<pc, at, total>>
deletion == <<hidden, dpc>>
vars == <<turn, usage, convo, count, deletion, month>>

\* The turns that have passed the budget check and are not over.
Logging == {"charged", "found", "missing", "counted"}
Flying  == {"admitted", "answered"} \cup Logging
Ended   == {"refused", "unrecorded", "cancelled", "collided", "logged"}

TypeOK ==
    /\ pc \in [Turns -> {"new"} \cup Flying \cup Ended]
    /\ at \in [Turns -> 1 .. Months]
    /\ total \in [Turns -> Nat]
    /\ usage \in [1 .. Months -> Nat]
    /\ convo \in [Sessions -> {"none", "live", "deleted"}]
    /\ count \in [Sessions -> Nat]
    /\ hidden \subseteq Turns
    /\ dpc \in [Sessions -> {"idle", "selected", "hiding"}]
    /\ month \in 1 .. Months

Init ==
    /\ pc = [t \in Turns |-> "new"]
    /\ at = [t \in Turns |-> 1]
    /\ total = [t \in Turns |-> 0]
    /\ usage = [m \in 1 .. Months |-> 0]
    /\ convo = [s \in Sessions |-> "none"]
    /\ count = [s \in Sessions |-> 0]
    /\ hidden = {}
    /\ dpc = [s \in Sessions |-> "idle"]
    /\ month = 1

-------------------------------------------------------------------------------
(* The request *)

InFlight == {t \in Turns : pc[t] \in Flying}

Goto(t, to) == pc' = [pc EXCEPT ![t] = to]

\* Mutant: the model is not checked against its limit.
WithinBudget_Always(m) == TRUE

\* check_budget: a month without a usage row, where nothing has been charged, is within
\* budget, even if the limit is 0.
WithinBudget(m) == usage[m] = 0 \/ usage[m] < Limit[m]

Admit(t) == /\ pc[t] = "new" /\ Cardinality(InFlight) < Slots
            /\ WithinBudget(month)
            /\ Goto(t, "admitted")
            /\ UNCHANGED <<at, total, usage, convo, count, deletion, month>>

\* 429; or 503 when retrieval or the generation fails after the check.
Refuse(t) == /\ \/ pc[t] = "new" /\ ~WithinBudget(month)
                \/ pc[t] = "admitted"
             /\ Goto(t, "refused")
             /\ UNCHANGED <<at, total, usage, convo, count, deletion, month>>

\* The answer is there, and paid for.
Answer(t) == /\ pc[t] = "admitted" /\ t \notin Side
             /\ Goto(t, "answered")
             /\ UNCHANGED <<at, total, usage, convo, count, deletion, month>>

\* The side calls are paid for, too, and record nothing.
AnswerAside(t) == /\ pc[t] = "admitted" /\ t \in Side
                  /\ Goto(t, "unrecorded")
                  /\ UNCHANGED <<at, total, usage, convo, count, deletion, month>>

Generate(t) == Answer(t) \/ AnswerAside(t)

\* The client of a stream goes away: the transaction, if open, rolls back.
Cancel(t) == /\ t \in Streams /\ pc[t] \in Flying
             /\ Goto(t, "cancelled")
             /\ UNCHANGED <<at, total, usage, convo, count, deletion, month>>
-------------------------------------------------------------------------------
(* _log_message *)

\* Mutant: the upsert does not wait for the other transactions' upserts.
UsageFree_Always(m) == TRUE

\* Mutant: a failed insert leaves its transaction open, and its lock held.
UsageFree_Leaked(m) == \A u \in Turns : pc[u] \in Logging \cup {"collided"} => at[u] # m

\* Nobody else has an uncommitted upsert of the month's row.
UsageFree(m) == \A u \in Turns : pc[u] \in Logging => at[u] # m

\* record_usage: INSERT ... ON CONFLICT DO UPDATE total + cost, in today's month.
Charge(t) == /\ pc[t] = "answered" /\ UsageFree(month)
             /\ at' = [at EXCEPT ![t] = month]
             /\ total' = [total EXCEPT ![t] = usage[month] + 1]
             /\ Goto(t, "charged")
             /\ UNCHANGED <<usage, convo, count, deletion, month>>

\* The SELECT sees committed rows that are not deleted.
Find(t) == /\ pc[t] = "charged"
           /\ Goto(t, IF convo[Session[t]] = "live" THEN "found" ELSE "missing")
           /\ UNCHANGED <<at, total, usage, convo, count, deletion, month>>

\* Nobody holds the conversation's row, or an uncommitted insert of it.
ConvoFree(s) == /\ \A u \in Turns : Session[u] = s => pc[u] # "counted"
                /\ dpc[s] # "hiding"

\* Mutant: the usage is committed before the conversation is looked for.
Insert_Charged(t) == LET s == Session[t] IN
    /\ pc[t] = "missing" /\ ConvoFree(s)
    /\ Goto(t, IF convo[s] = "none" THEN "counted" ELSE "collided")
    /\ usage' = IF convo[s] = "none" THEN usage ELSE [usage EXCEPT ![at[t]] = total[t]]
    /\ UNCHANGED <<at, total, convo, count, deletion, month>>

\* The unique constraint also covers a deleted row: then everything rolls back.
Insert(t) == LET s == Session[t] IN
    /\ pc[t] = "missing" /\ ConvoFree(s)
    /\ Goto(t, IF convo[s] = "none" THEN "counted" ELSE "collided")
    /\ UNCHANGED <<at, total, usage, convo, count, deletion, month>>

\* UPDATE ... SET message_count + 1 WHERE id: finds the row even if deleted since.
Count(t) == /\ pc[t] = "found" /\ ConvoFree(Session[t])
            /\ Goto(t, "counted")
            /\ UNCHANGED <<at, total, usage, convo, count, deletion, month>>

\* The message is added and everything commits.
Log(t) == LET s == Session[t] IN
    /\ pc[t] = "counted"
    /\ Goto(t, "logged")
    /\ usage' = [usage EXCEPT ![at[t]] = total[t]]
    /\ convo' = [convo EXCEPT ![s] = IF @ = "none" THEN "live" ELSE @]
    /\ count' = [count EXCEPT ![s] = @ + 1]
    /\ UNCHANGED <<at, total, deletion, month>>

LogStep(t) == Charge(t) \/ Find(t) \/ Insert(t) \/ Count(t) \/ Log(t)
-------------------------------------------------------------------------------
(* delete_conversation *)

Select(s) == /\ dpc[s] = "idle" /\ convo[s] = "live"
             /\ dpc' = [dpc EXCEPT ![s] = "selected"]
             /\ UNCHANGED <<turn, usage, convo, count, hidden, month>>

\* UPDATE conversations SET deleted_at, flushed before the messages are updated.
Hide(s) == /\ dpc[s] = "selected" /\ ConvoFree(s)
           /\ dpc' = [dpc EXCEPT ![s] = "hiding"]
           /\ UNCHANGED <<turn, usage, convo, count, hidden, month>>

\* The messages committed by now are hidden with it.
FinishDelete(s) == /\ dpc[s] = "hiding"
                   /\ dpc' = [dpc EXCEPT ![s] = "idle"]
                   /\ convo' = [convo EXCEPT ![s] = "deleted"]
                   /\ hidden' = hidden \cup {t \in Turns : pc[t] = "logged" /\ Session[t] = s}
                   /\ UNCHANGED <<turn, usage, count, month>>

NextMonth == /\ month < Months
             /\ month' = month + 1
             /\ UNCHANGED <<turn, usage, convo, count, deletion>>

Next == \/ \E t \in Turns : \/ Admit(t) \/ Refuse(t) \/ Generate(t) \/ Cancel(t)
                            \/ LogStep(t)
        \/ \E s \in Sessions : Select(s) \/ Hide(s) \/ FinishDelete(s)
        \/ NextMonth

Spec == Init /\ [][Next]_vars

\* A generation ends, and a transaction whose row locks are free goes on.
Fairness == /\ \A t \in Turns : WF_vars(Generate(t)) /\ WF_vars(LogStep(t))
            /\ \A s \in Sessions : WF_vars(Hide(s)) /\ WF_vars(FinishDelete(s))

FairSpec == Spec /\ Fairness
-------------------------------------------------------------------------------
(* Properties *)

\* Usage and message counts are exactly what was logged: no concurrent charge is lost,
\* and a transaction that fails leaves none behind (record_usage, _log_message).
MessagesAccounted ==
    /\ \A m \in 1 .. Months : usage[m] = Cardinality({t \in Turns : pc[t] = "logged" /\ at[t] = m})
    /\ \A s \in Sessions : count[s] = Cardinality({t \in Turns : pc[t] = "logged" /\ Session[t] = s})

\* The usage at which check_budget refuses: a month's first charge is always let in.
Allowance(m) == IF Limit[m] = 0 THEN 1 ELSE Limit[m]

\* The usage of a month passes the limit by no more than the turns that were in flight
\* when it was reached: check_budget and record_usage are far apart, but not unboundedly.
OvershootBounded == \A m \in 1 .. Months : usage[m] < Allowance(m) + Slots

\* An answered turn fails to be logged only if its conversation was deleted or a month
\* ended: within a month, waiting for the usage row is what keeps two first messages of
\* a session from both creating its conversation.
CollisionExplained ==
    \A t \in Turns : pc[t] = "collided" =>
        \/ convo[Session[t]] = "deleted"
        \/ \E u \in Turns : pc[u] = "logged" /\ Session[u] = Session[t] /\ at[u] # at[t]

\* No turn waits for ever: charges, conversation updates and deletions take their row
\* locks in an order that cannot deadlock.
TurnsEnd == \A t \in Turns : pc[t] = "answered" ~> pc[t] \in Ended

\* _log_message: an answered turn is recorded under its conversation.
AnsweredIsLogged == \A t \in Turns : pc[t] # "collided"
===============================================================================
