------------------------------- MODULE Dialogue -------------------------------
(***************************************************************************)
(* The turns of one session: the history a turn hands to the generation,   *)
(* the status read from the reply, the message row, and the numbers the    *)
(* console shows of these rows.                                            *)
(*                                                                         *)
(* A message is dated by now(), the start of the transaction that inserts  *)
(* it: the one that loaded the history for a plain turn, a later one for a *)
(* streamed turn.  No two transactions of a session start at the same      *)
(* instant.                                                                *)
(***************************************************************************)
EXTENDS Naturals, SequencesExt, FiniteSets

CONSTANTS
    Talk,          \* turns that send this session's id
    Streaming,     \* those that ask for a stream
    HistoryTurns,  \* HistoryTurns[t]: the model's history_turns when t is asked
    Given,         \* what Claude may give to set_status
    NoTurn

Statuses == {"answered", "unanswered", "off_topic"}

ASSUME DialogueAssumption ==
    /\ Streaming \subseteq Talk /\ HistoryTurns \in [Talk -> Nat]
    /\ NoTurn \notin Talk

VARIABLES
    talk,      \* talk[t]: where turn t stands
    began,     \* began[t]: when the transaction t writes in began
    ticks,
    recalled,  \* recalled[t]: the turns in its history
    prior,     \* prior[t]: the turn whose question also goes into its search
    status,    \* status[t]
    messages,  \* the committed rows
    gone,      \* the conversation's deleted_at is set
    logging,   \* the turns that were being logged at that time
    heard      \* history variable: heard[t]: what its client had received when t began

dvars == <<talk, began, ticks, recalled, prior, status, messages, gone, logging, heard>>

Talking(t, from, to) == talk[t] \in from /\ talk' = [talk EXCEPT ![t] = to]

DialogueInit ==
    /\ talk = [t \in Talk |-> "new"]
    /\ began = [t \in Talk |-> 0] /\ ticks = 0
    /\ recalled = [t \in Talk |-> <<>>]
    /\ prior = [t \in Talk |-> NoTurn]
    /\ status = [t \in Talk |-> "answered"]
    /\ messages = {} /\ gone = FALSE /\ logging = {}
    /\ heard = [t \in Talk |-> {}]

BeginNow(t) == ticks' = ticks + 1 /\ began' = [began EXCEPT ![t] = ticks']
-------------------------------------------------------------------------------
(* The request *)

\* The transaction of the request begins, at the latest with check_budget.
Ask(t) == /\ Talking(t, {"new"}, "asked")
          /\ BeginNow(t)
          /\ heard' = [heard EXCEPT ![t] = {u \in Talk : talk[u] = "delivered"}]
          /\ UNCHANGED <<recalled, prior, status, messages, gone, logging>>

LiveMessages == {m \in messages : ~m.deleted}

\* Mutant: the oldest turns are taken.
Recent_Oldest(rows, limit) == {m \in rows : Cardinality({n \in rows : n.created < m.created}) < limit}

\* ORDER BY created_at DESC LIMIT history_turns.
Recent(rows, limit) == {m \in rows : Cardinality({n \in rows : n.created > m.created}) < limit}

\* The rows in the order of their dates.
Chronological(rows) ==
    [i \in 1 .. Cardinality(rows) |->
        CHOOSE m \in rows : Cardinality({n \in rows : n.created < m.created}) = i - 1]

\* _load_session_history: answered turns only, in order, and the last turn whatever its status.
LoadHistory(t) ==
    LET rows == Recent(IF gone THEN {} ELSE LiveMessages, HistoryTurns[t])
        answered == Chronological({m \in rows : m.status = "answered"})
    IN  /\ Talking(t, {"asked"}, "loaded")
        /\ recalled' = [recalled EXCEPT ![t] = [i \in DOMAIN answered |-> answered[i].turn]]
        /\ prior' = [prior EXCEPT ![t] = IF rows = {} THEN NoTurn
                                         ELSE Last(Chronological(rows)).turn]
        /\ UNCHANGED <<began, ticks, status, messages, gone, logging, heard>>

\* Mutant: whatever set_status was given is kept.
ReadStatus_Any(given) == given

\* _read_response: no call of set_status, or an unknown status, is an answer.
ReadStatus(given) == IF given \in Statuses THEN given ELSE "answered"

\* generate_answer.
Generated(t) == /\ t \notin Streaming
                /\ Talking(t, {"loaded"}, "answered")
                /\ \E given \in Given : status' = [status EXCEPT ![t] = ReadStatus(given)]
                /\ UNCHANGED <<began, ticks, recalled, prior, messages, gone, logging, heard>>

\* generate_answer_stream: the text has been sent; _log_message begins a transaction.
\* If the final message is lost, the status stays at "answered".
StreamedOut(t) == /\ t \in Streaming
                  /\ Talking(t, {"loaded"}, "answered")
                  /\ BeginNow(t)
                  /\ \/ UNCHANGED status
                     \/ \E given \in Given : status' = [status EXCEPT ![t] = ReadStatus(given)]
                  /\ UNCHANGED <<recalled, prior, messages, gone, logging, heard>>

\* An error of retrieval, Claude or the log, or a cancelled stream: nothing is committed.
Fail(t) == /\ Talking(t, {"loaded", "answered"}, "failed")
           /\ UNCHANGED <<began, ticks, recalled, prior, status, messages, gone, logging, heard>>

Row(t) == [turn |-> t, status |-> status[t], created |-> began[t], deleted |-> FALSE]

\* _log_message commits.  It finds a deleted conversation only if it looked before.
LogTurn(t) == /\ Talking(t, {"answered"}, "logged")
              /\ gone => t \in logging
              /\ messages' = messages \cup {Row(t)}
              /\ UNCHANGED <<began, ticks, recalled, prior, status, gone, logging, heard>>

\* The response, or the done event.
Deliver(t) == /\ Talking(t, {"logged"}, "delivered")
              /\ UNCHANGED <<began, ticks, recalled, prior, status, messages, gone, logging, heard>>

\* delete_conversation commits.
DeleteTalk == /\ ~gone /\ messages # {}
              /\ gone' = TRUE
              /\ logging' = {t \in Talk : talk[t] = "answered"}
              /\ messages' = {[m EXCEPT !.deleted = TRUE] : m \in messages}
              /\ UNCHANGED <<talk, began, ticks, recalled, prior, status, heard>>

DialogueNext == \/ DeleteTalk
                \/ \E t \in Talk : \/ Ask(t) \/ LoadHistory(t) \/ Generated(t) \/ StreamedOut(t)
                                   \/ Fail(t) \/ LogTurn(t) \/ Deliver(t)

DialogueSpec == DialogueInit /\ [][DialogueNext]_dvars
-------------------------------------------------------------------------------
(* The console *)

\* model_stats.
TotalMessages == Cardinality(LiveMessages)
Unanswered    == Cardinality({m \in LiveMessages : m.status = "unanswered"})

\* Bound: a day has three instants.
Day(m) == m.created \div 3

\* The messages daily_stats takes in: those since the cutoff, a number of days before the
\* request.
Within(cutoff) == {m \in LiveMessages : m.created >= cutoff}

\* daily_stats: for each day that has any, the number of messages of each status.
Daily(cutoff) == [d \in {Day(m) : m \in Within(cutoff)} |->
    [s \in Statuses |-> Cardinality({m \in Within(cutoff) : Day(m) = d /\ m.status = s})]]

\* A day without messages has no entry.
Counted(cutoff, d, s) == IF d \in DOMAIN Daily(cutoff) THEN Daily(cutoff)[d][s] ELSE 0

\* What the entries up to a day add up to.
Sums(cutoff, s) ==
    LET sum[d \in Nat] == IF d = 0 THEN Counted(cutoff, 0, s)
                          ELSE sum[d - 1] + Counted(cutoff, d, s)
    IN  sum

DailySum(cutoff, s) == Sums(cutoff, s)[ticks \div 3]
-------------------------------------------------------------------------------
(* Properties *)

InHistory(t) == {recalled[t][i] : i \in DOMAIN recalled[t]}

Committed == {m.turn : m \in messages}

\* The turns committed that did not end before turn u began.
SinceBegan(u) == {v \in Committed : v # u /\ v \notin heard[u]}

\* A follow-up is put into the generation and the search with what its client has read:
\* a turn it has heard the answer of is in the history unless it was no answer or
\* history_turns others are at least as recent; no two turns are in the reverse order;
\* and the search is given the last question, or one asked while that was being answered.
FollowUpInformed ==
    ~gone => \A t \in Talk : talk[t] \notin {"new", "asked"} =>
        /\ \A u \in heard[t] : \/ u \in InHistory(t)
                               \/ status[u] # "answered"
                               \/ Cardinality(SinceBegan(u)) >= HistoryTurns[t]
        /\ \A i, j \in DOMAIN recalled[t] : i < j => recalled[t][j] \notin heard[recalled[t][i]]
        /\ HistoryTurns[t] > 0 /\ heard[t] # {} =>
              prior[t] # NoTurn /\ \A u \in heard[t] : prior[t] \notin heard[u]

\* The daily numbers and the totals agree, whenever the cutoff: every logged turn counts as
\* answered, unanswered or off topic on its day, or is from before the cutoff, whatever
\* Claude gave to set_status and whether the final message came.
NumbersAgree ==
    \A cutoff \in 0 .. ticks + 1 :
        LET earlier == LiveMessages \ Within(cutoff)
        IN  /\ TotalMessages = DailySum(cutoff, "answered") + DailySum(cutoff, "unanswered")
                               + DailySum(cutoff, "off_topic") + Cardinality(earlier)
            /\ Unanswered = DailySum(cutoff, "unanswered")
                            + Cardinality({m \in earlier : m.status = "unanswered"})
===============================================================================
