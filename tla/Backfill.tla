------------------------------- MODULE Backfill -------------------------------
(***************************************************************************)
(* The migration that groups conversation_logs into conversations          *)
(* (o6p7q8r9s0t1), and its downgrade.  Logs have had an optional session   *)
(* id; now each belongs to a conversation, which carries one.  The titles  *)
(* are the first 80 characters of the questions.                           *)
(***************************************************************************)
EXTENDS Naturals, FiniteSets

CONSTANTS
    Logs,        \* ids of conversation_logs
    Tables,      \* contents to migrate: [model, session, title, time] for each log
    NoSession,   \* a NULL session_id
    Unlinked     \* a NULL conversation_id

\* No session_id is one of those that gen_random_uuid() will make.
ASSUME BackfillAssumption ==
    /\ IsFiniteSet(Logs) /\ \A group \in SUBSET Logs : Unlinked # group
    /\ \A t \in Tables : \A l \in Logs :
          /\ DOMAIN t[l] = {"model", "session", "title", "time"}
          /\ \A m \in Logs : t[l].session # <<"random", m>>

VARIABLES
    log,        \* log[l]: the row as it was before the migration
    convs,      \* the conversations rows
    link,       \* link[l]: the conversation_id of l
    restored,   \* restored[l]: the session_id that the downgrade gives l
    migration   \* the last step that was done

bvars == <<log, convs, link, restored, migration>>

BackfillInit == /\ log \in Tables
                /\ convs = {}
                /\ link = [l \in Logs |-> Unlinked]
                /\ restored = [l \in Logs |-> NoSession]
                /\ migration = "column added"

Advance(from, to) == migration = from /\ migration' = to

Keyed == {l \in Logs : log[l].session # NoSession}
Bare  == Logs \ Keyed

\* The logs of l's model and session.
GroupOf(l) == {m \in Keyed : log[m].model = log[l].model /\ log[m].session = log[l].session}

First(group) == {l \in group : \A m \in group : log[l].time <= log[m].time}

\* The id of a conversation is the group it was made for.
Conversation(group, session, title, created) ==
    [id |-> group, model |-> log[CHOOSE l \in group : TRUE].model, session |-> session,
     title |-> title, count |-> Cardinality(group), created |-> created]

\* 3a.  One of the first questions, if several were logged at that time.
GroupKeyed ==
    /\ Advance("column added", "grouped")
    /\ \E first \in [{GroupOf(l) : l \in Keyed} -> Logs] :
          /\ \A g \in DOMAIN first : first[g] \in First(g)
          /\ convs' = {Conversation(g, log[first[g]].session, log[first[g]].title,
                                    log[first[g]].time) : g \in DOMAIN first}
    /\ UNCHANGED <<log, link, restored>>

\* 3b.  A random session id for each.
MakeOwn == /\ Advance("grouped", "all made")
           /\ convs' = convs \cup {Conversation({l}, <<"random", l>>, log[l].title, log[l].time) : l \in Bare}
           /\ UNCHANGED <<log, link, restored>>

\* 3c.
LinkKeyed ==
    /\ Advance("all made", "keyed linked")
    /\ link' = [l \in Logs |-> IF l \in Bare THEN link[l]
                  ELSE (CHOOSE c \in convs : c.model = log[l].model /\ c.session = log[l].session).id]
    /\ UNCHANGED <<log, convs, restored>>

\* Mutant: the number of messages is not compared.
Matches_AnyCount(l) == {c \in convs : /\ c.model = log[l].model /\ c.title = log[l].title
                                      /\ c.created = log[l].time}

\* The conversations that the join of 3d finds for l.
Matches(l) == {c \in convs : /\ c.model = log[l].model /\ c.title = log[l].title
                             /\ c.created = log[l].time /\ c.count = 1}

\* 3d.  Of several matches any may be taken.
LinkBare == /\ Advance("keyed linked", "linked")
            /\ \E pick \in [Bare -> {c.id : c \in convs} \cup {Unlinked}] :
                  /\ \A l \in Bare : IF Matches(l) = {} THEN pick[l] = Unlinked
                                                        ELSE \E c \in Matches(l) : c.id = pick[l]
                  /\ link' = [l \in Logs |-> IF l \in Bare THEN pick[l] ELSE link[l]]
            /\ UNCHANGED <<log, convs, restored>>

\* conversation_id becomes NOT NULL, or all of it is rolled back; session_id is dropped.
Tighten == /\ Advance("linked", IF \E l \in Logs : link[l] = Unlinked THEN "failed" ELSE "upgraded")
           /\ UNCHANGED <<log, convs, link, restored>>

\* downgrade: the session ids come back from the conversations.
Downgrade ==
    /\ Advance("upgraded", "downgraded")
    /\ restored' = [l \in Logs |-> (CHOOSE c \in convs : c.id = link[l]).session]
    /\ convs' = {}
    /\ link' = [l \in Logs |-> Unlinked]
    /\ UNCHANGED log

BackfillNext == GroupKeyed \/ MakeOwn \/ LinkKeyed \/ LinkBare \/ Tighten \/ Downgrade

BackfillSpec == BackfillInit /\ [][BackfillNext]_bvars
-------------------------------------------------------------------------------
(* Properties *)

Together(l, m) == l = m \/ (l \in Keyed /\ m \in GroupOf(l))

\* A log without a session that was asked the same as m in the same instant.
Twins(l, m) == /\ l # m /\ l \in Bare
               /\ log[l].model = log[m].model /\ log[l].title = log[m].title
               /\ log[l].time = log[m].time
               /\ m \in Bare \/ GroupOf(m) = {m}

Confused(l) == \E m \in Logs : Twins(l, m) \/ Twins(m, l)

\* The migration succeeds on every table.  Two logs share a conversation just when they
\* shared a session, message_count is the number of its messages, and the way back splits
\* them as they were; all but for logs without a session that were asked the same question
\* in the same instant as another one, which the match by title and time may confuse.
ConversationsTrue ==
    /\ migration # "failed"
    /\ migration = "upgraded" =>
         /\ \A l, m \in Logs : Together(l, m) => link[l] = link[m]
         /\ \A l, m \in Logs : link[l] = link[m] => Together(l, m) \/ Twins(l, m) \/ Twins(m, l)
         /\ \A c \in convs : \/ c.count = Cardinality({l \in Logs : link[l] = c.id})
                             \/ \E l \in c.id : Confused(l)
    /\ migration = "downgraded" =>
         \A l, m \in Logs :
            \/ Together(l, m) <=> (restored[l] = restored[m] /\ log[l].model = log[m].model)
            \/ Confused(l) \/ Confused(m)
===============================================================================
