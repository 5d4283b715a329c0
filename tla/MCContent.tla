------------------------------ MODULE MCContent -------------------------------
(***************************************************************************)
(* What the service keeps, and what it makes of it: the chunks of a text   *)
(* and a search in them, the transactions of a source, the models, their   *)
(* API keys, a session's turns, and the migration to conversations.  These *)
(* share no state; one run checks all of them, one at a time.              *)
(***************************************************************************)
EXTENDS Search, MCChunker, MCIngestTxn, MCRegistry, ModelKeys, Dialogue, Backfill

CONSTANTS page, other, q1, q2, q3, key1, key2, noKey, c1, c2, c3, owner1, owner2,
          log1, log2, log3, tab

VARIABLE part

MCSources == {page, other}
MCMaxVersion == page :> 2 @@ other :> 1

\* Three chunks: a text, a section with a text, a heading at the end.
ThreeChunks == {Lines(<<Text, H1, Text, H2>>)}

\* Turns: a stream between two plain ones; history_turns is patched in between.
MCTalk == {q1, q2, q3}
OneStream == {q2}
MCHistoryTurns == q1 :> 2 @@ q2 :> 1 @@ q3 :> 2
MCGiven == {"unanswered", "odd"}

\* Keys: two of one model with the same prefix, one that was never created.
MCApiKeys == {key1, key2, noKey}
MCModelOf == key1 :> shop @@ key2 :> shop
MCPrefix == [k \in MCApiKeys |-> 1]
MCCallers == {c1, c2, c3}
MCToken == c1 :> key1 @@ c2 :> key1 @@ c3 :> noKey
MCWanted == [c \in MCCallers |-> shop]
MCOwners == {owner1, owner2}
MCRevokes == owner1 :> key1 @@ owner2 :> key1

\* Logs: two models, with a session or without.
MCLogs == {log1, log2, log3}
MCTables == [MCLogs -> [model : {shop, docs}, session : {tab, NoSession},
                        title : {"hello", "why"}, time : 1 .. 2]]

all == <<svars, vars, gvars, kvars, dvars, bvars, part>>

\* The parts that do not run start in one state only.
ContentInit ==
    /\ part \in {"search", "source", "models", "keys", "session", "migration"}
    /\ part = "search" \/ (part # "search" /\ doc = <<>>)
    /\ part = "models" \/ (part # "models" /\ place = [e \in Edits |-> "absent"])
    /\ part = "migration" \/ (part # "migration" /\ log = CHOOSE t \in Tables : TRUE)
    /\ SearchInit /\ Init /\ RegistryInit /\ KeysInit /\ DialogueInit /\ BackfillInit

ContentNext ==
    \/ part = "search" /\ SearchNext /\ UNCHANGED <<vars, gvars, kvars, dvars, bvars, part>>
    \/ part = "source" /\ Next /\ UNCHANGED <<svars, gvars, kvars, dvars, bvars, part>>
    \/ part = "models" /\ RegistryNext /\ UNCHANGED <<svars, vars, kvars, dvars, bvars, part>>
    \/ part = "keys" /\ KeysNext /\ UNCHANGED <<svars, vars, gvars, dvars, bvars, part>>
    \/ part = "session" /\ DialogueNext /\ UNCHANGED <<svars, vars, gvars, kvars, bvars, part>>
    \/ part = "migration" /\ BackfillNext /\ UNCHANGED <<svars, vars, gvars, kvars, dvars, part>>

ContentSpec == ContentInit /\ [][ContentNext]_all
===============================================================================
