------------------------------- MODULE IngestTxn ------------------------------
(***************************************************************************)
(* The transactions that touch one source of one model: ingest_content     *)
(* (app/services/ingest.py), run by PUT requests and by file jobs, against *)
(* delete_source, purge_sources and the content lock of update_model.      *)
(*                                                                         *)
(* PostgreSQL runs them READ COMMITTED: a statement sees the rows that are *)
(* committed when it starts, a DELETE waits for rows another transaction   *)
(* has deleted, and a transaction's writes appear at its commit.  The only *)
(* advisory lock is ingest_content's.                                      *)
(***************************************************************************)
EXTENDS Naturals, FiniteSets

CONSTANTS
    Puts,       \* PUT /sources/{id} requests
    Files,      \* uploads of the source's text, each with the file job it queues
    Deletes,    \* DELETE /sources/{id} requests
    Purges,     \* DELETE /sources requests
    Patches,    \* PATCH requests that change a content-locked field of the model
    Texts,      \* contents of the source
    Blanks,     \* those that chunk_text turns into no chunks
    TextOf,     \* TextOf[p]: what a PUT or an upload carries
    FirstConfig,  \* the model's chunking and embedding settings at the start
    NoRow, NoHash, NoText, Nobody

Ingests   == Puts \cup Files
Erasers   == Deletes \cup Purges
Processes == Ingests \cup Erasers \cup Patches
Configs   == Patches \cup {FirstConfig}

\* sha256 of the text and the settings it is chunked and embedded with.
Hash(txt, settings) == [text |-> txt, cfg |-> settings]
Hashes == [text : Texts, cfg : Configs]

\* A row of ingestion_sources.
Rows == [id : Nat, hash : Hashes \cup {NoHash}, count : {0, 1},
         status : {"pending", "complete", "failed"},
         detail : {"null", "no text"}, raw : Texts \cup {NoText}]

\* The content_chunks rows one ingest inserts: all of them or none.
Batches == [by : Ingests, hash : Hashes]

ASSUME KindsAssumption ==
    /\ Puts \cap Files = {} /\ Ingests \cap Erasers = {} /\ Deletes \cap Purges = {}
    /\ Patches \cap (Ingests \cup Erasers) = {}
    /\ Nobody \notin Processes /\ FirstConfig \notin Patches
ASSUME TextsAssumption ==
    /\ Blanks \subseteq Texts /\ TextOf \in [Ingests -> Texts] /\ NoText \notin Texts
ASSUME NullsAssumption == NoRow \notin Rows /\ NoHash \notin Hashes

VARIABLES
    source,   \* the committed ingestion_sources row, or NoRow
    stored,   \* the committed content_chunks rows, by batch
    config,   \* the model's committed settings
    nextId,   \* the ids of ingestion_sources
    adv,      \* who holds pg_advisory_xact_lock(model, source)
    pc,
    read,     \* read[p]: the ORM's copy of the row (a file job's, an eraser's or `existing')
    cfg,      \* cfg[p]: the model object p loaded
    text,     \* text[p]: the content p ingests
    target,   \* target[p]: rows p's DELETE statement found when it started
    doomed    \* doomed[p]: rows deleted by p's open transaction

db    == <<source, stored, config, nextId>>
local == <<read, cfg, text>>
vars  == <<db, adv, pc, local, target, doomed>>

PcStates == {"idle", "queued", "loaded", "lock", "decide", "save", "erase", "erasing",
             "embed", "store", "drop", "patch", "done", "failed"}

TypeOK ==
    /\ source \in Rows \cup {NoRow}
    /\ stored \subseteq Batches
    /\ config \in Configs
    /\ nextId \in Nat
    /\ adv \in Ingests \cup {Nobody}
    /\ pc \in [Processes -> PcStates]
    /\ read \in [Processes -> Rows \cup {NoRow}]
    /\ cfg \in [Ingests -> Configs]
    /\ text \in [Ingests -> Texts]
    /\ target \in [Processes -> SUBSET Batches]
    /\ doomed \in [Processes -> SUBSET Batches]

Init ==
    /\ source = NoRow
    /\ stored = {}
    /\ config = FirstConfig
    /\ nextId = 1
    /\ adv = Nobody
    /\ pc = [p \in Processes |-> "idle"]
    /\ read = [p \in Processes |-> NoRow]
    /\ cfg = [p \in Ingests |-> FirstConfig]
    /\ text = TextOf
    /\ target = [p \in Processes |-> {}]
    /\ doomed = [p \in Processes |-> {}]

-------------------------------------------------------------------------------
(* Statements and transactions *)

Go(p, from, to) == pc[p] = from /\ pc' = [pc EXCEPT ![p] = to]

\* Mutant: a session-level advisory lock, which no commit releases.
EndTxn_KeepsLock(p) == adv' = adv /\ doomed' = [doomed EXCEPT ![p] = {}]

\* Commit or rollback: row locks and the transaction-scoped advisory lock go.
EndTxn(p) == /\ adv' = IF adv = p THEN Nobody ELSE adv
             /\ doomed' = [doomed EXCEPT ![p] = {}]

Survivors(p) == stored \ doomed[p]

\* INSERT ... ON CONFLICT (uq_model_source) DO UPDATE.
Upsert(inserted, updated) ==
    /\ source' = IF source = NoRow THEN inserted ELSE updated
    /\ nextId' = IF source = NoRow THEN nextId + 1 ELSE nextId

\* DELETE FROM content_chunks: find the rows, then wait for those others are deleting.
StartDelete(p, to) ==
    /\ Go(p, "erase", to)
    /\ target' = [target EXCEPT ![p] = stored]
    /\ UNCHANGED <<db, adv, local, doomed>>

\* Mutant: the delete is committed on its own, before the rest of the transaction.
FinishDelete_Commits(p, to) ==
    /\ Go(p, "erasing", to)
    /\ \A q \in Processes \ {p} : doomed[q] \cap target[p] = {}
    /\ stored' = stored \ target[p]
    /\ UNCHANGED <<source, config, nextId, adv, local, target, doomed>>

FinishDelete(p, to) ==
    /\ Go(p, "erasing", to)
    /\ \A q \in Processes \ {p} : doomed[q] \cap target[p] = {}
    /\ doomed' = [doomed EXCEPT ![p] = target[p] \cap stored]
    /\ UNCHANGED <<db, adv, local, target>>

Unwritten == UNCHANGED <<db, adv, target, doomed>>
-------------------------------------------------------------------------------
(* Reaching ingest_content *)

\* Mutant: the request looks its source up before it waits for the lock.
StartPut_LooksFirst(p) == /\ Go(p, "idle", "lock")
                          /\ cfg' = [cfg EXCEPT ![p] = config]
                          /\ read' = [read EXCEPT ![p] = source]
                          /\ UNCHANGED text /\ Unwritten

\* upsert_source: the request has loaded its model.
StartPut(p) == /\ Go(p, "idle", "lock")
               /\ cfg' = [cfg EXCEPT ![p] = config]
               /\ UNCHANGED <<read, text>> /\ Unwritten

\* upload_source, queue_file: the pending row and the job, in one commit.
QueueFile(p) ==
    /\ Go(p, "idle", "queued")
    /\ Upsert([id |-> nextId, hash |-> NoHash, count |-> 0, status |-> "pending",
               detail |-> "null", raw |-> TextOf[p]],
              [source EXCEPT !.status = "pending", !.raw = TextOf[p]])
    /\ UNCHANGED <<stored, config, adv, local, target, doomed>>

\* handle_file_job: one statement loads the model ...
LoadModel(p) == /\ Go(p, "queued", "loaded")
                /\ cfg' = [cfg EXCEPT ![p] = config]
                /\ UNCHANGED <<read, text>> /\ Unwritten

\* ... and the next one the source, whose row has the text.
StartFileJob(p) ==
    /\ source # NoRow
    /\ Go(p, "loaded", IF source.raw = NoText THEN "failed" ELSE "lock")
    /\ read' = [read EXCEPT ![p] = source]
    /\ text' = [text EXCEPT ![p] = IF source.raw = NoText THEN @ ELSE source.raw]
    /\ UNCHANGED cfg /\ Unwritten

NoSourceToRead(p) == /\ source = NoRow
                     /\ Go(p, "loaded", "failed")
                     /\ UNCHANGED local /\ Unwritten
-------------------------------------------------------------------------------
(* ingest_content *)

NewHash(p) == Hash(text[p], cfg[p])

\* Mutant: no advisory lock.
AdvisoryLock_NoWait(p) == /\ Go(p, "lock", "decide")
                          /\ adv' = p
                          /\ UNCHANGED <<db, local, target, doomed>>

AdvisoryLock(p) == /\ adv = Nobody
                   /\ Go(p, "lock", "decide")
                   /\ adv' = p
                   /\ UNCHANGED <<db, local, target, doomed>>

\* The row the SELECT after the lock returns.  The session's identity map keeps the
\* attributes of a row it has already loaded.
Existing(p) == IF source # NoRow /\ read[p] # NoRow /\ read[p].id = source.id
               THEN read[p] ELSE source

Unchanged(p) == Existing(p) # NoRow /\ Existing(p).hash = NewHash(p)

\* Same hash: nothing to do, or only the status to repair.
Skip(p) ==
    /\ Unchanged(p)
    /\ IF Existing(p).status = "complete"
       THEN Go(p, "decide", "done") /\ EndTxn(p)
       ELSE Go(p, "decide", "save") /\ UNCHANGED <<adv, doomed>>
    /\ read' = [read EXCEPT ![p] = Existing(p)]
    /\ UNCHANGED <<db, cfg, text, target>>

\* Mutant: an UPDATE that matches no row goes unnoticed.
SkipSave_Unnoticed(p) ==
    /\ Go(p, "save", "done")
    /\ source' = IF source # NoRow /\ source.id = read[p].id
                 THEN [source EXCEPT !.status = "complete"] ELSE source
    /\ EndTxn(p)
    /\ UNCHANGED <<stored, config, nextId, local, target>>

\* UPDATE ... SET status WHERE id: an error when the row is gone.
SkipSave(p) ==
    /\ pc[p] = "save"
    /\ IF source # NoRow /\ source.id = read[p].id
       THEN Go(p, "save", "done") /\ source' = [source EXCEPT !.status = "complete"]
       ELSE Go(p, "save", "failed") /\ UNCHANGED source
    /\ EndTxn(p)
    /\ UNCHANGED <<stored, config, nextId, local, target>>

\* New or changed content: old chunks are deleted only if there is a source row.
Replace(p) ==
    /\ ~Unchanged(p)
    /\ Go(p, "decide", IF Existing(p) = NoRow THEN "embed" ELSE "erase")
    /\ read' = [read EXCEPT ![p] = Existing(p)]
    /\ UNCHANGED <<cfg, text>> /\ Unwritten

DeleteOldChunks(p) == StartDelete(p, "erasing") \/ FinishDelete(p, "embed")

\* chunk_text found nothing: _record_empty_source, and commit.
RecordEmpty(p) ==
    /\ text[p] \in Blanks
    /\ Go(p, "embed", "done")
    /\ Upsert([id |-> nextId, hash |-> NewHash(p), count |-> 0, status |-> "failed",
               detail |-> "no text", raw |-> NoText],
              [source EXCEPT !.hash = NewHash(p), !.count = 0, !.status = "failed",
                             !.detail = "no text"])
    /\ stored' = Survivors(p)
    /\ EndTxn(p)
    /\ UNCHANGED <<config, local, target>>

\* embed_texts: a slow call inside the transaction.
Embed(p) == /\ text[p] \notin Blanks
            /\ Go(p, "embed", "store")
            /\ UNCHANGED local /\ Unwritten

\* INSERT the chunks, upsert the source, commit.
Store(p) ==
    /\ Go(p, "store", "done")
    /\ Upsert([id |-> nextId, hash |-> NewHash(p), count |-> 1, status |-> "complete",
               detail |-> "null", raw |-> text[p]],
              [source EXCEPT !.hash = NewHash(p), !.count = 1, !.status = "complete",
                             !.detail = "null", !.raw = text[p]])
    /\ stored' = Survivors(p) \cup {[by |-> p, hash |-> NewHash(p)]}
    /\ EndTxn(p)
    /\ UNCHANGED <<config, local, target>>

\* An exception (a failed embedding call), a cancelled request or a crash: rollback.
Abort(p) == /\ pc[p] \in {"loaded", "lock", "decide", "save", "erase", "erasing", "embed", "store"}
            /\ pc' = [pc EXCEPT ![p] = "failed"]
            /\ EndTxn(p)
            /\ UNCHANGED <<db, local, target>>

IngestStep(p) == \/ AdvisoryLock(p) \/ Skip(p) \/ SkipSave(p) \/ Replace(p)
                 \/ DeleteOldChunks(p) \/ RecordEmpty(p) \/ Embed(p) \/ Store(p)
-------------------------------------------------------------------------------
(* delete_source, purge_sources, update_model *)

\* delete_source first looks the row up: 404 without one.
SelectSource(p) == /\ Go(p, "idle", IF source = NoRow THEN "failed" ELSE "erase")
                   /\ read' = [read EXCEPT ![p] = source]
                   /\ UNCHANGED <<cfg, text>> /\ Unwritten

StartPurge(p) == Go(p, "idle", "erase") /\ UNCHANGED local /\ Unwritten

DeleteChunks(p) == StartDelete(p, "erasing") \/ FinishDelete(p, "drop")

\* DELETE the source row (the one it read, or every row of the model) and commit.
DropSource(p) ==
    /\ Go(p, "drop", "done")
    /\ source' = IF source # NoRow /\ (p \in Purges \/ source.id = read[p].id)
                 THEN NoRow ELSE source
    /\ stored' = Survivors(p)
    /\ EndTxn(p)
    /\ UNCHANGED <<config, nextId, local, target>>

\* _model_has_content: 409 if the model has any source row, pending ones included.
CheckContent(p) == /\ Go(p, "idle", IF source = NoRow THEN "patch" ELSE "failed")
                   /\ UNCHANGED local /\ Unwritten

SaveModel(p) == /\ Go(p, "patch", "done")
                /\ config' = p
                /\ UNCHANGED <<source, stored, nextId, adv, local, target, doomed>>

Next == \/ \E p \in Puts : StartPut(p)
        \/ \E p \in Files : QueueFile(p) \/ LoadModel(p) \/ StartFileJob(p) \/ NoSourceToRead(p)
        \/ \E p \in Ingests : IngestStep(p) \/ Abort(p)
        \/ \E p \in Deletes : SelectSource(p)
        \/ \E p \in Purges : StartPurge(p)
        \/ \E p \in Erasers : DeleteChunks(p) \/ DropSource(p)
        \/ \E p \in Patches : CheckContent(p) \/ SaveModel(p)

Spec == Init /\ [][Next]_vars

\* Every started request and job goes on; embed_texts answers or raises in the end.
FairSpec == /\ Spec
            /\ \A p \in Ingests : WF_vars(IngestStep(p))
            /\ \A p \in Files : WF_vars(LoadModel(p) \/ StartFileJob(p) \/ NoSourceToRead(p))
            /\ \A p \in Erasers : WF_vars(DeleteChunks(p) \/ DropSource(p))

-------------------------------------------------------------------------------
(* Properties *)

\* The source row tells the truth about the chunks: its count is the number of batches
\* stored, they are of its hash, and there are none without a row.  It relies on the
\* advisory lock around check-and-replace, and holds when nothing is deleted meanwhile.
SourceDescribesChunks ==
    IF source = NoRow
    THEN stored = {}
    ELSE /\ Cardinality(stored) = source.count
         /\ \A b \in stored : b.hash = source.hash

\* Re-ingesting replaces a source's chunks atomically: a reader never finds a source
\* that had chunks without any, unless the source says it is empty.
ReplacedAtomically ==
    [][stored # {} /\ stored' = {} => source' # NoRow /\ source'.detail = "no text"]_vars

\* A PUT that is answered 200 leaves the source with its content's hash, whatever other
\* PUTs, deletes and purges run (ingest_content's skip and store paths).
PutTakesEffect ==
    [][\A p \in Puts : pc[p] # "done" /\ pc'[p] = "done" =>
         source' # NoRow /\ source'.hash = NewHash(p)]_vars

\* A row as AtomicIngest sees it.
View(r) == IF r = NoRow THEN [hash |-> NoHash, state |-> "none", raw |-> NoText]
                        ELSE [hash |-> r.hash, state |-> r.status, raw |-> r.raw]

\* Between its start and its end an ingest or a change of settings is under way.
PhaseOf(at) == IF at \in {"idle", "queued", "loaded", "done", "failed"} THEN at ELSE "open"

\* What AtomicIngest has for variables.
RowView  == View(source)
Chunks   == {b.hash : b \in stored}
Progress == [p \in Ingests \cup Patches |-> PhaseOf(pc[p])]
Known    == [p \in Files |-> View(read[p])]

\* Ingests are serializable: to a reader of the database PUTs and file jobs happen one at a
\* time, each whole at its commit, with the row and the chunks that gives, wherever the
\* others stand or fail (ingest_content).  It holds when nothing is deleted meanwhile.
Atomic == INSTANCE AtomicIngest WITH
              row <- RowView, chunks <- Chunks, progress <- Progress, known <- Known
IngestsAtomic == Atomic!Spec

\* A source that says it has chunks has them, unless a DELETE was under way that had looked
\* up an earlier row of it: it deletes the chunks by name and the row by its old id, so a
\* source purged and written again in between loses its chunks only (delete_source).
LossExplained ==
    source # NoRow /\ source.count = 1 /\ stored = {} =>
        \E p \in Deletes : pc[p] = "done" /\ read[p].id < source.id

\* Every request and job that starts is answered: no two wait for each other's locks.
EveryoneEnds == \A p \in Processes : pc[p] \in {"lock", "erase"} ~> pc[p] \in {"done", "failed"}

\* The settings that chunks depend on are locked while there are chunks (update_model): a
\* model's chunks are of its settings.
SettingsLocked == source # NoRow /\ source.count = 1 => source.hash.cfg = config

\* Chunks are gone with the source they belong to.
NoOrphanChunks == source = NoRow => stored = {}
===============================================================================
