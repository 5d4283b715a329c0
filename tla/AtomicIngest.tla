----------------------------- MODULE AtomicIngest -----------------------------
(***************************************************************************)
(* What ingest_content promises of one source while nobody deletes: PUTs   *)
(* and file jobs take effect one at a time, each in a single step, at its  *)
(* commit.  A PUT decides from the row as it is then; a file job by the    *)
(* row as it was when the job read it, and by the settings it had loaded   *)
(* before.  IngestTxn is the transactions that are meant to keep this      *)
(* promise.                                                                *)
(***************************************************************************)
CONSTANTS Puts,         \* PUT requests
          Files,        \* uploads, each with its file job
          Patches,      \* changes of the model's settings
          Texts,
          Blanks,       \* texts without a chunk
          TextOf,       \* what a PUT or an upload carries
          FirstConfig,
          NoHash, NoText

Ingests == Puts \cup Files

VARIABLES
    row,       \* the source: its hash, state and text
    chunks,    \* the hashes of its chunks
    config,    \* the model's settings
    progress,  \* progress[p]: "idle", "queued", "loaded", "open", "done" or "failed"
    known,     \* known[p]: the row that file job p has read
    cfg, text  \* what p works with

vars == <<row, chunks, config, progress, known, cfg, text>>

Absent == [hash |-> NoHash, state |-> "none", raw |-> NoText]

Init == /\ row = Absent
        /\ chunks = {}
        /\ config = FirstConfig
        /\ progress = [p \in Ingests \cup Patches |-> "idle"]
        /\ known = [p \in Files |-> Absent]
        /\ cfg = [p \in Ingests |-> FirstConfig]
        /\ text = TextOf

Move(p, from, to) == progress[p] = from /\ progress' = [progress EXCEPT ![p] = to]

Request(p) == /\ Move(p, "idle", "open")
              /\ cfg' = [cfg EXCEPT ![p] = config]
              /\ UNCHANGED <<row, chunks, config, known, text>>

Upload(p) == /\ Move(p, "idle", "queued")
             /\ row' = [row EXCEPT !.state = "pending", !.raw = TextOf[p]]
             /\ UNCHANGED <<chunks, config, known, cfg, text>>

Load(p) == /\ Move(p, "queued", "loaded")
           /\ cfg' = [cfg EXCEPT ![p] = config]
           /\ UNCHANGED <<row, chunks, config, known, text>>

StartJob(p) == /\ Move(p, "loaded", "open")
               /\ row.raw \in Texts
               /\ known' = [known EXCEPT ![p] = row]
               /\ text' = [text EXCEPT ![p] = row.raw]
               /\ UNCHANGED <<row, chunks, config, cfg>>

\* The hash of the text and the settings p has loaded.
New(p) == [text |-> text[p], cfg |-> cfg[p]]

\* The row p decides by.
Basis(p) == IF p \in Files THEN known[p] ELSE row

Keep(p) == /\ Basis(p).hash = New(p) /\ Basis(p).state = "complete"
           /\ UNCHANGED <<row, chunks>>

Repair(p) == /\ Basis(p).hash = New(p) /\ Basis(p).state # "complete"
             /\ row' = [row EXCEPT !.state = "complete"]
             /\ UNCHANGED chunks

Clear(p) == /\ Basis(p).hash # New(p) /\ text[p] \in Blanks
            /\ row' = [row EXCEPT !.hash = New(p), !.state = "failed"]
            /\ chunks' = {}

Replace(p) == /\ Basis(p).hash # New(p) /\ text[p] \notin Blanks
              /\ row' = [hash |-> New(p), state |-> "complete", raw |-> text[p]]
              /\ chunks' = {New(p)}

Finish(p) == /\ Move(p, "open", "done")
             /\ Keep(p) \/ Repair(p) \/ Clear(p) \/ Replace(p)
             /\ UNCHANGED <<config, known, cfg, text>>

\* An ingest or a change of settings that fails leaves nothing behind.
Fail(p) == /\ Move(p, "loaded", "failed") \/ Move(p, "open", "failed")
           /\ UNCHANGED <<row, chunks, config, known, cfg, text>>

\* The settings change only if there was no source when the change was checked.
Check(p) == /\ row.state = "none"
            /\ Move(p, "idle", "open")
            /\ UNCHANGED <<row, chunks, config, known, cfg, text>>

Refuse(p) == /\ row.state # "none"
             /\ Move(p, "idle", "failed")
             /\ UNCHANGED <<row, chunks, config, known, cfg, text>>

Save(p) == /\ Move(p, "open", "done")
           /\ config' = p
           /\ UNCHANGED <<row, chunks, known, cfg, text>>

Next == \/ \E p \in Puts : Request(p)
        \/ \E p \in Files : Upload(p) \/ Load(p) \/ StartJob(p)
        \/ \E p \in Ingests : Finish(p) \/ Fail(p)
        \/ \E p \in Patches : Check(p) \/ Refuse(p) \/ Save(p)

Spec == Init /\ [][Next]_vars
===============================================================================
