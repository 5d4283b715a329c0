------------------------------- MODULE Pipeline -------------------------------
(***************************************************************************)
(* From a request to a searchable source: the job queue of JobQueue        *)
(* together with the ingestion_sources rows its jobs are about, the        *)
(* uploaded objects in R2, and the handlers of app/worker.py step by step. *)
(*                                                                         *)
(* ingest_content is one step here (IngestTxn opens it up), and so is      *)
(* every other transaction; what lies between two commits is not.          *)
(***************************************************************************)
EXTENDS JobQueue

CONSTANTS
    Sources,   \* source_identifiers of one model
    Web,       \* those whose row has a source_url
    Kind,      \* Kind[j]: the job_type
    Target,    \* Target[j]: the source_identifier, filename or url in job_params
    PageJobs,  \* the jobs that only a crawl can queue
    Keys,      \* object keys of presigned uploads
    Key,       \* Key[j]: the object_key in the job_params of an r2_file job
    Deletable  \* bound: the sources somebody may delete

ASSUME PipelineAssumption ==
    /\ Handled = Jobs
    /\ Web \subseteq Sources /\ Deletable \subseteq Sources
    /\ Kind \in [Jobs -> {"url", "file", "r2_file", "crawl"}]
    /\ Target \in [Jobs -> Sources]
    /\ PageJobs \subseteq {j \in Jobs : Kind[j] = "file" /\ Target[j] \in Web}
    /\ Key \in [{j \in Jobs : Kind[j] = "r2_file"} -> Keys]

VARIABLES
    state,    \* state[s]: the status column, "none" without a row
    content,  \* content[s]: what the last completed ingest left (content_hash)
    raw,      \* raw[s]: is there a non-empty raw_content?
    objects,  \* the uploaded objects still in R2
    step,     \* step[j][n]: how far the handler of attempt n of j has come
    seen      \* seen[j][n]: the pages a crawl attempt has come across

sources == <<state, content, raw>>
world   == <<sources, objects>>
inner   == <<step, seen>>
pvars   == <<vars, world, inner>>

Busy == {"pending", "crawling"}

PipeTypeOK ==
    /\ state \in [Sources -> {"none", "complete", "failed"} \cup Busy]
    /\ content \in [Sources -> {"never", "empty", "chunks"}]
    /\ raw \in [Sources -> BOOLEAN]
    /\ objects \subseteq Keys
    /\ step \in [Jobs -> [Tries -> {"start", "fetched", "barren", "done", "deleted", "unheard"}]]
    /\ seen \in [Jobs -> [Tries -> SUBSET Sources]]
    /\ \A s \in Sources : state[s] = "none" => content[s] = "never" /\ ~raw[s]

PipeInit ==
    /\ Init
    /\ state = [s \in Sources |-> "none"]
    /\ content = [s \in Sources |-> "never"]
    /\ raw = [s \in Sources |-> FALSE]
    /\ objects = Keys
    /\ step = [j \in Jobs |-> [n \in Tries |-> "start"]]
    /\ seen = [j \in Jobs |-> [n \in Tries |-> {}]]

-------------------------------------------------------------------------------
(* Requests *)

SetState(s, to) == state' = [state EXCEPT ![s] = to]
SetRaw(s, b)    == raw' = [raw EXCEPT ![s] = b]
GoOn(j, n, to)  == step' = [step EXCEPT ![j][n] = to]

Requestable(j) == j \notin PageJobs

\* Of an existing row only the status changes: its content survives the request.
QueueUrl(j) == /\ Requestable(j) /\ Kind[j] = "url"
               /\ Enqueue(j)
               /\ SetState(Target[j], "pending")
               /\ UNCHANGED <<content, raw, objects, inner>>

\* The text may be empty, which a file job takes for no text at all.
QueueFile(j) == /\ Requestable(j) /\ Kind[j] = "file"
                /\ Enqueue(j)
                /\ SetState(Target[j], "pending")
                /\ \E b \in BOOLEAN : SetRaw(Target[j], b)
                /\ UNCHANGED <<content, objects, inner>>

\* Confirming an upload; confirming it twice queues two jobs for one object.
QueueR2File(j) == /\ Requestable(j) /\ Kind[j] = "r2_file"
                  /\ Enqueue(j)
                  /\ SetState(Target[j], "pending")
                  /\ UNCHANGED <<content, raw, objects, inner>>

QueueCrawl(j) == /\ Requestable(j) /\ Kind[j] = "crawl"
                 /\ Enqueue(j)
                 /\ SetState(Target[j], "crawling")
                 /\ UNCHANGED <<content, raw, objects, inner>>

\* Sources with a URL are fetched again, others re-chunked from stored text.
Reingest(j) == LET s == Target[j] IN
    /\ Requestable(j) /\ state[s] # "none"
    /\ Kind[j] = IF s \in Web THEN "url" ELSE "file"
    /\ s \in Web \/ raw[s]
    /\ Enqueue(j)
    /\ SetState(s, "pending")
    /\ UNCHANGED <<content, raw, objects, inner>>

\* Its jobs stay queued.
DeleteSource(s) == /\ s \in Deletable /\ state[s] # "none"
                   /\ SetState(s, "none")
                   /\ SetRaw(s, FALSE)
                   /\ content' = [content EXCEPT ![s] = "never"]
                   /\ UNCHANGED <<vars, objects, inner>>

SameText(s) == /\ content[s] # "never"
               /\ SetState(s, "complete")
               /\ UNCHANGED <<content, raw>>

NoText(s) == /\ SetState(s, "failed")
             /\ content' = [content EXCEPT ![s] = "empty"]
             /\ UNCHANGED raw

NewText(s) == /\ SetState(s, "complete")
              /\ content' = [content EXCEPT ![s] = "chunks"]
              /\ SetRaw(s, TRUE)

IngestContent(s) == SameText(s) \/ NoText(s) \/ NewText(s)

Put(s) == IngestContent(s) /\ UNCHANGED <<vars, objects, inner>>

Request == \/ \E j \in Jobs : \/ QueueUrl(j) \/ QueueFile(j) \/ QueueR2File(j)
                              \/ QueueCrawl(j) \/ Reingest(j)
           \/ \E s \in Sources : DeleteSource(s) \/ Put(s)
-------------------------------------------------------------------------------
(* Handlers *)

At(j, n, kinds, where) == pc[j][n] = "handling" /\ Kind[j] \in kinds /\ step[j][n] = where

\* The page is fetched, the stored text read, or the object downloaded.
Fetch(j, n) == /\ At(j, n, {"url", "file", "r2_file"}, "start")
               /\ Kind[j] = "file" => raw[Target[j]]
               /\ Kind[j] = "r2_file" => Key[j] \in objects
               /\ GoOn(j, n, "fetched")
               /\ UNCHANGED <<vars, world, seen>>

Ingest(j, n) == /\ At(j, n, {"url", "file", "r2_file"}, "fetched")
                /\ IngestContent(Target[j])
                /\ GoOn(j, n, "done")
                /\ UNCHANGED <<vars, objects, seen>>

\* Mutant: the object is deleted as soon as it is downloaded.
DeleteObject_Early(j, n) == /\ At(j, n, {"r2_file"}, "fetched")
                            /\ objects' = objects \ {Key[j]}
                            /\ UNCHANGED <<vars, sources, inner>>

\* A failed deletion is only logged: the handler then returns from "done".
DeleteObject(j, n) == /\ At(j, n, {"r2_file"}, "done")
                      /\ objects' = objects \ {Key[j]}
                      /\ GoOn(j, n, "deleted")
                      /\ UNCHANGED <<vars, sources, seen>>

\* crawl_site yields the root first; without the root's page it yields no other,
\* and it yields a page once.
Comes(j, n, s) == \/ At(j, n, {"crawl"}, "start") /\ s = Target[j]
                  \/ At(j, n, {"crawl"}, "fetched") /\ s \notin seen[j][n]

Saw(j, n, s) == seen' = [seen EXCEPT ![j][n] = @ \cup {s}]

\* A page is queued as a file job k of its own.
CrawledPage(j, n, k) == LET s == Target[k] IN
    /\ k \in PageJobs /\ Comes(j, n, s)
    /\ Enqueue(k)
    /\ SetState(s, "pending") /\ SetRaw(s, TRUE)
    /\ GoOn(j, n, "fetched") /\ Saw(j, n, s)
    /\ UNCHANGED <<content, objects>>

\* Only an existing row is marked failed.
FailedPage(j, n, s) ==
    /\ s \in Web /\ Comes(j, n, s)
    /\ SetState(s, IF state[s] = "none" THEN "none" ELSE "failed")
    /\ GoOn(j, n, IF s = Target[j] THEN "barren" ELSE "fetched") /\ Saw(j, n, s)
    /\ UNCHANGED <<vars, content, raw, objects>>

\* The root is skipped, or excluded before it is fetched.
NoRootPage(j, n) == /\ At(j, n, {"crawl"}, "start")
                    /\ GoOn(j, n, "barren")
                    /\ UNCHANGED <<vars, world, seen>>

\* Mutant: the root is flipped whatever its status.
Flips_Always(s) == state[s] # "none"

Flips(s) == state[s] = "crawling"

FinishCrawl(j, n) == LET s == Target[j] IN
    /\ At(j, n, {"crawl"}, "fetched") \/ At(j, n, {"crawl"}, "barren")
    /\ SetState(s, IF ~Flips(s) THEN state[s]
                   ELSE IF step[j][n] = "fetched" THEN "complete" ELSE "failed")
    /\ GoOn(j, n, "done")
    /\ UNCHANGED <<vars, content, raw, objects, seen>>

Return(j, n) == /\ step[j][n] \in {"done", "deleted"}
                /\ HandlerReturns(j, n)
                /\ UNCHANGED <<world, inner>>

Raise(j, n) == /\ step[j][n] \notin {"done", "deleted"}
               /\ HandlerRaises(j, n)
               /\ UNCHANGED <<world, inner>>

\* Mutant: nobody tells the source.
FailSource_Forgotten(j, n) == MarkSourceFailed(j, n) /\ UNCHANGED <<world, inner>>

\* _mark_source_failed finds the row by identifier and swallows every error.
FailSource(j, n) == LET s == Target[j] IN
    /\ MarkSourceFailed(j, n)
    /\ \/ /\ SetState(s, IF state[s] = "none" THEN "none" ELSE "failed")
          /\ UNCHANGED step
       \/ GoOn(j, n, "unheard") /\ UNCHANGED state
    /\ UNCHANGED <<content, raw, objects, seen>>

\* What process_job does to the queue and to nothing else.
Report(j, n) == /\ MarkComplete(j, n) \/ MarkCompleteErrs(j, n)
                   \/ MarkFailed(j, n) \/ MarkFailedErrs(j, n)
                /\ UNCHANGED <<world, inner>>

Handler(j, n) == \/ Fetch(j, n) \/ Ingest(j, n) \/ DeleteObject(j, n)
                 \/ \E k \in Jobs : CrawledPage(j, n, k)
                 \/ \E s \in Sources : FailedPage(j, n, s)
                 \/ NoRootPage(j, n) \/ FinishCrawl(j, n)
                 \/ Return(j, n) \/ Raise(j, n) \/ FailSource(j, n) \/ Report(j, n)

Scheduling == /\ \/ \E w \in Workers : WorkerStep(w)
                 \/ \E j \in Jobs : GoStale(j)
              /\ UNCHANGED <<world, inner>>

PipeNext == \/ Request
            \/ \E j \in Jobs, n \in Tries : Handler(j, n)
            \/ Scheduling

PipeSpec == PipeInit /\ [][PipeNext]_pvars
-------------------------------------------------------------------------------
(* Properties *)

\* A job that will still report to its source.
Open(j) == \/ Claimable(j) \/ status[j] = "running"
           \/ \E n \in Tries : pc[j][n] \in LivePc

\* A job that ended, or was stranded, with an attempt that never reported.
Abandoned(j) == /\ status[j] = "failed" \/ Stranded(j)
                /\ \E n \in Tries : pc[j][n] = "lost" \/ step[j][n] = "unheard"

\* A source shown as pending or crawling has a job that will settle it, unless a worker
\* died, or the database failed it, on the job's last attempt: no order of requests,
\* retries, overruns, deletes and re-queued jobs leaves a spinner with nothing behind it.
BusyIsAttended ==
    \A s \in Sources : state[s] \in Busy =>
        \E j \in Jobs : Target[j] = s /\ (Open(j) \/ Abandoned(j))

\* An attempt of crawl job j has come to s.
CrawlCame(j, s) == /\ Kind[j] = "crawl"
                   /\ \E n \in Tries : s \in seen[j][n] \/ (s = Target[j] /\ pc[j][n] # "none")

\* A source is shown as failed only if its last ingest found no text, a crawl came to it, or
\* a job of it has used up its attempts: no overrun, recovery or late report fails it while
\* an attempt is left.
FailedHasCause ==
    \A s \in Sources : state[s] = "failed" =>
        \/ content[s] = "empty"
        \/ \E j \in Jobs : \/ CrawlCame(j, s)
                           \/ Target[j] = s /\ pc[j][MaxAttempts] = "ended"

\* An uploaded object is gone only after the text in it reached the source it was
\* uploaded for (handle_r2_file_job), whichever of the jobs and attempts that share the
\* object deleted it, and unless the source was deleted since.
ObjectKeptUntilIngested ==
    \A k \in Keys \ objects :
        \E j \in Jobs : /\ Kind[j] = "r2_file" /\ Key[j] = k
                       /\ \/ content[Target[j]] # "never"
                          \/ Target[j] \in Deletable

\* Two crawl jobs of s have been queued.
CrawledTwice(s) == \E j, k \in Jobs : /\ j # k
                                      /\ \A i \in {j, k} : /\ Kind[i] = "crawl" /\ Target[i] = s
                                                            /\ status[i] # "absent"

\* A source shown as complete has been ingested: the crawl's flip of its root never
\* overtakes the ingest of the root's own page, of whatever attempt and however late it is,
\* unless the root was queued for another crawl, which the first one's flip then completes.
CompleteWasIngested ==
    \A s \in Sources : state[s] = "complete" => content[s] # "never" \/ CrawledTwice(s)
===============================================================================
