# A verification project for ragr

ragr is a multi-tenant retrieval-augmented chat service: a FastAPI process, one or
more ingestion workers, PostgreSQL with pgvector between them, object storage for
uploads, and providers for embeddings, reranking and generation. This directory holds
TLA+ models of it, the TLC configurations that check them, and proofs for TLAPS.

Contents: [the system](#the-system) · [modules](#modules) · [runs](#runs) ·
[bounds](#bounds-and-why-they-are-enough) · [fairness](#fairness) ·
[proofs](#proofs) · [findings](#findings) ·
[other behaviours](#behaviours-met-while-modelling) ·
[not modelled](#what-is-not-modelled-and-why) · [plan](#plan)

To check a module: `tlc -workers 2 -config api.cfg MCApi`, and so on for the table of
runs; to check a module's proofs: `tlapm PipelineProofs.tla`.

## The system

Two kinds of process share one database and no memory. Between API and workers the
only channel is the `ingestion_jobs` table, polled by the workers; sources, chunks and
models are rows both sides read and write in short transactions at READ COMMITTED. All
that either process keeps in memory is a rate limiter, a cache of clients, the map of
CORS origins (API) and the set of running tasks (worker).

| component | state | operations | what is hard | what makes it correct |
| --- | --- | --- | --- | --- |
| worker and job queue (`worker.py`) | `ingestion_jobs` rows, asyncio tasks | claim, handle, mark complete or failed, recover stale jobs, drain, crash | two workers polling at once (a rolling deploy); an attempt recovered while it still runs; a crash at any point | bounded attempts, final and earned outcomes, no two attempts of one job, no more tasks than slots |
| job handlers (`worker.py`) | `ingestion_sources`, uploaded objects | `handle_url_job`, `_file_`, `_r2_file_`, `_crawl_job` | handlers commit several times; a retry starts over; requests change the source in between | an object goes only after its text was ingested; a busy source has somebody who will settle it |
| ingestion service (`services/ingest.py`) | `content_chunks`, `ingestion_sources`, an advisory lock | `ingest_content`, `queue_*`, `_record_empty_source` | a slow embedding call inside a transaction; rows read before the lock; deletes that take no lock | the row describes the chunks; a reader never sees a source half replaced |
| sources API (`api/sources.py`) | the same rows, presigned uploads | upload, confirm, URL, crawl, PUT, reingest, delete, purge | repeated confirms; deletes beside ingests | a successful request has taken effect |
| crawler (`services/crawler.py`) | queue, visited set, batch | `crawl_site` | batches of mixed depth, failures, exclusions, `max_pages` | every page once, at its true depth, none missed |
| chunker (`services/chunker.py`) | one text in the making | parse blocks, split, pack, overlap, fix headings | sizes at the boundary; headings that wait for prose | nothing lost, chunks fit, section paths are right |
| retrieval (`services/retrieval.py`, `reranker.py`) | one request's candidate lists | two searches, fusion, reranking, neighbours | four queries and a call, with ingests in between | ranks respected, hits kept, context whole |
| chat (`api/chat.py`) | conversations, messages | answer, stream, `_load_session_history`, `_log_message` | the budget is read long before it is charged; two first messages of a session; clients that leave; messages dated by the start of their transaction | what is charged is what is logged; a follow-up is answered with what its client has read |
| generation (`services/generation.py`) | none | `generate_answer`, `generate_answer_stream`, `_read_response` | Claude may skip or misuse `set_status`; a stream may lose its final message | every turn counts as something |
| budget (`services/budget.py`) | `token_usage` per model and month | `check_budget`, `record_usage` | concurrent upserts; the turn of a month | overshoot bounded by the requests in flight |
| sessions and tenancy (`database.py`, `tenancy.py`, `dependencies.py`) | a pool of connections, `app.model_id` per transaction, a ContextVar | `get_session`, `after_begin`, `bind_tenant`, `tenant_scope` | commits in mid-request; pooled connections; a second session in a stream | every statement runs under its own model's tenant |
| rate limiter (`services/rate_limit.py`) | times per caller | `is_allowed` | eviction, window edges | at most `max_requests` in any window |
| client cache (`services/client_cache.py`) | clients per custom key | `get_*` | expiry and a full cache | a fresh client is not evicted before an expired one |
| models API, CORS (`api/models.py`, `middleware/cors.py`) | `rag_models`, the map of origins | create, PATCH, theme, delete, `sync_origins` | a map rebuilt from a read that may be stale; a check then a change; edits that decide from a copy of the row | the map follows the table; the last edit of a column stands; locked fields do not change under content |
| prompt history (`api/admin.py`) | `system_prompt_history` | accept, roll back, and a PATCH of the prompt | entries ordered by the start of transactions | the newest entry is the prompt in force |
| API keys (`api/api_keys.py`, `dependencies.py`) | `model_api_keys` | create, validate, revoke | a slow comparison between reading a key and writing to it | a revoked key stays revoked |
| users (`services/users.py`) | `users` | upsert in mid-request | it commits the request's transaction | the tenant is bound again |
| migrations (`migrations/versions`) | all tables | upgrade, downgrade | rows found again by what is not a key | no row lost, no two sessions mixed |
| object storage, page parsing, extraction, embedding | none of their own | calls to other services, pure conversions | failures | outcomes of the steps that call them |

How they interact: a request queues a source and a job in one commit; a worker claims
the job, its handler fetches or reads the text and calls `ingest_content`, which
chunks, embeds and replaces rows under an advisory lock; a crawl job queues more jobs.
A chat request binds its model's tenant, checks the budget, retrieves, generates, and
logs usage and message in one transaction. Every statement on `content_chunks` is
filtered by row-level security on the connection's `app.model_id`.

## Modules

| module | models | extends |
| --- | --- | --- |
| `JobLifecycle` | the abstract promise of the job table: bounded tries, final outcomes | |
| `JobQueue` | `worker.py` without its handlers: claims, attempts, staleness, recovery, drain, crash | |
| `AtomicIngest` | the abstract promise of a source: each PUT or file job takes effect in one step | |
| `IngestTxn` | the transactions on one source, statement by statement; implements `AtomicIngest` where nothing is deleted | |
| `Pipeline` | handlers, sources and uploads on top of the queue | `JobQueue` |
| `Crawl` | `crawl_site` | |
| `SiteCrawl` | an attempt of a crawl job driven item by item by its crawler | `Pipeline`, `Crawl` |
| `ChatLog` | budget check, generation, `_log_message`, `delete_conversation` | |
| `Tenancy` | sessions, pool, tenant of a transaction | |
| `Limits` | rate limiter and client cache | |
| `Chunker` | `chunk_text`, one action per iteration of its loops | |
| `Retrieval` | `retrieve_chunks` against ingests | |
| `Search` | a text chunked, stored and searched | `Chunker`, `Retrieval` |
| `Registry` | edits of `rag_models`, the history of prompts, the map of CORS origins | |
| `ModelKeys` | API keys: creation, requests that carry one, revocation | |
| `Dialogue` | the turns of a session: history, status, message rows, the console's numbers | |
| `Backfill` | the migration of logs to conversations and its downgrade | |
| `MC...` | instances for TLC; `MCApi` joins `ChatLog`, `Tenancy` and `Limits`, `MCContent` joins `Search`, `IngestTxn` and the four modules above | the module checked |
| `...Proofs` | theorems: `PipelineProofs` also about `JobQueue`, `ApiProofs` about `Tenancy` and `Limits`, `ChatLogProofs` also about `Backfill`, `RegistryProofs` also about `ModelKeys`, `CrawlProofs` about `Crawl` and `SiteCrawl`, `AnswerProofs` about `Retrieval` and `Dialogue` | the modules proved about |

Correspondence of state and actions:

- **JobQueue.** `status`, `attempts`, `claimed` are the columns; `pc[j][n]` is the task of
  the n-th claim of job j, which holds its own copy of `attempts` (the row is expunged),
  so `MarkFailed` decides from `n`. `SelectForUpdate` and `CommitClaim` are the two halves
  of `claim_jobs`, with `locked` the rows in between. `GoStale` is the passing of the
  cutoff of `recover_stale_jobs`; with `Overrun` it may pass while the attempt still runs.
- **IngestTxn.** One row of `ingestion_sources`, its chunks as batches, the advisory lock,
  and for each process the statement it stands before. A `DELETE` takes two steps: it
  finds the rows (`target`) and waits for those another open transaction has deleted
  (`doomed`). `Existing` is SQLAlchemy's identity map: a file job that loaded the row
  before the lock keeps its attributes. `handle_file_job` reads the model (`LoadModel`,
  `worker.py:184`) and the row (`StartFileJob`, `:188`) in two statements, between which
  settings and row may change. A source's chunks are locked as whole batches: two deletes
  that lock rows one by one in opposite orders, which PostgreSQL would break up as a
  deadlock, are outside the model.
- **AtomicIngest.** `row` and `chunks` are the committed row, without its id and count, and
  the hashes of the committed chunks; `known[p]` is the row a file job has read, under the
  settings it had loaded before (`Load`). All that
  `IngestTxn` does between a start and an end is `open` here, and its commit is `Finish`,
  which decides anew: a PUT from the row as it is at that moment, a file job from `known`.
- **Pipeline.** What lies between two commits of a handler is a step; an ingest is one
  step. `state`, `content`, `raw` are of the source row, `objects` of the bucket,
  `step[j][n]` says how far an attempt has come. Every request and handler is put together
  from `JobQueue`'s own actions, so that the pipeline is a queue by construction.
- **SiteCrawl.** The crawler runs in one attempt of one crawl job; other attempts, and other
  crawls of the root, go on as in `Pipeline`, which lets any page come next.
- **Crawl.** `visited`, `queue` and `batch` are the generator's variables; pages are
  yielded one at a time, with their outcome and their links chosen then. A batch is what
  `Fits` among the first entries of the queue, in their order (`Ascending`).
- **ChatLog.** A turn's `pc` runs from the budget check to the commit; row locks are read
  off the positions of the transactions that hold them. `total[t]` is the uncommitted upsert.
  `usage[m] = 0` is a month without a `token_usage` row, in which `check_budget` lets every
  turn in (`budget.py:121`), with a limit of 0 too: hence `Allowance`.
- **Tenancy.** `tx[u][k]` is the connection of the open transaction of session k of unit
  u (request or job); `setting[c]` is `app.model_id` on connection c, set by `AfterBegin`
  or `BindTenant`, and unset by every commit or rollback.
- **Limits.** No call awaits, so each is one step; time is a bounded clock. The kept times
  ascend, so the list comprehension that drops the expired ones is a suffix (`Recent`).
- **Chunker.** A line is its kind, heading level and extent; a fence marker is of one of two
  sorts, `ticks` and `tildes`. `fenced` is the code's flag, which either sort toggles;
  `Opened` is what a reader of the text takes for a fenced block, which only a marker of its
  own sort closes. Sizes are exact, but white space between words counts as one character. Where an oversized block may be cut and
  where an overlap may begin are left open, which covers every text with those lines.
- **Retrieval.** Rows are (source, position, version of the source). Both searches and
  the reranker may answer with any ranking. What the code sorts, or appends window by
  window, is given by places: the k-th row is the one with k - 1 before it (`Fused`,
  `Expanded`), and of the hits near a row the first one brings it (`Bringer`).
- **Registry.** A row is a function on columns (the theme one on its fields), a body a
  function on those that are sent. An edit loads the row (`copy[e]`), is let in, which may
  commit and so begin a second transaction (`stamp[e]`, the `created_at` of its entry), and
  saves: the ORM writes the columns whose value differs from the copy (`Written`).
  `sync_origins` is `SyncRead` and `SyncAssign`, with an await in between. `saves`, `base`,
  `reads`, `ticket`, `inForce` and `unread` are history variables.
- **ModelKeys.** `LookUp` is the query and bcrypt's answer, `Touch` the update of
  `last_used_at` and its commit; a revocation loads the row and writes `is_active` only if
  it was true.
- **Dialogue.** `began[t]` is `now()` of the transaction a turn is logged in: a plain turn's
  began before its history was loaded, a streamed one's after the stream. `heard[t]` is
  what the client had received when it asked. `Chronological` is the ORDER BY `created_at`.
  `Sums` adds the entries of `daily_stats` up to a day. It takes messages since a cutoff, so
  that its last sum and the messages from before it are compared with `model_stats`, for
  every cutoff.
- **Backfill.** One action for each statement of the migration, in one transaction; it runs
  alone. An id of a conversation is the set of logs it was made for.

## Runs

| run | shows |
| --- | --- |
| `jobqueue_timely` | Two jobs, two workers, two stops. While attempts end before the stale cutoff: at most one attempt that may still write a job's row, and `JobQueue` implements `JobLifecycle`, so outcomes are final. |
| `jobqueue_stranded` | Violation of `EveryJobEnds`, see findings. |
| `ingest_erase` | Two PUTs of one text and a blank file job against a delete and a purge: a successful PUT took effect; a row without its chunks is explained by a delete that had looked up an earlier row; no one waits for ever. |
| `ingest_orphan` | Violation of `NoOrphanChunks`, see findings. |
| `ingest_settings` | Violation of `SettingsLocked`, see findings. |
| `pipeline_overrun` | Attempts that outlive the cutoff, two workers, two tries, a crash; two parts, one at a time (`part`). *queue*: two jobs; outcomes are earned, and every job comes to rest. *upload*: one upload against PUTs of its source; the object outlives its ingest, the source is never busy with no job behind it, and it is shown as failed only if it had no text or a job of it used up its attempts. |
| `pipeline_crawl` | Two parts, one at a time. *site*: `crawl_site` over every link graph of five URLs; and a crawl job with its page jobs and PUTs, also of a root that is excluded: no page twice, true depths, none missed. *sources*: a file and a page, queued, reingested, crawled, also twice, with the job the crawl queues, deleted and PUT, with a crash. In both, busy sources are attended, and no source is complete that was never ingested, but the root of two crawls. |
| `api` | The four parts of the API process that share no state, one at a time (`part`): chats, sessions, the limiter, the cache. |
| `chat_resume` | Violation of `AnsweredIsLogged`, see findings. |
| `chunker_fences` | Violation of `CommentsOpenNoSection`, see findings. |
| `content` | Six parts, one at a time. *search*: every text of up to four lines, chunked; one text's chunks searched with every ranking while ingests replace them. *source*: a PUT, two file jobs and a PATCH of the chunking settings, aborted anywhere, which `IngestsAtomic` maps to `AtomicIngest`. *models*: up to three edits at once, of prompts, themes, origins, and models that come and go, with restarts. *keys*: three requests with keys, two revocations. *session*: three turns, one streamed, and a deletion. *migration*: every table of three logs, upgraded and downgraded. |
| `registry_origins` | Violation of `OriginsCurrent`, see findings. |

Every property of a passing run has a mutant of a modelled definition, kept beside it in
the module (`X_SomeBug` before `X`), which makes that property fail in that run.

### Bounds, and why they are enough

- *Queue*: two jobs and two workers show every race for a row; two attempts are the first
  number with a retry and a last attempt; stops are bounded by `MaxStops` (two crashes let
  a job lose both attempts). The proofs cover any number of each but liveness.
- *IngestTxn*: one source, since the lock and the unique key are per source. One text and
  a blank one, under two settings, distinguish unchanged, changed and empty; a PUT and two
  jobs, one of them blank, meet in every lock conflict. The proofs of `SourceDescribesChunks`,
  `ReplacedAtomically` and `IngestsAtomic` cover any number of each and any texts.
- *Pipeline*: overruns are checked for one upload with two tries; without overruns, up to
  three jobs of one page, or a file's one and PUTs of a page, with one job at a time, and
  without a crash or a deletion while there are two crawls (`Mixed`: a file and a crawl
  share no row, and their product is out of reach). The driven crawl and the jobs it queues
  run at once, without a crash (`Driven`). `BusyIsAttended`, `FailedHasCause`,
  `CompleteWasIngested` and `ObjectKeptUntilIngested` are proved for any jobs, workers,
  tries and overruns.
- *Crawl*: a site of five URLs, one of them excluded, crawled without a job (a job's sites
  have two pages, or an excluded root); up to three links a page, one refused link,
  depth two, four pages, batches of two: failures make a batch smaller than its room, a
  link is met twice, and a page below the depth limit is dropped at it. Batches of more
  than two depths need at least six URLs and are not reached.
- *ChatLog*: three turns of one session (two first messages and a later one) and one of
  another, two in flight, a limit of two in one month and of zero in the other.
- *Tenancy*: two streamed requests of two models and a request without one over two
  connections, so that streams can exhaust the pool; a job in a pool of its own.
- *Limits*: a window of three ticks and a clock of five let a request expire and its
  successor not; four keys for three places fill the cache.
- *Search*: four lines give a heading, its text, a nested heading and a change of level,
  with at most one line longer than a chunk. All five properties of
  chunks are proved for texts of any length. A blank line, and fence markers of both sorts,
  are among texts of up to three lines; `chunker_fences` has both sorts among four. Three
  chunks, two versions of the source searched and one of another, radius one; fusion and
  expansion are proved for any of these.
- *Registry*: three models (active, inactive, not yet there) and edits chosen so that each
  scene has the two that can undo each other and a third one; all orders of their steps.
  Two syncs out of order need two edits. The proof covers any edits.
- *ModelKeys*: three requests, two revocations of one key, two keys with one prefix.
- *Dialogue*: the smallest number of turns with one in the middle of the history; limits of
  one and two, patched in between; two values that Claude may give. A day has three
  instants. `FollowUpInformed` is proved for any turns.
- *Backfill*: three logs are a session of two and a log beside it, with every coincidence of
  title, time and model.

Deadlock checking is off everywhere: every instance is finite work, after which the
system rests.

### Fairness

Weak fairness only, and only of steps the code takes by itself: the worker's poll loop and
restart policy (`k8s/ragr-worker/deployment.yaml`), the passing of time, a handler that ends
because each of its calls has a timeout, a transaction whose locks are free, a generation
that answers or fails, a request that has begun, and the pool's timeout. No fairness is
given to requests, clients that leave, crashes, deletes that have not begun, or failures.
`TenancyFairness` treats what a unit may do next as one action (`Progress`), so nothing
forces a query or a commit that the endpoint might not make.

## Proofs

Assumptions are the named `ASSUME`s of the modules, which TLC evaluates in the runs.

| module | theorem | argument |
| --- | --- | --- |
| `PipelineProofs` | `TypeCorrect`, `AttemptsAreCounted`, `OutcomesEarned` | For any jobs, workers and overruns. The invariant adds that the attempts made are exactly `1..attempts[j]`, that a locked row stays claimable until its claim commits, and that no row is locked twice. |
| | `AttemptsExclusive`, `OutcomesFinal`, `QueueKeepsPromise` | Assuming `~Overrun`. The invariant adds that an open attempt is the latest one and its row is running and not stale; then every step of the queue is a step of `JobLifecycle` or a stutter. |
| | `PipelineTyped` | The lemma `PipelineIsQueue`, true by construction, carries the queue's theorems over to `Pipeline`. |
| | `UploadsKept` | For any jobs sharing uploads, crashes and overruns: an attempt that is about to delete an object has ingested it. |
| | `SpinnersAttended` | Each busy source has a job that is open, or that ended without reporting: every step that ends a job settles its source in the same commit or leaves an attempt whose next step will. |
| | `FailuresCaused`, `CompletionsIngested` | A handler's position says what it has done to its source, across overruns and late reports. `RootHandedOver`: a crawl that has queued its root's page (`worker.py:295`) does not find the root crawling again, which only another crawl's request could make it; so its flip (`worker.py:308`) completes no root that was not ingested, unless the root was queued for two crawls (`CrawledTwice`). |
| `IngestTxnProofs` | `TypeCorrect`, `SourceTellsTruth`, `ReplacementsAtomic` | The last two assuming nothing is deleted (`Erasers = {}`): with a delete they are false, see findings and `LossExplained`. Whoever is past the lock holds it, so the row it decided on is still committed when it stores, and what it will delete is all there is. |
| | `IngestsSerialize` | Again with `Erasers = {}`: a delete may take the row an ingest has decided on. `Decided`: what an ingest past its decision goes on to write is still what the row it decided by calls for. That of a file job is its own copy (`Held`), stale as it may be, which `AtomicIngest` grants it, as it does the settings loaded a statement before; that of a PUT is the committed row, read under the lock, whose hash none but a holder changes (`HashStays`): an upload takes no lock, but writes only state and text. While an upload's job is queued the row has a text (`TextQueued`), so the job reads one (`JobsHaveRead`). Every step before a commit is hidden (`WorkHidden`), and the commit is `Finish`. |
| | `PutsTakeEffect`, `LossesExplained` | With any deletes and purges. A PUT holds the lock from its decision to its commit (`LockHeld`), reads nothing before it (`ReadsLate`), and passes the text by only if the row it read is complete with that hash (`RepairsItsText`). Ids grow (`IdsBelow`), so a delete that looked its row up has one no later than the row there is now (`ReadsEarlier`): chunks missing under a later row are the work of a delete that looked up an earlier one. |
| `CrawlProofs` | `FetchesOnce`, `DepthsAreDistances`, `NothingIsMissed` | `CrawlInv`, checked by TLC first: what was yielded, the batch and the queue together list each URL once (`EachOnce`), by depth (`Sorted`), no depth further than one from the next; each is linked from a page one less deep (`Queued`), each link of a page is in the list or excused (`Followed`), at no more than one deeper (`NoShorter`). |
| | `SiteKeepsBoth` | `SiteCrawl` is built from steps of the two modules it joins (`SiteIsCrawl`, `SiteIsPipeline`), so what is proved of them holds of it. |
| `ChatLogProofs` | `TypeCorrect`, `Accounted`, `Overshoot`, `CollisionsExplained` | At most one turn of a month is in its logging transaction, and its `total` is the usage plus one; turns logged plus turns in flight bound the usage. A limit of 0 is allowed, and admits the turns that come before the month's first charge. |
| | `MigrationTrue` | `Migrating`: after each statement, which conversations there are (`AllGrouped`, `AllMade`: one for each id), and that a log without a session is linked to its own conversation or that of a twin (`BareLinked`). It assumes that no stored `session_id` is one `gen_random_uuid()` will make. |
| `ChunkerProofs` | `Fit` | `Packed`: the chunk in the making is at most `ChunkSize` without the headings it begins with, or one block of prose under headings. |
| | `NoOrphans` | Chunks of headings alone are not emitted until the last (`NoneYet`, `OneAtEnd`). |
| | `PathsTrue` | The fence flag is the parity of the fences read (`Parity`), the stack is the headings the whole text puts above the line read (`StackTrue`), and no heading or fence that counts is in the buffer (`BufferPlain`). As long as no block has a marker of the other sort in it, that parity says what `Opened` says (`FlagAgrees`); that `Opened`, a recursive function, has a value for every text is proved from well-foundedness (`Readable`). |
| | `NothingDropped` | One block `Leads` to the next if it continues where that one ended, blank lines aside, or overlaps it. The relation holds within each list and from one list to the next in all three loops (`Parsed`, `Halved`, `Joins`, `Chained`), and the first block begins the text. |
| | `SectionsAreKept` | `OneSection`: prose in the chunk in the making is under the path of its last block, and so is the overlap carried into it, unless a heading was cut. |
| `AnswerProofs` | `FollowUpsInformed` | Dates of turns differ (`Dated`), rows are what turns were logged with (`RowsTrue`), an answer heard is older than the question (`HeardBefore`), histories go forward (`Forward`). A row that is not among the last ones has as many newer ones, none of which had ended before it began (`LeftBehind`). |
| | `NumbersAlwaysAgree` | The numbers of messages up to a day satisfy the recursion that `Sums` chooses a solution of, so there is one; and it has no other, for on the first day two solutions differed they would have differed the day before (`SumsCount`, from well-foundedness instead of induction). The cutoff is arbitrary: a message is in some day's entry or from before it. Each live message has one of the three statuses and a day not after today (`DaysTyped`). |
| | `FusionIsFair` | `Before` is a total order on the rows found, with scores as fractions compared by cross-multiplication, so each has the place its predecessors give (`Places`, `Sorted`); two shares of ranks below 62 beat one (`TwoBeatOne`). |
| | `ContextIsWhole` | Each list holds a row once, and a row of a source that was not replaced is still in the table (`Fresh`); the table has one row for a place (`OnePlace`). The rows brought are sorted by their first bringer, then by position, so between a row and its bringer lie only rows of the same window. |
| `ApiProofs` | `TenancyTyped`, `StatementsScoped`, `PoolStaysClean` | `OwnSetting`: the setting under an open transaction is the tenant of the context that opened it. It is inductive with `Exclusive` (a connection serves one transaction) and `IdleClean` (an idle one has no setting), since `BindTenant` is the only step that changes a tenant with a transaction open, and changes both. |
| | `RatesKept` | What the limiter has forgotten of a caller's grants had expired (`Left`), and grants `MaxRequests` apart are `Window` apart (`Spaced`), so no window holds more. |
| | `FreshClientsSurvive` | `Cached`: the dict lists each cached key once; the oldest entry is fresh only if all are. |
| `RegistryProofs` | `MapExplained` | `LatestTrue`: while nothing has changed the table since the last read, the map of that read, in force or still to be assigned, is the table's; `Numbered` makes reads and assignments comparable. Every save either syncs, or is silent, or leaves what the query reads (`WrittenApart`). |
| | `LastWordsStand`, `HistoriesTell` | An edit's copy differs from the row only in fields saved since it loaded; saves and entries are numbered, so an edit that saw none of a later save overlapped it. `ThemeAssumption` says that a theme's fields are no columns. |
| | `RevocationsStand` | An inactive row never becomes active again, so an owner who found the key inactive need not write. |

`RanScoped` alone, to take one of `ApiProofs` as an example, is not inductive: a state in which an
idle connection still has a tenant satisfies it, and the next request there violates it.

Type correctness of `JobQueue`, `IngestTxn`, `Pipeline`, `ChatLog` and `Tenancy`, and that attempts
are counted, is proved and no longer part of a run; so is `ReplacedAtomically`, which
`IngestsAtomic` implies but for the detail a failed row shows.

Only model-checked: all liveness (`ComesToRest`, `EveryoneEnds`, `TurnsEnd`, `UnitsEnd`), which
is out of the prover's reach. The library's sorting and filtering cannot be expanded by the
provers: `Crawl`, `Limits`, `Retrieval` and `Dialogue` say by places what is sorted and selected.

## Findings

1. **A job whose last attempt is lost is stranded** (`jobqueue_stranded`).
   `recover_stale_jobs` (`worker.py:115`) makes it pending with all attempts used;
   `claim_jobs` (`:50`) asks for `attempts < max_attempts`, so no one takes it again, and
   neither job nor source is ever marked failed.
2. **A delete leaves orphans** (`ingest_orphan`). `delete_source` (`api/sources.py:181`) takes no
   advisory lock; its `DELETE` waits for an ingest in progress, does not see the chunks that
   ingest commits, and removes the source row. The chunks stay retrievable.
3. **A deleted session cannot be resumed** (`chat_resume`). The lookup (`api/chat.py:118`)
   skips deleted conversations, the unique constraint does not; the next message is
   answered, paid for, and lost with its charge.
4. **Activating a model does not publish its origins** (`registry_origins`). The map is that
   of active models (`cors.py:70`) and, by its comment (`:13`), "updated at startup and on
   model CRUD"; `update_model` rebuilds it only if `allowed_origins` is among the fields
   sent (`api/models.py:188`). After a PATCH of `is_active` alone browsers get the old
   origins until some other sync or a restart.
5. **Locked settings can change under chunks** (`ingest_settings`). `update_model` refuses a
   change of chunking or embedding settings only if the model has a source row
   (`api/models.py:151`); a first PUT in progress has none yet, and commits chunks of the old
   settings. The comment (`:29-32`) says they are locked "Once any content has been ingested
   (or is in flight)". The hash includes the settings, so the next ingest repairs it.
6. **A comment in a fenced block opens a section** (`chunker_fences`). One flag is toggled by
   either sort of marker (`chunker.py:72`), so a line of tildes inside a block of backticks
   ends it for the parser. The comment (`:69-70`) says "Inside a fenced code block nothing
   is markup".

## Behaviours met while modelling

These the models have or the reading showed, but no document states the contrary plainly
enough to call them findings:

- The late report of an overrun attempt overwrites the outcome of its successor
  (`worker.py:64`); hence final outcomes only without overruns.
- Job and source are marked failed in two transactions (`worker.py:362`); a crash between
  leaves the source to the next request. A crawl's end sets its root to pending
  (`worker.py:295`) though `ingest.py:128-130` may have completed it.
- The object of an upload is deleted (`worker.py:239`) before the job is marked
  complete; a retry then finds no object, and copes only because the text is stored.
- A file job decides whether content changed on a row it read before waiting for the
  lock (`worker.py:188`).
- Delete, purge and PUT of one source may leave a complete row without chunks
  (`api/sources.py:187`); once chunks are orphaned, the next ingest adds a second set
  (`ingest.py:239`); the same blank page twice turns a failed row complete (`ingest.py:228`).
- A file job may ingest a newer text under older settings: they are read in two statements
  (`worker.py:184`, `:188`), between which a PATCH and an upload may commit.
- A second crawl of a root sets it back to crawling (`api/sources.py`, `queue_crawl`), and
  the end of the first then shows it as complete (`worker.py:308`), ingested or not.
- The budget may be exceeded by all requests in flight (`budget.py:126`, `:117`), and a
  limit of 0, which the schema allows, does not stop a month's first turns (`:121`); the
  two generators check it and record nothing (`api/admin.py:369-405`, `456-509`).
- A message may be added to a conversation deleted meanwhile (`api/chat.py:128`).
- A streamed answer holds its request's connection (FastAPI, as pinned in `uv.lock`, closes
  dependencies with `yield` after the response) and takes a second one to log
  (`api/chat.py:242`). With the pool full of streams all wait for the pool's timeout, and
  answered turns go unlogged. `UnitsEnd` says only that they end.
- A heading longer than a chunk is cut into prose, so the sections around it may be
  packed together (`chunker.py:131`; `SectionsKept` excepts it); a text's last headings
  may make a chunk of headings only (`tests/unit/services/test_chunker.py:251`).
- A single candidate, or a failed reranking, is not held to the threshold
  (`retrieval.py:147-158`); neighbours may come from a newer ingest than their hit
  (`retrieval.py:193`; `ContextWhole` excepts sources replaced meanwhile).
- Found by both searches is not always better than found by one: with 62 candidates or
  more (`rerank_candidates` may be 500, four times `top_k` 400; `schemas/models.py:93`, `:97`) a
  row last in both is behind the first of either. `RanksRespected` says it below that.
- Two syncs of the map may be assigned out of order, and a sync may fail after its edit
  was committed (`cors.py:81`, `api/models.py:186`); `OriginsExplained` excepts both.
- The slug of a deleted model can never be used again: `create_model` looks for live models
  only (`api/models.py:55`), the unique key covers all, and the insert is a 500 (`Collide`).
- `update_theme` merges into the copy it loaded (`api/models.py:218`): of two that overlap
  one is lost; so may the newest entry of the prompt history differ from the prompt in
  force. `LastWordStands` and `HistoryTells` except edits that overlap. The first prompt of
  a new model is in no entry (`api/models.py:63-88`).
- A stream that loses its final message is logged as answered with no tokens
  (`generation.py:267`), and so charged nothing; `ChatLog` charges every logged turn one.
- With `history_turns` 0 a follow-up's search has no referent, though
  `_load_session_history` returns the last question for that (`api/chat.py:59-62`).
- A turn logged while its conversation is being deleted is counted in the statistics and
  shown in no conversation.
- The migration joins logs without a session that were asked the same question in the same
  instant, though its comment says each gets a conversation of its own (`o6p7q8r9s0t1:85`).
- The sources that chunk ids in old messages refer to are not found after a re-ingest
  (`api/admin.py`, `top_sources`).

## What is not modelled, and why

- Conversions and parsing (HTML, documents, Wikipedia, prompts, citations), URL and address
  validation, encryption and hashing, Clerk's tokens: pure, or another service's; their
  success or failure is an outcome.
- SQL of the two searches, listings and paging, `top_sources`, schemas' validation.
- Statements of other models' rows: a model is one instance; isolation is `Tenancy`'s.
- The restricted role and the policies themselves: row-level security filters by the
  setting, as the migrations say.
- Migrations other than the one to conversations: single statements that add, rename or
  rewrite columns, run while the service is down.
- Presigning of uploads and the client of the object storage: an object is there or not.
- Start-up but for the map of origins, configuration, logging, telemetry, manifests.

## Plan

Done, in this order: the queue and its promise; transactions on a source; handlers and
sources on the queue; the chat log; chunking and retrieval; the crawler and its
composition with the pipeline; tenancy; limits; models, origins and prompts; API keys; the
dialogue of a session; the migration to conversations.

Proved: every safety property of the passing runs, and the refinements `JobQueue` of
`JobLifecycle` and `IngestTxn` without deletes of `AtomicIngest`.

Next, in this order:

1. A map from `Pipeline`, whose ingest is one step already, to `AtomicIngest`: it needs the
   text of a source, of which `Pipeline` keeps only whether there is one.
2. The content lock of `Registry` against requests that queue a source, and the reingest
   of a model whose chunking settings have changed.
