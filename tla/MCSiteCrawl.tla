------------------------------ MODULE MCSiteCrawl ------------------------------
(* A small instance of SiteCrawl for TLC, and of the sources around a crawl. *)
EXTENDS SiteCrawl, TLC

CONSTANTS w1, home, page, doc, deep, far, off

VARIABLE part

OneWorker == {w1}
MCSources == {home, page, doc}
MCWeb == {home, page}
MCDeletable == {home, doc}
Nothing == {}

\* A crawl that queues its root and a page, and another crawl of the root; a file uploaded
\* through the API or re-chunked; a page fetched, or fetched again.
MCJobs == 1 .. 6
MCKind == <<"crawl", "file", "file", "crawl", "file", "url">>
MCTarget == <<home, home, page, home, doc, home>>
MCPages == {2, 3}

NoKeys == [j \in {} |-> page]

MCUrls == {home, page, deep, far, off}

\* Two sites for the job, of two pages and of an excluded root, and one to crawl alone.
TwoPages == {home, page}
Barred == {home, off}
MCSites == {TwoPages, Barred, MCUrls}
MCExcluded == TwoPages :> {} @@ Barred :> {home} @@ MCUrls :> {off}
MCIngested == {TwoPages, Barred}

\* The crawl that its crawler drives, or the sources with crawls of one page among them.
PartsInit == SiteInit /\ part \in {"site", "sources"} /\ (part = "sources" => site = Barred)

Queued == {j \in Jobs : status[j] # "absent"}

\* Bounds of the driven crawl: nothing is deleted and nothing crashes, and it is the only
\* job but for those it queues.
Driven == stops = 0 /\ Queued \subseteq {1, 2, 3} /\ state[doc] = "none"
Kept == \A s \in Sources : state[s] # "none" => state'[s] # "none"

\* Bounds of the other: one job at a time, crawls are of one page, the file is there, or on
\* its way, only as long as nobody fetches or crawls, and while there are two crawls nothing
\* else is fetched or deleted and nothing crashes.
Mixed == /\ Cardinality({j \in Jobs : status[j] = "running"}) <= 1
         /\ 3 \notin Queued /\ state[page] = "none"
         /\ state[doc] # "none" \/ 5 \in Queued => Queued \subseteq {5}
         /\ 4 \in Queued => 6 \notin Queued /\ stops = 0

PartsNext == \/ part = "site" /\ SiteNext /\ Driven' /\ Kept /\ UNCHANGED part
             \/ part = "sources" /\ PipeNext /\ Mixed' /\ (4 \in Queued => Kept)
                /\ UNCHANGED <<crvars, part>>

PartsSpec == PartsInit /\ [][PartsNext]_<<scvars, part>>
===============================================================================
