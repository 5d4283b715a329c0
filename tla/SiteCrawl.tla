------------------------------- MODULE SiteCrawl -------------------------------
(***************************************************************************)
(* An attempt of a crawl job and its crawler: what handle_crawl_job does   *)
(* to sources and jobs in Pipeline is driven, item by item, by what        *)
(* crawl_site yields.  Other attempts and other crawls of the root go on   *)
(* as in Pipeline.                                                         *)
(***************************************************************************)
EXTENDS Pipeline, Crawl

CONSTANTS
    Crawler,   \* the crawl job
    Attempt,   \* which of its attempts
    Ingested   \* bound: the sites whose crawl a job runs, the others are crawled only

ASSUME SiteCrawlAssumption ==
    /\ Crawler \in Jobs /\ Kind[Crawler] = "crawl" /\ Target[Crawler] = Root
    /\ Attempt \in Tries
    /\ Ingested \subseteq Sites

scvars == <<pvars, crvars>>

SiteInit == PipeInit /\ CrawlInit

\* The crawl's steps between two items; it runs inside the handler.
Search == /\ site \in Ingested => pc[Crawler][Attempt] = "handling"
          /\ NextBatch \/ EndOfCrawl
          /\ UNCHANGED pvars

\* Without a job the items have no effect.
Alone == /\ site \notin Ingested
         /\ YieldPage \/ YieldFailed \/ YieldSkipped
         /\ UNCHANGED pvars

\* The next item, as handle_crawl_job takes it.
Consume == LET s == Head(batch).url IN
    /\ site \in Ingested /\ batch # <<>>
    /\ \/ YieldPage /\ \E k \in Jobs : Target[k] = s /\ CrawledPage(Crawler, Attempt, k)
       \/ YieldFailed /\ FailedPage(Crawler, Attempt, s)
       \/ YieldSkipped /\ given = <<>> /\ NoRootPage(Crawler, Attempt)
       \/ YieldSkipped /\ given # <<>> /\ At(Crawler, Attempt, {"crawl"}, "fetched") /\ UNCHANGED pvars

\* Not even the root, since it is excluded.
NothingCame == /\ ended /\ given = <<>>
               /\ NoRootPage(Crawler, Attempt)
               /\ UNCHANGED crvars

\* Everything else goes on as in Pipeline; the handler finishes when the crawl has ended.
Elsewhere == /\ site \in Ingested
             /\ PipeNext
             /\ seen'[Crawler][Attempt] = seen[Crawler][Attempt]
             /\ LET from == step[Crawler][Attempt]  to == step'[Crawler][Attempt]
                IN  from # to => to = "unheard" \/ (to = "done" /\ ended)
             /\ UNCHANGED crvars

SiteNext == Search \/ Alone \/ Consume \/ NothingCame \/ Elsewhere

SiteSpec == SiteInit /\ [][SiteNext]_scvars
===============================================================================
