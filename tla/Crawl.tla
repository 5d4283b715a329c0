--------------------------------- MODULE Crawl ---------------------------------
(***************************************************************************)
(* crawl_site: a breadth-first search over the pages of one domain, in     *)
(* batches that are fetched at once, and yielded one by one.  Fetching,    *)
(* parsing and the validation of a link are outcomes.                      *)
(***************************************************************************)
EXTENDS Integers, SequencesExt, FiniteSetsExt, TLC

CONSTANTS
    Urls,       \* normalised URLs of the domain, under the prefix
    Root,
    Sites,      \* sets of URLs: what pages may link to
    Excluded,   \* Excluded[s]: the URLs of site s that an exclude pattern matches
    MaxPages,
    MaxDepth,
    BatchSize,  \* fetch_batch_size
    MaxLinks,   \* bound: links of a page
    MaxRefused  \* bound: URLs a link to which fails validation

ASSUME CrawlAssumption ==
    /\ Excluded \in [Sites -> SUBSET Urls]
    /\ Sites \subseteq SUBSET Urls /\ \A s \in Sites : Root \in s
    /\ MaxPages \in Nat \ {0} /\ BatchSize \in Nat \ {0}
    /\ {MaxDepth, MaxLinks, MaxRefused} \subseteq Nat

VARIABLES
    site,     \* the URLs of the site
    links,    \* history: the links of each page yielded
    visited,  \* the URLs ever put into the queue
    queue,    \* those waiting, with their depths
    batch,    \* those being fetched, or fetched and not yet yielded
    given,    \* what has been yielded, in order
    refused,  \* history: the links that failed validation
    ended     \* has the generator returned?

crvars == <<site, links, visited, queue, batch, given, refused, ended>>

CrawlInit ==
    /\ site \in Sites
    /\ visited = {Root}
    /\ queue = <<[url |-> Root, depth |-> 0]>>
    /\ batch = <<>> /\ given = <<>> /\ links = <<>>
    /\ refused = {} /\ ended = FALSE

\* page_count.
Pages == Cardinality({k \in DOMAIN given : given[k].outcome = "page"})

\* How many URLs the next batch may hold.
Room == Min({BatchSize, MaxPages - Pages})

\* Those of the first n entries of the queue that no pattern excludes.
Fits(n) == {k \in 1 .. n : queue[k].url \notin Excluded[site]}

\* Mutant: excluded URLs take up room, and a batch of nothing else ends the crawl.
Taken_Excluded(n) == n = Min({Room, Len(queue)})

\* The batch comes from the first n entries of the queue.
Taken(n) == /\ Cardinality(Fits(n - 1)) < Room
            /\ Cardinality(Fits(n)) = Room \/ n = Len(queue)

\* The elements of S, a set of positions, in ascending order.
Ascending(S) == {pick \in Bijection(1 .. Cardinality(S), S) :
                    \A i, j \in DOMAIN pick : i < j => pick[i] < pick[j]}

Fetching == ~ended /\ batch = <<>> /\ queue # <<>> /\ Pages < MaxPages

NextBatch ==
    /\ Fetching
    /\ \E n \in DOMAIN queue :
          /\ Taken(n)
          /\ \E pick \in Ascending(Fits(n)) : batch' = [i \in DOMAIN pick |-> queue[pick[i]]]
          /\ queue' = SubSeq(queue, n + 1, Len(queue))
          /\ ended' = (batch' = <<>>)
    /\ UNCHANGED <<site, links, visited, given, refused>>

Yield(outcome) ==
    /\ batch # <<>>
    /\ given' = Append(given, [url |-> Head(batch).url, depth |-> Head(batch).depth,
                               outcome |-> outcome])
    /\ batch' = Tail(batch)
    /\ UNCHANGED <<site, ended>>

\* Mutant: a URL counts as visited once it is fetched.
Unseen_Fetched(found) == found \ {given[k].url : k \in DOMAIN given}

Unseen(found) == found \ visited

\* Mutant: a link met later on a page counts as further away.
Follow_Chained(found) ==
    IF Head(batch).depth < MaxDepth
    THEN /\ visited' = visited \cup found
         /\ queue' = queue \o [k \in DOMAIN SetToSeq(Unseen(found)) |->
                [url |-> SetToSeq(Unseen(found))[k], depth |-> Min({MaxDepth, Head(batch).depth + k})]]
         /\ UNCHANGED refused
    ELSE UNCHANGED <<visited, queue, refused>>

\* The new links, in whatever order they stand on the page, are validated and queued unless
\* the page is too deep.  One that fails validation may be met again.
Follow(found) ==
    IF Head(batch).depth < MaxDepth
    THEN \E new \in SetToAllKPermutations(Unseen(found)) :
            /\ visited' = visited \cup ToSet(new)
            /\ refused' = refused \cup (Unseen(found) \ ToSet(new))
            /\ Cardinality(refused') <= MaxRefused
            /\ queue' = queue \o [k \in DOMAIN new |->
                                  [url |-> new[k], depth |-> Head(batch).depth + 1]]
    ELSE UNCHANGED <<visited, queue, refused>>

YieldPage ==
    /\ Yield("page")
    /\ \E found \in SUBSET (site \ {Head(batch).url}) :
          /\ IsFiniteSet(found) /\ Cardinality(found) <= MaxLinks
          /\ links' = [u \in DOMAIN links \cup {Head(batch).url} |->
                          IF u = Head(batch).url THEN found ELSE links[u]]
          /\ Follow(found)

\* The fetch failed.
YieldFailed == Yield("failed") /\ UNCHANGED <<links, visited, queue, refused>>

\* Not HTML, too large, too little text: its links are not followed.
YieldSkipped == Yield("skipped") /\ UNCHANGED <<links, visited, queue, refused>>

EndOfCrawl == /\ ~ended /\ batch = <<>>
              /\ queue = <<>> \/ Pages >= MaxPages
              /\ ended' = TRUE
              /\ UNCHANGED <<site, links, visited, queue, batch, given, refused>>

CrawlNext == NextBatch \/ YieldPage \/ YieldFailed \/ YieldSkipped \/ EndOfCrawl

CrawlSpec == CrawlInit /\ [][CrawlNext]_crvars
-------------------------------------------------------------------------------
(* Properties *)

Known == [k \in DOMAIN given |-> [url |-> given[k].url, depth |-> given[k].depth]]
             \o batch \o queue

\* No URL is fetched twice, however often it is linked to while it waits or is fetched,
\* and no more are fetched than max_pages leaves room for, even if all of them are pages.
FetchedOnce ==
    /\ IsInjective([k \in DOMAIN Known |-> Known[k].url])
    /\ Pages + Len(batch) <= MaxPages

\* A URL's depth, which decides whether its links are followed, is its distance from the
\* root over the pages yielded: batches are fetched at once, but no shorter way to a URL
\* is found after a longer one, unless the link was refused.
DepthIsDistance ==
    \A k \in DOMAIN Known :
        LET e == Known[k]
            Links(p) == p.outcome = "page" /\ e.url \in links[p.url]
        IN  /\ e.depth <= MaxDepth
            /\ e.url = Root \/ \E i \in DOMAIN given :
                                  i < k /\ Links(given[i]) /\ e.depth = given[i].depth + 1
            /\ \A i \in DOMAIN given :
                  Links(given[i]) /\ e.url \notin refused => e.depth <= given[i].depth + 1

\* A crawl ends with fewer than max_pages only when every link of every page less than
\* max_depth deep was tried, but for the refused and the excluded ones.
NothingMissed ==
    ended /\ Pages < MaxPages =>
        \A p \in ToSet(given) : p.outcome = "page" /\ p.depth < MaxDepth =>
            links[p.url] \subseteq refused \cup Excluded[site] \cup {g.url : g \in ToSet(given)}

===============================================================================
