------------------------------ MODULE CrawlProofs ------------------------------
(***************************************************************************)
(* What crawl_site promises, for every link graph, and what carries over   *)
(* from the pipeline and from the crawl to a crawl job with its crawler.   *)
(***************************************************************************)
EXTENDS SiteCrawl, PipelineProofs

Entry == [url : Urls, depth : Nat]
Item == [url : Urls, depth : Nat, outcome : {"page", "failed", "skipped"}]

CrawlTypeOK ==
    /\ site \in Sites
    /\ visited \subseteq Urls
    /\ given \in Seq(Item) /\ batch \in Seq(Entry) /\ queue \in Seq(Entry)
    /\ ended \in BOOLEAN

LinksTo(item, u) == item.outcome = "page" /\ u \in links[item.url]

\* What the crawler holds or has held has its URL among the visited ones, no two of them have
\* the same, and only what an exclude pattern matches was dropped.
EachOnce ==
    /\ Root \in visited
    /\ \A k \in DOMAIN Known : Known[k].url \in visited
    /\ \A i, k \in DOMAIN Known : Known[i].url = Known[k].url => i = k
    /\ \A u \in visited : u \in Excluded[site] \/ \E k \in DOMAIN Known : Known[k].url = u

\* Breadth first: depths never decrease along what was yielded, is fetched and waits.
Sorted == \A i, k \in DOMAIN Known : i <= k => Known[i].depth <= Known[k].depth

\* An entry has been put into the queue by a page yielded before it, one step above it.
Queued ==
    \A k \in DOMAIN Known :
        /\ Known[k].depth <= MaxDepth
        /\ Known[k].url = Root => Known[k].depth = 0
        /\ Known[k].url # Root =>
              \E i \in DOMAIN given : /\ i < k /\ LinksTo(given[i], Known[k].url)
                                      /\ Known[k].depth = given[i].depth + 1

NoShorter ==
    \A k \in DOMAIN Known : \A i \in DOMAIN given :
        LinksTo(given[i], Known[k].url) /\ Known[k].url \notin refused
            => Known[k].depth <= given[i].depth + 1

\* links are those of the pages yielded, and those of a page less than max_depth deep were
\* all tried.
Followed ==
    /\ DOMAIN links = {given[i].url : i \in {i \in DOMAIN given : given[i].outcome = "page"}}
    /\ \A i \in DOMAIN given :
          given[i].outcome = "page" /\ given[i].depth < MaxDepth
              => links[given[i].url] \subseteq visited \cup refused

\* A batch never asks for more than max_pages leaves, and the crawl ends with nothing left
\* to fetch or no page left to take.
Limited ==
    /\ Pages + Len(batch) <= MaxPages
    /\ ended => batch = <<>> /\ (queue = <<>> \/ Pages >= MaxPages)

CrawlInv ==
    /\ CrawlTypeOK /\ EachOnce /\ Sorted /\ Queued /\ NoShorter /\ Followed /\ Limited
-------------------------------------------------------------------------------
(* What the sequences hold *)

\* Concatenation, element by element.
LEMMA Concatenated ==
    ASSUME NEW S, NEW s \in Seq(S), NEW t \in Seq(S)
    PROVE  /\ s \o t \in Seq(S) /\ Len(s \o t) = Len(s) + Len(t)
           /\ \A k \in 1 .. Len(s) : (s \o t)[k] = s[k]
           /\ \A k \in 1 .. Len(t) : (s \o t)[Len(s) + k] = t[k]
OBVIOUS

\* Append and Tail, element by element.
LEMMA Shifted ==
    ASSUME NEW S, NEW s \in Seq(S)
    PROVE  /\ \A e \in S : /\ Append(s, e) \in Seq(S) /\ Len(Append(s, e)) = Len(s) + 1
                           /\ Append(s, e)[Len(s) + 1] = e
                           /\ \A k \in DOMAIN s : Append(s, e)[k] = s[k]
           /\ s # <<>> => /\ Len(s) > 0 /\ Head(s) = s[1] /\ Head(s) \in S
                          /\ Tail(s) \in Seq(S) /\ Len(Tail(s)) = Len(s) - 1
                          /\ \A k \in 1 .. (Len(s) - 1) : Tail(s)[k] = s[k + 1]
           /\ Len(s) \in Nat /\ DOMAIN s = 1 .. Len(s)
           /\ \A k \in DOMAIN s : s[k] \in S
           /\ s = <<>> <=> Len(s) = 0
OBVIOUS

Held(g, b, q) == [k \in DOMAIN g |-> [url |-> g[k].url, depth |-> g[k].depth]] \o b \o q

\* K is made of g, then b, then q.
Shaped(K, g, b, q) ==
    /\ K \in Seq(Entry)
    /\ Len(g) \in Nat /\ Len(b) \in Nat /\ Len(q) \in Nat
    /\ Len(K) = Len(g) + Len(b) + Len(q)
    /\ \A k \in 1 .. Len(K) :
          /\ k <= Len(g) => K[k].url = g[k].url /\ K[k].depth = g[k].depth
          /\ k > Len(g) /\ k <= Len(g) + Len(b) => K[k] = b[k - Len(g)]
          /\ k > Len(g) + Len(b) => K[k] = q[k - (Len(g) + Len(b))]

\* Known is what was yielded, then the batch, then the queue.
LEMMA KnownShaped ==
    ASSUME NEW g \in Seq(Item), NEW b \in Seq(Entry), NEW q \in Seq(Entry)
    PROVE  Shaped(Held(g, b, q), g, b, q)
<1> DEFINE K == Held(g, b, q)
<1> DEFINE e(k) == [url |-> g[k].url, depth |-> g[k].depth]
           h == [k \in DOMAIN g |-> e(k)]
<1>0. DOMAIN g = 1 .. Len(g) /\ Len(g) \in Nat /\ \A k \in DOMAIN g : g[k] \in Item
  BY Shifted
<1>00. \A k \in DOMAIN g : e(k) \in Entry /\ e(k).url = g[k].url /\ e(k).depth = g[k].depth
  BY <1>0 DEF Item, Entry
<1> HIDE DEF e
<1>1. h \in Seq(Entry) /\ Len(h) = Len(g)
  BY <1>0, <1>00
<1>2. \A k \in 1 .. Len(g) : h[k].url = g[k].url /\ h[k].depth = g[k].depth
  BY <1>0, <1>00
<1> HIDE DEF h
<1>3. K = (h \o b) \o q
  BY DEF h, e, Held
<1>4. h \o b \in Seq(Entry) /\ Len(h \o b) = Len(g) + Len(b)
  BY <1>1
<1>5. \A k \in 1 .. Len(g) : (h \o b)[k] = h[k]
  BY <1>1
<1> DEFINE t == h \o b
<1> HIDE DEF t
<1>6. t \in Seq(Entry) /\ Len(t) = Len(g) + Len(b) /\ Len(t) \in Nat
  BY <1>4, Shifted DEF t
<1>b. K = t \o q
  BY <1>3 DEF t
<1> HIDE DEF K
<1>7. K \in Seq(Entry) /\ Len(K) = Len(t) + Len(q)
  <2>1. t \o q \in Seq(Entry)
    BY <1>6
  <2>2. Len(t \o q) = Len(t) + Len(q)
    BY <1>6, Concatenated, Zenon
  <2> QED
    BY <1>b, <2>1, <2>2
<1>8. \A k \in 1 .. Len(t) : K[k] = t[k]
  BY <1>b, <1>6
<1>9. Len(b) \in Nat /\ Len(q) \in Nat
  BY Shifted
<1>10. ASSUME NEW k \in 1 .. Len(K), k > Len(t) PROVE K[k] = q[k - Len(t)]
  BY <1>b, <1>6, <1>7, <1>9, <1>10
<1>11. ASSUME NEW k \in 1 .. Len(t), k > Len(g) PROVE t[k] = b[k - Len(g)]
  BY <1>1, <1>6, <1>9, <1>0, <1>11 DEF t
<1>12. \A k \in 1 .. Len(g) : K[k] = h[k]
  BY <1>5, <1>6, <1>8, <1>9, <1>0 DEF t
<1>13. ASSUME NEW k \in 1 .. Len(K), k > Len(g), k <= Len(g) + Len(b)
       PROVE  K[k] = b[k - Len(g)]
  BY <1>6, <1>8, <1>9, <1>11, <1>13, <1>0
<1>14. ASSUME NEW k \in 1 .. Len(K), k <= Len(g)
       PROVE  K[k].url = g[k].url /\ K[k].depth = g[k].depth
  BY <1>2, <1>12, <1>14, <1>0
<1> QED
  BY <1>0, <1>6, <1>7, <1>9, <1>10, <1>13, <1>14 DEF Shaped, K

\* A yield moves the head of the batch to what was yielded, and what it queues comes last.
LEMMA YieldShape ==
    ASSUME CrawlTypeOK, CrawlTypeOK', NEW outcome \in {"page", "failed", "skipped"}, Yield(outcome),
           NEW ext \in Seq(Entry), queue' = queue \o ext
    PROVE  /\ Len(given') = Len(given) + 1
           /\ \A i \in DOMAIN given : given'[i] = given[i]
           /\ given'[Len(given) + 1].url = Head(batch).url
           /\ given'[Len(given) + 1].depth = Head(batch).depth
           /\ given'[Len(given) + 1].outcome = outcome
           /\ Len(given) + 1 \in DOMAIN Known /\ Known[Len(given) + 1] = Head(batch)
           /\ Known \in Seq(Entry) /\ Known' \in Seq(Entry)
           /\ Len(Known') = Len(Known) + Len(ext)
           /\ \A k \in DOMAIN Known : Known'[k] = Known[k]
           /\ \A k \in 1 .. Len(ext) : Known'[Len(Known) + k] = ext[k]
<1> DEFINE item == [url |-> Head(batch).url, depth |-> Head(batch).depth, outcome |-> outcome]
<1>1. /\ given \in Seq(Item) /\ batch \in Seq(Entry) /\ queue \in Seq(Entry)
      /\ given' \in Seq(Item) /\ batch' \in Seq(Entry) /\ queue' \in Seq(Entry)
  BY DEF CrawlTypeOK
<1>c. /\ Known = Held(given, batch, queue)
      /\ Known' = Held(given', batch', queue')
  BY DEF Known, Held
<1>2. batch # <<>> /\ given' = Append(given, item) /\ batch' = Tail(batch)
  BY DEF Yield
<1>3. /\ item.url = Head(batch).url /\ item.depth = Head(batch).depth
      /\ item.outcome = outcome
  OBVIOUS
<1> HIDE DEF item
<1>a. batch[1] \in Entry /\ Head(batch) = batch[1]
  BY <1>1, <1>2, Shifted
<1>b. item \in Item
  BY <1>a DEF Item, Entry, item
<1>4. /\ Len(given') = Len(given) + 1 /\ given'[Len(given) + 1] = item
      /\ \A i \in DOMAIN given : given'[i] = given[i]
  BY <1>1, <1>2, <1>b, Shifted
<1>5. /\ Len(batch) > 0 /\ Len(batch') = Len(batch) - 1 /\ Head(batch) = batch[1]
      /\ \A k \in 1 .. Len(batch') : batch'[k] = batch[k + 1]
  BY <1>1, <1>2, Shifted
<1>6. /\ Len(queue') = Len(queue) + Len(ext)
      /\ \A k \in 1 .. Len(queue) : queue'[k] = queue[k]
      /\ \A k \in 1 .. Len(ext) : queue'[Len(queue) + k] = ext[k]
  BY <1>1, Concatenated
<1> DEFINE g == Len(given)  b == Len(batch)  q == Len(queue)  x == Len(ext)
<1>7. Shaped(Known, given, batch, queue) /\ Shaped(Known', given', batch', queue')
  BY <1>1, <1>c, KnownShaped
<1>8. /\ Known \in Seq(Entry) /\ Len(Known) = g + b + q
      /\ \A k \in 1 .. Len(Known) :
            /\ k <= g => Known[k].url = given[k].url /\ Known[k].depth = given[k].depth
            /\ k > g /\ k <= g + b => Known[k] = batch[k - g]
            /\ k > g + b => Known[k] = queue[k - (g + b)]
  BY <1>7 DEF Shaped
<1>9. g \in Nat /\ b \in Nat /\ b > 0 /\ q \in Nat /\ x \in Nat
  BY <1>1, <1>5, Shifted
<1>10. Len(given') = g + 1 /\ Len(batch') = b - 1 /\ Len(queue') = q + x
  BY <1>4, <1>5, <1>6
<1> HIDE DEF g, b, q, x
<1>11. /\ Known' \in Seq(Entry) /\ Len(Known') = g + b + q + x
       /\ \A k \in 1 .. Len(Known') :
            /\ k <= g + 1 => /\ Known'[k].url = given'[k].url
                             /\ Known'[k].depth = given'[k].depth
            /\ k > g + 1 /\ k <= g + b => Known'[k] = batch'[k - (g + 1)]
            /\ k > g + b => Known'[k] = queue'[k - (g + b)]
  <2>1. g + 1 + (b - 1) = g + b /\ g + b + (q + x) = g + b + q + x
    BY <1>9
  <2> QED
    BY <1>7, <1>10, <2>1 DEF Shaped
<1>12. Len(Known') = Len(Known) + x
  BY <1>8, <1>11
<1>13. DOMAIN Known = 1 .. (g + b + q) /\ DOMAIN Known' = 1 .. (g + b + q + x)
  BY <1>8, <1>11, Shifted
<1>14. \A k \in DOMAIN Known : Known[k] \in Entry /\ Known'[k] \in Entry
  BY <1>8, <1>9, <1>11, <1>13, Shifted
<1>15. \A k \in 1 .. x : Known'[Len(Known) + k] = ext[k]
  <2> SUFFICES ASSUME NEW k \in 1 .. x PROVE Known'[Len(Known) + k] = ext[k]
    OBVIOUS
  <2> DEFINE m == g + b + q + k
  <2>1. m \in 1 .. Len(Known') /\ m > g + b /\ m - (g + b) = q + k /\ Len(Known) + k = m
    BY <1>8, <1>9, <1>11
  <2>2. Known'[m] = queue'[q + k]
    BY <2>1, <1>11
  <2> QED
    BY <2>1, <2>2, <1>6 DEF q, x
<1>16. \A k \in DOMAIN Known : Known'[k] = Known[k]
  <2> SUFFICES ASSUME NEW k \in 1 .. (g + b + q) PROVE Known'[k] = Known[k]
    BY <1>13
  <2>0. k \in 1 .. Len(Known) /\ k \in 1 .. Len(Known') /\ k \in Nat
    BY <1>8, <1>9, <1>11
  <2>1. CASE k <= g
    <3>1. Known[k].url = given[k].url /\ Known[k].depth = given[k].depth
      BY <2>0, <2>1, <1>8
    <3>2. Known'[k].url = given'[k].url /\ Known'[k].depth = given'[k].depth
      BY <2>0, <2>1, <1>9, <1>11
    <3>3. given'[k] = given[k]
      <4>1. k \in DOMAIN given
        BY <2>0, <2>1, <1>1, Shifted DEF g
      <4> QED
        BY <4>1, <1>4
    <3>4. Known[k] \in Entry /\ Known'[k] \in Entry
      BY <1>14, <1>13
    <3>5. Known[k].url = Known'[k].url /\ Known[k].depth = Known'[k].depth
      BY <3>1, <3>2, <3>3
    <3> QED
      BY <3>4, <3>5 DEF Entry
  <2>2. CASE k = g + 1
    <3>1. Known[k] = batch[1]
      BY <2>0, <2>2, <1>8, <1>9
    <3>2. Known'[k].url = item.url /\ Known'[k].depth = item.depth
      <4>1. k <= g + 1 /\ given'[k] = item
        BY <2>2, <1>4, <1>9 DEF g
      <4> QED
        BY <4>1, <2>0, <1>11
    <3>3. Known'[k].url = batch[1].url /\ Known'[k].depth = batch[1].depth
      BY <3>2, <1>3, <1>a
    <3>4. Known[k] \in Entry /\ Known'[k] \in Entry
      BY <1>14, <1>13
    <3>5. Known[k].url = Known'[k].url /\ Known[k].depth = Known'[k].depth
      BY <3>1, <3>3
    <3> QED
      BY <3>4, <3>5 DEF Entry
  <2>3. CASE k > g + 1 /\ k <= g + b
    <3>1. Known'[k] = batch'[k - (g + 1)] /\ Known[k] = batch[k - g]
      BY <2>0, <2>3, <1>8, <1>9, <1>11
    <3>2. k - (g + 1) \in 1 .. (b - 1) /\ k - (g + 1) + 1 = k - g
      BY <2>0, <2>3, <1>9
    <3>3. batch'[k - (g + 1)] = batch[k - (g + 1) + 1]
      <4> DEFINE i == k - (g + 1)
      <4>1. i \in 1 .. Len(batch')
        BY <3>2, <1>10
      <4> HIDE DEF i
      <4>2. batch'[i] = batch[i + 1]
        BY <4>1, <1>5
      <4> QED
        BY <4>2 DEF i
    <3> QED
      BY <3>1, <3>2, <3>3
  <2>4. CASE k > g + b
    <3>1. Known'[k] = queue'[k - (g + b)] /\ Known[k] = queue[k - (g + b)]
      BY <2>0, <2>4, <1>8, <1>9, <1>11
    <3>2. k - (g + b) \in 1 .. q
      BY <2>0, <2>4, <1>9
    <3> QED
      BY <3>1, <3>2, <1>6 DEF q
  <2> QED
    BY <2>0, <2>1, <2>2, <2>3, <2>4, <1>9
<1>17. g + 1 \in DOMAIN Known /\ Known[g + 1] = Head(batch)
  <2> DEFINE m == g + 1
  <2>1. m \in 1 .. Len(Known) /\ m > g /\ m <= g + b /\ m - g = 1
    BY <1>8, <1>9
  <2> HIDE DEF m
  <2>2. Known[m] = batch[m - g]
    BY <2>1, <1>8
  <2>3. m \in DOMAIN Known /\ Known[m] = Head(batch)
    BY <2>1, <2>2, <1>a, <1>8, <1>13
  <2> QED
    BY <2>3 DEF m
<1>18. /\ given'[Len(given) + 1].url = Head(batch).url
       /\ given'[Len(given) + 1].depth = Head(batch).depth
       /\ given'[Len(given) + 1].outcome = outcome
  BY <1>3, <1>4
<1>19. Len(Known') = Len(Known) + Len(ext)
  BY <1>12 DEF x
<1>20. \A k \in 1 .. Len(ext) : Known'[Len(Known) + k] = ext[k]
  BY <1>15 DEF x
<1>21. Len(given) + 1 \in DOMAIN Known /\ Known[Len(given) + 1] = Head(batch)
  BY <1>17 DEF g
<1>22. Known \in Seq(Entry) /\ Known' \in Seq(Entry)
  BY <1>8, <1>11
<1> QED
  BY <1>4, <1>16, <1>18, <1>19, <1>20, <1>21, <1>22

\* A pick takes every position once, in ascending order.
LEMMA Picked ==
    ASSUME NEW n \in Nat, NEW pick \in Ascending(Fits(n))
    PROVE  LET m == Cardinality(Fits(n)) IN
           /\ m \in Nat /\ DOMAIN pick = 1 .. m
           /\ \A i \in 1 .. m : pick[i] \in Fits(n)
           /\ \A i, k \in 1 .. m : i < k => pick[i] < pick[k]
           /\ \A k \in Fits(n) : \E i \in 1 .. m : pick[i] = k
<1>1. IsFiniteSet(Fits(n))
  <2>1. IsFiniteSet(1 .. n)
    BY FS_Interval
  <2>2. Fits(n) \in SUBSET (1 .. n)
    BY DEF Fits
  <2> QED
    BY <2>1, <2>2, FS_Subset
<1>2. Cardinality(Fits(n)) \in Nat
  BY <1>1, FS_CardinalityType
<1> DEFINE m == Cardinality(Fits(n))
<1>3. /\ pick \in [1 .. m -> Fits(n)]
      /\ \A k \in Fits(n) : \E i \in 1 .. m : pick[i] = k
      /\ \A i, k \in DOMAIN pick : i < k => pick[i] < pick[k]
  <2>1. /\ pick \in Bijection(1 .. m, Fits(n))
        /\ \A i, j \in DOMAIN pick : i < j => pick[i] < pick[j]
    BY DEF Ascending
  <2> HIDE DEF m
  <2>2. pick \in Injection(1 .. m, Fits(n)) /\ pick \in Surjection(1 .. m, Fits(n))
    BY <2>1 DEF Bijection
  <2> QED
    BY <2>1, <2>2 DEF Injection, Surjection
<1> HIDE DEF m
<1>4. DOMAIN pick = 1 .. m /\ \A i \in 1 .. m : pick[i] \in Fits(n)
  BY <1>3
<1> QED
  BY <1>2, <1>3, <1>4, Zenon DEF m

\* A new batch leaves the order of what is kept, and drops what a pattern excludes.
LEMMA BatchShape ==
    ASSUME CrawlTypeOK, CrawlTypeOK', NextBatch
    PROVE  /\ Known \in Seq(Entry) /\ Known' \in Seq(Entry)
           /\ Len(given) \in Nat /\ Len(given) <= Len(Known)
           /\ \E from \in [DOMAIN Known' -> DOMAIN Known] :
                 /\ \A k \in DOMAIN Known' : Known'[k] = Known[from[k]]
                 /\ \A i, k \in DOMAIN Known' : i < k => from[i] < from[k]
                 /\ \A k \in DOMAIN Known' : IF k <= Len(given) THEN from[k] = k
                                                              ELSE from[k] > Len(given)
                 /\ \A k \in DOMAIN Known : Known[k].url \notin Excluded[site]
                                                => \E i \in DOMAIN Known' : from[i] = k
<1>1. /\ given \in Seq(Item) /\ batch \in Seq(Entry) /\ queue \in Seq(Entry)
      /\ batch' \in Seq(Entry) /\ queue' \in Seq(Entry)
      /\ batch = <<>> /\ given' = given /\ site' = site
  BY DEF CrawlTypeOK, NextBatch, Fetching
<1>n. PICK n \in DOMAIN queue :
         /\ \E pick \in Ascending(Fits(n)) : batch' = [i \in DOMAIN pick |-> queue[pick[i]]]
         /\ queue' = SubSeq(queue, n + 1, Len(queue))
  BY DEF NextBatch
<1>2. PICK pick \in Ascending(Fits(n)) : batch' = [i \in DOMAIN pick |-> queue[pick[i]]]
  BY <1>n
<1> DEFINE g == Len(given)  q == Len(queue)  m == Cardinality(Fits(n))
<1>3. g \in Nat /\ q \in Nat /\ n \in 1 .. q
  BY <1>1, Shifted
<1>4. /\ m \in Nat /\ DOMAIN pick = 1 .. m
      /\ \A i \in 1 .. m : pick[i] \in Fits(n)
      /\ \A i, k \in 1 .. m : i < k => pick[i] < pick[k]
      /\ \A k \in Fits(n) : \E i \in 1 .. m : pick[i] = k
  BY <1>3, Picked
<1>5. \A k \in 1 .. n : k \in Fits(n) <=> queue[k].url \notin Excluded[site]
  BY DEF Fits
<1>6. \A k \in Fits(n) : k \in 1 .. n
  BY DEF Fits
<1> HIDE DEF m, g, q
<1>7. Len(batch') = m /\ \A i \in 1 .. m : batch'[i] = queue[pick[i]]
  BY <1>1, <1>2, <1>4
<1>8. Len(queue') = q - n /\ \A k \in 1 .. (q - n) : queue'[k] = queue[n + k]
  BY <1>1, <1>n, <1>3 DEF q
<1>c. /\ Known = Held(given, batch, queue)
      /\ Known' = Held(given', batch', queue')
  BY DEF Known, Held
<1>9. Shaped(Known, given, batch, queue) /\ Shaped(Known', given, batch', queue')
  BY <1>1, <1>c, KnownShaped
<1>10. Len(batch) = 0 /\ g + 0 = g
  BY <1>1, <1>3, Shifted
<1>11. /\ Known \in Seq(Entry) /\ Len(Known) = g + q /\ DOMAIN Known = 1 .. (g + q)
       /\ \A k \in 1 .. (g + q) :
             /\ k <= g => Known[k].url = given[k].url /\ Known[k].depth = given[k].depth
             /\ k > g => Known[k] = queue[k - g]
  BY <1>3, <1>9, <1>10, Shifted DEF Shaped, g, q
<1>12. /\ Known' \in Seq(Entry) /\ Len(Known') = g + m + (q - n)
       /\ DOMAIN Known' = 1 .. (g + m + (q - n))
       /\ \A k \in 1 .. (g + m + (q - n)) :
             /\ k <= g => Known'[k].url = given[k].url /\ Known'[k].depth = given[k].depth
             /\ k > g /\ k <= g + m => Known'[k] = batch'[k - g]
             /\ k > g + m => Known'[k] = queue'[k - (g + m)]
  BY <1>7, <1>8, <1>9, Shifted DEF Shaped, g
<1> DEFINE src(k) == IF k <= g THEN k ELSE IF k <= g + m THEN g + pick[k - g] ELSE n + k - m
           from == [k \in DOMAIN Known' |-> src(k)]
<1>13. ASSUME NEW k \in DOMAIN Known', k <= g
       PROVE  src(k) = k /\ k \in DOMAIN Known /\ Known'[k] = Known[k]
  <2>1. k \in 1 .. (g + m + (q - n)) /\ k \in DOMAIN Known /\ k \in 1 .. (g + q)
    BY <1>3, <1>4, <1>11, <1>12, <1>13
  <2>2. Known[k] \in Entry /\ Known'[k] \in Entry
    BY <2>1, <1>11, <1>12, Shifted
  <2>3. Known[k].url = Known'[k].url /\ Known[k].depth = Known'[k].depth
    BY <2>1, <1>11, <1>12, <1>13
  <2> QED
    BY <2>1, <2>2, <2>3, <1>13 DEF Entry
<1>14. ASSUME NEW k \in DOMAIN Known', k > g, k <= g + m
       PROVE  /\ src(k) = g + pick[k - g] /\ k - g \in 1 .. m /\ pick[k - g] \in 1 .. n
              /\ src(k) \in DOMAIN Known /\ src(k) > g /\ src(k) <= g + n
              /\ Known'[k] = Known[src(k)]
  <2> DEFINE i == k - g
  <2>1. k \in 1 .. (g + m + (q - n)) /\ i \in 1 .. m /\ ~(k <= g)
    BY <1>3, <1>4, <1>12, <1>14
  <2>2. Known'[k] = batch'[i]
    BY <2>1, <1>12, <1>14
  <2> HIDE DEF i
  <2>3. batch'[i] = queue[pick[i]] /\ pick[i] \in 1 .. n
    BY <2>1, <1>4, <1>6, <1>7
  <2> DEFINE r == g + pick[i]
  <2>4. r \in 1 .. (g + q) /\ r > g /\ r <= g + n /\ r - g = pick[i]
    BY <2>3, <1>3
  <2> HIDE DEF r
  <2>5. Known[r] = queue[r - g] /\ r \in DOMAIN Known
    BY <2>4, <1>11
  <2>6. src(k) = r
    BY <2>1, <1>14 DEF r, i
  <2> QED
    BY <2>1, <2>2, <2>3, <2>4, <2>5, <2>6 DEF r, i
<1>15. ASSUME NEW k \in DOMAIN Known', k > g + m
       PROVE  /\ src(k) = n + k - m /\ src(k) \in DOMAIN Known /\ src(k) > g + n
              /\ Known'[k] = Known[src(k)]
  <2> DEFINE i == k - (g + m)
             r == n + k - m
  <2>1. k \in 1 .. (g + m + (q - n)) /\ i \in 1 .. (q - n) /\ ~(k <= g) /\ ~(k <= g + m)
    BY <1>3, <1>4, <1>12, <1>15
  <2>2. Known'[k] = queue'[i]
    BY <2>1, <1>12, <1>15
  <2>3. r \in 1 .. (g + q) /\ r > g + n /\ r > g /\ r - g = n + i
    BY <2>1, <1>3, <1>4
  <2> HIDE DEF i
  <2>4. queue'[i] = queue[n + i]
    BY <2>1, <1>8
  <2>5. src(k) = r
    BY <2>1
  <2> HIDE DEF r
  <2>6. Known[r] = queue[r - g] /\ r \in DOMAIN Known
    BY <2>3, <1>11
  <2> QED
    BY <2>2, <2>3, <2>4, <2>5, <2>6 DEF r
<1>16. ASSUME NEW k \in DOMAIN Known'
       PROVE  /\ src(k) \in DOMAIN Known /\ Known'[k] = Known[src(k)]
              /\ IF k <= g THEN src(k) = k ELSE src(k) > g
  <2>1. k \in Nat
    BY <1>12
  <2> HIDE DEF src
  <2>2. CASE k <= g
    BY <2>2, <1>13
  <2>3. CASE k > g /\ k <= g + m
    BY <2>3, <2>1, <1>3, <1>14
  <2>4. CASE k > g + m
    <3>1. src(k) > g /\ ~(k <= g)
      BY <2>1, <2>4, <1>3, <1>4, <1>11, <1>15
    <3> QED
      BY <2>4, <3>1, <1>15
  <2> QED
    BY <2>1, <2>2, <2>3, <2>4, <1>3, <1>4
<1>17. ASSUME NEW i \in DOMAIN Known', NEW k \in DOMAIN Known', i < k PROVE src(i) < src(k)
  <2>1. i \in Nat /\ k \in Nat
    BY <1>12
  <2>2. src(i) \in Nat /\ src(k) \in Nat
    BY <1>11, <1>16
  <2>3. CASE k <= g
    BY <2>1, <2>3, <1>3, <1>17
  <2>4. CASE i <= g /\ k > g
    <3> HIDE DEF src
    <3> QED
      BY <2>1, <2>2, <2>4, <1>3, <1>16
  <2>5. CASE i > g /\ k <= g + m
    <3>1. i <= g + m /\ k > g /\ i - g < k - g
      BY <2>1, <2>5, <1>3, <1>4, <1>17
    <3>2. pick[i - g] < pick[k - g] /\ pick[i - g] \in Nat /\ pick[k - g] \in Nat
      BY <3>1, <2>5, <1>4, <1>14
    <3>3. src(i) = g + pick[i - g] /\ src(k) = g + pick[k - g]
      BY <3>1, <2>5, <1>14
    <3> QED
      BY <3>2, <3>3, <1>3
  <2>6. CASE i > g /\ i <= g + m /\ k > g + m
    <3>1. src(i) <= g + n /\ src(k) > g + n
      BY <2>6, <1>14, <1>15
    <3> HIDE DEF src
    <3> QED
      BY <3>1, <2>2, <1>3
  <2>7. CASE i > g + m
    <3>1. k > g + m
      BY <2>1, <2>7, <1>3, <1>4, <1>17
    <3>2. src(i) = n + i - m /\ src(k) = n + k - m
      BY <3>1, <2>7, <1>15
    <3> QED
      BY <3>2, <2>1, <1>3, <1>4, <1>17
  <2> QED
    BY <2>1, <2>3, <2>4, <2>5, <2>6, <2>7, <1>3, <1>4
<1>18. ASSUME NEW k \in DOMAIN Known, Known[k].url \notin Excluded[site]
       PROVE  \E i \in DOMAIN Known' : src(i) = k
  <2>1. k \in 1 .. (g + q)
    BY <1>11
  <2>2. CASE k <= g
    BY <2>1, <2>2, <1>3, <1>4, <1>12
  <2>3. CASE k > g /\ k - g <= n
    <3>1. k - g \in 1 .. n /\ Known[k] = queue[k - g]
      BY <2>1, <2>3, <1>3, <1>11
    <3>2. PICK j \in 1 .. m : pick[j] = k - g
      BY <3>1, <1>4, <1>5, <1>18
    <3> DEFINE r == g + j
    <3>3. r \in DOMAIN Known' /\ r > g /\ r <= g + m /\ r - g = j
      BY <3>2, <1>3, <1>4, <1>12
    <3> HIDE DEF r
    <3>4. src(r) = g + pick[j]
      BY <3>3, <1>14
    <3>5. g + pick[j] = k
      BY <2>1, <3>2, <1>3
    <3> QED
      BY <3>3, <3>4, <3>5
  <2>4. CASE k - g > n
    <3>1. k - n + m \in DOMAIN Known' /\ k - n + m > g + m /\ n + (k - n + m) - m = k
      BY <2>1, <2>4, <1>3, <1>4, <1>12
    <3> QED
      BY <3>1, <1>15
  <2> QED
    BY <2>1, <2>2, <2>3, <2>4, <1>3
<1>19. Len(given) = g
  BY DEF g
<1>20. g <= Len(Known)
  BY <1>3, <1>11
<1>21. from \in [DOMAIN Known' -> DOMAIN Known]
  BY <1>16
<1> HIDE DEF src
<1>22. /\ \A k \in DOMAIN Known' : Known'[k] = Known[from[k]]
       /\ \A i, k \in DOMAIN Known' : i < k => from[i] < from[k]
       /\ \A k \in DOMAIN Known' : IF k <= g THEN from[k] = k ELSE from[k] > g
       /\ \A k \in DOMAIN Known : Known[k].url \notin Excluded[site]
                                     => \E i \in DOMAIN Known' : from[i] = k
  BY <1>16, <1>17, <1>18
<1> HIDE DEF from
<1> QED
  BY <1>3, <1>11, <1>12, <1>19, <1>20, <1>21, <1>22

-------------------------------------------------------------------------------
(* What the actions do *)

\* A yield of one item, whose new entries stand one step below it and were not visited.
Grows(outcome, ext) ==
    LET top == Head(batch)
        added == {ext[k].url : k \in 1 .. Len(ext)}
    IN  /\ Yield(outcome)
        /\ queue' = queue \o ext
        /\ visited' = visited \cup added
        /\ refused \subseteq refused'
        /\ \A k \in 1 .. Len(ext) :
              /\ outcome = "page" /\ top.depth < MaxDepth /\ ext[k].depth = top.depth + 1
              /\ ext[k].url \notin visited /\ ext[k].url \in links'[top.url]
        /\ \A i, k \in 1 .. Len(ext) : ext[i].url = ext[k].url => i = k
        /\ \A u \in DOMAIN links : u # top.url \/ outcome # "page" => links'[u] = links[u]
        /\ DOMAIN links' = DOMAIN links \cup IF outcome = "page" THEN {top.url} ELSE {}
        /\ outcome = "page" /\ top.depth < MaxDepth
              => links'[top.url] \subseteq visited' \cup refused'

\* The links that validate come in some order, each once.
LEMMA Permuted ==
    ASSUME NEW S, IsFiniteSet(S), NEW new \in SetToAllKPermutations(S)
    PROVE  /\ new \in Seq(S)
           /\ \A i, k \in 1 .. Len(new) : new[i] = new[k] => i = k
<1>1. PICK T \in SUBSET S : new \in SetToSeqs(T)
  BY DEF SetToAllKPermutations
<1> DEFINE n == Cardinality(T)
<1>2. n \in Nat
  BY FS_Subset, FS_CardinalityType
<1>3. new \in [1 .. n -> T] /\ \A i, k \in 1 .. n : i # k => new[i] # new[k]
  BY <1>1 DEF SetToSeqs
<1> HIDE DEF n
<1>4. new \in Seq(S) /\ Len(new) = n
  BY <1>2, <1>3
<1> QED
  BY <1>3, <1>4

\* Every yield is of this form, whether the page was fetched, failed or was skipped.
LEMMA YieldGrows ==
    ASSUME CrawlTypeOK, YieldPage \/ YieldFailed \/ YieldSkipped
    PROVE  \E outcome \in {"page", "failed", "skipped"}, ext \in Seq(Entry) :
              Grows(outcome, ext)
<1> DEFINE top == Head(batch)
<1>1. /\ batch \in Seq(Entry) /\ queue \in Seq(Entry) /\ visited \subseteq Urls
      /\ batch # <<>> /\ site \in Sites
  BY DEF CrawlTypeOK, YieldPage, YieldFailed, YieldSkipped, Yield
<1>2. top \in Entry /\ top.url \in Urls /\ top.depth \in Nat
  <2>1. top \in Entry
    BY <1>1, Shifted
  <2> QED
    BY <2>1 DEF Entry
<1>3. <<>> \in Seq(Entry) /\ Len(<<>>) = 0 /\ queue \o <<>> = queue
  BY <1>1
<1>4. CASE YieldFailed \/ YieldSkipped
  <2>1. PICK outcome \in {"failed", "skipped"} :
           Yield(outcome) /\ UNCHANGED <<links, visited, queue, refused>>
    BY <1>4 DEF YieldFailed, YieldSkipped
  <2>2. Grows(outcome, <<>>)
    BY <2>1, <1>3 DEF Grows
  <2> QED
    BY <2>1, <2>2, <1>3
<1>5. CASE YieldPage
  <2>1. PICK found \in SUBSET (site \ {top.url}) :
           /\ IsFiniteSet(found) /\ Follow(found)
           /\ links' = [u \in DOMAIN links \cup {top.url} |->
                           IF u = top.url THEN found ELSE links[u]]
    BY <1>5 DEF YieldPage
  <2>2. Yield("page")
    BY <1>5 DEF YieldPage
  <2>3. /\ DOMAIN links' = DOMAIN links \cup {top.url}
        /\ \A u \in DOMAIN links \ {top.url} : links'[u] = links[u]
        /\ links'[top.url] = found
    BY <2>1
  <2>4. CASE ~(top.depth < MaxDepth)
    <3>1. UNCHANGED <<visited, queue, refused>>
      BY <2>1, <2>4 DEF Follow
    <3>2. Grows("page", <<>>)
      BY <2>2, <2>3, <2>4, <3>1, <1>3 DEF Grows
    <3> QED
      BY <3>2, <1>3
  <2>5. CASE top.depth < MaxDepth
    <3>1. PICK new \in SetToAllKPermutations(Unseen(found)) :
             /\ visited' = visited \cup ToSet(new)
             /\ refused' = refused \cup (Unseen(found) \ ToSet(new))
             /\ queue' = queue \o [k \in DOMAIN new |->
                                   [url |-> new[k], depth |-> top.depth + 1]]
      BY <2>1, <2>5 DEF Follow
    <3> DEFINE e(k) == [url |-> new[k], depth |-> top.depth + 1]
               ext == [k \in DOMAIN new |-> e(k)]
    <3>2. IsFiniteSet(Unseen(found)) /\ Unseen(found) \subseteq Urls
      BY <2>1, <1>1, FS_Subset, CrawlAssumption DEF Unseen
    <3>3. /\ new \in Seq(Unseen(found)) /\ Len(new) \in Nat
          /\ \A i, k \in 1 .. Len(new) : new[i] = new[k] => i = k
      BY <3>2, Permuted, Shifted
    <3>4. \A k \in 1 .. Len(new) : /\ e(k) \in Entry /\ e(k).url = new[k]
                                   /\ e(k).depth = top.depth + 1 /\ new[k] \in found \ visited
      BY <3>2, <3>3, <1>2 DEF Entry, Unseen
    <3> HIDE DEF e
    <3>5. ext \in Seq(Entry) /\ Len(ext) = Len(new) /\ \A k \in 1 .. Len(ext) : ext[k] = e(k)
      BY <3>3, <3>4
    <3>6. queue' = queue \o ext
      BY <3>1 DEF e
    <3> HIDE DEF ext
    <3>7. ToSet(new) = {ext[k].url : k \in 1 .. Len(ext)}
      BY <3>3, <3>4, <3>5 DEF ToSet
    <3>8. \A k \in 1 .. Len(ext) : /\ ext[k].depth = top.depth + 1 /\ ext[k].url \notin visited
                                   /\ ext[k].url \in found
      BY <3>4, <3>5
    <3>9. \A i, k \in 1 .. Len(ext) : ext[i].url = ext[k].url => i = k
      BY <3>3, <3>4, <3>5
    <3>10. found \subseteq visited' \cup refused'
      BY <3>1 DEF Unseen
    <3>11. Grows("page", ext)
      BY <2>2, <2>3, <2>5, <3>1, <3>6, <3>7, <3>8, <3>9, <3>10 DEF Grows
    <3> QED
      BY <3>5, <3>11
  <2> QED
    BY <2>4, <2>5
<1> QED
  BY <1>4, <1>5

\* The types are kept.
LEMMA CrawlTypeStep == CrawlTypeOK /\ [CrawlNext]_crvars => CrawlTypeOK'
<1> SUFFICES ASSUME CrawlTypeOK, [CrawlNext]_crvars PROVE CrawlTypeOK'
  OBVIOUS
<1>0. /\ site \in Sites /\ visited \subseteq Urls /\ ended \in BOOLEAN
      /\ given \in Seq(Item) /\ batch \in Seq(Entry) /\ queue \in Seq(Entry)
  BY DEF CrawlTypeOK
<1>1. CASE NextBatch
  <2>1. PICK n \in DOMAIN queue :
           /\ \E pick \in Ascending(Fits(n)) : batch' = [i \in DOMAIN pick |-> queue[pick[i]]]
           /\ queue' = SubSeq(queue, n + 1, Len(queue))
           /\ ended' = (batch' = <<>>)
    BY <1>1 DEF NextBatch
  <2>2. PICK pick \in Ascending(Fits(n)) : batch' = [i \in DOMAIN pick |-> queue[pick[i]]]
    BY <2>1
  <2>3. n \in Nat /\ n \in 1 .. Len(queue) /\ Len(queue) \in Nat
    BY <1>0, Shifted
  <2> DEFINE m == Cardinality(Fits(n))
  <2>4. m \in Nat /\ DOMAIN pick = 1 .. m /\ \A i \in 1 .. m : pick[i] \in Fits(n)
    BY <2>3, Picked
  <2>5. \A k \in Fits(n) : k \in DOMAIN queue
    BY <2>3, <1>0, Shifted DEF Fits
  <2> HIDE DEF m
  <2>6. batch' \in Seq(Entry)
    <3>1. \A i \in 1 .. m : queue[pick[i]] \in Entry
      BY <2>4, <2>5, <1>0, Shifted
    <3> QED
      BY <2>2, <2>4, <3>1
  <2>7. queue' \in Seq(Entry)
    BY <2>1, <2>3, <1>0
  <2>8. UNCHANGED <<site, visited, given>>
    BY <1>1 DEF NextBatch
  <2> QED
    BY <2>1, <2>6, <2>7, <2>8, <1>0 DEF CrawlTypeOK
<1>2. CASE YieldPage \/ YieldFailed \/ YieldSkipped
  <2>1. PICK outcome \in {"page", "failed", "skipped"}, ext \in Seq(Entry) :
           Grows(outcome, ext)
    BY <1>2, YieldGrows
  <2> DEFINE item == [url |-> Head(batch).url, depth |-> Head(batch).depth, outcome |-> outcome]
  <2>2. /\ batch # <<>> /\ given' = Append(given, item) /\ batch' = Tail(batch)
        /\ UNCHANGED <<site, ended>>
    BY <2>1 DEF Grows, Yield
  <2>3. Head(batch) \in Entry /\ Tail(batch) \in Seq(Entry)
    BY <1>0, <2>2, Shifted
  <2>4. item \in Item
    BY <2>3 DEF Entry, Item
  <2> HIDE DEF item
  <2>5. given' \in Seq(Item)
    <3>1. given' = Append(given, item)
      BY <2>2 DEF item
    <3> QED
      BY <1>0, <2>4, <3>1
  <2>6. queue' \in Seq(Entry)
    <3>1. queue' = queue \o ext
      BY <2>1 DEF Grows
    <3> QED
      BY <1>0, <3>1, Concatenated
  <2>7. \A k \in 1 .. Len(ext) : ext[k].url \in Urls
    <3>1. \A k \in 1 .. Len(ext) : ext[k] \in Entry
      BY Shifted
    <3> QED
      BY <3>1 DEF Entry
  <2>8. visited' \subseteq Urls
    <3>1. visited' = visited \cup {ext[k].url : k \in 1 .. Len(ext)}
      BY <2>1 DEF Grows
    <3> QED
      BY <1>0, <2>7, <3>1
  <2> QED
    BY <1>0, <2>2, <2>3, <2>5, <2>6, <2>8 DEF CrawlTypeOK
<1>3. CASE EndOfCrawl \/ UNCHANGED crvars
  BY <1>0, <1>3 DEF EndOfCrawl, crvars, CrawlTypeOK
<1> QED
  BY <1>1, <1>2, <1>3 DEF CrawlNext

\* What was yielded comes first.
LEMMA GivenFirst ==
    ASSUME CrawlTypeOK
    PROVE  /\ Known \in Seq(Entry) /\ Len(given) \in Nat /\ Len(given) <= Len(Known)
           /\ Len(Known) = Len(given) + Len(batch) + Len(queue)
           /\ DOMAIN given = 1 .. Len(given) /\ DOMAIN Known = 1 .. Len(Known)
           /\ \A k \in DOMAIN Known : /\ Known[k] \in Entry /\ Known[k].url \in Urls
                                      /\ Known[k].depth \in Nat
           /\ \A i \in DOMAIN given : /\ Known[i].url = given[i].url
                                      /\ Known[i].depth = given[i].depth
                                      /\ i \in DOMAIN Known
<1>1. given \in Seq(Item) /\ batch \in Seq(Entry) /\ queue \in Seq(Entry)
  BY DEF CrawlTypeOK
<1>2. Known = Held(given, batch, queue)
  BY DEF Known, Held
<1>3. Shaped(Known, given, batch, queue)
  BY <1>1, <1>2, KnownShaped
<1>4. DOMAIN given = 1 .. Len(given)
  BY <1>1, Shifted
<1>5. /\ Known \in Seq(Entry) /\ Len(given) \in Nat /\ Len(given) <= Len(Known)
      /\ Len(Known) = Len(given) + Len(batch) + Len(queue)
      /\ \A k \in 1 .. Len(Known) : k <= Len(given) => /\ Known[k].url = given[k].url
                                                      /\ Known[k].depth = given[k].depth
  BY <1>3 DEF Shaped
<1>6. DOMAIN Known = 1 .. Len(Known) /\ \A k \in DOMAIN Known : Known[k] \in Entry
  BY <1>5, Shifted
<1>7. \A k \in DOMAIN Known : Known[k].url \in Urls /\ Known[k].depth \in Nat
  BY <1>6 DEF Entry
<1>8. Len(Known) \in Nat
  BY <1>5, Shifted
<1>9. \A i \in DOMAIN given : i \in 1 .. Len(Known) /\ i <= Len(given)
  BY <1>4, <1>5, <1>8
<1> QED
  BY <1>4, <1>5, <1>6, <1>7, <1>9

-------------------------------------------------------------------------------
(* Yields *)

\* A yield keeps everything in its place, and what it adds comes last.
Placed(ext) ==
    /\ Len(given) \in Nat /\ Len(Known) \in Nat /\ Len(ext) \in Nat
    /\ Len(given) + 1 \in DOMAIN Known /\ Known[Len(given) + 1] = Head(batch)
    /\ DOMAIN given = 1 .. Len(given) /\ DOMAIN given' = 1 .. (Len(given) + 1)
    /\ DOMAIN Known = 1 .. Len(Known) /\ DOMAIN Known' = 1 .. (Len(Known) + Len(ext))
    /\ \A i \in DOMAIN given : /\ given'[i] = given[i] /\ i \in DOMAIN Known
                               /\ Known[i].url = given[i].url
                               /\ Known[i].depth = given[i].depth
    /\ given'[Len(given) + 1].url = Head(batch).url
    /\ given'[Len(given) + 1].depth = Head(batch).depth
    /\ \A k \in DOMAIN Known : /\ Known'[k] = Known[k]
                               /\ Known[k].depth \in Nat
    /\ \A k \in 1 .. Len(ext) : Known'[Len(Known) + k] = ext[k]

\* What a yield does to positions, to links and to depths, under the invariant.
LEMMA GrowsPlaced ==
    ASSUME CrawlTypeOK, CrawlTypeOK', NEW outcome \in {"page", "failed", "skipped"},
           NEW ext \in Seq(Entry), Grows(outcome, ext)
    PROVE  Placed(ext) /\ given'[Len(given) + 1].outcome = outcome
<1>1. Yield(outcome) /\ queue' = queue \o ext
  BY DEF Grows
<1>2. /\ Len(given') = Len(given) + 1
      /\ \A i \in DOMAIN given : given'[i] = given[i]
      /\ given'[Len(given) + 1].url = Head(batch).url
      /\ given'[Len(given) + 1].depth = Head(batch).depth
      /\ given'[Len(given) + 1].outcome = outcome
      /\ Len(given) + 1 \in DOMAIN Known /\ Known[Len(given) + 1] = Head(batch)
      /\ Known \in Seq(Entry) /\ Known' \in Seq(Entry)
      /\ Len(Known') = Len(Known) + Len(ext)
      /\ \A k \in DOMAIN Known : Known'[k] = Known[k]
      /\ \A k \in 1 .. Len(ext) : Known'[Len(Known) + k] = ext[k]
  BY <1>1, YieldShape
<1>3. /\ Len(given) \in Nat /\ DOMAIN given = 1 .. Len(given)
      /\ DOMAIN Known = 1 .. Len(Known)
      /\ \A k \in DOMAIN Known : Known[k].depth \in Nat
      /\ \A i \in DOMAIN given : /\ Known[i].url = given[i].url
                                 /\ Known[i].depth = given[i].depth
                                 /\ i \in DOMAIN Known
  BY GivenFirst
<1>4. given' \in Seq(Item)
  BY DEF CrawlTypeOK
<1>5. /\ DOMAIN given' = 1 .. Len(given') /\ Len(ext) \in Nat
      /\ Len(Known) \in Nat /\ DOMAIN Known' = 1 .. Len(Known')
  BY <1>2, <1>4, Shifted
<1> QED
  BY <1>2, <1>3, <1>5 DEF Placed

\* The links of what was yielded before stay as they were.
LEMMA LinksStay ==
    ASSUME EachOnce, Followed, NEW outcome, NEW ext \in Seq(Entry), Grows(outcome, ext),
           Placed(ext)
    PROVE  \A i \in DOMAIN given : \A u :
              given[i].outcome = "page" => /\ LinksTo(given[i], u) <=> LinksTo(given[i], u)'
                                           /\ links'[given[i].url] = links[given[i].url]
<1> SUFFICES ASSUME NEW i \in DOMAIN given, given[i].outcome = "page", NEW u
             PROVE  /\ LinksTo(given[i], u) <=> LinksTo(given[i], u)'
                    /\ links'[given[i].url] = links[given[i].url]
  OBVIOUS
<1>1. given[i].url \in DOMAIN links
  BY DEF Followed
<1>2. given[i].url # Head(batch).url
  <2>1. /\ i \in DOMAIN Known /\ Known[i].url = given[i].url /\ i <= Len(given)
        /\ Len(given) + 1 \in DOMAIN Known /\ Known[Len(given) + 1] = Head(batch)
        /\ Len(given) \in Nat
    BY DEF Placed
  <2>2. i # Len(given) + 1
    BY <2>1
  <2> QED
    BY <2>1, <2>2 DEF EachOnce
<1>3. links'[given[i].url] = links[given[i].url]
  BY <1>1, <1>2 DEF Grows
<1>4. given'[i] = given[i]
  BY DEF Placed
<1> QED
  BY <1>3, <1>4 DEF LinksTo

\* No depth exceeds that of the head of the batch by more than one.
LEMMA OneAhead ==
    ASSUME CrawlTypeOK, Sorted, Queued, NEW ext, Placed(ext)
    PROVE  \A k \in DOMAIN Known : Known[k].depth <= Head(batch).depth + 1
<1> DEFINE top == Len(given) + 1
<1>1. /\ top \in DOMAIN Known /\ Known[top] = Head(batch)
      /\ \A k \in DOMAIN Known : Known[k].depth \in Nat
      /\ \A i \in DOMAIN given : i \in DOMAIN Known /\ i <= top
      /\ \A i \in DOMAIN given : Known[i].depth = given[i].depth
  BY DEF Placed
<1>2. \A i \in DOMAIN given : given[i].depth <= Head(batch).depth /\ given[i].depth \in Nat
  BY <1>1 DEF Sorted
<1>3. Head(batch).depth \in Nat
  BY <1>1
<1> SUFFICES ASSUME NEW k \in DOMAIN Known PROVE Known[k].depth <= Head(batch).depth + 1
  OBVIOUS
<1>4. CASE Known[k].url = Root
  BY <1>3, <1>4 DEF Queued
<1>5. CASE Known[k].url # Root
  <2>1. PICK i \in DOMAIN given : Known[k].depth = given[i].depth + 1
    BY <1>5 DEF Queued
  <2> QED
    BY <2>1, <1>2, <1>3
<1> QED
  BY <1>4, <1>5


\* Splits a position after a yield: one that was there before, or one that was added.
LEMMA OldOrNew ==
    ASSUME NEW ext, Placed(ext), NEW k \in DOMAIN Known'
    PROVE  \/ k \in DOMAIN Known /\ Known'[k] = Known[k]
           \/ \E j \in 1 .. Len(ext) : k = Len(Known) + j /\ Known'[k] = ext[j]
<1>1. /\ k \in 1 .. (Len(Known) + Len(ext)) /\ Len(Known) \in Nat /\ Len(ext) \in Nat
      /\ DOMAIN Known = 1 .. Len(Known)
      /\ \A i \in DOMAIN Known : Known'[i] = Known[i]
      /\ \A j \in 1 .. Len(ext) : Known'[Len(Known) + j] = ext[j]
  BY DEF Placed
<1>2. CASE k <= Len(Known)
  BY <1>1, <1>2
<1>3. CASE k > Len(Known)
  <2> DEFINE j == k - Len(Known)
  <2>1. j \in 1 .. Len(ext) /\ k = Len(Known) + j
    BY <1>1, <1>3
  <2> HIDE DEF j
  <2> QED
    BY <1>1, <2>1
<1> QED
  BY <1>1, <1>2, <1>3

\* What is added was not visited, so it differs from all that was there, and from the rest.
LEMMA OnceByGrowing ==
    ASSUME CrawlTypeOK, EachOnce, NEW outcome, NEW ext, Grows(outcome, ext), Placed(ext)
    PROVE  EachOnce'
<1> DEFINE N == Len(Known)
<1>1. /\ N \in Nat /\ Len(ext) \in Nat
      /\ DOMAIN Known = 1 .. N /\ DOMAIN Known' = 1 .. (N + Len(ext))
      /\ \A k \in DOMAIN Known : Known'[k] = Known[k]
      /\ \A j \in 1 .. Len(ext) : Known'[N + j] = ext[j]
  BY DEF Placed
<1>2. /\ visited' = visited \cup {ext[j].url : j \in 1 .. Len(ext)} /\ site' = site
      /\ \A j \in 1 .. Len(ext) : ext[j].url \notin visited
      /\ \A i, j \in 1 .. Len(ext) : ext[i].url = ext[j].url => i = j
  BY DEF Grows, Yield
<1>3. /\ Root \in visited
      /\ \A k \in DOMAIN Known : Known[k].url \in visited
      /\ \A i, k \in DOMAIN Known : Known[i].url = Known[k].url => i = k
      /\ \A u \in visited : u \in Excluded[site] \/ \E k \in DOMAIN Known : Known[k].url = u
  BY DEF EachOnce
<1> HIDE DEF N
<1>4. ASSUME NEW k \in DOMAIN Known' PROVE Known'[k].url \in visited'
  BY <1>2, <1>3, OldOrNew
<1>5. ASSUME NEW i \in DOMAIN Known', NEW k \in DOMAIN Known', Known'[i].url = Known'[k].url
      PROVE  i = k
  <2>1. \/ i \in DOMAIN Known /\ Known'[i] = Known[i]
        \/ \E j \in 1 .. Len(ext) : i = N + j /\ Known'[i] = ext[j]
    BY OldOrNew DEF N
  <2>2. \/ k \in DOMAIN Known /\ Known'[k] = Known[k]
        \/ \E j \in 1 .. Len(ext) : k = N + j /\ Known'[k] = ext[j]
    BY OldOrNew DEF N
  <2> QED
    BY <1>2, <1>3, <1>5, <2>1, <2>2
<1>6. ASSUME NEW u \in visited', u \notin Excluded[site']
      PROVE  \E k \in DOMAIN Known' : Known'[k].url = u
  <2>1. CASE u \in visited
    <3>1. PICK k \in DOMAIN Known : Known[k].url = u
      BY <1>2, <1>3, <1>6, <2>1
    <3>2. k \in DOMAIN Known'
      BY <1>1
    <3> QED
      BY <3>1, <3>2, <1>1
  <2>2. CASE u \notin visited
    <3>1. PICK j \in 1 .. Len(ext) : ext[j].url = u
      BY <1>2, <2>2
    <3>2. N + j \in DOMAIN Known'
      BY <1>1
    <3> QED
      BY <3>1, <3>2, <1>1
  <2> QED
    BY <2>1, <2>2
<1>7. Root \in visited'
  BY <1>2, <1>3
<1> QED
  BY <1>4, <1>5, <1>6, <1>7 DEF EachOnce

\* What is added is one step deeper than the head of the batch, as deep as anything is.
LEMMA SortedByGrowing ==
    ASSUME CrawlTypeOK, Sorted, Queued, NEW outcome, NEW ext, Grows(outcome, ext), Placed(ext)
    PROVE  Sorted'
<1>1. /\ Len(Known) \in Nat /\ DOMAIN Known = 1 .. Len(Known)
      /\ \A k \in DOMAIN Known : Known[k].depth \in Nat
  BY DEF Placed
<1>2. /\ \A j \in 1 .. Len(ext) : ext[j].depth = Head(batch).depth + 1
      /\ \A k \in DOMAIN Known : Known[k].depth <= Head(batch).depth + 1
      /\ Head(batch).depth \in Nat
  BY OneAhead DEF Grows, Placed
<1> SUFFICES ASSUME NEW i \in DOMAIN Known', NEW k \in DOMAIN Known', i <= k
             PROVE  Known'[i].depth <= Known'[k].depth
  BY DEF Sorted
<1>3. \/ i \in DOMAIN Known /\ Known'[i] = Known[i]
      \/ \E j \in 1 .. Len(ext) : i = Len(Known) + j /\ Known'[i] = ext[j]
  BY OldOrNew
<1>4. \/ k \in DOMAIN Known /\ Known'[k] = Known[k]
      \/ \E j \in 1 .. Len(ext) : k = Len(Known) + j /\ Known'[k] = ext[j]
  BY OldOrNew
<1>5. CASE i \in DOMAIN Known /\ k \in DOMAIN Known
  BY <1>5, Zenon DEF Placed, Sorted
<1>6. CASE \E j \in 1 .. Len(ext) : Known'[k] = ext[j]
  <2>1. Known'[k].depth = Head(batch).depth + 1
    BY <1>2, <1>6
  <2>2. Known'[i].depth <= Head(batch).depth + 1
    BY <1>2, <1>3
  <2> QED
    BY <2>1, <2>2
<1>7. CASE k \in DOMAIN Known /\ \E j \in 1 .. Len(ext) : i = Len(Known) + j
  BY <1>1, <1>7
<1> QED
  BY <1>3, <1>4, <1>5, <1>6, <1>7

\* What is added was queued by the head of the batch, which is yielded.
LEMMA QueuedByGrowing ==
    ASSUME CrawlTypeOK, EachOnce, Queued, Followed, NEW outcome, NEW ext \in Seq(Entry),
           Grows(outcome, ext), Placed(ext), given'[Len(given) + 1].outcome = outcome
    PROVE  Queued'
<1>0. PICK n : n = Len(given) + 1
  OBVIOUS
<1>1. /\ n \in Nat /\ Len(Known) \in Nat /\ n \in DOMAIN Known
      /\ n \in DOMAIN given' /\ \A i \in DOMAIN given : i \in DOMAIN given'
      /\ DOMAIN Known = 1 .. Len(Known)
      /\ \A i \in DOMAIN given : given'[i] = given[i]
      /\ given'[n].url = Head(batch).url /\ given'[n].depth = Head(batch).depth
      /\ Head(batch).depth \in Nat
  BY <1>0 DEF Placed
<1>2. given'[n].outcome = outcome
  BY <1>0
<1> SUFFICES ASSUME NEW k \in DOMAIN Known'
             PROVE  /\ Known'[k].depth <= MaxDepth
                    /\ Known'[k].url = Root => Known'[k].depth = 0
                    /\ Known'[k].url # Root =>
                          \E i \in DOMAIN given' :
                             /\ i < k /\ LinksTo(given[i], Known[k].url)'
                             /\ Known'[k].depth = given'[i].depth + 1
  BY DEF Queued
<1>3. CASE k \in DOMAIN Known /\ Known'[k] = Known[k]
  <2>1. /\ Known[k].depth <= MaxDepth
        /\ Known[k].url = Root => Known[k].depth = 0
    BY <1>3 DEF Queued
  <2>2. ASSUME Known[k].url # Root
        PROVE  \E i \in DOMAIN given' :
                  /\ i < k /\ LinksTo(given[i], Known[k].url)'
                  /\ Known'[k].depth = given'[i].depth + 1
    <3>1. PICK i \in DOMAIN given : /\ i < k /\ LinksTo(given[i], Known[k].url)
                                    /\ Known[k].depth = given[i].depth + 1
      BY <1>3, <2>2 DEF Queued
    <3>2. given[i].outcome = "page" /\ Known[k].url \in links[given[i].url]
      BY <3>1 DEF LinksTo
    <3>3. links'[given[i].url] = links[given[i].url]
      BY <3>2, LinksStay
    <3>4. i \in DOMAIN given' /\ given'[i] = given[i]
      BY <1>1
    <3>5. LinksTo(given[i], Known[k].url)'
      BY <3>2, <3>3, <3>4, <1>3 DEF LinksTo
    <3> QED
      BY <3>1, <3>4, <3>5, <1>3
  <2> QED
    BY <2>1, <2>2, <1>3
<1>4. CASE \E j \in 1 .. Len(ext) : k = Len(Known) + j /\ Known'[k] = ext[j]
  <2>1. PICK j \in 1 .. Len(ext) : k = Len(Known) + j /\ Known'[k] = ext[j]
    BY <1>4
  <2>2. /\ outcome = "page" /\ Head(batch).depth < MaxDepth
        /\ ext[j].depth = Head(batch).depth + 1
        /\ ext[j].url \notin visited /\ ext[j].url \in links'[Head(batch).url]
    BY DEF Grows
  <2>3. n \in DOMAIN given' /\ n < k
    BY <1>1, <2>1
  <2>4. LinksTo(given[n], Known[k].url)'
    BY <1>1, <1>2, <2>1, <2>2 DEF LinksTo
  <2>5. ext[j].url # Root
    BY <2>2 DEF EachOnce
  <2>6. Known'[k].depth <= MaxDepth
    BY <1>1, <2>1, <2>2, CrawlAssumption
  <2> QED
    BY <1>1, <2>1, <2>2, <2>3, <2>4, <2>5, <2>6
<1> QED
  BY <1>3, <1>4, OldOrNew


\* The links of the page yielded lead to what was queued before, at most one step deeper, and
\* to what is added now; what is added now was never met before, unless it was refused.
LEMMA NoShorterByGrowing ==
    ASSUME CrawlTypeOK, EachOnce, Sorted, Queued, NoShorter, Followed,
           NEW outcome, NEW ext \in Seq(Entry),
           Grows(outcome, ext), Placed(ext), given'[Len(given) + 1].outcome = outcome
    PROVE  NoShorter'
<1>0. PICK n : n = Len(given) + 1
  OBVIOUS
<1>1. /\ n \in DOMAIN Known /\ Known[n] = Head(batch) /\ Head(batch).depth \in Nat
      /\ \A i \in DOMAIN given' : i \in DOMAIN given \/ i = n
      /\ \A i \in DOMAIN given : /\ given'[i] = given[i] /\ i \in DOMAIN Known /\ i <= n
                                 /\ Known[i].depth = given[i].depth
      /\ \A k \in DOMAIN Known : Known[k].depth \in Nat
      /\ given'[n].url = Head(batch).url /\ given'[n].depth = Head(batch).depth
  BY <1>0 DEF Placed
<1>2. /\ refused \subseteq refused'
      /\ \A j \in 1 .. Len(ext) :
            /\ Head(batch).depth < MaxDepth /\ ext[j].depth = Head(batch).depth + 1
            /\ ext[j].url \notin visited
  BY DEF Grows
<1> SUFFICES ASSUME NEW k \in DOMAIN Known', NEW i \in DOMAIN given',
                    LinksTo(given[i], Known[k].url)', Known'[k].url \notin refused'
             PROVE  Known'[k].depth <= given'[i].depth + 1
  BY DEF NoShorter
<1>3. given'[i].outcome = "page" /\ Known'[k].url \in links'[given'[i].url]
  BY DEF LinksTo
<1>4. CASE i = n
  <2>1. Known'[k].depth <= Head(batch).depth + 1
    <3>1. CASE k \in DOMAIN Known /\ Known'[k] = Known[k]
      BY <3>1, OneAhead
    <3>2. CASE \E j \in 1 .. Len(ext) : k = Len(Known) + j /\ Known'[k] = ext[j]
      BY <3>2, <1>1, <1>2
    <3> QED
      BY <3>1, <3>2, OldOrNew
  <2> QED
    BY <2>1, <1>1, <1>4
<1>5. CASE i \in DOMAIN given
  <2>1. given[i].outcome = "page" /\ Known'[k].url \in links[given[i].url]
    BY <1>1, <1>3, <1>5, LinksStay
  <2>2. CASE k \in DOMAIN Known /\ Known'[k] = Known[k]
    BY <1>1, <1>2, <1>5, <2>1, <2>2 DEF NoShorter, LinksTo
  <2>3. CASE \E j \in 1 .. Len(ext) : k = Len(Known) + j /\ Known'[k] = ext[j]
    <3>1. PICK j \in 1 .. Len(ext) : Known'[k] = ext[j]
      BY <2>3
    <3>2. given[i].depth <= Head(batch).depth /\ given[i].depth \in Nat
      BY <1>1, <1>5 DEF Sorted
    <3>3. given[i].depth < MaxDepth
      BY <3>2, <1>1, <1>2, CrawlAssumption
    <3>4. links[given[i].url] \subseteq visited \cup refused
      BY <2>1, <3>3, <1>5 DEF Followed
    <3> QED
      BY <3>1, <3>4, <2>1, <1>2
  <2> QED
    BY <2>2, <2>3, OldOrNew
<1> QED
  BY <1>1, <1>4, <1>5

\* A page's links are tried as it is yielded.
LEMMA FollowedByGrowing ==
    ASSUME CrawlTypeOK, EachOnce, Followed, NEW outcome, NEW ext \in Seq(Entry),
           Grows(outcome, ext), Placed(ext), given'[Len(given) + 1].outcome = outcome
    PROVE  Followed'
<1>0. PICK n : n = Len(given) + 1
  OBVIOUS
<1>1. /\ \A i : i \in DOMAIN given' <=> i \in DOMAIN given \/ i = n
      /\ \A i \in DOMAIN given : given'[i] = given[i]
      /\ given'[n].url = Head(batch).url /\ given'[n].depth = Head(batch).depth
  BY <1>0 DEF Placed
<1>2. given'[n].outcome = outcome
  BY <1>0
<1>3. /\ visited \subseteq visited' /\ refused \subseteq refused'
      /\ DOMAIN links' = DOMAIN links \cup IF outcome = "page" THEN {Head(batch).url} ELSE {}
      /\ outcome = "page" /\ Head(batch).depth < MaxDepth
            => links'[Head(batch).url] \subseteq visited' \cup refused'
  BY DEF Grows
<1>4. DOMAIN links = {given[i].url : i \in {i \in DOMAIN given : given[i].outcome = "page"}}
  BY DEF Followed
<1>5. DOMAIN links' = {given'[i].url : i \in {i \in DOMAIN given' : given'[i].outcome = "page"}}
  BY <1>1, <1>2, <1>3, <1>4
<1>6. ASSUME NEW i \in DOMAIN given', given'[i].outcome = "page", given'[i].depth < MaxDepth
      PROVE  links'[given'[i].url] \subseteq visited' \cup refused'
  <2>1. CASE i = n
    BY <1>1, <1>2, <1>3, <1>6, <2>1
  <2>2. CASE i \in DOMAIN given
    <3>1. given[i].outcome = "page" /\ given[i].depth < MaxDepth /\ given'[i] = given[i]
      BY <1>1, <1>6, <2>2
    <3>2. links'[given[i].url] = links[given[i].url]
      BY <2>2, <3>1, LinksStay
    <3>3. links[given[i].url] \subseteq visited \cup refused
      BY <2>2, <3>1 DEF Followed
    <3> QED
      BY <3>1, <3>2, <3>3, <1>3
  <2> QED
    BY <2>1, <2>2, <1>1
<1> QED
  BY <1>5, <1>6 DEF Followed


\* The pages counted are finitely many, and one more item counts at most one more.
LEMMA PagesCount ==
    ASSUME CrawlTypeOK
    PROVE  /\ Pages \in Nat
           /\ \A outcome : Yield(outcome) => Pages' <= Pages + 1 /\ Pages' \in Nat
<1> DEFINE P == {k \in DOMAIN given : given[k].outcome = "page"}
<1>1. given \in Seq(Item) /\ batch \in Seq(Entry)
  BY DEF CrawlTypeOK
<1>2. DOMAIN given = 1 .. Len(given) /\ Len(given) \in Nat
  BY <1>1, Shifted
<1>3. IsFiniteSet(P) /\ Cardinality(P) \in Nat
  <2>1. P \in SUBSET (1 .. Len(given)) /\ IsFiniteSet(1 .. Len(given))
    BY <1>2, FS_Interval
  <2> QED
    BY <2>1, FS_Subset, FS_CardinalityType
<1>4. ASSUME NEW outcome, Yield(outcome) PROVE Pages' <= Pages + 1 /\ Pages' \in Nat
  <2> DEFINE item == [url |-> Head(batch).url, depth |-> Head(batch).depth,
                      outcome |-> outcome]
             n == Len(given) + 1
             Q == {k \in DOMAIN given' : given'[k].outcome = "page"}
  <2>1. given' = Append(given, item)
    BY <1>4 DEF Yield
  <2> HIDE DEF item
  <2>2. /\ DOMAIN given' = DOMAIN given \cup {n}
        /\ \A k \in DOMAIN given : given'[k] = given[k]
    BY <1>1, <1>2, <2>1
  <2>3. Q \in SUBSET (P \cup {n})
    BY <2>2
  <2>4. /\ IsFiniteSet(P \cup {n}) /\ Cardinality(P \cup {n}) \in Nat
        /\ Cardinality(P \cup {n}) <= Cardinality(P) + 1
    <3> HIDE DEF P, n
    <3>1. /\ IsFiniteSet(P \cup {n})
          /\ Cardinality(P \cup {n}) = IF n \in P THEN Cardinality(P) ELSE Cardinality(P) + 1
      BY <1>3, FS_AddElement
    <3> QED
      BY <1>3, <3>1
  <2>5. /\ Cardinality(Q) <= Cardinality(P \cup {n}) /\ Cardinality(Q) \in Nat
    BY <2>3, <2>4, FS_Subset, FS_CardinalityType
  <2>6. Pages' = Cardinality(Q) /\ Pages = Cardinality(P)
    BY DEF Pages
  <2> HIDE DEF P, Q, n
  <2> QED
    BY <1>3, <2>4, <2>5, <2>6
<1> QED
  BY <1>3, <1>4 DEF Pages

\* A batch holds no more than there is room for, and nothing only when nothing is left.
LEMMA BatchFits ==
    ASSUME CrawlTypeOK, NextBatch
    PROVE  /\ Len(batch') <= MaxPages - Pages
           /\ batch' = <<>> => queue' = <<>>
<1>1. queue \in Seq(Entry) /\ Pages < MaxPages
  BY DEF CrawlTypeOK, NextBatch, Fetching
<1>n. PICK n \in DOMAIN queue :
         /\ Taken(n)
         /\ \E pick \in Ascending(Fits(n)) : batch' = [i \in DOMAIN pick |-> queue[pick[i]]]
         /\ queue' = SubSeq(queue, n + 1, Len(queue))
  BY DEF NextBatch
<1>2. PICK pick \in Ascending(Fits(n)) : batch' = [i \in DOMAIN pick |-> queue[pick[i]]]
  BY <1>n
<1>3. n \in 1 .. Len(queue) /\ Len(queue) \in Nat
  BY <1>1, Shifted
<1> DEFINE m == Cardinality(Fits(n))  l == Cardinality(Fits(n - 1))
<1>4. m \in Nat /\ DOMAIN pick = 1 .. m
  BY <1>3, Picked
<1>5. l \in Nat /\ m <= l + 1
  <2>1. Fits(n) \subseteq Fits(n - 1) \cup {n}
    BY <1>3 DEF Fits
  <2>2. IsFiniteSet(Fits(n - 1))
    <3>1. n - 1 \in Int
      BY <1>3
    <3>2. IsFiniteSet(1 .. (n - 1))
      BY <3>1, FS_Interval
    <3>3. Fits(n - 1) \in SUBSET (1 .. (n - 1))
      BY DEF Fits
    <3> QED
      BY <3>2, <3>3, FS_Subset
  <2> DEFINE S == Fits(n - 1)  T == Fits(n)
  <2> HIDE DEF S, T
  <2>3. /\ IsFiniteSet(S) /\ IsFiniteSet(S \cup {n}) /\ T \subseteq S \cup {n}
        /\ Cardinality(S) \in Nat /\ Cardinality(S \cup {n}) \in Nat
    BY <2>1, <2>2, FS_AddElement, FS_CardinalityType DEF S, T
  <2>4. Cardinality(S \cup {n}) = IF n \in S THEN Cardinality(S) ELSE Cardinality(S) + 1
    BY <2>3, FS_AddElement
  <2>5. Cardinality(T) <= Cardinality(S \cup {n})
    BY <2>3, FS_Subset
  <2>6. Cardinality(T) <= Cardinality(S) + 1
    <3> DEFINE c == Cardinality(S \cup {n})
    <3>1. c <= Cardinality(S) + 1
      BY <2>3, <2>4
    <3>2. Cardinality(T) \in Nat
      BY <1>4 DEF T
    <3> QED
      BY <3>1, <3>2, <2>3, <2>5
  <2> QED
    BY <2>3, <2>6 DEF S, T
<1>6. Room \in Int /\ Room > 0 /\ Room <= MaxPages - Pages
  <2> DEFINE a == BatchSize  b == MaxPages - Pages
  <2>1. a \in Int /\ b \in Int /\ a > 0 /\ b > 0
    BY <1>1, PagesCount, CrawlAssumption
  <2> HIDE DEF a, b
  <2>2. Min({a, b}) \in {a, b} /\ Min({a, b}) <= b
    <3>1. \E z \in {a, b} : \A y \in {a, b} : z =< y
      BY <2>1
    <3> QED
      BY <3>1, Zenon DEF Min
  <2>3. Room = Min({a, b})
    BY DEF Room, a, b
  <2> QED
    BY <2>1, <2>2, <2>3 DEF b
<1>7. l < Room /\ (m = Room \/ n = Len(queue))
  BY <1>n DEF Taken
<1> HIDE DEF m, l
<1>8. Len(batch') = m
  BY <1>2, <1>4
<1>9. m <= Room
  BY <1>4, <1>5, <1>6, <1>7
<1>10. ASSUME batch' = <<>> PROVE queue' = <<>>
  <2>1. m = 0
    BY <1>8, <1>10
  <2>2. n = Len(queue)
    BY <2>1, <1>6, <1>7
  <2> QED
    BY <2>2, <1>n, <1>1, <1>3
<1>11. Pages \in Nat /\ MaxPages \in Nat
  BY PagesCount, CrawlAssumption
<1> QED
  BY <1>4, <1>6, <1>8, <1>9, <1>10, <1>11

\* The limit is kept.
LEMMA LimitedStep ==
    ASSUME CrawlTypeOK, CrawlTypeOK', Limited, [CrawlNext]_crvars
    PROVE  Limited'
<1>0. /\ Pages + Len(batch) <= MaxPages /\ Pages \in Nat /\ MaxPages \in Nat
      /\ ended => batch = <<>> /\ (queue = <<>> \/ Pages >= MaxPages)
      /\ Len(batch) \in Nat /\ Len(batch') \in Nat
  BY PagesCount, CrawlAssumption, Shifted DEF Limited, CrawlTypeOK
<1>1. CASE NextBatch
  <2>1. Pages' = Pages
    BY <1>1 DEF NextBatch, Pages
  <2>2. Len(batch') <= MaxPages - Pages /\ (batch' = <<>> => queue' = <<>>)
    BY <1>1, BatchFits
  <2>3. ended' => batch' = <<>>
    BY <1>1 DEF NextBatch
  <2> QED
    BY <2>1, <2>2, <2>3, <1>0 DEF Limited
<1>2. CASE YieldPage \/ YieldFailed \/ YieldSkipped
  <2>1. PICK outcome : Yield(outcome)
    BY <1>2 DEF YieldPage, YieldFailed, YieldSkipped
  <2>2. Pages' <= Pages + 1 /\ Pages' \in Nat
    BY <2>1, PagesCount
  <2>3. batch # <<>> /\ batch' = Tail(batch) /\ ended' = ended
    BY <2>1 DEF Yield
  <2>4. Len(batch') = Len(batch) - 1
    BY <2>3, Shifted DEF CrawlTypeOK
  <2>5. ~ended'
    BY <2>3, <1>0
  <2> QED
    BY <2>2, <2>4, <2>5, <1>0 DEF Limited
<1>3. CASE EndOfCrawl
  <2>1. batch = <<>> /\ (queue = <<>> \/ Pages >= MaxPages)
        /\ UNCHANGED <<batch, queue, given>>
    BY <1>3 DEF EndOfCrawl
  <2>2. Pages' = Pages
    BY <2>1 DEF Pages
  <2> QED
    BY <2>1, <2>2, <1>0 DEF Limited
<1>4. CASE UNCHANGED crvars
  BY <1>4 DEF crvars, Limited, Pages
<1> QED
  BY <1>1, <1>2, <1>3, <1>4 DEF CrawlNext

-------------------------------------------------------------------------------
(* The theorems *)

\* A new batch drops what is excluded and keeps the order, so all that is said of entries in
\* order stays true.
LEMMA KeptByBatch ==
    ASSUME CrawlInv, CrawlTypeOK', NextBatch
    PROVE  EachOnce' /\ Sorted' /\ Queued' /\ NoShorter' /\ Followed'
<1>1. CrawlTypeOK /\ EachOnce /\ Sorted /\ Queued /\ NoShorter /\ Followed
  BY DEF CrawlInv
<1>2. UNCHANGED <<site, links, visited, given, refused>>
  BY DEF NextBatch
<1>3. PICK from \in [DOMAIN Known' -> DOMAIN Known] :
         /\ \A k \in DOMAIN Known' : Known'[k] = Known[from[k]]
         /\ \A i, k \in DOMAIN Known' : i < k => from[i] < from[k]
         /\ \A k \in DOMAIN Known' : IF k <= Len(given) THEN from[k] = k
                                                      ELSE from[k] > Len(given)
         /\ \A k \in DOMAIN Known : Known[k].url \notin Excluded[site]
                                        => \E i \in DOMAIN Known' : from[i] = k
  BY <1>1, BatchShape
<1>4. /\ DOMAIN Known = 1 .. Len(Known) /\ DOMAIN given = 1 .. Len(given)
      /\ Len(given) \in Nat /\ Len(Known) \in Nat
      /\ \A k \in DOMAIN Known : Known[k].depth \in Nat
  BY <1>1, GivenFirst, Shifted
<1>5. \A k \in DOMAIN Known' : k \in Nat
  <2>1. Known' \in Seq(Entry)
    BY <1>1, BatchShape
  <2>2. DOMAIN Known' = 1 .. Len(Known') /\ Len(Known') \in Nat
    BY <2>1, Shifted
  <2> QED
    BY <2>2
<1>6. \A k \in DOMAIN Known' : from[k] \in DOMAIN Known /\ Known'[k] = Known[from[k]]
  BY <1>3
<1>7. EachOnce'
  <2>1. ASSUME NEW i \in DOMAIN Known', NEW k \in DOMAIN Known',
               Known'[i].url = Known'[k].url
        PROVE  i = k
    <3>1. from[i] = from[k]
      BY <1>1, <1>6, <2>1 DEF EachOnce
    <3>2. ~(i < k) /\ ~(k < i)
      BY <3>1, <1>3, <1>4, <1>6
    <3> QED
      BY <3>2, <1>5
  <2>2. ASSUME NEW u \in visited, u \notin Excluded[site]
        PROVE  \E k \in DOMAIN Known' : Known'[k].url = u
    <3>1. PICK k \in DOMAIN Known : Known[k].url = u
      BY <1>1, <2>2 DEF EachOnce
    <3>2. PICK i \in DOMAIN Known' : from[i] = k
      BY <3>1, <2>2, <1>3
    <3> QED
      BY <3>1, <3>2, <1>6
  <2>3. Root \in visited /\ \A k \in DOMAIN Known : Known[k].url \in visited
    BY <1>1 DEF EachOnce
  <2>4. \A k \in DOMAIN Known' : Known'[k].url \in visited
    BY <2>3, <1>6
  <2> QED
    BY <2>1, <2>2, <2>3, <2>4, <1>2 DEF EachOnce
<1>8. Sorted'
  <2> SUFFICES ASSUME NEW i \in DOMAIN Known', NEW k \in DOMAIN Known', i <= k
               PROVE  Known'[i].depth <= Known'[k].depth
    BY DEF Sorted
  <2>1. from[i] <= from[k]
    <3>1. CASE i < k
      BY <3>1, <1>3, <1>4, <1>6
    <3>2. CASE i = k
      BY <3>2, <1>4, <1>6
    <3> QED
      BY <3>1, <3>2, <1>5
  <2> QED
    BY <2>1, <1>1, <1>6 DEF Sorted
<1>9. Queued'
  <2> SUFFICES ASSUME NEW k \in DOMAIN Known'
               PROVE  /\ Known'[k].depth <= MaxDepth
                      /\ Known'[k].url = Root => Known'[k].depth = 0
                      /\ Known'[k].url # Root =>
                            \E i \in DOMAIN given : /\ i < k /\ LinksTo(given[i], Known'[k].url)
                                                    /\ Known'[k].depth = given[i].depth + 1
    BY <1>2 DEF Queued, LinksTo
  <2> DEFINE e == Known'[k]
  <2>1. e = Known[from[k]] /\ from[k] \in DOMAIN Known
    BY <1>6
  <2> HIDE DEF e
  <2>2. e.depth <= MaxDepth /\ (e.url = Root => e.depth = 0)
    BY <1>1, <2>1 DEF Queued
  <2>3. ASSUME e.url # Root
        PROVE  \E i \in DOMAIN given : /\ i < k /\ LinksTo(given[i], e.url)
                                       /\ e.depth = given[i].depth + 1
    <3>1. PICK i \in DOMAIN given : /\ i < from[k] /\ LinksTo(given[i], e.url)
                                    /\ e.depth = given[i].depth + 1
      BY <1>1, <2>1, <2>3 DEF Queued
    <3>2. i < k
      <4>1. CASE k <= Len(given)
        BY <4>1, <3>1, <1>3
      <4>2. CASE ~(k <= Len(given))
        BY <4>2, <1>4, <1>5
      <4> QED
        BY <4>1, <4>2
    <3> QED
      BY <3>1, <3>2
  <2> QED
    BY <2>2, <2>3 DEF e
<1>10. NoShorter'
  BY <1>1, <1>2, <1>6 DEF NoShorter, LinksTo
<1>11. Followed'
  BY <1>1, <1>2 DEF Followed
<1> QED
  BY <1>7, <1>8, <1>9, <1>10, <1>11

\* Initially there is only the root.
LEMMA CrawlInvInit == CrawlInit => CrawlInv
<1> SUFFICES ASSUME CrawlInit PROVE CrawlInv
  OBVIOUS
<1>1. /\ site \in Sites /\ visited = {Root} /\ ended = FALSE /\ refused = {}
      /\ queue = <<[url |-> Root, depth |-> 0]>> /\ batch = <<>> /\ given = <<>> /\ links = <<>>
  BY DEF CrawlInit
<1>2. Root \in Urls
  BY <1>1, CrawlAssumption
<1> DEFINE r == [url |-> Root, depth |-> 0]
<1>3. r \in Entry /\ r.url = Root /\ r.depth = 0
  BY <1>2 DEF Entry
<1> HIDE DEF r
<1>4. /\ queue \in Seq(Entry) /\ batch \in Seq(Entry) /\ given \in Seq(Item)
      /\ Len(queue) = 1 /\ queue[1] = r /\ Len(batch) = 0 /\ Len(given) = 0
      /\ DOMAIN given = {} /\ DOMAIN links = {}
  <2>1. queue = <<r>>
    BY <1>1 DEF r
  <2> QED
    BY <1>1, <1>3, <2>1
<1>5. CrawlTypeOK
  BY <1>1, <1>2, <1>4 DEF CrawlTypeOK
<1>6. Len(Known) = 1 /\ DOMAIN Known = {1} /\ Known[1] = r
  <2>1. Known = Held(given, batch, queue)
    BY DEF Known, Held
  <2>2. Shaped(Known, given, batch, queue)
    BY <1>4, <2>1, KnownShaped
  <2>3. /\ Known \in Seq(Entry) /\ Len(Known) = 0 + 0 + 1
        /\ \A k \in 1 .. Len(Known) : k > 0 + 0 => Known[k] = queue[k - (0 + 0)]
    BY <1>4, <2>2 DEF Shaped
  <2>4. Known[1] = queue[1]
    BY <2>3
  <2> QED
    BY <1>4, <2>3, <2>4, Shifted
<1>7. EachOnce /\ Sorted
  BY <1>1, <1>3, <1>6 DEF EachOnce, Sorted
<1>8. Queued /\ NoShorter
  BY <1>3, <1>4, <1>6, CrawlAssumption DEF Queued, NoShorter
<1>9. Followed
  BY <1>4 DEF Followed
<1>10. Limited
  <2>1. {k \in DOMAIN given : given[k].outcome = "page"} = {}
    BY <1>4
  <2>2. Pages = 0
    BY <2>1, FS_EmptySet DEF Pages
  <2> QED
    BY <2>2, <1>1, <1>4, CrawlAssumption DEF Limited
<1> QED
  BY <1>5, <1>7, <1>8, <1>9, <1>10 DEF CrawlInv

\* Every step of the crawl keeps the invariant.
LEMMA CrawlInvStep == CrawlInv /\ [CrawlNext]_crvars => CrawlInv'
<1> SUFFICES ASSUME CrawlInv, [CrawlNext]_crvars PROVE CrawlInv'
  OBVIOUS
<1>1. CrawlTypeOK /\ EachOnce /\ Sorted /\ Queued /\ NoShorter /\ Followed /\ Limited
  BY DEF CrawlInv
<1>2. CrawlTypeOK'
  BY <1>1, CrawlTypeStep
<1>3. Limited'
  BY <1>1, <1>2, LimitedStep
<1>4. CASE NextBatch
  BY <1>2, <1>3, <1>4, KeptByBatch DEF CrawlInv
<1>5. CASE YieldPage \/ YieldFailed \/ YieldSkipped
  <2>1. PICK outcome \in {"page", "failed", "skipped"}, ext \in Seq(Entry) :
           Grows(outcome, ext)
    BY <1>1, <1>5, YieldGrows
  <2>2. Placed(ext) /\ given'[Len(given) + 1].outcome = outcome
    BY <1>1, <1>2, <2>1, GrowsPlaced
  <2>3. EachOnce'
    BY <1>1, <2>1, <2>2, OnceByGrowing
  <2>4. Sorted'
    BY <1>1, <2>1, <2>2, SortedByGrowing
  <2>5. Queued'
    BY <1>1, <2>1, <2>2, QueuedByGrowing
  <2>6. NoShorter'
    BY <1>1, <2>1, <2>2, NoShorterByGrowing
  <2>7. Followed'
    BY <1>1, <2>1, <2>2, FollowedByGrowing
  <2> QED
    BY <1>2, <1>3, <2>3, <2>4, <2>5, <2>6, <2>7 DEF CrawlInv
<1>6. CASE EndOfCrawl \/ UNCHANGED crvars
  <2>1. UNCHANGED <<site, links, visited, queue, batch, given, refused>>
    BY <1>6 DEF EndOfCrawl, crvars
  <2>2. Known' = Known
    BY <2>1 DEF Known
  <2>3. EachOnce' /\ Sorted' /\ Queued' /\ NoShorter' /\ Followed'
    BY <1>1, <2>1, <2>2 DEF EachOnce, Sorted, Queued, NoShorter, Followed, LinksTo
  <2> QED
    BY <1>2, <1>3, <2>3 DEF CrawlInv
<1> QED
  BY <1>4, <1>5, <1>6 DEF CrawlNext

\* The invariant of the crawl.
LEMMA CrawlSound == CrawlSpec => []CrawlInv
BY CrawlInvInit, CrawlInvStep, PTL DEF CrawlSpec

\* No URL is fetched twice, and no batch asks for more pages than max_pages leaves.
THEOREM FetchesOnce == CrawlSpec => []FetchedOnce
<1>1. CrawlInv => FetchedOnce
  <2> SUFFICES ASSUME CrawlInv PROVE FetchedOnce
    OBVIOUS
  <2>1. Pages + Len(batch) <= MaxPages
    BY DEF CrawlInv, Limited
  <2>2. \A i, k \in DOMAIN Known : Known[i].url = Known[k].url => i = k
    BY DEF CrawlInv, EachOnce
  <2> HIDE DEF Known
  <2>3. IsInjective([k \in DOMAIN Known |-> Known[k].url])
    BY <2>2 DEF IsInjective
  <2> QED
    BY <2>1, <2>3 DEF FetchedOnce
<1> QED
  BY <1>1, CrawlSound, PTL

\* Batches that are fetched at once search breadth first all the same: the depth that decides
\* whether a page's links are followed is its distance from the root.
THEOREM DepthsAreDistances == CrawlSpec => []DepthIsDistance
<1>1. CrawlInv => DepthIsDistance
  BY DEF CrawlInv, Queued, NoShorter, LinksTo, DepthIsDistance
<1> QED
  BY <1>1, CrawlSound, PTL

\* A crawl that ends below max_pages has tried every link it should have followed.
THEOREM NothingIsMissed == CrawlSpec => []NothingMissed
<1>1. CrawlInv => NothingMissed
  <2> SUFFICES ASSUME CrawlInv, ended, Pages < MaxPages,
                      NEW i \in DOMAIN given, given[i].outcome = "page",
                      given[i].depth < MaxDepth
               PROVE  links[given[i].url]
                         \subseteq refused \cup Excluded[site] \cup {g.url : g \in ToSet(given)}
    BY DEF NothingMissed, ToSet
  <2>1. CrawlTypeOK /\ EachOnce /\ Followed /\ Limited
    BY DEF CrawlInv
  <2>2. batch = <<>> /\ queue = <<>>
    BY <2>1, PagesCount, CrawlAssumption DEF Limited
  <2>3. Len(Known) = Len(given) /\ DOMAIN Known = DOMAIN given
        /\ \A k \in DOMAIN given : Known[k].url = given[k].url
    <3>1. Len(batch) = 0 /\ Len(queue) = 0
      BY <2>2
    <3> QED
      BY <2>1, <3>1, GivenFirst
  <2>4. links[given[i].url] \subseteq visited \cup refused
    BY <2>1 DEF Followed
  <2>5. \A u \in visited : u \in Excluded[site] \/ \E k \in DOMAIN given : given[k].url = u
    BY <2>1, <2>3 DEF EachOnce
  <2> QED
    BY <2>4, <2>5 DEF ToSet
<1> QED
  BY <1>1, CrawlSound, PTL

-------------------------------------------------------------------------------
(***************************************************************************)
(* A crawl job with its crawler.  Seen from the crawler, the job takes     *)
(* steps of a crawl; seen from the job table, steps of the pipeline.       *)
(***************************************************************************)
\* The handler drives the crawl only by its own steps.
LEMMA SiteIsCrawl == SiteSpec => CrawlSpec
<1>1. SiteInit => CrawlInit
  BY DEF SiteInit
<1>2. [SiteNext]_scvars => [CrawlNext]_crvars
  <2>1. Search => CrawlNext
    BY DEF Search, CrawlNext
  <2>2. Alone => CrawlNext
    BY DEF Alone, CrawlNext
  <2>3. Consume => CrawlNext
    BY DEF Consume, CrawlNext
  <2>4. NothingCame \/ Elsewhere => UNCHANGED crvars
    BY DEF NothingCame, Elsewhere
  <2>5. UNCHANGED scvars => UNCHANGED crvars
    BY DEF scvars
  <2> QED
    BY <2>1, <2>2, <2>3, <2>4, <2>5 DEF SiteNext
<1> QED
  BY <1>1, <1>2, PTL DEF SiteSpec, CrawlSpec

\* What the crawl feeds the handler, it takes as a step of the pipeline.
LEMMA SiteIsPipeline == SiteSpec => PipeSpec
<1>1. SiteInit => PipeInit
  BY DEF SiteInit
<1>2. [SiteNext]_scvars => [PipeNext]_pvars
  <2>1. Search \/ Alone => UNCHANGED pvars
    BY DEF Search, Alone
  <2>2. Crawler \in Jobs /\ Attempt \in Tries
    BY SiteCrawlAssumption
  <2>3. Consume => PipeNext \/ UNCHANGED pvars
    <3> SUFFICES ASSUME Consume PROVE Handler(Crawler, Attempt) \/ UNCHANGED pvars
      BY <2>2 DEF PipeNext
    <3>1. CASE \E k \in Jobs : CrawledPage(Crawler, Attempt, k)
      BY <3>1 DEF Handler
    <3>2. CASE FailedPage(Crawler, Attempt, Head(batch).url)
      <4>1. Head(batch).url \in Sources
        BY <3>2, PipelineAssumption DEF FailedPage
      <4> QED
        BY <3>2, <4>1 DEF Handler
    <3>3. CASE NoRootPage(Crawler, Attempt) \/ UNCHANGED pvars
      BY <3>3 DEF Handler
    <3> QED
      BY <3>1, <3>2, <3>3 DEF Consume
  <2>4. NothingCame => PipeNext
    BY <2>2 DEF NothingCame, PipeNext, Handler
  <2>5. Elsewhere => PipeNext
    BY DEF Elsewhere
  <2>6. UNCHANGED scvars => UNCHANGED pvars
    BY DEF scvars
  <2> QED
    BY <2>1, <2>3, <2>4, <2>5, <2>6 DEF SiteNext
<1> QED
  BY <1>1, <1>2, PTL DEF SiteSpec, PipeSpec

\* So, however crawls, pages' jobs and requests interleave, the sources keep what the
\* pipeline promises of them, and the job's pace changes nothing of what the crawl promises.
COROLLARY SiteKeepsBoth ==
  SiteSpec => [](/\ CompleteWasIngested /\ BusyIsAttended /\ FailedHasCause
                 /\ FetchedOnce /\ DepthIsDistance /\ NothingMissed)
BY SiteIsCrawl, SiteIsPipeline, CompletionsIngested, SpinnersAttended, FailuresCaused,
   FetchesOnce, DepthsAreDistances, NothingIsMissed, PTL
===============================================================================
