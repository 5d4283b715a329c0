------------------------------- MODULE Retrieval -------------------------------
(***************************************************************************)
(* retrieve_chunks: keyword search, vector search, reciprocal rank fusion, *)
(* reranking and the expansion of hits by their neighbours, against        *)
(* ingests that replace a source's chunks between its queries.  Which rows *)
(* match, and how they rank, is left open.                                 *)
(***************************************************************************)
EXTENDS Integers, SequencesExt, FiniteSetsExt

CONSTANTS
    Sources,      \* source_identifiers of one model
    MaxVersion,   \* bound: MaxVersion[s]: ingests of source s
    MaxChunks,    \* bound: chunks of a source
    Candidates,   \* candidate_limit
    TopK,         \* the model's top_k
    Limit,        \* the caller's limit
    Radius        \* neighbor_radius

ASSUME RetrievalAssumption ==
    MaxVersion \in [Sources -> Nat] /\ {MaxChunks, Candidates, TopK, Limit, Radius} \subseteq Nat

VARIABLES
    table,     \* content_chunks
    version,   \* how often a source has been ingested
    stage,     \* where the retrieval is
    keyword,   \* the rows of the keyword search, best first
    vector,    \* those of the vector search
    merged,    \* the candidates after the fusion
    hits,      \* after reranking and the caller's limit
    result,    \* after the expansion
    replaced   \* history: the sources ingested since the first search

found == <<keyword, vector, merged, hits, result>>
rvars == <<table, version, stage, found, replaced>>

Place(r) == <<r.source, r.position>>

RetrievalInit ==
    /\ table = {} /\ replaced = {}
    /\ version = [s \in Sources |-> 0]
    /\ stage = "keyword"
    /\ keyword = <<>> /\ vector = <<>> /\ merged = <<>> /\ hits = <<>> /\ result = <<>>

\* ingest_content commits: all chunks of the source are new rows.  Bound: no ingest that
\* neither finds nor leaves any.
Ingest(s, n) ==
    /\ version[s] < MaxVersion[s]
    /\ n = 0 => \E r \in table : r.source = s
    /\ version' = [version EXCEPT ![s] = @ + 1]
    /\ table' = {r \in table : r.source # s}
                    \cup {[source |-> s, position |-> p, version |-> version'[s]] : p \in 0 .. n - 1}
    /\ replaced' = IF stage = "keyword" THEN replaced ELSE replaced \cup {s}
    /\ UNCHANGED <<stage, found>>
-------------------------------------------------------------------------------
(* The retrieval *)

Step(from, to) == stage = from /\ stage' = to /\ UNCHANGED <<table, version, replaced>>

\* The rankings of n of the rows.
Rankings(rows, n) == {r \in [1 .. n -> rows] : IsInjective(r)}

\* No row matches, too, if keyword search is off or the query blank.
KeywordSearch ==
    /\ Step("keyword", "vector")
    /\ \E n \in 0 .. Min({Candidates, Cardinality(table)}) : keyword' \in Rankings(table, n)
    /\ UNCHANGED <<vector, merged, hits, result>>

\* Every row has a distance.
VectorSearch ==
    /\ Step("vector", "merge")
    /\ vector' \in Rankings(table, Min({Candidates, Cardinality(table)}))
    /\ UNCHANGED <<keyword, merged, hits, result>>

\* The embedding or a query fails, and the request with it.
QueryFails == /\ \E from \in {"keyword", "vector", "expand"} : Step(from, "failed")
              /\ UNCHANGED found

RRF_K == 60

\* The rank of a row in a list, 0 without one.
Rank(r, list) == IF r \in ToSet(list) THEN CHOOSE k \in DOMAIN list : list[k] = r ELSE 0

\* 1 / (RRF_K + rank) as a fraction.
Share(rank) == IF rank = 0 THEN <<0, 1>> ELSE <<1, RRF_K + rank>>

Plus(p, q)  == <<p[1] * q[2] + q[1] * p[2], p[2] * q[2]>>
Above(p, q) == p[1] * q[2] > q[1] * p[2]

\* Mutant: the better of the two ranks counts.
Score_Best(r) == LET v == Share(Rank(r, vector))  k == Share(Rank(r, keyword))
                 IN  IF Above(v, k) THEN v ELSE k

Score(r) == Plus(Share(Rank(r, vector)), Share(Rank(r, keyword)))

\* Rows of equal score stay in the order in which they were met, vector rows first.
Met(r) == IF r \in ToSet(vector) THEN Rank(r, vector) ELSE Len(vector) + Rank(r, keyword)

Before(r, q) == \/ Above(Score(r), Score(q))
                \/ ~Above(Score(q), Score(r)) /\ Met(r) < Met(q)

Found == ToSet(vector) \cup ToSet(keyword)

\* The rows found, sorted: the k-th is the one with k - 1 before it.
Fused == [k \in 1 .. Cardinality(Found) |->
            CHOOSE r \in Found : Cardinality({q \in Found : Before(q, r)}) = k - 1]

FirstOf(list, n) == SubSeq(list, 1, Min({n, Len(list)}))

RrfMerge ==
    /\ Step("merge", "rerank")
    /\ merged' = FirstOf(Fused, Candidates)
    /\ UNCHANGED <<keyword, vector, hits, result>>

\* At most one candidate is not reranked; a failed rerank leaves the fusion's order;
\* otherwise the reranker orders top_k of them, and those below the threshold go.
Reranked == IF Len(merged) <= 1 THEN {merged}
            ELSE {FirstOf(merged, TopK)}
                    \cup UNION {Rankings(ToSet(merged), n) : n \in 0 .. Min({TopK, Len(merged)})}

RerankChunks ==
    /\ Step("rerank", "expand")
    /\ \E list \in Reranked : hits' = FirstOf(list, Limit)
    /\ UNCHANGED <<keyword, vector, merged, result>>

Near(r, q) == r.source = q.source /\ r.position - q.position \in -Radius .. Radius

Held(r) == \E k \in DOMAIN hits : Place(hits[k]) = Place(r)

\* The stored rows near a hit, at places no hit holds.
Neighbours(r) == {q \in table : Near(q, r) /\ ~Held(q)}

\* The k-th hit brings its neighbours and itself; what an earlier one brought is passed over.
Brings(k, q)  == q = hits[k] \/ q \in Neighbours(hits[k])
Bringer(q)    == CHOOSE k \in DOMAIN hits : Brings(k, q) /\ \A j \in 1 .. k - 1 : ~Brings(j, q)

\* Mutant: a hit comes before all its neighbours.
Earlier_HitFirst(p, q) ==
    \/ Bringer(p) < Bringer(q)
    \/ /\ Bringer(p) = Bringer(q) /\ q # hits[Bringer(q)]
       /\ p = hits[Bringer(p)] \/ p.position < q.position

Earlier(p, q) == \/ Bringer(p) < Bringer(q)
                 \/ Bringer(p) = Bringer(q) /\ p.position < q.position

Brought == {q \in ToSet(hits) \cup table : \E k \in DOMAIN hits : Brings(k, q)}

\* The rows brought, hit by hit, each hit among its neighbours by position.
Expanded == [n \in 1 .. Cardinality(Brought) |->
               CHOOSE q \in Brought : Cardinality({p \in Brought : Earlier(p, q)}) = n - 1]

ExpandNeighbours ==
    /\ Step("expand", "done")
    /\ result' = Expanded
    /\ UNCHANGED <<keyword, vector, merged, hits>>

Retrieve == \/ KeywordSearch \/ VectorSearch \/ QueryFails
            \/ RrfMerge \/ RerankChunks \/ ExpandNeighbours

RetrievalNext == Retrieve \/ \E s \in Sources, n \in 0 .. MaxChunks : Ingest(s, n)

RetrievalSpec == RetrievalInit /\ [][RetrievalNext]_rvars
-------------------------------------------------------------------------------
(* Properties *)

\* Row r is found wherever q is, and not behind it.
NoWorse(r, q, list) == Rank(q, list) # 0 => Rank(r, list) \in 1 .. Rank(q, list)

\* A row no worse than another in both searches is not behind it after the fusion, and is
\* not cut in its favour; nor is a row that both searches found in favour of one that only
\* one of them did (_rrf_merge, while candidate_limit is below RRF_K + 2).
RanksRespected ==
    stage = "rerank" =>
        LET Better(r, q) == \/ NoWorse(r, q, vector) /\ NoWorse(r, q, keyword)
                            \/ /\ Candidates < RRF_K + 2
                               /\ r \in ToSet(vector) \cap ToSet(keyword)
                               /\ q \notin ToSet(vector) \cap ToSet(keyword)
        IN  \A r, q \in Found :
                r # q /\ Better(r, q) /\ q \in ToSet(merged) =>
                    r \in ToSet(merged) /\ Rank(r, merged) < Rank(q, merged)

\* No row is in the result twice, and no two rows of one place unless its source was
\* ingested anew during the retrieval.
OnePerPlace ==
    \A j, k \in DOMAIN result : j < k =>
        /\ result[j] # result[k]
        /\ Place(result[j]) = Place(result[k]) => result[j].source \in replaced

\* The expansion of the hits by their neighbours (_expand_neighbours): no hit is displaced,
\* nothing is there twice; whatever is not a hit is a neighbour of one, and stands beside it
\* in the order of the text; and unless an ingest came in between, every hit has all its
\* neighbours.
ContextWhole ==
    stage = "done" =>
        LET Beside(j, k) == \A i \in Min({j, k}) .. Max({j, k}) - 1 :
                                /\ result[i].source = result[i + 1].source
                                /\ result[i].position < result[i + 1].position
        IN  /\ \A j, k \in DOMAIN hits : j <= k => Rank(hits[j], result) \in 1 .. Rank(hits[k], result)
            /\ OnePerPlace
            /\ \A j \in DOMAIN result : \E k \in DOMAIN result :
                    result[k] \in ToSet(hits) /\ Near(result[j], result[k]) /\ Beside(j, k)
            /\ \A h \in ToSet(hits) : h.source \notin replaced =>
                    {r \in table : Near(r, h)} \subseteq ToSet(result)
===============================================================================
