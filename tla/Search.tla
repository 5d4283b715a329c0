--------------------------------- MODULE Search ---------------------------------
(***************************************************************************)
(* From a text to the answer's context: a page's text is chunked, its      *)
(* chunks become rows whose positions are the chunks' own, and a retrieval *)
(* searches them while other ingests replace them.                         *)
(***************************************************************************)
EXTENDS Chunker, Retrieval

CONSTANTS
    Page,       \* the source the text belongs to
    Searched    \* bound: the texts that are searched, the others are chunked only

ASSUME SearchAssumption == Page \in Sources /\ Searched \subseteq Docs

svars == <<cvars, rvars>>

SearchInit == ChunkInit /\ RetrievalInit

ChunkStep == ChunkNext /\ UNCHANGED rvars

Published == version[Page] > 0

\* ingest_content stores one row for each ChunkResult.
Publish == /\ phase = "done" /\ doc \in Searched /\ ~Published
           /\ Ingest(Page, Len(chunks))
           /\ UNCHANGED cvars

RetrievalStep == /\ Published
                 /\ RetrievalNext
                 /\ UNCHANGED cvars

SearchNext == ChunkStep \/ Publish \/ RetrievalStep

SearchSpec == SearchInit /\ [][SearchNext]_svars
===============================================================================
