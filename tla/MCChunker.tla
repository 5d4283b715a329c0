------------------------------- MODULE MCChunker -------------------------------
(***************************************************************************)
(* Texts for the chunks: a few lines, each of a kind, a level and a size.  *)
(***************************************************************************)
EXTENDS Chunker, TLC

Shape(kind, level, size) == [kind |-> kind, level |-> level, size |-> size]

H1     == Shape("heading", 1, 1)
H2     == Shape("heading", 2, 1)
Text   == Shape("text", 1, 2)
Blank  == Shape("blank", 1, 0)
Ticks  == Shape("ticks", 1, 1)
Tildes == Shape("tildes", 1, 1)
Long   == {Shape("heading", 2, 7), Shape("text", 1, 8)}

\* The lines of these shapes, with a newline after each.
Lines(shapes) ==
    LET From(k) == FoldLeft(LAMBDA n, shape : n + shape.size + 1, 0, SubSeq(shapes, 1, k - 1))
    IN  [k \in DOMAIN shapes |-> [kind |-> shapes[k].kind, level |-> shapes[k].level,
                                  start |-> From(k), stop |-> From(k) + shapes[k].size]]

\* At most n lines, at most one of them too long for a chunk.
Some(shapes, n) == {d \in BoundedSeq(shapes \cup Long, n) :
                       Cardinality({k \in DOMAIN d : d[k] \in Long}) <= 1}

\* No blank line, and one sort of fence, in a text of four lines.
MCDocs == {Lines(d) : d \in Some({H1, H2, Text, Ticks}, 4)
                               \cup Some({H1, H2, Text, Ticks, Tildes, Blank}, 3)}

\* Fenced blocks of both sorts, with headings and comments.
FencedDocs == {Lines(d) : d \in BoundedSeq({H1, Text, Ticks, Tildes}, 4)}
===============================================================================
