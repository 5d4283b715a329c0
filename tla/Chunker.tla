-------------------------------- MODULE Chunker --------------------------------
(***************************************************************************)
(* chunk_text: the lines of a Markdown text become blocks, blocks become   *)
(* pieces that fit, pieces become chunks; one action per iteration of each *)
(* of its three loops.  A line is its kind and where it starts and stops.  *)
(* Where a text can be cut, and where an overlap snaps to, is left open.   *)
(***************************************************************************)
EXTENDS Integers, SequencesExt

CONSTANTS
    Docs,         \* the texts: sequences of lines
    ChunkSize,
    ChunkOverlap

\* The two sorts of fence markers: three backticks, three tildes.
Fence == {"ticks", "tildes"}
Line  == [kind : {"heading", "text", "blank"} \cup Fence, level : 1 .. 6, start : Nat, stop : Nat]

ASSUME ChunkerAssumption ==
    /\ Docs \subseteq Seq(Line)
    /\ \A d \in Docs : \A k \in DOMAIN d :
          /\ d[k].start <= d[k].stop
          /\ d[k].kind # "blank" => d[k].start < d[k].stop
          /\ \A m \in 1 .. k - 1 : d[m].stop < d[k].start
    /\ ChunkSize \in Nat \ {0} /\ ChunkOverlap \in Nat

VARIABLES
    doc,      \* the text
    phase,    \* the loop that runs: "parse", "size", "merge", or "done"
    at,       \* how many lines have been parsed
    stack,    \* the headings in force, as line numbers
    open,     \* the first line of the buffer, which ends at line at; 0: empty
    fenced,   \* in_fence
    blocks,   \* blocks parsed and not yet sized
    off,      \* pos: how much of Head(blocks) has been cut off
    sized,    \* blocks that fit and are not yet merged
    current,  \* the chunk in the making
    seed,     \* the length of the overlap it begins with
    chunks

parsing == <<doc, at, stack, open, fenced>>
cvars   == <<parsing, phase, blocks, off, sized, current, seed, chunks>>

Nothing == [blocks |-> <<>>, heads |-> 0, prose |-> 0]

\* Two texts joined by a blank line.
Joined(m, n) == IF m = 0 \/ n = 0 THEN m + n ELSE m + 2 + n

ChunkInit ==
    /\ doc \in Docs
    /\ phase = "parse"
    /\ at = 0 /\ open = 0 /\ off = 0 /\ seed = 0
    /\ fenced = FALSE
    /\ stack = <<>> /\ blocks = <<>> /\ sized = <<>> /\ chunks = <<>>
    /\ current = Nothing
-------------------------------------------------------------------------------
(* _parse_blocks *)

\* The length of the lines first to last joined by newlines.
Length(first, last) == doc[last].stop - doc[first].start

Block(first, last, path, head) ==
    [first |-> first, last |-> last, off |-> 0, size |-> Length(first, last),
     path |-> path, head |-> head]

\* flush, then add the blocks bs.  Blank lines at the end of an open fence are stripped.
Flush(bs) ==
    IF open = 0 THEN blocks' = blocks \o bs
    ELSE \E last \in open .. at :
            /\ doc[last].kind # "blank"
            /\ \A k \in last + 1 .. at : doc[k].kind = "blank"
            /\ blocks' = Append(blocks, Block(open, last, stack, FALSE)) \o bs

\* Mutant: a heading closes only the deeper ones, not its siblings.
Kept_Deeper(n, level) == /\ n > 0 => doc[stack[n]].level <= level
                         /\ \A k \in n + 1 .. Len(stack) : doc[stack[k]].level > level

\* The n headings a new one leaves on the stack.
Kept(n, level) == /\ n > 0 => doc[stack[n]].level < level
                  /\ \A k \in n + 1 .. Len(stack) : doc[stack[k]].level >= level

\* The next line, which is of one of the kinds.
Reads(kinds) == /\ phase = "parse" /\ at < Len(doc)
                /\ doc[at + 1].kind \in kinds
                /\ at' = at + 1
                /\ UNCHANGED <<doc, phase, off, sized, current, seed, chunks>>

Buffered == open' = IF open = 0 THEN at + 1 ELSE open

\* A fence marker, of either sort, or whatever stands between two of them.
ReadVerbatim == /\ Reads({"heading", "text", "blank"} \cup Fence)
                /\ fenced \/ doc[at + 1].kind \in Fence
                /\ fenced' = (fenced # (doc[at + 1].kind \in Fence))
                /\ Buffered
                /\ UNCHANGED <<stack, blocks>>

ReadHeading == /\ Reads({"heading"}) /\ ~fenced
               /\ \E n \in 0 .. Len(stack) :
                     /\ Kept(n, doc[at + 1].level)
                     /\ stack' = Append(SubSeq(stack, 1, n), at + 1)
                     /\ Flush(<<Block(at + 1, at + 1, stack', TRUE)>>)
               /\ open' = 0
               /\ UNCHANGED fenced

ReadBlank == /\ Reads({"blank"}) /\ ~fenced
             /\ Flush(<<>>)
             /\ open' = 0
             /\ UNCHANGED <<stack, fenced>>

ReadText == /\ Reads({"text"}) /\ ~fenced
            /\ Buffered
            /\ UNCHANGED <<stack, fenced, blocks>>

EndOfText == /\ phase = "parse" /\ at = Len(doc)
             /\ phase' = "size"
             /\ Flush(<<>>)
             /\ open' = 0
             /\ UNCHANGED <<doc, at, stack, fenced, off, sized, current, seed, chunks>>
-------------------------------------------------------------------------------
(* _enforce_max_size *)

Sizing == phase = "size" /\ blocks # <<>>

\* The next piece, the position behind it, and the blocks left.
Size(piece, pos, rest) == /\ sized' = Append(sized, piece)
                          /\ off' = pos
                          /\ blocks' = rest
                          /\ UNCHANGED <<parsing, phase, current, seed, chunks>>

\* Part of the first block; a part of a heading is no heading.
Piece(size) == [Head(blocks) EXCEPT !.off = off, !.size = size, !.head = FALSE]

Keep == /\ Sizing /\ Head(blocks).size <= ChunkSize
        /\ Size(Head(blocks), 0, Tail(blocks))

\* A cut short of the window is at white space, which is skipped.
Cut == /\ Sizing /\ Head(blocks).size - off > ChunkSize
       /\ \E size \in 1 .. ChunkSize, gap \in 0 .. 1 :
             /\ size < ChunkSize => gap = 1
             /\ off + size + gap < Head(blocks).size
             /\ Size(Piece(size), off + size + gap, blocks)

CutTail == /\ Sizing
           /\ Head(blocks).size > ChunkSize /\ Head(blocks).size - off <= ChunkSize
           /\ Size(Piece(Head(blocks).size - off), 0, Tail(blocks))

EndOfBlocks == /\ phase = "size" /\ blocks = <<>>
               /\ phase' = "merge"
               /\ UNCHANGED <<parsing, blocks, off, sized, current, seed, chunks>>
-------------------------------------------------------------------------------
(* _merge_into_chunks *)

\* Mutant: headings do not wait for the prose below them.
AllHeads_Never(bs) == bs = <<>>
AllHeads(bs) == \A k \in DOMAIN bs : bs[k].head

Whole(c) == Joined(c.heads, c.prose)

With(c, b) == [blocks |-> Append(c.blocks, b),
               heads  |-> IF b.head THEN Joined(c.heads, b.size) ELSE c.heads,
               prose  |-> IF b.head THEN c.prose ELSE Joined(c.prose, b.size)]

Fits(b) == seed + Joined(Whole(current), b.size) + 2 <= ChunkSize

\* The first prose, or the last heading, gives the chunk its path.
Situating(bs, k) == /\ \A i \in 1 .. k - 1 : bs[i].head
                    /\ ~bs[k].head \/ k = Len(bs)

Emit == \E k \in DOMAIN current.blocks :
           /\ Situating(current.blocks, k)
           /\ chunks' = Append(chunks, [blocks |-> current.blocks, heads |-> current.heads,
                                        prose |-> current.prose, seed |-> seed,
                                        path |-> current.blocks[k].path])

\* Mutant: as much overlap as the settings say, whatever comes next.
Overlaps_Unbounded(b) == {0} \cup 1 .. ChunkOverlap

\* _overlap_tail: short of the budget, since the slice is cut at a boundary inside it.
Overlaps(b) == LET Below(n) == 1 .. n - 1
               IN  {0} \cup (Below(ChunkOverlap) \cap Below(ChunkSize - b.size - 2)
                                \cap Below(Joined(seed, Whole(current))))

Merges == /\ phase = "merge" /\ sized # <<>>
          /\ sized' = Tail(sized)
          /\ UNCHANGED <<parsing, phase, blocks, off>>

Take == LET b == Head(sized) IN
    /\ Merges
    /\ AllHeads(current.blocks) \/ (~b.head /\ Fits(b))
    /\ current' = With(current, b)
    /\ UNCHANGED <<seed, chunks>>

\* Mutant: the overlap is carried into the next section.
NewSection_Overlaps == LET b == Head(sized) IN
    /\ Merges
    /\ ~AllHeads(current.blocks) /\ b.head
    /\ Emit
    /\ current' = With(Nothing, b)
    /\ seed' \in Overlaps(b)

NewSection == LET b == Head(sized) IN
    /\ Merges
    /\ ~AllHeads(current.blocks) /\ b.head
    /\ Emit
    /\ current' = With(Nothing, b)
    /\ seed' = 0

\* Mutant: the block that did not fit is dropped.
Overflow_Drops == LET b == Head(sized) IN
    /\ Merges
    /\ ~AllHeads(current.blocks) /\ ~b.head /\ ~Fits(b)
    /\ Emit
    /\ current' = Nothing
    /\ seed' \in Overlaps(b)

Overflow == LET b == Head(sized) IN
    /\ Merges
    /\ ~AllHeads(current.blocks) /\ ~b.head /\ ~Fits(b)
    /\ Emit
    /\ current' = With(Nothing, b)
    /\ seed' \in Overlaps(b)

Finish == /\ phase = "merge" /\ sized = <<>>
          /\ phase' = "done"
          /\ IF current.blocks = <<>> THEN UNCHANGED chunks ELSE Emit
          /\ current' = Nothing
          /\ seed' = 0
          /\ UNCHANGED <<parsing, blocks, off, sized>>

ChunkNext == \/ ReadVerbatim \/ ReadHeading \/ ReadBlank \/ ReadText \/ EndOfText
             \/ Keep \/ Cut \/ CutTail \/ EndOfBlocks
             \/ Take \/ NewSection \/ Overflow \/ Finish

ChunkSpec == ChunkInit /\ [][ChunkNext]_cvars
-------------------------------------------------------------------------------
(* Properties *)

\* The sort of the fenced block that is open after line i: it begins at a marker outside
\* any block and ends at the next marker of its own sort.
Opened ==
    LET sort[i \in 0 .. Len(doc)] ==
            IF i = 0 THEN "none"
            ELSE IF doc[i].kind \notin Fence THEN sort[i - 1]
            ELSE IF sort[i - 1] = "none" THEN doc[i].kind
            ELSE IF sort[i - 1] = doc[i].kind THEN "none"
            ELSE sort[i - 1]
    IN  sort

\* Markup: a heading line outside every fenced block.
Marked(i) == doc[i].kind = "heading" /\ Opened[i] = "none"

\* A marker that is nothing but a line of the other sort's block.
Foreign(i) == doc[i].kind \in Fence /\ Opened[i - 1] \notin {"none", doc[i].kind}

\* The headings line i stands under: none at its level or above came after them.
Section(i) == {h \in 1 .. i : /\ Marked(h)
                              /\ \A g \in h + 1 .. i : Marked(g) => doc[g].level > doc[h].level}

\* The blocks, wherever they have come to.
Emitted == UNION {ToSet(chunks[k].blocks) : k \in DOMAIN chunks}
Parts   == Emitted \cup ToSet(current.blocks) \cup ToSet(sized) \cup ToSet(blocks)

\* Its path is the headings the whole text puts it under, and it straddles none.
Situated(b) ==
    /\ ToSet(b.path) = Section(b.first)
    /\ \A m \in DOMAIN b.path, n \in DOMAIN b.path : m < n => b.path[m] < b.path[n]
    /\ \A i \in b.first .. b.last : Marked(i) => i = b.first /\ b.first = b.last
    /\ b.head => Marked(b.first)

\* The one pass over the lines, with its stack, flushes and fence flag, gives every block
\* the headings the whole text puts it under, outermost first, and no block straddles a
\* heading; a comment in a fenced block opens no section (_parse_blocks).  It holds as far
\* as no block of one sort has a marker of the other sort in it.
PathsAreTrue == \A b \in Parts : (\A i \in 1 .. b.last : ~Foreign(i)) => Situated(b)

\* Inside a fenced code block nothing is markup: a shell comment is not a heading.
CommentsOpenNoSection == \A b \in Parts : b.head => Marked(b.first)

Ends(b) == b.off + b.size = Length(b.first, b.last)

\* Between b and c there are only blank lines, or the character at a cut.
Follows(b, c) == \/ b.first = c.first /\ c.off \in b.off + b.size .. b.off + b.size + 1
                 \/ Ends(b) /\ c.off = 0 /\ b.last < c.first

\* Every line of text is in a chunk, in order and with nothing but white space between the
\* pieces of a block, overlaps aside, however blocks were cut and packed.
NothingLost ==
    phase = "done" =>
        /\ \A i \in DOMAIN doc : doc[i].kind # "blank" => \E b \in Emitted : i \in b.first .. b.last
        /\ chunks # <<>> => chunks[1].blocks[1].off = 0
        /\ \A k \in DOMAIN chunks : LET bs == chunks[k].blocks IN
              /\ \A m \in 1 .. Len(bs) - 1 : Follows(bs[m], bs[m + 1])
              /\ IF k = Len(chunks) THEN Ends(Last(bs))
                 ELSE Follows(Last(bs), chunks[k + 1].blocks[1])

\* A heading as the flag has it: behind an even number of markers, of either sort.
Markers(i) == {k \in 1 .. i : doc[k].kind \in Fence}
Headed(i)  == doc[i].kind = "heading" /\ Cardinality(Markers(i)) % 2 = 0

\* A piece of a heading too long for a chunk.
SplitHeading(b) == ~b.head /\ Headed(b.first)
Unsplit(c) == \A k \in DOMAIN c.blocks : ~SplitHeading(c.blocks[k])

\* All the prose of a chunk, and the overlap it begins with, stand under the heading path
\* the chunk is stored with, unless a heading had to be cut into pieces: those no longer
\* count as headings, and the sections around them run together.
SectionsKept ==
    \A k \in DOMAIN chunks : Unsplit(chunks[k]) =>
        /\ \A b \in ToSet(chunks[k].blocks) : ~b.head => b.path = chunks[k].path
        /\ chunks[k].seed > 0 /\ Unsplit(chunks[k - 1]) => chunks[k - 1].path = chunks[k].path

\* A chunk is longer than chunk_size only by the headings above its first block of prose.
ChunkFits ==
    \A c \in ToSet(chunks) :
        /\ c.prose <= ChunkSize
        /\ c.heads = 0 => Joined(c.seed, c.prose) <= ChunkSize
        /\ Joined(c.seed, Whole(c)) > ChunkSize =>
               \A i, k \in DOMAIN c.blocks : ~c.blocks[i].head /\ ~c.blocks[k].head => i = k

\* Only the headings a text ends with make a chunk without prose.
NoOrphanHeadings ==
    \A k \in DOMAIN chunks : (\A b \in ToSet(chunks[k].blocks) : b.head) =>
        phase = "done" /\ k = Len(chunks)
===============================================================================
