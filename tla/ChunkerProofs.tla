------------------------------ MODULE ChunkerProofs ------------------------------
(***************************************************************************)
(* Proofs about Chunker: for every text, chunk size and overlap, and       *)
(* wherever texts are cut, a chunk fits but for its headings, only a       *)
(* text's last headings make a chunk of their own, every block has the     *)
(* path the text gives it, nothing is lost, and sections stay apart.       *)
(***************************************************************************)
EXTENDS Chunker, FiniteSetTheorems, SequenceTheorems, WellFoundedInduction, TLAPS

Blocks == [first : Nat, last : Nat, off : Nat, size : Nat \ {0}, path : Seq(Nat), head : BOOLEAN]

Chunks == [blocks : Seq(Blocks), heads : Nat, prose : Nat, seed : Nat, path : Seq(Nat)]

Typed ==
    /\ doc \in Docs
    /\ at \in 0 .. Len(doc) /\ open \in 0 .. at
    /\ stack \in Seq(Nat)
    /\ blocks \in Seq(Blocks) /\ sized \in Seq(Blocks)
    /\ off \in Nat
    /\ phase \in {"parse", "size", "merge", "done"}
    /\ phase = "parse" => off = 0
    /\ blocks # <<>> => off < Head(blocks).size
    /\ current \in [blocks : Seq(Blocks), heads : Nat, prose : Nat]
    /\ seed \in Nat
    /\ chunks \in Seq(Chunks)

\* What is merged fits; an overlap waits for prose that fits beside it.
OneProse(bs) == \A i, k \in DOMAIN bs : ~bs[i].head /\ ~bs[k].head => i = k

\* The chunk c in the making, after an overlap of length n.
Made(c, n) ==
    /\ c.blocks = <<>> <=> c.heads = 0 /\ c.prose = 0
    /\ AllHeads(c.blocks) <=> c.prose = 0
    /\ AllHeads(c.blocks) => n = 0
    /\ c.prose <= ChunkSize
    /\ c.heads = 0 => Joined(n, c.prose) <= ChunkSize
    /\ Joined(n, Whole(c)) > ChunkSize => OneProse(c.blocks)

Packed ==
    /\ \A k \in DOMAIN sized : sized[k].size <= ChunkSize
    /\ Made(current, seed)

Fitting(c) ==
    /\ c.prose <= ChunkSize
    /\ c.heads = 0 => Joined(c.seed, c.prose) <= ChunkSize
    /\ Joined(c.seed, Whole(c)) > ChunkSize => OneProse(c.blocks)

AllFit == \A k \in DOMAIN chunks : Fitting(chunks[k])

IInv == Typed /\ Packed /\ AllFit

\* Before the end no chunk is made of headings only.
NoneYet == phase # "done" => \A k \in DOMAIN chunks : ~AllHeads(chunks[k].blocks)
OneAtEnd == \A k \in DOMAIN chunks : AllHeads(chunks[k].blocks) => k = Len(chunks)
-------------------------------------------------------------------------------
(* Lemmas *)

\* Lengths of joined texts are lengths.
LEMMA JoinedNat == \A m, n \in Nat : Joined(m, n) \in Nat
  BY DEF Joined

\* A block is made of its fields.
LEMMA BlockRecord ==
    \A f, l, o \in Nat : \A n \in Nat \ {0} : \A p \in Seq(Nat) : \A h \in BOOLEAN :
        [first |-> f, last |-> l, off |-> o, size |-> n, path |-> p, head |-> h] \in Blocks
  BY DEF Blocks

\* The lines of a buffer that ends with text have a length.
LEMMA BlockTyped ==
    ASSUME doc \in Docs, NEW first \in 1 .. Len(doc), NEW last \in first .. Len(doc),
           doc[last].kind # "blank", NEW path \in Seq(Nat), NEW head \in BOOLEAN
    PROVE  Block(first, last, path, head) \in Blocks
<1>1. doc \in Seq(Line) /\ DOMAIN doc = 1 .. Len(doc) /\ Len(doc) \in Nat
  BY ChunkerAssumption
<1>2. first \in DOMAIN doc /\ last \in DOMAIN doc /\ first \in Nat /\ last \in Nat
  BY <1>1
<1>3. doc[first].start \in Nat /\ doc[last].stop \in Nat /\ doc[first].stop \in Nat /\ doc[last].start \in Nat
  <2>1. doc[first] \in Line /\ doc[last] \in Line
    BY <1>1, ElementOfSeq
  <2> QED
    BY <2>1 DEF Line
<1>4. doc[first].start <= doc[first].stop /\ doc[last].start < doc[last].stop
  BY <1>2, ChunkerAssumption
<1>5. first < last => doc[first].stop < doc[last].start
  BY <1>2, ChunkerAssumption
<1>6. doc[first].start < doc[last].stop
  BY <1>2, <1>3, <1>4, <1>5
<1>7. Length(first, last) \in Nat \ {0}
  BY <1>3, <1>6 DEF Length
<1>8. \A n \in Nat \ {0} :
          [first |-> first, last |-> last, off |-> 0, size |-> n, path |-> path, head |-> head]
              \in Blocks
  <2>1. first \in Nat /\ last \in Nat /\ 0 \in Nat
    BY <1>2
  <2> QED
    BY <2>1, BlockRecord
<1> QED
  BY <1>7, <1>8, Zenon DEF Block

\* A flush adds blocks.
LEMMA FlushTyped ==
    ASSUME Typed, NEW bs \in Seq(Blocks), Flush(bs)
    PROVE  blocks' \in Seq(Blocks)
<1>1. blocks \in Seq(Blocks)
  BY DEF Typed
<1>2. CASE open = 0
  <2>1. blocks' = blocks \o bs
    BY <1>2 DEF Flush
  <2> QED
    BY <1>1, <2>1, ConcatProperties
<1>3. CASE open # 0
  <2>1. PICK last \in open .. at :
              /\ doc[last].kind # "blank"
              /\ blocks' = Append(blocks, Block(open, last, stack, FALSE)) \o bs
    BY <1>3 DEF Flush
  <2>2. doc \in Docs /\ open \in 1 .. Len(doc) /\ last \in open .. Len(doc) /\ stack \in Seq(Nat)
    <3>1. doc \in Docs /\ open \in 0 .. at /\ at \in 0 .. Len(doc) /\ stack \in Seq(Nat)
      BY DEF Typed
    <3>2. doc \in Seq(Line)
      BY <3>1, ChunkerAssumption
    <3> QED
      BY <1>3, <2>1, <3>1, <3>2
  <2>3. Block(open, last, stack, FALSE) \in Blocks
    BY <2>1, <2>2, BlockTyped
  <2>4. Append(blocks, Block(open, last, stack, FALSE)) \in Seq(Blocks)
    BY <1>1, <2>3, AppendProperties
  <2> QED
    BY <2>1, <2>4, ConcatProperties
<1> QED
  BY <1>2, <1>3

\* A step of the first loop: what is sized and merged stays as it is.
LEMMA ParseKeeps ==
    ASSUME IInv, phase = "parse", blocks' \in Seq(Blocks), phase' \in {"parse", "size"},
           at' \in 0 .. Len(doc), open' \in 0 .. at', stack' \in Seq(Nat),
           UNCHANGED <<doc, off, sized, current, seed, chunks>>
    PROVE  IInv'
<1>1. Typed'
  <2>1. blocks' # <<>> => Head(blocks').size \in Nat \ {0}
    <3>1. blocks' # <<>> => Head(blocks') \in Blocks
      BY HeadTailProperties
    <3> QED
      BY <3>1 DEF Blocks
  <2>2. off = 0 /\ off' = 0
    BY DEF IInv, Typed
  <2>3. blocks' # <<>> => off' < Head(blocks').size
    BY <2>1, <2>2
  <2> QED
    BY <2>2, <2>3 DEF IInv, Typed
<1>2. Packed' /\ AllFit'
  BY DEF IInv, Packed, Made, AllFit, Fitting, OneProse, AllHeads, Joined, Whole
<1> QED
  BY <1>1, <1>2 DEF IInv

\* A piece that fits is added to those to be merged.
LEMMA SizeKeeps ==
    ASSUME IInv, phase = "size", NEW piece \in Blocks, NEW pos \in Nat,
           NEW rest \in Seq(Blocks), rest # <<>> => pos < Head(rest).size,
           piece.size <= ChunkSize, Size(piece, pos, rest)
    PROVE  IInv'
<1>1. /\ sized' = Append(sized, piece) /\ off' = pos /\ blocks' = rest
      /\ UNCHANGED <<doc, at, stack, open, phase, current, seed, chunks>>
  BY DEF Size, parsing
<1>2. sized \in Seq(Blocks)
  BY DEF IInv, Typed
<1>3. sized' \in Seq(Blocks)
  BY <1>1, <1>2, AppendProperties
<1>4. Typed'
  BY <1>1, <1>3 DEF IInv, Typed
<1>5. ASSUME NEW k \in DOMAIN sized' PROVE sized'[k].size <= ChunkSize
  <2>1. DOMAIN sized' = 1 .. Len(sized) + 1 /\ DOMAIN sized = 1 .. Len(sized) /\ Len(sized) \in Nat
    BY <1>1, <1>2, <1>3, AppendProperties, LenProperties
  <2>2. CASE k \in DOMAIN sized
    <3>1. sized'[k] = sized[k]
      BY <1>1, <1>2, <2>1, <2>2, AppendProperties
    <3> QED
      BY <2>2, <3>1 DEF IInv, Packed, Made
  <2>3. CASE k = Len(sized) + 1
    <3>1. sized'[k] = piece
      BY <1>1, <1>2, <2>3, AppendProperties
    <3> QED
      BY <3>1
  <2> QED
    BY <2>1, <2>2, <2>3
<1>6. Packed' /\ AllFit'
  BY <1>1, <1>5 DEF IInv, Packed, Made, AllFit, Fitting, OneProse, AllHeads, Joined, Whole
<1> QED
  BY <1>4, <1>6 DEF IInv

\* An emitted chunk is what was being made, and fits.
LEMMA EmitFits ==
    ASSUME IInv, Emit
    PROVE  /\ chunks' \in Seq(Chunks) /\ AllFit'
           /\ \E c \in Chunks : c.blocks = current.blocks /\ chunks' = Append(chunks, c)
<1>1. /\ current \in [blocks : Seq(Blocks), heads : Nat, prose : Nat] /\ seed \in Nat
      /\ chunks \in Seq(Chunks)
  BY DEF IInv, Typed
<1>2. PICK k \in DOMAIN current.blocks :
        chunks' = Append(chunks, [blocks |-> current.blocks, heads |-> current.heads,
                                  prose |-> current.prose, seed |-> seed,
                                  path |-> current.blocks[k].path])
  BY DEF Emit
<1> DEFINE c == [blocks |-> current.blocks, heads |-> current.heads, prose |-> current.prose,
                 seed |-> seed, path |-> current.blocks[k].path]
<1>3. current.blocks[k].path \in Seq(Nat)
  <2>1. current.blocks \in Seq(Blocks)
    BY <1>1
  <2>2. k \in 1 .. Len(current.blocks)
    BY <2>1, LenProperties
  <2>3. current.blocks[k] \in Blocks
    BY <2>1, <2>2, ElementOfSeq
  <2> QED
    BY <2>3 DEF Blocks
<1>4. c \in Chunks
  BY <1>1, <1>3 DEF Chunks
<1>5. Fitting(c) /\ c.blocks = current.blocks
  BY DEF IInv, Packed, Made, Fitting, Whole
<1> HIDE DEF c
<1>6. chunks' = Append(chunks, c)
  BY <1>2 DEF c
<1>7. chunks' \in Seq(Chunks)
  BY <1>1, <1>4, <1>6, AppendProperties
<1>8. ASSUME NEW i \in DOMAIN chunks' PROVE Fitting(chunks'[i])
  <2>1. DOMAIN chunks' = 1 .. Len(chunks) + 1 /\ DOMAIN chunks = 1 .. Len(chunks) /\ Len(chunks) \in Nat
    BY <1>1, <1>4, <1>6, <1>7, AppendProperties, LenProperties
  <2>2. CASE i \in DOMAIN chunks
    <3>1. chunks'[i] = chunks[i]
      BY <1>1, <1>4, <1>6, <2>1, <2>2, AppendProperties
    <3> QED
      BY <2>2, <3>1 DEF IInv, AllFit
  <2>3. CASE i = Len(chunks) + 1
    <3>1. chunks'[i] = c
      BY <1>1, <1>4, <1>6, <2>3, AppendProperties
    <3> QED
      BY <1>5, <3>1
  <2> QED
    BY <2>1, <2>2, <2>3
<1>9. AllFit'
  BY <1>8 DEF AllFit, Fitting, Joined, Whole, OneProse
<1> QED
  BY <1>4, <1>5, <1>6, <1>7, <1>9

Makings == [blocks : Seq(Blocks), heads : Nat, prose : Nat]

\* What one more block changes in a chunk.
LEMMA WithOne ==
    ASSUME NEW c \in Makings, NEW b \in Blocks
    PROVE  /\ With(c, b) \in Makings
           /\ With(c, b).blocks # <<>>
           /\ AllHeads(With(c, b).blocks) <=> AllHeads(c.blocks) /\ b.head
           /\ AllHeads(c.blocks) => OneProse(With(c, b).blocks)
           /\ b.head => /\ With(c, b).heads = Joined(c.heads, b.size)
                        /\ With(c, b).prose = c.prose
           /\ ~b.head => /\ With(c, b).heads = c.heads
                         /\ With(c, b).prose = Joined(c.prose, b.size)
<1>1. c.blocks \in Seq(Blocks) /\ c.heads \in Nat /\ c.prose \in Nat
  BY DEF Makings
<1>2. b.size \in Nat \ {0} /\ b.head \in BOOLEAN
  BY DEF Blocks
<1> DEFINE more == Append(c.blocks, b)
<1>3. /\ With(c, b).blocks = more
      /\ With(c, b).heads = IF b.head THEN Joined(c.heads, b.size) ELSE c.heads
      /\ With(c, b).prose = IF b.head THEN c.prose ELSE Joined(c.prose, b.size)
      /\ With(c, b) = [blocks |-> With(c, b).blocks, heads |-> With(c, b).heads,
                        prose |-> With(c, b).prose]
  BY DEF With
<1>4. /\ more \in Seq(Blocks) /\ more # <<>>
      /\ DOMAIN more = 1 .. Len(c.blocks) + 1
      /\ DOMAIN c.blocks = 1 .. Len(c.blocks) /\ Len(c.blocks) \in Nat
      /\ \A i \in 1 .. Len(c.blocks) : more[i] = c.blocks[i]
      /\ more[Len(c.blocks) + 1] = b
  <2>1. more \in Seq(Blocks) /\ more # <<>> /\ Len(more) = Len(c.blocks) + 1
        /\ \A i \in 1 .. Len(c.blocks) : more[i] = c.blocks[i]
        /\ more[Len(c.blocks) + 1] = b
    BY <1>1, AppendProperties
  <2>2. DOMAIN more = 1 .. Len(more) /\ DOMAIN c.blocks = 1 .. Len(c.blocks)
        /\ Len(c.blocks) \in Nat
    BY <1>1, <2>1, LenProperties
  <2> QED
    BY <2>1, <2>2
<1> HIDE DEF more
<1>5. AllHeads(more) <=> AllHeads(c.blocks) /\ b.head
  BY <1>4 DEF AllHeads
<1>6. AllHeads(c.blocks) => OneProse(more)
  BY <1>4 DEF AllHeads, OneProse
<1>7. With(c, b).heads \in Nat /\ With(c, b).prose \in Nat
  BY <1>1, <1>2, <1>3, JoinedNat
<1>8. With(c, b) \in Makings
  BY <1>3, <1>4, <1>7 DEF Makings
<1> QED
  BY <1>2, <1>3, <1>4, <1>5, <1>6, <1>8

\* The facts about the chunk in the making, and the block to come.
LEMMA Merging ==
    ASSUME IInv, Merges
    PROVE  /\ current \in Makings /\ Nothing \in Makings
           /\ Head(sized) \in Blocks /\ Head(sized).size \in 1 .. ChunkSize
           /\ Head(sized).head \in BOOLEAN
           /\ sized' \in Seq(Blocks)
           /\ \A k \in DOMAIN sized' : sized'[k].size <= ChunkSize
           /\ UNCHANGED <<doc, at, stack, open, phase, blocks, off>>
<1>1. sized \in Seq(Blocks) /\ sized # <<>> /\ sized' = Tail(sized)
  BY DEF IInv, Typed, Merges
<1>2. /\ Head(sized) \in Blocks /\ sized' \in Seq(Blocks)
      /\ Len(sized') = Len(sized) - 1 /\ Len(sized) \in Nat /\ Head(sized) = sized[1]
      /\ \A k \in 1 .. Len(sized') : sized'[k] = sized[k + 1]
      /\ DOMAIN sized' = 1 .. Len(sized') /\ DOMAIN sized = 1 .. Len(sized)
  BY <1>1, HeadTailProperties, LenProperties
<1>3. \A k \in DOMAIN sized : sized[k].size <= ChunkSize
  BY DEF IInv, Packed, Made
<1>4. 1 \in DOMAIN sized
  BY <1>1, <1>2, EmptySeq
<1>5. sized[1].size <= ChunkSize /\ \A k \in DOMAIN sized' : sized'[k].size <= ChunkSize
  BY <1>2, <1>3, <1>4
<1>6. Head(sized).size \in Nat \ {0} /\ Head(sized).head \in BOOLEAN
  BY <1>2 DEF Blocks
<1>7. current \in Makings /\ Nothing \in Makings
  BY DEF IInv, Typed, Makings, Nothing
<1>8. UNCHANGED <<doc, at, stack, open, phase, blocks, off>>
  BY DEF Merges, parsing
<1> QED
  BY <1>2, <1>5, <1>6, <1>7, <1>8, ChunkerAssumption

\* A step of the last loop: the rest follows from the chunk in the making.
LEMMA MergeKeeps ==
    ASSUME IInv, Merges, current' \in Makings, seed' \in Nat, Made(current', seed'),
           chunks' \in Seq(Chunks), AllFit'
    PROVE  IInv'
<1>1. /\ sized' \in Seq(Blocks) /\ \A k \in DOMAIN sized' : sized'[k].size <= ChunkSize
      /\ UNCHANGED <<doc, at, stack, open, phase, blocks, off>>
  BY Merging
<1>2. Typed'
  BY <1>1 DEF IInv, Typed, Makings
<1>3. Packed'
  BY <1>1 DEF Packed, Made, Whole, Joined, AllHeads, OneProse
<1> QED
  BY <1>2, <1>3 DEF IInv

\* A block on its own, beside an overlap that leaves room for it.
LEMMA MadeOfOne ==
    ASSUME NEW b \in Blocks, b.size <= ChunkSize, NEW n \in Nat,
           b.head => n = 0, ~b.head => Joined(n, b.size) <= ChunkSize
    PROVE  With(Nothing, b) \in Makings /\ Made(With(Nothing, b), n)
<1>1. Nothing \in Makings /\ AllHeads(Nothing.blocks) /\ Nothing.heads = 0 /\ Nothing.prose = 0
  BY DEF Nothing, Makings, AllHeads
<1> DEFINE c == With(Nothing, b)
<1>2. /\ c \in Makings /\ c.blocks # <<>>
      /\ AllHeads(c.blocks) <=> b.head
      /\ OneProse(c.blocks)
      /\ b.head => c.heads = Joined(0, b.size) /\ c.prose = 0
      /\ ~b.head => c.heads = 0 /\ c.prose = Joined(0, b.size)
  BY <1>1, WithOne
<1>3. b.size \in Nat \ {0} /\ b.head \in BOOLEAN
  BY DEF Blocks
<1> HIDE DEF c
<1>4. b.head => c.heads = b.size /\ c.prose = 0
  BY <1>2, <1>3 DEF Joined
<1>5. ~b.head => c.heads = 0 /\ c.prose = b.size
  BY <1>2, <1>3 DEF Joined
<1>6. Made(c, n)
  <2>1. CASE b.head
    <3>1. AllHeads(c.blocks) /\ n = 0 /\ c.heads = b.size /\ c.prose = 0
      BY <1>2, <1>4, <2>1
    <3>2. c.heads # 0 /\ c.prose <= ChunkSize
      BY <1>3, <3>1, ChunkerAssumption
    <3> QED
      BY <1>2, <3>1, <3>2, Zenon DEF Made
  <2>2. CASE ~b.head
    <3>1. ~AllHeads(c.blocks) /\ c.heads = 0 /\ c.prose = b.size /\ Joined(n, b.size) <= ChunkSize
      BY <1>2, <1>5, <2>2
    <3>2. b.size # 0
      BY <1>3
    <3> QED
      BY <1>2, <3>1, <3>2, Zenon DEF Made
  <2> QED
    BY <1>3, <2>1, <2>2
<1> QED
  BY <1>2, <1>6 DEF c

\* A block that goes into the chunk in the making keeps it within bounds.
LEMMA TakeKeeps == IInv /\ Take => IInv'
<1> SUFFICES ASSUME IInv, Take PROVE IInv'
  OBVIOUS
<1> DEFINE b == Head(sized)
           c == With(current, b)
<1>1. /\ Merges
      /\ AllHeads(current.blocks) \/ (~b.head /\ Fits(b))
      /\ current' = c /\ seed' = seed /\ chunks' = chunks
  BY DEF Take
<1>2. /\ current \in Makings /\ b \in Blocks /\ b.size \in 1 .. ChunkSize /\ b.head \in BOOLEAN
      /\ seed \in Nat /\ Made(current, seed)
  <2>1. current \in Makings /\ b \in Blocks /\ b.size \in 1 .. ChunkSize /\ b.head \in BOOLEAN
    BY <1>1, Merging
  <2>2. seed \in Nat
    BY DEF IInv, Typed
  <2>3. Made(current, seed)
    BY Zenon DEF IInv, Packed, Made
  <2> QED
    BY <2>1, <2>2, <2>3
<1>3. current.heads \in Nat /\ current.prose \in Nat
  BY <1>2 DEF Makings
<1>4. /\ c \in Makings /\ c.blocks # <<>>
      /\ AllHeads(c.blocks) <=> AllHeads(current.blocks) /\ b.head
      /\ AllHeads(current.blocks) => OneProse(c.blocks)
      /\ b.head => c.heads = Joined(current.heads, b.size) /\ c.prose = current.prose
      /\ ~b.head => c.heads = current.heads /\ c.prose = Joined(current.prose, b.size)
  BY <1>2, WithOne
<1>5. Fits(b) <=> seed + Joined(Joined(current.heads, current.prose), b.size) + 2 <= ChunkSize
  BY DEF Fits, Whole
<1> HIDE DEF b, c
<1>6. Made(c, seed)
  <2>1. CASE AllHeads(current.blocks)
    <3>1. /\ current.prose = 0 /\ seed = 0 /\ OneProse(c.blocks)
          /\ current.blocks = <<>> <=> current.heads = 0
      BY <1>2, <1>4, <2>1, Zenon DEF Made
    <3>2. CASE b.head
      <4>1. AllHeads(c.blocks) /\ c.prose = 0 /\ c.heads = Joined(current.heads, b.size)
        BY <1>4, <2>1, <3>1, <3>2
      <4>2. c.heads # 0 /\ c.prose <= ChunkSize
        BY <1>2, <1>3, <4>1, ChunkerAssumption DEF Joined
      <4> QED
        BY <1>4, <3>1, <4>1, <4>2, Zenon DEF Made
    <3>3. CASE ~b.head
      <4>1. ~AllHeads(c.blocks) /\ c.prose = Joined(0, b.size)
        BY <1>4, <3>1, <3>3
      <4>2. c.prose # 0 /\ c.prose <= ChunkSize /\ Joined(0, c.prose) <= ChunkSize
        BY <1>2, <4>1, ChunkerAssumption DEF Joined
      <4> QED
        BY <1>4, <3>1, <4>1, <4>2, Zenon DEF Made
    <3> QED
      BY <1>2, <3>2, <3>3
  <2>2. CASE ~AllHeads(current.blocks) /\ ~b.head /\ Fits(b)
    <3>1. current.prose # 0
      BY <1>2, <2>2, Zenon DEF Made
    <3>2. /\ c.heads = current.heads /\ c.prose = Joined(current.prose, b.size)
          /\ ~AllHeads(c.blocks)
      BY <1>4, <2>2
    <3>3. /\ seed + Joined(Joined(current.heads, current.prose), b.size) + 2 <= ChunkSize
          /\ b.size \in Nat \ {0} /\ ChunkSize \in Nat
      BY <1>2, <1>5, <2>2, ChunkerAssumption
    <3>4. /\ c.prose # 0 /\ c.prose <= ChunkSize /\ Joined(seed, c.prose) <= ChunkSize
          /\ Joined(seed, Joined(c.heads, c.prose)) \in 0 .. ChunkSize
      BY <1>2, <1>3, <3>1, <3>2, <3>3 DEF Joined
    <3>5. ~(Joined(seed, Whole(c)) > ChunkSize)
      BY <3>3, <3>4 DEF Whole
    <3> QED
      BY <1>4, <3>2, <3>4, <3>5, Zenon DEF Made
  <2> QED
    BY <1>1, <2>1, <2>2
<1>7. chunks' \in Seq(Chunks) /\ AllFit'
  BY <1>1 DEF IInv, Typed, AllFit, Fitting, Joined, Whole, OneProse
<1>8. current' \in Makings /\ seed' \in Nat /\ Made(current', seed')
  BY <1>1, <1>2, <1>4, <1>6
<1> QED
  BY <1>1, <1>7, <1>8, MergeKeeps

\* A heading after prose starts a chunk of its own, without overlap.
LEMMA NewSectionKeeps == IInv /\ NewSection => IInv'
<1> SUFFICES ASSUME IInv, NewSection PROVE IInv'
  OBVIOUS
<1>1. Merges /\ Emit /\ Head(sized).head /\ current' = With(Nothing, Head(sized)) /\ seed' = 0
  BY DEF NewSection
<1>2. Head(sized) \in Blocks /\ Head(sized).size <= ChunkSize
  BY <1>1, Merging, ChunkerAssumption
<1>3. With(Nothing, Head(sized)) \in Makings /\ Made(With(Nothing, Head(sized)), 0)
  BY <1>1, <1>2, MadeOfOne
<1>4. chunks' \in Seq(Chunks) /\ AllFit'
  BY <1>1, EmitFits
<1>5. current' \in Makings /\ seed' \in Nat /\ Made(current', seed')
  BY <1>1, <1>3
<1> QED
  BY <1>1, <1>4, <1>5, MergeKeeps

\* A block that does not fit starts a chunk with the overlap it leaves room for.
LEMMA OverflowKeeps == IInv /\ Overflow => IInv'
<1> SUFFICES ASSUME IInv, Overflow PROVE IInv'
  OBVIOUS
<1>1. /\ Merges /\ Emit /\ ~Head(sized).head
      /\ current' = With(Nothing, Head(sized)) /\ seed' \in Overlaps(Head(sized))
  BY DEF Overflow
<1>2. Head(sized) \in Blocks /\ Head(sized).size \in 1 .. ChunkSize
  BY <1>1, Merging
<1>3. seed' = 0 \/ seed' \in 1 .. ChunkSize - Head(sized).size - 2 - 1
  BY <1>1 DEF Overlaps
<1>4. seed' \in Nat /\ Joined(seed', Head(sized).size) <= ChunkSize /\ Head(sized).size <= ChunkSize
  BY <1>2, <1>3, ChunkerAssumption DEF Joined
<1>5. With(Nothing, Head(sized)) \in Makings /\ Made(With(Nothing, Head(sized)), seed')
  BY <1>1, <1>2, <1>4, MadeOfOne
<1>6. chunks' \in Seq(Chunks) /\ AllFit'
  BY <1>1, EmitFits
<1>7. current' \in Makings /\ Made(current', seed')
  BY <1>1, <1>5
<1> QED
  BY <1>1, <1>4, <1>6, <1>7, MergeKeeps

\* The end emits what is left.
LEMMA FinishKeeps == IInv /\ Finish => IInv'
<1> SUFFICES ASSUME IInv, Finish PROVE IInv'
  OBVIOUS
<1>1. /\ phase' = "done" /\ current' = Nothing /\ seed' = 0
      /\ UNCHANGED <<doc, at, stack, open, blocks, off, sized>>
      /\ chunks' = chunks \/ Emit
  BY DEF Finish, parsing
<1>2. chunks' \in Seq(Chunks) /\ AllFit'
  <2>1. CASE chunks' = chunks
    BY <2>1 DEF IInv, Typed, AllFit, Fitting, Joined, Whole, OneProse
  <2>2. CASE Emit
    BY <2>2, EmitFits
  <2> QED
    BY <1>1, <2>1, <2>2
<1>3. Typed'
  BY <1>1, <1>2 DEF IInv, Typed, Nothing
<1>4. Packed'
  <2>1. AllHeads(<<>>) /\ Joined(0, 0) = 0
    BY DEF AllHeads, Joined
  <2>2. current'.blocks = <<>> /\ current'.heads = 0 /\ current'.prose = 0 /\ seed' = 0
    BY <1>1 DEF Nothing
  <2>3. \A k \in DOMAIN sized' : sized'[k].size <= ChunkSize
    BY <1>1 DEF IInv, Packed, Made
  <2>4. AllHeads(current'.blocks) /\ OneProse(current'.blocks)
    BY <2>2 DEF AllHeads, OneProse
  <2>5. Joined(seed', current'.prose) <= ChunkSize /\ current'.prose <= ChunkSize
    BY <2>1, <2>2, ChunkerAssumption
  <2> QED
    BY <2>2, <2>3, <2>4, <2>5 DEF Packed, Made, AllHeads, OneProse, Joined, Whole
<1> QED
  BY <1>2, <1>3, <1>4 DEF IInv

\* A text begins with nothing merged.
LEMMA InitHolds == ChunkInit => IInv
<1> SUFFICES ASSUME ChunkInit PROVE IInv
  OBVIOUS
<1>1. doc \in Seq(Line)
  BY ChunkerAssumption DEF ChunkInit
<1>2. Len(doc) \in Nat
  BY <1>1
<1>3. Typed
  BY <1>2 DEF ChunkInit, Typed, Nothing
<1>4. Packed /\ AllFit
  BY ChunkerAssumption DEF ChunkInit, Packed, Made, AllFit, AllHeads, OneProse, Joined, Whole, Nothing
<1> QED
  BY <1>3, <1>4 DEF IInv

\* Where the first loop stands.
LEMMA Standing ==
    ASSUME IInv
    PROVE  /\ doc \in Docs /\ Len(doc) \in Nat
           /\ at \in 0 .. Len(doc) /\ open \in 0 .. at
           /\ stack \in Seq(Nat) /\ blocks \in Seq(Blocks)
<1>1. /\ doc \in Docs /\ at \in 0 .. Len(doc) /\ open \in 0 .. at
      /\ stack \in Seq(Nat) /\ blocks \in Seq(Blocks)
  BY DEF IInv, Typed
<1>2. doc \in Seq(Line)
  BY <1>1, ChunkerAssumption
<1> QED
  BY <1>1, <1>2

\* What reading a line moves.
LEMMA Reading ==
    ASSUME IInv, NEW kinds, Reads(kinds)
    PROVE  /\ phase = "parse" /\ phase' = "parse"
           /\ at' = at + 1 /\ at + 1 \in 1 .. Len(doc) /\ doc[at + 1].kind \in kinds
           /\ UNCHANGED <<doc, off, sized, current, seed, chunks>>
<1>1. /\ phase = "parse" /\ phase' = phase /\ at < Len(doc) /\ doc[at + 1].kind \in kinds
      /\ at' = at + 1 /\ UNCHANGED <<doc, off, sized, current, seed, chunks>>
  BY DEF Reads
<1> QED
  BY <1>1, Standing

\* Every step of the first loop keeps the invariant.
LEMMA ParseStep ==
    IInv /\ (ReadVerbatim \/ ReadHeading \/ ReadBlank \/ ReadText \/ EndOfText) => IInv'
<1> SUFFICES ASSUME IInv, ReadVerbatim \/ ReadHeading \/ ReadBlank \/ ReadText \/ EndOfText
             PROVE  IInv'
  OBVIOUS
<1>1. /\ doc \in Docs /\ Len(doc) \in Nat /\ at \in 0 .. Len(doc) /\ open \in 0 .. at
      /\ stack \in Seq(Nat) /\ blocks \in Seq(Blocks) /\ Typed
  BY Standing DEF IInv
<1>2. CASE ReadVerbatim
  <2>1. Reads({"heading", "text", "blank"} \cup Fence)
    BY <1>2 DEF ReadVerbatim
  <2>2. open' = (IF open = 0 THEN at + 1 ELSE open) /\ stack' = stack /\ blocks' = blocks
    BY <1>2 DEF ReadVerbatim, Buffered
  <2>3. /\ phase = "parse" /\ phase' = "parse" /\ at' = at + 1 /\ at + 1 \in 1 .. Len(doc)
        /\ UNCHANGED <<doc, off, sized, current, seed, chunks>>
    BY <2>1, Reading
  <2>4. at' \in 0 .. Len(doc) /\ open' \in 0 .. at' /\ stack' \in Seq(Nat)
    BY <1>1, <2>2, <2>3
  <2> QED
    BY <1>1, <2>2, <2>3, <2>4, ParseKeeps
<1>3. CASE ReadText
  <2>1. Reads({"text"})
    BY <1>3 DEF ReadText
  <2>2. open' = (IF open = 0 THEN at + 1 ELSE open) /\ stack' = stack /\ blocks' = blocks
    BY <1>3 DEF ReadText, Buffered
  <2>3. /\ phase = "parse" /\ phase' = "parse" /\ at' = at + 1 /\ at + 1 \in 1 .. Len(doc)
        /\ UNCHANGED <<doc, off, sized, current, seed, chunks>>
    BY <2>1, Reading
  <2>4. at' \in 0 .. Len(doc) /\ open' \in 0 .. at' /\ stack' \in Seq(Nat)
    BY <1>1, <2>2, <2>3
  <2> QED
    BY <1>1, <2>2, <2>3, <2>4, ParseKeeps
<1>4. CASE ReadBlank
  <2>1. Reads({"blank"}) /\ Flush(<<>>) /\ open' = 0 /\ stack' = stack
    BY <1>4 DEF ReadBlank
  <2>2. /\ phase = "parse" /\ phase' = "parse" /\ at' = at + 1 /\ at + 1 \in 1 .. Len(doc)
        /\ UNCHANGED <<doc, off, sized, current, seed, chunks>>
    BY <2>1, Reading
  <2>3. blocks' \in Seq(Blocks)
    BY <1>1, <2>1, FlushTyped, EmptySeq
  <2>4. at' \in 0 .. Len(doc) /\ open' \in 0 .. at' /\ stack' \in Seq(Nat)
    BY <1>1, <2>1, <2>2
  <2> QED
    BY <2>2, <2>3, <2>4, ParseKeeps
<1>5. CASE EndOfText
  <2>1. /\ phase = "parse" /\ phase' = "size" /\ Flush(<<>>) /\ open' = 0
        /\ UNCHANGED <<doc, at, stack, off, sized, current, seed, chunks>>
    BY <1>5 DEF EndOfText
  <2>2. blocks' \in Seq(Blocks)
    BY <1>1, <2>1, FlushTyped, EmptySeq
  <2>3. at' \in 0 .. Len(doc) /\ open' \in 0 .. at' /\ stack' \in Seq(Nat)
    BY <1>1, <2>1
  <2> QED
    BY <2>1, <2>2, <2>3, ParseKeeps
<1>6. CASE ReadHeading
  <2>1. Reads({"heading"}) /\ open' = 0
    BY <1>6 DEF ReadHeading
  <2>2. PICK n \in 0 .. Len(stack) :
              /\ stack' = Append(SubSeq(stack, 1, n), at + 1)
              /\ Flush(<<Block(at + 1, at + 1, stack', TRUE)>>)
    BY <1>6 DEF ReadHeading
  <2>3. /\ phase = "parse" /\ phase' = "parse" /\ at' = at + 1 /\ at + 1 \in 1 .. Len(doc)
        /\ doc[at + 1].kind \in {"heading"}
        /\ UNCHANGED <<doc, off, sized, current, seed, chunks>>
    BY <2>1, Reading
  <2>4. stack' \in Seq(Nat)
    <3>1. SubSeq(stack, 1, n) \in Seq(Nat) /\ at + 1 \in Nat
      BY <1>1, <2>2
    <3> QED
      BY <2>2, <3>1, AppendProperties
  <2>5. Block(at + 1, at + 1, stack', TRUE) \in Blocks
    <3>1. at + 1 \in at + 1 .. Len(doc) /\ doc[at + 1].kind # "blank"
      BY <1>1, <2>3
    <3> QED
      BY <1>1, <2>3, <2>4, <3>1, BlockTyped
  <2>6. <<Block(at + 1, at + 1, stack', TRUE)>> \in Seq(Blocks)
    <3>1. \A b \in Blocks : <<b>> \in Seq(Blocks)
      OBVIOUS
    <3> QED
      BY <2>5, <3>1, Zenon
  <2>7. blocks' \in Seq(Blocks)
    BY <1>1, <2>2, <2>6, FlushTyped
  <2>8. at' \in 0 .. Len(doc) /\ open' \in 0 .. at'
    BY <1>1, <2>1, <2>3
  <2> QED
    BY <2>3, <2>4, <2>7, <2>8, ParseKeeps
<1> QED
  BY <1>2, <1>3, <1>4, <1>5, <1>6

\* Every step of the second loop keeps it.
LEMMA SizeStep == IInv /\ (Keep \/ Cut \/ CutTail \/ EndOfBlocks) => IInv'
<1> SUFFICES ASSUME IInv, Keep \/ Cut \/ CutTail \/ EndOfBlocks
             PROVE  IInv'
  OBVIOUS
<1>1. blocks \in Seq(Blocks) /\ off \in Nat /\ (blocks # <<>> => off < Head(blocks).size)
  BY DEF IInv, Typed
<1>2. ASSUME blocks # <<>>
      PROVE  /\ Head(blocks) \in Blocks /\ Head(blocks).size \in Nat \ {0}
             /\ Tail(blocks) \in Seq(Blocks)
             /\ Tail(blocks) # <<>> => 0 < Head(Tail(blocks)).size
  <2>1. Head(blocks) \in Blocks /\ Tail(blocks) \in Seq(Blocks)
    BY <1>1, <1>2, HeadTailProperties
  <2>2. Tail(blocks) # <<>> => Head(Tail(blocks)) \in Blocks
    BY <2>1, HeadTailProperties
  <2>3. \A b \in Blocks : b.size \in Nat \ {0} /\ 0 < b.size
    BY DEF Blocks
  <2> QED
    BY <2>1, <2>2, <2>3
<1>3. ASSUME blocks # <<>>, NEW n \in Nat \ {0}
      PROVE  Piece(n) \in Blocks /\ Piece(n).size = n
  <2>1. Head(blocks) \in Blocks
    BY <1>2, <1>3
  <2>2. \A b \in Blocks : \A o \in Nat :
           LET p == [b EXCEPT !.off = o, !.size = n, !.head = FALSE]
           IN  p \in Blocks /\ p.size = n
    BY <1>3 DEF Blocks
  <2> QED
    BY <1>1, <2>1, <2>2 DEF Piece
<1>4. CASE Keep
  <2>1. /\ phase = "size" /\ blocks # <<>> /\ Head(blocks).size <= ChunkSize
        /\ Size(Head(blocks), 0, Tail(blocks))
    BY <1>4 DEF Keep, Sizing
  <2> QED
    BY <1>2, <2>1, SizeKeeps
<1>5. CASE Cut
  <2>1. phase = "size" /\ blocks # <<>>
    BY <1>5 DEF Cut, Sizing
  <2>2. PICK size \in 1 .. ChunkSize, gap \in 0 .. 1 :
              /\ off + size + gap < Head(blocks).size
              /\ Size(Piece(size), off + size + gap, blocks)
    BY <1>5 DEF Cut
  <2>3. size \in Nat \ {0} /\ size <= ChunkSize /\ off + size + gap \in Nat
    BY <1>1, <2>2, ChunkerAssumption
  <2>4. Piece(size) \in Blocks /\ Piece(size).size = size
    BY <1>3, <2>1, <2>3
  <2>5. Piece(size).size <= ChunkSize
    BY <2>3, <2>4
  <2> QED
    BY <1>1, <2>1, <2>2, <2>3, <2>4, <2>5, SizeKeeps
<1>6. CASE CutTail
  <2>1. /\ phase = "size" /\ blocks # <<>> /\ Head(blocks).size - off <= ChunkSize
        /\ Size(Piece(Head(blocks).size - off), 0, Tail(blocks))
    BY <1>6 DEF CutTail, Sizing
  <2>2. Head(blocks).size - off \in Nat \ {0}
    BY <1>1, <1>2, <2>1
  <2>3. /\ Piece(Head(blocks).size - off) \in Blocks
        /\ Piece(Head(blocks).size - off).size = Head(blocks).size - off
    BY <1>3, <2>1, <2>2
  <2>4. Piece(Head(blocks).size - off).size <= ChunkSize
    BY <2>1, <2>3
  <2>5. Tail(blocks) \in Seq(Blocks) /\ (Tail(blocks) # <<>> => 0 < Head(Tail(blocks)).size)
    BY <1>2, <2>1
  <2> QED
    BY <2>1, <2>3, <2>4, <2>5, SizeKeeps
<1>7. CASE EndOfBlocks
  <2>1. /\ phase = "size" /\ phase' = "merge"
        /\ UNCHANGED <<doc, at, stack, open, blocks, off, sized, current, seed, chunks>>
    BY <1>7 DEF EndOfBlocks, parsing
  <2>2. Typed'
    BY <2>1 DEF IInv, Typed
  <2>3. Packed' /\ AllFit'
    BY <2>1 DEF IInv, Packed, Made, AllFit, Fitting, OneProse, AllHeads, Joined, Whole
  <2> QED
    BY <2>2, <2>3 DEF IInv
<1> QED
  BY <1>4, <1>5, <1>6, <1>7

\* Every step keeps it.
LEMMA NextKeeps == IInv /\ [ChunkNext]_cvars => IInv'
<1> SUFFICES ASSUME IInv, [ChunkNext]_cvars PROVE IInv'
  OBVIOUS
<1>1. CASE ReadVerbatim \/ ReadHeading \/ ReadBlank \/ ReadText \/ EndOfText
  BY <1>1, ParseStep
<1>2. CASE Keep \/ Cut \/ CutTail \/ EndOfBlocks
  BY <1>2, SizeStep
<1>3. CASE Take \/ NewSection \/ Overflow \/ Finish
  BY <1>3, TakeKeeps, NewSectionKeeps, OverflowKeeps, FinishKeeps
<1>4. CASE UNCHANGED cvars
  <2>1. UNCHANGED <<doc, at, stack, open, phase, blocks, off, sized, current, seed, chunks>>
    BY <1>4 DEF cvars, parsing
  <2>2. Typed'
    BY <2>1 DEF IInv, Typed
  <2>3. Packed' /\ AllFit'
    BY <2>1 DEF IInv, Packed, Made, AllFit, Fitting, OneProse, AllHeads, Joined, Whole
  <2> QED
    BY <2>2, <2>3 DEF IInv
<1> QED
  BY <1>1, <1>2, <1>3, <1>4 DEF ChunkNext
-------------------------------------------------------------------------------
(* The theorems *)

\* Whatever the text, the size and the overlap, and wherever blocks are cut: a chunk exceeds
\* chunk_size only by the headings above its one block of prose (_merge_into_chunks).
THEOREM Fit == ChunkSpec => []ChunkFits
<1>1. IInv => ChunkFits
  BY DEF IInv, AllFit, Fitting, OneProse, ChunkFits, ToSet
<1> QED
  BY <1>1, InitHolds, NextKeeps, PTL DEF ChunkSpec

\* What is emitted is the last chunk, and the others stay.
LEMMA EmitLast ==
    ASSUME IInv, Emit
    PROVE  /\ DOMAIN chunks' = DOMAIN chunks \cup {Len(chunks')}
           /\ \A k \in DOMAIN chunks : chunks'[k] = chunks[k]
           /\ chunks'[Len(chunks')].blocks = current.blocks
<1>1. chunks \in Seq(Chunks) /\ chunks' \in Seq(Chunks)
  BY EmitFits DEF IInv, Typed
<1>2. PICK c \in Chunks : c.blocks = current.blocks /\ chunks' = Append(chunks, c)
  BY EmitFits
<1>3. /\ Len(chunks') = Len(chunks) + 1 /\ Len(chunks) \in Nat
      /\ DOMAIN chunks' = 1 .. Len(chunks) + 1 /\ DOMAIN chunks = 1 .. Len(chunks)
      /\ \A k \in 1 .. Len(chunks) : chunks'[k] = chunks[k]
      /\ chunks'[Len(chunks) + 1] = c
  BY <1>1, <1>2, AppendProperties, LenProperties
<1> QED
  BY <1>2, <1>3

\* No step but the last adds a chunk of headings.
LEMMA OrphanStep ==
    IInv /\ NoneYet /\ OneAtEnd /\ [ChunkNext]_cvars => NoneYet' /\ OneAtEnd'
<1> SUFFICES ASSUME IInv, NoneYet, OneAtEnd, [ChunkNext]_cvars PROVE NoneYet' /\ OneAtEnd'
  OBVIOUS
<1>1. ASSUME phase # "done", Emit, ~AllHeads(current.blocks) PROVE NoneYet' /\ OneAtEnd'
  <2>1. \A k \in DOMAIN chunks' : ~AllHeads(chunks'[k].blocks)
    BY <1>1, EmitLast DEF NoneYet
  <2> QED
    BY <2>1 DEF NoneYet, OneAtEnd, AllHeads
<1>2. CASE NewSection \/ Overflow
  <2>1. phase = "merge" /\ Emit /\ ~AllHeads(current.blocks)
    BY <1>2 DEF NewSection, Overflow, Merges
  <2> QED
    BY <1>1, <2>1
<1>3. CASE Finish
  <2>1. phase = "merge" /\ phase' = "done" /\ (chunks' = chunks \/ Emit)
    BY <1>3 DEF Finish
  <2>2. CASE chunks' = chunks
    BY <2>1, <2>2 DEF NoneYet, OneAtEnd, AllHeads
  <2>3. CASE Emit
    <3>1. \A k \in DOMAIN chunks' : AllHeads(chunks'[k].blocks) => k = Len(chunks')
      BY <2>1, <2>3, EmitLast DEF NoneYet
    <3> QED
      BY <2>1, <3>1 DEF NoneYet, OneAtEnd, AllHeads
  <2> QED
    BY <2>1, <2>2, <2>3
<1>4. ASSUME chunks' = chunks, phase = "done" => phase' = "done" PROVE NoneYet' /\ OneAtEnd'
  BY <1>4 DEF NoneYet, OneAtEnd, AllHeads
<1>5. CASE ReadVerbatim \/ ReadHeading \/ ReadBlank \/ ReadText
  <2>1. chunks' = chunks /\ phase' = phase
    BY <1>5 DEF ReadVerbatim, ReadHeading, ReadBlank, ReadText, Reads
  <2> QED
    BY <1>4, <2>1
<1>6. CASE EndOfText \/ EndOfBlocks
  <2>1. chunks' = chunks /\ phase # "done"
    BY <1>6 DEF EndOfText, EndOfBlocks
  <2> QED
    BY <1>4, <2>1
<1>7. CASE Keep \/ Cut \/ CutTail
  <2>1. chunks' = chunks /\ phase' = phase
    BY <1>7 DEF Keep, Cut, CutTail, Size
  <2> QED
    BY <1>4, <2>1
<1>8. CASE Take
  <2>1. chunks' = chunks /\ phase' = phase
    BY <1>8 DEF Take, Merges
  <2> QED
    BY <1>4, <2>1
<1>9. CASE UNCHANGED cvars
  <2>1. chunks' = chunks /\ phase' = phase
    BY <1>9 DEF cvars
  <2> QED
    BY <1>4, <2>1
<1> QED
  BY <1>2, <1>3, <1>5, <1>6, <1>7, <1>8, <1>9 DEF ChunkNext

\* For every text only the headings it ends with can make a chunk without prose.
THEOREM NoOrphans == ChunkSpec => []NoOrphanHeadings
<1>1. ChunkInit => NoneYet /\ OneAtEnd
  BY DEF ChunkInit, NoneYet, OneAtEnd
<1>2. IInv /\ NoneYet /\ OneAtEnd => NoOrphanHeadings
  <2> SUFFICES ASSUME IInv, NoneYet, OneAtEnd, NEW k \in DOMAIN chunks,
                      \A b \in ToSet(chunks[k].blocks) : b.head
               PROVE  phase = "done" /\ k = Len(chunks)
    BY DEF NoOrphanHeadings
  <2>1. AllHeads(chunks[k].blocks)
    BY DEF AllHeads, ToSet
  <2> QED
    BY <2>1 DEF NoneYet, OneAtEnd
<1> QED
  BY <1>1, <1>2, InitHolds, NextKeeps, OrphanStep, PTL DEF ChunkSpec
-------------------------------------------------------------------------------
(* The invariants of paths, order and sections *)

\* Sections and paths as the flag has them, with every marker, of either sort, opening and
\* closing a block in turn.
Under(i) == {h \in 1 .. i : /\ Headed(h)
                            /\ \A g \in h + 1 .. i : Headed(g) => doc[g].level > doc[h].level}

Stands(b) ==
    /\ b.first \in 1 .. b.last /\ b.last \in 1 .. Len(doc)
    /\ ToSet(b.path) = Under(b.first)
    /\ \A m \in DOMAIN b.path, n \in DOMAIN b.path : m < n => b.path[m] < b.path[n]
    /\ \A i \in b.first .. b.last : Headed(i) => i = b.first /\ b.first = b.last
    /\ b.head => Headed(b.first)

PathsStand == \A b \in Parts : Stands(b)

\* What the first loop knows of the lines read, with a heading what the flag takes for one.
Parity == fenced \in BOOLEAN /\ (fenced <=> Cardinality(Markers(at)) % 2 # 0)
StackTrue == /\ ToSet(stack) = Under(at)
             /\ \A m \in DOMAIN stack, n \in DOMAIN stack : m < n => stack[m] < stack[n]
BufferPlain == open # 0 => \A i \in open .. at : ~Headed(i)

\* One block after another, under the same headings unless a heading comes between.
Leads(b, c) == Follows(b, c) /\ (Headed(c.first) \/ c.path = b.path)
Linked(s)   == \A m \in 1 .. Len(s) - 1 : Leads(s[m], s[m + 1])

\* Where the blocks are in each of the three loops.
Staged ==
    /\ phase = "parse" => sized = <<>>
    /\ phase \in {"parse", "size"} => current.blocks = <<>> /\ chunks = <<>>
    /\ phase # "parse" => open = 0 /\ at = Len(doc)
    /\ phase \in {"merge", "done"} => blocks = <<>>
    /\ phase = "done" => sized = <<>> /\ current.blocks = <<>>
    /\ phase = "merge" /\ current.blocks = <<>> => chunks = <<>>

\* Each line of text that has been read is in a block, or in the buffer.
Covered ==
    \A i \in 1 .. at : doc[i].kind # "blank" =>
        (open # 0 /\ open <= i) \/ \E b \in Parts : i \in b.first .. b.last

\* Blocks that wait to be sized are whole; the last one read is above the buffer.
Parsed ==
    /\ Linked(blocks)
    /\ \A b \in ToSet(blocks) : b.off = 0 /\ Ends(b)
    /\ phase = "parse" /\ blocks # <<>> =>
          /\ Last(blocks).last < IF open = 0 THEN at + 1 ELSE open
          /\ Last(blocks).path = stack

\* What is left of the first block.
Rest == [Head(blocks) EXCEPT !.off = off]

Halved ==
    /\ Linked(sized)
    /\ phase \in {"size", "merge"} /\ current.blocks = <<>> /\ sized # <<>> => sized[1].off = 0
    /\ phase = "size" =>
          /\ blocks # <<>> /\ (sized = <<>> \/ Head(blocks).size <= ChunkSize) => off = 0
          /\ blocks # <<>> /\ sized # <<>> => Leads(Last(sized), Rest)
    /\ blocks = <<>> /\ sized # <<>> => Ends(Last(sized))

Joins ==
    /\ Linked(current.blocks)
    /\ current.blocks # <<>> =>
          /\ IF sized = <<>> THEN Ends(Last(current.blocks)) ELSE Leads(Last(current.blocks), sized[1])
          /\ IF chunks = <<>> THEN current.blocks[1].off = 0
             ELSE Leads(Last(chunks[Len(chunks)].blocks), current.blocks[1])

\* One chunk after another.
ChainOf(cs) ==
    /\ cs # <<>> => cs[1].blocks[1].off = 0
    /\ \A k \in DOMAIN cs : cs[k].blocks # <<>> /\ Linked(cs[k].blocks)
    /\ \A k \in 1 .. Len(cs) - 1 : Leads(Last(cs[k].blocks), cs[k + 1].blocks[1])

Chained ==
    /\ ChainOf(chunks)
    /\ phase = "done" /\ chunks # <<>> => Ends(Last(chunks[Len(chunks)].blocks))

\* All prose of bs is under the path of its last block, unless a heading was cut.
Uncut(bs)  == \A k \in DOMAIN bs : ~SplitHeading(bs[k])
OnePath(bs) == Uncut(bs) => \A k \in DOMAIN bs : ~bs[k].head => bs[k].path = Last(bs).path

\* What bs begins with, after an overlap of length n with the last of the chunks cs.
Carried(n, bs, cs) ==
    n > 0 => /\ bs # <<>> /\ ~bs[1].head /\ cs # <<>>
             /\ Uncut(bs) /\ Unsplit(cs[Len(cs)]) => bs[1].path = cs[Len(cs)].path

SectionsOf(cs) ==
    /\ cs # <<>> => cs[1].seed = 0
    /\ \A k \in DOMAIN cs : Unsplit(cs[k]) =>
          /\ \A b \in ToSet(cs[k].blocks) : ~b.head => b.path = cs[k].path
          /\ cs[k].seed > 0 /\ Unsplit(cs[k - 1]) => cs[k - 1].path = cs[k].path

OneSection == /\ OnePath(current.blocks)
              /\ Carried(seed, current.blocks, chunks)
              /\ SectionsOf(chunks)

\* The invariant of paths and order.
ChunkInv == /\ IInv /\ Parity /\ StackTrue /\ BufferPlain /\ PathsStand
            /\ Staged /\ Covered /\ Parsed /\ Halved /\ Joins /\ Chained
-------------------------------------------------------------------------------
(* Lemmas about lines *)

\* One more line changes the parity of the fences if it is one.
LEMMA MarkersNext ==
    ASSUME NEW i \in Nat
    PROVE  /\ Cardinality(Markers(i)) \in Nat
           /\ Cardinality(Markers(i + 1)) = Cardinality(Markers(i))
                 + (IF doc[i + 1].kind \in Fence THEN 1 ELSE 0)
<1>1. IsFiniteSet(1 .. i)
  BY FS_Interval
<1>2. Markers(i) \in SUBSET (1 .. i)
  BY DEF Markers
<1>3. IsFiniteSet(Markers(i))
  BY <1>1, <1>2, FS_Subset
<1>4. i + 1 \notin Markers(i)
  BY <1>2
<1>5. CASE doc[i + 1].kind \in Fence
  <2>1. Markers(i + 1) = Markers(i) \cup {i + 1}
    BY <1>5 DEF Markers
  <2> QED
    BY <1>3, <1>4, <1>5, <2>1, FS_AddElement, FS_CardinalityType
<1>6. CASE doc[i + 1].kind \notin Fence
  <2>1. Markers(i + 1) = Markers(i)
    BY <1>6 DEF Markers
  <2> QED
    BY <1>3, <1>6, <2>1, FS_CardinalityType
<1> QED
  BY <1>5, <1>6

\* What markup the next line is.
LEMMA HeadedNext ==
    ASSUME Parity, at \in Nat
    PROVE  Headed(at + 1) <=> doc[at + 1].kind = "heading" /\ ~fenced
<1>1. doc[at + 1].kind = "heading" => Cardinality(Markers(at + 1)) = Cardinality(Markers(at))
  BY SMTT(30), MarkersNext DEF Fence
<1> QED
  BY <1>1, MarkersNext DEF Parity, Headed

\* The same headings are in force as long as there is no other.
LEMMA SectionSame ==
    ASSUME NEW i \in Nat, NEW j \in Nat, i <= j, \A g \in i + 1 .. j : ~Headed(g)
    PROVE  Under(i) = Under(j)
  BY DEF Under

\* A heading closes those at its level and below.
LEMMA SectionNext ==
    ASSUME NEW i \in Nat, Headed(i + 1)
    PROVE  Under(i + 1) = {h \in Under(i) : doc[i + 1].level > doc[h].level} \cup {i + 1}
  BY DEF Under

\* What is said of lines depends on the text only.
LEMMA TextStays ==
    ASSUME doc' = doc
    PROVE  /\ \A i : Headed(i)' <=> Headed(i)
           /\ \A i : Under(i)' = Under(i)
           /\ \A i : Markers(i)' = Markers(i)
           /\ \A b : Stands(b)' <=> Stands(b)
           /\ \A b : Ends(b)' <=> Ends(b)
           /\ \A b, c : Follows(b, c)' <=> Follows(b, c)
           /\ \A b, c : Leads(b, c)' <=> Leads(b, c)
           /\ \A s : Linked(s)' <=> Linked(s)
           /\ \A cs : ChainOf(cs)' <=> ChainOf(cs)
<1>1. \A i : Markers(i)' = Markers(i)
  BY DEF Markers
<1>2. \A i : Headed(i)' <=> Headed(i)
  BY <1>1 DEF Headed
<1>3. \A i : Under(i)' = Under(i)
  BY <1>2 DEF Under
<1>4. \A b : Stands(b)' <=> Stands(b)
  BY <1>2, <1>3 DEF Stands
<1>5. \A b : Ends(b)' <=> Ends(b)
  BY DEF Ends, Length
<1>6. \A b, c : Follows(b, c)' <=> Follows(b, c)
  BY <1>5 DEF Follows
<1>7. \A b, c : Leads(b, c)' <=> Leads(b, c)
  BY <1>2, <1>6 DEF Leads
<1>8. \A s : Linked(s)' <=> Linked(s)
  BY <1>7 DEF Linked
<1>9. \A cs : ChainOf(cs)' <=> ChainOf(cs)
  BY <1>7, <1>8 DEF ChainOf
<1> QED
  BY <1>1, <1>2, <1>3, <1>4, <1>5, <1>6, <1>7, <1>8, <1>9
-------------------------------------------------------------------------------
(* Lemmas about sequences of blocks *)

\* One more block.
LEMMA OneMore ==
    ASSUME NEW s \in Seq(Blocks), NEW b \in Blocks
    PROVE  /\ Append(s, b) \in Seq(Blocks) /\ Append(s, b) # <<>>
           /\ ToSet(Append(s, b)) = ToSet(s) \cup {b}
           /\ Last(Append(s, b)) = b
           /\ Append(s, b)[1] = IF s = <<>> THEN b ELSE s[1]
           /\ Linked(s) /\ (s # <<>> => Leads(Last(s), b)) => Linked(Append(s, b))
<1> DEFINE t == Append(s, b)
<1>1. /\ t \in Seq(Blocks) /\ t # <<>> /\ Len(t) = Len(s) + 1 /\ Len(s) \in Nat
      /\ DOMAIN t = 1 .. Len(s) + 1 /\ DOMAIN s = 1 .. Len(s)
      /\ \A k \in 1 .. Len(s) : t[k] = s[k]
      /\ t[Len(s) + 1] = b
  <2>1. /\ t \in Seq(Blocks) /\ t # <<>> /\ Len(t) = Len(s) + 1
        /\ \A k \in 1 .. Len(s) : t[k] = s[k]
        /\ t[Len(s) + 1] = b
    BY AppendProperties
  <2> QED
    BY <2>1, LenProperties
<1>2. s = <<>> <=> Len(s) = 0
  BY EmptySeq
<1> HIDE DEF t
<1>3. ToSet(t) = ToSet(s) \cup {b}
  BY <1>1 DEF ToSet
<1>4. Last(t) = b
  BY <1>1 DEF Last
<1>5. t[1] = IF s = <<>> THEN b ELSE s[1]
  BY <1>1, <1>2
<1>6. ASSUME Linked(s), s # <<>> => Leads(Last(s), b), NEW m \in 1 .. Len(t) - 1
      PROVE  Leads(t[m], t[m + 1])
  <2>1. CASE m = Len(s)
    <3>1. t[m] = Last(s) /\ t[m + 1] = b /\ s # <<>>
      BY <1>1, <1>2, <2>1 DEF Last
    <3> QED
      BY <1>6, <3>1
  <2>2. CASE m \in 1 .. Len(s) - 1
    <3>1. t[m] = s[m] /\ t[m + 1] = s[m + 1]
      BY <1>1, <2>2
    <3> QED
      BY <1>6, <2>2, <3>1 DEF Linked
  <2>3. m = Len(s) \/ m \in 1 .. Len(s) - 1
    <3>1. Len(t) = Len(s) + 1 /\ Len(s) \in Nat
      BY <1>1
    <3> QED
      BY <3>1
  <2> QED
    BY <2>1, <2>2, <2>3
<1> QED
  BY <1>1, <1>3, <1>4, <1>5, <1>6 DEF t, Linked

\* One block less.
LEMMA OneLess ==
    ASSUME NEW s \in Seq(Blocks), s # <<>>
    PROVE  /\ Head(s) = s[1] /\ Head(s) \in Blocks /\ Tail(s) \in Seq(Blocks)
           /\ ToSet(s) = ToSet(Tail(s)) \cup {Head(s)}
           /\ Tail(s) = <<>> => Last(s) = Head(s)
           /\ Tail(s) # <<>> => Last(Tail(s)) = Last(s)
           /\ Linked(s) => /\ Linked(Tail(s))
                           /\ Tail(s) # <<>> => Leads(Head(s), Tail(s)[1])
<1> DEFINE t == Tail(s)
<1>1. /\ Head(s) = s[1] /\ Head(s) \in Blocks /\ t \in Seq(Blocks)
      /\ Len(t) = Len(s) - 1 /\ Len(s) \in Nat \ {0}
      /\ \A k \in 1 .. Len(t) : t[k] = s[k + 1]
      /\ DOMAIN t = 1 .. Len(t) /\ DOMAIN s = 1 .. Len(s)
  <2>1. /\ Head(s) = s[1] /\ Head(s) \in Blocks /\ t \in Seq(Blocks)
        /\ Len(t) = Len(s) - 1
        /\ \A k \in 1 .. Len(t) : t[k] = s[k + 1]
    BY HeadTailProperties
  <2>2. Len(s) \in Nat \ {0}
    BY EmptySeq
  <2> QED
    BY <2>1, <2>2, LenProperties
<1>2. t = <<>> <=> Len(t) = 0
  BY <1>1, EmptySeq
<1> HIDE DEF t
<1>3. ToSet(s) = ToSet(t) \cup {Head(s)}
  <2>1. ASSUME NEW k \in 1 .. Len(s) PROVE s[k] \in ToSet(t) \cup {Head(s)}
    <3>1. CASE k = 1
      BY <1>1, <3>1
    <3>2. CASE k # 1
      <4>1. k - 1 \in 1 .. Len(t) /\ t[k - 1] = s[k]
        BY <1>1, <3>2
      <4> QED
        BY <1>1, <4>1 DEF ToSet
    <3> QED
      BY <3>1, <3>2
  <2>2. ASSUME NEW k \in 1 .. Len(t) PROVE t[k] \in ToSet(s)
    <3>1. t[k] = s[k + 1] /\ k + 1 \in 1 .. Len(s)
      BY <1>1
    <3> QED
      BY <1>1, <3>1 DEF ToSet
  <2>3. Head(s) \in ToSet(s)
    BY <1>1 DEF ToSet
  <2>4. ToSet(s) \subseteq ToSet(t) \cup {Head(s)}
    BY <1>1, <2>1 DEF ToSet
  <2>5. ToSet(t) \subseteq ToSet(s)
    BY <1>1, <2>2 DEF ToSet
  <2> QED
    BY <2>3, <2>4, <2>5
<1>4. t = <<>> => Last(s) = Head(s)
  BY <1>1, <1>2 DEF Last
<1>5. t # <<>> => Last(t) = Last(s)
  BY <1>1, <1>2 DEF Last
<1>6. ASSUME Linked(s) PROVE Linked(t) /\ (t # <<>> => Leads(Head(s), t[1]))
  <2>1. ASSUME NEW m \in 1 .. Len(t) - 1 PROVE Leads(t[m], t[m + 1])
    <3>1. t[m] = s[m + 1] /\ t[m + 1] = s[m + 1 + 1] /\ m + 1 \in 1 .. Len(s) - 1
      BY <1>1, <2>1
    <3> QED
      BY <1>6, <3>1 DEF Linked
  <2>2. t # <<>> => t[1] = s[1 + 1] /\ 1 \in 1 .. Len(s) - 1
    BY <1>1, <1>2
  <2> QED
    BY <1>1, <1>6, <2>1, <2>2 DEF Linked
<1> QED
  BY <1>1, <1>3, <1>4, <1>5, <1>6 DEF t

\* In the first loop there are no blocks but those parsed.
LEMMA OnlyParsed == Staged /\ phase = "parse" => Parts = ToSet(blocks)
  BY DEF Staged, Parts, Emitted, ToSet

\* What a flush leaves, before what it adds: all text up to here.
LEMMA FlushReads ==
    ASSUME ChunkInv, phase = "parse", NEW bs \in Seq(Blocks), Flush(bs)
    PROVE  \E mid \in Seq(Blocks) :
              /\ blocks' = mid \o bs
              /\ Linked(mid)
              /\ \A b \in ToSet(mid) : b.off = 0 /\ Ends(b) /\ Stands(b)
              /\ mid # <<>> => Last(mid).last < at + 1 /\ Last(mid).path = stack
              /\ \A i \in 1 .. at : doc[i].kind # "blank" => \E b \in ToSet(mid) : i \in b.first .. b.last
<1>1. /\ doc \in Docs /\ Len(doc) \in Nat /\ at \in 0 .. Len(doc) /\ open \in 0 .. at
      /\ stack \in Seq(Nat) /\ blocks \in Seq(Blocks)
  BY Standing DEF ChunkInv
<1>2. /\ Linked(blocks)
      /\ \A b \in ToSet(blocks) : b.off = 0 /\ Ends(b) /\ Stands(b)
      /\ blocks # <<>> =>
            /\ Last(blocks).last < IF open = 0 THEN at + 1 ELSE open
            /\ Last(blocks).path = stack
  BY OnlyParsed DEF ChunkInv, Parsed, PathsStand
<1>3. \A i \in 1 .. at : doc[i].kind # "blank" =>
          (open # 0 /\ open <= i) \/ \E b \in ToSet(blocks) : i \in b.first .. b.last
  BY OnlyParsed DEF ChunkInv, Covered
<1>4. CASE open = 0
  <2>1. blocks' = blocks \o bs
    BY <1>4 DEF Flush
  <2> QED
    BY <1>1, <1>2, <1>3, <1>4, <2>1
<1>5. CASE open # 0
  <2>1. PICK last \in open .. at :
              /\ doc[last].kind # "blank"
              /\ \A k \in last + 1 .. at : doc[k].kind = "blank"
              /\ blocks' = Append(blocks, Block(open, last, stack, FALSE)) \o bs
    BY <1>5 DEF Flush
  <2> DEFINE more == Block(open, last, stack, FALSE)
  <2>2. /\ more \in Blocks /\ more.first = open /\ more.last = last /\ more.off = 0
        /\ more.size = Length(open, last) /\ more.path = stack /\ more.head = FALSE
    <3>1. open \in 1 .. Len(doc) /\ last \in open .. Len(doc)
      BY <1>1, <1>5, <2>1
    <3>2. more \in Blocks
      BY <1>1, <2>1, <3>1, BlockTyped
    <3> QED
      BY <3>2 DEF Block
  <2> HIDE DEF more
  <2>3. Length(open, last) \in Nat /\ last \in Nat /\ open \in Nat \ {0}
    BY <1>1, <1>5, <2>1, <2>2 DEF Blocks
  <2>4. Ends(more)
    BY <2>2, <2>3 DEF Ends
  <2>5. Stands(more)
    <3>1. \A i \in open .. at : ~Headed(i)
      BY <1>5 DEF ChunkInv, BufferPlain
    <3>2. Under(open) = Under(at)
      <4>1. \A g \in open + 1 .. at : ~Headed(g)
        BY <2>3, <3>1
      <4> QED
        BY <1>1, <4>1, SectionSame
    <3>3. /\ ToSet(stack) = Under(at)
          /\ \A m \in DOMAIN stack, n \in DOMAIN stack : m < n => stack[m] < stack[n]
      BY DEF ChunkInv, StackTrue
    <3>4. \A i \in open .. last : ~Headed(i)
      BY <1>1, <2>1, <3>1
    <3>5. open \in 1 .. last /\ last \in 1 .. Len(doc)
      <4>1. open \in 1 .. at /\ last \in open .. at
        BY <1>1, <1>5, <2>1
      <4> QED
        BY <1>1, <4>1
    <3> QED
      BY <2>2, <3>2, <3>3, <3>4, <3>5 DEF Stands
  <2>6. blocks # <<>> => Leads(Last(blocks), more)
    <3>1. ASSUME blocks # <<>> PROVE Ends(Last(blocks))
      <4>1. Last(blocks) \in ToSet(blocks)
        BY <1>1, <3>1, EmptySeq, LenProperties DEF Last, ToSet
      <4> QED
        BY <1>2, <4>1
    <3> QED
      BY <1>2, <1>5, <2>2, <3>1 DEF Leads, Follows
  <2> DEFINE mid == Append(blocks, more)
  <2>7. /\ mid \in Seq(Blocks) /\ Linked(mid) /\ Last(mid) = more
        /\ ToSet(mid) = ToSet(blocks) \cup {more} /\ blocks' = mid \o bs
    BY ZenonT(60), <1>1, <1>2, <2>1, <2>2, <2>6, OneMore DEF more
  <2> HIDE DEF mid
  <2>8. \A b \in ToSet(mid) : b.off = 0 /\ Ends(b) /\ Stands(b)
    BY <1>2, <2>2, <2>4, <2>5, <2>7
  <2>9. Last(mid).last < at + 1 /\ Last(mid).path = stack
    BY <1>1, <2>1, <2>2, <2>7
  <2>10. ASSUME NEW i \in 1 .. at, doc[i].kind # "blank"
         PROVE  \E b \in ToSet(mid) : i \in b.first .. b.last
    <3>1. CASE open <= i
      <4>1. i \in open .. last
        BY <1>1, <2>1, <2>10, <3>1
      <4> QED
        BY <2>2, <2>7, <4>1
    <3>2. CASE ~(open <= i)
      BY <1>3, <2>7, <2>10, <3>2
    <3> QED
      BY <3>1, <3>2
  <2> QED
    BY <2>7, <2>8, <2>9, <2>10
<1> QED
  BY <1>4, <1>5
-------------------------------------------------------------------------------
(* The first loop *)

\* In the first loop only what is read changes.
LEMMA ParseDone ==
    ASSUME ChunkInv, IInv', phase = "parse", phase' \in {"parse", "size"},
           UNCHANGED <<doc, off, sized, current, seed, chunks>>,
           Parity', StackTrue', BufferPlain', Linked(blocks'),
           \A b \in ToSet(blocks') : b.off = 0 /\ Ends(b) /\ Stands(b),
           phase' = "parse" /\ blocks' # <<>> =>
               /\ Last(blocks').last < (IF open' = 0 THEN at' + 1 ELSE open')
               /\ Last(blocks').path = stack',
           phase' = "size" => open' = 0 /\ at' = Len(doc),
           \A i \in 1 .. at' : doc[i].kind # "blank" =>
               (open' # 0 /\ open' <= i) \/ \E b \in ToSet(blocks') : i \in b.first .. b.last
    PROVE  ChunkInv'
<1>1. /\ sized = <<>> /\ sized' = <<>> /\ current.blocks = <<>> /\ current'.blocks = <<>>
      /\ chunks = <<>> /\ chunks' = <<>> /\ off' = 0
  BY DEF ChunkInv, Staged, IInv, Typed
<1>2. Parts' = ToSet(blocks')
  BY <1>1 DEF Parts, Emitted, ToSet
<1>3. PathsStand'
  BY <1>2, TextStays DEF PathsStand
<1>4. Staged'
  BY <1>1 DEF Staged
<1>5. Covered'
  BY <1>2 DEF Covered
<1>6. Parsed'
  <2>1. Linked(blocks)' /\ \A b \in ToSet(blocks') : b.off = 0 /\ Ends(b)'
    <3>1. \A t : t = blocks' => Linked(t)'
      BY TextStays
    <3> QED
      BY <3>1, TextStays DEF Linked
  <2> QED
    BY <2>1 DEF Parsed, Last
<1>7. Linked(<<>>)'
  <2>1. \A m \in 1 .. 0 - 1 : FALSE
    OBVIOUS
  <2> QED
    BY <2>1 DEF Linked
<1>8. Halved'
  BY <1>1, <1>7 DEF Halved, Linked
<1>9. Joins'
  BY <1>1, <1>7 DEF Joins, Linked
<1>10. Chained'
  BY <1>1 DEF Chained, ChainOf
<1> QED
  BY <1>3, <1>4, <1>5, <1>6, <1>8, <1>9, <1>10 DEF ChunkInv

\* A line that is no markup joins the buffer, or does nothing.
LEMMA PlainLine ==
    ASSUME ChunkInv, at \in Nat, at' = at + 1, doc' = doc, stack' = stack, fenced \in BOOLEAN,
           fenced' = (fenced # (doc[at + 1].kind \in Fence)),
           doc[at + 1].kind = "heading" => fenced
    PROVE  Parity' /\ StackTrue' /\ ~Headed(at + 1)
<1>1. Parity'
  <2>1. Cardinality(Markers(at + 1)) = Cardinality(Markers(at))
              + (IF doc[at + 1].kind \in Fence THEN 1 ELSE 0)
        /\ Cardinality(Markers(at)) \in Nat
    BY MarkersNext
  <2>2. fenced <=> Cardinality(Markers(at)) % 2 # 0
    BY DEF ChunkInv, Parity
  <2>3. fenced' <=> Cardinality(Markers(at + 1)) % 2 # 0
    <3>1. CASE doc[at + 1].kind \in Fence
      <4>1. fenced' <=> ~fenced
        BY <3>1
      <4>2. \A n \in Nat : (n + 1) % 2 # 0 <=> ~(n % 2 # 0)
        OBVIOUS
      <4>3. Cardinality(Markers(at + 1)) % 2 # 0 <=> ~(Cardinality(Markers(at)) % 2 # 0)
        BY <2>1, <3>1, <4>2
      <4> QED
        BY <2>2, <4>1, <4>3, Zenon
    <3>2. CASE doc[at + 1].kind \notin Fence
      <4>1. fenced' <=> fenced
        BY <3>2
      <4>2. Cardinality(Markers(at + 1)) = Cardinality(Markers(at))
        BY <2>1, <3>2
      <4> QED
        BY <2>2, <4>1, <4>2, Zenon
    <3> QED
      BY <3>1, <3>2
  <2>4. Markers(at)' = Markers(at + 1)
    BY DEF Markers
  <2> QED
    BY <2>3, <2>4 DEF Parity
<1>2. ~Headed(at + 1)
  BY HeadedNext DEF ChunkInv
<1>3. StackTrue'
  <2>1. Under(at + 1) = Under(at)
    <3>1. \A g \in at + 1 .. at + 1 : ~Headed(g)
      BY <1>2
    <3> QED
      BY <3>1, SectionSame
  <2>2. \A i : Under(i)' = Under(i)
    BY TextStays
  <2>3. Under(at)' = Under(at + 1)
    <3>1. \A i : i = at' => Under(at)' = Under(i)'
      BY DEF Under
    <3> QED
      BY <2>2, <3>1
  <2> QED
    BY <2>1, <2>3 DEF ChunkInv, StackTrue, ToSet
<1> QED
  BY <1>1, <1>2, <1>3

\* Lines between fences, and text, join the buffer.
LEMMA BufferLine == ChunkInv /\ (ReadVerbatim \/ ReadText) => ChunkInv'
<1> SUFFICES ASSUME ChunkInv, ReadVerbatim \/ ReadText PROVE ChunkInv'
  OBVIOUS
<1>1. /\ doc \in Docs /\ Len(doc) \in Nat /\ at \in 0 .. Len(doc) /\ open \in 0 .. at
      /\ stack \in Seq(Nat) /\ blocks \in Seq(Blocks) /\ fenced \in BOOLEAN
  BY Standing DEF ChunkInv, Parity
<1>2. PICK kinds : Reads(kinds)
  <2>1. CASE ReadVerbatim
    <3>1. Reads({"heading", "text", "blank"} \cup Fence)
      BY <2>1 DEF ReadVerbatim
    <3> QED
      BY <3>1
  <2>2. CASE ReadText
    <3>1. Reads({"text"})
      BY <2>2 DEF ReadText
    <3> QED
      BY <3>1
  <2> QED
    BY <2>1, <2>2
<1>3. /\ phase = "parse" /\ phase' = "parse" /\ at' = at + 1 /\ at + 1 \in 1 .. Len(doc)
      /\ UNCHANGED <<doc, off, sized, current, seed, chunks>>
  BY <1>2, Reading DEF ChunkInv
<1>4. open' = (IF open = 0 THEN at + 1 ELSE open) /\ stack' = stack /\ blocks' = blocks
  BY DEF ReadVerbatim, ReadText, Buffered
<1>5. /\ fenced' = (fenced # (doc[at + 1].kind \in Fence))
      /\ doc[at + 1].kind = "heading" => fenced
  <2>1. CASE ReadVerbatim
    <3>1. "heading" \notin Fence
      BY DEF Fence
    <3> QED
      BY <2>1, <3>1 DEF ReadVerbatim
  <2>2. CASE ReadText
    <3>1. doc[at + 1].kind = "text" /\ ~fenced /\ fenced' = fenced
      BY <2>2 DEF ReadText, Reads
    <3> QED
      BY <1>1, <3>1 DEF Fence
  <2> QED
    BY <2>1, <2>2
<1>6. Parity' /\ StackTrue' /\ ~Headed(at + 1)
  BY <1>1, <1>3, <1>4, <1>5, PlainLine
<1>7. BufferPlain'
  <2>1. \A i \in open' .. at' : ~Headed(i)
    <3>1. ASSUME NEW i \in open' .. at' PROVE ~Headed(i)
      <4>1. i = at + 1 \/ (open # 0 /\ i \in open .. at)
        BY <1>1, <1>3, <1>4
      <4> QED
        BY <1>6, <4>1 DEF ChunkInv, BufferPlain
    <3> QED
      BY <3>1
  <2> QED
    BY <1>3, <2>1, TextStays DEF BufferPlain
<1>8. /\ Linked(blocks') /\ \A b \in ToSet(blocks') : b.off = 0 /\ Ends(b) /\ Stands(b)
      /\ blocks' # <<>> => /\ Last(blocks').last < IF open' = 0 THEN at' + 1 ELSE open'
                           /\ Last(blocks').path = stack'
  <2>1. /\ Linked(blocks) /\ \A b \in ToSet(blocks) : b.off = 0 /\ Ends(b) /\ Stands(b)
        /\ blocks # <<>> => /\ Last(blocks).last < IF open = 0 THEN at + 1 ELSE open
                            /\ Last(blocks).path = stack
    BY <1>3, OnlyParsed DEF ChunkInv, Parsed, PathsStand
  <2> QED
    BY <1>1, <1>3, <1>4, <2>1
<1>9. \A i \in 1 .. at' : doc[i].kind # "blank" =>
          (open' # 0 /\ open' <= i) \/ \E b \in ToSet(blocks') : i \in b.first .. b.last
  <2>1. \A i \in 1 .. at : doc[i].kind # "blank" =>
            (open # 0 /\ open <= i) \/ \E b \in ToSet(blocks) : i \in b.first .. b.last
    BY <1>3, OnlyParsed DEF ChunkInv, Covered
  <2>2. \A i \in 1 .. at' : i = at + 1 \/ i \in 1 .. at
    BY <1>1, <1>3
  <2>3. open' # 0 /\ open' <= at + 1
    BY <1>1, <1>3, <1>4
  <2>4. open # 0 => open' = open
    BY <1>4
  <2> QED
    BY <1>4, <2>1, <2>2, <2>3, <2>4
<1>10. IInv'
  BY ParseStep DEF ChunkInv
<1> QED
  BY <1>3, <1>6, <1>7, <1>8, <1>9, <1>10, ParseDone

\* A blank line, and the end, flush the buffer.
LEMMA FlushLine == ChunkInv /\ (ReadBlank \/ EndOfText) => ChunkInv'
<1> SUFFICES ASSUME ChunkInv, ReadBlank \/ EndOfText PROVE ChunkInv'
  OBVIOUS
<1>1. /\ doc \in Docs /\ Len(doc) \in Nat /\ at \in 0 .. Len(doc) /\ open \in 0 .. at
      /\ stack \in Seq(Nat) /\ blocks \in Seq(Blocks) /\ fenced \in BOOLEAN
  BY Standing DEF ChunkInv, Parity
<1>2. phase = "parse" /\ Flush(<<>>) /\ open' = 0 /\ stack' = stack /\ fenced' = fenced
      /\ UNCHANGED <<doc, off, sized, current, seed, chunks>>
  BY DEF ReadBlank, Reads, EndOfText
<1>3. PICK mid \in Seq(Blocks) :
              /\ blocks' = mid \o <<>>
              /\ Linked(mid)
              /\ \A b \in ToSet(mid) : b.off = 0 /\ Ends(b) /\ Stands(b)
              /\ mid # <<>> => Last(mid).last < at + 1 /\ Last(mid).path = stack
              /\ \A i \in 1 .. at : doc[i].kind # "blank" => \E b \in ToSet(mid) : i \in b.first .. b.last
  <2>1. <<>> \in Seq(Blocks)
    BY EmptySeq
  <2> QED
    BY <1>2, <2>1, FlushReads
<1>4. blocks' = mid
  BY <1>3, ConcatEmptySeq
<1>5. IInv'
  BY ParseStep DEF ChunkInv
<1>6. BufferPlain'
  BY <1>2 DEF BufferPlain
<1>7. CASE ReadBlank
  <2>1. /\ phase' = "parse" /\ at' = at + 1 /\ doc[at + 1].kind = "blank"
    BY <1>7 DEF ReadBlank, Reads
  <2>2. Parity' /\ StackTrue' /\ ~Headed(at + 1)
    <3>1. fenced' = (fenced # (doc[at + 1].kind \in Fence))
      BY <1>1, <1>2, <2>1 DEF Fence
    <3> QED
      BY <1>1, <1>2, <2>1, <3>1, PlainLine
  <2>3. mid # <<>> => Last(mid).last < at' + 1
    <3>1. mid # <<>> => Last(mid) \in Blocks
      BY EmptySeq, ElementOfSeq DEF Last
    <3>2. mid # <<>> => Last(mid).last \in Nat
      BY <3>1 DEF Blocks
    <3> QED
      BY <1>1, <1>3, <2>1, <3>2
  <2>4. \A i \in 1 .. at' : doc[i].kind # "blank" => \E b \in ToSet(mid) : i \in b.first .. b.last
    <3>1. \A i \in 1 .. at' : i = at + 1 \/ i \in 1 .. at
      BY <1>1, <2>1
    <3> QED
      BY <1>3, <2>1, <3>1
  <2> QED
    BY <1>2, <1>3, <1>4, <1>5, <1>6, <2>1, <2>2, <2>3, <2>4, ParseDone
<1>8. CASE EndOfText
  <2>1. phase' = "size" /\ at = Len(doc) /\ at' = at
    BY <1>8 DEF EndOfText
  <2>2. Parity' /\ StackTrue'
    <3>1. Parity'
      BY <1>2, <2>1 DEF ChunkInv, Parity, Markers
    <3>2. Under(at)' = Under(at)
      <4>1. \A i : i = at' => Under(at)' = Under(i)'
        BY DEF Under
      <4> QED
        BY <1>2, <2>1, <4>1, TextStays
    <3> QED
      BY <1>2, <3>1, <3>2 DEF ChunkInv, StackTrue, ToSet
  <2> QED
    BY <1>2, <1>3, <1>4, <1>5, <1>6, <2>1, <2>2, ParseDone
<1> QED
  BY <1>7, <1>8

\* A heading leaves on the stack what is above its level, and itself.
LEMMA StackKept ==
    ASSUME ChunkInv, at + 1 \in 1 .. Len(doc), Headed(at + 1),
           NEW n \in 0 .. Len(stack), Kept(n, doc[at + 1].level),
           NEW new, new = Append(SubSeq(stack, 1, n), at + 1)
    PROVE  /\ new \in Seq(Nat)
           /\ ToSet(new) = Under(at + 1)
           /\ \A m \in DOMAIN new, k \in DOMAIN new : m < k => new[m] < new[k]
<1>1. /\ doc \in Seq(Line) /\ Len(doc) \in Nat /\ at \in 0 .. Len(doc) /\ stack \in Seq(Nat)
      /\ DOMAIN stack = 1 .. Len(stack) /\ Len(stack) \in Nat
  <2>1. doc \in Docs /\ Len(doc) \in Nat /\ at \in 0 .. Len(doc) /\ stack \in Seq(Nat)
    BY Standing DEF ChunkInv
  <2> QED
    BY <2>1, ChunkerAssumption, LenProperties
<1>2. /\ ToSet(stack) = Under(at)
      /\ \A m \in DOMAIN stack, k \in DOMAIN stack : m < k => stack[m] < stack[k]
  BY DEF ChunkInv, StackTrue
<1>3. \A i \in 1 .. Len(doc) : doc[i].level \in Nat
  <2>1. \A line \in Line : line.level \in Nat
    BY DEF Line
  <2> QED
    BY <1>1, <2>1, ElementOfSeq
<1>4. \A k \in 1 .. Len(stack) : stack[k] \in 1 .. at /\ stack[k] \in Under(at)
  <2>1. \A k \in 1 .. Len(stack) : stack[k] \in Under(at)
    BY <1>1, <1>2 DEF ToSet
  <2> QED
    BY <2>1 DEF Under
<1>5. ASSUME NEW m \in 1 .. n PROVE doc[at + 1].level > doc[stack[m]].level
  <2>1. n > 0 /\ n \in 1 .. Len(stack) /\ m \in 1 .. Len(stack)
    BY <1>1
  <2>2. doc[stack[n]].level < doc[at + 1].level
    BY <2>1 DEF Kept
  <2>3. CASE m < n
    <3>1. stack[m] < stack[n]
      BY <1>1, <1>2, <2>1, <2>3
    <3>2. stack[n] \in stack[m] + 1 .. at /\ Headed(stack[n])
      BY <1>1, <1>4, <2>1, <3>1 DEF Under
    <3>3. doc[stack[n]].level > doc[stack[m]].level
      BY <1>4, <2>1, <3>2 DEF Under
    <3>4. /\ doc[stack[n]].level \in Nat /\ doc[stack[m]].level \in Nat
          /\ doc[at + 1].level \in Nat
      BY SMTT(30), <1>1, <1>3, <1>4, <2>1
    <3> QED
      BY SMTT(30), <2>2, <3>3, <3>4
  <2>4. CASE m = n
    <3>1. doc[stack[n]].level \in Nat /\ doc[at + 1].level \in Nat
      BY <1>1, <1>3, <1>4, <2>1
    <3> QED
      BY <2>2, <2>4, <3>1
  <2> QED
    BY <1>1, <2>1, <2>3, <2>4
<1>6. ASSUME NEW m \in n + 1 .. Len(stack) PROVE ~(doc[at + 1].level > doc[stack[m]].level)
  <2>1. doc[stack[m]].level >= doc[at + 1].level
    BY DEF Kept
  <2>2. doc[stack[m]].level \in Nat /\ doc[at + 1].level \in Nat
    BY <1>1, <1>3, <1>4
  <2> QED
    BY <2>1, <2>2
<1> DEFINE old == SubSeq(stack, 1, n)
<1>7. /\ old \in Seq(Nat) /\ Len(old) = n
      /\ \A m \in 1 .. n : old[m] = stack[m]
  <2>1. \A m \in 1 .. n : stack[m] \in Nat
    BY <1>1, <1>4
  <2>2. /\ old \in Seq(Nat) /\ Len(old) = (IF 1 <= n THEN n - 1 + 1 ELSE 0)
        /\ \A m \in 1 .. n - 1 + 1 : old[m] = stack[1 + m - 1]
    BY <1>1, <2>1, SubSeqProperties
  <2>3. \A m \in 1 .. n : 1 + m - 1 = m /\ m \in 1 .. n - 1 + 1
    BY <1>1
  <2>4. \A m \in 1 .. n : old[m] = stack[m]
    BY <2>2, <2>3
  <2> QED
    BY <1>1, <2>2, <2>4
<1> HIDE DEF old
<1>8. /\ new \in Seq(Nat) /\ DOMAIN new = 1 .. n + 1
      /\ \A m \in 1 .. n : new[m] = stack[m]
      /\ new[n + 1] = at + 1
  <2>1. new = Append(old, at + 1)
    BY DEF old
  <2>2. /\ new \in Seq(Nat) /\ Len(new) = n + 1
        /\ \A m \in 1 .. n : new[m] = old[m]
        /\ new[n + 1] = at + 1
    BY SMTT(30), <1>1, <1>7, <2>1, AppendProperties
  <2> QED
    BY <1>7, <2>2, LenProperties
<1>9. Under(at + 1) = {h \in Under(at) : doc[at + 1].level > doc[h].level} \cup {at + 1}
  BY <1>1, SectionNext
<1>10. ToSet(new) = Under(at + 1)
  <2>1. ASSUME NEW m \in 1 .. n + 1 PROVE new[m] \in Under(at + 1)
    <3>1. CASE m = n + 1
      BY <1>8, <1>9, <3>1
    <3>2. CASE m \in 1 .. n
      <4>1. new[m] = stack[m] /\ stack[m] \in Under(at)
        BY <1>1, <1>4, <1>8, <3>2
      <4> QED
        BY <1>5, <1>9, <3>2, <4>1
    <3> QED
      BY <1>1, <3>1, <3>2
  <2>2. ASSUME NEW h \in Under(at + 1) PROVE h \in ToSet(new)
    <3>1. CASE h = at + 1
      <4>1. n + 1 \in DOMAIN new
        BY <1>1, <1>8
      <4> QED
        BY <1>8, <3>1, <4>1 DEF ToSet
    <3>2. CASE h \in Under(at) /\ doc[at + 1].level > doc[h].level
      <4>1. PICK m \in 1 .. Len(stack) : stack[m] = h
        BY <1>1, <1>2, <3>2 DEF ToSet
      <4>2. m \in 1 .. n
        BY <1>1, <1>6, <3>2, <4>1
      <4>3. m \in DOMAIN new /\ new[m] = h
        BY <1>1, <1>8, <4>1, <4>2
      <4> QED
        BY <4>3 DEF ToSet
    <3> QED
      BY <1>9, <3>1, <3>2
  <2> QED
    BY <1>8, <2>1, <2>2 DEF ToSet
<1>11. ASSUME NEW m \in DOMAIN new, NEW k \in DOMAIN new, m < k PROVE new[m] < new[k]
  <2>1. m \in 1 .. n /\ (k = n + 1 \/ k \in 1 .. n)
    BY SMTT(30), <1>1, <1>8, <1>11
  <2>2. new[m] = stack[m] /\ stack[m] \in 1 .. at /\ m \in 1 .. Len(stack)
    BY <1>1, <1>4, <1>8, <2>1
  <2>3. CASE k = n + 1
    BY <1>1, <1>8, <2>2, <2>3
  <2>4. CASE k \in 1 .. n
    <3>1. new[k] = stack[k] /\ k \in 1 .. Len(stack)
      BY <1>1, <1>8, <2>4
    <3> QED
      BY <1>1, <1>2, <1>11, <2>2, <3>1
  <2> QED
    BY <2>1, <2>3, <2>4
<1> QED
  BY <1>8, <1>10, <1>11

\* A heading flushes the buffer, closes sections, and is a block of its own.
LEMMA HeadingLine == ChunkInv /\ ReadHeading => ChunkInv'
<1> SUFFICES ASSUME ChunkInv, ReadHeading PROVE ChunkInv'
  OBVIOUS
<1>1. /\ doc \in Docs /\ Len(doc) \in Nat /\ at \in 0 .. Len(doc) /\ open \in 0 .. at
      /\ stack \in Seq(Nat) /\ blocks \in Seq(Blocks) /\ fenced \in BOOLEAN
  BY Standing DEF ChunkInv, Parity
<1>2. Reads({"heading"}) /\ open' = 0 /\ fenced' = fenced /\ ~fenced
  BY DEF ReadHeading
<1>3. /\ phase = "parse" /\ phase' = "parse" /\ at' = at + 1 /\ at + 1 \in 1 .. Len(doc)
      /\ doc[at + 1].kind \in {"heading"}
      /\ UNCHANGED <<doc, off, sized, current, seed, chunks>>
  BY <1>2, Reading DEF ChunkInv
<1>4. Headed(at + 1)
  BY <1>1, <1>2, <1>3, HeadedNext DEF ChunkInv
<1>5. PICK n \in 0 .. Len(stack) :
            /\ Kept(n, doc[at + 1].level)
            /\ stack' = Append(SubSeq(stack, 1, n), at + 1)
            /\ Flush(<<Block(at + 1, at + 1, stack', TRUE)>>)
  BY DEF ReadHeading
<1>6. /\ stack' \in Seq(Nat) /\ ToSet(stack') = Under(at + 1)
      /\ \A m \in DOMAIN stack', k \in DOMAIN stack' : m < k => stack'[m] < stack'[k]
  BY <1>3, <1>4, <1>5, StackKept
<1>7. Parity'
  <2>1. Cardinality(Markers(at + 1)) = Cardinality(Markers(at))
    <3>1. at \in Nat /\ doc[at + 1].kind \notin Fence
      BY <1>1, <1>3 DEF Fence
    <3>2. /\ Cardinality(Markers(at)) \in Nat
          /\ Cardinality(Markers(at + 1)) = Cardinality(Markers(at))
                 + (IF doc[at + 1].kind \in Fence THEN 1 ELSE 0)
      BY <3>1, MarkersNext
    <3> QED
      BY <3>1, <3>2
  <2>2. Markers(at)' = Markers(at + 1)
    BY <1>3 DEF Markers
  <2> QED
    BY <1>2, <2>1, <2>2 DEF ChunkInv, Parity
<1>8. StackTrue'
  <2>1. Under(at)' = Under(at + 1)
    <3>1. \A i : i = at' => Under(at)' = Under(i)'
      BY DEF Under
    <3> QED
      BY <1>3, <3>1, TextStays
  <2> QED
    BY <1>6, <2>1 DEF StackTrue, ToSet
<1>9. BufferPlain'
  BY <1>2 DEF BufferPlain
<1> DEFINE b == Block(at + 1, at + 1, stack', TRUE)
<1>10. /\ b \in Blocks /\ b.first = at + 1 /\ b.last = at + 1 /\ b.off = 0
       /\ b.size = Length(at + 1, at + 1) /\ b.path = stack' /\ b.head
  <2>1. at + 1 \in at + 1 .. Len(doc) /\ doc[at + 1].kind # "blank"
    BY <1>1, <1>3
  <2>2. b \in Blocks
    BY <1>1, <1>3, <1>6, <2>1, BlockTyped
  <2> QED
    BY <2>2 DEF Block
<1> HIDE DEF b
<1>11. Ends(b) /\ Stands(b)
  <2>1. Length(at + 1, at + 1) \in Nat
    BY <1>10 DEF Blocks
  <2>2. Ends(b)
    BY <1>10, <2>1 DEF Ends
  <2>3. /\ \A i \in at + 1 .. at + 1 : i = at + 1
        /\ at + 1 \in 1 .. at + 1 /\ at + 1 \in 1 .. Len(doc)
    BY <1>1, <1>3
  <2> QED
    BY <1>4, <1>6, <1>10, <2>2, <2>3 DEF Stands
<1>12. PICK mid \in Seq(Blocks) :
              /\ blocks' = mid \o <<b>>
              /\ Linked(mid)
              /\ \A c \in ToSet(mid) : c.off = 0 /\ Ends(c) /\ Stands(c)
              /\ mid # <<>> => Last(mid).last < at + 1 /\ Last(mid).path = stack
              /\ \A i \in 1 .. at : doc[i].kind # "blank" => \E c \in ToSet(mid) : i \in c.first .. c.last
  <2>1. <<b>> \in Seq(Blocks)
    BY <1>10
  <2>2. Flush(<<b>>)
    BY <1>5 DEF b
  <2> QED
    BY <1>3, <2>1, <2>2, FlushReads
<1>13. mid # <<>> => Leads(Last(mid), b)
  <2>1. ASSUME mid # <<>> PROVE Ends(Last(mid))
    <3>1. Last(mid) \in ToSet(mid)
      BY <2>1, EmptySeq, LenProperties DEF Last, ToSet
    <3> QED
      BY <1>12, <3>1
  <2> QED
    BY <1>4, <1>10, <1>12, <2>1 DEF Leads, Follows
<1>14. /\ blocks' = Append(mid, b) /\ Linked(blocks') /\ Last(blocks') = b
       /\ ToSet(blocks') = ToSet(mid) \cup {b}
  <2>1. blocks' = Append(mid, b)
    BY <1>10, <1>12
  <2> QED
    BY <1>10, <1>12, <1>13, <2>1, OneMore
<1>15. \A c \in ToSet(blocks') : c.off = 0 /\ Ends(c) /\ Stands(c)
  BY <1>10, <1>11, <1>12, <1>14
<1>16. Last(blocks').last < (IF open' = 0 THEN at' + 1 ELSE open') /\ Last(blocks').path = stack'
  BY <1>1, <1>2, <1>3, <1>10, <1>14
<1>17. \A i \in 1 .. at' : doc[i].kind # "blank" => \E c \in ToSet(blocks') : i \in c.first .. c.last
  <2>1. \A i \in 1 .. at' : i = at + 1 \/ i \in 1 .. at
    BY <1>1, <1>3
  <2>2. at + 1 \in b.first .. b.last
    BY <1>1, <1>10
  <2> QED
    BY <1>12, <1>14, <2>1, <2>2
<1>18. IInv'
  BY ParseStep DEF ChunkInv
<1> QED
  BY <1>3, <1>7, <1>8, <1>9, <1>14, <1>15, <1>16, <1>17, <1>18, ParseDone
-------------------------------------------------------------------------------
(* The second loop *)

\* What has been read stays as it is.
LEMMA ReadStays ==
    ASSUME ChunkInv, UNCHANGED parsing
    PROVE  Parity' /\ StackTrue' /\ BufferPlain'
<1>1. UNCHANGED <<doc, at, stack, open, fenced>>
  BY DEF parsing
<1>2. Parity' /\ BufferPlain'
  BY <1>1 DEF ChunkInv, Parity, BufferPlain, Markers, Headed
<1>3. Under(at)' = Under(at)
  <2>1. \A i : i = at' => Under(at)' = Under(i)'
    BY DEF Under
  <2> QED
    BY <1>1, <2>1, TextStays
<1>4. StackTrue'
  BY <1>1, <1>3 DEF ChunkInv, StackTrue, ToSet
<1> QED
  BY <1>2, <1>4

\* A piece may come between the pieces before it and what is left.
LEMMA SizeDone ==
    ASSUME ChunkInv, IInv', phase = "size", blocks # <<>>,
           NEW piece \in Blocks, NEW pos \in Nat, NEW rest \in {blocks, Tail(blocks)},
           Size(piece, pos, rest),
           piece.first = Head(blocks).first, piece.last = Head(blocks).last, Stands(piece),
           sized = <<>> => piece.off = 0,
           sized # <<>> => Leads(Last(sized), piece),
           rest # <<>> => Leads(piece, [Head(rest) EXCEPT !.off = pos]),
           rest = <<>> => Ends(piece),
           rest # <<>> /\ Head(rest).size <= ChunkSize => pos = 0
    PROVE  ChunkInv'
<1>1. /\ sized' = Append(sized, piece) /\ off' = pos /\ blocks' = rest
      /\ UNCHANGED <<parsing, doc, at, stack, open, fenced, phase, current, seed, chunks>>
  BY DEF Size, parsing
<1>2. /\ sized \in Seq(Blocks) /\ blocks \in Seq(Blocks) /\ at \in Nat
  BY DEF ChunkInv, IInv, Typed
<1>3. /\ current.blocks = <<>> /\ chunks = <<>> /\ current'.blocks = <<>> /\ chunks' = <<>>
      /\ phase' = "size" /\ open = 0 /\ at = Len(doc)
  BY <1>1 DEF ChunkInv, Staged
<1>4. /\ sized' # <<>> /\ ToSet(sized') = ToSet(sized) \cup {piece} /\ Last(sized') = piece
      /\ sized'[1] = IF sized = <<>> THEN piece ELSE sized[1]
      /\ Linked(sized')
  BY <1>1, <1>2, OneMore DEF ChunkInv, Halved
<1>5. /\ ToSet(blocks) \subseteq ToSet(rest) \cup {Head(blocks)}
      /\ ToSet(rest) \subseteq ToSet(blocks)
      /\ Linked(rest)
  BY <1>2, OneLess DEF ChunkInv, Parsed
<1>6. /\ Parts = ToSet(sized) \cup ToSet(blocks)
      /\ Parts' = ToSet(sized) \cup {piece} \cup ToSet(rest)
  <2>1. Parts = ToSet(sized) \cup ToSet(blocks)
    BY <1>3 DEF Parts, Emitted, ToSet
  <2>2. Parts' = ToSet(sized') \cup ToSet(blocks')
    BY <1>3 DEF Parts, Emitted, ToSet
  <2> QED
    BY <1>1, <1>4, <2>1, <2>2
<1>7. PathsStand'
  <2>1. \A b \in Parts' : Stands(b)
    BY <1>5, <1>6 DEF ChunkInv, PathsStand
  <2> QED
    BY <1>1, <2>1, TextStays DEF PathsStand
<1>8. Staged'
  BY <1>1, <1>3 DEF Staged
<1>9. Covered'
  <2>1. ASSUME NEW i \in 1 .. at, doc[i].kind # "blank"
        PROVE  \E b \in Parts' : i \in b.first .. b.last
    <3>1. PICK b \in Parts : i \in b.first .. b.last
      BY <1>3, <2>1 DEF ChunkInv, Covered
    <3>2. CASE b = Head(blocks)
      BY <1>6, <3>1, <3>2
    <3>3. CASE b # Head(blocks)
      BY <1>5, <1>6, <3>1, <3>3
    <3> QED
      BY <3>2, <3>3
  <2> QED
    BY <1>1, <2>1 DEF Covered
<1>10. Parsed'
  <2>1. Linked(blocks)'
    <3>1. \A t : t = blocks' => Linked(t)'
      BY <1>1, <1>5, TextStays
    <3> QED
      BY <3>1 DEF Linked
  <2>2. \A b \in ToSet(blocks') : b.off = 0 /\ Ends(b)
    BY <1>1, <1>5 DEF ChunkInv, Parsed
  <2> QED
    BY <1>1, <1>3, <2>1, <2>2, TextStays DEF Parsed
<1>11. Halved'
  <2>1. Linked(sized)'
    <3>1. \A t : t = sized' => Linked(t)'
      BY <1>1, <1>4, TextStays
    <3> QED
      BY <3>1 DEF Linked
  <2>2. sized'[1].off = 0
    BY <1>3, <1>4 DEF ChunkInv, Halved
  <2>3. blocks' # <<>> => Leads(Last(sized), Rest)'
    <3>1. \A b, c : b = Last(sized') /\ c = [Head(blocks') EXCEPT !.off = off'] =>
                        (Leads(b, c)' => Leads(Last(sized), Rest)')
      BY DEF Rest, Leads, Last, Follows, Ends, Length, Headed, Markers
    <3> QED
      BY <1>1, <1>4, <3>1, TextStays
  <2>4. blocks' = <<>> => Ends(Last(sized))'
    <3>1. \A b : b = Last(sized') => (Ends(b)' => Ends(Last(sized))')
      BY DEF Ends, Last, Length
    <3> QED
      BY <1>1, <1>4, <3>1, TextStays
  <2>5. blocks' # <<>> /\ (sized' = <<>> \/ Head(blocks').size <= ChunkSize) => off' = 0
    BY <1>1, <1>4
  <2> QED
    BY <1>3, <2>1, <2>2, <2>3, <2>4, <2>5 DEF Halved
<1>12. Joins' /\ Chained'
  BY <1>3 DEF Joins, Chained, ChainOf, Linked
<1>13. Parity' /\ StackTrue' /\ BufferPlain'
  BY <1>1, ReadStays
<1> QED
  BY <1>7, <1>8, <1>9, <1>10, <1>11, <1>12, <1>13 DEF ChunkInv

\* Of a whole block and what follows it, the block ends in what is left of it.
LEMMA TailLeads ==
    ASSUME NEW b \in Blocks, NEW c \in Blocks, NEW piece \in Blocks, b.off = 0, Ends(b), c.off = 0,
           Leads(b, c), piece.last = b.last, piece.path = b.path, Ends(piece)
    PROVE  Leads(piece, c)
<1>1. b.size \in Nat \ {0}
  BY DEF Blocks
<1>2. ~(c.off \in b.off + b.size .. b.off + b.size + 1)
  BY <1>1
<1>3. b.last < c.first /\ (Headed(c.first) \/ c.path = b.path)
  BY <1>2 DEF Leads, Follows
<1> QED
  BY <1>3 DEF Leads, Follows

\* Every step of the second loop keeps the order.
LEMMA SizeOrder == ChunkInv /\ (Keep \/ Cut \/ CutTail \/ EndOfBlocks) => ChunkInv'
<1> SUFFICES ASSUME ChunkInv, Keep \/ Cut \/ CutTail \/ EndOfBlocks PROVE ChunkInv'
  OBVIOUS
<1>0. IInv'
  BY SizeStep DEF ChunkInv
<1>1. /\ blocks \in Seq(Blocks) /\ sized \in Seq(Blocks) /\ off \in Nat
      /\ blocks # <<>> => off < Head(blocks).size
  BY DEF ChunkInv, IInv, Typed
<1> DEFINE b == Head(blocks)
           more == Tail(blocks)
<1>2. ASSUME phase = "size", blocks # <<>>
      PROVE  /\ b \in Blocks /\ more \in Seq(Blocks)
             /\ b.off = 0 /\ Ends(b) /\ Stands(b)
             /\ sized = <<>> \/ b.size <= ChunkSize => off = 0
             /\ sized # <<>> => Leads(Last(sized), [b EXCEPT !.off = off])
             /\ more # <<>> => /\ Head(more) \in Blocks /\ Head(more).off = 0
                               /\ Leads(b, Head(more))
  <2>1. /\ b \in Blocks /\ more \in Seq(Blocks) /\ ToSet(blocks) = ToSet(more) \cup {b}
        /\ more # <<>> => Leads(b, more[1])
    BY <1>1, <1>2, OneLess DEF ChunkInv, Parsed
  <2>2. more # <<>> => /\ Head(more) \in Blocks /\ Head(more) = more[1]
                      /\ ToSet(more) = ToSet(Tail(more)) \cup {Head(more)}
    BY <2>1, OneLess
  <2>3. b \in ToSet(blocks) /\ (more # <<>> => Head(more) \in ToSet(blocks))
    BY <2>1, <2>2
  <2>4. b.off = 0 /\ Ends(b) /\ Stands(b) /\ (more # <<>> => Head(more).off = 0)
    BY <2>3 DEF ChunkInv, Parsed, PathsStand, Parts
  <2> QED
    BY <1>2, <2>1, <2>2, <2>4 DEF ChunkInv, Halved, Rest
<1>3. \A d \in Blocks : [d EXCEPT !.off = d.off] = d
  BY DEF Blocks
<1>4. CASE Keep
  <2>1. /\ phase = "size" /\ blocks # <<>> /\ b.size <= ChunkSize /\ Size(b, 0, more)
    BY <1>4 DEF Keep, Sizing
  <2>2. sized # <<>> => Leads(Last(sized), b)
    BY <1>2, <1>3, <2>1
  <2>3. more # <<>> => Leads(b, [Head(more) EXCEPT !.off = 0])
    BY <1>2, <1>3, <2>1
  <2>4. sized = <<>> => b.off = 0
    BY <1>2, <2>1
  <2> HIDE DEF b, more
  <2> QED
    BY <1>0, <1>2, <2>1, <2>2, <2>3, <2>4, SizeDone DEF b, more
<1>5. CASE Cut
  <2>1. phase = "size" /\ blocks # <<>> /\ b.size - off > ChunkSize
    BY <1>5 DEF Cut, Sizing
  <2>2. PICK size \in 1 .. ChunkSize, gap \in 0 .. 1 :
              Size(Piece(size), off + size + gap, blocks)
    BY <1>5 DEF Cut
  <2> DEFINE piece == Piece(size)
             pos == off + size + gap
  <2>3. size \in Nat \ {0} /\ pos \in Nat
    BY <1>1, <2>2, ChunkerAssumption
  <2>4. /\ piece \in Blocks /\ piece.first = b.first /\ piece.last = b.last /\ piece.off = off
        /\ piece.size = size /\ piece.path = b.path /\ piece.head = FALSE
    BY <1>1, <1>2, <2>1, <2>3 DEF Piece, Blocks
  <2> DEFINE left == [b EXCEPT !.off = pos]
  <2>5. /\ left.first = b.first /\ left.off = pos /\ left.path = b.path
    BY <1>2, <2>1 DEF Blocks
  <2> DEFINE last == [b EXCEPT !.off = off]
  <2>6. /\ last.first = b.first /\ last.off = off /\ last.path = b.path /\ last.last = b.last
    BY <1>2, <2>1 DEF Blocks
  <2>7. /\ phase = "size" /\ b \in Blocks /\ Stands(b) /\ (sized = <<>> => off = 0)
        /\ sized # <<>> => Leads(Last(sized), last)
        /\ Size(piece, pos, blocks)
        /\ ~(b.size <= ChunkSize)
    <3>1. b.size \in Nat
      BY <1>2, <2>1 DEF Blocks
    <3>2. ~(b.size <= ChunkSize)
      BY <1>1, <2>1, <3>1, ChunkerAssumption
    <3> QED
      BY <1>2, <2>1, <2>2, <3>2
  <2>8. off + size + gap \in off + size .. off + size + 1
    BY <1>1, <2>2, <2>3
  <2> HIDE DEF piece, left, last, b
  <2>9. Stands(piece)
    BY <2>4, <2>7 DEF Stands
  <2>10. sized # <<>> => Leads(Last(sized), piece)
    BY <2>4, <2>6, <2>7 DEF Leads, Follows
  <2>11. Leads(piece, left)
    BY <2>4, <2>5, <2>8 DEF Leads, Follows
  <2> HIDE DEF pos
  <2> QED
    BY <1>0, <2>1, <2>3, <2>4, <2>7, <2>9, <2>10, <2>11, SizeDone DEF left, b
<1>6. CASE CutTail
  <2>1. phase = "size" /\ blocks # <<>> /\ Size(Piece(b.size - off), 0, more)
    BY <1>6 DEF CutTail, Sizing
  <2> DEFINE piece == Piece(b.size - off)
             last == [b EXCEPT !.off = off]
  <2>2. b.size - off \in Nat \ {0} /\ b.size \in Nat
    <3>1. b.size \in Nat
      BY <1>2, <2>1 DEF Blocks
    <3>2. off \in Nat /\ off < b.size
      BY <1>1, <2>1
    <3> HIDE DEF b
    <3> QED
      BY <3>1, <3>2
  <2>3. /\ piece \in Blocks /\ piece.first = b.first /\ piece.last = b.last /\ piece.off = off
        /\ piece.size = b.size - off /\ piece.path = b.path /\ piece.head = FALSE
    BY <1>1, <1>2, <2>1, <2>2 DEF Piece, Blocks
  <2>4. /\ last.first = b.first /\ last.off = off /\ last.path = b.path /\ last.last = b.last
    BY <1>2, <2>1 DEF Blocks
  <2>5. /\ b \in Blocks /\ Stands(b) /\ b.off = 0 /\ Ends(b) /\ (sized = <<>> => off = 0)
        /\ sized # <<>> => Leads(Last(sized), last)
        /\ more # <<>> => Head(more) \in Blocks /\ Head(more).off = 0 /\ Leads(b, Head(more))
        /\ Size(piece, 0, more)
    BY <1>2, <2>1
  <2>6. off + (b.size - off) = b.size /\ 0 + b.size = b.size
    BY <1>1, <2>2
  <2> HIDE DEF piece, last, b, more
  <2>7. Ends(piece)
    BY <2>3, <2>5, <2>6 DEF Ends
  <2>8. Stands(piece)
    BY <2>3, <2>5 DEF Stands
  <2>9. sized # <<>> => Leads(Last(sized), piece)
    BY <2>3, <2>4, <2>5 DEF Leads, Follows
  <2>10. more # <<>> => Leads(piece, [Head(more) EXCEPT !.off = 0])
    BY <1>3, <2>3, <2>5, <2>7, TailLeads
  <2>11. phase = "size" /\ blocks # <<>> /\ more \in {blocks, Tail(blocks)} /\ 0 \in Nat
    BY <2>1 DEF more
  <2>12. sized = <<>> => piece.off = 0
    BY <2>3, <2>5
  <2>13. piece.first = Head(blocks).first /\ piece.last = Head(blocks).last
    BY <2>3 DEF b
  <2>14. piece \in Blocks /\ Size(piece, 0, more)
    BY <2>3, <2>5
  <2> QED
    BY <1>0, <2>7, <2>8, <2>9, <2>10, <2>11, <2>12, <2>13, <2>14, SizeDone
<1>7. CASE EndOfBlocks
  <2>1. /\ phase = "size" /\ phase' = "merge" /\ blocks = <<>>
        /\ UNCHANGED <<parsing, doc, at, stack, open, fenced, blocks, off, sized, current, seed, chunks>>
    BY <1>7 DEF EndOfBlocks, parsing
  <2>2. Parity' /\ StackTrue' /\ BufferPlain'
    BY <2>1, ReadStays
  <2>3. Parts' = Parts
    BY <2>1 DEF Parts, Emitted, ToSet
  <2>4. PathsStand'
    BY <2>1, <2>3, TextStays DEF ChunkInv, PathsStand
  <2>5. Staged' /\ Covered'
    BY <2>1, <2>3 DEF ChunkInv, Staged, Covered
  <2>6. Linked(sized)' /\ Linked(blocks)'
    <3>1. \A t : (t = sized' => Linked(t)') /\ (t = blocks' => Linked(t)')
      BY <2>1, TextStays DEF ChunkInv, Halved, Parsed
    <3> QED
      BY <3>1 DEF Linked
  <2>7. sized # <<>> => Ends(Last(sized))'
    BY <2>1 DEF ChunkInv, Halved, Ends, Last, Length
  <2>8. current.blocks = <<>> /\ chunks = <<>>
    BY <2>1 DEF ChunkInv, Staged
  <2>9. Parsed'
    BY <2>1, <2>6 DEF ChunkInv, Parsed, ToSet
  <2>10. Halved'
    BY <2>1, <2>6, <2>7, <2>8 DEF ChunkInv, Halved
  <2>11. Joins' /\ Chained'
    BY <2>1, <2>8 DEF Joins, Chained, ChainOf, Linked
  <2> QED
    BY <1>0, <2>2, <2>4, <2>5, <2>9, <2>10, <2>11 DEF ChunkInv
<1> QED
  BY <1>4, <1>5, <1>6, <1>7
-------------------------------------------------------------------------------
(* The third loop *)

\* One more chunk.
LEMMA ChainMore ==
    ASSUME NEW cs \in Seq(Chunks), NEW c \in Chunks, ChainOf(cs), c.blocks # <<>>, Linked(c.blocks),
           cs = <<>> => c.blocks[1].off = 0,
           cs # <<>> => Leads(Last(cs[Len(cs)].blocks), c.blocks[1])
    PROVE  ChainOf(Append(cs, c))
<1> DEFINE t == Append(cs, c)
<1>1. /\ Len(t) = Len(cs) + 1 /\ Len(cs) \in Nat
      /\ DOMAIN t = 1 .. Len(cs) + 1 /\ DOMAIN cs = 1 .. Len(cs)
      /\ \A k \in 1 .. Len(cs) : t[k] = cs[k]
      /\ t[Len(cs) + 1] = c
  <2>1. /\ t \in Seq(Chunks) /\ Len(t) = Len(cs) + 1
        /\ \A k \in 1 .. Len(cs) : t[k] = cs[k]
        /\ t[Len(cs) + 1] = c
    BY AppendProperties
  <2> QED
    BY <2>1, LenProperties
<1>2. cs = <<>> <=> Len(cs) = 0
  BY EmptySeq
<1> HIDE DEF t
<1>3. t[1].blocks[1].off = 0
  <2>1. CASE cs = <<>>
    BY <1>1, <1>2, <2>1
  <2>2. CASE cs # <<>>
    BY <1>1, <1>2, <2>2 DEF ChainOf
  <2> QED
    BY <2>1, <2>2
<1>4. ASSUME NEW k \in DOMAIN t PROVE t[k].blocks # <<>> /\ Linked(t[k].blocks)
  <2>1. CASE k = Len(cs) + 1
    BY <1>1, <2>1
  <2>2. CASE k \in 1 .. Len(cs)
    BY <1>1, <2>2 DEF ChainOf
  <2> QED
    BY <1>1, <2>1, <2>2
<1>5. ASSUME NEW k \in 1 .. Len(cs)
      PROVE  Leads(Last(t[k].blocks), t[k + 1].blocks[1])
  <2>1. CASE k = Len(cs)
    <3>1. t[k] = cs[Len(cs)] /\ t[k + 1] = c /\ cs # <<>>
      BY <1>1, <1>2, <2>1
    <3> QED
      BY <3>1
  <2>2. CASE k # Len(cs)
    <3>1. k \in 1 .. Len(cs) - 1 /\ t[k] = cs[k] /\ t[k + 1] = cs[k + 1]
      BY <1>1, <2>2
    <3> QED
      BY <3>1 DEF ChainOf
  <2> QED
    BY <2>1, <2>2
<1>6. Len(t) - 1 = Len(cs)
  BY <1>1
<1> QED
  BY <1>3, <1>4, <1>5, <1>6 DEF t, ChainOf

\* What emitting leaves, and the path it gives.
LEMMA EmitShape ==
    ASSUME IInv, Emit
    PROVE  /\ current.blocks # <<>>
           /\ \E c \in Chunks, k \in DOMAIN current.blocks :
                 /\ chunks' = Append(chunks, c)
                 /\ c.blocks = current.blocks /\ c.seed = seed
                 /\ Situating(current.blocks, k) /\ c.path = current.blocks[k].path
<1>1. /\ current \in [blocks : Seq(Blocks), heads : Nat, prose : Nat] /\ seed \in Nat
      /\ chunks \in Seq(Chunks)
  BY DEF IInv, Typed
<1>2. PICK k \in DOMAIN current.blocks :
        /\ Situating(current.blocks, k)
        /\ chunks' = Append(chunks, [blocks |-> current.blocks, heads |-> current.heads,
                                     prose |-> current.prose, seed |-> seed,
                                     path |-> current.blocks[k].path])
  BY DEF Emit
<1> DEFINE c == [blocks |-> current.blocks, heads |-> current.heads, prose |-> current.prose,
                 seed |-> seed, path |-> current.blocks[k].path]
<1>3. current.blocks[k].path \in Seq(Nat) /\ current.blocks # <<>>
  <2>1. current.blocks \in Seq(Blocks)
    BY <1>1
  <2>2. k \in 1 .. Len(current.blocks)
    BY <2>1, LenProperties
  <2>3. current.blocks[k] \in Blocks /\ current.blocks # <<>>
    BY <2>1, <2>2, ElementOfSeq, EmptySeq
  <2> QED
    BY <2>3 DEF Blocks
<1>4. /\ c \in Chunks /\ c.blocks = current.blocks /\ c.seed = seed
      /\ c.path = current.blocks[k].path
  BY <1>1, <1>3 DEF Chunks
<1>5. chunks' = Append(chunks, c)
  BY <1>2
<1> HIDE DEF c
<1> QED
  BY <1>2, <1>3, <1>4, <1>5

\* The chunk in the making joins those emitted.
LEMMA EmitJoins ==
    ASSUME ChunkInv, Emit
    PROVE  /\ chunks' # <<>> /\ ChainOf(chunks')
           /\ chunks'[Len(chunks')].blocks = current.blocks
           /\ UNION {ToSet(chunks'[k].blocks) : k \in DOMAIN chunks'} = Emitted \cup ToSet(current.blocks)
<1>1. chunks \in Seq(Chunks) /\ current.blocks # <<>>
  BY EmitShape DEF ChunkInv, IInv, Typed
<1>2. PICK c \in Chunks : chunks' = Append(chunks, c) /\ c.blocks = current.blocks
  BY EmitShape DEF ChunkInv
<1>3. ChainOf(chunks')
  BY <1>1, <1>2, ChainMore DEF ChunkInv, Chained, Joins
<1>4. /\ Len(chunks') = Len(chunks) + 1 /\ Len(chunks) \in Nat
      /\ DOMAIN chunks' = 1 .. Len(chunks) + 1 /\ DOMAIN chunks = 1 .. Len(chunks)
      /\ \A k \in 1 .. Len(chunks) : chunks'[k] = chunks[k]
      /\ chunks'[Len(chunks) + 1] = c
  <2>1. /\ chunks' \in Seq(Chunks) /\ Len(chunks') = Len(chunks) + 1
        /\ \A k \in 1 .. Len(chunks) : chunks'[k] = chunks[k]
        /\ chunks'[Len(chunks) + 1] = c
    BY <1>1, <1>2, AppendProperties
  <2> QED
    BY <1>1, <2>1, LenProperties
<1>5. \A k \in DOMAIN chunks' : k \in DOMAIN chunks \/ k = Len(chunks) + 1
  BY <1>4
<1>6. Len(chunks) + 1 \in DOMAIN chunks' /\ DOMAIN chunks \subseteq DOMAIN chunks'
  BY <1>4
<1>7. UNION {ToSet(chunks'[k].blocks) : k \in DOMAIN chunks'} = Emitted \cup ToSet(current.blocks)
  BY <1>2, <1>4, <1>5, <1>6 DEF Emitted
<1>8. chunks' # <<>>
  BY <1>4, EmptySeq
<1> QED
  BY <1>2, <1>3, <1>4, <1>7, <1>8

\* The block to come, and what it follows.
LEMMA BlockToCome ==
    ASSUME ChunkInv, Merges
    PROVE  /\ phase = "merge" /\ blocks = <<>> /\ sized \in Seq(Blocks) /\ sized # <<>>
           /\ Head(sized) \in Blocks /\ Head(sized) = sized[1] /\ sized' = Tail(sized)
           /\ current.blocks \in Seq(Blocks)
           /\ ToSet(sized) = ToSet(sized') \cup {Head(sized)}
           /\ current.blocks = <<>> => Head(sized).off = 0 /\ chunks = <<>>
           /\ current.blocks # <<>> => Leads(Last(current.blocks), Head(sized))
           /\ IF sized' = <<>> THEN Ends(Head(sized)) ELSE Leads(Head(sized), sized'[1])
           /\ sized' # <<>> => Ends(Last(sized'))
           /\ Linked(sized')
           /\ UNCHANGED <<parsing, doc, at, stack, open, fenced, phase, blocks, off>>
<1>1. /\ phase = "merge" /\ sized # <<>> /\ sized' = Tail(sized)
      /\ UNCHANGED <<parsing, doc, at, stack, open, fenced, phase, blocks, off>>
  BY DEF Merges, parsing
<1>2. blocks = <<>> /\ sized \in Seq(Blocks) /\ current.blocks \in Seq(Blocks)
  BY <1>1 DEF ChunkInv, Staged, IInv, Typed
<1>3. Linked(sized) /\ Ends(Last(sized))
  BY <1>1, <1>2 DEF ChunkInv, Halved
<1>4. /\ Head(sized) = sized[1] /\ Head(sized) \in Blocks
      /\ ToSet(sized) = ToSet(sized') \cup {Head(sized)}
      /\ sized' = <<>> => Last(sized) = Head(sized)
      /\ sized' # <<>> => Last(sized') = Last(sized)
      /\ Linked(sized') /\ (sized' # <<>> => Leads(Head(sized), sized'[1]))
  BY <1>1, <1>2, <1>3, OneLess
<1>5. /\ current.blocks = <<>> => Head(sized).off = 0 /\ chunks = <<>>
      /\ current.blocks # <<>> => Leads(Last(current.blocks), Head(sized))
  BY <1>1, <1>4 DEF ChunkInv, Staged, Halved, Joins
<1> QED
  BY <1>1, <1>2, <1>3, <1>4, <1>5

\* When the first block that waits has joined the chunk in the making.
LEMMA MergeDone ==
    ASSUME ChunkInv, IInv', Merges, NEW bs, bs = current'.blocks, NEW cs, cs = chunks',
           bs # <<>>, Linked(bs), Last(bs) = Head(sized), ChainOf(cs),
           cs = <<>> => bs[1].off = 0,
           cs # <<>> => Leads(Last(cs[Len(cs)].blocks), bs[1]),
           (UNION {ToSet(cs[k].blocks) : k \in DOMAIN cs}) \cup ToSet(bs)
               = Emitted \cup ToSet(current.blocks) \cup {Head(sized)}
    PROVE  ChunkInv'
<1>1. /\ phase = "merge" /\ blocks = <<>> /\ sized # <<>>
      /\ ToSet(sized) = ToSet(sized') \cup {Head(sized)}
      /\ IF sized' = <<>> THEN Ends(Head(sized)) ELSE Leads(Head(sized), sized'[1])
      /\ sized' # <<>> => Ends(Last(sized'))
      /\ Linked(sized')
      /\ UNCHANGED <<parsing, doc, at, stack, open, fenced, phase, blocks, off>>
  BY BlockToCome
<1>2. Parity' /\ StackTrue' /\ BufferPlain'
  BY <1>1, ReadStays
<1>3. Parts' = Parts
  <2>1. Parts = Emitted \cup ToSet(current.blocks) \cup ToSet(sized)
    BY <1>1 DEF Parts, ToSet
  <2>2. Parts' = (UNION {ToSet(cs[k].blocks) : k \in DOMAIN cs}) \cup ToSet(bs) \cup ToSet(sized')
    BY <1>1 DEF Parts, Emitted, ToSet
  <2> QED
    BY <1>1, <2>1, <2>2
<1>4. PathsStand'
  BY <1>1, <1>3, TextStays DEF ChunkInv, PathsStand
<1>5. Staged' /\ Covered'
  BY <1>1, <1>3 DEF ChunkInv, Staged, Covered
<1>6. Linked(sized)' /\ Linked(blocks)' /\ Linked(current.blocks)'
  <2>1. Linked(<<>>)
    BY DEF Linked
  <2>2. \A t : /\ t = sized' => Linked(t)'
               /\ t = blocks' => Linked(t)'
               /\ t = bs => Linked(t)'
    BY <1>1, <2>1, TextStays
  <2> QED
    BY <2>2 DEF Linked
<1>7. Parsed'
  BY <1>1, <1>6 DEF Parsed, ToSet
<1>8. Halved'
  <2>1. sized' # <<>> => Ends(Last(sized))'
    <3>1. \A b : b = Last(sized') /\ Ends(b)' => Ends(Last(sized))'
      BY DEF Ends, Last, Length
    <3> QED
      BY <1>1, <3>1, TextStays
  <2> QED
    BY <1>1, <1>6, <2>1 DEF Halved
<1>9. Joins'
  <2>1. sized' = <<>> => Ends(Last(current.blocks))'
    <3>1. \A b : b = Last(bs) /\ Ends(b)' => Ends(Last(current.blocks))'
      BY DEF Ends, Last, Length
    <3> QED
      BY <1>1, <3>1, TextStays
  <2>2. sized' # <<>> => Leads(Last(current.blocks), sized[1])'
    <3>1. \A b, c : b = Last(bs) /\ c = sized'[1] /\ Leads(b, c)' => Leads(Last(current.blocks), sized[1])'
      BY DEF Last
    <3> QED
      BY <1>1, <3>1, TextStays
  <2>3. chunks' # <<>> => Leads(Last(chunks[Len(chunks)].blocks), current.blocks[1])'
    <3>1. \A b, c : b = Last(cs[Len(cs)].blocks) /\ c = bs[1] /\ Leads(b, c)'
                        => Leads(Last(chunks[Len(chunks)].blocks), current.blocks[1])'
      BY DEF Last
    <3> QED
      BY <1>1, <3>1, TextStays
  <2> QED
    BY <1>6, <2>1, <2>2, <2>3 DEF Joins
<1>10. Chained'
  <2>1. ChainOf(chunks)'
    <3>1. \A t : t = chunks' => ChainOf(t)'
      BY <1>1, TextStays
    <3> QED
      BY <3>1 DEF ChainOf
  <2> QED
    BY <1>1, <2>1 DEF Chained
<1> QED
  BY <1>2, <1>4, <1>5, <1>7, <1>8, <1>9, <1>10 DEF ChunkInv

\* A block that joins the chunk in the making follows the last one.
LEMMA TakeOrder == ChunkInv /\ Take => ChunkInv'
<1> SUFFICES ASSUME ChunkInv, Take PROVE ChunkInv'
  OBVIOUS
<1>1. Merges /\ current' = With(current, Head(sized)) /\ chunks' = chunks
  BY DEF Take
<1>2. /\ Head(sized) \in Blocks /\ current.blocks \in Seq(Blocks)
      /\ current.blocks = <<>> => Head(sized).off = 0 /\ chunks = <<>>
      /\ current.blocks # <<>> => Leads(Last(current.blocks), Head(sized))
  BY <1>1, BlockToCome
<1> DEFINE bs == Append(current.blocks, Head(sized))
<1>3. current'.blocks = bs
  BY <1>1 DEF With
<1>4. /\ bs # <<>> /\ Linked(bs) /\ Last(bs) = Head(sized)
      /\ ToSet(bs) = ToSet(current.blocks) \cup {Head(sized)}
      /\ bs[1] = IF current.blocks = <<>> THEN Head(sized) ELSE current.blocks[1]
  BY <1>2, OneMore DEF ChunkInv, Joins
<1> HIDE DEF bs
<1>5. /\ ChainOf(chunks)
      /\ chunks = <<>> => bs[1].off = 0
      /\ chunks # <<>> => Leads(Last(chunks[Len(chunks)].blocks), bs[1])
  BY <1>2, <1>4 DEF ChunkInv, Chained, Joins
<1>6. (UNION {ToSet(chunks[k].blocks) : k \in DOMAIN chunks}) \cup ToSet(bs)
          = Emitted \cup ToSet(current.blocks) \cup {Head(sized)}
  BY <1>4 DEF Emitted
<1>7. IInv'
  BY TakeKeeps DEF ChunkInv
<1> QED
  BY <1>1, <1>3, <1>4, <1>5, <1>6, <1>7, MergeDone

\* A block that begins a chunk follows the one just emitted.
LEMMA NewChunkOrder == ChunkInv /\ (NewSection \/ Overflow) => ChunkInv'
<1> SUFFICES ASSUME ChunkInv, NewSection \/ Overflow PROVE ChunkInv'
  OBVIOUS
<1>1. Merges /\ Emit /\ current' = With(Nothing, Head(sized))
  BY DEF NewSection, Overflow
<1>2. /\ Head(sized) \in Blocks /\ current.blocks # <<>>
      /\ Leads(Last(current.blocks), Head(sized))
  BY <1>1, BlockToCome, EmitShape DEF ChunkInv
<1> DEFINE bs == Append(<<>>, Head(sized))
           cs == chunks'
<1>3. current'.blocks = bs
  BY <1>1 DEF With, Nothing
<1>4. bs # <<>> /\ Linked(bs) /\ Last(bs) = Head(sized) /\ bs[1] = Head(sized)
      /\ ToSet(bs) = {Head(sized)}
  <2>1. <<>> \in Seq(Blocks) /\ Linked(<<>>) /\ ToSet(<<>>) = {}
    BY EmptySeq DEF Linked, ToSet
  <2> DEFINE none == <<>>
  <2>2. none \in Seq(Blocks) /\ Linked(none) /\ ToSet(none) = {} /\ none = <<>>
    BY <2>1
  <2>3. bs = Append(none, Head(sized))
    OBVIOUS
  <2> HIDE DEF none, bs
  <2>4. /\ Append(none, Head(sized)) # <<>>
        /\ ToSet(Append(none, Head(sized))) = ToSet(none) \cup {Head(sized)}
        /\ Last(Append(none, Head(sized))) = Head(sized)
        /\ Append(none, Head(sized))[1] = IF none = <<>> THEN Head(sized) ELSE none[1]
        /\ Linked(Append(none, Head(sized)))
    BY <1>2, <2>2, OneMore
  <2> QED
    BY <2>2, <2>3, <2>4
<1>5. /\ cs # <<>> /\ ChainOf(cs) /\ cs[Len(cs)].blocks = current.blocks
      /\ UNION {ToSet(cs[k].blocks) : k \in DOMAIN cs} = Emitted \cup ToSet(current.blocks)
  BY <1>1, EmitJoins
<1> HIDE DEF bs
<1>6. cs # <<>> => Leads(Last(cs[Len(cs)].blocks), bs[1])
  BY <1>2, <1>4, <1>5
<1>7. (UNION {ToSet(cs[k].blocks) : k \in DOMAIN cs}) \cup ToSet(bs)
          = Emitted \cup ToSet(current.blocks) \cup {Head(sized)}
  BY <1>4, <1>5
<1>8. IInv'
  BY NewSectionKeeps, OverflowKeeps DEF ChunkInv
<1> QED
  BY <1>1, <1>3, <1>4, <1>5, <1>6, <1>7, <1>8, MergeDone

\* The last chunk ends the text.
LEMMA FinishOrder == ChunkInv /\ Finish => ChunkInv'
<1> SUFFICES ASSUME ChunkInv, Finish PROVE ChunkInv'
  OBVIOUS
<1>1. /\ phase = "merge" /\ sized = <<>> /\ phase' = "done" /\ current'.blocks = <<>>
      /\ UNCHANGED <<parsing, doc, at, stack, open, fenced, blocks, off, sized>>
      /\ IF current.blocks = <<>> THEN chunks' = chunks ELSE Emit
  BY DEF Finish, Nothing, parsing
<1>2. blocks = <<>> /\ (current.blocks = <<>> => chunks = <<>>)
  BY <1>1 DEF ChunkInv, Staged
<1> DEFINE cs == chunks'
<1>3. /\ ChainOf(cs) /\ (cs # <<>> => Ends(Last(cs[Len(cs)].blocks)))
      /\ UNION {ToSet(cs[k].blocks) : k \in DOMAIN cs} = Emitted \cup ToSet(current.blocks)
  <2>1. CASE current.blocks = <<>>
    BY <1>1, <1>2, <2>1 DEF ChunkInv, Chained, Emitted, ToSet
  <2>2. CASE current.blocks # <<>>
    BY <1>1, <2>2, EmitJoins DEF ChunkInv, Joins
  <2> QED
    BY <2>1, <2>2
<1>4. Parts' = Parts
  <2>1. Parts = Emitted \cup ToSet(current.blocks)
    BY <1>1, <1>2 DEF Parts, ToSet
  <2>2. Parts' = UNION {ToSet(cs[k].blocks) : k \in DOMAIN cs}
    BY <1>1, <1>2 DEF Parts, Emitted, ToSet
  <2> QED
    BY <1>3, <2>1, <2>2
<1>5. Parity' /\ StackTrue' /\ BufferPlain'
  BY <1>1, ReadStays
<1>6. PathsStand'
  BY <1>1, <1>4, TextStays DEF ChunkInv, PathsStand
<1>7. Staged' /\ Covered'
  BY <1>1, <1>2, <1>4 DEF ChunkInv, Staged, Covered
<1>8. Parsed' /\ Halved' /\ Joins'
  BY <1>1, <1>2 DEF Parsed, Halved, Joins, Linked, ToSet
<1>9. Chained'
  <2>1. ChainOf(chunks)'
    <3>1. \A t : t = cs => ChainOf(t)'
      BY <1>1, <1>3, TextStays
    <3> QED
      BY <3>1 DEF ChainOf
  <2>2. cs # <<>> => Ends(Last(chunks[Len(chunks)].blocks))'
    <3>1. \A b : b = Last(cs[Len(cs)].blocks) /\ Ends(b)' => Ends(Last(chunks[Len(chunks)].blocks))'
      BY DEF Last
    <3> QED
      BY <1>1, <1>3, <3>1, TextStays
  <2> QED
    BY <2>1, <2>2 DEF Chained
<1>10. IInv'
  BY FinishKeeps DEF ChunkInv
<1> QED
  BY <1>5, <1>6, <1>7, <1>8, <1>9, <1>10 DEF ChunkInv
-------------------------------------------------------------------------------
(* Paths, and lines *)

\* Every step keeps the order and the paths.
LEMMA ChunkStep == ChunkInv /\ [ChunkNext]_cvars => ChunkInv'
<1> SUFFICES ASSUME ChunkInv, [ChunkNext]_cvars PROVE ChunkInv'
  OBVIOUS
<1>1. CASE UNCHANGED cvars
  <2>1. /\ UNCHANGED <<parsing, doc, at, stack, open, fenced, phase, blocks, off, sized, current, seed, chunks>>
    BY <1>1 DEF cvars, parsing
  <2>2. IInv'
    BY <1>1, NextKeeps DEF ChunkInv
  <2>3. Parity' /\ StackTrue' /\ BufferPlain'
    BY <2>1, ReadStays
  <2>4. Parts' = Parts
    BY <2>1 DEF Parts, Emitted, ToSet
  <2>5. PathsStand' /\ Staged' /\ Covered'
    BY <2>1, <2>4, TextStays DEF ChunkInv, PathsStand, Staged, Covered
  <2>6. Linked(blocks)' /\ Linked(sized)' /\ Linked(current.blocks)' /\ ChainOf(chunks)'
    <3>1. \A t : /\ t = blocks' => Linked(t)'
                 /\ t = sized' => Linked(t)'
                 /\ t = current'.blocks => Linked(t)'
                 /\ t = chunks' => ChainOf(t)'
      BY <2>1, TextStays DEF ChunkInv, Parsed, Halved, Joins, Chained
    <3> QED
      BY <3>1
  <2>7. Parsed'
    BY <2>1, <2>6, TextStays DEF ChunkInv, Parsed, ToSet, Last
  <2>8. Halved'
    <3>1. \A b, c : /\ b = Last(sized') /\ Ends(b)' => Ends(Last(sized))'
                    /\ b = Last(sized') /\ c = Rest' /\ Leads(b, c)' => Leads(Last(sized), Rest)'
      BY DEF Last
    <3>2. Last(sized') = Last(sized) /\ Rest' = Rest
      BY <2>1 DEF Rest
    <3> QED
      BY <2>1, <2>6, <3>1, <3>2, TextStays DEF ChunkInv, Halved
  <2>9. Joins'
    <3>1. \A b, c :
             /\ b = Last(current'.blocks) /\ Ends(b)' => Ends(Last(current.blocks))'
             /\ b = Last(current'.blocks) /\ c = sized'[1] /\ Leads(b, c)'
                    => Leads(Last(current.blocks), sized[1])'
             /\ b = Last(chunks'[Len(chunks')].blocks) /\ c = current'.blocks[1] /\ Leads(b, c)'
                    => Leads(Last(chunks[Len(chunks)].blocks), current.blocks[1])'
      BY DEF Last
    <3> QED
      BY <2>1, <2>6, <3>1, TextStays DEF ChunkInv, Joins
  <2>10. Chained'
    <3>1. \A b : b = Last(chunks'[Len(chunks')].blocks) /\ Ends(b)'
                    => Ends(Last(chunks[Len(chunks)].blocks))'
      BY DEF Last
    <3> QED
      BY <2>1, <2>6, <3>1, TextStays DEF ChunkInv, Chained
  <2> QED
    BY <2>2, <2>3, <2>5, <2>7, <2>8, <2>9, <2>10 DEF ChunkInv
<1> QED
  BY <1>1, BufferLine, FlushLine, HeadingLine, SizeOrder, TakeOrder, NewChunkOrder, FinishOrder
     DEF ChunkNext

\* Nothing has been read.
LEMMA ChunkStart == ChunkInit => ChunkInv
<1> SUFFICES ASSUME ChunkInit PROVE ChunkInv
  OBVIOUS
<1>1. IInv
  BY InitHolds
<1>2. /\ phase = "parse" /\ at = 0 /\ open = 0 /\ fenced = FALSE /\ stack = <<>> /\ blocks = <<>>
      /\ sized = <<>> /\ chunks = <<>> /\ current.blocks = <<>> /\ off = 0
  BY DEF ChunkInit, Nothing
<1>3. Markers(0) = {}
  BY DEF Markers
<1>4. Parity
  <2>1. Cardinality(Markers(at)) = 0
    BY <1>2, <1>3, FS_EmptySet
  <2>2. ~(0 % 2 # 0)
    OBVIOUS
  <2> QED
    BY <1>2, <2>1, <2>2 DEF Parity
<1>5. StackTrue /\ BufferPlain
  BY <1>2 DEF StackTrue, BufferPlain, Under, ToSet
<1>6. Parts = {}
  BY <1>2 DEF Parts, Emitted, ToSet
<1>7. PathsStand /\ Staged /\ Covered
  BY <1>2, <1>6 DEF PathsStand, Staged, Covered
<1>8. Parsed /\ Halved /\ Joins /\ Chained
  BY <1>2 DEF Parsed, Halved, Joins, Chained, ChainOf, Linked, ToSet
<1> QED
  BY <1>1, <1>4, <1>5, <1>7, <1>8 DEF ChunkInv

-------------------------------------------------------------------------------
(* Fenced blocks *)

(***************************************************************************)
(* The flag takes any marker for the end of a block, the text only one of  *)
(* the block's own sort.  The two agree as far as no block has a marker of *)
(* the other sort in it.                                                   *)
(***************************************************************************)

\* The sort of the open block after one more line.
Ahead(sort, i) == IF doc[i].kind \notin Fence THEN sort
                  ELSE IF sort = "none" THEN doc[i].kind
                  ELSE IF sort = doc[i].kind THEN "none"
                  ELSE sort

\* g gives the sort of the open block after each of the first n lines.
ReadSo(g, n) == g = [i \in 0 .. n |-> IF i = 0 THEN "none" ELSE Ahead(g[i - 1], i)]

\* A set of numbers has a least one.
LEMMA LeastLine ==
    ASSUME NEW S \in SUBSET Nat, S # {}
    PROVE  \E m \in S : \A k \in S : m <= k
<1>1. IsWellFoundedOn(OpToRel(<, Nat), Nat)
  BY NatLessThanWellFounded
<1>2. PICK m \in S : \A k \in S : ~ (<<k, m>> \in OpToRel(<, Nat))
  BY <1>1, WFMin
<1>3. \A k \in S : ~ (k < m)
  BY <1>2 DEF OpToRel
<1> QED
  BY <1>3

\* What is read of the first lines can be read on.
LEMMA ReadOn ==
    ASSUME NEW n \in Nat, NEW g, ReadSo(g, n)
    PROVE  \E h : ReadSo(h, n + 1)
<1> DEFINE h == [i \in 0 .. n + 1 |-> IF i = n + 1 THEN Ahead(g[n], n + 1) ELSE g[i]]
<1>1. \A i \in 0 .. n : g[i] = IF i = 0 THEN "none" ELSE Ahead(g[i - 1], i)
  BY DEF ReadSo
<1>2. ASSUME NEW i \in 0 .. n + 1
      PROVE  h[i] = IF i = 0 THEN "none" ELSE Ahead(h[i - 1], i)
  <2>1. CASE i = n + 1
    <3>1. i # 0 /\ i - 1 = n /\ n \in 0 .. n + 1 /\ n # n + 1
      BY <2>1
    <3>2. h[i] = Ahead(g[n], n + 1) /\ h[n] = g[n]
      BY <2>1, <3>1
    <3> HIDE DEF h
    <3> QED
      BY <2>1, <3>1, <3>2
  <2>2. CASE i \in 0 .. n
    <3>1. h[i] = g[i]
      BY <2>2
    <3>2. i # 0 => i - 1 \in 0 .. n /\ h[i - 1] = g[i - 1]
      BY <2>2
    <3> HIDE DEF h
    <3> QED
      BY <1>1, <2>2, <3>1, <3>2
  <2> QED
    BY <2>1, <2>2
<1>3. h = [i \in 0 .. n + 1 |-> h[i]]
  OBVIOUS
<1> HIDE DEF h
<1>4. h = [i \in 0 .. n + 1 |-> IF i = 0 THEN "none" ELSE Ahead(h[i - 1], i)]
  BY <1>2, <1>3
<1> QED
  BY <1>4 DEF ReadSo

\* Every text can be read to its end.
LEMMA Readable == ASSUME NEW n \in Nat PROVE \E g : ReadSo(g, n)
<1> DEFINE unread == {k \in Nat : ~ \E g : ReadSo(g, k)}
<1>1. ASSUME unread # {} PROVE FALSE
  <2>1. unread \in SUBSET Nat
    OBVIOUS
  <2>2. PICK m \in unread : \A k \in unread : m <= k
    <3> HIDE DEF unread
    <3> QED
      BY <1>1, <2>1, LeastLine
  <2>3. m \in Nat /\ ~ \E g : ReadSo(g, m)
    OBVIOUS
  <2>4. m # 0
    <3> DEFINE start == [i \in 0 .. 0 |-> "none"]
    <3>1. \A i \in 0 .. 0 : i = 0 /\ start[i] = "none"
      OBVIOUS
    <3>2. start = [i \in 0 .. 0 |-> start[i]]
      OBVIOUS
    <3> HIDE DEF start
    <3>3. start = [i \in 0 .. 0 |-> IF i = 0 THEN "none" ELSE Ahead(start[i - 1], i)]
      BY <3>1, <3>2
    <3>4. ReadSo(start, 0)
      BY <3>3 DEF ReadSo
    <3> QED
      BY <2>3, <3>4
  <2>5. m - 1 \in Nat /\ m - 1 \notin unread
    <3> HIDE DEF unread
    <3> QED
      BY <2>2, <2>3, <2>4
  <2>6. PICK g : ReadSo(g, m - 1)
    BY <2>5
  <2>7. \E h : ReadSo(h, (m - 1) + 1)
    <3>1. m - 1 \in Nat
      BY <2>5
    <3> HIDE DEF unread
    <3> QED
      BY <2>6, <3>1, ReadOn
  <2>8. (m - 1) + 1 = m
    BY <2>3
  <2> QED
    BY <2>3, <2>7, <2>8
<1> QED
  BY <1>1

\* So the blocks of a text are what their definition says.
LEMMA OpenedIs ==
    ASSUME Len(doc) \in Nat
    PROVE  /\ Opened[0] = "none"
           /\ \A i \in 1 .. Len(doc) : Opened[i] = Ahead(Opened[i - 1], i)
<1> DEFINE IsOpened(g) == g = [i \in 0 .. Len(doc) |->
                                  IF i = 0 THEN "none"
                                  ELSE IF doc[i].kind \notin Fence THEN g[i - 1]
                                  ELSE IF g[i - 1] = "none" THEN doc[i].kind
                                  ELSE IF g[i - 1] = doc[i].kind THEN "none"
                                  ELSE g[i - 1]]
<1>1. Opened = CHOOSE g : IsOpened(g)
  BY Zenon DEF Opened
<1>2. \A g : ReadSo(g, Len(doc)) <=> IsOpened(g)
  BY Zenon DEF ReadSo, Ahead
<1> HIDE DEF IsOpened
<1>3. ReadSo(Opened, Len(doc))
  <2>1. \E g : IsOpened(g)
    BY <1>2, Readable
  <2> QED
    BY <1>1, <1>2, <2>1
<1>4. \A i \in 0 .. Len(doc) : Opened[i] = IF i = 0 THEN "none" ELSE Ahead(Opened[i - 1], i)
  BY <1>3 DEF ReadSo
<1> QED
  BY <1>4

\* As far as there is no marker in a block of the other sort, the flag and the text agree
\* on what is inside a block.
LEMMA FlagAgrees ==
    ASSUME Len(doc) \in Nat, NEW n \in 0 .. Len(doc), \A i \in 1 .. n : ~Foreign(i)
    PROVE  Opened[n] = "none" <=> Cardinality(Markers(n)) % 2 = 0
<1> DEFINE Agree(k) == Opened[k] = "none" <=> Cardinality(Markers(k)) % 2 = 0
           wrong == {k \in 0 .. n : ~Agree(k)}
<1>1. ASSUME wrong # {} PROVE FALSE
  <2>1. PICK k \in wrong : \A j \in wrong : k <= j
    <3>1. wrong \in SUBSET Nat
      OBVIOUS
    <3> HIDE DEF wrong
    <3> QED
      BY <1>1, <3>1, LeastLine
  <2>2. k \in 0 .. n /\ ~Agree(k)
    OBVIOUS
  <2>3. Agree(0)
    <3>1. Markers(0) = {}
      BY DEF Markers
    <3>2. Cardinality(Markers(0)) = 0
      BY <3>1, FS_EmptySet
    <3>3. Opened[0] = "none"
      BY OpenedIs
    <3>4. 0 % 2 = 0
      OBVIOUS
    <3> QED
      BY <3>2, <3>3, <3>4
  <2> HIDE DEF Agree
  <2>4. k # 0 /\ k - 1 \in 0 .. n /\ k - 1 < k /\ k \in 1 .. Len(doc) /\ k \in 1 .. n
    BY <2>2, <2>3
  <2>5. Agree(k - 1)
    BY <2>1, <2>4
  <2>6. /\ Cardinality(Markers(k - 1)) \in Nat
        /\ Cardinality(Markers(k)) = Cardinality(Markers(k - 1))
                                     + (IF doc[k].kind \in Fence THEN 1 ELSE 0)
    <3>1. k - 1 \in Nat /\ (k - 1) + 1 = k
      BY <2>4
    <3> QED
      BY <3>1, MarkersNext
  <2>7. Opened[k] = Ahead(Opened[k - 1], k) /\ ~Foreign(k)
    BY <2>4, OpenedIs
  <2>8. CASE doc[k].kind \notin Fence
    <3>1. Opened[k] = Opened[k - 1]
      BY <2>7, <2>8 DEF Ahead
    <3>2. Cardinality(Markers(k)) = Cardinality(Markers(k - 1))
      BY <2>6, <2>8
    <3> QED
      BY <2>2, <2>5, <3>1, <3>2 DEF Agree
  <2>9. CASE doc[k].kind \in Fence
    <3>1. Opened[k - 1] = "none" \/ Opened[k - 1] = doc[k].kind
      BY <2>7, <2>9 DEF Foreign
    <3>2. "none" \notin Fence
      BY DEF Fence
    <3>3. Opened[k] = "none" <=> ~(Opened[k - 1] = "none")
      BY <2>7, <2>9, <3>1, <3>2 DEF Ahead
    <3>4. Cardinality(Markers(k)) = Cardinality(Markers(k - 1)) + 1
      BY <2>6, <2>9
    <3>5. \A c \in Nat : c % 2 = 0 <=> ~((c + 1) % 2 = 0)
      OBVIOUS
    <3>6. Cardinality(Markers(k)) % 2 = 0 <=> ~(Cardinality(Markers(k - 1)) % 2 = 0)
      BY <2>6, <3>4, <3>5
    <3> QED
      BY <2>2, <2>5, <3>3, <3>6 DEF Agree
  <2> QED
    BY <2>8, <2>9
<1> QED
  BY <1>1

\* There the text gives a block the path that the flag gives it.
LEMMA PathsAgree ==
    ASSUME Len(doc) \in Nat, NEW b, Stands(b), \A i \in 1 .. b.last : ~Foreign(i)
    PROVE  Situated(b)
<1>1. b.first \in 1 .. b.last /\ b.last \in 1 .. Len(doc)
  BY DEF Stands
<1>2. ASSUME NEW i \in 1 .. b.last PROVE Marked(i) <=> Headed(i)
  <2>1. i \in 0 .. Len(doc) /\ \A j \in 1 .. i : ~Foreign(j)
    BY <1>1
  <2> QED
    BY <2>1, FlagAgrees DEF Marked, Headed
<1>3. Section(b.first) = Under(b.first)
  <2>1. \A h \in 1 .. b.first : h \in 1 .. b.last /\ \A g \in h + 1 .. b.first : g \in 1 .. b.last
    BY <1>1
  <2> QED
    BY <1>2, <2>1 DEF Section, Under
<1>4. \A i \in b.first .. b.last : Marked(i) <=> Headed(i)
  BY <1>1, <1>2
<1>5. Marked(b.first) <=> Headed(b.first)
  BY <1>1, <1>2
<1> QED
  BY <1>3, <1>4, <1>5 DEF Stands, Situated

\* For every text the stack, the flushes and the fence flag of _parse_blocks give each block,
\* whole or cut, the headings that the whole text puts it under, as far as no fenced block
\* has a marker of the other sort in it.
THEOREM PathsTrue == ChunkSpec => []PathsAreTrue
<1>1. ChunkInv => PathsAreTrue
  <2> SUFFICES ASSUME ChunkInv, NEW b \in Parts, \A i \in 1 .. b.last : ~Foreign(i)
               PROVE  Situated(b)
    BY DEF PathsAreTrue
  <2>1. Len(doc) \in Nat /\ Stands(b)
    BY Standing DEF ChunkInv, PathsStand
  <2> QED
    BY <2>1, PathsAgree
<1> QED
  BY <1>1, ChunkStart, ChunkStep, PTL DEF ChunkSpec
-------------------------------------------------------------------------------

\* For every text, and wherever blocks are cut: the chunks hold every line of it, in order.
THEOREM NothingDropped == ChunkSpec => []NothingLost
<1>1. ChunkInv => NothingLost
  <2> SUFFICES ASSUME ChunkInv, phase = "done"
               PROVE  /\ \A i \in DOMAIN doc : doc[i].kind # "blank" =>
                             \E b \in Emitted : i \in b.first .. b.last
                      /\ chunks # <<>> => chunks[1].blocks[1].off = 0
                      /\ \A k \in DOMAIN chunks :
                            /\ \A m \in 1 .. Len(chunks[k].blocks) - 1 :
                                  Follows(chunks[k].blocks[m], chunks[k].blocks[m + 1])
                            /\ IF k = Len(chunks) THEN Ends(Last(chunks[k].blocks))
                               ELSE Follows(Last(chunks[k].blocks), chunks[k + 1].blocks[1])
    BY DEF NothingLost
  <2>1. /\ open = 0 /\ at = Len(doc) /\ blocks = <<>> /\ sized = <<>> /\ current.blocks = <<>>
    BY DEF ChunkInv, Staged
  <2>2. DOMAIN doc = 1 .. Len(doc)
    <3>1. doc \in Seq(Line)
      BY ChunkerAssumption DEF ChunkInv, IInv, Typed
    <3> QED
      BY <3>1, LenProperties
  <2>3. Parts = Emitted
    BY <2>1 DEF Parts, ToSet
  <2>4. \A i \in DOMAIN doc : doc[i].kind # "blank" => \E b \in Emitted : i \in b.first .. b.last
    BY <2>1, <2>2, <2>3 DEF ChunkInv, Covered
  <2>5. ChainOf(chunks) /\ (chunks # <<>> => Ends(Last(chunks[Len(chunks)].blocks)))
    BY DEF ChunkInv, Chained
  <2>6. ASSUME NEW k \in DOMAIN chunks
        PROVE  /\ \A m \in 1 .. Len(chunks[k].blocks) - 1 :
                    Follows(chunks[k].blocks[m], chunks[k].blocks[m + 1])
               /\ k = Len(chunks) => Ends(Last(chunks[k].blocks))
               /\ k # Len(chunks) => Follows(Last(chunks[k].blocks), chunks[k + 1].blocks[1])
    <3>1. chunks \in Seq(Chunks) /\ Len(chunks) \in Nat /\ DOMAIN chunks = 1 .. Len(chunks)
      BY LenProperties DEF ChunkInv, IInv, Typed
    <3>2. Linked(chunks[k].blocks)
      BY <2>5 DEF ChainOf
    <3>3. chunks # <<>>
      BY <3>1, EmptySeq
    <3>4. k # Len(chunks) => k \in 1 .. Len(chunks) - 1
      BY <3>1
    <3>5. k # Len(chunks) => Leads(Last(chunks[k].blocks), chunks[k + 1].blocks[1])
      BY <2>5, <3>4 DEF ChainOf
    <3> QED
      BY <2>5, <3>2, <3>3, <3>5 DEF Linked, Leads
  <2> QED
    BY <2>4, <2>5, <2>6 DEF ChainOf
<1> QED
  BY <1>1, ChunkStart, ChunkStep, PTL DEF ChunkSpec
-------------------------------------------------------------------------------
(* Sections *)

\* What is said of a chunk's sections depends on the text and the chunk only.
LEMMA SectionsStay ==
    ASSUME doc' = doc
    PROVE  /\ \A bs : OnePath(bs)' <=> OnePath(bs)
           /\ \A n, bs, cs : Carried(n, bs, cs)' <=> Carried(n, bs, cs)
           /\ \A cs : SectionsOf(cs)' <=> SectionsOf(cs)
<1>1. \A b : SplitHeading(b)' <=> SplitHeading(b)
  BY TextStays DEF SplitHeading
<1>2. /\ \A bs : Uncut(bs)' <=> Uncut(bs)
      /\ \A c : Unsplit(c)' <=> Unsplit(c)
  BY <1>1 DEF Uncut, Unsplit
<1>3. \A bs : OnePath(bs)' <=> OnePath(bs)
  BY <1>2 DEF OnePath
<1>4. \A n, bs, cs : Carried(n, bs, cs)' <=> Carried(n, bs, cs)
  BY <1>2 DEF Carried
<1>5. \A cs : SectionsOf(cs)' <=> SectionsOf(cs)
  BY <1>2 DEF SectionsOf
<1> QED
  BY <1>3, <1>4, <1>5

\* Where the three parts stand after a step.
LEMMA SectionDone ==
    ASSUME doc' = doc, NEW bs, bs = current'.blocks, NEW cs, cs = chunks',
           OnePath(bs), Carried(seed', bs, cs), SectionsOf(cs)
    PROVE  OneSection'
<1>1. \A n : n = seed' => Carried(n, bs, cs)'
  BY SectionsStay
<1>2. OnePath(current.blocks)'
  <2>1. \A t : t = current'.blocks => (OnePath(t)' => OnePath(current.blocks)')
    OBVIOUS
  <2> QED
    BY <2>1, SectionsStay
<1>3. Carried(seed, current.blocks, chunks)'
  <2>1. \A n, t, u : n = seed' /\ t = current'.blocks /\ u = chunks' =>
                        (Carried(n, t, u)' => Carried(seed, current.blocks, chunks)')
    OBVIOUS
  <2> QED
    BY <1>1, <2>1
<1>4. SectionsOf(chunks)'
  <2>1. \A u : u = chunks' => (SectionsOf(u)' => SectionsOf(chunks)')
    OBVIOUS
  <2> QED
    BY <2>1, SectionsStay
<1> QED
  BY <1>2, <1>3, <1>4 DEF OneSection

\* A block of prose is under the path of the last block, or under a heading that was cut.
LEMMA PathMore ==
    ASSUME NEW bs \in Seq(Blocks), NEW b \in Blocks, OnePath(bs), b.head => AllHeads(bs),
           bs # <<>> => Leads(Last(bs), b)
    PROVE  OnePath(Append(bs, b)) /\ (Uncut(Append(bs, b)) => Uncut(bs) /\ ~SplitHeading(b))
<1> DEFINE t == Append(bs, b)
<1>1. /\ DOMAIN t = 1 .. Len(bs) + 1 /\ DOMAIN bs = 1 .. Len(bs) /\ Len(bs) \in Nat
      /\ \A k \in 1 .. Len(bs) : t[k] = bs[k]
      /\ t[Len(bs) + 1] = b
  <2>1. /\ t \in Seq(Blocks) /\ Len(t) = Len(bs) + 1
        /\ \A k \in 1 .. Len(bs) : t[k] = bs[k]
        /\ t[Len(bs) + 1] = b
    BY AppendProperties
  <2> QED
    BY <2>1, LenProperties
<1>2. Last(t) = b
  BY OneMore
<1> HIDE DEF t
<1>3. Uncut(t) => Uncut(bs) /\ ~SplitHeading(b)
  BY <1>1 DEF Uncut
<1>4. ASSUME Uncut(t), NEW k \in DOMAIN t, ~t[k].head PROVE t[k].path = b.path
  <2>1. CASE k = Len(bs) + 1
    BY <1>1, <2>1
  <2>2. CASE k \in 1 .. Len(bs)
    <3>1. t[k] = bs[k] /\ ~bs[k].head /\ k \in DOMAIN bs
      BY <1>1, <1>4, <2>2
    <3>2. ~b.head
      BY <3>1 DEF AllHeads
    <3>3. ~Headed(b.first)
      BY <1>3, <1>4, <3>2 DEF SplitHeading
    <3>4. bs # <<>>
      BY <1>1, <2>2, EmptySeq
    <3>5. b.path = Last(bs).path
      BY <3>3, <3>4 DEF Leads
    <3>6. bs[k].path = Last(bs).path
      BY <1>3, <1>4, <3>1 DEF OnePath
    <3> QED
      BY <3>1, <3>5, <3>6
  <2> QED
    BY <1>1, <2>1, <2>2
<1>5. OnePath(t)
  BY <1>2, <1>4 DEF OnePath
<1> QED
  BY <1>3, <1>5 DEF t

\* An emitted chunk has the path of its prose.
LEMMA EmitSection ==
    ASSUME ChunkInv, OneSection, Emit
    PROVE  /\ chunks' # <<>> /\ SectionsOf(chunks')
           /\ Unsplit(chunks'[Len(chunks')]) => Uncut(current.blocks)
           /\ Uncut(current.blocks) /\ ~AllHeads(current.blocks) =>
                 chunks'[Len(chunks')].path = Last(current.blocks).path
<1>1. /\ chunks \in Seq(Chunks) /\ seed \in Nat /\ current.blocks # <<>>
      /\ current.blocks \in Seq(Blocks)
  BY EmitShape DEF ChunkInv, IInv, Typed
<1>2. PICK c \in Chunks, k \in DOMAIN current.blocks :
              /\ chunks' = Append(chunks, c)
              /\ c.blocks = current.blocks /\ c.seed = seed
              /\ Situating(current.blocks, k) /\ c.path = current.blocks[k].path
  BY EmitShape DEF ChunkInv
<1> DEFINE bs == current.blocks
           t == chunks'
<1>3. /\ Len(t) = Len(chunks) + 1 /\ Len(chunks) \in Nat
      /\ DOMAIN t = 1 .. Len(chunks) + 1 /\ DOMAIN chunks = 1 .. Len(chunks)
      /\ \A i \in 1 .. Len(chunks) : t[i] = chunks[i]
      /\ t[Len(chunks) + 1] = c
      /\ chunks = <<>> <=> Len(chunks) = 0
      /\ t # <<>>
  <2>1. /\ t \in Seq(Chunks) /\ Len(t) = Len(chunks) + 1
        /\ \A i \in 1 .. Len(chunks) : t[i] = chunks[i]
        /\ t[Len(chunks) + 1] = c
    BY <1>1, <1>2, AppendProperties
  <2> QED
    BY <1>1, <2>1, LenProperties, EmptySeq
<1>4. DOMAIN bs = 1 .. Len(bs) /\ Len(bs) \in Nat \ {0} /\ 1 \in DOMAIN bs
  BY <1>1, LenProperties, EmptySeq
<1>5. \A i \in DOMAIN bs : bs[i].head \in BOOLEAN
  <2>1. \A b \in Blocks : b.head \in BOOLEAN
    BY DEF Blocks
  <2> QED
    BY <1>1, <1>4, <2>1, ElementOfSeq
<1>6. Unsplit(c) <=> Uncut(bs)
  BY <1>2 DEF Unsplit, Uncut
<1>7. /\ OnePath(bs) /\ Carried(seed, bs, chunks) /\ SectionsOf(chunks)
  BY DEF OneSection
<1>8. (\A i \in 1 .. k - 1 : bs[i].head) /\ (~bs[k].head \/ k = Len(bs))
  BY <1>2 DEF Situating
<1> HIDE DEF bs, t
<1>9. ASSUME ~AllHeads(bs) PROVE ~bs[k].head
  <2>1. PICK i \in DOMAIN bs : ~bs[i].head
    BY <1>9 DEF AllHeads
  <2>2. CASE k = Len(bs)
    <3>1. i = k \/ i \in 1 .. k - 1
      BY <1>4, <2>1, <2>2
    <3> QED
      BY <1>8, <2>1, <3>1
  <2> QED
    BY <1>8, <2>2
<1>10. ASSUME Uncut(bs), ~AllHeads(bs) PROVE c.path = Last(bs).path
  <2>1. k \in DOMAIN bs /\ c.path = bs[k].path
    BY <1>2 DEF bs
  <2> QED
    BY <1>7, <1>9, <1>10, <2>1 DEF OnePath
<1>11. ASSUME Unsplit(c), NEW b \in ToSet(c.blocks), ~b.head PROVE b.path = c.path
  <2>1. PICK i \in DOMAIN bs : b = bs[i]
    BY <1>2 DEF ToSet, bs
  <2>2. Uncut(bs) /\ ~AllHeads(bs)
    BY <1>6, <1>11, <2>1 DEF AllHeads
  <2>3. bs[i].path = Last(bs).path
    BY <1>7, <1>11, <2>1, <2>2 DEF OnePath
  <2> QED
    BY <1>10, <2>1, <2>2, <2>3
<1>12. ASSUME Unsplit(c), c.seed > 0, Unsplit(t[Len(chunks)]) PROVE t[Len(chunks)].path = c.path
  <2>1. /\ ~bs[1].head /\ chunks # <<>> /\ t[Len(chunks)] = chunks[Len(chunks)]
    BY <1>2, <1>3, <1>7, <1>12 DEF Carried
  <2>2. bs[1].path = chunks[Len(chunks)].path
    BY <1>2, <1>6, <1>7, <1>12, <2>1 DEF Carried
  <2>3. k \in DOMAIN bs /\ c.path = bs[k].path
    BY <1>2 DEF bs
  <2>4. k = 1
    <3>1. k \in 1 .. Len(bs)
      BY <1>4, <2>3
    <3>2. 1 \notin 1 .. k - 1
      BY <1>8, <2>1
    <3> QED
      BY <1>4, <3>1, <3>2
  <2> QED
    BY <2>1, <2>2, <2>3, <2>4
<1>13. t[1].seed = 0
  <2>1. CASE chunks = <<>>
    <3>1. t[1] = c /\ ~(seed > 0)
      BY <1>3, <1>7, <2>1 DEF Carried
    <3> QED
      BY <1>1, <1>2, <3>1
  <2>2. CASE chunks # <<>>
    <3>1. t[1] = chunks[1]
      BY <1>3, <2>2
    <3> QED
      BY <1>7, <2>2, <3>1 DEF SectionsOf
  <2> QED
    BY <2>1, <2>2
<1>14. ASSUME NEW i \in DOMAIN t, Unsplit(t[i])
       PROVE  /\ \A b \in ToSet(t[i].blocks) : ~b.head => b.path = t[i].path
              /\ t[i].seed > 0 /\ Unsplit(t[i - 1]) => t[i - 1].path = t[i].path
  <2>1. CASE i = Len(chunks) + 1
    <3>1. t[i] = c /\ i - 1 = Len(chunks)
      BY <1>3, <2>1
    <3> QED
      BY <1>11, <1>12, <1>14, <3>1
  <2>2. CASE i \in 1 .. Len(chunks)
    <3>1. t[i] = chunks[i] /\ i \in DOMAIN chunks
      BY <1>3, <2>2
    <3>2. \A b \in ToSet(t[i].blocks) : ~b.head => b.path = t[i].path
      BY <1>7, <1>14, <3>1 DEF SectionsOf
    <3>3. CASE i = 1
      <4>1. ~(t[i].seed > 0)
        BY <1>13, <3>3
      <4> QED
        BY <3>2, <4>1
    <3>4. CASE i # 1
      <4>1. t[i - 1] = chunks[i - 1]
        BY <1>3, <2>2, <3>4
      <4> QED
        BY <1>7, <1>14, <3>1, <3>2, <4>1 DEF SectionsOf
    <3> QED
      BY <3>3, <3>4
  <2> QED
    BY <1>3, <2>1, <2>2
<1>15. SectionsOf(t)
  BY <1>13, <1>14 DEF SectionsOf
<1> QED
  BY <1>3, <1>6, <1>10, <1>15 DEF bs, t

\* Every step keeps the prose of a chunk in one section.
LEMMA SectionStep == ChunkInv /\ OneSection /\ [ChunkNext]_cvars => OneSection'
<1> SUFFICES ASSUME ChunkInv, OneSection, [ChunkNext]_cvars PROVE OneSection'
  OBVIOUS
<1>1. ASSUME doc' = doc, UNCHANGED <<current, seed, chunks>> PROVE OneSection'
  <2> DEFINE bs == current'.blocks
             cs == chunks'
  <2>1. bs = current.blocks /\ cs = chunks /\ seed' = seed
    BY <1>1
  <2>2. OnePath(bs) /\ Carried(seed', bs, cs) /\ SectionsOf(cs)
    BY <2>1 DEF OneSection
  <2> QED
    BY <1>1, <2>2, SectionDone
<1>2. CASE ReadVerbatim \/ ReadHeading \/ ReadBlank \/ ReadText \/ EndOfText
  <2>1. UNCHANGED <<doc, current, seed, chunks>>
    BY <1>2 DEF ReadVerbatim, ReadHeading, ReadBlank, ReadText, EndOfText, Reads
  <2> QED
    BY <1>1, <2>1
<1>3. CASE Keep \/ Cut \/ CutTail \/ EndOfBlocks \/ UNCHANGED cvars
  <2>1. UNCHANGED <<doc, current, seed, chunks>>
    BY <1>3 DEF Keep, Cut, CutTail, EndOfBlocks, Size, parsing, cvars
  <2> QED
    BY <1>1, <2>1
<1>4. ASSUME Merges
      PROVE  /\ Head(sized) \in Blocks /\ current.blocks \in Seq(Blocks) /\ doc' = doc
             /\ current.blocks # <<>> => Leads(Last(current.blocks), Head(sized))
             /\ Head(sized).head \in BOOLEAN
  <2>1. \A b \in Blocks : b.head \in BOOLEAN
    BY DEF Blocks
  <2> QED
    BY <1>4, <2>1, BlockToCome
<1>5. CASE Take
  <2>1. /\ Merges /\ current' = With(current, Head(sized)) /\ seed' = seed /\ chunks' = chunks
        /\ Head(sized).head => AllHeads(current.blocks)
    BY <1>5 DEF Take
  <2> DEFINE bs == Append(current.blocks, Head(sized))
  <2>2. bs = current'.blocks
    BY <2>1 DEF With
  <2>3. /\ OnePath(current.blocks) /\ Carried(seed, current.blocks, chunks) /\ SectionsOf(chunks)
    BY DEF OneSection
  <2>4. OnePath(bs) /\ (Uncut(bs) => Uncut(current.blocks))
    BY <1>4, <2>1, <2>3, PathMore
  <2>5. bs # <<>> /\ (current.blocks # <<>> => bs[1] = current.blocks[1])
    BY <1>4, <2>1, OneMore
  <2> HIDE DEF bs
  <2>6. Carried(seed', bs, chunks')
    BY <2>1, <2>3, <2>4, <2>5 DEF Carried
  <2>7. SectionsOf(chunks')
    BY <2>1, <2>3
  <2> QED
    BY <1>4, <2>1, <2>2, <2>4, <2>6, <2>7, SectionDone
<1>6. CASE NewSection \/ Overflow
  <2>1. /\ Merges /\ Emit /\ current' = With(Nothing, Head(sized)) /\ ~AllHeads(current.blocks)
        /\ Head(sized).head => seed' = 0
    BY <1>6 DEF NewSection, Overflow
  <2> DEFINE bs == Append(<<>>, Head(sized))
             cs == chunks'
  <2>2. bs = current'.blocks
    BY <2>1 DEF With, Nothing
  <2>3. <<>> \in Seq(Blocks) /\ OnePath(<<>>) /\ AllHeads(<<>>)
    BY EmptySeq DEF OnePath, AllHeads
  <2>4. OnePath(bs) /\ (Uncut(bs) => ~SplitHeading(Head(sized)))
    BY <1>4, <2>1, <2>3, PathMore
  <2>5. bs # <<>> /\ bs[1] = Head(sized)
    BY <1>4, <2>1, <2>3, OneMore
  <2>6. /\ cs # <<>> /\ SectionsOf(cs)
        /\ Unsplit(cs[Len(cs)]) => cs[Len(cs)].path = Last(current.blocks).path
    BY <2>1, EmitSection
  <2>7. Leads(Last(current.blocks), Head(sized))
    BY <1>4, <2>1, EmitShape DEF ChunkInv
  <2> HIDE DEF bs, cs
  <2>8. Carried(seed', bs, cs)
    <3> SUFFICES ASSUME seed' > 0 PROVE Carried(seed', bs, cs)
      BY DEF Carried
    <3>1. ~Head(sized).head
      BY <2>1
    <3>2. Uncut(bs) => Head(sized).path = Last(current.blocks).path
      BY <2>4, <2>7, <3>1 DEF SplitHeading, Leads
    <3> QED
      BY <2>5, <2>6, <3>1, <3>2 DEF Carried
  <2> QED
    BY <1>4, <2>1, <2>2, <2>4, <2>6, <2>8, SectionDone DEF cs
<1>7. CASE Finish
  <2>1. /\ current'.blocks = <<>> /\ seed' = 0 /\ doc' = doc
        /\ chunks' = chunks \/ Emit
    BY <1>7 DEF Finish, Nothing, parsing
  <2> DEFINE cs == chunks'
  <2>2. SectionsOf(cs)
    BY <2>1, EmitSection DEF OneSection
  <2>3. OnePath(<<>>) /\ Carried(seed', <<>>, cs)
    BY <2>1 DEF OnePath, Carried
  <2> QED
    BY <2>1, <2>2, <2>3, SectionDone
<1> QED
  BY <1>2, <1>3, <1>5, <1>6, <1>7 DEF ChunkNext

\* For every text and wherever it is cut: the prose of a chunk, and the overlap it begins
\* with, stand under the chunk's heading path, unless a heading was cut into pieces.
THEOREM SectionsAreKept == ChunkSpec => []SectionsKept
<1>1. ChunkInit => OneSection
  BY DEF ChunkInit, Nothing, OneSection, OnePath, Carried, SectionsOf
<1>2. OneSection => SectionsKept
  BY DEF OneSection, SectionsOf, SectionsKept
<1> QED
  BY <1>1, <1>2, ChunkStart, ChunkStep, SectionStep, PTL DEF ChunkSpec
================================================================================
