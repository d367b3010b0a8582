------------------------------- MODULE Chunking -------------------------------
(***************************************************************************)
(* How the blocks a parser reads from a document become the chunks that    *)
(* are embedded and cited (knowledge/chunking.py: chunk_blocks).           *)
(*                                                                         *)
(* A document is its pieces in order: a sentence, or the lengths a         *)
(* sentence longer than a chunk is cut into.  A text is the pieces it      *)
(* holds and its length, separators included.  The overlap at the start of *)
(* a chunk repeats what an earlier one holds: only its length matters.     *)
(***************************************************************************)
EXTENDS Integers, SequencesExt

CONSTANTS
  Size,        \* chunk_size
  Overlap,     \* of a chunk with the one before it
  Lengths,     \* of a sentence
  MaxBlocks,   \* read of a document
  MaxSentences \* of a block

\* The ValueError of chunk_blocks.
ASSUME ChunkingAssumption ==
  /\ Size \in Nat \ {0} /\ Overlap \in Nat /\ Overlap < Size
  /\ Lengths \subseteq Nat \ {0} /\ MaxBlocks \in Nat /\ MaxSentences \in Nat

VARIABLES
  stage,          \* of the loop over the blocks
  read,           \* blocks read
  heading,        \* the parser's, the block that is the nearest preceding one
  pendingText,    \* small blocks not yet in a chunk
  pendingHeading,
  units,          \* of a block too large for one chunk, not yet packed
  current,        \* the chunk they are packed into
  chunks,
  \* history
  document        \* of each piece read so far, the heading it stands under

chunkVars ==
  <<stage, read, heading, pendingText, pendingHeading, units, current, chunks, document>>

Nothing == [own |-> <<>>, len |-> 0]

Join(a, b, gap) ==
  IF a = Nothing THEN b ELSE [own |-> a.own \o b.own, len |-> a.len + gap + b.len]

Joined(texts, gap) == FoldLeft(LAMBDA a, b : Join(a, b, gap), Nothing, texts)

\* Between cuts, sentences and paragraphs or blocks.
Uncut == 0
Space == 1
BlankLine == 2

-------------------------------------------------------------------------------
(* A block's text: paragraphs of sentences, each of some length. *)

Texts == UNION {[1 .. k -> Lengths] : k \in 1 .. MaxSentences}

Bodies ==
  {b \in UNION {[1 .. k -> Texts] : k \in 1 .. MaxSentences} : Len(FlattenSeq(b)) <= MaxSentences}

Cuts(length) ==
  LET last == (length - 1) \div Size IN
  [i \in 1 .. last + 1 |-> IF i <= last THEN Size ELSE length - last * Size]

\* The pieces of a sentence, from the one after the n-th on.
Pieces(length, n) ==
  [i \in DOMAIN Cuts(length) |-> [own |-> <<n + i>>, len |-> Cuts(length)[i]]]

\* Those of each sentence of a paragraph, and of each paragraph of a block.
Numbered(sentences, n) ==
  FoldLeft(LAMBDA p, length : [upTo |-> p.upTo + Len(Cuts(length)),
                               texts |-> Append(p.texts, Pieces(length, p.upTo))],
           [upTo |-> n, texts |-> <<>>], sentences)

Paragraphs(body) ==
  FoldLeft(LAMBDA b, sentences : LET p == Numbered(sentences, b.upTo)
                                 IN [upTo |-> p.upTo, texts |-> Append(b.texts, p.texts)],
           [upTo |-> Len(document), texts |-> <<>>], body)

Sentence(cuts) == Joined(cuts, Uncut)
Paragraph(sentences) == Joined([j \in DOMAIN sentences |-> Sentence(sentences[j])], Space)
Whole(paragraphs) ==
  Joined([p \in DOMAIN paragraphs |-> Paragraph(paragraphs[p])], BlankLine)

Present(text) == IF text = Nothing THEN <<>> ELSE <<text>>

\* _split_oversized: whole sentences as long as they fit, one that never fits is cut.
SplitOversized(sentences) ==
  LET Add(split, cuts) ==
        LET candidate == Join(split.current, Sentence(cuts), Space) IN
        IF candidate.len <= Size
        THEN [split EXCEPT !.current = candidate]
        ELSE [done |-> split.done \o Present(split.current) \o Front(cuts),
              current |-> Last(cuts)]
      split == FoldLeft(Add, [done |-> <<>>, current |-> Nothing], sentences)
  IN split.done \o Present(split.current)

\* _split_section: its units, paragraphs as far as they fit.
Expanded(paragraphs) ==
  FlattenSeq([p \in DOMAIN paragraphs |->
    IF Paragraph(paragraphs[p]).len <= Size THEN <<Paragraph(paragraphs[p])>>
                                            ELSE SplitOversized(paragraphs[p])])

-------------------------------------------------------------------------------
ChunkInit ==
  /\ stage = "reading" /\ read = 0 /\ heading = 0
  /\ pendingText = Nothing /\ pendingHeading = 0
  /\ units = <<>> /\ current = Nothing
  /\ chunks = <<>> /\ document = <<>>

Chunk(text, under, whole) ==
  [own |-> text.own, len |-> text.len, heading |-> under, whole |-> whole]

\* A bug: what was gathered would be dropped where it has to end.
MutantFlushed == chunks
\* flush
Flushed ==
  IF pendingText = Nothing THEN chunks
  ELSE Append(chunks, Chunk(pendingText, pendingHeading, FALSE))

\* The parser's next block, with pieces up to that one.
NextBlock(upTo, under) ==
  /\ stage = "reading" /\ read < MaxBlocks
  /\ read' = read + 1
  /\ heading' = under
  /\ document' = document \o [i \in 1 .. upTo - Len(document) |-> under]

\* A heading is context for what follows, not content on its own.
HeadingBlock ==
  /\ NextBlock(Len(document), read + 1)
  /\ chunks' = Flushed /\ pendingText' = Nothing
  /\ pendingHeading' = read + 1
  /\ UNCHANGED <<stage, units, current>>

\* A table is one chunk, however long it is; here it is longer than a chunk.
TableBlock ==
  LET table == [own |-> <<Len(document) + 1>>, len |-> 2 * Size] IN
  /\ NextBlock(Len(document) + 1, heading)
  /\ chunks' = Append(Flushed, Chunk(table, heading, TRUE))
  /\ pendingText' = Nothing
  /\ UNCHANGED <<stage, pendingHeading, units, current>>

OversizedBlock(body) ==
  LET block == Paragraphs(body) IN
  /\ Whole(block.texts).len > Size
  /\ NextBlock(block.upTo, heading)
  /\ chunks' = Flushed /\ pendingText' = Nothing
  /\ stage' = "packing" /\ units' = Expanded(block.texts)
  /\ UNCHANGED <<pendingHeading, current>>

SmallBlock(body) ==
  LET block == Whole(Paragraphs(body).texts)
      candidate == Join(pendingText, block, BlankLine)
      fits == candidate.len <= Size
  IN
  /\ block.len <= Size
  /\ NextBlock(Paragraphs(body).upTo, heading)
  /\ chunks' = IF fits THEN chunks ELSE Flushed
  /\ pendingText' = IF fits THEN candidate ELSE block
  /\ pendingHeading' =
       IF (fits /\ pendingText # Nothing) \/ heading = 0 THEN pendingHeading ELSE heading
  /\ UNCHANGED <<stage, units, current>>

\* A bug: the overlap would be all of the chunk before.
MutantTails(text) == {text.len}
\* _tail: the length of what follows the window's first space, if it has one.
Tails(text) == IF Overlap = 0 \/ text.len <= Overlap THEN {text.len} ELSE 0 .. Overlap

\* One unit of _split_section's loop.
Pack ==
  /\ stage = "packing" /\ units # <<>>
  /\ units' = Tail(units)
  /\ LET unit == Head(units)
         candidate == Join(current, unit, BlankLine)
     IN \/ /\ candidate.len <= Size
           /\ current' = candidate
           /\ UNCHANGED chunks
        \/ /\ candidate.len > Size
           /\ chunks' = Append(chunks, Chunk(current, heading, FALSE))
           /\ IF Overlap = 0
              THEN current' = unit
              ELSE \E tail \in Tails(current) :
                     current' = [unit EXCEPT !.len = tail + BlankLine + @]
  /\ UNCHANGED <<stage, read, heading, pendingText, pendingHeading, document>>

Packed ==
  /\ stage = "packing" /\ units = <<>>
  /\ chunks' = Append(chunks, Chunk(current, heading, FALSE))
  /\ current' = Nothing /\ stage' = "reading"
  /\ UNCHANGED <<read, heading, pendingText, pendingHeading, units, document>>

\* The last block was read, and the last flush.
EndOfBlocks ==
  /\ stage = "reading"
  /\ chunks' = Flushed /\ pendingText' = Nothing /\ stage' = "chunked"
  /\ UNCHANGED <<read, heading, pendingHeading, units, current, document>>

ChunkNext ==
  \/ HeadingBlock
  \/ TableBlock
  \/ \E b \in Bodies : OversizedBlock(b) \/ SmallBlock(b)
  \/ Pack
  \/ Packed
  \/ EndOfBlocks

ChunkSpec == ChunkInit /\ [][ChunkNext]_chunkVars

-------------------------------------------------------------------------------
Text == [own : Seq(1 .. Len(document)), len : Nat]

\* What there is to pack is no longer than a chunk, piece by piece.
ChunkTypeOK ==
  /\ stage \in {"reading", "packing", "chunked"}
  /\ read \in 0 .. MaxBlocks /\ heading \in 0 .. read /\ pendingHeading \in 0 .. read
  /\ pendingText \in Text /\ current \in Text
  /\ units \in Seq({unit \in Text : unit.len <= Size})
  /\ chunks \in Seq([own : Seq(1 .. Len(document)), len : Nat, heading : 0 .. read, whole : BOOLEAN])
  /\ document \in Seq(0 .. read)

(* Nothing of a document is lost, repeated (but in an overlap) or put out of *)
(* order on its way into the chunks, whatever mix of headings, tables, long  *)
(* and short blocks it is, and each chunk is cited under the one heading all *)
(* it holds stands under: the pieces in the chunks, and then in what is      *)
(* still being gathered, are the document's.                                 *)
TextKept ==
  /\ FlattenSeq([i \in DOMAIN chunks |-> chunks[i].own])
       \o current.own \o FlattenSeq([i \in DOMAIN units |-> units[i].own]) \o pendingText.own
     = [i \in DOMAIN document |-> i]
  /\ \A i \in DOMAIN chunks : \A n \in Range(chunks[i].own) :
       document[n] = chunks[i].heading

(* A chunk is no longer than chunk_size and an overlap with its blank line,  *)
(* however long the sentences, paragraphs and blocks, but for a table; what  *)
(* the embedding model cuts off would be retrieved by nobody.                *)
ChunksFit ==
  \A i \in DOMAIN chunks : chunks[i].whole \/ chunks[i].len <= Size + Overlap + BlankLine
=============================================================================
