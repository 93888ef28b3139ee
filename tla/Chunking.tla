------------------------------ MODULE Chunking -------------------------------
(***************************************************************************)
(* How a document becomes passages: prepareKnowledgeChunks and chunkText   *)
(* (packages/platform/src/rag.ts).  A text is the sequence of its          *)
(* characters, TRUE where one is white space; a passage is the span it     *)
(* covers.  A FAQ is split into blocks first; any other text is one block. *)
(***************************************************************************)
EXTENDS Integers, FiniteSets, Sequences

CONSTANTS MaxText,   \* bound: characters of a text
          MaxChars   \* bound: passage limit
ASSUME ChunkingAssumption == MaxText \in Nat \ {0} /\ MaxChars \in Nat \ {0}

VARIABLES
  blocks,    \* blocks of the document, [title, text]
  limit,     \* maxChars
  overlap,   \* characters repeated at the start of the next passage
  block,     \* block being cut
  start,     \* where the next passage starts in it
  passages,  \* <<block, from, to>>
  chunking   \* "idle", "running" or "done"
chunkVars == <<blocks, limit, overlap, block, start, passages, chunking>>

\* Trimmed texts, and the documents made of them.
Trimmed(n) == {t \in [1..n -> BOOLEAN] : ~t[1] /\ ~t[n]}
Plain(t) == <<[title |-> FALSE, text |-> t]>>
Faq == {<<[title |-> h, text |-> t], [title |-> FALSE, text |-> u]>> :
          h \in BOOLEAN, t \in Trimmed(2), u \in Trimmed(3)}
Documents == (UNION {{Plain(t) : t \in Trimmed(n)} : n \in 1..MaxText}) \union Faq

ChunkingTypeOK ==
  /\ chunking \in {"idle", "running", "done"}
  /\ limit \in 0..MaxChars /\ overlap \in 0..MaxChars /\ block \in 0..Len(blocks) + 1
  /\ \A p \in passages : p[1] \in DOMAIN blocks /\ p[2] \in 1..p[3]
                         /\ p[3] <= Len(blocks[p[1]].text)

ChunkingInit ==
  /\ blocks = <<>> /\ limit = 0 /\ overlap = 0 /\ block = 0 /\ start = 0
  /\ passages = {} /\ chunking = "idle"

\* The overlap asked for is capped below the limit.
PrepareKnowledgeChunks ==
  /\ chunking = "idle" /\ chunking' = "running"
  /\ blocks' \in Documents /\ limit' \in 1..MaxChars
  /\ \E asked \in 0..MaxChars : overlap' = IF asked < limit' THEN asked ELSE limit' - 1
  /\ block' = 1 /\ start' = 0
  /\ UNCHANGED passages

Text == blocks[block].text
White(i) == Text[i + 1]  \* characters are numbered from 0 in the code

\* search(/\s+\S*$/) over the window that starts at `start`: the first character
\* of its last run of white space, or -1.
Boundary(end) ==
  LET window == start..end
      whites == {i \in window : White(i)}
      starts == {i \in whites : i = start \/ ~White(i - 1)}
  IN  IF starts = {} THEN -1 ELSE (CHOOSE i \in starts : \A j \in starts : j <= i) - start

\* The end of the next passage.
CutAt ==
  LET end == start + limit
  IN  IF end >= Len(Text) THEN Len(Text)
      ELSE IF Boundary(end) > 0 THEN start + Boundary(end) ELSE end

\* The passage is trimmed; nothing is kept of white space alone.
Trim(from, to) ==
  LET words == {i \in from..to - 1 : ~White(i)}
  IN  IF words = {} THEN {}
      ELSE {<<block, (CHOOSE i \in words : \A j \in words : i <= j) + 1,
                     (CHOOSE i \in words : \A j \in words : j <= i) + 1>>}

\* Where the next passage starts: strictly further.
Restart(end) == IF end - overlap <= start THEN end ELSE end - overlap

\* Mutant: the character after a cut is taken for the separator.
SkipSeparator(end) == /\ passages' = passages \union Trim(start, end)
                      /\ start' = Restart(end) + 1

Cut(end) == /\ passages' = passages \union Trim(start, end)
            /\ start' = Restart(end)

\* One turn of chunkText's loop.
ChunkStep ==
  /\ chunking = "running" /\ block <= Len(blocks) /\ ~blocks[block].title
  /\ start < Len(Text)
  /\ IF CutAt >= Len(Text)
     THEN /\ passages' = passages \union Trim(start, CutAt)
          /\ block' = block + 1 /\ start' = 0
     ELSE Cut(CutAt) /\ block' = block
  /\ UNCHANGED <<blocks, limit, overlap, chunking>>

\* A block that starts with the document's or a section's heading is left out,
\* with whatever text follows the heading.
SkipTitle ==
  /\ chunking = "running" /\ block <= Len(blocks)
  /\ blocks[block].title /\ block' = block + 1 /\ start' = 0
  /\ UNCHANGED <<blocks, limit, overlap, passages, chunking>>

ChunkingDone ==
  /\ chunking = "running" /\ block > Len(blocks) /\ chunking' = "done"
  /\ UNCHANGED <<blocks, limit, overlap, block, start, passages>>

ChunkingNext == PrepareKnowledgeChunks \/ ChunkStep \/ SkipTitle \/ ChunkingDone

\* rag.ts:14-26: every word of the text, and every letter of a word that had to
\* be cut, is in some passage.
EveryWordKept ==
  chunking = "done" =>
    \A b \in DOMAIN blocks : ~blocks[b].title =>
      \A i \in DOMAIN blocks[b].text : ~blocks[b].text[i] =>
        \E p \in passages : p[1] = b /\ p[2] <= i /\ i <= p[3]

\* rag.ts:15-19: no passage is longer than the limit it was cut for, wherever
\* the white space fell.
PassageFits == \A p \in passages : p[3] - p[2] + 1 <= limit

\* rag.ts:24-25: cutting ends for every overlap, although the start is moved
\* back after each passage.
ChunkingEnds == chunking = "running" ~> chunking = "done"

\* chunkText ends on every text and overlap, and its passages keep every word and
\* their limit (rag.ts:5-30).
ChunkingIsFaithful == ChunkingEnds /\ [](EveryWordKept /\ PassageFits)
=============================================================================
