------------------------------- MODULE ChunkText -------------------------------
(***************************************************************************)
(* chunk_text: a text whose runs of white space are already single blanks  *)
(* is cut into chunks of at most Target characters that overlap by at most *)
(* Overlap, preferably at a blank of a chunk's second half.  A text is its *)
(* length and the positions of its blanks, a chunk the interval lo..hi-1   *)
(* of the positions it holds.                                              *)
(***************************************************************************)
EXTENDS Integers, Sequences

CONSTANTS Target,   \* target_chars, 1200
          Overlap,  \* overlap, 150
          Lengths   \* the lengths of the texts to be cut

\* The one call in the repository leaves both at their defaults.
ASSUME SizeAssumption ==
  /\ Target \in Nat /\ Overlap \in Nat /\ Overlap < Target \div 2 /\ Target \div 2 < Target
  /\ Lengths \subseteq Nat

VARIABLES text, start, out, done
chunkVars == <<text, start, out, done>>

\* What re.sub and strip leave: no blank at an end, no two in a row.
Texts ==
  UNION {{[len |-> n, blanks |-> B] : B \in {B \in SUBSET (1 .. n - 2) : \A b \in B : b + 1 \notin B}} :
         n \in Lengths}

ChunkInit == /\ text \in Texts
        /\ start = 0
        /\ out = <<>>
        /\ done = (text.len = 0)

Limit == IF start + Target < text.len THEN start + Target ELSE text.len

\* A mutant of Late: no blank is searched for.
NoSearch == {}

\* A mutant of Late: a blank anywhere in the chunk may end it.
AnyBlank == {b \in text.blanks : start < b /\ b < Limit /\ Limit < text.len}

\* The blanks at which the chunk may end before Limit.
Late == {b \in text.blanks : start + Target \div 2 < b /\ b < Limit /\ Limit < text.len}

IsEnd(end) ==
  \/ Late = {} /\ end = Limit
  \/ end \in Late /\ \A b \in Late : b <= end

\* strip takes at most one blank from either end.
Strip(lo, hi) ==
  [lo |-> IF lo \in text.blanks THEN lo + 1 ELSE lo,
   hi |-> IF hi - 1 \in text.blanks THEN hi - 1 ELSE hi]

\* A mutant of Restart: the character after the end is skipped.
SkipOne(end) == end + 1

Restart(end) == IF start + 1 > end - Overlap THEN start + 1 ELSE end - Overlap

\* One turn of the loop.
Cut ==
  /\ ~done
  /\ \E end \in 1 .. text.len :
       /\ IsEnd(end)
       /\ out' = Append(out, Strip(start, end))
       /\ done' = (end = text.len)
       /\ start' = IF end = text.len THEN start ELSE Restart(end)
  /\ UNCHANGED text

Finished == done /\ UNCHANGED chunkVars

ChunkNext == Cut \/ Finished

ChunkSpec == ChunkInit /\ [][ChunkNext]_chunkVars

-----------------------------------------------------------------------------
\* Type invariant: the chunks are intervals of the text.
ChunkTypeOK ==
  /\ text \in [len : Nat, blanks : SUBSET Nat]
  /\ start \in 0 .. text.len
  /\ out \in Seq([lo : 0 .. text.len, hi : 0 .. text.len])
  /\ done \in BOOLEAN

Holds(i, p) == out[i].lo <= p /\ p < out[i].hi

\* What the loop has left behind, all of the text at its end.
Passed(p) == p < start \/ (done /\ p < text.len)

\* No character is lost between two chunks: every position the loop has passed
\* is a blank or is in a chunk, whatever strip took away (service.py:17-19).
Lossless ==
  \A p \in 0 .. text.len - 1 :
    Passed(p) => p \in text.blanks \/ \E i \in DOMAIN out : Holds(i, p)

\* The loop moves: a turn that is not the last one starts the next chunk
\* further on, so there are no more turns than characters (service.py:19).
Advances == [][done' \/ start' > start]_chunkVars

\* Chunks do their work: none is empty or longer than asked for, each reaches
\* beyond the one before it, and two neighbours share no more than Overlap.
ChunksAdvance ==
  /\ \A i \in DOMAIN out : out[i].lo < out[i].hi /\ out[i].hi - out[i].lo <= Target
  /\ \A i \in 1 .. Len(out) - 1 :
       /\ out[i].lo < out[i + 1].lo /\ out[i].hi < out[i + 1].hi
       /\ out[i].hi - out[i + 1].lo <= Overlap

\* The words of the text, and the parts of words.
TextWords ==
  {w \in [lo : 0 .. text.len, hi : 0 .. text.len] :
     w.lo < w.hi /\ \A p \in w.lo .. w.hi - 1 : p \notin text.blanks}

\* No word is as long as the part of a chunk in which it may end.
ShortWords == \A w \in TextWords : w.hi - w.lo < Target - Target \div 2

\* A text of ordinary words can be searched by its words, which is how
\* lexical_score compares: every word is whole in some chunk, although chunks
\* begin in the middle of words (service.py:14-19).
WordsKeptWhole ==
  done /\ ShortWords =>
    \A w \in TextWords : \E i \in DOMAIN out : out[i].lo <= w.lo /\ w.hi <= out[i].hi

=============================================================================
