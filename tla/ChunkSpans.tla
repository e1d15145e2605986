------------------------------- MODULE ChunkSpans -------------------------------
(***************************************************************************)
(* memory/episodic/chunks.py: an entry is cut into spans of words that     *)
(* overlap, and the text around a chunk is rebuilt from its neighbours.    *)
(* One step per span; a word is what it costs.                             *)
(***************************************************************************)
EXTENDS Integers, Sequences

CONSTANTS Texts,  \* bound: the costs of the words of an entry
          Target, Overlap  \* CHUNK_TARGET_TOKENS, CHUNK_OVERLAP_TOKENS

ASSUME ChunkAssumption == Texts \subseteq Seq(Nat \ {0}) /\ Target \in Nat /\ Overlap \in Nat

VARIABLES words,   \* the costs of the words
          from,    \* the word the next span begins with, counted from 0
          spans    \* the spans so far, <<first, one past the last>>

chunkvars == <<words, from, spans>>

\* What the first n words cost, and the words from a to b, counted from 0.
Sums == LET first[n \in 0 .. Len(words)] == IF n = 0 THEN 0 ELSE first[n - 1] + words[n] IN first
Cost(a, b) == Sums[b] - Sums[a]
Greatest(S) == CHOOSE x \in S : \A y \in S : y <= x
Smallest(S) == CHOOSE x \in S : \A y \in S : x <= y

\* A span has one word, and more while they fit.
End(a) == Greatest({b \in a + 1 .. Len(words) : b = a + 1 \/ Cost(a, b) <= Target})

\* Mutant: the overlap may go back to the beginning of the span.
BackTo(a, b) == Smallest({c \in a .. b : Cost(c, b) <= Overlap})

\* The next span goes back over the words that fit the overlap, but not to the
\* first word of this one.
NextStart(a, b) == Smallest({c \in a + 1 .. b : Cost(c, b) <= Overlap})

ChunkInit == words \in Texts /\ from = 0 /\ spans = <<>>

Whole == IF words = <<>> THEN spans # <<>> ELSE spans # <<>> /\ spans[Len(spans)][2] = Len(words)

\* An entry without words has one empty span, and no chunk (chunk_records).
Empty == words = <<>> /\ ~Whole /\ spans' = <<<<0, 0>>>> /\ UNCHANGED <<words, from>>

Span ==
  /\ words # <<>> /\ ~Whole
  /\ spans' = Append(spans, <<from, End(from)>>)
  /\ from' = IF End(from) = Len(words) THEN from ELSE NextStart(from, End(from))
  /\ UNCHANGED words

ChunkNext == Empty \/ Span
ChunkSpec == ChunkInit /\ [][ChunkNext]_chunkvars

\* chunk_records: the chunks that are stored.
Records == {i \in 1 .. Len(spans) : spans[i][1] < spans[i][2]}

\* window_text: the words shown for the chunk a search found.
Clamp(i) == IF i > Len(spans) THEN Len(spans) ELSE IF i < 1 THEN 1 ELSE i
WindowText(i, radius) == <<spans[Clamp(i - radius)][1], spans[Clamp(i + radius)][2]>>

(* chunks.py:34-84: every span begins after the one before it and no later than
   its end, so that no word is lost and the cutting comes to an end (it may end
   where the one before it does, when the next word is too long for it); a span
   keeps to its size unless it is one word; what is shown for a chunk holds it. *)
SpansSound ==
  /\ \A i \in 1 .. Len(spans) :
       /\ i > 1 => spans[i - 1][1] < spans[i][1] /\ spans[i][1] <= spans[i - 1][2] /\ spans[i - 1][2] <= spans[i][2]
       /\ Cost(spans[i][1], spans[i][2]) > Target => spans[i][2] = spans[i][1] + 1
  /\ Whole => /\ spans[1][1] = 0 /\ (Records = {} <=> words = <<>>)
              /\ \A i \in Records : LET w == WindowText(i, 1) IN w[1] <= spans[i][1] /\ spans[i][2] <= w[2]
================================================================================
