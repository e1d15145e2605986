-------------------------------- MODULE Retrieval --------------------------------
(***************************************************************************)
(* One search of the episodic memory, from the candidates of each          *)
(* mechanism to what the model is shown: fusion (memory/result_merger.py), *)
(* boost, cross-encoder, the second wave of neighbours (memory/wave2.py),  *)
(* the cuts (memory/retrieval.py, memory/context_assembler.py) and the     *)
(* packing into the prompt (memory/l3_pack.py) or into the answer of the   *)
(* tool search_memory (tools/memory_tools.py).  An entry is its number; a  *)
(* result is an entry with a score, the mechanisms that found it, and the  *)
(* seed that pulled it in, if one did.                                     *)
(***************************************************************************)
EXTENDS Integers, FiniteSets, SequencesExt

CONSTANTS
  Entries,       \* how many entries are stored; each is known by its number
  Topic,         \* Topic[d]: the topic of its turn
  Size,          \* Size[d]: the tokens of its line
  Tiny,          \* entries with too few letters and digits
  Naming,        \* entries that hold the entities of the query
  Hits,          \* bound: what one mechanism may find, sequences of entries
  Logits,        \* bound: scores the cross-encoder may give
  Limit, TopK,   \* PREFETCH_MAX_RESULTS, RERANKER_TOP_K
  ToolLimit,     \* _LIMIT of search_memory
  Seeds, PerSeed, Window,  \* L3_WAVE2_*
  Significance,  \* L3_GAP_SIGNIFICANCE
  Budgets, Moments  \* bounds: tokens left for L3, moments a query or a call names (None: it names none)

Docs == 1 .. Entries

ASSUME RetrievalAssumption ==
  /\ Entries \in Nat /\ Size \in [Docs -> Nat \ {0}] /\ Hits \subseteq Seq(Docs) /\ Logits \subseteq Int
  /\ {Limit, TopK, ToolLimit, Seeds, PerSeed} \subseteq Nat /\ Budgets \subseteq Nat /\ Moments \subseteq Nat

VARIABLES rstage, groups, pool, fused, ranked, merged, prompt, listing

retvars == <<rstage, groups, pool, fused, ranked, merged, prompt, listing>>

--------------------------------------------------------------------------------
None == 0                                    \* no seed, no moment
Labels == {"semantic", "bm25", "temporal"}
Wave == "wave2"
Results == [doc : Docs, score : Int, mechanisms : (SUBSET Labels) \cup {{Wave}}, seed : 0 .. Entries]
Result(d, score, mechanisms, seed) == [doc |-> d, score |-> score, mechanisms |-> mechanisms, seed |-> seed]
Waves == {r \in Results : Wave \in r.mechanisms}
Originals == Results \ Waves
Dated == {r \in Results : "temporal" \in r.mechanisms}
DocsOf(results) == {r.doc : r \in ToSet(results)}
Top(s, n) == SubSeq(s, 1, IF Len(s) < n THEN Len(s) ELSE n)

\* A loop over s: step[v][x] is what item x makes of the value v.
Fold(s, first, step) ==
  LET f[n \in 0 .. Len(s)] == IF n = 0 THEN first ELSE step[f[n - 1]][s[n]]
  IN  f[Len(s)]

Only(s, S) == Fold(s, <<>>, [t \in Seq(Results) |-> [r \in Results |-> IF r \in S THEN Append(t, r) ELSE t]])
Tokens(s) == Fold(s, 0, [n \in Nat |-> [r \in Results |-> n + Size[r.doc]]])

\* list.sort, the greatest key first.  It is stable: equal keys keep their order.
Insert(t, r, key) == Only(t, {x \in Results : key[x] >= key[r]}) \o <<r>> \o Only(t, {x \in Results : key[x] < key[r]})
Sorted(s, key) == Fold(s, <<>>, [t \in Seq(Results) |-> [r \in Results |-> Insert(t, r, key)]])

ByScore == [r \in Results |-> r.score]
BestFirst(s) == Sorted(s, ByScore)

\* Entries with next to no text go before they are merged.
DropTiny(found) ==
  [m \in DOMAIN found |-> [found[m] EXCEPT !.hits = Only(@, {r \in Results : r.doc \notin Tiny})]]

\* 1 / (60 + rank), scaled to whole numbers for the first three ranks.
Scale == 61 * 62 * 63
Reciprocal(rank) == Scale \div (60 + rank)
MinScore == Scale \div 4      \* BLENDED_MIN_SCORE

\* What one more sight of an entry adds to the fused results: the first sight
\* brings the entry itself, each one its share of the score and its mechanism.
Sighted(results, sight) ==
  LET share == Reciprocal(sight.rank)
      Again(r) == [r EXCEPT !.score = @ + share, !.mechanisms = @ \cup {sight.label}]
  IN  IF sight.doc \in DocsOf(results)
      THEN [i \in DOMAIN results |-> IF results[i].doc = sight.doc THEN Again(results[i]) ELSE results[i]]
      ELSE Append(results, Result(sight.doc, share, {sight.label}, None))

\* Reciprocal rank fusion, one mechanism after the other.
Sights(g) == [k \in DOMAIN g.hits |-> [doc |-> g.hits[k].doc, rank |-> k, label |-> g.label]]
MergeResults(found) ==
  BestFirst(Fold(Sights(found[1]) \o Sights(found[2]) \o Sights(found[3]), <<>>,
                 [results \in Seq(Results) |-> [sight \in [doc : Docs, rank : Nat, label : Labels] |-> Sighted(results, sight)]]))

\* The weight of the boost, 0.2, is more than any fused score.
Boost == Scale \div 5
EntityBoost(results) ==
  BestFirst([i \in DOMAIN results |->
               IF results[i].doc \in Naming THEN [results[i] EXCEPT !.score = @ + Boost] ELSE results[i]])

\* The cross-encoder's scores replace the others; what is not scored is dropped.
Rerank(results, logit) ==
  BestFirst([i \in DOMAIN Top(results, TopK) |-> [results[i] EXCEPT !.score = logit[results[i].doc]]])

\* EpisodicMemory.neighbors
Distance(d, e) == IF d > e THEN d - e ELSE e - d
Store == [d \in Docs |-> Result(d, 0, {}, None)]
Neighbours(d) == Only(Store, {r \in Results : Topic[r.doc] = Topic[d] /\ Distance(r.doc, d) <= Window})

(* The second wave: neighbours of the best results that are no results
   themselves, the nearest ones, scored just below their seed.  A lookup may
   fail. *)
Pulled(results, seed) ==
  LET found == Only(Neighbours(seed.doc), {r \in Results : r.doc \notin DocsOf(results)})
      new == Top(Sorted(found, [r \in Results |-> -Distance(r.doc, seed.doc)]), PerSeed)
  IN  [k \in DOMAIN new |-> Result(new[k].doc, seed.score - k, {Wave}, seed.doc)]
AddNeighbours(results, failing) ==
  Fold(Top(results, Seeds), results,
       [acc \in Seq(Results) |-> [seed \in Results |-> IF seed.doc \in failing THEN acc ELSE acc \o Pulled(acc, seed)]])

\* _cap_keep_neighbours
SeededBy(s) == {r \in Waves : r.seed \in DocsOf(s)}
CapKeepNeighbours(results) ==
  LET kept == Top(Only(results, Originals), Limit)
  IN  IF Len(results) <= Limit THEN results ELSE kept \o Only(results, SeededBy(kept))

--------------------------------------------------------------------------------
\* Where the scores fall most steeply, if steeply enough; else all above a floor.
Gap(s, i) == s[i].score - s[i + 1].score
Steepest(s) == CHOOSE i \in 1 .. Len(s) - 1 :
                 /\ \A j \in 1 .. Len(s) - 1 : Gap(s, j) <= Gap(s, i)
                 /\ \A j \in 1 .. i - 1 : Gap(s, j) < Gap(s, i)
IsSteep(s) ==
  LET fall == s[1].score - s[Len(s)].score       \* the sum of the gaps
  IN  fall > 0 /\ Gap(s, Steepest(s)) * (Len(s) - 1) >= Significance * fall
AboveGap(s) ==
  IF Len(s) >= 3 /\ IsSteep(s) THEN SubSeq(s, 1, Steepest(s)) ELSE Only(s, {r \in Results : r.score >= MinScore})

(* blended_gap_filter: what the query's own date found is never cut, and a
   neighbour stays when its seed does. *)
Staying(originals) ==
  LET stays == DocsOf(AboveGap(originals)) \cup DocsOf(Only(originals, Dated))
  IN  {r \in Originals : r.doc \in stays} \cup {r \in Waves : r.seed \in stays}
GapFilter(s) ==
  LET originals == Only(s, Originals)
  IN  IF originals = <<>> THEN <<>> ELSE BestFirst(Only(s, Staying(originals)))

\* Mutant: what the date found is packed by its score.
PackOrderByScore(s, center) == s

(* pack_order: what the date found comes first, the nearest to the moment that
   was asked for, or the oldest when no moment is known. *)
Nearness(center) == [r \in Results |-> -(IF center = None THEN r.doc ELSE Distance(r.doc, center))]
PackOrder(s, center) == Sorted(Only(s, Dated), Nearness(center)) \o Only(s, Results \ Dated)

\* pack_lines: until the first line that does not fit, and never no line.
PackLines(s, budget, center) ==
  LET order == PackOrder(s, center)
      Fits(n) == \A k \in 2 .. n : Tokens(SubSeq(order, 1, k)) <= budget
  IN  SubSeq(order, 1, CHOOSE n \in 0 .. Len(order) : Fits(n) /\ (n = Len(order) \/ ~Fits(n + 1)))

\* fit_originals_first: neighbours get what the originals leave.
FitOriginalsFirst(s, budget, center) ==
  LET base == PackLines(Only(s, Originals), budget, center)
      Fit(acc, r) == IF r.seed \in DocsOf(base) /\ Tokens(acc) + Size[r.doc] <= budget THEN Append(acc, r) ELSE acc
      chosen == Fold(Only(s, Waves), base, [acc \in Seq(Results) |-> [r \in Results |-> Fit(acc, r)]])
  IN  Only(PackOrder(s, center), ToSet(chosen))

\* assemble_blocks, the part of L3.
Assemble(results, budget, center) ==
  IF budget = 0 \/ results = <<>> THEN <<>>
  ELSE FitOriginalsFirst(GapFilter(BestFirst(results)), budget, center)

\* The tool's own range of time, both ends in it; an entry's number is its time.
Within(results, after, before) ==
  Only(results, {r \in Results : (after = None \/ r.doc >= after) /\ (before = None \/ r.doc <= before)})

\* _with_seed_neighbours: each neighbour right after its seed.
WithSeedNeighbours(results, limit) ==
  LET originals == Top(Only(results, Originals), limit)
      Of(r) == {n \in Waves : n.seed = r.doc /\ n.doc \notin DocsOf(originals)}
  IN  Fold(originals, <<>>, [acc \in Seq(Results) |-> [r \in Results |-> Append(acc, r) \o Only(results, Of(r))]])

--------------------------------------------------------------------------------
RetrievalInit ==
  /\ rstage = "asked" /\ groups = <<>> /\ pool = <<>> /\ fused = <<>> /\ ranked = <<>> /\ merged = <<>>
  /\ prompt = <<>> /\ listing = <<>>

\* A mechanism that raises is left out, like one that finds nothing.
Group(label, hits) == [label |-> label, hits |-> [k \in DOMAIN hits |-> Store[hits[k]]]]
Gather ==
  /\ rstage = "asked" /\ rstage' = "found"
  /\ \E dense, lexical, dated \in Hits :
       groups' = <<Group("semantic", dense), Group("bm25", lexical), Group("temporal", dated)>>
  /\ UNCHANGED <<pool, fused, ranked, merged, prompt, listing>>

Fuse ==
  /\ rstage = "found" /\ rstage' = "fused"
  /\ pool' = Top(MergeResults(DropTiny(groups)), 2 * Limit)
  /\ fused' = EntityBoost(pool')
  /\ UNCHANGED <<groups, ranked, merged, prompt, listing>>

\* The reranker and the second wave, which needs it; without a reranker neither.
Rank ==
  /\ rstage = "fused" /\ rstage' = "ranked"
  /\ \/ /\ \E logit \in [DocsOf(Top(fused, TopK)) -> Logits] : ranked' = Rerank(fused, logit)
        /\ \E failing \in {{}, DocsOf(Top(ranked', 1))} :
             merged' = CapKeepNeighbours(AddNeighbours(ranked', failing))
     \/ ranked' = fused /\ merged' = CapKeepNeighbours(fused)
  /\ UNCHANGED <<groups, pool, fused, prompt, listing>>

\* A turn's prompt, or the answer of search_memory.
Show ==
  /\ rstage = "ranked" /\ rstage' = "shown"
  /\ \E budget \in Budgets, center \in Moments :
       prompt' = [tokens |-> budget, center |-> center, lines |-> Assemble(merged, budget, center)]
  /\ UNCHANGED <<groups, pool, fused, ranked, merged, listing>>

Tell ==
  /\ rstage = "ranked" /\ rstage' = "told"
  /\ \E after, before \in Moments :
       listing' = [after |-> after, before |-> before,
                   results |-> WithSeedNeighbours(Within(merged, after, before), ToolLimit)]
  /\ UNCHANGED <<groups, pool, fused, ranked, merged, prompt>>

RetrievalNext == Gather \/ Fuse \/ Rank \/ Show \/ Tell
RetrievalSpec == RetrievalInit /\ [][RetrievalNext]_retvars

--------------------------------------------------------------------------------
(* memory/l3_pack.py, tools/memory_tools.py: the second wave takes nothing from
   the first.  The originals in the prompt, and in the answer of the tool, are
   those of a retrieval without neighbours, in the same order. *)
WaveTakesNothing ==
  /\ rstage = "shown" =>
       Only(prompt.lines, Originals) = Assemble(CapKeepNeighbours(ranked), prompt.tokens, prompt.center)
  /\ rstage = "told" =>
       Only(listing.results, Originals)
         = Top(Within(CapKeepNeighbours(ranked), listing.after, listing.before), ToolLimit)

\* The entries that a mechanism found and that have text enough.
FoundDocs == (UNION {DocsOf(groups[m].hits) : m \in DOMAIN groups}) \ Tiny

(* memory/retrieval.py:50-63, 120, 171; memory/reranker.py:85: what was found,
   by its date or otherwise, is lost before it is packed only to a cut that is
   full.  It may be lost there whatever found it: the cuts go by score. *)
CutWhenFull ==
  rstage \notin {"asked", "found", "fused"} =>
    LET originals == Only(merged, Originals)
    IN  FoundDocs \subseteq DocsOf(originals) \/ Len(originals) \in {Limit, TopK}

\* A neighbour is shown only with its seed, and nothing is shown twice.
SeedsAndOnce(s) ==
  /\ \A r \in ToSet(s) : r \in Waves => r.seed \in DocsOf(Only(s, Originals))
  /\ Cardinality(DocsOf(s)) = Len(s)

(* memory/wave2.py:5-9, context_assembler.py:181-189: a neighbour is shown only
   with its seed, nothing is shown twice, the lines keep to the budget unless
   there is only one, and of what the named date found and the cuts before left,
   only want of room leaves out any: then nothing else is shown, and nothing
   nearer to the moment is missing. *)
PromptIsSound ==
  /\ rstage = "shown" =>
       /\ SeedsAndOnce(prompt.lines)
       /\ Len(prompt.lines) > 1 => Tokens(prompt.lines) <= prompt.tokens
       /\ \A lost \in (ToSet(merged) \cap Dated) \ ToSet(prompt.lines) :
            \A r \in ToSet(prompt.lines) :
              /\ r \in Dated \cup Waves
              /\ prompt.center # None /\ r \in Dated =>
                   Distance(r.doc, prompt.center) <= Distance(lost.doc, prompt.center)
  /\ rstage = "told" =>
       LET answer == listing.results
       IN  /\ SeedsAndOnce(answer)
           /\ \A i \in DOMAIN answer : answer[i] \in Waves =>
                answer[i].seed \in {answer[i - 1].doc, answer[i - 1].seed}

\* What retrieval puts before the model is sound in itself, the second wave only
\* ever adds to it, and no cut loses what there was room for.
RetrievalSound == WaveTakesNothing /\ CutWhenFull /\ PromptIsSound
================================================================================
