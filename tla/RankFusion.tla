------------------------------ MODULE RankFusion ------------------------------
(***************************************************************************)
(* Search over the memories (memory/search/hybrid.go, store/rrf.go,        *)
(* store/search.go, and the handlers of memory.query and memory.searchRRF).*)
(* PostgreSQL and the embedder give rankings of memories, or fail; what    *)
(* the code does is to fuse rankings by reciprocal ranks.  A score is a    *)
(* sum of 1/(k + rank), kept as an integer: times a common multiple of the *)
(* denominators.  Items of equal score may come in any order.              *)
(***************************************************************************)
EXTENDS Naturals, Sequences, FiniteSets, Functions

CONSTANTS
    Item,        \* memories a search may find
    RRFConstant, \* k of the searcher, 60 unless configured
    Scale,       \* what scores are multiplied by: a multiple of each k + rank
    Limit        \* limits a client may ask for

ASSUME RankFusionAssumption ==
    /\ IsFiniteSet(Item) /\ "failed" \notin Item
    /\ RRFConstant \in Nat \ {0}
    /\ Scale \in Nat \ {0}
    /\ \A rank \in 0..Cardinality(Item) : Scale % (RRFConstant + rank) = 0
    /\ Limit \subseteq Nat

VARIABLE search   \* the search being answered: its rankings, limit and answer

NoSearch   == [op |-> "none"]
SearchInit == search = NoSearch

Failed       == <<"failed">>
Rankings     == {r \in UNION {[1..n -> Item] : n \in 0..Cardinality(Item)} : IsInjective(r)}
FirstOf(n,r) == IF Len(r) > n THEN SubSeq(r, 1, n) ELSE r
Or10(n)      == IF n = 0 THEN 10 ELSE n

\* The queries of the store; a row that cannot be scanned is passed over.
QueryMemoriesByVector(topK) == {FirstOf(Or10(topK), r) : r \in Rankings} \cup {Failed}
SearchMemoriesText(topK)    == {FirstOf(Or10(topK), r) : r \in Rankings} \cup {Failed}
GetSimilar(topK)            == {FirstOf(Or10(topK), r) : r \in Rankings} \cup {Failed}

\* No row of memories_1024 can be scanned: its query selects eight columns, and
\* the scanner wants eighteen.
QueryMemories1024 == {<<>>, Failed}

-----------------------------------------------------------------------------
ItemsIn(lists)  == UNION {Range(lists[i]) : i \in DOMAIN lists}
Place(list, x)  == CHOOSE i \in DOMAIN list : list[i] = x

Reciprocal(rank) == Scale \div (RRFConstant + rank)

\* What a ranking adds to the score of x; of a column that found nothing, nothing.
Contribution(list, x, best) ==
    IF x \in Range(list) THEN Reciprocal(Place(list, x) - 1 + best) ELSE 0

Total(c) ==
    LET sum[n \in 0..Len(c)] == IF n = 0 THEN 0 ELSE sum[n - 1] + c[n]
    IN  sum[Len(c)]

\* A slip: the score of the last ranking in place of the sum.
LastScore(lists, best) ==
    [x \in ItemsIn(lists) |->
        LET i == CHOOSE i \in DOMAIN lists :
                    x \in Range(lists[i]) /\ \A j \in DOMAIN lists : x \in Range(lists[j]) => j <= i
        IN  Contribution(lists[i], x, best)]

\* The sums over the rankings.
Fused(lists, best) ==
    [x \in ItemsIn(lists) |->
        Total([i \in 1..Len(lists) |-> Contribution(lists[i], x, best)])]

\* In one the best rank is 1, in the other 0.
rrfMerge(lists)         == Fused(lists, 1)
rrfFuseMultiList(lists) == Fused(lists, 0)

Orderings(S) == {r \in [1..Cardinality(S) -> S] : IsInjective(r)}

\* sort.Slice by score: every order it may leave, cut to the limit.
Sorted(score, n) ==
    {FirstOf(n, r) : r \in {r \in Orderings(DOMAIN score) :
        \A i, j \in DOMAIN r : i < j => score[r[i]] >= score[r[j]]}}

\* If one search fails the other's ranking is the answer, as long as it is.
HybridSearch(v, t, topK) ==
    IF v = Failed THEN {t}
    ELSE IF t = Failed THEN {v}
    ELSE Sorted(rrfMerge(<<v, t>>), topK)

\* Only the wide rows.
gpuQuery == QueryMemories1024

\* Fused if there is more than one ranking; the third counts when it has rows.
autoQuery(v, t, wide, topK) ==
    LET Got(list)  == IF list = Failed THEN <<>> ELSE <<list>>
        Rows(list) == IF list = <<>> THEN <<>> ELSE Got(list)
        lists      == Got(v) \o Got(t) \o Rows(wide)
    IN  IF Len(lists) > 1 THEN Sorted(rrfFuseMultiList(lists), topK)
        ELSE {FirstOf(topK, IF v # Failed THEN v ELSE IF t # Failed THEN t ELSE <<>>)}

\* A column that no row fills is not embedded for, and one that has no vector is
\* passed over; the first failure ends the search.
RRFSearch(columns, topK) ==
    IF Failed \in Range(columns) THEN {Failed}
    ELSE Sorted(rrfMerge(columns), topK)

-----------------------------------------------------------------------------
SearchAnswer(op, lists, topK, result) ==
    search' = [op |-> op, lists |-> lists, topK |-> topK, result |-> result]

\* By the strategy of the options: the text alone, the vector alone, or both, three
\* times as many of each as are asked for.
QueryMemories(topK) ==
    \/ \E t \in SearchMemoriesText(topK) : SearchAnswer("list", <<>>, topK, t)
    \/ \E v \in QueryMemoriesByVector(topK) : SearchAnswer("list", <<>>, topK, v)
    \/ \E v \in QueryMemoriesByVector(3 * topK), t \in SearchMemoriesText(3 * topK) :
          \E r \in HybridSearch(v, t, topK) :
             SearchAnswer(IF Failed \in {v, t} THEN "list" ELSE "fused", <<v, t>>, topK, r)

\* HybridSearcher.Query, by the embedding mode of the searcher.
QueryByMode ==
    \E topK \in Limit :
       \/ \E r \in gpuQuery : SearchAnswer("list", <<>>, topK, r)
       \/ \E v \in QueryMemoriesByVector(topK + 5), t \in SearchMemoriesText(topK + 5),
             wide \in QueryMemories1024 :
             \E r \in autoQuery(v, t, wide, topK) :
                SearchAnswer(IF Failed \in {v, t} THEN "list" ELSE "fused", <<v, t>>, topK, r)

handleMemorySearchRRF ==
    \E topK \in Limit :
    \E a \in Rankings \cup {Failed}, b \in Rankings \cup {Failed} :
    \E r \in RRFSearch(<<a, b>>, Or10(topK)) :
       SearchAnswer(IF r = Failed THEN "list" ELSE "fused", <<a, b>>, Or10(topK), r)

handleMemoryQuery == \E topK \in Limit : QueryMemories(topK)

\* GetSimilar of the searcher.
SimilarMemories ==
    \E topK \in Limit : \E r \in GetSimilar(topK) : SearchAnswer("list", <<>>, topK, r)

\* The answer is written, and the loop takes the next request.
SearchReply ==
    /\ search # NoSearch
    /\ search' = NoSearch

\* One request at a time.
SearchRequest ==
    /\ search = NoSearch
    /\ \/ handleMemoryQuery
       \/ QueryByMode
       \/ handleMemorySearchRRF
       \/ SimilarMemories

SearchNext == SearchRequest \/ SearchReply

SearchSpec == SearchInit /\ [][SearchNext]_search

-----------------------------------------------------------------------------
SearchTypeOK ==
    search # NoSearch =>
        /\ search.op \in {"list", "fused"}
        /\ search.topK \in Nat
        /\ search.result \in Rankings \cup {Failed}

\* x is in every ranking y is in, and better placed in each.
Dominates(x, y) ==
    \A i \in DOMAIN search.lists :
       y \in Range(search.lists[i]) =>
          /\ x \in Range(search.lists[i])
          /\ Place(search.lists[i], x) < Place(search.lists[i], y)

\* A fused answer loses nothing to the fusion: it is as long as its limit and the
\* rankings allow, and whatever the ties, an item no answer should put behind
\* another, being better placed wherever the other is, is not put behind it, nor cut
\* off while the other stays (hybrid.go:193, :302, rrf.go:180).
FusionRespectsDominance ==
    search.op = "fused" =>
        LET r     == search.result
            found == ItemsIn(search.lists)
        IN  /\ Cardinality(Range(r)) = Len(r)
            /\ Range(r) \subseteq found
            /\ Len(r) = IF Cardinality(found) < search.topK THEN Cardinality(found) ELSE search.topK
            /\ \A y \in Range(r), x \in found :
                  Dominates(x, y) => x \in Range(r) /\ Place(r, x) < Place(r, y)
=============================================================================
