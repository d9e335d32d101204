------------------------------- MODULE Search -------------------------------
(***************************************************************************)
(* The hybrid search (services/search_service.py): two retrievals, their   *)
(* fusion by reciprocal ranks and an optional second ranking by a model.   *)
(* The engines are read one after the other, and the hits of the second    *)
(* are looked up in the first, while indexing adds and removes chunks.     *)
(*                                                                         *)
(* A chunk is a number, its place in the order of the chunk ids.  What the *)
(* engines find and how a model ranks is free; a ranking is a sequence of  *)
(* positions in the list given to it.                                      *)
(***************************************************************************)
EXTENDS Integers, Sequences, FiniteSets, SequencesExt

CONSTANTS
  Corpus,     \* the chunks
  Traits,     \* of each [repository, snapshot, language, path, type]
  Volatile,   \* those that indexing adds or removes meanwhile
  Queries,    \* what is asked: the traits that are wanted, and topK
  Settings,   \* how many candidates are taken: [multiplier, max, rerank]
  Outputs     \* what a ranking model may answer, sequences of numbers

ASSUME SearchAssumption ==
  /\ Corpus \subseteq Nat /\ IsFiniteSet(Corpus)
  /\ Volatile \subseteq Corpus
  /\ \A q \in Queries : q.topK \in Nat \ {0}
  /\ \A s \in Settings : /\ s.multiplier \in Nat \ {0} /\ s.max \in Nat \ {0}
                         /\ s.rerank \in Nat
  /\ \A a \in Outputs : Len(a) \in Nat /\ a \in [1 .. Len(a) -> Int]

VARIABLES
  documents,  \* the chunks in OpenSearch
  vectors,    \* the chunks in Qdrant
  query, settings,
  stage,      \* what the search does next
  keyword,    \* the hits of OpenSearch, best first
  nearest,    \* the hits of Qdrant
  fused,      \* the fusion of both
  results

asked == <<query, settings>>
stores == <<documents, vectors>>
searchVars == <<stores, asked, stage, keyword, nearest, fused, results>>

Smaller(m, n) == IF m <= n THEN m ELSE n
Larger(m, n) == IF m <= n THEN n ELSE m

RrfRankConstant == 60

\* What a search that raised returns.
Failed == <<-1>>
NoRanking == <<0>>      \* the model's answer was not a ranking, or none came

FirstOf(n, list) == SubSeq(list, 1, Smaller(n, Len(list)))

\* All of S in an order given by its pairs.
InOrder(S, order) ==
  CHOOSE s \in [1 .. Cardinality(S) -> S] :
    /\ ToSet(s) = S
    /\ \A i, j \in DOMAIN s : i < j => <<s[i], s[j]>> \in order

SearchInit ==
  /\ documents \in SUBSET Corpus
  /\ vectors \in SUBSET Corpus
  /\ query \in Queries
  /\ settings \in Settings
  /\ stage = "keyword"
  /\ keyword = <<>> /\ nearest = <<>> /\ fused = <<>> /\ results = <<>>

-----------------------------------------------------------------------------
\* Indexing and deleting, which hold no lock that a search takes.
StoresChange ==
  /\ stage \in {"keyword", "vector", "load"}
  /\ \E c \in Volatile :
       /\ documents' \in {documents \ {c}, documents \union {c}}
       /\ vectors' \in {vectors \ {c}, vectors \union {c}}
  /\ UNCHANGED <<asked, stage, keyword, nearest, fused, results>>

\* build_keyword_search_body, build_vector_filter: the same scope for both.
InScope(c) ==
  /\ Traits[c].repository \in query.repositories
  /\ Traits[c].snapshot \in query.snapshots
  /\ query.language \in {"", Traits[c].language}
  /\ IsPrefix(query.path, Traits[c].path)
  /\ query.type \in {"", Traits[c].type}

\* _create_candidate_query
CandidateCount == Smaller(query.topK * settings.multiplier, settings.max)

\* What an engine may find in its store, best first.
Hits(store) ==
  LET scope == {c \in store : InScope(c)}
  IN UNION {{s \in [1 .. n -> scope] : IsInjective(s)} : n \in 0 .. CandidateCount}

\* search_by_keywords reads the documents of the hits with them.
ReadKeywords ==
  /\ stage = "keyword"
  /\ keyword' \in Hits(documents)
  /\ stage' = "vector"
  /\ UNCHANGED <<stores, asked, nearest, fused, results>>

\* search_by_vector: the ids of the hits.
ReadVectors ==
  /\ stage = "vector"
  /\ nearest' \in Hits(vectors)
  /\ stage' = "load"
  /\ UNCHANGED <<stores, asked, keyword, fused, results>>

\* load_code_chunks_by_ids: a vector without its document fails the search.
LoadVectors ==
  /\ stage = "load"
  /\ IF ToSet(nearest) \subseteq documents
     THEN stage' = "fuse" /\ UNCHANGED results
     ELSE stage' = "done" /\ results' = Failed
  /\ UNCHANGED <<stores, asked, keyword, nearest, fused>>

-----------------------------------------------------------------------------
\* The two shares of a score, 1 / (60 + rank) or nothing, as a fraction.
Share(list, c) ==
  IF c \in ToSet(list)
  THEN <<1, RrfRankConstant + (CHOOSE i \in DOMAIN list : list[i] = c)>>
  ELSE <<0, 1>>

Score(c) ==
  LET k == Share(keyword, c)
      v == Share(nearest, c)
  IN <<k[1] * v[2] + v[1] * k[2], k[2] * v[2]>>

Better(c, d) ==
  LET s == Score(c)
      t == Score(d)
  IN \/ s[1] * t[2] > t[1] * s[2]
     \/ s[1] * t[2] = t[1] * s[2] /\ c < d

Found == ToSet(keyword) \union ToSet(nearest)

\* fuse_with_rrf; neither engine returns a chunk twice.
FuseResults ==
  /\ stage = "fuse"
  /\ fused' = FirstOf(Larger(query.topK, settings.rerank),
                      InOrder(Found, {p \in Found \X Found : Better(p[1], p[2])}))
  /\ stage' = "rank"
  /\ UNCHANGED <<stores, asked, keyword, nearest, results>>

\* ApiReranker: an answer is a ranking when it is a permutation.
ApiRanking(answer, n) ==
  IF Len(answer) = n /\ ToSet(answer) = 1 .. n THEN answer ELSE NoRanking

\* LocalReranker: by the scores, equal ones in the order of the fusion.
LocalRanking(scores, n) ==
  IF Len(scores) # n THEN NoRanking
  ELSE InOrder(1 .. n, {p \in (1 .. n) \X (1 .. n) :
                          \/ scores[p[1]] > scores[p[2]]
                          \/ scores[p[1]] = scores[p[2]] /\ p[1] < p[2]})

\* (faulty variant) what the model did not see is left out.
RerankSelected(candidates, topK, ranking) ==
  FirstOf(topK, [i \in DOMAIN ranking |-> candidates[ranking[i]]])

\* The rest of both, and NoopReranker with a count of 0: the ranked
\* candidates, then those that the model was not shown, up to topK.
Rerank(candidates, topK, ranking) ==
  FirstOf(topK, [i \in DOMAIN ranking |-> candidates[ranking[i]]])
    \o SubSeq(candidates, Len(ranking) + 1, Smaller(topK, Len(candidates)))

Shown == Smaller(settings.rerank, Len(fused))

\* Without a usable answer the fusion stands.
RankResults ==
  /\ stage = "rank"
  /\ \E answer \in Outputs :
       \E ranking \in {ApiRanking(answer, Shown), LocalRanking(answer, Shown)} :
         results' = IF fused = <<>> \/ ranking = NoRanking
                    THEN FirstOf(query.topK, fused)
                    ELSE Rerank(fused, query.topK, ranking)
  /\ stage' = "done"
  /\ UNCHANGED <<stores, asked, keyword, nearest, fused>>

SearchNext ==
  \/ StoresChange
  \/ ReadKeywords \/ ReadVectors \/ LoadVectors
  \/ FuseResults \/ RankResults

SearchSpec == SearchInit /\ [][SearchNext]_searchVars

-----------------------------------------------------------------------------
\* Before another one in a list: no chunk of the list comes before one that is
\* not in it.
Ahead(list, c, d) ==
  d \in ToSet(list) => \E i, j \in DOMAIN list : list[i] = c /\ list[j] = d /\ i < j

\* A search gives each chunk that either engine found once, topK of them when
\* there are so many, and a chunk that both engines put before another stays
\* before it in the fusion; whatever the second model answers, only the chunks
\* it was shown change places, so that which chunks are given does not depend on
\* it when it is shown no more than topK; and only a vector whose document went
\* between the two readings fails a search (search_service.py,
\* local_reranker.py:77 on candidate_count).
RankingIsWhole ==
  stage = "done" =>
    IF results = Failed THEN ~(ToSet(nearest) \subseteq documents)
    ELSE /\ Len(results) = Smaller(query.topK, Cardinality(Found))
         /\ IsInjective(results)
         /\ ToSet(results) \subseteq ToSet(fused) /\ ToSet(fused) \subseteq Found
         /\ \A i \in Shown + 1 .. Len(results) : results[i] = fused[i]
         /\ Shown <= query.topK => ToSet(results) = ToSet(FirstOf(query.topK, fused))
         /\ \A c \in Found, j \in DOMAIN fused :
              Ahead(keyword, c, fused[j]) /\ Ahead(nearest, c, fused[j]) =>
                \E i \in DOMAIN fused : fused[i] = c /\ i < j
=============================================================================
