---------------------------- MODULE SearchRanking ----------------------------
(***************************************************************************)
(* What search_pages and debug_search_pages of app/services/               *)
(* search_service.py make of the matches Pinecone returned, best first:    *)
(* one result per page, in the order of its score.  Both rank one          *)
(* namespace for one query: the search reads the SEARCH_TOP_K best         *)
(* matches, the trace as many as its caller asks for, and Pinecone is      *)
(* taken to return the same vectors in the same order however many it is   *)
(* asked for.                                                              *)
(***************************************************************************)
EXTENDS Integers, Sequences, SequencesExt

CONSTANTS
  Pages,      \* wp_post_ids
  NoPage,     \* the page of a match whose metadata has no wp_post_id
  Scores,     \* raw scores, numbers in parts of which Unit make 0.01
  Unit,       \* at least 1
  SearchTopK, \* SEARCH_TOP_K, at least 1
  MaxMatches, \* bound on the matches and on the top_k of a trace, at least 1
  MaxLimit    \* bound on the limit a caller may ask for, at least 1

(* Similarities may be negative; a caller asks for at least one page.      *)
ASSUME SearchAssumption ==
  /\ NoPage \notin Pages
  /\ Scores \subseteq Int /\ Unit \in Nat \ {0}
  /\ SearchTopK \in Nat \ {0}
  /\ MaxMatches \in Nat \ {0} /\ MaxLimit \in Nat \ {0}

VARIABLES
  matches,  \* the namespace as it ranks for the query: [page, score]
  limit,    \* limit of the search
  topK,     \* top_k of the trace
  at,       \* the match the dedup loops look at
  seen,     \* seen_pages in insertion order: [page, chunk, score], chunk a
            \*   position in matches, score rounded
  raised,   \* the search met a match without a wp_post_id: KeyError
  best      \* best_pos_by_page of the debug trace, in insertion order

searchVars == <<matches, limit, topK, at, seen, raised, best>>

-----------------------------------------------------------------------------
\* round(score, 2); ties are left to Scores, which has none.
Round(score) == ((2 * score + Unit) \div (2 * Unit)) * Unit

Entry(k) == [page |-> matches[k].page, chunk |-> k, score |-> Round(matches[k].score)]
Position(s, page) == {i \in DOMAIN s : s[i].page = page}

\* Mutant of Beats: the last chunk of a page wins.
BeatsAlways(k, entry) == TRUE

\* The raw score is compared with the rounded one that was kept.
Beats(k, entry) == matches[k].score > entry.score

Kept(k) ==
  LET old == Position(seen, matches[k].page)
  IN  IF old = {} THEN Append(seen, Entry(k))
      ELSE [i \in DOMAIN seen |->
              IF i \in old /\ Beats(k, seen[i]) THEN Entry(k) ELSE seen[i]]

\* Mutant of DebugBeats: the last chunk of a page wins.
DebugBeatsAlways(k, pos) == TRUE

DebugBeats(k, pos) == matches[k].score > matches[pos].score

DebugKept(k) ==
  LET old == {i \in DOMAIN best : matches[best[i]].page = matches[k].page}
  IN  IF old = {} THEN Append(best, k)
      ELSE [i \in DOMAIN best |->
              IF i \in old /\ DebugBeats(k, best[i]) THEN k ELSE best[i]]

Descending(ms) ==
  \A i, j \in DOMAIN ms : i < j => ms[i].score >= ms[j].score

Matches == [page : Pages \cup {NoPage}, score : Scores]

SearchInit ==
  /\ matches \in {ms \in SeqOf(Matches, MaxMatches) : Descending(ms)}
  /\ limit \in 1..MaxLimit
  /\ topK \in 1..MaxMatches
  /\ at = 1
  /\ seen = <<>> /\ best = <<>>
  /\ raised = FALSE

\* One turn of each loop, while it has matches.  A match without a page
\* ends the search and is passed over by the trace.
Look ==
  /\ at <= Len(matches)
  /\ raised' = (raised \/ (at <= SearchTopK /\ matches[at].page = NoPage))
  /\ seen' = IF at <= SearchTopK /\ ~raised' THEN Kept(at) ELSE seen
  /\ best' = IF at <= topK /\ matches[at].page # NoPage THEN DebugKept(at) ELSE best
  /\ at' = at + 1
  /\ UNCHANGED <<matches, limit, topK>>

SearchSpec == SearchInit /\ [][Look]_searchVars

\* Both loops are done, and the search answers.
AllSeen == at > Len(matches) /\ ~raised

-----------------------------------------------------------------------------
\* sorted(..., reverse=True) keeps the order of equal keys.
Before(key, i, j) == key[i] > key[j] \/ (key[i] = key[j] /\ i < j)

Order(key) ==
  CHOOSE p \in [DOMAIN key -> DOMAIN key] :
    \A i, j \in DOMAIN key : i < j => Before(key, p[i], p[j])

Ranked(s, key) == [i \in DOMAIN s |-> s[Order(key)[i]]]

RoundedScores == [i \in DOMAIN seen |-> seen[i].score]
RawScores == [i \in DOMAIN best |-> matches[best[i]].score]

Results == LET all == Ranked(seen, RoundedScores)
           IN  SubSeq(all, 1, IF limit < Len(all) THEN limit ELSE Len(all))
LiveRanks == Ranked(best, RawScores)

-----------------------------------------------------------------------------
Live == {k \in DOMAIN matches : k <= SearchTopK}

BestScore(page) ==
  CHOOSE score \in Scores :
    /\ \E k \in Live : matches[k] = [page |-> page, score |-> score]
    /\ \A k \in Live : matches[k].page = page => matches[k].score <= score

(* The results are the limit best pages of the SEARCH_TOP_K matches, each  *)
(* once, in the order of each page's best chunk, although pages are        *)
(* compared by rounded scores; and the chunk whose text is shown is its    *)
(* page's best, or one whose score rounds to the same.                     *)
RanksByBestChunk ==
  AllSeen =>
    /\ \A i, j \in DOMAIN Results : i < j =>
         /\ Results[i].page # Results[j].page
         /\ BestScore(Results[i].page) >= BestScore(Results[j].page)
    /\ \A i \in DOMAIN Results :
         Round(matches[Results[i].chunk].score) = Round(BestScore(Results[i].page))
    /\ \A k \in Live :
         \/ \E i \in DOMAIN Results : Results[i].page = matches[k].page
         \/ /\ Len(Results) = limit
            /\ \A i \in DOMAIN Results : BestScore(Results[i].page) >= matches[k].score

(* What the trace's live_rank says of a search, and what it does not.      *)
(* A rank up to the limit is the place of the page in the results if the   *)
(* chunk that has it is among the SEARCH_TOP_K best matches; if it is      *)
(* not, which takes a larger top_k, no search shows the page, whatever the *)
(* rank.  And a result the trace has a match of has its place as rank.     *)
LiveRankTrue ==
  AllSeen =>
    /\ \A i \in DOMAIN LiveRanks :
         IF LiveRanks[i] \in Live
         THEN i <= limit => /\ i \in DOMAIN Results
                            /\ Results[i].page = matches[LiveRanks[i]].page
         ELSE \A j \in DOMAIN Results : Results[j].page # matches[LiveRanks[i]].page
    /\ \A i \in DOMAIN Results :
         (\E k \in DOMAIN matches : k <= topK /\ matches[k].page = Results[i].page)
           => i \in DOMAIN LiveRanks /\ matches[LiveRanks[i]].page = Results[i].page
=============================================================================
