------------------------ MODULE SearchRanking_proofs ------------------------
(***************************************************************************)
(* Proofs about SearchRanking, for any pages, scores, rounding, number of  *)
(* matches, limit and both top_ks: what search_pages shows, and what the   *)
(* trace of debug_search_pages tells of the place a page has there.        *)
(***************************************************************************)
EXTENDS SearchRanking, FiniteSetTheorems, TLAPS

-----------------------------------------------------------------------------
(* Rounding.                                                               *)

\* What division gives: the multiple of d at or below a.
LEMMA Division ==
  ASSUME NEW a \in Int, NEW d \in Nat \ {0}
  PROVE  /\ a \div d \in Int
         /\ d * (a \div d) <= a
         /\ a < d * (a \div d) + d
<1>1. a \div d \in Int /\ a % d \in 0..(d - 1) /\ a = d * (a \div d) + (a % d)
  BY SMT
<1> DEFINE q == a \div d
           r == a % d
<1>2. q \in Int /\ r \in 0..(d - 1) /\ a = d * q + r
  BY <1>1
<1> HIDE DEF q, r
<1>3. d * q <= a /\ a < d * q + d
  BY <1>2
<1> QED
  BY <1>2, <1>3 DEF q

\* Multiplying by a natural number keeps the order.
LEMMA Scaled ==
  ASSUME NEW d \in Nat, NEW x \in Int, NEW y \in Int, x <= y
  PROVE  d * x <= d * y
<1>1. d * (y - x) >= 0
  BY SMT
<1>2. d * (y - x) = d * y - d * x
  BY SMT
<1> QED
  BY <1>1, <1>2

\* Of all multiples of d that are not above a, division gives the greatest.
LEMMA GreatestMultiple ==
  ASSUME NEW a \in Int, NEW d \in Nat \ {0}, NEW m \in Int, d * m <= a
  PROVE  m <= a \div d
<1> DEFINE q == a \div d
<1>1. q \in Int /\ a < d * q + d
  BY Division
<1> HIDE DEF q
<1>2. SUFFICES ASSUME q < m
               PROVE  FALSE
  BY <1>1 DEF q
<1>3. d * (q + 1) <= d * m
  BY <1>1, <1>2, Scaled
<1>4. d * (q + 1) = d * q + d
  BY <1>1, SMT
<1>5. d * q \in Int /\ d * m \in Int
  BY <1>1
<1> QED
  BY <1>1, <1>3, <1>4, <1>5

\* The rounded score is the multiple of Unit nearest to the score.
LEMMA RoundMultiple ==
  ASSUME NEW x \in Int
  PROVE  \E q \in Int : /\ q = (2 * x + Unit) \div (2 * Unit)
                        /\ Round(x) = q * Unit /\ Round(x) \in Int
                        /\ 2 * (q * Unit) <= 2 * x + Unit
<1> DEFINE d == 2 * Unit
           q == (2 * x + Unit) \div d
<1>1. d \in Nat \ {0} /\ 2 * x + Unit \in Int /\ Unit \in Nat
  BY SearchAssumption
<1>2. q \in Int /\ d * q <= 2 * x + Unit
  BY <1>1, Division
<1> HIDE DEF q
<1>3. d * q = 2 * (q * Unit) /\ q * Unit \in Int
  BY <1>1, <1>2, SMT
<1>4. Round(x) = q * Unit
  BY DEF Round, q
<1> QED
  BY <1>2, <1>3, <1>4 DEF q

\* Rounding keeps the order of scores.
LEMMA RoundMonotone ==
  ASSUME NEW x \in Int, NEW y \in Int, x <= y
  PROVE  Round(x) <= Round(y)
<1>1. PICK q \in Int : /\ Round(x) = q * Unit
                       /\ 2 * (q * Unit) <= 2 * x + Unit
  BY RoundMultiple
<1>2. PICK r \in Int : r = (2 * y + Unit) \div (2 * Unit) /\ Round(y) = r * Unit
  BY RoundMultiple
<1>3. Unit \in Nat /\ 2 * Unit \in Nat \ {0} /\ 2 * y + Unit \in Int
  BY SearchAssumption
<1>4. (2 * Unit) * q = 2 * (q * Unit) /\ q * Unit \in Int
  BY <1>1, <1>3, SMT
<1>5. (2 * Unit) * q <= 2 * y + Unit
  BY <1>1, <1>3, <1>4
<1>6. q <= r
  BY <1>2, <1>3, <1>5, GreatestMultiple
<1>7. Unit * q <= Unit * r /\ Unit * q = q * Unit /\ Unit * r = r * Unit
  BY <1>3, <1>6, Scaled
<1> QED
  BY <1>1, <1>2, <1>7

\* A score above a rounded one does not round to less.
LEMMA RoundAbove ==
  ASSUME NEW x \in Int, NEW y \in Int, x > Round(y)
  PROVE  Round(x) >= Round(y)
<1>1. PICK q \in Int : Round(y) = q * Unit /\ Round(y) \in Int
  BY RoundMultiple
<1>2. PICK r \in Int : r = (2 * x + Unit) \div (2 * Unit) /\ Round(x) = r * Unit
  BY RoundMultiple
<1>3. Unit \in Nat /\ 2 * Unit \in Nat \ {0} /\ 2 * x + Unit \in Int
  BY SearchAssumption
<1>4. (2 * Unit) * q = 2 * (q * Unit) /\ q * Unit \in Int
  BY <1>1, <1>3, SMT
<1>5. (2 * Unit) * q <= 2 * x + Unit
  BY <1>1, <1>3, <1>4
<1>6. q <= r
  BY <1>2, <1>3, <1>5, GreatestMultiple
<1>7. Unit * q <= Unit * r /\ Unit * q = q * Unit /\ Unit * r = r * Unit
  BY <1>3, <1>6, Scaled
<1> QED
  BY <1>1, <1>2, <1>7

-----------------------------------------------------------------------------
(* Sorting.                                                                *)

\* A strictly growing function on 1..n with values in 1..n leaves all alone.
LEMMA GrowingIsIdentity ==
  ASSUME NEW n \in Nat, NEW p \in [1..n -> 1..n],
         \A i, j \in 1..n : i < j => p[i] < p[j],
         NEW i \in 1..n
  PROVE  p[i] = i
<1>1. p[i] >= i
  <2> DEFINE f == [k \in 1..i |-> p[k]]
  <2>1. f \in Injection(1..i, 1..p[i])
    <3>1. \A k \in 1..i : f[k] \in 1..p[i]
      OBVIOUS
    <3>2. \A k, m \in 1..i : f[k] = f[m] => k = m
      OBVIOUS
    <3> QED
      BY <3>1, <3>2 DEF Injection, IsInjective
  <2>2. /\ IsFiniteSet(1..p[i])
        /\ Cardinality(1..i) = i /\ Cardinality(1..p[i]) = p[i]
    <3>1. 1 \in Int /\ i \in Int /\ p[i] \in Int /\ i >= 1 /\ p[i] >= 1
      OBVIOUS
    <3> QED
      BY <3>1, FS_Interval
  <2>3. Cardinality(1..i) <= Cardinality(1..p[i])
    BY <2>1, <2>2, FS_Injection
  <2> QED
    BY <2>2, <2>3
<1>2. p[i] <= i
  <2> DEFINE f == [k \in i..n |-> p[k]]
  <2>1. f \in Injection(i..n, p[i]..n)
    <3>1. \A k \in i..n : f[k] \in p[i]..n
      OBVIOUS
    <3>2. \A k, m \in i..n : f[k] = f[m] => k = m
      OBVIOUS
    <3> QED
      BY <3>1, <3>2 DEF Injection, IsInjective
  <2>2. /\ IsFiniteSet(p[i]..n)
        /\ Cardinality(i..n) = n - i + 1 /\ Cardinality(p[i]..n) = n - p[i] + 1
    <3>1. n \in Int /\ i \in Int /\ p[i] \in Int /\ i <= n /\ p[i] <= n
      OBVIOUS
    <3> QED
      BY <3>1, FS_Interval
  <2>3. Cardinality(i..n) <= Cardinality(p[i]..n)
    BY <2>1, <2>2, FS_Injection
  <2> QED
    BY <2>2, <2>3
<1> QED
  BY <1>1, <1>2

\* A stable sort does not move what is in order already.
LEMMA AlreadySorted ==
  ASSUME NEW n \in Nat, NEW key \in [1..n -> Int],
         \A i, j \in 1..n : i < j => key[i] >= key[j]
  PROVE  \A i \in 1..n : Order(key)[i] = i
<1> DEFINE Sorts(p) == \A i, j \in 1..n : i < j => Before(key, p[i], p[j])
           same == [i \in 1..n |-> i]
<1>1. same \in [1..n -> 1..n] /\ Sorts(same)
  BY DEF Before
<1>2. Order(key) = CHOOSE p \in [1..n -> 1..n] : Sorts(p)
  BY DEF Order
<1>3. Order(key) \in [1..n -> 1..n] /\ Sorts(Order(key))
  <2> HIDE DEF Sorts, same
  <2> QED
    BY <1>1, <1>2
<1> DEFINE p == Order(key)
<1>4. p \in [1..n -> 1..n] /\ Sorts(p)
  BY <1>3
<1> HIDE DEF p
<1>5. \A i, j \in 1..n : i < j => p[i] < p[j]
  BY <1>4 DEF Before
<1>6. \A i \in 1..n : p[i] = i
  BY <1>4, <1>5, GrowingIsIdentity
<1> QED
  BY <1>6 DEF p

\* Nor is a sequence ranked by such keys any other.
LEMMA RankedIsSame ==
  ASSUME NEW S, NEW s \in Seq(S), NEW key \in [DOMAIN s -> Int],
         \A i, j \in DOMAIN s : i < j => key[i] >= key[j]
  PROVE  Ranked(s, key) = s
<1>1. Len(s) \in Nat /\ DOMAIN s = 1..Len(s)
  OBVIOUS
<1>2. \A i \in DOMAIN s : Order(key)[i] = i
  BY <1>1, AlreadySorted
<1>3. s = [i \in DOMAIN s |-> s[i]]
  OBVIOUS
<1> QED
  BY <1>2, <1>3 DEF Ranked

-----------------------------------------------------------------------------
(* The invariant of the loops.  Matches come best first, so the positions  *)
(* where a page is met for the first time, in f, list the pages in the     *)
(* order of their best scores.  Each loop has followed f as far as its     *)
(* own top_k goes: the trace keeps these positions, the search keeps a     *)
(* chunk of the page whose score rounds to the same.                       *)
Chunks == [page : Pages, chunk : DOMAIN matches, score : Int]

Typed ==
  /\ matches \in Seq(Matches) /\ Descending(matches)
  /\ limit \in 1..MaxLimit /\ topK \in 1..MaxMatches
  /\ at \in 1..(Len(matches) + 1)
  /\ best \in Seq(DOMAIN matches)
  /\ seen \in Seq(Chunks)
  /\ raised \in BOOLEAN

\* The first match of its page.
First(k) == \A j \in DOMAIN matches : matches[j].page = matches[k].page => k <= j

\* f lists the first matches of the pages met so far.
Follows(f) ==
  /\ \A i \in DOMAIN f : f[i] < at /\ First(f[i]) /\ matches[f[i]].page \in Pages
  /\ \A i, j \in DOMAIN f : i < j => f[i] < f[j]
  /\ \A k \in DOMAIN matches :
       k < at /\ matches[k].page # NoPage
         => \E i \in DOMAIN f : matches[f[i]].page = matches[k].page

\* The trace has those within topK.
Traced(f) ==
  /\ \A i \in DOMAIN best : i \in DOMAIN f /\ best[i] = f[i]
  /\ \A i \in DOMAIN f : f[i] <= topK => i \in DOMAIN best
  /\ \A i \in DOMAIN best : f[i] <= topK

\* An entry of the search is of the page first met at position k.
ShowsPage(entry, k) ==
  /\ entry.page = matches[k].page
  /\ entry.score = Round(matches[k].score)
  /\ matches[entry.chunk].page = entry.page
  /\ Round(matches[entry.chunk].score) = entry.score

\* The search has those within SEARCH_TOP_K, unless it has raised.
Shown(f) ==
  /\ \A i \in DOMAIN seen : i \in DOMAIN f /\ f[i] <= SearchTopK /\ ShowsPage(seen[i], f[i])
  /\ ~raised =>
       /\ \A i \in DOMAIN f : f[i] <= SearchTopK => i \in DOMAIN seen
       /\ \A k \in DOMAIN matches : k < at /\ k <= SearchTopK => matches[k].page # NoPage

With(f) == Follows(f) /\ Traced(f) /\ Shown(f)

Inv == Typed /\ \E f \in Seq(DOMAIN matches) : With(f)

\* The loops begin with nothing seen.
LEMMA InvInit == SearchInit => Inv
<1> SUFFICES ASSUME SearchInit
             PROVE  Inv
  OBVIOUS
<1>1. PICK m \in 0..MaxMatches : matches \in [1..m -> Matches]
  BY DEF SearchInit, SeqOf
<1>2. matches \in Seq(Matches) /\ Len(matches) = m /\ m \in Nat
  BY <1>1, SearchAssumption
<1>3. /\ Descending(matches) /\ limit \in 1..MaxLimit /\ topK \in 1..MaxMatches
      /\ at = 1 /\ seen = <<>> /\ best = <<>> /\ raised = FALSE
  BY DEF SearchInit
<1>4. Typed
  <2>1. seen \in Seq(Chunks) /\ best \in Seq(DOMAIN matches)
    BY <1>3
  <2>2. at \in 1..(Len(matches) + 1)
    BY <1>2, <1>3
  <2> QED
    BY <1>2, <1>3, <2>1, <2>2 DEF Typed
<1>5. With(<<>>)
  <2>1. DOMAIN best = {} /\ DOMAIN seen = {} /\ DOMAIN <<>> = {}
    BY <1>3
  <2>2. \A k \in DOMAIN matches : ~(k < at)
    BY <1>2, <1>3
  <2> QED
    BY <2>1, <2>2 DEF With, Follows, Traced, Shown
<1>6. <<>> \in Seq(DOMAIN matches)
  OBVIOUS
<1> QED
  BY <1>4, <1>5, <1>6 DEF Inv

\* A match has a page, or none, and a score, and scores only fall.
LEMMA MatchFacts ==
  ASSUME Typed
  PROVE  /\ DOMAIN matches = 1..Len(matches) /\ Len(matches) \in Nat
         /\ \A k \in DOMAIN matches : /\ matches[k].page # NoPage => matches[k].page \in Pages
                                      /\ matches[k].score \in Scores /\ matches[k].score \in Int
         /\ \A j, k \in DOMAIN matches : j <= k => matches[j].score >= matches[k].score
<1>1. DOMAIN matches = 1..Len(matches) /\ Len(matches) \in Nat
  BY DEF Typed
<1>2. \A k \in DOMAIN matches : matches[k] \in Matches
  BY DEF Typed
<1>3. \A k \in DOMAIN matches : /\ matches[k].page # NoPage => matches[k].page \in Pages
                                /\ matches[k].score \in Scores /\ matches[k].score \in Int
  BY <1>2, SearchAssumption DEF Matches
<1>4. ASSUME NEW j \in DOMAIN matches, NEW k \in DOMAIN matches, j <= k
      PROVE  matches[j].score >= matches[k].score
  <2>1. CASE j = k
    BY <2>1, <1>3
  <2>2. CASE j < k
    BY <2>2 DEF Typed, Descending
  <2> QED
    BY <1>1, <1>4, <2>1, <2>2
<1> QED
  BY <1>1, <1>3, <1>4

\* The dictionaries are sequences of positions and of chunks.
LEMMA DictionaryFacts ==
  ASSUME Typed
  PROVE  /\ DOMAIN best = 1..Len(best) /\ Len(best) \in Nat
         /\ DOMAIN seen = 1..Len(seen) /\ Len(seen) \in Nat
         /\ \A i \in DOMAIN best : best[i] \in DOMAIN matches
         /\ \A i \in DOMAIN seen : seen[i] \in Chunks
         /\ best = [i \in DOMAIN best |-> best[i]]
<1> DEFINE D == DOMAIN matches
<1>1. best \in Seq(D) /\ seen \in Seq(Chunks)
  BY DEF Typed
<1> HIDE DEF D
<1> QED
  BY <1>1 DEF D

\* So is f, whose positions are numbers.
LEMMA FollowFacts ==
  ASSUME Typed, NEW f \in Seq(DOMAIN matches)
  PROVE  /\ DOMAIN f = 1..Len(f) /\ Len(f) \in Nat
         /\ \A i \in DOMAIN f : f[i] \in DOMAIN matches /\ f[i] \in Nat
         /\ DOMAIN matches \subseteq Nat /\ at \in Nat /\ topK \in Nat /\ SearchTopK \in Nat
<1> DEFINE D == DOMAIN matches
<1>1. D \subseteq Nat
  BY MatchFacts
<1>2. at \in Nat /\ topK \in Nat /\ SearchTopK \in Nat
  BY MatchFacts, SearchAssumption DEF Typed
<1> HIDE DEF D
<1>3. f \in Seq(D)
  BY DEF D
<1> QED
  BY <1>1, <1>2, <1>3 DEF D

\* What a turn of the loops starts from.
LEMMA TurnFacts ==
  ASSUME Typed, Look
  PROVE  /\ at \in DOMAIN matches /\ at' = at + 1 /\ UNCHANGED <<matches, limit, topK>>
         /\ at' \in 1..(Len(matches) + 1) /\ raised' \in BOOLEAN
         /\ raised \/ (at <= SearchTopK /\ matches[at].page = NoPage) <=> raised'
<1>1. at \in DOMAIN matches /\ at' = at + 1 /\ UNCHANGED <<matches, limit, topK>>
      /\ at' \in 1..(Len(matches) + 1)
  BY MatchFacts DEF Typed, Look
<1>2. raised' = (raised \/ (at <= SearchTopK /\ matches[at].page = NoPage))
  BY DEF Look
<1>3. raised' \in BOOLEAN
  BY <1>2
<1>4. raised \/ (at <= SearchTopK /\ matches[at].page = NoPage) <=> raised'
  BY <1>2
<1> QED
  BY <1>1, <1>3, <1>4

\* What an entry of the dictionary is for the match at hand.
LEMMA EntryFacts ==
  ASSUME Typed, at \in DOMAIN matches, matches[at].page # NoPage
  PROVE  Entry(at) \in Chunks /\ ShowsPage(Entry(at), at)
<1>1. matches[at].page \in Pages /\ Round(matches[at].score) \in Int
  BY MatchFacts, RoundMultiple
<1> QED
  BY <1>1 DEF Entry, Chunks, ShowsPage

\* A match without a page changes neither dictionary.
LEMMA PassedOver ==
  ASSUME Typed, Look, NEW f \in Seq(DOMAIN matches), With(f), matches[at].page = NoPage
  PROVE  Inv'
<1>1. UNCHANGED <<seen, best>>
  BY DEF Look
<1> USE <1>1, TurnFacts, FollowFacts
<1>2. Typed'
  BY DEF Typed, Descending, Chunks
<1>3. Follows(f)'
  <2>1. \A i \in DOMAIN f : (f[i] < at /\ First(f[i]) /\ matches[f[i]].page \in Pages)'
    BY DEF With, Follows, First
  <2> QED
    BY <2>1 DEF With, Follows
<1>4. Traced(f)'
  BY DEF With, Traced
<1>5. Shown(f)'
  BY DEF With, Shown, ShowsPage, Round
<1> QED
  BY <1>2, <1>3, <1>4, <1>5 DEF Inv, With

\* A page that was not met before enters the dictionaries at their ends.
LEMMA NewPage ==
  ASSUME Typed, Look, NEW f \in Seq(DOMAIN matches), With(f), matches[at].page # NoPage,
         \A i \in DOMAIN f : matches[f[i]].page # matches[at].page
  PROVE  Inv'
<1> DEFINE n == Len(f)
<1>1. /\ at \in DOMAIN matches /\ at' = at + 1 /\ UNCHANGED <<matches, limit, topK>>
      /\ DOMAIN f = 1..n /\ n \in Nat /\ at \in Nat /\ topK \in Nat /\ SearchTopK \in Nat
      /\ \A i \in DOMAIN f : f[i] \in DOMAIN matches /\ f[i] \in Nat
      /\ DOMAIN matches \subseteq Nat
  BY TurnFacts, FollowFacts
<1>2. PICK g : g = Append(f, at)
  OBVIOUS
<1>3. /\ g \in Seq(DOMAIN matches) /\ DOMAIN g = 1..(n + 1) /\ g[n + 1] = at
      /\ \A i \in 1..n : g[i] = f[i]
  <2> DEFINE D == DOMAIN matches
  <2>1. f \in Seq(D) /\ at \in D
    BY <1>1
  <2> HIDE DEF D
  <2>2. g \in Seq(D) /\ DOMAIN g = 1..(n + 1) /\ g[n + 1] = at /\ \A i \in 1..n : g[i] = f[i]
    BY <1>2, <2>1
  <2> QED
    BY <2>2 DEF D
<1>4. \A i \in 1..n : f[i] < at
  BY <1>1 DEF With, Follows
<1>5. Follows(g)'
  <2>1. First(at)
    <3> SUFFICES ASSUME NEW j \in DOMAIN matches, matches[j].page = matches[at].page, j < at
                 PROVE  FALSE
      BY <1>1 DEF First
    <3> QED
      BY DEF With, Follows
  <2>2. ASSUME NEW i \in DOMAIN g
        PROVE  (g[i] < at /\ First(g[i]) /\ matches[g[i]].page \in Pages)'
    <3>1. CASE i \in 1..n
      BY <1>1, <1>3, <3>1 DEF With, Follows, First
    <3>2. CASE i = n + 1
      BY <1>1, <1>3, <2>1, <3>2, MatchFacts DEF First
    <3> QED
      BY <1>1, <1>3, <3>1, <3>2
  <2>3. ASSUME NEW i \in DOMAIN g, NEW j \in DOMAIN g, i < j
        PROVE  g[i] < g[j]
    <3>1. CASE j \in 1..n
      <4>1. i \in 1..n /\ g[i] = f[i] /\ g[j] = f[j]
        BY <1>1, <1>3, <2>3, <3>1
      <4> QED
        BY <1>1, <2>3, <3>1, <4>1 DEF With, Follows
    <3>2. CASE j = n + 1
      BY <1>1, <1>3, <1>4, <2>3, <3>2
    <3> QED
      BY <1>1, <1>3, <3>1, <3>2
  <2>4. ASSUME NEW m \in DOMAIN matches, m < at', matches[m].page # NoPage
        PROVE  \E i \in DOMAIN g : matches[g[i]].page = matches[m].page
    <3>1. CASE m < at
      <4>1. PICK i \in DOMAIN f : matches[f[i]].page = matches[m].page
        BY <2>4, <3>1 DEF With, Follows
      <4> QED
        BY <1>1, <1>3, <4>1
    <3>2. CASE m = at
      BY <1>1, <1>3, <3>2
    <3> QED
      BY <1>1, <2>4, <3>1, <3>2
  <2> QED
    BY <1>1, <2>2, <2>3, <2>4 DEF Follows
<1>6. best' \in Seq(DOMAIN matches) /\ Traced(g)'
  <2>1. CASE at <= topK
    <3>1. DOMAIN best = 1..n /\ \A i \in 1..n : best[i] = f[i]
      <4>1. \A i \in 1..n : f[i] <= topK
        BY <1>1, <1>4, <2>1
      <4>2. \A i : i \in DOMAIN best <=> i \in 1..n
        BY <1>1, <4>1 DEF With, Traced
      <4> QED
        BY <4>2 DEF With, Traced
    <3>2. {i \in DOMAIN best : matches[best[i]].page = matches[at].page} = {}
      BY <1>1, <3>1
    <3>3. best' = Append(best, at)
      BY <2>1, <3>2 DEF Look, DebugKept
    <3>4. Len(best) = n
      BY <1>1, <3>1, DictionaryFacts
    <3>5. /\ best' \in Seq(DOMAIN matches) /\ DOMAIN best' = 1..(n + 1) /\ best'[n + 1] = at
          /\ \A i \in 1..n : best'[i] = f[i]
      <4> DEFINE D == DOMAIN matches
      <4>1. best \in Seq(D) /\ at \in D
        BY <1>1 DEF Typed
      <4> HIDE DEF D
      <4>2. /\ best' \in Seq(D) /\ DOMAIN best' = 1..(n + 1) /\ best'[n + 1] = at
            /\ \A i \in 1..n : best'[i] = f[i]
        BY <3>1, <3>3, <3>4, <4>1
      <4> QED
        BY <4>2 DEF D
    <3>6. \A i \in DOMAIN g : best'[i] = g[i] /\ g[i] <= topK
      <4>1. ASSUME NEW i \in 1..n
            PROVE  best'[i] = g[i] /\ g[i] <= topK
        BY <1>1, <1>3, <1>4, <2>1, <3>5
      <4>2. best'[n + 1] = g[n + 1] /\ g[n + 1] <= topK
        BY <1>3, <2>1, <3>5
      <4>3. \A i \in DOMAIN g : i \in 1..n \/ i = n + 1
        BY <1>1, <1>3
      <4> QED
        BY <4>1, <4>2, <4>3
    <3> QED
      BY <1>1, <1>3, <3>5, <3>6 DEF Traced
  <2>2. CASE ~(at <= topK)
    <3>1. best' = best
      BY <2>2 DEF Look
    <3>2. \A i \in DOMAIN best : i \in 1..n
      BY <1>1 DEF With, Traced
    <3> QED
      <4>1. \A i \in DOMAIN best : i \in DOMAIN g /\ best[i] = g[i] /\ g[i] <= topK
        BY <1>1, <1>3, <3>2 DEF With, Traced
      <4>2. ASSUME NEW i \in DOMAIN g, g[i] <= topK
            PROVE  i \in DOMAIN best
        <5>1. i # n + 1
          BY <1>1, <1>3, <2>2, <4>2
        <5>2. i \in 1..n /\ g[i] = f[i]
          BY <1>1, <1>3, <5>1
        <5> QED
          BY <1>1, <4>2, <5>2 DEF With, Traced
      <4> QED
        BY <1>1, <3>1, <4>1, <4>2 DEF Traced, Typed
  <2> QED
    BY <2>1, <2>2
<1>7. seen' \in Seq(Chunks) /\ Shown(g)'
  <2>1. CASE at <= SearchTopK /\ ~raised'
    <3>0. ~raised
      BY <2>1, TurnFacts
    <3>1. DOMAIN seen = 1..n /\ \A i \in 1..n : ShowsPage(seen[i], f[i])
      <4>1. \A i \in 1..n : f[i] <= SearchTopK
        BY <1>1, <1>4, <2>1
      <4>2. \A i : i \in DOMAIN seen <=> i \in 1..n
        BY <1>1, <3>0, <4>1 DEF With, Shown
      <4> QED
        BY <4>2 DEF With, Shown
    <3>2. Position(seen, matches[at].page) = {}
      BY <1>1, <3>1 DEF Position, ShowsPage
    <3>3. seen' = Append(seen, Entry(at))
      BY <2>1, <3>2 DEF Look, Kept
    <3>4. Len(seen) = n
      BY <1>1, <3>1, DictionaryFacts
    <3>5. /\ seen' \in Seq(Chunks) /\ DOMAIN seen' = 1..(n + 1) /\ seen'[n + 1] = Entry(at)
          /\ \A i \in 1..n : seen'[i] = seen[i]
      BY <1>1, <3>3, <3>4, EntryFacts DEF Typed
    <3>6. \A i \in DOMAIN g : ShowsPage(seen'[i], g[i]) /\ g[i] <= SearchTopK
      BY <1>1, <1>3, <1>4, <2>1, <3>1, <3>5, EntryFacts
    <3>7. \A i \in DOMAIN g : ShowsPage(seen[i], g[i])'
      BY <1>1, <3>6 DEF ShowsPage, Round
    <3>8. \A k \in DOMAIN matches : k < at' /\ k <= SearchTopK => matches[k].page # NoPage
      BY <1>1, <3>0 DEF With, Shown
    <3> QED
      BY <1>1, <1>3, <3>5, <3>6, <3>7, <3>8 DEF Shown
  <2>2. CASE ~(at <= SearchTopK /\ ~raised')
    <3>1. seen' = seen
      BY <2>2 DEF Look
    <3>2. \A i \in DOMAIN seen : i \in 1..n /\ g[i] = f[i]
      BY <1>1, <1>3 DEF With, Shown
    <3>3. \A i \in DOMAIN seen : (i \in DOMAIN g /\ g[i] <= SearchTopK /\ ShowsPage(seen[i], g[i]))'
      BY <1>1, <1>3, <3>1, <3>2 DEF With, Shown, ShowsPage, Round
    <3>4. ASSUME ~raised'
          PROVE  /\ \A i \in DOMAIN g : g[i] <= SearchTopK => i \in DOMAIN seen
                 /\ \A k \in DOMAIN matches : k < at' /\ k <= SearchTopK => matches[k].page # NoPage
      <4>1. ~raised /\ at > SearchTopK
        BY <1>1, <2>2, <3>4, TurnFacts
      <4> QED
        <5>1. ASSUME NEW i \in DOMAIN g, g[i] <= SearchTopK
              PROVE  i \in DOMAIN seen
          <6>1. i # n + 1
            BY <1>1, <1>3, <4>1, <5>1
          <6>2. i \in 1..n /\ g[i] = f[i]
            BY <1>1, <1>3, <6>1
          <6> QED
            BY <1>1, <4>1, <5>1, <6>2 DEF With, Shown
        <5>2. ASSUME NEW k \in DOMAIN matches, k < at', k <= SearchTopK
              PROVE  matches[k].page # NoPage
          <6>1. k < at
            BY <1>1, <4>1, <5>2
          <6> QED
            BY <4>1, <5>2, <6>1 DEF With, Shown
        <5> QED
          BY <5>1, <5>2
    <3> QED
      BY <1>1, <3>1, <3>3, <3>4 DEF Shown, Typed
  <2> QED
    BY <2>1, <2>2
<1>8. Typed'
  BY <1>1, <1>6, <1>7, TurnFacts DEF Typed, Descending, Chunks
<1> QED
  BY <1>1, <1>3, <1>5, <1>6, <1>7, <1>8 DEF Inv, With

\* Of a page that was met, the trace keeps its chunk.
LEMMA TraceKeeps ==
  ASSUME Typed, Look, NEW f \in Seq(DOMAIN matches), With(f),
         NEW o \in DOMAIN f, matches[f[o]].page = matches[at].page
  PROVE  best' = best
<1>1. CASE at <= topK /\ matches[at].page # NoPage
  <2>1. /\ at \in DOMAIN matches /\ at \in Nat
        /\ \A i \in DOMAIN f : f[i] \in DOMAIN matches /\ f[i] \in Nat /\ f[i] < at
        /\ \A i \in DOMAIN best : i \in DOMAIN f /\ best[i] = f[i]
    BY TurnFacts, FollowFacts DEF With, Follows, Traced
  <2>2. o \in DOMAIN best
    BY <1>1, <2>1, FollowFacts DEF With, Traced
  <2>3. \A i \in DOMAIN best : ~DebugBeats(at, best[i])
    <3> SUFFICES ASSUME NEW i \in DOMAIN best
                 PROVE  ~DebugBeats(at, best[i])
      OBVIOUS
    <3>1. best[i] \in DOMAIN matches /\ best[i] <= at
      BY <2>1
    <3>2. matches[best[i]].score >= matches[at].score
      BY <2>1, <3>1, MatchFacts
    <3> QED
      BY <2>1, <3>1, <3>2, MatchFacts DEF DebugBeats
  <2>4. o \in {i \in DOMAIN best : matches[best[i]].page = matches[at].page}
    BY <2>1, <2>2
  <2>5. best' = [i \in DOMAIN best |->
                   IF /\ i \in {k \in DOMAIN best : matches[best[k]].page = matches[at].page}
                      /\ DebugBeats(at, best[i])
                   THEN at ELSE best[i]]
    <3>1. best' = DebugKept(at)
      BY <1>1 DEF Look
    <3> QED
      BY <2>4, <3>1 DEF DebugKept
  <2> QED
    BY <2>3, <2>5, DictionaryFacts
<1>2. CASE ~(at <= topK /\ matches[at].page # NoPage)
  BY <1>2 DEF Look
<1> QED
  BY <1>1, <1>2

\* The search may take the new chunk, though only if it rounds to the same.
LEMMA SearchKeeps ==
  ASSUME Typed, Look, NEW f \in Seq(DOMAIN matches), With(f), matches[at].page # NoPage,
         NEW o \in DOMAIN f, matches[f[o]].page = matches[at].page
  PROVE  /\ seen' \in Seq(Chunks) /\ DOMAIN seen' = DOMAIN seen
         /\ \A i \in DOMAIN seen : ShowsPage(seen'[i], f[i])
<1>1. /\ at \in DOMAIN matches /\ at \in Nat /\ SearchTopK \in Nat
      /\ \A i \in DOMAIN f : f[i] \in DOMAIN matches /\ f[i] \in Nat /\ f[i] < at
      /\ \A i \in DOMAIN seen : i \in DOMAIN f /\ ShowsPage(seen[i], f[i])
      /\ DOMAIN seen = 1..Len(seen) /\ Len(seen) \in Nat
      /\ \A i \in DOMAIN seen : seen[i] \in Chunks
  BY TurnFacts, FollowFacts, DictionaryFacts DEF With, Follows, Shown
<1>2. CASE at <= SearchTopK /\ ~raised'
  <2>1. o \in DOMAIN seen
    BY <1>1, <1>2, TurnFacts DEF With, Shown
  <2>2. o \in Position(seen, matches[at].page)
    BY <1>1, <2>1 DEF Position, ShowsPage
  <2>3. seen' = [i \in DOMAIN seen |->
                   IF i \in Position(seen, matches[at].page) /\ Beats(at, seen[i])
                   THEN Entry(at) ELSE seen[i]]
    BY <1>2, <2>2 DEF Look, Kept
  <2>4. \A i \in DOMAIN seen :
          \/ seen'[i] = seen[i]
          \/ seen'[i] = Entry(at) /\ seen[i].page = matches[at].page /\ Beats(at, seen[i])
    BY <2>3 DEF Position
  <2>5. ASSUME NEW i \in DOMAIN seen, seen[i].page = matches[at].page, Beats(at, seen[i])
        PROVE  ShowsPage(Entry(at), f[i])
    <3>1. /\ matches[at].score \in Int /\ matches[f[i]].score \in Int
          /\ Round(matches[at].score) \in Int /\ Round(matches[f[i]].score) \in Int
      BY <1>1, MatchFacts, RoundMultiple
    <3>2. matches[at].score > Round(matches[f[i]].score)
      BY <1>1, <2>5 DEF Beats, ShowsPage
    <3>3. matches[at].score <= matches[f[i]].score
      <4>1. f[i] \in DOMAIN matches /\ f[i] <= at
        BY <1>1
      <4>2. matches[f[i]].score >= matches[at].score
        BY <1>1, <4>1, MatchFacts
      <4> QED
        BY <3>1, <4>2
    <3>4. Round(matches[at].score) = Round(matches[f[i]].score)
      BY <3>1, <3>2, <3>3, RoundAbove, RoundMonotone
    <3> QED
      BY <1>1, <2>5, <3>4, EntryFacts DEF ShowsPage
  <2>6. \A i \in DOMAIN seen : seen'[i] \in Chunks /\ ShowsPage(seen'[i], f[i])
    BY <1>1, <2>4, <2>5, EntryFacts
  <2>7. DOMAIN seen' = DOMAIN seen /\ seen' = [i \in 1..Len(seen) |-> seen'[i]]
    BY <1>1, <2>3
  <2>8. seen' \in Seq(Chunks)
    BY <1>1, <2>6, <2>7
  <2> QED
    BY <2>6, <2>7, <2>8
<1>3. CASE ~(at <= SearchTopK /\ ~raised')
  <2>1. seen' = seen
    BY <1>3 DEF Look
  <2> QED
    BY <1>1, <2>1 DEF Typed
<1> QED
  BY <1>2, <1>3

\* A page that was met before keeps its place in both dictionaries.
LEMMA SeenPage ==
  ASSUME Typed, Look, NEW f \in Seq(DOMAIN matches), With(f), matches[at].page # NoPage,
         NEW o \in DOMAIN f, matches[f[o]].page = matches[at].page
  PROVE  Inv'
<1>1. /\ best' = best /\ seen' \in Seq(Chunks) /\ DOMAIN seen' = DOMAIN seen
      /\ \A i \in DOMAIN seen : ShowsPage(seen'[i], f[i])
  BY TraceKeeps, SearchKeeps
<1>2. /\ at \in DOMAIN matches /\ at' = at + 1 /\ UNCHANGED <<matches, limit, topK>>
      /\ at \in Nat /\ SearchTopK \in Nat /\ DOMAIN matches \subseteq Nat
      /\ \A i \in DOMAIN f : f[i] \in Nat
  BY TurnFacts, FollowFacts
<1>3. Typed'
  BY <1>1, <1>2, TurnFacts DEF Typed, Descending, Chunks
<1>4. Follows(f)'
  <2>1. \A i \in DOMAIN f : (f[i] < at /\ First(f[i]) /\ matches[f[i]].page \in Pages)'
    BY <1>2 DEF With, Follows, First
  <2>2. ASSUME NEW m \in DOMAIN matches, m < at', matches[m].page # NoPage
        PROVE  \E i \in DOMAIN f : matches[f[i]].page = matches[m].page
    <3>1. m < at \/ m = at
      BY <1>2, <2>2
    <3> QED
      BY <2>2, <3>1 DEF With, Follows
  <2> QED
    BY <1>2, <2>1, <2>2 DEF With, Follows
<1>5. Traced(f)'
  BY <1>1, <1>2 DEF With, Traced
<1>6. Shown(f)'
  <2>1. \A i \in DOMAIN seen : ShowsPage(seen[i], f[i])'
    BY <1>1, <1>2 DEF ShowsPage, Round
  <2>2. \A k \in DOMAIN matches :
          ~raised' /\ k < at' /\ k <= SearchTopK => matches[k].page # NoPage
    BY <1>2, TurnFacts DEF With, Shown
  <2> QED
    BY <1>1, <1>2, <2>1, <2>2, TurnFacts DEF With, Shown
<1> QED
  BY <1>2, <1>3, <1>4, <1>5, <1>6 DEF Inv, With

\* Every turn of the loops keeps the invariant.
LEMMA InvNext == Inv /\ [Look]_searchVars => Inv'
<1> SUFFICES ASSUME Inv, [Look]_searchVars
             PROVE  Inv'
  OBVIOUS
<1>1. PICK f \in Seq(DOMAIN matches) : With(f)
  BY DEF Inv
<1>2. CASE Look /\ matches[at].page = NoPage
  BY <1>1, <1>2, PassedOver DEF Inv
<1>3. CASE Look /\ matches[at].page # NoPage
           /\ \E o \in DOMAIN f : matches[f[o]].page = matches[at].page
  BY <1>1, <1>3, SeenPage DEF Inv
<1>4. CASE Look /\ matches[at].page # NoPage
           /\ ~\E o \in DOMAIN f : matches[f[o]].page = matches[at].page
  BY <1>1, <1>4, NewPage DEF Inv
<1>5. CASE UNCHANGED searchVars
  <2> USE <1>5 DEF searchVars
  <2>1. Typed'
    BY DEF Inv, Typed, Descending, Chunks
  <2>2. Follows(f)'
    BY <1>1 DEF With, Follows, First
  <2>3. Traced(f)' /\ Shown(f)'
    BY <1>1 DEF With, Traced, Shown, ShowsPage, Round
  <2> QED
    BY <1>1, <2>1, <2>2, <2>3 DEF Inv, With
<1> QED
  BY <1>2, <1>3, <1>4, <1>5

\* The invariant always holds.
LEMMA InvHolds == SearchSpec => []Inv
BY InvInit, InvNext, PTL DEF SearchSpec

-----------------------------------------------------------------------------
(* What the loops leave, ranked.                                           *)

\* The first matches of pages have falling scores, rounded or not, and are
\* of different pages.
LEMMA FirstsFall ==
  ASSUME Typed, NEW f \in Seq(DOMAIN matches), With(f),
         NEW i \in DOMAIN f, NEW j \in DOMAIN f, i < j
  PROVE  /\ matches[f[i]].score >= matches[f[j]].score
         /\ Round(matches[f[i]].score) >= Round(matches[f[j]].score)
         /\ matches[f[i]].page # matches[f[j]].page
<1>1. /\ f[i] \in DOMAIN matches /\ f[j] \in DOMAIN matches
      /\ f[i] \in Nat /\ f[j] \in Nat /\ f[i] < f[j] /\ First(f[j])
  BY FollowFacts DEF With, Follows
<1>2. matches[f[i]].score >= matches[f[j]].score
  <2>1. f[i] <= f[j]
    BY <1>1
  <2> QED
    BY <1>1, <2>1, MatchFacts
<1>3. matches[f[i]].score \in Int /\ matches[f[j]].score \in Int
  BY <1>1, MatchFacts
<1>4. Round(matches[f[i]].score) >= Round(matches[f[j]].score)
  BY <1>2, <1>3, RoundMonotone, RoundMultiple
<1>5. matches[f[i]].page # matches[f[j]].page
  BY <1>1 DEF First
<1> QED
  BY <1>2, <1>4, <1>5

\* The scores the searches rank by.
LEMMA ScoresFall ==
  ASSUME Typed, NEW f \in Seq(DOMAIN matches), With(f)
  PROVE  /\ RoundedScores \in [DOMAIN seen -> Int] /\ RawScores \in [DOMAIN best -> Int]
         /\ \A i, j \in DOMAIN seen : i < j => RoundedScores[i] >= RoundedScores[j]
         /\ \A i, j \in DOMAIN best : i < j => RawScores[i] >= RawScores[j]
<1>1. /\ \A i \in DOMAIN seen : i \in DOMAIN f /\ seen[i].score = Round(matches[f[i]].score)
      /\ \A i \in DOMAIN best : i \in DOMAIN f /\ best[i] = f[i]
  BY DEF With, Shown, ShowsPage, Traced
<1>2. \A i \in DOMAIN f : matches[f[i]].score \in Int /\ Round(matches[f[i]].score) \in Int
  BY FollowFacts, MatchFacts, RoundMultiple
<1>3. \A i, j \in DOMAIN f : i < j =>
        /\ matches[f[i]].score >= matches[f[j]].score
        /\ Round(matches[f[i]].score) >= Round(matches[f[j]].score)
  BY FirstsFall
<1> QED
  BY <1>1, <1>2, <1>3 DEF RoundedScores, RawScores

\* The sorts move nothing: both dictionaries are in order already.
LEMMA SortsMoveNothing ==
  ASSUME Typed, NEW f \in Seq(DOMAIN matches), With(f)
  PROVE  /\ LiveRanks = best
         /\ Results = SubSeq(seen, 1, IF limit < Len(seen) THEN limit ELSE Len(seen))
<1> DEFINE D == DOMAIN matches
<1>1. seen \in Seq(Chunks) /\ best \in Seq(D)
  BY DEF Typed
<1> HIDE DEF D
<1>2. Ranked(seen, RoundedScores) = seen
  BY <1>1, ScoresFall, RankedIsSame
<1>3. Ranked(best, RawScores) = best
  BY <1>1, ScoresFall, RankedIsSame
<1> QED
  BY <1>2, <1>3 DEF LiveRanks, Results

\* The results are the pages that were met first, as many as asked for.
LEMMA ResultFacts ==
  ASSUME Typed, NEW f \in Seq(DOMAIN matches), With(f)
  PROVE  /\ \A i \in DOMAIN Results : /\ i \in DOMAIN seen /\ i \in DOMAIN f
                                      /\ Results[i] = seen[i] /\ ShowsPage(Results[i], f[i])
                                      /\ f[i] \in Live
         /\ \A i \in DOMAIN seen : i <= limit => i \in DOMAIN Results
         /\ DOMAIN Results = 1..Len(Results) /\ Len(Results) \in Nat /\ limit \in Nat
         /\ Len(Results) = limit \/ DOMAIN Results = DOMAIN seen
<1> DEFINE n == IF limit < Len(seen) THEN limit ELSE Len(seen)
<1>1. /\ seen \in Seq(Chunks) /\ Len(seen) \in Nat /\ limit \in Nat
      /\ DOMAIN seen = 1..Len(seen)
  BY SearchAssumption DEF Typed
<1>2. Results = SubSeq(seen, 1, n)
  BY SortsMoveNothing
<1>3. n \in Nat /\ n <= limit /\ n <= Len(seen) /\ (n = limit \/ n = Len(seen))
  BY <1>1
<1> HIDE DEF n
<1>4. Len(Results) = n /\ DOMAIN Results = 1..n /\ \A i \in 1..n : Results[i] = seen[i]
  BY <1>1, <1>2, <1>3
<1>8. PICK m \in Nat : m = Len(seen)
  BY <1>1
<1>5. \A i \in 1..n : i \in DOMAIN seen
  <2>1. \A i \in 1..n : i \in 1..m
    BY <1>3, <1>8
  <2> QED
    BY <1>1, <1>8, <2>1
<1>6. \A i \in DOMAIN seen : /\ i \in DOMAIN f /\ ShowsPage(seen[i], f[i])
                             /\ f[i] \in Live
  BY FollowFacts DEF With, Shown, Live
<1>7. \A i \in DOMAIN seen : i <= limit => i \in DOMAIN Results
  <2>1. \A i \in 1..m : i <= limit => i \in 1..n
    BY <1>3, <1>8
  <2> QED
    BY <1>1, <1>4, <1>8, <2>1
<1> QED
  BY <1>1, <1>3, <1>4, <1>5, <1>6, <1>7

\* The best score of a page the search reads is that of its first match.
LEMMA BestIsFirst ==
  ASSUME Typed, NEW f \in Seq(DOMAIN matches), With(f), NEW i \in DOMAIN f, f[i] \in Live
  PROVE  BestScore(matches[f[i]].page) = matches[f[i]].score
<1> DEFINE p == matches[f[i]].page
           s == matches[f[i]].score
           IsBest(score) ==
             /\ \E k \in Live : matches[k] = [page |-> p, score |-> score]
             /\ \A k \in Live : matches[k].page = p => matches[k].score <= score
<1>1. f[i] \in DOMAIN matches /\ f[i] \in Nat /\ s \in Scores /\ s \in Int /\ First(f[i])
  BY FollowFacts, MatchFacts DEF With, Follows
<1>2. IsBest(s)
  <2>1. matches[f[i]] = [page |-> p, score |-> s]
    <3>1. matches[f[i]] \in Matches
      BY <1>1 DEF Typed
    <3> QED
      BY <3>1 DEF Matches
  <2>2. \A k \in Live : matches[k].page = p => matches[k].score <= s
    BY <1>1, MatchFacts DEF First, Live
  <2> QED
    BY <2>1, <2>2
<1>3. ASSUME NEW x \in Scores, IsBest(x)
      PROVE  x = s
  <2>1. PICK k \in Live : matches[k] = [page |-> p, score |-> x]
    BY <1>3
  <2>2. matches[k].page = p /\ matches[k].score = x
    BY <2>1
  <2>3. x <= s
    BY <1>2, <2>2
  <2>4. s <= x
    BY <1>1, <1>3
  <2> QED
    BY <1>1, <2>3, <2>4, SearchAssumption
<1>4. BestScore(p) = CHOOSE score \in Scores : IsBest(score)
  BY DEF BestScore
<1> HIDE DEF IsBest
<1>5. (CHOOSE score \in Scores : IsBest(score)) = s
  BY <1>1, <1>2, <1>3
<1> QED
  BY <1>4, <1>5

-----------------------------------------------------------------------------
(* The results.                                                            *)

(* A search shows the best pages of the matches it reads, each once and    *)
(* best first, by their best chunks or chunks whose scores round to the    *)
(* same: comparing raw scores with rounded ones and ranking by rounded     *)
(* ones costs no page its place.                                           *)
THEOREM SearchShowsTheBest == SearchSpec => []RanksByBestChunk
<1>1. ASSUME Inv
      PROVE  RanksByBestChunk
  <2> SUFFICES ASSUME AllSeen
               PROVE  RanksByBestChunk
    BY DEF RanksByBestChunk
  <2>1. PICK f \in Seq(DOMAIN matches) : With(f)
    BY <1>1 DEF Inv
  <2>2. ASSUME NEW i \in DOMAIN Results
        PROVE  /\ i \in DOMAIN f /\ f[i] \in DOMAIN matches
               /\ Results[i].page = matches[f[i]].page
               /\ BestScore(Results[i].page) = matches[f[i]].score
               /\ Round(matches[Results[i].chunk].score) = Round(matches[f[i]].score)
    BY <1>1, <2>1, ResultFacts, BestIsFirst, FollowFacts DEF Inv, ShowsPage
  <2>3. ASSUME NEW i \in DOMAIN Results, NEW j \in DOMAIN Results, i < j
        PROVE  /\ Results[i].page # Results[j].page
               /\ BestScore(Results[i].page) >= BestScore(Results[j].page)
    BY <1>1, <2>1, <2>2, <2>3, FirstsFall DEF Inv
  <2>4. ASSUME NEW k \in Live
        PROVE  \/ \E i \in DOMAIN Results : Results[i].page = matches[k].page
               \/ /\ Len(Results) = limit
                  /\ \A i \in DOMAIN Results : BestScore(Results[i].page) >= matches[k].score
    <3>1. k \in DOMAIN matches /\ k \in Nat /\ k < at /\ k <= SearchTopK
      BY <1>1, <2>1, FollowFacts, MatchFacts DEF Live, AllSeen, Inv, Typed
    <3>2. matches[k].page # NoPage
      BY <2>1, <3>1 DEF AllSeen, With, Shown
    <3>3. PICK i \in DOMAIN f : matches[f[i]].page = matches[k].page
      BY <2>1, <3>1, <3>2 DEF With, Follows
    <3>4. /\ f[i] \in DOMAIN matches /\ f[i] \in Nat /\ f[i] <= k /\ i \in Nat
          /\ SearchTopK \in Nat
      BY <1>1, <2>1, <3>1, <3>3, FollowFacts DEF With, Follows, First, Inv
    <3>5. i \in DOMAIN seen
      BY <2>1, <3>1, <3>4 DEF AllSeen, With, Shown
    <3>6. CASE i \in DOMAIN Results
      BY <2>2, <3>3, <3>6
    <3>7. CASE i \notin DOMAIN Results
      <4>1. Len(Results) = limit
        BY <1>1, <2>1, <3>5, <3>7, ResultFacts DEF Inv
      <4>2. ASSUME NEW j \in DOMAIN Results
            PROVE  BestScore(Results[j].page) >= matches[k].score
        <5>1. j < i
          BY <1>1, <2>1, <3>4, <3>7, ResultFacts, FollowFacts DEF Inv
        <5>2. matches[f[j]].score >= matches[f[i]].score
          BY <1>1, <2>1, <2>2, <5>1, FirstsFall DEF Inv
        <5>3. matches[f[i]].score >= matches[k].score
          BY <1>1, <3>1, <3>4, MatchFacts DEF Inv
        <5>4. /\ matches[f[j]].score \in Int /\ matches[f[i]].score \in Int
              /\ matches[k].score \in Int
          BY <1>1, <2>2, <3>1, <3>4, MatchFacts DEF Inv
        <5> QED
          BY <2>2, <5>2, <5>3, <5>4
      <4> QED
        BY <4>1, <4>2
    <3> QED
      BY <3>6, <3>7
  <2>5. \A i \in DOMAIN Results :
          Round(matches[Results[i].chunk].score) = Round(BestScore(Results[i].page))
    BY <2>2
  <2> QED
    BY <2>3, <2>4, <2>5 DEF RanksByBestChunk
<1> QED
  BY <1>1, InvHolds, PTL

(* A live_rank up to the limit is the place of the page in a search when   *)
(* its chunk is within SEARCH_TOP_K, and says nothing of a search, which   *)
(* does not show the page, when a larger top_k found it beyond; a result   *)
(* that the trace has a match of has its place as rank.                    *)
THEOREM TraceTellsRank == SearchSpec => []LiveRankTrue
<1>1. ASSUME Inv
      PROVE  LiveRankTrue
  <2> SUFFICES ASSUME AllSeen
               PROVE  LiveRankTrue
    BY DEF LiveRankTrue
  <2>1. PICK f \in Seq(DOMAIN matches) : With(f)
    BY <1>1 DEF Inv
  <2>2. LiveRanks = best /\ \A i \in DOMAIN best : i \in DOMAIN f /\ best[i] = f[i]
    BY <1>1, <2>1, SortsMoveNothing DEF Inv, With, Traced
  <2>3. \A i \in DOMAIN f : f[i] \in DOMAIN matches /\ f[i] \in Nat /\ i \in Nat
    BY <1>1, <2>1, FollowFacts DEF Inv
  <2>4. ASSUME NEW i \in DOMAIN best, f[i] \in Live, i <= limit
        PROVE  i \in DOMAIN Results /\ Results[i].page = matches[f[i]].page
    <3>1. i \in DOMAIN seen
      BY <2>1, <2>2, <2>4 DEF AllSeen, With, Shown, Live
    <3>2. i \in DOMAIN Results
      BY <1>1, <2>1, <2>4, <3>1, ResultFacts DEF Inv
    <3> QED
      BY <1>1, <2>1, <3>2, ResultFacts DEF Inv, ShowsPage
  <2>5. ASSUME NEW i \in DOMAIN best, f[i] \notin Live, NEW j \in DOMAIN Results
        PROVE  Results[j].page # matches[f[i]].page
    <3>1. j \in DOMAIN f /\ f[j] \in Live /\ Results[j].page = matches[f[j]].page
      BY <1>1, <2>1, ResultFacts DEF Inv, ShowsPage
    <3>2. i \in DOMAIN f /\ i # j
      BY <2>2, <2>5, <3>1
    <3>3. i < j \/ j < i
      BY <2>3, <3>1, <3>2
    <3> QED
      BY <1>1, <2>1, <3>1, <3>2, <3>3, FirstsFall DEF Inv
  <2>6. ASSUME NEW i \in DOMAIN Results, NEW k \in DOMAIN matches,
               k <= topK, matches[k].page = Results[i].page
        PROVE  i \in DOMAIN best /\ matches[best[i]].page = Results[i].page
    <3>1. i \in DOMAIN f /\ Results[i].page = matches[f[i]].page
      BY <1>1, <2>1, ResultFacts DEF Inv, ShowsPage
    <3>2. f[i] <= k
      BY <2>1, <2>6, <3>1 DEF With, Follows, First
    <3>3. f[i] <= topK
      <4>1. k \in Nat /\ topK \in Nat /\ f[i] \in Nat
        BY <1>1, <2>1, <2>3, <3>1, FollowFacts DEF Inv
      <4> QED
        BY <2>6, <3>2, <4>1
    <3>4. i \in DOMAIN best
      BY <2>1, <3>1, <3>3 DEF With, Traced
    <3> QED
      BY <2>2, <3>1, <3>4
  <2> QED
    BY <2>2, <2>4, <2>5, <2>6 DEF LiveRankTrue
<1> QED
  BY <1>1, InvHolds, PTL

=============================================================================
