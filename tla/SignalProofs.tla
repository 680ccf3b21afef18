---------------------------- MODULE SignalProofs ----------------------------
(***************************************************************************)
(* What FilingSignals promises of the numeric pipeline, proved for every   *)
(* document, every cross-section and every window.                         *)
(*                                                                         *)
(* Sums.  The totals and penalties are sums over sets that CHOOSE picks    *)
(* from, one element after another.  Such a sum is shown to exist and to   *)
(* be what it is meant to be by looking at a smallest set for which it is  *)
(* not.  Facts.  Replaces is a strict form of a total preorder, Prevails,  *)
(* so what selection holds prevails over all that it has seen.  Weights.   *)
(* Whoever stands out among other companies has a component of at least    *)
(* 80, and of at least 100 among fewer than five.  Penalties.  With the    *)
(* caveats that can occur together that outweighs every penalty.           *)
(***************************************************************************)
EXTENDS FilingSignals, FiniteSetTheorems, WellFoundedInduction, TLAPS

-------------------------------------------------------------------------------
(* Sums *)

\* A set of naturals has a least element.
LEMMA LeastOf ==
  ASSUME NEW S \in SUBSET Nat, S # {}
  PROVE  \E n \in S : \A m \in S : n <= m
<1>1. PICK n \in S : \A m \in S : ~(<<m, n>> \in OpToRel(<, Nat))
  BY NatLessThanWellFounded, WFMin
<1>2. \A m \in S : n <= m
  <2> TAKE m \in S
  <2>1. <<m, n>> \in Nat \X Nat /\ ~(m < n)
    BY <1>1 DEF OpToRel
  <2> QED BY <2>1
<1> QED BY <1>2

\* Of the subsets of a finite set that have a property, one has none smaller.
LEMMA SmallestSet ==
  ASSUME NEW S, IsFiniteSet(S), NEW B \in SUBSET (SUBSET S), B # {}
  PROVE  \E s \in B : \A t \in SUBSET s : t # s => t \notin B
<1> DEFINE sizes == {Cardinality(s) : s \in B}
<1>1. \A s \in SUBSET S : IsFiniteSet(s) /\ Cardinality(s) \in Nat
  BY FS_Subset, FS_CardinalityType
<1>2. PICK n \in sizes : \A m \in sizes : n <= m
  <2>1. sizes \in SUBSET Nat /\ sizes # {}
    BY <1>1
  <2> HIDE DEF sizes
  <2> QED BY <2>1, LeastOf
<1>3. PICK s \in B : Cardinality(s) = n
  BY <1>2
<1>4. ASSUME NEW t \in SUBSET s, t # s
      PROVE  t \notin B
  <2>1. Cardinality(t) \in Nat /\ Cardinality(s) \in Nat /\ Cardinality(t) < Cardinality(s)
    BY <1>1, <1>4, FS_Subset, FS_CardinalityType
  <2> QED BY <1>2, <1>3, <2>1
<1> QED BY <1>4

\* The element that a fold takes next, and the fold that adds up weights.
Pick(s) == CHOOSE x \in s : TRUE
Adds(iter, h, S) ==
  iter = [s \in SUBSET S |-> IF s = {} THEN 0 ELSE h[Pick(s)] + iter[s \ {Pick(s)}]]

LEMMA PickIsIn == ASSUME NEW s, s # {} PROVE Pick(s) \in s
BY DEF Pick

LEMMA AddsStep ==
  ASSUME NEW S, NEW h, NEW F, Adds(F, h, S)
  PROVE  /\ F[{}] = 0
         /\ \A s \in SUBSET S : s # {} => F[s] = h[Pick(s)] + F[s \ {Pick(s)}]
BY DEF Adds

LEMMA AddsType ==
  ASSUME NEW S, IsFiniteSet(S), NEW h, \A c \in S : h[c] \in Int, NEW F, Adds(F, h, S)
  PROVE  \A s \in SUBSET S : F[s] \in Int
<1> DEFINE B == {s \in SUBSET S : F[s] \notin Int}
<1>0. /\ F[{}] = 0
      /\ \A s \in SUBSET S : s # {} => F[s] = h[Pick(s)] + F[s \ {Pick(s)}]
  BY AddsStep
<1> SUFFICES ASSUME B # {} PROVE FALSE
  OBVIOUS
<1>1. PICK s \in B : \A t \in SUBSET s : t # s => t \notin B
  <2> HIDE DEF B
  <2>1. B \in SUBSET (SUBSET S)
    BY DEF B
  <2> QED BY <2>1, SmallestSet
<1>2. s \in SUBSET S /\ F[s] \notin Int /\ s # {}
  <2>1. s \in SUBSET S /\ F[s] \notin Int
    BY <1>1
  <2>2. F[{}] \in Int
    BY <1>0
  <2> HIDE DEF B
  <2> QED BY <2>1, <2>2
<1>3. Pick(s) \in s
  BY <1>2, PickIsIn
<1>4. F[s \ {Pick(s)}] \in Int /\ h[Pick(s)] \in Int
  BY <1>1, <1>2, <1>3
<1> QED BY <1>0, <1>2, <1>4

LEMMA AddsOnce ==
  ASSUME NEW S, IsFiniteSet(S), NEW h, NEW F, Adds(F, h, S),
         NEW T, NEW G, Adds(G, h, T), S \subseteq T
  PROVE  \A s \in SUBSET S : F[s] = G[s]
<1> DEFINE B == {s \in SUBSET S : F[s] # G[s]}
<1>0. /\ F[{}] = 0 /\ G[{}] = 0
      /\ \A s \in SUBSET S : s # {} => F[s] = h[Pick(s)] + F[s \ {Pick(s)}]
      /\ \A s \in SUBSET T : s # {} => G[s] = h[Pick(s)] + G[s \ {Pick(s)}]
  <2> HIDE DEF B
  <2>1. ASSUME NEW U, NEW H, Adds(H, h, U)
        PROVE  /\ H[{}] = 0
               /\ \A s \in SUBSET U : s # {} => H[s] = h[Pick(s)] + H[s \ {Pick(s)}]
    BY <2>1 DEF Adds
  <2>2. Adds(F, h, S) /\ Adds(G, h, T)
    OBVIOUS
  <2> QED BY <2>1, <2>2
<1> SUFFICES ASSUME B # {} PROVE FALSE
  OBVIOUS
<1>1. PICK s \in B : \A t \in SUBSET s : t # s => t \notin B
  <2> HIDE DEF B
  <2>1. B \in SUBSET (SUBSET S)
    BY DEF B
  <2> QED BY <2>1, SmallestSet
<1>2. s \in SUBSET S /\ s \in SUBSET T /\ F[s] # G[s] /\ s # {}
  BY <1>0, <1>1
<1>3. Pick(s) \in s
  BY <1>2, PickIsIn
<1>4. F[s \ {Pick(s)}] = G[s \ {Pick(s)}]
  BY <1>1, <1>2, <1>3
<1> QED BY <1>0, <1>2, <1>4

LEMMA AddsExists ==
  ASSUME NEW S, IsFiniteSet(S), NEW h
  PROVE  \E F : Adds(F, h, S)
<1> DEFINE B == {s \in SUBSET S : ~\E F : Adds(F, h, s)}
<1> SUFFICES ASSUME B # {} PROVE FALSE
  OBVIOUS
<1>1. PICK s \in B : \A t \in SUBSET s : t # s => t \notin B
  <2> HIDE DEF B
  <2>1. B \in SUBSET (SUBSET S)
    BY DEF B
  <2> QED BY <2>1, SmallestSet
<1>2. \A t \in SUBSET s : t # s => \E F : Adds(F, h, t)
  BY <1>1
<1> DEFINE Fold(t) == CHOOSE F : Adds(F, h, t)
           Value(t) == IF t = {} THEN 0 ELSE h[Pick(t)] + Fold(t \ {Pick(t)})[t \ {Pick(t)}]
           G == [t \in SUBSET s |-> Value(t)]
<1>3. \A t \in SUBSET s : t # s => Adds(Fold(t), h, t)
  BY <1>2
<1>4. ASSUME NEW t \in SUBSET s, t # s
      PROVE  Fold(t)[t] = Value(t)
  <2>1. CASE t = {}
    <3>1. Adds(Fold(t), h, t)
      BY <1>3, <1>4
    <3>2. Value(t) = 0
      BY <2>1
    <3> HIDE DEF Fold, Value
    <3>3. Fold(t)[{}] = 0
      BY <3>1 DEF Adds
    <3> QED BY <2>1, <3>2, <3>3
  <2>2. CASE t # {}
    <3> DEFINE u == t \ {Pick(t)}
    <3>1. u \in SUBSET t /\ u \in SUBSET s /\ u # s /\ Pick(t) \in t
      BY <1>4, <2>2, PickIsIn
    <3>2. Fold(t)[t] = h[Pick(t)] + Fold(t)[u]
      BY <1>3, <1>4, <2>2, AddsStep
    <3>3. Fold(u)[u] = Fold(t)[u]
      <4>1. Adds(Fold(u), h, u) /\ Adds(Fold(t), h, t)
        BY <1>3, <1>4, <3>1
      <4>2. IsFiniteSet(u) /\ IsFiniteSet(t) /\ u \subseteq t /\ t \subseteq S
        BY <1>1, <3>1, FS_Subset
      <4> HIDE DEF Fold, u
      <4> QED BY <4>1, <4>2, AddsOnce
    <3>4. Value(t) = h[Pick(t)] + Fold(u)[u]
      BY <2>2
    <3> HIDE DEF Fold, Value, u
    <3> QED BY <3>2, <3>3, <3>4
  <2> QED BY <2>1, <2>2
<1>5. \A t \in SUBSET s : t # {} => G[t \ {Pick(t)}] = Fold(t \ {Pick(t)})[t \ {Pick(t)}]
  <2> SUFFICES ASSUME NEW t \in SUBSET s, t # {}
               PROVE  G[t \ {Pick(t)}] = Fold(t \ {Pick(t)})[t \ {Pick(t)}]
    OBVIOUS
  <2>1. t \ {Pick(t)} \in SUBSET s /\ t \ {Pick(t)} # s
    BY PickIsIn
  <2> HIDE DEF Fold, Value
  <2> QED BY <1>4, <2>1
<1>6. Adds(G, h, s)
  <2> HIDE DEF Fold
  <2>1. \A t \in SUBSET s : G[t] = IF t = {} THEN 0 ELSE h[Pick(t)] + G[t \ {Pick(t)}]
    BY <1>5
  <2> HIDE DEF G
  <2>2. G = [t \in SUBSET s |-> G[t]]
    BY DEF G
  <2> QED BY <2>1, <2>2 DEF Adds
<1> QED BY <1>1, <1>6

\* A sum of integers, as the fold computes it, is an integer.
LEMMA SumIsInt ==
  ASSUME NEW S, IsFiniteSet(S), NEW h, \A c \in S : h[c] \in Int,
         NEW I, I = CHOOSE iter : Adds(iter, h, S)
  PROVE  I[S] \in Int
<1>1. Adds(I, h, S)
  BY AddsExists
<1> QED BY <1>1, AddsType

\* Mean and variance of a section are integers once multiplied out.
LEMMA TotalsAreInt ==
  ASSUME NEW g \in Seq(Int), g # <<>>
  PROVE  Distance(g) \in Int /\ Variance(g) \in Int
<1> DEFINE N == 1..Len(g)
           Id(v) == v
           Square(v) == v * v
           squares == [n \in N |-> g[n] * g[n]]
<1>1. Len(g) \in Nat /\ IsFiniteSet(N) /\ \A n \in N : g[n] \in Int
  BY FS_Interval
<1>2. Total(g, Id) \in Int
  <2> DEFINE I == CHOOSE iter : Adds(iter, g, N)
  <2>1. Total(g, Id) = I[N]
    BY DEF Total, MapThenSumSet, MapThenFoldSet, Adds, Pick
  <2>2. I = CHOOSE iter : Adds(iter, g, N)
    OBVIOUS
  <2> HIDE DEF I, N
  <2>3. I[N] \in Int
    BY <1>1, <2>2, SumIsInt
  <2> QED BY <2>1, <2>3
<1>3. Total(g, Square) \in Int
  <2> DEFINE Body(iter) == [s \in SUBSET N |-> IF s = {} THEN 0
                              ELSE g[Pick(s)] * g[Pick(s)] + iter[s \ {Pick(s)}]]
             I == CHOOSE iter : iter = Body(iter)
  <2>1. Total(g, Square) = I[N]
    BY DEF Total, MapThenSumSet, MapThenFoldSet, Pick
  <2>2. \A s \in SUBSET N : s # {} => Pick(s) \in N
    BY PickIsIn
  <2>3. \A iter : Adds(iter, squares, N) <=> iter = Body(iter)
    <3> TAKE iter
    <3>1. ASSUME NEW s \in SUBSET N
          PROVE  (IF s = {} THEN 0 ELSE squares[Pick(s)] + iter[s \ {Pick(s)}])
                   = Body(iter)[s]
      <4>1. s # {} => Pick(s) \in N
        BY <2>2
      <4> QED BY <4>1
    <3>2. [s \in SUBSET N |-> IF s = {} THEN 0 ELSE squares[Pick(s)] + iter[s \ {Pick(s)}]]
            = [s \in SUBSET N |-> Body(iter)[s]]
      <4> HIDE DEF Body, squares
      <4> QED BY <3>1
    <3>3. Body(iter) = [s \in SUBSET N |-> Body(iter)[s]]
      OBVIOUS
    <3> HIDE DEF Body, squares
    <3> QED BY <3>2, <3>3 DEF Adds
  <2>4. \E F : Adds(F, squares, N)
    BY <1>1, AddsExists
  <2>5. I = Body(I)
    <3> HIDE DEF Body
    <3> QED BY <2>3, <2>4
  <2>6. Adds(I, squares, N)
    BY <2>3, <2>5
  <2>7. \A n \in N : squares[n] \in Int
    BY <1>1
  <2> HIDE DEF I, N, squares, Body
  <2>8. I[N] \in Int
    BY <1>1, <2>6, <2>7, AddsType
  <2> QED BY <2>1, <2>8
<1> DEFINE t == Total(g, Id)
           q == Total(g, Square)
<1>4. Distance(g) = Len(g) * g[1] - t /\ Variance(g) = Len(g) * q - t * t
  BY DEF Distance, Variance
<1>5. Len(g) \in Int /\ g[1] \in Int
  BY <1>1
<1>6. t \in Int /\ q \in Int
  BY <1>2, <1>3
<1> HIDE DEF t, q
<1> QED BY <1>4, <1>5, <1>6

-------------------------------------------------------------------------------
(* Penalties *)

Codes == {"no_self_timeseries_flag", "sparse_history", "insufficient_peer_coverage",
          "peer_zero_variance", "fallback_tag_used", "duplicate_candidates_resolved",
          "low_period_count", "missing_prior_period", "limited_peer_coverage"}

\* What a set of caveats costs, written out.
Cost(s) ==
  LET P(c) == IF c \in s THEN PenaltyOf(c) ELSE 0
  IN  P("no_self_timeseries_flag") + P("sparse_history") + P("insufficient_peer_coverage")
        + P("peer_zero_variance") + P("fallback_tag_used") + P("low_period_count")
        + P("missing_prior_period") + P("limited_peer_coverage")

LEMMA CostOfOne ==
  ASSUME NEW s \in SUBSET Codes, NEW c \in s
  PROVE  Cost(s) = PenaltyOf(c) + Cost(s \ {c})
BY DEF Cost, PenaltyOf, Codes

\* The merged penalty is the sum over the codes, each counted once, in whatever order
\* the fold takes them.
LEMMA PenaltyIsCost ==
  ASSUME NEW own, NEW extraction, NEW ofPanel,
         own \union extraction \union ofPanel \subseteq Codes
  PROVE  PenaltyOfAll(own, extraction, ofPanel) = Cost(own \union extraction \union ofPanel)
<1> DEFINE S == own \union extraction \union ofPanel
           h == [c \in S |-> PenaltyOf(c)]
           Body(iter) == [s \in SUBSET S |-> IF s = {} THEN 0
                            ELSE PenaltyOf(Pick(s)) + iter[s \ {Pick(s)}]]
           I == CHOOSE iter : iter = Body(iter)
<1>1. PenaltyOfAll(own, extraction, ofPanel) = I[S]
  BY DEF PenaltyOfAll, MapThenSumSet, MapThenFoldSet, Pick
<1>2. IsFiniteSet(S) /\ S \subseteq Codes
  <2>1. IsFiniteSet(Codes)
    <3>1. \A T, c : IsFiniteSet(T) => IsFiniteSet(T \union {c})
      BY FS_AddElement
    <3> DEFINE A == {} \union {"no_self_timeseries_flag"} \union {"sparse_history"}
                      \union {"insufficient_peer_coverage"}
               B == A \union {"peer_zero_variance"} \union {"fallback_tag_used"}
                      \union {"duplicate_candidates_resolved"}
               C == B \union {"low_period_count"} \union {"missing_prior_period"}
                      \union {"limited_peer_coverage"}
    <3>2. IsFiniteSet(A)
      BY <3>1, FS_EmptySet
    <3>3. IsFiniteSet(B)
      <4> HIDE DEF A
      <4> QED BY <3>1, <3>2
    <3>4. IsFiniteSet(C)
      <4> HIDE DEF B
      <4> QED BY <3>1, <3>3
    <3>5. Codes = C
      BY DEF Codes
    <3> QED BY <3>4, <3>5
  <2> QED BY <2>1, FS_Subset
<1> HIDE DEF S
<1>3. \A s \in SUBSET S : s # {} => Pick(s) \in S
  BY PickIsIn
<1>4. \A iter : Adds(iter, h, S) <=> iter = Body(iter)
  <2> TAKE iter
  <2>1. ASSUME NEW s \in SUBSET S
        PROVE  (IF s = {} THEN 0 ELSE h[Pick(s)] + iter[s \ {Pick(s)}]) = Body(iter)[s]
    <3>1. s # {} => Pick(s) \in S
      BY <1>3
    <3> QED BY <3>1
  <2>2. [s \in SUBSET S |-> IF s = {} THEN 0 ELSE h[Pick(s)] + iter[s \ {Pick(s)}]]
          = [s \in SUBSET S |-> Body(iter)[s]]
    <3> HIDE DEF Body, h
    <3> QED BY <2>1
  <2>3. Body(iter) = [s \in SUBSET S |-> Body(iter)[s]]
    OBVIOUS
  <2> HIDE DEF Body, h
  <2> QED BY <2>2, <2>3 DEF Adds
<1>5. \E F : Adds(F, h, S)
  BY <1>2, AddsExists
<1>6. I = Body(I)
  <2> HIDE DEF Body
  <2> QED BY <1>4, <1>5
<1>7. /\ I[{}] = 0
      /\ \A s \in SUBSET S : s # {} => I[s] = PenaltyOf(Pick(s)) + I[s \ {Pick(s)}]
  <2> HIDE DEF I
  <2> QED BY <1>6
<1> HIDE DEF I, Body
<1> DEFINE B == {s \in SUBSET S : I[s] # Cost(s)}
<1>8. B = {}
  <2> SUFFICES ASSUME B # {} PROVE FALSE
    OBVIOUS
  <2>1. PICK s \in B : \A t \in SUBSET s : t # s => t \notin B
    <3> HIDE DEF B
    <3>1. B \in SUBSET (SUBSET S)
      BY DEF B
    <3> QED BY <1>2, <3>1, SmallestSet
  <2>2. s \in SUBSET S /\ I[s] # Cost(s)
    BY <2>1
  <2>3. s # {}
    <3>1. Cost({}) = 0
      BY DEF Cost
    <3> QED BY <1>7, <2>2, <3>1
  <2>4. Pick(s) \in s
    BY <2>3, PickIsIn
  <2>5. I[s \ {Pick(s)}] = Cost(s \ {Pick(s)})
    BY <2>1, <2>4
  <2>6. Cost(s) = PenaltyOf(Pick(s)) + Cost(s \ {Pick(s)})
    BY <1>2, <2>2, <2>4, CostOfOne
  <2> QED BY <1>7, <2>2, <2>3, <2>5, <2>6
<1> QED BY <1>1, <1>8 DEF S
-------------------------------------------------------------------------------
(* Which fact wins *)

SeenOf(q, k) == {rows[n] : n \in {m \in 1..k : rows[m].quarter = q}}

\* r is selected over t, or they are filed alike.
Prevails(r, t) ==
  \/ r.tag < t.tag
  \/ r.tag = t.tag /\ r.filed > t.filed
  \/ r.tag = t.tag /\ r.filed = t.filed /\ r.accn >= t.accn

Wins(q) ==
  IF SeenOf(q, picked) = {} THEN best[q] = NoFact
  ELSE best[q] \in SeenOf(q, picked) /\ \A t \in SeenOf(q, picked) : Prevails(best[q], t)

LEMMA FactTypes ==
  /\ \A r \in Fact : r.tag \in Nat /\ r.filed \in Nat /\ r.accn \in Nat /\ r.quarter \in Contested
  /\ \A r \in Fact : r # NoFact
<1>1. \A r \in Fact : /\ r.tag \in Nat /\ r.tag # 0 /\ r.filed \in Nat /\ r.accn \in Nat
                     /\ r.quarter \in Contested
  BY SignalAssumption DEF Fact, Tags, SignalAssumption
<1>2. NoFact.tag = 0
  BY DEF NoFact
<1> QED BY <1>1, <1>2

\* Prevails is a total preorder, and Replaces decides by it.
LEMMA PrevailsIsOrder ==
  /\ \A r, s, t \in Fact : Prevails(r, s) /\ Prevails(s, t) => Prevails(r, t)
  /\ \A r, s \in Fact : Replaces(r, s) => Prevails(r, s)
  /\ \A r, s \in Fact : ~Replaces(r, s) => Prevails(s, r)
  /\ \A r \in Fact : Prevails(r, r) /\ Replaces(r, NoFact)
BY FactTypes DEF Prevails, Replaces

\* What Wins says of pairs is what BestFactWins says of the narrowing sets.
LEMMA WinnersWin ==
  ASSUME rows \in Seq(Fact), picked \in 0..Len(rows), \A q \in Contested : Wins(q)
  PROVE  BestFactWins
<1> SUFFICES ASSUME NEW q \in Contested
             PROVE  LET seen == SeenOf(q, picked)
                        top  == {r \in seen : \A t \in seen : r.tag <= t.tag}
                        late == {r \in top : \A t \in top : r.filed >= t.filed}
                    IN  IF seen = {} THEN best[q] = NoFact
                        ELSE best[q] \in {r \in late : \A t \in late : r.accn >= t.accn}
  BY DEF BestFactWins, SeenOf
<1> DEFINE seen == SeenOf(q, picked)
           top  == {r \in seen : \A t \in seen : r.tag <= t.tag}
           late == {r \in top : \A t \in top : r.filed >= t.filed}
<1>1. seen \subseteq Fact
  BY DEF SeenOf
<1>2. CASE seen = {}
  BY <1>2 DEF Wins
<1>3. CASE seen # {}
  <2> DEFINE b == best[q]
  <2>1. b \in seen /\ \A t \in seen : Prevails(b, t)
    BY <1>3 DEF Wins
  <2> HIDE DEF seen, b
  <2>2. \A t \in seen : /\ t.tag \in Nat /\ t.filed \in Nat /\ t.accn \in Nat
    BY <1>1, FactTypes
  <2>3. b \in top /\ \A t \in top : t.tag = b.tag
    BY <2>1, <2>2 DEF Prevails
  <2>4. b \in late /\ \A t \in late : t.filed = b.filed
    <3>1. \A t \in top : b.filed >= t.filed
      BY <2>1, <2>2, <2>3 DEF Prevails
    <3>2. b \in late
      BY <2>3, <3>1
    <3>3. \A t \in late : t.filed >= b.filed /\ t \in top /\ t \in seen
      BY <2>3
    <3> QED BY <2>1, <2>2, <3>1, <3>2, <3>3
  <2>5. \A t \in late : b.accn >= t.accn
    BY <2>1, <2>2, <2>3, <2>4 DEF Prevails
  <2> QED BY <1>3, <2>4, <2>5 DEF b, seen
<1> QED BY <1>2, <1>3

\* Selecting one more fact by Replaces leaves the winner of all seen so far.
LEMMA PickingWins ==
  ASSUME rows \in Seq(Fact), picked \in Nat, best \in [Contested -> Fact \union {NoFact}],
         \A q \in Contested : Wins(q), Picks
  PROVE  /\ best' \in [Contested -> Fact \union {NoFact}]
         /\ \A q \in Contested : Wins(q)'
<1> DEFINE r == rows[picked + 1]
<1>1. /\ r \in Fact /\ picked' = picked + 1 /\ rows' = rows
      /\ best' = IF Replaces(r, best[r.quarter])
                 THEN [best EXCEPT ![r.quarter] = r] ELSE best
  BY DEF Picks
<1>2. r.quarter \in Contested
  BY <1>1, FactTypes
<1>3. best' \in [Contested -> Fact \union {NoFact}]
  <2> HIDE DEF r
  <2> QED BY <1>1, <1>2
<1>4. ASSUME NEW q \in Contested
      PROVE  Wins(q)'
  <2> DEFINE old == SeenOf(q, picked)
             new == SeenOf(q, picked + 1)
  <2>1. Wins(q)' <=> IF new = {} THEN best'[q] = NoFact
                     ELSE best'[q] \in new /\ \A t \in new : Prevails(best'[q], t)
    BY <1>1 DEF Wins, SeenOf, Prevails
  <2>2. old \subseteq Fact
    BY DEF SeenOf, Picks
  <2>3. new = IF r.quarter = q THEN old \union {r} ELSE old
    <3>1. 1..(picked + 1) = (1..picked) \union {picked + 1}
      OBVIOUS
    <3> QED BY <3>1 DEF SeenOf
  <2>4. IF old = {} THEN best[q] = NoFact
        ELSE best[q] \in old /\ \A t \in old : Prevails(best[q], t)
    BY DEF Wins
  <2> HIDE DEF old, new, r
  <2>5. CASE r.quarter # q
    BY <1>1, <1>2, <2>1, <2>3, <2>4, <2>5
  <2>6. CASE r.quarter = q /\ Replaces(r, best[q])
    <3>1. best'[q] = r
      BY <1>1, <1>2, <2>6
    <3>2. \A t \in old : Prevails(r, t)
      BY <1>1, <2>2, <2>4, <2>6, PrevailsIsOrder
    <3> QED BY <1>1, <2>1, <2>3, <2>6, <3>1, <3>2, PrevailsIsOrder
  <2>7. CASE r.quarter = q /\ ~Replaces(r, best[q])
    <3>1. best'[q] = best[q] /\ best[q] # NoFact
      BY <1>1, <1>2, <2>7, PrevailsIsOrder
    <3>2. best[q] \in old /\ \A t \in old : Prevails(best[q], t)
      BY <2>4, <3>1
    <3>3. Prevails(best[q], r)
      BY <1>1, <2>2, <2>7, <3>2, PrevailsIsOrder
    <3> QED BY <2>1, <2>3, <2>7, <3>1, <3>2, <3>3
  <2> QED BY <2>5, <2>6, <2>7
<1> QED BY <1>3, <1>4
-------------------------------------------------------------------------------
(* How a quarter compares with the other companies *)

LEMMA LargestOf ==
  ASSUME NEW S, S # {}, S \subseteq 0..300
  PROVE  Max(S) \in Nat /\ \A x \in S : x <= Max(S)
<1> DEFINE D == {300 - x : x \in S}
<1>1. PICK d \in D : \A e \in D : d <= e
  <2>1. \A x \in S : 300 - x \in Nat
    OBVIOUS
  <2>2. D \in SUBSET Nat /\ D # {}
    BY <2>1
  <2> HIDE DEF D
  <2> QED BY <2>2, LeastOf
<1>2. \E x \in S : \A y \in S : x >= y
  <2>1. PICK x \in S : d = 300 - x
    BY <1>1
  <2>2. \A y \in S : d <= 300 - y
    BY <1>1
  <2> QED BY <2>1, <2>2
<1> DEFINE m == Max(S)
<1>3. m \in S /\ \A x \in S : m >= x
  BY <1>2 DEF Max
<1> HIDE DEF m
<1>4. m \in Nat /\ \A x \in S : x <= m
  BY <1>3
<1> QED BY <1>4 DEF m

LEMMA LargerOf ==
  ASSUME NEW a \in Int, NEW b \in Int
  PROVE  Max({a, b}) = IF a >= b THEN a ELSE b
<1>1. \E x \in {a, b} : \A y \in {a, b} : x >= y
  OBVIOUS
<1>2. Max({a, b}) \in {a, b} /\ Max({a, b}) >= a /\ Max({a, b}) >= b
  BY <1>1 DEF Max
<1> QED BY <1>2

LEMMA SmallerOf ==
  ASSUME NEW a \in Int, NEW b \in Int
  PROVE  Min({a, b}) = IF a <= b THEN a ELSE b
<1>1. \E x \in {a, b} : \A y \in {a, b} : x =< y
  OBVIOUS
<1>2. Min({a, b}) \in {a, b} /\ Min({a, b}) <= a /\ Min({a, b}) <= b
  BY <1>1 DEF Min
<1> QED BY <1>2

LEMMA RankIsPositive ==
  ASSUME NEW g \in Seq(Int)
  PROVE  Rank2(g) \in Nat /\ Rank2(g) >= 1
<1> DEFINE below == {n \in 1..Len(g) : g[n] < g[1]}
           same == {n \in 1..Len(g) : g[n] = g[1]}
<1>1. Cardinality(below) \in Nat /\ Cardinality(same) \in Nat
  <2>1. IsFiniteSet(1..Len(g))
    BY FS_Interval
  <2>2. IsFiniteSet(below) /\ IsFiniteSet(same)
    BY <2>1, FS_Subset
  <2> QED BY <2>2, FS_CardinalityType
<1>2. Rank2(g) = 2 * Cardinality(below) + Cardinality(same) + 1
  BY DEF Rank2, Count
<1> HIDE DEF below, same
<1> QED BY <1>1, <1>2

LEMMA DivisionBound ==
  ASSUME NEW a \in Int, NEW n \in Nat \ {0}, NEW k \in Int, a >= k * n
  PROVE  a \div n \in Int /\ a \div n >= k
OBVIOUS

\* The two parts of the component: z over its threshold, and distance in rank.
ZTenths(g) ==
  LET D == Distance(g)
  IN  {10 * k : k \in {k \in 0..30 : k * k * 4 * Variance(g) <= 100 * D * D}}
ZPart(g) == IF HasZ(g) THEN Max(ZTenths(g)) ELSE 0
RankPart(g) == (100 * Abs(Rank2(g) - Len(g))) \div Len(g)

\* The component is the larger of its parts; where z raises the alert it is past its
\* threshold.
LEMMA ComponentIs ==
  ASSUME NEW g \in Seq(Int), g # <<>>
  PROVE  /\ ZPart(g) \in Nat /\ RankPart(g) \in Nat /\ PeerComponent(g) \in Nat
         /\ PeerComponent(g) >= ZPart(g) /\ PeerComponent(g) >= RankPart(g)
         /\ ZSignal(g) # "none" => ZPart(g) >= 100
<1>1. PICK d \in Int, v \in Int, r \in Nat, n \in Nat \ {0} :
        d = Distance(g) /\ v = Variance(g) /\ r = Rank2(g) /\ n = Len(g)
  BY TotalsAreInt, RankIsPositive
<1> DEFINE tenths == {10 * k : k \in {k \in 0..30 : k * k * 4 * v <= 100 * d * d}}
<1>2. ZTenths(g) = tenths
  BY <1>1 DEF ZTenths
<1>3. tenths \subseteq 0..300 /\ tenths # {}
  <2>1. 0 * 0 * 4 * v <= 100 * d * d
    <3>1. d * d >= 0
      OBVIOUS
    <3> QED BY <3>1
  <2>2. 10 * 0 \in tenths
    BY <2>1
  <2>3. \A k \in 0..30 : 10 * k \in 0..300
    OBVIOUS
  <2> QED BY <2>2, <2>3
<1>4. Max(tenths) \in Nat /\ \A x \in tenths : x <= Max(tenths)
  <2> HIDE DEF tenths
  <2> QED BY <1>3, LargestOf
<1>5. ZPart(g) \in Nat
  <2> HIDE DEF tenths
  <2>1. Max(tenths) \in Nat
    BY <1>4
  <2>2. Max(ZTenths(g)) \in Nat
    BY <1>2, <2>1
  <2> QED BY <2>2 DEF ZPart
<1>6. RankPart(g) \in Nat
  <2>1. 100 * Abs(r - n) \in Int /\ 100 * Abs(r - n) >= 0 * n
    BY DEF Abs
  <2>2. (100 * Abs(r - n)) \div n \in Int /\ (100 * Abs(r - n)) \div n >= 0
    BY <2>1, DivisionBound
  <2>3. RankPart(g) = (100 * Abs(r - n)) \div n
    BY <1>1 DEF RankPart
  <2> QED BY <2>2, <2>3
<1>7. PeerComponent(g) = Max({ZPart(g), RankPart(g)})
  BY DEF PeerComponent, ZPart, RankPart, ZTenths
<1>8. ASSUME ZSignal(g) # "none" PROVE ZPart(g) >= 100
  <2>1. HasZ(g) /\ d * d > 4 * v
    BY <1>1, <1>8 DEF ZSignal
  <2>2. 10 * 10 * 4 * v <= 100 * d * d
    BY <2>1
  <2>3. 100 \in tenths
    <3>1. 10 \in {k \in 0..30 : k * k * 4 * v <= 100 * d * d}
      BY <2>2
    <3>2. 10 * 10 \in tenths
      BY <3>1
    <3> QED BY <3>2
  <2> QED BY <1>2, <1>4, <2>1, <2>3 DEF ZPart
<1> QED BY <1>5, <1>6, <1>7, <1>8, LargerOf

\* A company that stands out has a component to match: 80 by rank alone, and 100
\* where fewer than five companies are ranked or z decides.
LEMMA AlertWeighs ==
  ASSUME NEW g \in Seq(Int), g # <<>>, PeerAlert(g) \in {"high", "low"}
  PROVE  PeerComponent(g) >= IF Len(g) < 5 THEN 100 ELSE 80
<1>1. PICK r \in Nat, n \in Nat \ {0} : r = Rank2(g) /\ n = Len(g) /\ r >= 1
  BY RankIsPositive
<1>2. ZSignal(g) # "none" \/ RankSignal(g) # "none"
  <2> SUFFICES ASSUME ZSignal(g) = "none", RankSignal(g) = "none" PROVE FALSE
    OBVIOUS
  <2>1. {RankSignal(g), ZSignal(g)} \ {"none"} = {}
    OBVIOUS
  <2>2. PeerAlert(g) \in {"unavailable", "none"}
    BY <2>1, FS_EmptySet DEF PeerAlert
  <2> QED BY <2>2
<1>3. CASE ZSignal(g) # "none"
  BY <1>1, <1>3, ComponentIs
<1>4. CASE RankSignal(g) # "none"
  <2>1. 5 * r >= 9 * n \/ 5 * r <= n
    BY <1>1, <1>4 DEF RankSignal
  <2>2. 100 * Abs(r - n) >= 80 * n /\ 100 * Abs(r - n) \in Int
    BY <2>1 DEF Abs
  <2>3. n < 5 => 100 * Abs(r - n) >= 100 * n
    <3>1. n < 5 => n \in {1, 2, 3, 4}
      OBVIOUS
    <3> QED BY <1>1, <2>1, <3>1 DEF Abs
  <2>4. RankPart(g) \in Int /\ RankPart(g) >= 80 /\ (n < 5 => RankPart(g) >= 100)
    <3>1. RankPart(g) = (100 * Abs(r - n)) \div n
      BY <1>1 DEF RankPart
    <3> DEFINE a == 100 * Abs(r - n)
    <3> HIDE DEF a
    <3>2. a \div n \in Int /\ a \div n >= 80 /\ (n < 5 => a \div n >= 100)
      BY <2>2, <2>3, DivisionBound DEF a
    <3> QED BY <1>1, <3>1, <3>2 DEF a
  <2> QED BY <1>1, <2>4, ComponentIs
<1> QED BY <1>2, <1>3, <1>4
-------------------------------------------------------------------------------
(* The invariant *)

Extracted == {"fallback_tag_used", "duplicate_candidates_resolved"}
OfPanel == {"low_period_count", "missing_prior_period", "sparse_history",
            "limited_peer_coverage"}

\* What is known of a quarter that was compared: no company without a row is
\* ranked, and who stands out does so far enough.
Weighed(s) ==
  /\ s.values \in Nat /\ s.firms \in Nat /\ s.component \in Nat
  /\ s.values <= s.firms
  /\ s.alert \in {"high", "low"} =>
       s.component >= IF s.values < 5 THEN 100 ELSE 80

\* Selection is over once there is a panel, and a panel is made once: what was
\* compared and found was compared and found in the panel that is there.
SInv ==
  /\ SignalTypeOK
  /\ picked <= Len(rows) /\ Len(rows) <= MaxRows
  /\ \A q \in Contested : Wins(q)
  /\ noted \subseteq Extracted
  /\ panel # {} => rows = <<>> /\ best = NoBest
  /\ section # NoSection => panel # {} /\ Weighed(section)
  /\ finding # NoFinding => section # NoSection
  /\ GapIsFlagged

LEMMA SignalsStart == SignalInit => SInv
<1> SUFFICES ASSUME SignalInit PROVE SInv
  OBVIOUS
<1>1. PICK n \in 0..MaxRows : rows \in [1..n -> Fact]
  BY DEF SignalInit, Documents
<1>2. rows \in Seq(Fact) /\ Len(rows) = n /\ MaxRows \in Nat
  BY <1>1, SignalAssumption DEF SignalAssumption
<1>3. NoBest \in [Contested -> Fact \union {NoFact}]
  BY DEF NoBest
<1>4. \A q \in Contested : Wins(q)
  <2>1. \A q \in Contested : SeenOf(q, 0) = {} /\ NoBest[q] = NoFact
    BY DEF SeenOf, NoBest
  <2> QED BY <2>1 DEF Wins, SignalInit
<1> QED BY <1>1, <1>2, <1>3, <1>4 DEF SignalInit, SInv, SignalTypeOK, GapIsFlagged

LEMMA ComparedIsWeighed ==
  ASSUME NEW s \in CrossSections
  PROVE  Weighed([alert     |-> PeerAlert(Group(s)),
                  component |-> PeerComponent(Group(s)),
                  values    |-> Len(Group(s)),
                  firms     |-> Firms(s),
                  spread    |-> Spread(s.peers)])
<1>1. s.own \in Int /\ s.peers \in Seq(Int) /\ s.silent \in Nat
  BY SignalAssumption DEF SignalAssumption, SectionType
<1>2. /\ Group(s) \in Seq(Int) /\ Group(s) # <<>>
      /\ Len(Group(s)) = Len(s.peers) + 1 /\ Firms(s) = Len(s.peers) + s.silent + 1
  BY <1>1 DEF Group, Firms
<1>3. /\ PeerComponent(Group(s)) \in Nat
      /\ PeerAlert(Group(s)) \in {"high", "low"} =>
           PeerComponent(Group(s)) >= IF Len(Group(s)) < 5 THEN 100 ELSE 80
  BY <1>2, ComponentIs, AlertWeighs
<1> QED BY <1>1, <1>2, <1>3 DEF Weighed

\* What a step that finds something computes with.
LEMMA StrengthIs ==
  ASSUME section # NoSection, Weighed(section), NEW metric,
         NEW ratio \in SelfRatios \union {0}, NEW direction
  PROVE  /\ Strength(metric, ratio, direction) \in Nat
         /\ ratio > 0 => Strength(metric, ratio, direction) > 100
         /\ PeerFlag(metric) => Strength(metric, ratio, direction) >= section.component
<1>1. ratio \in Nat /\ (ratio > 0 => ratio > 100)
  BY SignalAssumption DEF SignalAssumption
<1>2. Min({ratio, 300}) = IF ratio <= 300 THEN ratio ELSE 300
  BY <1>1, SmallerOf
<1>3. section.component \in Nat
  BY DEF Weighed
<1> QED BY <1>1, <1>2, <1>3 DEF Strength

LEMMA CaveatsAreCodes ==
  ASSUME NEW metric, NEW flag \in BOOLEAN, NEW firms, noted \subseteq Extracted
  PROVE  /\ SelfCaveats(metric, flag) \subseteq Codes /\ noted \subseteq Codes
         /\ PanelCaveats(panel, firms) \subseteq OfPanel /\ OfPanel \subseteq Codes
BY DEF SelfCaveats, PanelCaveats, Codes, Extracted, OfPanel

LEMMA CostIsNat == ASSUME NEW s PROVE Cost(s) \in Nat
BY DEF Cost, PenaltyOf

LEMMA SelectionKept ==
  ASSUME SInv, UNCHANGED <<rows, picked, best>>
  PROVE  (\A q \in Contested : Wins(q))'
<1>1. \A q \in Contested : SeenOf(q, picked)' = SeenOf(q, picked)
  BY DEF SeenOf
<1>2. \A q \in Contested : Wins(q)
  BY DEF SInv
<1>3. \A q \in Contested : Wins(q)'
  BY <1>1, <1>2 DEF Wins
<1> QED BY <1>3 DEF Contested

LEMMA PickKeeps == ASSUME SInv, Picks PROVE SInv'
<1>1. /\ rows \in Seq(Fact) /\ picked \in 0..MaxRows /\ MaxRows \in Nat /\ Len(rows) \in Nat
      /\ best \in [Contested -> Fact \union {NoFact}]
  BY SignalAssumption DEF SInv, SignalTypeOK, SignalAssumption
<1>2. rows # <<>> /\ picked' = picked + 1 /\ picked + 1 <= Len(rows)
  BY <1>1 DEF Picks
<1>3. panel = {} /\ section = NoSection /\ finding = NoFinding
  BY <1>2 DEF SInv
<1>4. UNCHANGED <<rows, panel, noted, section, finding>>
  BY DEF Picks
<1>5. /\ best' \in [Contested -> Fact \union {NoFact}]
      /\ \A q \in Contested : Wins(q)'
  <2>1. \A q \in Contested : Wins(q)
    BY DEF SInv
  <2>2. picked \in Nat
    BY <1>1
  <2> QED BY <1>1, <2>1, <2>2, PickingWins
<1>6. picked' \in 0..MaxRows /\ picked' <= Len(rows) /\ Len(rows) <= MaxRows
  BY <1>1, <1>2 DEF SInv
<1>7. SignalTypeOK'
  BY <1>1, <1>3, <1>4, <1>5, <1>6 DEF SInv, SignalTypeOK
<1>8. (\A q \in Contested : Wins(q))'
  BY <1>5 DEF Contested
<1> QED BY <1>3, <1>4, <1>6, <1>7, <1>8 DEF SInv, GapIsFlagged

LEMMA NormalizeKeeps ==
  ASSUME SInv, NEW history \in SUBSET (Quarters \ Contested), Normalizes(history)
  PROVE  SInv'
<1>1. panel = {} /\ section = NoSection /\ finding = NoFinding
  <2>1. best[Now] # NoFact
    BY DEF Normalizes
  <2>2. NoBest[Now] = NoFact
    BY DEF NoBest, Contested
  <2> QED BY <2>1, <2>2 DEF SInv
<1>2. panel' \subseteq Quarters
  <2>1. Contested \subseteq Quarters
    BY SignalAssumption DEF SignalAssumption, Contested, Quarters
  <2> QED BY <2>1 DEF Normalizes
<1>3. /\ rows' = <<>> /\ picked' = 0 /\ best' = NoBest
      /\ UNCHANGED <<section, finding>>
      /\ noted' \subseteq Extracted
  BY DEF Normalizes, ExtractionCaveats, Extracted
<1>4. NoBest \in [Contested -> Fact \union {NoFact}] /\ MaxRows \in Nat
  BY SignalAssumption DEF NoBest, SignalAssumption
<1>5. \A q \in Contested : Wins(q)'
  <2>1. \A q \in Contested : SeenOf(q, picked)' = {} /\ NoBest[q] = NoFact
    BY <1>3 DEF SeenOf, NoBest
  <2> QED BY <1>3, <2>1 DEF Wins
<1>6. (\A q \in Contested : Wins(q))'
  BY <1>5 DEF Contested
<1> QED BY <1>1, <1>2, <1>3, <1>4, <1>6 DEF SInv, SignalTypeOK, GapIsFlagged

LEMMA CompareKeeps ==
  ASSUME SInv, NEW s \in CrossSections, Compares(s)
  PROVE  SInv'
<1>1. /\ panel # {} /\ section = NoSection /\ finding = NoFinding
      /\ UNCHANGED <<rows, picked, best, panel, noted, finding>>
  BY DEF Compares, SInv
<1>2. Weighed(section')
  BY ComparedIsWeighed DEF Compares
<1>3. (\A q \in Contested : Wins(q))'
  BY <1>1, SelectionKept
<1> QED BY <1>1, <1>2, <1>3 DEF SInv, SignalTypeOK, GapIsFlagged, Weighed

\* Across a gap the quarter before is not on the panel, and the full pipeline
\* adds the caveats of the panel.
LEMMA ScoreKeeps ==
  ASSUME SInv, NEW route \in Routes, NEW metric \in {"revenue", "growth"},
         NEW ratio \in SelfRatios \union {0}, NEW direction \in {"high", "low"},
         Scores(route, metric, ratio, direction)
  PROVE  SInv'
<1> DEFINE full == route = "run_pipeline"
           own == SelfCaveats(metric, ratio > 0)
           extracted == IF full /\ metric = "revenue" THEN noted ELSE {}
           ofPanel == IF full THEN PanelCaveats(panel, section.firms) ELSE {}
           penalty == PenaltyOfAll(own, extracted, ofPanel)
           raw == Strength(metric, ratio, direction)
<1>1. /\ section # NoSection /\ finding = NoFinding /\ Weighed(section)
      /\ UNCHANGED <<rows, picked, best, panel, noted, section>>
  BY DEF Scores, SInv
<1>2. /\ finding'.metric = metric /\ finding'.route = route
      /\ finding'.raw = raw /\ finding'.penalty = penalty
      /\ finding'.caveats = own \union extracted \union ofPanel
      /\ finding'.score = TakenOver(raw, Max({0, raw - penalty}))
  BY DEF Scores
<1>3. own \union extracted \union ofPanel \subseteq Codes
  <2>1. (ratio > 0) \in BOOLEAN /\ noted \subseteq Extracted
    BY DEF SInv
  <2>2. /\ own \subseteq Codes /\ noted \subseteq Codes
        /\ PanelCaveats(panel, section.firms) \subseteq Codes
    BY <2>1, CaveatsAreCodes
  <2> HIDE DEF own
  <2> QED BY <2>2
<1>4. raw \in Nat /\ penalty \in Nat
  <2>1. penalty = Cost(own \union extracted \union ofPanel)
    <3> HIDE DEF own, extracted, ofPanel
    <3> QED BY <1>3, PenaltyIsCost
  <2> QED BY <1>1, <2>1, CostIsNat, StrengthIs
<1>5. TakenOver(raw, Max({0, raw - penalty})) \in Nat
  <2> HIDE DEF raw, penalty
  <2>1. Max({0, raw - penalty}) = IF 0 >= raw - penalty THEN 0 ELSE raw - penalty
    BY <1>4, LargerOf
  <2> QED BY <1>4, <2>1 DEF TakenOver
<1>6. SignalTypeOK'
  <2> HIDE DEF raw, penalty, own, extracted, ofPanel
  <2> QED BY <1>1, <1>2, <1>4, <1>5 DEF SInv, SignalTypeOK
<1>7. GapIsFlagged'
  <2> SUFFICES ASSUME metric = "growth", full, Max(Earlier(panel)) # Now - 1
               PROVE  "missing_prior_period" \in ofPanel
    BY <1>1, <1>2 DEF GapIsFlagged, Earlier
  <2>1. Now - 1 \notin panel
    <3> SUFFICES ASSUME Now - 1 \in panel PROVE FALSE
      OBVIOUS
    <3>1. panel \subseteq 1..Now /\ Now \in Nat
      BY SignalAssumption DEF SInv, SignalTypeOK, Quarters, SignalAssumption
    <3>2. Now - 1 \in Earlier(panel) /\ \A q \in Earlier(panel) : Now - 1 >= q /\ q \in Int
      BY <3>1 DEF Earlier
    <3> DEFINE m == Max(Earlier(panel))
    <3>3. m \in Earlier(panel) /\ \A q \in Earlier(panel) : m >= q
      BY <3>2 DEF Max
    <3> HIDE DEF m
    <3>4. m = Now - 1
      BY <3>1, <3>2, <3>3
    <3> QED BY <3>4 DEF m
  <2> QED BY <2>1 DEF PanelCaveats
<1>8. (\A q \in Contested : Wins(q))'
  BY <1>1, SelectionKept
<1> HIDE DEF raw, penalty, own, extracted, ofPanel
<1> QED BY <1>1, <1>6, <1>7, <1>8 DEF SInv, Weighed

LEMMA SignalsStep == SInv /\ [SignalNext]_signalVars => SInv'
<1> SUFFICES ASSUME SInv, [SignalNext]_signalVars PROVE SInv'
  OBVIOUS
<1>1. CASE Picks
  BY <1>1, PickKeeps
<1>2. CASE \E history \in SUBSET (Quarters \ Contested) : Normalizes(history)
  BY <1>2, NormalizeKeeps
<1>3. CASE \E s \in CrossSections : Compares(s)
  BY <1>3, CompareKeeps
<1>4. CASE \E route \in Routes, metric \in {"revenue", "growth"},
             ratio \in SelfRatios \union {0}, direction \in {"high", "low"} :
             Scores(route, metric, ratio, direction)
  BY <1>4, ScoreKeeps
<1>5. CASE UNCHANGED signalVars
  <2>1. UNCHANGED <<rows, picked, best, panel, noted, section, finding>>
    BY <1>5 DEF signalVars
  <2>2. (\A q \in Contested : Wins(q))'
    BY <2>1, SelectionKept
  <2> QED BY <2>1, <2>2 DEF SInv, SignalTypeOK, GapIsFlagged, Earlier, Weighed
<1> QED BY <1>1, <1>2, <1>3, <1>4, <1>5 DEF SignalNext

LEMMA SignalsHold == SignalSpec => []SInv
<1> QED BY SignalsStart, SignalsStep, PTL DEF SignalSpec

\* Every reachable state has its types: in particular no score, no penalty and no
\* evidence of a finding (build_unified_findings) is ever negative.
THEOREM SignalTypeCorrect == SignalSpec => []SignalTypeOK
<1>1. SInv => SignalTypeOK
  BY DEF SInv
<1> QED BY <1>1, SignalsHold, PTL

\* Whatever the order of the facts in the documents, _pick_best_per_period holds the
\* fact of the most preferred concept, latest filing and highest accession number
\* of all it has looked at, at the end and after each of its steps.
THEOREM BestFactIsSelected == SignalSpec => []BestFactWins
<1>1. SInv => BestFactWins
  <2> SUFFICES ASSUME SInv PROVE BestFactWins
    OBVIOUS
  <2>1. rows \in Seq(Fact) /\ picked \in 0..Len(rows)
    BY SignalAssumption DEF SInv, SignalTypeOK, SignalAssumption
  <2> QED BY <2>1, WinnersWin DEF SInv
<1> QED BY <1>1, SignalsHold, PTL

\* A finding of the full pipeline about a growth across a missing quarter carries
\* the panel's missing_prior_period.
THEOREM GapsAreFlagged == SignalSpec => []GapIsFlagged
<1>1. SInv => GapIsFlagged
  BY DEF SInv
<1> QED BY <1>1, SignalsHold, PTL

-------------------------------------------------------------------------------
(* The penalty *)

\* Self caveats exclude each other: what the company's own history lacks is
\* listed only if that history flags the value.
LEMMA CostWithHistory ==
  ASSUME NEW c \in SUBSET Codes, "no_self_timeseries_flag" \notin c,
         ~({"insufficient_peer_coverage", "peer_zero_variance"} \subseteq c)
  PROVE  Cost(c) <= 100
BY DEF Cost, PenaltyOf

LEMMA CostWithoutHistory ==
  ASSUME NEW c \in SUBSET Codes,
         c \intersect {"insufficient_peer_coverage", "peer_zero_variance"} = {}
  PROVE  Cost(c) <= IF "limited_peer_coverage" \in c THEN 85 ELSE 60
BY DEF Cost, PenaltyOf

\* The caveats that can be held against a finding together cost less than what
\* speaks for it.  Flagged by its own history it has more than 100, against at most
\* 100.  Flagged by its peers only, it has 100 against 85 in a small section, where
\* limited_peer_coverage may count, and 80 against 60 in a large one.
LEMMA EvidenceOutweighs ==
  ASSUME MinPeerGroup <= 5, SInv, section # NoSection, Weighed(section),
         NEW metric \in {"revenue", "growth"}, NEW ratio \in SelfRatios \union {0},
         NEW direction, NEW extracted \in SUBSET Extracted, NEW ofPanel,
         ofPanel = {} \/ ofPanel = PanelCaveats(panel, section.firms),
         Flagged(metric, ratio)
  PROVE  Strength(metric, ratio, direction)
           > Cost(SelfCaveats(metric, ratio > 0) \union extracted \union ofPanel)
<1> DEFINE own == SelfCaveats(metric, ratio > 0)
           c == own \union extracted \union ofPanel
           raw == Strength(metric, ratio, direction)
<1>1. /\ ratio \in Nat /\ MinPeerGroup \in Nat
      /\ section.values \in Nat /\ section.firms \in Nat /\ section.component \in Nat
  BY SignalAssumption DEF SignalAssumption, Weighed
<1>2. (ratio > 0) \in BOOLEAN /\ noted \subseteq Extracted
  BY DEF SInv
<1>3. own \subseteq Codes /\ ofPanel \subseteq OfPanel /\ c \in SUBSET Codes
  <2>1. own \subseteq Codes /\ PanelCaveats(panel, section.firms) \subseteq OfPanel
    BY <1>2, CaveatsAreCodes
  <2>2. OfPanel \subseteq Codes /\ Extracted \subseteq Codes
    BY DEF OfPanel, Codes, Extracted
  <2> HIDE DEF own
  <2> QED BY <2>1, <2>2
<1>4. /\ (extracted \union ofPanel) \intersect
           {"no_self_timeseries_flag", "insufficient_peer_coverage", "peer_zero_variance"} = {}
      /\ "limited_peer_coverage" \notin own \union extracted
  BY <1>3 DEF Extracted, OfPanel, SelfCaveats
<1>5. raw \in Nat /\ Cost(c) \in Nat
  BY StrengthIs, CostIsNat
<1>6. CASE ratio > 0
  <2>1. raw > 100
    BY <1>6, StrengthIs
  <2>2. /\ "no_self_timeseries_flag" \notin own
        /\ ~({"insufficient_peer_coverage", "peer_zero_variance"} \subseteq own)
    BY <1>1, <1>6 DEF SelfCaveats
  <2>3. /\ "no_self_timeseries_flag" \notin c
        /\ ~({"insufficient_peer_coverage", "peer_zero_variance"} \subseteq c)
    <3> HIDE DEF own
    <3> QED BY <1>4, <2>2
  <2>4. Cost(c) <= 100
    <3> HIDE DEF c
    <3> QED BY <1>3, <2>3, CostWithHistory
  <2> HIDE DEF c, raw
  <2>5. raw > Cost(c)
    BY <1>5, <2>1, <2>4
  <2> QED BY <2>5 DEF c, raw
<1>7. CASE ~(ratio > 0)
  <2>1. PeerFlag(metric)
    BY <1>7 DEF Flagged
  <2>2. metric = "revenue" /\ section.alert \in {"high", "low"}
    BY <2>1 DEF PeerFlag, AlertOf
  <2>3. section.values = section.firms
    BY <2>2 DEF Flagged
  <2>4. section.component >= IF section.values < 5 THEN 100 ELSE 80
    BY <2>2 DEF Weighed
  <2>5. raw >= section.component
    BY <2>1, StrengthIs
  <2>6. own = {"no_self_timeseries_flag"}
    BY <1>7 DEF SelfCaveats
  <2>7. c \intersect {"insufficient_peer_coverage", "peer_zero_variance"} = {}
    <3> HIDE DEF own
    <3> QED BY <1>4, <2>6
  <2>8. Cost(c) <= IF "limited_peer_coverage" \in c THEN 85 ELSE 60
    <3> HIDE DEF c
    <3> QED BY <1>3, <2>7, CostWithoutHistory
  <2>9. "limited_peer_coverage" \in c => section.values < 5
    <3>1. "limited_peer_coverage" \in PanelCaveats(panel, section.firms)
             => section.firms < MinPeerGroup
      BY DEF PanelCaveats
    <3>2. "limited_peer_coverage" \in c
             => "limited_peer_coverage" \in PanelCaveats(panel, section.firms)
      <4> HIDE DEF own
      <4> QED BY <1>4
    <3> QED BY <1>1, <2>3, <3>1, <3>2
  <2> HIDE DEF c, raw
  <2>10. raw > Cost(c)
    <3>1. CASE "limited_peer_coverage" \in c
      BY <1>1, <1>5, <2>4, <2>5, <2>8, <2>9, <3>1
    <3>2. CASE "limited_peer_coverage" \notin c
      BY <1>1, <1>5, <2>4, <2>5, <2>8, <3>2
    <3> QED BY <3>1, <3>2
  <2> QED BY <2>10 DEF c, raw
<1> QED BY <1>6, <1>7

LEMMA PenaltyKept ==
  ASSUME MinPeerGroup <= 5, SInv, NEW route \in Routes, NEW metric \in {"revenue", "growth"},
         NEW ratio \in SelfRatios \union {0}, NEW direction \in {"high", "low"},
         Scores(route, metric, ratio, direction)
  PROVE  PenaltySurvives'
<1> DEFINE full == route = "run_pipeline"
           own == SelfCaveats(metric, ratio > 0)
           extracted == IF full /\ metric = "revenue" THEN noted ELSE {}
           ofPanel == IF full THEN PanelCaveats(panel, section.firms) ELSE {}
           cost == Cost(own \union extracted \union ofPanel)
           raw == Strength(metric, ratio, direction)
<1>1. section # NoSection /\ Weighed(section) /\ Flagged(metric, ratio)
  BY DEF Scores, SInv
<1>2. extracted \in SUBSET Extracted
  BY DEF SInv
<1>3. (ratio > 0) \in BOOLEAN /\ noted \subseteq Extracted
  BY DEF SInv
<1>4. own \union extracted \union ofPanel \subseteq Codes
  <2>1. /\ own \subseteq Codes /\ noted \subseteq Codes
        /\ PanelCaveats(panel, section.firms) \subseteq Codes
    BY <1>3, CaveatsAreCodes
  <2> HIDE DEF own
  <2> QED BY <2>1
<1>5. PenaltyOfAll(own, extracted, ofPanel) = cost
  <2> HIDE DEF own, extracted, ofPanel
  <2> QED BY <1>4, PenaltyIsCost
<1>6. raw > cost
  <2>1. ofPanel = {} \/ ofPanel = PanelCaveats(panel, section.firms)
    OBVIOUS
  <2> HIDE DEF extracted, ofPanel
  <2> QED BY <1>1, <1>2, <2>1, EvidenceOutweighs
<1>7. raw \in Nat /\ cost \in Nat
  BY <1>1, StrengthIs, CostIsNat
<1>8. /\ finding'.raw = raw
      /\ finding'.penalty = PenaltyOfAll(own, extracted, ofPanel)
      /\ finding'.score
           = TakenOver(raw, Max({0, raw - PenaltyOfAll(own, extracted, ofPanel)}))
  BY DEF Scores
<1> HIDE DEF raw, cost, own, extracted, ofPanel
<1>9. Max({0, raw - cost}) = raw - cost
  <2>1. Max({0, raw - cost}) = IF 0 >= raw - cost THEN 0 ELSE raw - cost
    BY <1>7, LargerOf
  <2> QED BY <1>6, <1>7, <2>1
<1>10. TakenOver(raw, raw - cost) = raw - cost
  BY <1>6, <1>7 DEF TakenOver
<1> QED BY <1>5, <1>8, <1>9, <1>10 DEF PenaltySurvives

\* The adjusted score of an anomaly is never zero, so build_unified_findings never
\* takes it for a missing one.  MIN_PEER_GROUP is 3; the theorem holds up to 5, the
\* number of companies from which rank alone can weigh as little as 80.
THEOREM PenaltyIsNeverUndone ==
  ASSUME MinPeerGroup <= 5
  PROVE  SignalSpec => []PenaltySurvives
<1>1. SignalInit => PenaltySurvives
  BY DEF SignalInit, PenaltySurvives
<1>2. SInv /\ PenaltySurvives /\ [SignalNext]_signalVars => PenaltySurvives'
  <2> SUFFICES ASSUME SInv, PenaltySurvives, [SignalNext]_signalVars
               PROVE  PenaltySurvives'
    OBVIOUS
  <2>1. CASE UNCHANGED finding
    BY <2>1 DEF PenaltySurvives
  <2>2. CASE \E route \in Routes, metric \in {"revenue", "growth"},
               ratio \in SelfRatios \union {0}, direction \in {"high", "low"} :
               Scores(route, metric, ratio, direction)
    BY <2>2, PenaltyKept
  <2> QED BY <2>1, <2>2 DEF SignalNext, signalVars, Picks, Normalizes, Compares
<1> QED BY <1>1, <1>2, SignalsHold, PTL DEF SignalSpec
====
