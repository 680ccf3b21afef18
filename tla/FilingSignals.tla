----------------------------- MODULE FilingSignals -----------------------------
(***************************************************************************)
(* The numeric pipeline, followed for one company and one quarter: which   *)
(* of several filed facts becomes the revenue of a quarter, what panel and *)
(* features remember of the quarters that are missing, and how the         *)
(* evidence for an anomaly and the caveats against it become a score.      *)
(*                                                                         *)
(* Sources: metric_extraction.py, normalization.py, metric_caveats.py,     *)
(* peer_signals.py, anomaly.py and findings.py of src/src.                 *)
(*                                                                         *)
(* Quarters are numbered in fiscal order.  A fact is what selection looks  *)
(* at: concept, quarter, filing date and accession number.  Scores are     *)
(* integers, in hundredths; mean, deviation and rank of a cross-section    *)
(* are computed exactly; |z| enters a score in tenths of its threshold.    *)
(***************************************************************************)
EXTENDS Integers, Sequences, FiniteSets, FiniteSetsExt

CONSTANTS
  Now,            \* the company's latest quarter, the one looked at
  NTags,          \* concepts for revenue, 1 is the preferred one
  MaxRows,        \* facts about the contested quarters
  CrossSections,  \* the quarter in the other companies, see SectionType
  SelfRatios,     \* |z| of a flagged value, in hundredths of ZSCORE_THRESHOLD
  ZScoreWindow, MinPeerGroup, MinPeriods

Quarters  == 1..Now
Contested == {Now - 1, Now}     \* the quarters whose facts are looked at one by one
Tags      == 1..NTags
Fact      == [tag : Tags, quarter : Contested, filed : 1..2, accn : 1..2]
NoFact    == [tag |-> 0]

\* own: the company's value.  peers: the values of the companies that report
\* the metric.  silent: the companies that have the quarter but not the metric.
SectionType(s) == s.own \in Int /\ s.peers \in Seq(Int) /\ s.silent \in Nat

ASSUME SignalAssumption ==
  /\ Now \in Nat /\ Now > 1
  /\ {NTags, MaxRows, ZScoreWindow, MinPeerGroup, MinPeriods} \subseteq Nat
  /\ \A r \in SelfRatios : r \in Nat /\ r > 100
  /\ \A s \in CrossSections : SectionType(s)

VARIABLES
  rows,      \* facts that passed the filters, as gathered: concept by concept
  picked,    \* how many of them selection has seen
  best,      \* quarter -> the fact selected so far
  panel,     \* quarters with revenue: the panel that is analysed
  noted,     \* extraction caveats of the quarter looked at
  section,   \* how the company's quarter compares with the other companies
  finding    \* the finding about one metric in that quarter

signalVars == <<rows, picked, best, panel, noted, section, finding>>

NoSection == [values |-> 0]
NoFinding == [metric |-> "none"]
NoBest    == [q \in Contested |-> NoFact]

\* _gather_tag_rows goes through the concepts in order of preference; within
\* one, the facts come in the order of the document, which is any.
Gathered(s) == \A m, n \in 1..Len(s) : m < n => s[m].tag <= s[n].tag
Documents == {s \in UNION {[1..n -> Fact] : n \in 0..MaxRows} : Gathered(s)}

-------------------------------------------------------------------------------
\* Extraction.

\* Mutant: a higher accession number wins whatever the filing date.
Replaces_AccnBeforeDate(r, current) ==
  \/ current = NoFact
  \/ r.tag < current.tag
  \/ r.tag = current.tag /\ (r.filed > current.filed \/ r.accn > current.accn)

\* Whether a fact replaces the one selected so far.
Replaces(r, current) ==
  \/ current = NoFact
  \/ r.tag < current.tag
  \/ r.tag = current.tag /\ r.filed > current.filed
  \/ r.tag = current.tag /\ r.filed = current.filed /\ r.accn > current.accn

\* What is noted about the fact that was selected.
ExtractionCaveats(r, all) ==
  {c \in {"fallback_tag_used", "duplicate_candidates_resolved"} :
     \/ c = "fallback_tag_used" /\ r.tag # 1
     \/ c = "duplicate_candidates_resolved"
          /\ Cardinality({n \in 1..Len(all) : all[n].quarter = r.quarter}) > 1}

Picks ==
  /\ picked < Len(rows)
  /\ LET r == rows[picked + 1]
     IN  best' = IF Replaces(r, best[r.quarter])
                 THEN [best EXCEPT ![r.quarter] = r] ELSE best
  /\ picked' = picked + 1
  /\ UNCHANGED <<rows, panel, noted, section, finding>>

\* The company's frame becomes panel rows, one for each quarter that has a
\* revenue.  history: the earlier quarters whose revenue nobody contests.
Normalizes(history) ==
  /\ picked = Len(rows) /\ best[Now] # NoFact
  /\ panel' = history \union {q \in Contested : best[q] # NoFact}
  /\ noted' = ExtractionCaveats(best[Now], rows)
  /\ rows' = <<>> /\ picked' = 0 /\ best' = NoBest
  /\ UNCHANGED <<section, finding>>

-------------------------------------------------------------------------------
\* Features and the caveats of the panel.

Earlier(qs) == {q \in qs : q < Now}

\* Whether the metric has a value in the quarter, and how many values the
\* window before it holds: the first quarter of a company has no growth.
HasValue(metric) == metric = "revenue" \/ Earlier(panel) # {}

BaselineOf(metric) ==
  LET before == Cardinality(Earlier(panel))
      first  == IF metric = "growth" /\ before \in 1..ZScoreWindow THEN 1 ELSE 0
  IN  Min({before, ZScoreWindow}) - first

\* Mutant: the previous row is taken for the previous quarter.
PanelCaveats_PreviousRow(qs, firms) ==
  {c \in {"low_period_count", "missing_prior_period", "sparse_history",
          "limited_peer_coverage"} :
     \/ c = "low_period_count"      /\ Cardinality(qs) < MinPeriods
     \/ c = "missing_prior_period"  /\ Earlier(qs) = {}
     \/ c = "sparse_history"        /\ Cardinality(Earlier(qs)) < ZScoreWindow
     \/ c = "limited_peer_coverage" /\ firms < MinPeerGroup}

PanelCaveats(qs, firms) ==
  {c \in {"low_period_count", "missing_prior_period", "sparse_history",
          "limited_peer_coverage"} :
     \/ c = "low_period_count"      /\ Cardinality(qs) < MinPeriods
     \/ c = "missing_prior_period"  /\ Now - 1 \notin qs
     \/ c = "sparse_history"        /\ Cardinality(Earlier(qs)) < ZScoreWindow
     \/ c = "limited_peer_coverage" /\ firms < MinPeerGroup}

-------------------------------------------------------------------------------
\* A quarter across companies.  group: the values, the company's own first.
Group(s) == <<s.own>> \o s.peers
Firms(s) == Len(s.peers) + s.silent + 1

Count(g, P(_)) == Cardinality({n \in 1..Len(g) : P(g[n])})
Total(g, f(_)) == MapThenSumSet(LAMBDA n : f(g[n]), 1..Len(g))
Abs(n) == IF n < 0 THEN -n ELSE n

\* Twice the average rank of the company, ties averaged.
Rank2(g) == LET Below(v) == v < g[1]
                Same(v)  == v = g[1]
            IN  2 * Count(g, Below) + Count(g, Same) + 1

\* Of n values: n times the distance to the mean, and n^2 times the variance.
Distance(g) == LET Id(v) == v IN Len(g) * g[1] - Total(g, Id)
Variance(g) == LET Id(v) == v  Square(v) == v * v
               IN  Len(g) * Total(g, Square) - Total(g, Id) * Total(g, Id)

\* peer_z needs three values and a variance.
HasZ(g) == Len(g) >= 3 /\ Variance(g) > 0

\* The signals of rank and of peer_z, each "high", "low" or neither.
RankSignal(g) ==
  CASE 5 * Rank2(g) >= 9 * Len(g) -> "high"
    [] 5 * Rank2(g) <= Len(g)     -> "low"
    [] OTHER                      -> "none"
ZSignal(g) ==
  IF ~HasZ(g) \/ Distance(g) * Distance(g) <= 4 * Variance(g) THEN "none"
  ELSE IF Distance(g) > 0 THEN "high" ELSE "low"

\* One value alone has no rank; where rank and z disagree, z decides.
PeerAlert(g) ==
  LET signals == {RankSignal(g), ZSignal(g)} \ {"none"}
  IN  IF Len(g) < 2 THEN "unavailable"
      ELSE IF Cardinality(signals) = 1 THEN CHOOSE s \in signals : TRUE
      ELSE ZSignal(g)

-------------------------------------------------------------------------------
\* Anomalies.

\* How far the company stands out, in hundredths: |z| over its alert threshold,
\* capped, or how far its percentile is from the middle, if that is more.
PeerComponent(g) ==
  LET D == Distance(g)
      z == IF HasZ(g) THEN Max({10 * k : k \in {k \in 0..30 : k * k * 4 * Variance(g) <= 100 * D * D}})
           ELSE 0
  IN  Max({z, (100 * Abs(Rank2(g) - Len(g))) \div Len(g)})

\* The leave-one-out deviation is defined where the other companies differ.
Spread(peers) == \E m, n \in 1..Len(peers) : peers[m] # peers[n]

\* Peer signals and leave-one-out deviation of the quarter: what the detector
\* goes by.
Compares(s) ==
  /\ panel # {} /\ section = NoSection
  /\ section' = [alert     |-> PeerAlert(Group(s)),
                 component |-> PeerComponent(Group(s)),
                 values    |-> Len(Group(s)),
                 firms     |-> Firms(s),
                 spread    |-> Spread(s.peers)]
  /\ UNCHANGED <<rows, picked, best, panel, noted, finding>>

SelfCaveats(metric, selfFlag) ==
  IF ~selfFlag THEN {"no_self_timeseries_flag"}
  ELSE {c \in {"sparse_history", "insufficient_peer_coverage", "peer_zero_variance"} :
          \/ c = "sparse_history" /\ BaselineOf(metric) < ZScoreWindow
          \/ c = "insufficient_peer_coverage" /\ section.values < MinPeerGroup
          \/ c = "peer_zero_variance" /\ section.values >= MinPeerGroup /\ ~section.spread}

PenaltyOf(c) ==
  CASE c \in {"insufficient_peer_coverage", "limited_peer_coverage"} -> 25
    [] c = "sparse_history"     -> 20
    [] c = "peer_zero_variance" -> 15
    [] c = "duplicate_candidates_resolved" -> 0
    [] OTHER -> 10

\* Mutant: each layer's caveats are counted for themselves.
PenaltyOfAll_PerLayer(own, extraction, ofPanel) ==
  MapThenSumSet(PenaltyOf, own) + MapThenSumSet(PenaltyOf, extraction)
    + MapThenSumSet(PenaltyOf, ofPanel)

\* The caveats of the three layers are merged: a code counts once.
PenaltyOfAll(own, extraction, ofPanel) ==
  MapThenSumSet(PenaltyOf, own \union extraction \union ofPanel)

\* Only run_pipeline hands the detector the caveats of extraction and panel;
\* the tool detect_anomalies leaves them out.
Routes == {"run_pipeline", "detect_anomalies"}

\* What build_unified_findings takes over: a score of zero counts as missing.
TakenOver(raw, adjusted) == IF adjusted # 0 THEN adjusted ELSE raw

\* Growth is not compared across companies.
AlertOf(metric) == IF metric = "revenue" THEN section.alert ELSE "none"
PeerFlag(metric) == AlertOf(metric) \in {"high", "low"}

\* ratio: the company's own |z|, 0 if it is not flagged; that takes a baseline of
\* two values.  All companies of a quarter have revenue.
Flagged(metric, ratio) ==
  /\ HasValue(metric)
  /\ metric = "revenue" => section.values = section.firms
  /\ ratio > 0 => BaselineOf(metric) >= 2
  /\ ratio > 0 \/ PeerFlag(metric)

\* What speaks for the anomaly, with a bonus if both views agree on its direction.
Strength(metric, ratio, direction) ==
  Min({ratio, 300}) + (IF PeerFlag(metric) THEN section.component ELSE 0)
    + (IF ratio > 0 /\ AlertOf(metric) = direction THEN 50 ELSE 0)

Scores(route, metric, ratio, direction) ==
  LET full      == route = "run_pipeline"
      own       == SelfCaveats(metric, ratio > 0)
      extracted == IF full /\ metric = "revenue" THEN noted ELSE {}
      ofPanel   == IF full THEN PanelCaveats(panel, section.firms) ELSE {}
      penalty   == PenaltyOfAll(own, extracted, ofPanel)
  IN  /\ section # NoSection /\ finding = NoFinding
      /\ Flagged(metric, ratio)
      /\ LET raw == Strength(metric, ratio, direction)
         IN  finding' = [route |-> route, metric |-> metric, raw |-> raw,
                         penalty |-> penalty,
                         caveats |-> own \union extracted \union ofPanel,
                         score |-> TakenOver(raw, Max({0, raw - penalty}))]
      /\ UNCHANGED <<rows, picked, best, panel, noted, section>>

SignalInit ==
  /\ rows \in Documents
  /\ picked = 0 /\ best = NoBest
  /\ panel = {} /\ noted = {} /\ section = NoSection /\ finding = NoFinding

SignalNext ==
  \/ Picks
  \/ \E history \in SUBSET (Quarters \ Contested) : Normalizes(history)
  \/ \E s \in CrossSections : Compares(s)
  \/ \E route \in Routes, metric \in {"revenue", "growth"}, ratio \in SelfRatios \union {0},
        direction \in {"high", "low"} : Scores(route, metric, ratio, direction)

SignalSpec == SignalInit /\ [][SignalNext]_signalVars

-------------------------------------------------------------------------------
SignalTypeOK ==
  /\ rows \in Seq(Fact) /\ picked \in 0..MaxRows
  /\ best \in [Contested -> Fact \union {NoFact}]
  /\ panel \subseteq Quarters
  /\ finding # NoFinding => /\ finding.metric \in {"revenue", "growth"}
                            /\ {finding.raw, finding.penalty, finding.score} \subseteq Nat

\* However the documents order the facts, the revenue of a quarter is one of the
\* most preferred concept reported, of the latest filing among those, and of the
\* highest accession number among those; a quarter without facts has none.
BestFactWins ==
  \A q \in Contested :
    LET seen == {rows[n] : n \in {m \in 1..picked : rows[m].quarter = q}}
        top  == {r \in seen : \A t \in seen : r.tag <= t.tag}
        late == {r \in top : \A t \in top : r.filed >= t.filed}
    IN  IF seen = {} THEN best[q] = NoFact
        ELSE best[q] \in {r \in late : \A t \in late : r.accn >= t.accn}

\* A penalty is never undone: the score that findings report is what is left of
\* the evidence after all caveats, and something is left.  (A finding takes a
\* score of zero for a missing one and would report the evidence in full.)
PenaltySurvives ==
  finding # NoFinding => finding.score = finding.raw - finding.penalty

\* Growth is computed against the last quarter on record, however long ago.  In
\* the full pipeline an anomaly in a growth across a gap says so.
GapIsFlagged ==
  finding # NoFinding /\ finding.metric = "growth" /\ finding.route = "run_pipeline" =>
    LET against == Max(Earlier(panel))
    IN  against # Now - 1 => "missing_prior_period" \in finding.caveats
================================================================================
