---------------------------- MODULE PipelineProofs ----------------------------
(***************************************************************************)
(* Proofs about PipelineRun, for any number of tickers, attempts, crashes, *)
(* lost leases and cancellations: the status that the coordinator reports  *)
(* is what happened to the plan, and a run that takes a result has the     *)
(* trace of the attempt that produced it.                                  *)
(***************************************************************************)
EXTENDS PipelineRun, FiniteSetTheorems, SequenceTheorems, TLAPS

K == Len(Tickers)

\* Where each tool stands in the anomaly template.
ToolAt(i) ==
  IF i <= K THEN "resolve_company"
  ELSE IF i <= 2 * K THEN "fetch_company_data"
  ELSE IF i = 2 * K + 1 THEN "build_panel"
  ELSE IF i = 2 * K + 2 THEN "compute_features"
  ELSE IF i = 2 * K + 3 THEN "detect_anomalies"
  ELSE "generate_report"

LEMMA TickersTyped == K \in Nat /\ K >= 1 /\ DOMAIN Tickers = 1..K
BY TickerAssumption DEF K

LEMMA PlanJoins ==
  ASSUME NEW s \in Seq(PlannedStep), NEW t \in Seq(PlannedStep),
         \A i \in 1..Len(s) : s[i].tool = ToolAt(i),
         \A i \in 1..Len(t) : t[i].tool = ToolAt(Len(s) + i)
  PROVE  /\ s \o t \in Seq(PlannedStep) /\ Len(s \o t) = Len(s) + Len(t)
         /\ \A i \in 1..(Len(s) + Len(t)) : (s \o t)[i].tool = ToolAt(i)
<1> DEFINE m == Len(s)  n == Len(t)
<1>0. m \in Nat /\ n \in Nat
  OBVIOUS
<1>1. /\ s \o t \in Seq(PlannedStep) /\ Len(s \o t) = m + n
      /\ \A i \in 1..(m + n) : (s \o t)[i] = IF i <= m THEN s[i] ELSE t[i - m]
  BY ConcatProperties
<1>2. ASSUME NEW i \in 1..(m + n) PROVE (s \o t)[i].tool = ToolAt(i)
  <2> HIDE DEF m, n
  <2>1. CASE i <= m
    BY <1>0, <1>1, <2>1 DEF m
  <2>2. CASE i > m
    <3>1. i - m \in 1..n /\ m + (i - m) = i
      BY <1>0, <2>2
    <3>2. t[i - m].tool = ToolAt(m + (i - m))
      BY <3>1 DEF m, n
    <3> QED BY <1>0, <1>1, <2>2, <3>1, <3>2
  <2>3. i <= m \/ i > m
    BY <1>0
  <2> QED BY <2>1, <2>2, <2>3
<1> QED BY <1>1, <1>2

LEMMA GranularShape ==
  /\ GranularPlan \in Seq(PlannedStep) /\ Len(GranularPlan) = 2 * K + 4
  /\ \A i \in 1..(2 * K + 4) : GranularPlan[i].tool = ToolAt(i)
<1> DEFINE for(tool) == [i \in DOMAIN Tickers |-> [tool |-> tool, ticker |-> Tickers[i]]]
           all(tool) == <<[tool |-> tool, ticker |-> NoTicker]>>
<1>1. \A i \in 1..K : Tickers[i] \in Range(Tickers)
  BY TickerAssumption, TickersTyped DEF Range
<1>2. ASSUME NEW t \in Granular
      PROVE  /\ for(t) \in Seq(PlannedStep) /\ Len(for(t)) = K
             /\ \A i \in 1..K : for(t)[i].tool = t
  <2>1. \A i \in 1..K : [tool |-> t, ticker |-> Tickers[i]] \in PlannedStep
    BY <1>1 DEF PlannedStep
  <2>2. for(t) \in [1..K -> PlannedStep]
    BY <2>1, TickersTyped
  <2>3. for(t) \in Seq(PlannedStep) /\ Len(for(t)) = K
    BY <2>2, TickersTyped
  <2>4. \A i \in 1..K : for(t)[i].tool = t
    BY TickersTyped
  <2> QED BY <2>3, <2>4
<1>3. ASSUME NEW t \in Granular
      PROVE  all(t) \in Seq(PlannedStep) /\ Len(all(t)) = 1 /\ all(t)[1].tool = t
  <2>1. [tool |-> t, ticker |-> NoTicker] \in PlannedStep
    BY DEF PlannedStep
  <2> QED BY <2>1
<1>4. GranularPlan = for("resolve_company") \o for("fetch_company_data") \o all("build_panel")
        \o all("compute_features") \o all("detect_anomalies") \o all("generate_report")
  BY DEF GranularPlan
<1> HIDE DEF for, all
<1> DEFINE s1 == for("resolve_company")      s2 == s1 \o for("fetch_company_data")
           s3 == s2 \o all("build_panel")    s4 == s3 \o all("compute_features")
           s5 == s4 \o all("detect_anomalies")
           s6 == s5 \o all("generate_report")
<1>5. /\ s1 \in Seq(PlannedStep) /\ Len(s1) = K
      /\ \A i \in 1..K : s1[i].tool = ToolAt(i)
  BY <1>2, TickersTyped DEF Granular, ToolAt
<1>6. /\ s2 \in Seq(PlannedStep) /\ Len(s2) = 2 * K
      /\ \A i \in 1..(2 * K) : s2[i].tool = ToolAt(i)
  <2> DEFINE f == for("fetch_company_data")
  <2>1. f \in Seq(PlannedStep) /\ Len(f) = K /\ \A i \in 1..K : f[i].tool = "fetch_company_data"
    BY <1>2 DEF Granular
  <2>2. \A i \in 1..K : ToolAt(K + i) = "fetch_company_data"
    BY TickersTyped DEF ToolAt
  <2> HIDE DEF f, s1
  <2>a. s1 \in Seq(PlannedStep) /\ Len(s1) = K /\ \A i \in 1..Len(s1) : s1[i].tool = ToolAt(i)
    BY <1>5
  <2>b. \A i \in 1..Len(f) : f[i].tool = ToolAt(Len(s1) + i)
    BY <2>1, <2>2, <2>a
  <2>c. /\ s1 \o f \in Seq(PlannedStep) /\ Len(s1 \o f) = Len(s1) + Len(f)
        /\ \A i \in 1..(Len(s1) + Len(f)) : (s1 \o f)[i].tool = ToolAt(i)
    BY <2>1, <2>a, <2>b, PlanJoins
  <2>3. s1 \o f \in Seq(PlannedStep) /\ Len(s1 \o f) = K + K
        /\ \A i \in 1..(K + K) : (s1 \o f)[i].tool = ToolAt(i)
    BY <2>1, <2>a, <2>c
  <2>4. s2 = s1 \o f /\ K + K = 2 * K
    BY TickersTyped DEF f
  <2> QED BY <2>3, <2>4
<1> HIDE DEF s2
<1>e. ASSUME NEW m \in Nat, NEW s \in Seq(PlannedStep), Len(s) = m,
             \A i \in 1..m : s[i].tool = ToolAt(i),
             NEW t \in Granular, ToolAt(m + 1) = t
      PROVE  /\ s \o all(t) \in Seq(PlannedStep) /\ Len(s \o all(t)) = m + 1
             /\ \A i \in 1..(m + 1) : (s \o all(t))[i].tool = ToolAt(i)
  <2>1. all(t) \in Seq(PlannedStep) /\ Len(all(t)) = 1 /\ all(t)[1].tool = t
    BY <1>3
  <2> HIDE DEF all
  <2>2. \A i \in 1..Len(all(t)) : all(t)[i].tool = ToolAt(Len(s) + i)
    BY <1>e, <2>1
  <2>3. \A i \in 1..Len(s) : s[i].tool = ToolAt(i)
    BY <1>e
  <2>4. /\ s \o all(t) \in Seq(PlannedStep) /\ Len(s \o all(t)) = Len(s) + Len(all(t))
        /\ \A i \in 1..(Len(s) + Len(all(t))) : (s \o all(t))[i].tool = ToolAt(i)
    BY <2>1, <2>2, <2>3, PlanJoins
  <2> QED BY <1>e, <2>1, <2>4
<1>7. /\ s3 \in Seq(PlannedStep) /\ Len(s3) = 2 * K + 1
      /\ \A i \in 1..(2 * K + 1) : s3[i].tool = ToolAt(i)
  <2>1. 2 * K \in Nat /\ ToolAt(2 * K + 1) = "build_panel"
        /\ "build_panel" \in Granular
    BY TickersTyped DEF ToolAt, Granular
  <2>2. s3 = s2 \o all("build_panel")
    OBVIOUS
  <2> HIDE DEF s3
  <2> QED BY <1>6, <1>e, <2>1, <2>2
<1> HIDE DEF s3
<1>8. /\ s4 \in Seq(PlannedStep) /\ Len(s4) = 2 * K + 2
      /\ \A i \in 1..(2 * K + 2) : s4[i].tool = ToolAt(i)
  <2>1. 2 * K + 1 \in Nat /\ ToolAt(2 * K + 1 + 1) = "compute_features"
        /\ "compute_features" \in Granular /\ 2 * K + 1 + 1 = 2 * K + 2
    BY TickersTyped DEF ToolAt, Granular
  <2>2. s4 = s3 \o all("compute_features")
    OBVIOUS
  <2> HIDE DEF s4
  <2> QED BY <1>7, <1>e, <2>1, <2>2
<1> HIDE DEF s4
<1>9. /\ s5 \in Seq(PlannedStep) /\ Len(s5) = 2 * K + 3
      /\ \A i \in 1..(2 * K + 3) : s5[i].tool = ToolAt(i)
  <2>1. 2 * K + 2 \in Nat /\ ToolAt(2 * K + 2 + 1) = "detect_anomalies"
        /\ "detect_anomalies" \in Granular /\ 2 * K + 2 + 1 = 2 * K + 3
    BY TickersTyped DEF ToolAt, Granular
  <2>2. s5 = s4 \o all("detect_anomalies")
    OBVIOUS
  <2> HIDE DEF s5
  <2> QED BY <1>8, <1>e, <2>1, <2>2
<1> HIDE DEF s5
<1>10. /\ s6 \in Seq(PlannedStep) /\ Len(s6) = 2 * K + 4
      /\ \A i \in 1..(2 * K + 4) : s6[i].tool = ToolAt(i)
  <2>1. 2 * K + 3 \in Nat /\ ToolAt(2 * K + 3 + 1) = "generate_report"
        /\ "generate_report" \in Granular /\ 2 * K + 3 + 1 = 2 * K + 4
    BY TickersTyped DEF ToolAt, Granular
  <2>2. s6 = s5 \o all("generate_report")
    OBVIOUS
  <2> HIDE DEF s6
  <2> QED BY <1>9, <1>e, <2>1, <2>2
<1> HIDE DEF s6
<1>11. GranularPlan = s6
  BY <1>4 DEF s6, s5, s4, s3, s2
<1> QED BY <1>10, <1>11

LEMMA SingleShape ==
  SinglePlan \in Seq(PlannedStep) /\ Len(SinglePlan) = 1 /\ SinglePlan[1].tool = "run_pipeline"
<1>1. [tool |-> "run_pipeline", ticker |-> NoTicker] \in PlannedStep
  BY DEF PlannedStep
<1> QED BY <1>1 DEF SinglePlan

-------------------------------------------------------------------------------
(* The executor *)

\* What the executor is given is a template.
Planned == plan = GranularPlan \/ plan = SinglePlan

\* What may have been executed when the loop goes on after s: failures of the
\* first two stages only, and some company resolved once all were tried.
GoesOn(s) ==
  /\ s \in Seq({"success", "error"}) /\ Len(s) < Len(plan)
  /\ \A i \in 1..Len(s) :
       plan[i].tool \in {"resolve_company", "fetch_company_data"} \/ s[i] = "success"
  /\ plan = GranularPlan /\ Len(s) >= K => \E i \in 1..K : s[i] = "success"

\* StatusIsHonest, of an output o for the executed steps s.
Honest(o, s) ==
  LET whole == Len(s) = Len(plan) /\ \A i \in DOMAIN s : s[i] = "success"
      some  == \E i \in DOMAIN s : s[i] = "success"
      panel == With("build_panel", "success", s) \cup With("run_pipeline", "success", s)
  IN  /\ o.status = "success" => whole /\ plan # << >> /\ ~o.errors
      /\ o.status = "partial_success" => some /\ ~whole
      /\ o.status = "no_data" => panel = {}
      /\ o.status = "error" => o.errors /\ (panel = {} \/ Last(s) = "interrupted")

LEMMA HonestIsHonest == Honest(output, done) => StatusIsHonest
BY DEF Honest, StatusIsHonest, Produced

\* The classification after the loop, when something succeeded and the loop
\* ended at a failure or at the end of the plan.
LEMMA PostLoop ==
  ASSUME NEW s \in Seq({"success", "error"}), Len(s) <= Len(plan), plan \in Seq(PlannedStep),
         NEW j \in 1..Len(s), s[j] = "success",
         Len(s) = Len(plan) \/ \E i \in 1..Len(s) : s[i] = "error",
         \A i \in 1..Len(s) : plan[i].tool = "resolve_company" /\ s[i] = "error" =>
            With("resolve_company", "success", s) # {} /\ Len(s) >= Cardinality(StepsOf("resolve_company")),
         NEW o, o.status = ClassifyPostLoop(s), o.errors = (Erred(s) \/ o.status = "error"),
         plan # << >>
  PROVE  Honest(o, s) /\ o.status \in {"success", "partial_success"}
<1>1. DOMAIN s = 1..Len(s) /\ \A i \in 1..Len(s) : s[i] \in {"success", "error"}
  OBVIOUS
<1>2. CASE \A i \in 1..Len(s) : s[i] = "success"
  <2>1. Len(s) = Len(plan)
    BY <1>2
  <2>2. ~Erred(s)
    BY <1>1, <1>2 DEF Erred
  <2>3. \A t \in Granular, st \in {"error", "no_data"} : With(t, st, s) = {}
    BY <1>2 DEF With, StepsOf
  <2>4. Noted(s) = {}
    BY <2>3 DEF Noted, Granular
  <2>5. o.status = "success" /\ ~o.errors
    BY <2>2, <2>4 DEF ClassifyPostLoop
  <2> QED BY <1>1, <1>2, <2>1, <2>5 DEF Honest
<1>3. ASSUME NEW i \in 1..Len(s), s[i] = "error"
      PROVE  Honest(o, s) /\ o.status \in {"success", "partial_success"}
  <2>1. Noted(s) # {} \/ Erred(s)
    <3>1. CASE plan[i].tool # "resolve_company"
      BY <1>1, <1>3, <3>1 DEF Erred
    <3>2. CASE plan[i].tool = "resolve_company"
      <4>1. i \in With("resolve_company", "error", s)
        BY <1>3, <3>2 DEF With, StepsOf
      <4>2. "partial_resolve" \in Noted(s)
        BY <1>3, <3>2, <4>1 DEF Noted, PartialWarnings
      <4> QED BY <4>2
    <3> QED BY <3>1, <3>2
  <2>2. o.status = "partial_success"
    BY <1>1, <2>1 DEF ClassifyPostLoop
  <2> QED BY <1>1, <1>3, <2>2 DEF Honest
<1> QED BY <1>1, <1>2, <1>3

LEMMA GranularSteps ==
  ASSUME plan = GranularPlan
  PROVE  /\ plan \in Seq(PlannedStep) /\ Len(plan) = 2 * K + 4
         /\ \A i \in 1..Len(plan) : plan[i].tool = ToolAt(i)
         /\ StepsOf("resolve_company") = 1..K /\ Cardinality(StepsOf("resolve_company")) = K
         /\ StepsOf("build_panel") = {2 * K + 1} /\ StepsOf("run_pipeline") = {}
<1>1. /\ plan \in Seq(PlannedStep) /\ Len(plan) = 2 * K + 4
      /\ \A i \in 1..Len(plan) : plan[i].tool = ToolAt(i)
  BY GranularShape
<1>2. StepsOf("resolve_company") = 1..K
  BY <1>1, TickersTyped DEF StepsOf, ToolAt
<1>3. StepsOf("build_panel") = {2 * K + 1}
  BY <1>1, TickersTyped, SMTT(20) DEF StepsOf, ToolAt
<1>4. StepsOf("run_pipeline") = {}
  BY <1>1, TickersTyped DEF StepsOf, ToolAt
<1>5. Cardinality(1..K) = K
  <2>1. 1 \in Int /\ K \in Int /\ ~(1 > K) /\ K - 1 + 1 = K
    BY TickersTyped
  <2> QED BY <2>1, FS_Interval
<1> QED BY <1>1, <1>2, <1>3, <1>4, <1>5

LEMMA SingleSteps ==
  ASSUME plan = SinglePlan
  PROVE  /\ plan \in Seq(PlannedStep) /\ Len(plan) = 1 /\ plan[1].tool = "run_pipeline"
         /\ StepsOf("run_pipeline") = {1}
         /\ \A t : t # "run_pipeline" => StepsOf(t) = {}
<1>1. plan \in Seq(PlannedStep) /\ Len(plan) = 1 /\ plan[1].tool = "run_pipeline"
  BY SingleShape
<1> QED BY <1>1 DEF StepsOf

Ended(s) == [status |-> After(s), warnings |-> Noted(s),
             errors |-> Erred(s) \/ After(s) = "error"]

LEMMA LoopLeaves ==
  ASSUME NEW s, plan[Len(s)].tool \notin {"resolve_company"},
         ~(plan[Len(s)].tool \in {"build_panel", "run_pipeline"} /\ s[Len(s)] = "no_data"),
         ~(plan[Len(s)].tool = "run_pipeline" /\ s[Len(s)] = "error"),
         \/ Len(s) = Len(plan)
         \/ /\ plan[Len(s)].tool \in {"build_panel", "compute_features", "detect_anomalies"}
            /\ s[Len(s)] = "error"
  PROVE  After(s) = ClassifyPostLoop(s)
BY DEF After

LEMMA EndedFields ==
  ASSUME NEW s
  PROVE  /\ Ended(s).status = After(s)
         /\ Ended(s).errors = (Erred(s) \/ After(s) = "error")
BY DEF Ended

\* One step of the single plan is the whole of it.
LEMMA SingleEnds ==
  ASSUME plan = SinglePlan, NEW st \in ToolStatus,
         NEW s \in Seq(ToolStatus), Len(s) = 1, s[1] = st
  PROVE  After(s) \in {"success", "no_data", "error"} /\ Honest(Ended(s), s)
<1>1. s \in Seq(ToolStatus) /\ Len(s) = 1 /\ s[1] = st /\ DOMAIN s = 1..1
  OBVIOUS
<1>2. /\ plan \in Seq(PlannedStep) /\ Len(plan) = 1 /\ plan[1].tool = "run_pipeline"
      /\ StepsOf("run_pipeline") = {1} /\ plan # << >>
      /\ \A t : t # "run_pipeline" => StepsOf(t) = {}
  BY SingleSteps
<1>3. With("build_panel", "success", s) = {}
  BY <1>2 DEF With
<1>4. CASE st = "success"
  <2>1. Noted(s) = {}
    BY <1>2 DEF Noted, With
  <2>2. ~Erred(s)
    BY <1>1, <1>4 DEF Erred
  <2>3. ClassifyPostLoop(s) = "success"
    BY <2>1, <2>2 DEF ClassifyPostLoop
  <2>4. After(s) = "success"
    BY <1>1, <1>2, <1>4, <2>3, LoopLeaves
  <2>5. Ended(s).status = "success" /\ ~Ended(s).errors
    BY <2>2, <2>4, EndedFields
  <2> QED BY <1>1, <1>2, <1>4, <2>4, <2>5 DEF Honest
<1>5. CASE st # "success"
  <2>1. After(s) = st /\ st \in {"no_data", "error"}
    BY <1>1, <1>2, <1>5 DEF After, ToolStatus
  <2>2. With("run_pipeline", "success", s) = {}
    BY <1>1, <1>2, <1>5 DEF With
  <2>3. Ended(s).status = st /\ (st = "error" => Ended(s).errors)
    BY <2>1, EndedFields
  <2> QED BY <1>3, <2>1, <2>2, <2>3 DEF Honest
<1> QED BY <1>4, <1>5

\* One step of the anomaly template.
LEMMA GranularGoes ==
  ASSUME plan = GranularPlan, GoesOn(done), NEW st \in Outcomes(plan[Len(done) + 1]),
         NEW s, s = Append(done, st)
  PROVE  \/ After(s) = "go" /\ GoesOn(s)
         \/ After(s) \in {"success", "partial_success", "no_data", "error"} /\ Honest(Ended(s), s)
<1> DEFINE n == Len(done) + 1
<1>1. /\ plan \in Seq(PlannedStep) /\ Len(plan) = 2 * K + 4 /\ plan # << >>
      /\ \A i \in 1..Len(plan) : plan[i].tool = ToolAt(i)
      /\ StepsOf("resolve_company") = 1..K /\ Cardinality(StepsOf("resolve_company")) = K
      /\ StepsOf("build_panel") = {2 * K + 1} /\ StepsOf("run_pipeline") = {}
  BY GranularSteps, TickersTyped
<1>2. /\ n \in 1..(2 * K + 4) /\ Len(s) = n /\ s[n] = st /\ DOMAIN s = 1..n
      /\ \A i \in 1..(n - 1) : s[i] = done[i] /\ s[i] \in {"success", "error"}
      /\ \A i \in 1..(n - 1) : i > 2 * K => s[i] = "success"
      /\ n > K => \E i \in 1..K : s[i] = "success"
  <2>1. done \in Seq({"success", "error"}) /\ Len(done) < 2 * K + 4
    BY <1>1 DEF GoesOn
  <2>2. Len(s) = n /\ s[n] = st /\ DOMAIN s = 1..n /\ n \in 1..(2 * K + 4)
    BY <2>1, TickersTyped
  <2>3. \A i \in 1..(n - 1) : s[i] = done[i] /\ s[i] \in {"success", "error"}
    BY <2>1
  <2>4. \A i \in 1..(n - 1) : i > 2 * K => s[i] = "success"
    <3> SUFFICES ASSUME NEW i \in 1..(n - 1), i > 2 * K PROVE s[i] = "success"
      OBVIOUS
    <3>1. i \in 1..Len(done) /\ i \in 1..Len(plan)
      BY <1>1, <2>1, TickersTyped
    <3>2. ToolAt(i) \notin {"resolve_company", "fetch_company_data"}
      BY TickersTyped DEF ToolAt
    <3>3. done[i] = "success"
      BY <1>1, <3>1, <3>2 DEF GoesOn
    <3> QED BY <2>3, <3>3
  <2>5. n > K => \E i \in 1..K : s[i] = "success"
    <3>1. SUFFICES ASSUME n > K PROVE \E i \in 1..K : s[i] = "success"
      OBVIOUS
    <3>2. PICK i \in 1..K : done[i] = "success"
      BY <2>1, <3>1, TickersTyped DEF GoesOn
    <3> QED BY <2>1, <2>3, <3>1, <3>2, TickersTyped
  <2> QED BY <2>2, <2>3, <2>4, <2>5
<1>3. plan[n].tool = ToolAt(n) /\ st \in ToolStatus
      /\ (n # 2 * K + 1 => st \in {"success", "error"})
  <2>1. plan[n].tool = ToolAt(n)
    BY <1>1, <1>2
  <2>2. st \in ToolStatus
    BY DEF Outcomes, ToolStatus
  <2>3. n # 2 * K + 1 => ToolAt(n) \notin {"build_panel", "run_pipeline"}
    BY <1>2, TickersTyped DEF ToolAt
  <2>4. plan[n].tool \notin {"build_panel", "run_pipeline"} => st \in {"success", "error"}
    BY DEF Outcomes
  <2> QED BY <2>1, <2>2, <2>3, <2>4
<1> HIDE DEF n
<1>n. n \in Nat /\ n >= 1 /\ n <= 2 * K + 4 /\ K \in Nat /\ K >= 1
  BY <1>2, TickersTyped
<1>s. ASSUME st \in {"success", "error"} PROVE s \in Seq({"success", "error"})
  BY <1>s DEF GoesOn
<1>r. With("run_pipeline", "success", s) = {}
  BY <1>1 DEF With
<1>4. CASE n <= K
  <2>1. ToolAt(n) = "resolve_company" /\ st \in {"success", "error"} /\ n # Len(plan)
    BY <1>1, <1>3, <1>4, <1>n DEF ToolAt
  <2>2. CASE n = K /\ With("resolve_company", "success", s) = {}
    <3>1. After(s) = "error"
      BY <1>1, <1>2, <1>3, <2>1, <2>2 DEF After
    <3>2. With("build_panel", "success", s) = {}
      BY <1>1, <1>2, <2>2, <1>n DEF With
    <3>3. Ended(s).status = "error" /\ Ended(s).errors
      BY <3>1, EndedFields
    <3> QED BY <1>r, <3>1, <3>2, <3>3 DEF Honest
  <2>3. CASE ~(n = K /\ With("resolve_company", "success", s) = {})
    <3>1. After(s) = "go"
      BY <1>1, <1>2, <1>3, <2>1, <2>3 DEF After
    <3>2. \A i \in 1..n : plan[i].tool = "resolve_company"
      BY <1>1, <1>4, <1>n DEF ToolAt
    <3>3. n >= K => \E i \in 1..K : s[i] = "success"
      BY <1>1, <1>4, <1>n, <2>3 DEF With
    <3> QED BY <1>1, <1>2, <1>s, <1>n, <1>4, <2>1, <3>1, <3>2, <3>3 DEF GoesOn
  <2> QED BY <2>2, <2>3
<1>5. CASE K < n /\ n <= 2 * K
  <2>1. ToolAt(n) = "fetch_company_data" /\ st \in {"success", "error"} /\ n # Len(plan)
    BY <1>1, <1>3, <1>5, <1>n DEF ToolAt
  <2>2. After(s) = "go"
    BY <1>2, <1>3, <2>1 DEF After
  <2>3. \A i \in 1..n : plan[i].tool \in {"resolve_company", "fetch_company_data"}
    BY <1>1, <1>5, <1>n DEF ToolAt
  <2> QED BY <1>1, <1>2, <1>s, <1>n, <1>5, <2>1, <2>2, <2>3 DEF GoesOn
<1>6. CASE n > 2 * K
  <2>1. PICK j \in 1..K : s[j] = "success"
    BY <1>2, <1>6, <1>n
  <2>2. j \in 1..n /\ With("resolve_company", "success", s) # {}
    <3>1. j \in 1..n
      BY <1>6, <1>n
    <3>2. j \in With("resolve_company", "success", s)
      BY <1>1, <1>2, <1>n, <2>1, <3>1 DEF With
    <3> QED BY <3>1, <3>2
  <2>3. /\ n = 2 * K + 1 => ToolAt(n) = "build_panel"
        /\ n # 2 * K + 1 => ToolAt(n) \in {"compute_features", "detect_anomalies", "generate_report"}
        /\ n < Len(plan) => ToolAt(n) # "generate_report"
    BY <1>1, <1>6, <1>n DEF ToolAt
  <2>4. CASE st = "no_data"
    <3>1. n = 2 * K + 1 /\ ToolAt(n) = "build_panel"
      BY <1>3, <2>3, <2>4
    <3>2. After(s) = "no_data"
      BY <1>2, <1>3, <2>4, <3>1 DEF After
    <3>3. With("build_panel", "success", s) = {}
      BY <1>1, <1>2, <2>4, <3>1 DEF With
    <3>4. Ended(s).status = "no_data"
      BY <3>2, EndedFields
    <3> QED BY <1>r, <3>2, <3>3, <3>4 DEF Honest
  <2>5. CASE st \in {"success", "error"} /\ (n = Len(plan) \/ st = "error")
    <3>0. /\ ToolAt(n) \notin {"resolve_company", "run_pipeline"} /\ st # "no_data"
          /\ n # Len(plan) => ToolAt(n) \in {"build_panel", "compute_features", "detect_anomalies"}
      BY <1>n, <1>1, <2>3, <2>5
    <3>1. After(s) = ClassifyPostLoop(s)
      BY <1>2, <1>3, <2>5, <3>0, LoopLeaves
    <3>2. s \in Seq({"success", "error"}) /\ Len(s) <= Len(plan)
      BY <1>1, <1>2, <1>s, <1>n, <2>5
    <3>3. Len(s) >= Cardinality(StepsOf("resolve_company"))
      BY <1>1, <1>2, <1>6, <1>n
    <3>4. n = Len(plan) \/ \E i \in 1..n : s[i] = "error"
      BY <1>2, <1>n, <2>5
    <3>5. /\ Ended(s).status = ClassifyPostLoop(s)
          /\ Ended(s).errors = (Erred(s) \/ Ended(s).status = "error")
      BY <3>1, EndedFields
    <3>6. Honest(Ended(s), s) /\ Ended(s).status \in {"success", "partial_success"}
      BY <1>1, <1>2, <2>1, <2>2, <3>2, <3>3, <3>4, <3>5, PostLoop
    <3> QED BY <3>6, EndedFields
  <2>6. CASE st = "success" /\ n # Len(plan)
    <3>1. After(s) = "go"
      BY <1>2, <1>3, <2>3, <2>6, <1>n, <1>1 DEF After
    <3>2. \A i \in 1..n : plan[i].tool \in {"resolve_company", "fetch_company_data"}
                          \/ s[i] = "success"
      BY <1>1, <1>2, <2>6, <1>n DEF ToolAt
    <3>3. s \in Seq({"success", "error"}) /\ Len(s) < Len(plan)
      BY <1>1, <1>2, <1>s, <1>n, <2>6
    <3> QED BY <1>2, <2>1, <3>1, <3>2, <3>3 DEF GoesOn
  <2> QED BY <1>3, <2>4, <2>5, <2>6 DEF ToolStatus
<1> QED BY <1>4, <1>5, <1>6, <1>n

-------------------------------------------------------------------------------
(* The inductive invariant *)

\* What an attempt starts with.
Forgotten == plan = << >> /\ done = << >> /\ output = NoOutput

\* A queued run has no attempt under way; an attempt has executed nothing before
\* its plan is made, goes on while the loop runs, and has a status afterwards.
Control ==
  /\ analysis = "queued" => phase = "idle" /\ Forgotten /\ ~leaseLost
  /\ phase # "idle" => analysis \in {"running", "cancelled"}
  /\ phase = "plan" => Forgotten
  /\ phase = "steps" => Planned /\ GoesOn(done) /\ output = NoOutput
  /\ phase \in {"trace", "critic", "report", "store"} => output.status \in Reported

\* Only a lost lease interrupts the loop, and it stays lost.
Undisturbed == (\E i \in 1..Len(done) : done[i] = "interrupted") => leaseLost

TracedSteps == \A i \in 1..Len(plan) : trace[i] = ToolRows[i]

\* The rows committed so far are this attempt's, once the critic accepted them.
Rows ==
  /\ phase = "critic" /\ Len(trace) = Len(plan) => TracedSteps
  /\ phase \in {"report", "store"} =>
       TracedSteps /\ Len(trace) = Len(plan) + 1 /\ trace[Len(plan) + 1].of = "critic"
  /\ phase = "store" =>
       /\ Len(unsaved) = 1 /\ unsaved[1].of = "report"
       /\ unsaved[1].status = "success" => trace[Len(plan) + 1].status = "success"

PipeInv == PipeTypeOK /\ Control /\ Undisturbed /\ Rows /\ Honest(output, done)

LEMMA HonestNext ==
  ASSUME NEW o, NEW s, Honest(o, s), plan' = plan, output' = o, done' = s
  PROVE  Honest(output, done)'
BY DEF Honest, With, StepsOf

LEMMA HonestOpen == ASSUME output = NoOutput PROVE Honest(output, done)
BY DEF Honest, NoOutput

LEMMA GoesOnNext == ASSUME GoesOn(done), plan' = plan PROVE GoesOn(done)' \/ done' # done
BY DEF GoesOn

LEMMA TracedNext ==
  ASSUME TracedSteps, UNCHANGED <<plan, done, trace>> PROVE TracedSteps'
BY DEF TracedSteps, ToolRows, RowOf

LEMMA NoOutputTyped == NoOutput \in Output /\ NoOutput.status = "open"
BY DEF NoOutput, Output

LEMMA ToolRowsTyped ==
  ASSUME PipeTypeOK
  PROVE  ToolRows \in Seq(StepRow) /\ Len(ToolRows) = Len(plan)
<1>1. ASSUME NEW i \in 1..Len(plan)
      PROVE  (IF i <= Len(done) THEN RowOf(done[i]) ELSE [of |-> "tool", status |-> "skipped"])
               \in StepRow
  <2>1. i <= Len(done) => done[i] \in ToolStatus \cup {"interrupted"}
    BY DEF PipeTypeOK
  <2> QED BY <2>1 DEF RowOf, StepRow, ToolStatus
<1>2. Len(plan) \in Nat
  BY DEF PipeTypeOK
<1> DEFINE n == Len(plan)
<1>3. ToolRows \in [1..n -> StepRow]
  BY <1>1 DEF ToolRows
<1> HIDE DEF n
<1>4. n \in Nat => ToolRows \in Seq(StepRow) /\ Len(ToolRows) = n
  BY <1>3
<1> QED BY <1>2, <1>4 DEF n

LEMMA PipeInitInv == PipeInit => PipeInv
<1> SUFFICES ASSUME PipeInit PROVE PipeInv
  OBVIOUS
<1>1. PipeTypeOK
  BY NoOutputTyped DEF PipeInit, PipeTypeOK, Phases, AnalysisRunStatus
<1>2. Control /\ Undisturbed /\ Rows
  BY DEF PipeInit, Control, Undisturbed, Rows, Forgotten
<1>3. Honest(output, done)
  BY HonestOpen DEF PipeInit
<1> QED BY <1>1, <1>2, <1>3 DEF PipeInv

\* A step that leaves the attempt alone and does not enter a later phase of it.
LEMMA KeepsAttempt ==
  ASSUME PipeInv, UNCHANGED <<plan, done, output, trace>>,
         (phase' = phase /\ unsaved' = unsaved) \/ (phase' = "idle" /\ unsaved' = << >>),
         leaseLost => leaseLost',
         analysis' \in AnalysisRunStatus,
         analysis' = "queued" => analysis = "queued" /\ UNCHANGED <<leaseLost, phase>>,
         phase' # "idle" => analysis' \in {"running", "cancelled"}
  PROVE  PipeInv'
<1>1. PipeTypeOK'
  <2>1. phase' \in Phases
    BY DEF PipeInv, PipeTypeOK, Phases
  <2>2. unsaved \in Seq(StepRow) /\ << >> \in Seq(StepRow)
    BY DEF PipeInv, PipeTypeOK
  <2>3. unsaved' = unsaved \/ unsaved' = << >>
    OBVIOUS
  <2> QED BY <2>1, <2>2, <2>3 DEF PipeInv, PipeTypeOK
<1>2. Control'
  <2>1. phase' = "steps" => GoesOn(done)'
    BY GoesOnNext DEF PipeInv, Control
  <2> QED BY <2>1 DEF PipeInv, Control, Forgotten, Planned
<1>3. Undisturbed'
  BY DEF PipeInv, Undisturbed
<1>4. Rows'
  BY TracedNext DEF PipeInv, Rows
<1>5. Honest(output, done)'
  BY HonestNext DEF PipeInv
<1> QED BY <1>1, <1>2, <1>3, <1>4, <1>5 DEF PipeInv

\* A step that ends the attempt and forgets it.
LEMMA ForgetsAttempt ==
  ASSUME PipeInv, Forget, trace' = trace, phase' = "idle",
         unsaved' \in Seq(StepRow), analysis' \in AnalysisRunStatus
  PROVE  PipeInv'
<1>1. PipeTypeOK'
  BY NoOutputTyped DEF PipeInv, PipeTypeOK, Phases, Forget
<1>2. Control' /\ Undisturbed' /\ Rows'
  BY DEF Control, Undisturbed, Rows, Forget, Forgotten
<1>3. Honest(output, done)'
  BY DEF Honest, NoOutput, Forget
<1> QED BY <1>1, <1>2, <1>3 DEF PipeInv

LEMMA BeginAttemptInv == PipeInv /\ BeginAttempt => PipeInv'
<1> SUFFICES ASSUME PipeInv, BeginAttempt PROVE PipeInv'
  OBVIOUS
<1>1. PipeTypeOK'
  BY DEF PipeInv, PipeTypeOK, Phases, BeginAttempt, AnalysisRunStatus
<1>2. Control' /\ Undisturbed' /\ Rows'
  BY DEF PipeInv, Control, Undisturbed, Rows, BeginAttempt, Forgotten
<1>3. Honest(output, done)'
  BY HonestNext DEF PipeInv, BeginAttempt
<1> QED BY <1>1, <1>2, <1>3 DEF PipeInv

LEMMA PlanMadeInv == PipeInv /\ PlanMade => PipeInv'
<1> SUFFICES ASSUME PipeInv, PlanMade PROVE PipeInv'
  OBVIOUS
<1>1. /\ plan' \in Seq(PlannedStep) /\ Len(plan') >= 1
      /\ plan' = GranularPlan \/ plan' = SinglePlan
  <2>1. plan' = GranularPlan \/ plan' = SinglePlan
    BY DEF PlanMade
  <2>2. Len(GranularPlan) >= 1 /\ Len(SinglePlan) >= 1
    BY GranularShape, SingleShape, TickersTyped
  <2>3. GranularPlan \in Seq(PlannedStep) /\ SinglePlan \in Seq(PlannedStep)
    BY GranularShape, SingleShape
  <2> QED BY <2>1, <2>2, <2>3
<1>2. done' = << >> /\ output' = NoOutput /\ Len(done') = 0
  BY DEF PipeInv, Control, PlanMade, Forgotten
<1>3. PipeTypeOK'
  BY <1>1, <1>2 DEF PipeInv, PipeTypeOK, Phases, PlanMade
<1>4. GoesOn(done)'
  <2>1. Len(done') < Len(plan') /\ ~(Len(done') >= K)
    BY <1>1, <1>2, TickersTyped
  <2>2. K' = K /\ GranularPlan' = GranularPlan
    BY DEF K, GranularPlan
  <2>3. done' \in Seq({"success", "error"}) /\ 1..Len(done') = {}
    BY <1>2
  <2> QED BY <2>1, <2>2, <2>3 DEF GoesOn
<1>5. Planned'
  BY <1>1 DEF Planned, GranularPlan, SinglePlan
<1>6. Control'
  BY <1>2, <1>4, <1>5 DEF PipeInv, Control, PlanMade
<1>7. Undisturbed' /\ Rows'
  BY <1>2 DEF Undisturbed, Rows, PlanMade
<1>8. Honest(output, done)'
  BY <1>2 DEF Honest, NoOutput
<1> QED BY <1>3, <1>6, <1>7, <1>8 DEF PipeInv

LEMMA PlanFailsInv == PipeInv /\ PlanFails => PipeInv'
<1> SUFFICES ASSUME PipeInv, PlanFails PROVE PipeInv'
  OBVIOUS
<1>1. /\ output' \in Output /\ output'.status = "error" /\ output'.errors
      /\ done' = << >> /\ done = << >> /\ plan' = << >> /\ Len(done') = 0
  BY DEF PipeInv, Control, Forgotten, PlanFails, Output, NoOutput, Reported
<1>2. PipeTypeOK'
  BY <1>1 DEF PipeInv, PipeTypeOK, Phases, PlanFails
<1>3. Control' /\ Undisturbed' /\ Rows'
  BY <1>1 DEF PipeInv, Control, Undisturbed, Rows, PlanFails, Reported
<1>4. Honest(output, done)'
  BY <1>1 DEF Honest, With, StepsOf
<1> QED BY <1>2, <1>3, <1>4 DEF PipeInv

\* What the executor emits is well typed.
LEMMA EmittedTyped ==
  ASSUME NEW status \in Reported, NEW s
  PROVE  [status |-> status, warnings |-> Noted(s), errors |-> Erred(s) \/ status = "error"]
           \in Output
<1>1. Noted(s) \in SUBSET PartialWarnings /\ Erred(s) \in BOOLEAN
  BY DEF Noted, Erred
<1> QED BY <1>1 DEF Output

LEMMA ExecuteStepInv == PipeInv /\ ExecuteStep => PipeInv'
<1> SUFFICES ASSUME PipeInv, ExecuteStep PROVE PipeInv'
  OBVIOUS
<1>1. /\ phase = "steps" /\ Planned /\ GoesOn(done) /\ output = NoOutput /\ ~leaseLost
      /\ analysis \in {"running", "cancelled"}
      /\ done \in Seq({"success", "error"}) /\ Len(done) < Len(plan)
      /\ plan \in Seq(PlannedStep)
  BY DEF PipeInv, PipeTypeOK, Control, ExecuteStep, GoesOn
<1>2. ~ \E i \in 1..Len(done) : done[i] = "interrupted"
  BY <1>1
<1>3. UNCHANGED <<analysis, plan, trace, unsaved, leaseLost>>
  BY DEF ExecuteStep
<1>4. CASE NothingFetched
  <2>1. output' = [status |-> "no_data", warnings |-> Noted(done),
                   errors |-> Erred(done) \/ "no_data" = "error"]
        /\ phase' = "trace" /\ done' = done
    BY <1>4 DEF ExecuteStep, Emit
  <2>2. output' \in Output /\ output'.status = "no_data" /\ "no_data" \in Reported
    BY <2>1, EmittedTyped DEF Reported
  <2>3. With("build_panel", "success", done) \cup With("run_pipeline", "success", done) = {}
    <3>1. plan = GranularPlan
      <4>1. plan # SinglePlan
        <5>1. Len(done) + 1 \in 1..Len(plan) /\ plan[Len(done) + 1].tool = "build_panel"
          BY <1>1, <1>4 DEF NothingFetched
        <5> SUFFICES ASSUME plan = SinglePlan PROVE FALSE
          OBVIOUS
        <5>2. Len(done) + 1 = 1
          BY <1>1, <5>1, SingleShape
        <5> QED BY <5>1, <5>2, SingleShape
      <4> QED BY <1>1, <4>1 DEF Planned
    <3>2. /\ StepsOf("build_panel") = {2 * K + 1} /\ StepsOf("run_pipeline") = {}
          /\ \A i \in 1..Len(plan) : plan[i].tool = ToolAt(i)
          /\ Len(plan) = 2 * K + 4
      BY <3>1, GranularSteps
    <3>3. Len(done) + 1 = 2 * K + 1
      <4>1. Len(done) + 1 \in 1..Len(plan) /\ plan[Len(done) + 1].tool = "build_panel"
        BY <1>1, <1>4 DEF NothingFetched
      <4>2. Len(done) + 1 \in StepsOf("build_panel")
        BY <4>1 DEF StepsOf
      <4> QED BY <3>2, <4>2
    <3> QED BY <1>1, <3>2, <3>3, TickersTyped DEF With
  <2>4. Honest(output', done)
    BY <2>2, <2>3 DEF Honest
  <2>5. Honest(output, done)'
    BY <1>3, <2>1, <2>4, HonestNext
  <2>6. PipeTypeOK'
    BY <1>3, <2>1, <2>2 DEF PipeInv, PipeTypeOK, Phases
  <2>7. Control'
    BY <1>1, <1>3, <2>1, <2>2 DEF Control
  <2>8. Undisturbed' /\ Rows'
    BY <1>2, <2>1 DEF Undisturbed, Rows
  <2> QED BY <2>5, <2>6, <2>7, <2>8 DEF PipeInv
<1>5. CASE ~NothingFetched
  <2>1. PICK st \in Outcomes(plan[Len(done) + 1]) :
          LET s == Append(done, st) IN
            /\ done' = s
            /\ IF After(s) = "go"
               THEN UNCHANGED <<phase, output>>
               ELSE Emit(After(s), s) /\ phase' = "trace"
    BY <1>5 DEF ExecuteStep
  <2> DEFINE s == Append(done, st)
  <2>2. /\ done' = s
        /\ After(s) = "go" => phase' = phase /\ output' = output
        /\ After(s) # "go" => output' = Ended(s) /\ phase' = "trace"
    BY <2>1 DEF Emit, Ended
  <2>3. /\ s \in Seq(ToolStatus) /\ Len(s) = Len(done) + 1 /\ Len(s) <= Len(plan)
        /\ \A i \in 1..Len(s) : s[i] # "interrupted"
    <3>1. st \in ToolStatus
      BY DEF Outcomes, ToolStatus
    <3>2. done \in Seq(ToolStatus)
      BY <1>1 DEF ToolStatus
    <3>3. s \in Seq(ToolStatus) /\ Len(s) = Len(done) + 1
      BY <3>1, <3>2
    <3>4. \A i \in 1..Len(s) : s[i] \in ToolStatus
      BY <3>3
    <3> QED BY <1>1, <3>3, <3>4 DEF ToolStatus
  <2>4. \/ After(s) = "go" /\ GoesOn(s)
        \/ After(s) \in {"success", "partial_success", "no_data", "error"} /\ Honest(Ended(s), s)
    <3>1. CASE plan = GranularPlan
      BY <1>1, <3>1, GranularGoes
    <3>2. CASE plan = SinglePlan
      <4>1. Len(done) = 0
        BY <1>1, <3>2, SingleShape
      <4>2. Len(s) = 1 /\ s[1] = st /\ st \in ToolStatus
        BY <1>1, <2>3, <4>1
      <4> HIDE DEF s
      <4> QED BY <2>3, <3>2, <4>2, SingleEnds
    <3> QED BY <1>1, <3>1, <3>2 DEF Planned
  <2> HIDE DEF s
  <2>5. Undisturbed' /\ (PipeTypeOK /\ output' \in Output /\ phase' \in Phases => PipeTypeOK')
    <3>1. s \in Seq(ToolStatus \cup {"interrupted"})
      BY <2>3
    <3> QED BY <1>3, <2>2, <2>3, <3>1 DEF Undisturbed, PipeTypeOK
  <2>6. CASE After(s) = "go"
    <3>1. GoesOn(s)
      BY <2>4, <2>6
    <3>2. GoesOn(done)'
      <4>1. K' = K /\ GranularPlan' = GranularPlan
        BY DEF K, GranularPlan
      <4> QED BY <1>3, <2>2, <3>1, <4>1 DEF GoesOn
    <3>3. Planned'
      BY <1>1, <1>3 DEF Planned, GranularPlan, SinglePlan
    <3>4. output' = NoOutput /\ phase' = "steps"
      BY <1>1, <2>2, <2>6
    <3>5. Control'
      BY <1>1, <1>3, <3>2, <3>3, <3>4 DEF Control
    <3>6. Rows' /\ Honest(output, done)'
      BY <3>4 DEF Rows, Honest, NoOutput
    <3>7. PipeTypeOK'
      BY <2>5, <3>4, NoOutputTyped DEF PipeInv, Phases
    <3> QED BY <2>5, <3>5, <3>6, <3>7 DEF PipeInv
  <2>7. CASE After(s) # "go"
    <3>1. /\ After(s) \in Reported /\ Honest(Ended(s), s)
          /\ output' = Ended(s) /\ phase' = "trace"
      BY <2>2, <2>4, <2>7 DEF Reported
    <3>2. Ended(s) \in Output /\ Ended(s).status \in Reported
      BY <3>1, EmittedTyped DEF Ended
    <3>3. PipeTypeOK'
      BY <2>5, <3>1, <3>2 DEF PipeInv, Phases
    <3>4. Control' /\ Rows'
      BY <1>1, <1>3, <3>1, <3>2 DEF Control, Rows
    <3>5. Honest(output, done)'
      BY <1>3, <2>2, <3>1, HonestNext
    <3> QED BY <2>5, <3>3, <3>4, <3>5 DEF PipeInv
  <2> QED BY <2>6, <2>7
<1> QED BY <1>4, <1>5

LEMMA StepInterruptedInv == PipeInv /\ StepInterrupted => PipeInv'
<1> SUFFICES ASSUME PipeInv, StepInterrupted PROVE PipeInv'
  OBVIOUS
<1>1. /\ GoesOn(done) /\ done \in Seq({"success", "error"}) /\ Len(done) < Len(plan)
  BY DEF PipeInv, Control, StepInterrupted, GoesOn
<1>2. /\ output' \in Output /\ output'.status = "error" /\ output'.errors
  <2>1. Noted(done) \in SUBSET PartialWarnings
    BY DEF Noted
  <2> QED BY <2>1 DEF StepInterrupted, Output, Reported
<1>3. /\ done' \in Seq(ToolStatus \cup {"interrupted"}) /\ Len(done') = Len(done) + 1
      /\ done'[Len(done')] = "interrupted"
  BY <1>1 DEF StepInterrupted, ToolStatus
<1>4. PipeTypeOK'
  BY <1>1, <1>2, <1>3 DEF PipeInv, PipeTypeOK, Phases, StepInterrupted
<1>5. Control' /\ Undisturbed' /\ Rows'
  BY <1>2 DEF PipeInv, Control, Undisturbed, Rows, StepInterrupted, Reported
<1>6. Honest(output, done)'
  BY <1>2, <1>3 DEF Honest, Last
<1> QED BY <1>4, <1>5, <1>6 DEF PipeInv

LEMMA PersistTraceInv == PipeInv /\ PersistTrace => PipeInv'
<1> SUFFICES ASSUME PipeInv, PersistTrace PROVE PipeInv'
  OBVIOUS
<1>1. ToolRows \in Seq(StepRow) /\ Len(ToolRows) = Len(plan)
  BY ToolRowsTyped DEF PipeInv
<1>2. /\ phase = "trace" /\ phase' = "critic" /\ trace' = trace \o ToolRows
      /\ UNCHANGED <<analysis, plan, done, output, unsaved, leaseLost>>
      /\ trace \in Seq(StepRow)
  BY DEF PersistTrace, PipeInv, PipeTypeOK
<1>3. trace' \in Seq(StepRow) /\ (trace = << >> => trace' = ToolRows)
  BY <1>1, <1>2
<1>4. PipeTypeOK'
  BY <1>2, <1>3 DEF PipeInv, PipeTypeOK, Phases
<1>5. Control' /\ Undisturbed'
  BY <1>2 DEF PipeInv, Control, Undisturbed
<1>6. Rows'
  <2>1. ToolRows' = ToolRows
    BY <1>2 DEF ToolRows, RowOf
  <2>2. CASE trace = << >>
    BY <1>2, <1>3, <2>1, <2>2 DEF Rows, TracedSteps
  <2>3. CASE plan = << >>
    <3>1. Len(plan') = 0
      BY <1>2, <2>3
    <3> QED BY <1>2, <3>1 DEF Rows, TracedSteps
  <2> QED BY <2>2, <2>3 DEF PersistTrace
<1>7. Honest(output, done)'
  BY <1>2, HonestNext DEF PipeInv
<1> QED BY <1>4, <1>5, <1>6, <1>7 DEF PipeInv

LEMMA CriticInv == PipeInv /\ Critic => PipeInv'
<1> SUFFICES ASSUME PipeInv, Critic PROVE PipeInv'
  OBVIOUS
<1>1. /\ phase = "critic" /\ phase' = "report" /\ Len(trace) = Len(plan)
      /\ UNCHANGED <<analysis, plan, done, output, unsaved, leaseLost>>
      /\ trace \in Seq(StepRow) /\ Len(plan) \in Nat
  BY DEF Critic, PipeInv, PipeTypeOK
<1>2. PICK st \in {"success", "error", "skipped"} :
        trace' = Append(trace, [of |-> "critic", status |-> st])
  BY DEF Critic
<1> DEFINE row == [of |-> "critic", status |-> st]
<1>3. row \in StepRow /\ row.of = "critic"
  BY DEF StepRow, ToolStatus
<1>4. /\ trace' \in Seq(StepRow) /\ Len(trace') = Len(plan) + 1
      /\ trace'[Len(plan) + 1].of = "critic"
      /\ \A i \in 1..Len(plan) : trace'[i] = trace[i]
  <2>1. trace' = Append(trace, row)
    BY <1>2
  <2> HIDE DEF row
  <2> QED BY <1>1, <1>3, <2>1
<1>5. PipeTypeOK'
  BY <1>1, <1>4 DEF PipeInv, PipeTypeOK, Phases
<1>6. Control' /\ Undisturbed'
  BY <1>1 DEF PipeInv, Control, Undisturbed
<1>7. Rows'
  <2>1. ToolRows' = ToolRows /\ TracedSteps
    BY <1>1 DEF ToolRows, RowOf, PipeInv, Rows
  <2> QED BY <1>1, <1>4, <2>1 DEF Rows, TracedSteps
<1>8. Honest(output, done)'
  BY <1>1, HonestNext DEF PipeInv
<1> QED BY <1>5, <1>6, <1>7, <1>8 DEF PipeInv

LEMMA ReportInv == PipeInv /\ Report => PipeInv'
<1> SUFFICES ASSUME PipeInv, Report PROVE PipeInv'
  OBVIOUS
<1>1. /\ phase = "report" /\ phase' = "store"
      /\ UNCHANGED <<analysis, plan, done, output, trace, leaseLost>>
      /\ Len(trace) = Len(plan) + 1
  BY DEF Report, PipeInv, Rows
<1>2. PICK st \in {"success", "error", "skipped"} :
        /\ unsaved' = <<[of |-> "report", status |-> st]>>
        /\ st = "success" => Last(trace).status = "success"
  BY DEF Report
<1>3. /\ [of |-> "report", status |-> st] \in StepRow
  BY DEF StepRow, ToolStatus
<1>4. unsaved' \in Seq(StepRow) /\ Len(unsaved') = 1 /\ unsaved'[1].of = "report"
      /\ unsaved'[1].status = st
  BY <1>2, <1>3
<1>5. PipeTypeOK'
  BY <1>1, <1>4 DEF PipeInv, PipeTypeOK, Phases
<1>6. Control' /\ Undisturbed'
  BY <1>1 DEF PipeInv, Control, Undisturbed
<1>7. Rows'
  BY <1>1, <1>2, <1>4, TracedNext DEF PipeInv, Rows, Last
<1>8. Honest(output, done)'
  BY <1>1, HonestNext DEF PipeInv
<1> QED BY <1>5, <1>6, <1>7, <1>8 DEF PipeInv

LEMMA StoreInv == PipeInv /\ Store => PipeInv'
<1> SUFFICES ASSUME PipeInv, Store PROVE PipeInv'
  OBVIOUS
<1>1. /\ phase' = "idle" /\ analysis' \in Reported /\ unsaved' = << >>
      /\ trace' \in Seq(StepRow) /\ UNCHANGED <<plan, done, output, leaseLost>>
  BY DEF Store, PipeInv, Control, PipeTypeOK
<1>2. PipeTypeOK'
  BY <1>1 DEF PipeInv, PipeTypeOK, Phases, Reported, AnalysisRunStatus
<1>3. Control' /\ Undisturbed' /\ Rows'
  BY <1>1 DEF PipeInv, Control, Undisturbed, Rows, Reported
<1>4. Honest(output, done)'
  BY <1>1, HonestNext DEF PipeInv
<1> QED BY <1>2, <1>3, <1>4 DEF PipeInv

LEMMA PipeKeeps == PipeInv /\ [PipeNext]_pipeVars => PipeInv'
<1> SUFFICES ASSUME PipeInv, [PipeNext]_pipeVars PROVE PipeInv'
  OBVIOUS
<1>t. /\ analysis \in AnalysisRunStatus /\ unsaved \in Seq(StepRow)
      /\ phase # "idle" => analysis \in {"running", "cancelled"}
      /\ analysis = "queued" => phase = "idle"
  BY DEF PipeInv, PipeTypeOK, Control
<1>1. CASE PersistConflicts \/ CriticConflicts
  <2>1. /\ UNCHANGED <<plan, done, output, trace, leaseLost>> /\ phase' = "idle"
        /\ unsaved' = << >> /\ phase # "idle"
        /\ analysis' = IF analysis = "running" THEN "error" ELSE analysis
    BY <1>1 DEF PersistConflicts, CriticConflicts, AttemptFails
  <2> QED BY <1>t, <2>1, KeepsAttempt DEF AnalysisRunStatus
<1>2. CASE StoreCancelled
  BY <1>t, <1>2, KeepsAttempt DEF StoreCancelled
<1>3. CASE LeaseIsLost
  BY <1>t, <1>3, KeepsAttempt DEF LeaseIsLost
<1>4. CASE CancelAnalysis
  BY <1>t, <1>4, KeepsAttempt DEF CancelAnalysis, AnalysisRunStatus
<1>5. CASE Superseded \/ WorkerDies
  <2>1. Forget /\ trace' = trace /\ phase' = "idle" /\ unsaved' = << >> /\ analysis' = analysis
    BY <1>5 DEF Superseded, WorkerDies
  <2>2. unsaved' \in Seq(StepRow)
    BY <2>1
  <2> QED BY <1>t, <2>1, <2>2, ForgetsAttempt
<1>6. CASE Requeue
  BY <1>t, <1>6, ForgetsAttempt DEF Requeue, AnalysisRunStatus
<1>7. CASE UNCHANGED pipeVars
  BY <1>t, <1>7, KeepsAttempt DEF pipeVars
<1> QED BY <1>1, <1>2, <1>3, <1>4, <1>5, <1>6, <1>7, BeginAttemptInv, PlanMadeInv, PlanFailsInv,
           ExecuteStepInv, StepInterruptedInv, PersistTraceInv, CriticInv, ReportInv, StoreInv
        DEF PipeNext

-------------------------------------------------------------------------------
(* The theorems *)

LEMMA PipeInvariant == PipeSpec => []PipeInv
BY PipeInitInv, PipeKeeps, PTL DEF PipeSpec

\* Every variable of an EDGAR run keeps its type: in particular the run takes
\* only statuses of the status machine and the loop never leaves its plan.
THEOREM PipelineTypeCorrect == PipeSpec => []PipeTypeOK
<1>1. PipeInv => PipeTypeOK
  BY DEF PipeInv
<1> QED BY <1>1, PipeInvariant, PTL

\* The coordinator's status is what happened to the plan, for any tickers,
\* failures and interruptions: the branches of the loop and _classify_post_loop
\* agree on it.
THEOREM CoordinatorIsHonest == PipeSpec => []StatusIsHonest
<1>1. PipeInv => StatusIsHonest
  BY HonestIsHonest DEF PipeInv
<1> QED BY <1>1, PipeInvariant, PTL

LEMMA StoreTells ==
  ASSUME PipeInv, Store PROVE TellsThisAttempt(trace')
<1> DEFINE n == Len(plan)
<1>1. /\ n \in Nat /\ trace \in Seq(StepRow) /\ unsaved \in Seq(StepRow)
      /\ Len(trace) = n + 1 /\ Len(unsaved) = 1 /\ trace' = trace \o unsaved
      /\ trace[n + 1].of = "critic" /\ unsaved[1].of = "report"
      /\ unsaved[1].status = "success" => trace[n + 1].status = "success"
  BY DEF PipeInv, PipeTypeOK, Rows, Store
<1>2. \A i \in 1..n : trace[i] = ToolRows[i]
  BY DEF PipeInv, Rows, TracedSteps, Store
<1>3. \A i \in 1..Len(done) : done[i] # "interrupted"
  BY DEF PipeInv, Undisturbed, Store
<1>4. \A i \in 1..n :
        trace[i] = [of |-> "tool", status |-> IF i <= Len(done) THEN done[i] ELSE "skipped"]
  <2> SUFFICES ASSUME NEW i \in 1..n
               PROVE trace[i] = [of |-> "tool",
                                 status |-> IF i <= Len(done) THEN done[i] ELSE "skipped"]
    OBVIOUS
  <2>1. trace[i] = IF i <= Len(done) THEN RowOf(done[i]) ELSE [of |-> "tool", status |-> "skipped"]
    BY <1>2 DEF ToolRows
  <2>2. CASE i <= Len(done)
    <3>1. Len(done) \in Nat /\ i \in 1..Len(done)
      BY <1>1, <2>2 DEF PipeInv, PipeTypeOK
    <3>2. done[i] # "interrupted"
      BY <1>3, <3>1
    <3> QED BY <2>1, <2>2, <3>2 DEF RowOf
  <2>3. CASE ~(i <= Len(done))
    BY <2>1, <2>3
  <2> QED BY <2>2, <2>3
<1> HIDE DEF n
<1>5. /\ Len(trace') = n + 2 /\ trace'[n + 1] = trace[n + 1] /\ trace'[n + 2] = unsaved[1]
      /\ \A i \in 1..n : trace'[i] = trace[i]
  <2>1. /\ Len(trace \o unsaved) = Len(trace) + Len(unsaved)
        /\ \A i \in 1..(Len(trace) + Len(unsaved)) :
             (trace \o unsaved)[i] = IF i <= Len(trace) THEN trace[i] ELSE unsaved[i - Len(trace)]
    BY <1>1, ConcatProperties
  <2>2. /\ n + 1 + 1 = n + 2 /\ n + 1 \in 1..(n + 1 + 1) /\ n + 2 \in 1..(n + 1 + 1)
        /\ (n + 2) - (n + 1) = 1 /\ n + 1 <= n + 1 /\ ~(n + 2 <= n + 1)
        /\ \A i \in 1..n : i \in 1..(n + 1 + 1) /\ i <= n + 1
    BY <1>1
  <2> QED BY <1>1, <2>1, <2>2
<1> QED BY <1>1, <1>4, <1>5 DEF TellsThisAttempt, n

\* A run that takes a result has the trace of the very attempt that produced it,
\* however many attempts died, were superseded or were cancelled before.
THEOREM ResultsAreTraced == PipeSpec => ResultHasItsTrace
<1>1. PipeInv /\ [PipeNext]_pipeVars =>
        [phase = "store" /\ analysis' # analysis /\ analysis' # "cancelled"
           => TellsThisAttempt(trace')]_pipeVars
  <2> SUFFICES ASSUME PipeInv, PipeNext,
                      phase = "store", analysis' # analysis, analysis' # "cancelled"
               PROVE  TellsThisAttempt(trace')
    BY DEF pipeVars
  <2>1. Store
    BY DEF PipeNext, BeginAttempt, PlanMade, PlanFails, ExecuteStep, StepInterrupted,
           PersistTrace, PersistConflicts, CriticConflicts, Critic, Report, StoreCancelled,
           Superseded, LeaseIsLost, WorkerDies, CancelAnalysis, Requeue
  <2> QED BY <2>1, StoreTells
<1> QED BY <1>1, PipeInvariant, PTL DEF PipeSpec, ResultHasItsTrace

\* The first execution, while nothing disturbs it: it writes to an empty trace,
\* so no row conflicts and the status it ends with is the reported one.
FirstAttempt ==
  /\ phase # "idle" => analysis = "running"
  /\ analysis # "cancelled" /\ ~leaseLost
  /\ phase \in {"plan", "steps", "trace"} => trace = << >>
  /\ phase = "critic" => Len(trace) = Len(plan)
  /\ phase = "idle" /\ IsTerminal(analysis) => analysis = output.status

First ==
  /\ attempts \in Nat /\ mishaps \in Nat
  /\ attempts = 0 => trace = << >> /\ phase = "idle"
  /\ attempts <= 1 /\ mishaps = 0 => FirstAttempt

LEMMA FirstInit == PipeInit => First
BY DEF PipeInit, First, FirstAttempt, IsTerminal, Terminal

\* Every step but a mishap and a second begin keeps it.
LEMMA FirstStep == ASSUME PipeInv, First, [PipeNext]_pipeVars PROVE First'
<1>0. /\ attempts \in Nat /\ mishaps \in Nat
      /\ attempts = 0 => trace = << >> /\ phase = "idle"
      /\ attempts <= 1 /\ mishaps = 0 => FirstAttempt
  BY DEF First
<1>1. CASE LeaseIsLost \/ WorkerDies \/ CancelAnalysis
  <2>1. mishaps' \in Nat /\ mishaps' # 0 /\ UNCHANGED <<attempts, trace>>
    BY <1>0, <1>1 DEF LeaseIsLost, WorkerDies, CancelAnalysis, Mishap
  <2>2. attempts = 0 => phase' = "idle"
    BY <1>0, <1>1 DEF LeaseIsLost, WorkerDies, CancelAnalysis
  <2> QED BY <1>0, <2>1, <2>2 DEF First
<1>2. CASE BeginAttempt
  <2>1. /\ attempts' = attempts + 1 /\ attempts' \in Nat /\ attempts' # 0
        /\ UNCHANGED <<mishaps, trace, leaseLost>>
        /\ analysis' = "running" /\ phase' = "plan"
    BY <1>0, <1>2 DEF BeginAttempt, world
  <2>2. attempts' <= 1 => attempts = 0
    BY <1>0, <2>1
  <2> QED BY <1>0, <2>1, <2>2 DEF First, FirstAttempt
<1>3. ASSUME UNCHANGED <<attempts, mishaps>>, attempts = 0 => trace' = << >> /\ phase' = "idle",
             FirstAttempt => FirstAttempt'
      PROVE  First'
  BY <1>0, <1>3 DEF First
<1>k. /\ analysis = "queued" => phase = "idle"
      /\ phase \in {"trace", "critic", "report", "store"} => output.status \in Reported
  BY DEF PipeInv, Control
<1>4. CASE PlanMade \/ PlanFails \/ ExecuteStep
  <2>1. /\ UNCHANGED <<attempts, mishaps, trace, leaseLost, analysis>> /\ attempts # 0
        /\ phase \in {"plan", "steps"} /\ phase' \in {"steps", "trace"}
    BY <1>0, <1>4 DEF PlanMade, PlanFails, ExecuteStep, world
  <2> QED BY <1>3, <2>1 DEF FirstAttempt
<1>5. CASE StepInterrupted \/ Superseded
  <2>1. UNCHANGED <<attempts, mishaps, trace>> /\ leaseLost /\ attempts # 0
    BY <1>0, <1>5 DEF StepInterrupted, Superseded, world
  <2> QED BY <1>3, <2>1 DEF FirstAttempt
<1>6. CASE PersistTrace
  <2>1. /\ UNCHANGED <<attempts, mishaps, leaseLost, analysis, plan>> /\ attempts # 0
        /\ phase = "trace" /\ phase' = "critic" /\ trace' = trace \o ToolRows
    BY <1>0, <1>6 DEF PersistTrace, world
  <2>2. trace = << >> => Len(trace') = Len(plan)
    BY <2>1, ToolRowsTyped DEF PipeInv
  <2> QED BY <1>3, <2>1, <2>2 DEF FirstAttempt
<1>7. CASE PersistConflicts \/ CriticConflicts
  <2>1. /\ UNCHANGED <<attempts, mishaps>> /\ attempts # 0
        /\ \/ phase = "trace" /\ trace # << >>
           \/ phase = "critic" /\ Len(trace) > Len(plan)
    BY <1>0, <1>7 DEF PersistConflicts, CriticConflicts, AttemptFails, world
  <2>2. Len(trace) \in Nat /\ Len(plan) \in Nat
    BY DEF PipeInv, PipeTypeOK
  <2> QED BY <1>3, <2>1, <2>2 DEF FirstAttempt
<1>8. CASE Critic \/ Report
  <2>1. /\ UNCHANGED <<attempts, mishaps, leaseLost, analysis>> /\ attempts # 0
        /\ phase' \in {"report", "store"} /\ phase # "idle"
    BY <1>0, <1>8 DEF Critic, Report, world
  <2> QED BY <1>3, <2>1 DEF FirstAttempt
<1>9. CASE Store
  <2>1. /\ UNCHANGED <<attempts, mishaps, leaseLost, output>> /\ attempts # 0
        /\ phase' = "idle" /\ analysis' = output.status /\ output.status \in Reported
    BY <1>0, <1>9, <1>k DEF Store, world
  <2> QED BY <1>3, <2>1 DEF FirstAttempt, Reported
<1>10. CASE StoreCancelled
  <2>1. UNCHANGED <<attempts, mishaps>> /\ attempts # 0 /\ analysis = "cancelled"
    BY <1>0, <1>10 DEF StoreCancelled, world
  <2> QED BY <1>3, <2>1 DEF FirstAttempt
<1>11. CASE Requeue
  <2>1. /\ UNCHANGED <<attempts, mishaps, trace, phase>> /\ leaseLost' = FALSE
        /\ phase = "idle" /\ analysis' = "queued"
    BY <1>11 DEF Requeue, Forget, world
  <2> QED BY <1>0, <1>3, <2>1 DEF FirstAttempt, IsTerminal, Terminal
<1>12. CASE UNCHANGED pipeVars
  BY <1>0, <1>3, <1>12 DEF pipeVars, world, given, FirstAttempt
<1> QED BY <1>1, <1>2, <1>4, <1>5, <1>6, <1>7, <1>8, <1>9, <1>10, <1>11, <1>12 DEF PipeNext

\* The first execution of a run that is neither cancelled, superseded nor killed
\* ends it as its coordinator reported: what breaks AttemptEndsAsReported are
\* the rows that a second one meets, and nothing else (run_step_service.py, create).
THEOREM FirstAttemptsEndAsReported == PipeSpec => []FirstAttemptEndsAsReported
<1>1. PipeInv /\ First /\ [PipeNext]_pipeVars => First'
  BY FirstStep
<1>2. First => FirstAttemptEndsAsReported
  BY DEF First, FirstAttempt, FirstAttemptEndsAsReported, AttemptEndsAsReported
<1> QED BY <1>1, <1>2, FirstInit, PipeInvariant, PTL DEF PipeSpec

===============================================================================
