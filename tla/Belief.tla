-------------------------------- MODULE Belief --------------------------------
(***************************************************************************)
(* What an investigation believes: the status graphs of hypotheses and of  *)
(* the investigation, how evidence moves a hypothesis, when two claims     *)
(* contradict each other, and which conclusion the claims add up to.       *)
(*                                                                         *)
(* A claim is its position in state.hypotheses.  The evidence about it is  *)
(* kept as what HypothesisUpdater looks at: the strongest item on each     *)
(* side (0: none, 1: below SUPPORT_THRESHOLD, 2: at or above it) and       *)
(* whether there is neutral evidence.  Confidence is left out: a supported *)
(* claim has at least 0.55 + 0.5 / 2, which is above the 0.6 that          *)
(* TerminationPolicy asks for, and nothing else depends on it but which    *)
(* claim the critic is shown first.                                        *)
(***************************************************************************)
EXTENDS Integers, Sequences

CONSTANT NClaims  \* bound: claims one investigation may propose
ASSUME ClaimsAssumption == NClaims \in Nat \ {0}

Claims == 1..NClaims

HypothesisStatus ==
  {"proposed", "active", "supported", "weakened", "rejected", "unresolved"}

AllowedHypothesis ==
  [proposed   |-> {"active", "rejected"},
   active     |-> {"supported", "weakened", "rejected", "unresolved"},
   weakened   |-> {"active", "supported", "rejected", "unresolved"},
   supported  |-> {"weakened", "unresolved"},
   unresolved |-> {"active", "supported", "weakened", "rejected"},
   rejected   |-> {}]

CanMoveClaim(from, to) == to = from \/ to \in AllowedHypothesis[from]

InvestigationStatus ==
  {"created", "planning", "running", "awaiting_evidence",
   "converged", "exhausted", "failed"}

Ended == {"converged", "exhausted", "failed"}

AllowedInvestigation ==
  [created           |-> {"planning", "failed"},
   planning          |-> {"running", "failed"},
   running           |-> {"awaiting_evidence"} \cup Ended,
   awaiting_evidence |-> {"running"} \cup Ended,
   converged         |-> {},
   exhausted         |-> {},
   failed            |-> {}]

CanMoveInvestigation(from, to) == to = from \/ to \in AllowedInvestigation[from]

-------------------------------------------------------------------------------
Strength == 0..2
Evidence == [sup : Strength, ref : Strength, neutral : BOOLEAN]
NoEvidence == [sup |-> 0, ref |-> 0, neutral |-> FALSE]

Stronger(a, b) == IF a >= b THEN a ELSE b

\* Mutant: strengths are added up.
Filed_Summed(old, new) == [sup     |-> old.sup + new.sup,
                           ref     |-> old.ref + new.ref,
                           neutral |-> old.neutral \/ new.neutral]

\* Evidence is only ever added.
Filed(old, new) == [sup     |-> Stronger(old.sup, new.sup),
                    ref     |-> Stronger(old.ref, new.ref),
                    neutral |-> old.neutral \/ new.neutral]

Directional(e) == e.sup > 0 \/ e.ref > 0

\* Mutant: the claim is scored without being taken up first.
Begun_Skipped(s) == s

\* A claim that an experiment was raised to test leaves "proposed" whatever
\* the experiment says ...
Begun(s) == IF s = "proposed" THEN "active" ELSE s

\* Mutant: strong support is enough, whatever refutes the claim.
Scored_SupportOnly(s, e) ==
  CASE e.sup = 2 -> "supported"
    [] e.sup < 2 /\ e.ref = 2 -> "rejected"
    [] OTHER -> Begun(s)

\* ... and then goes where all the evidence about it points.
Scored(s, e) ==
  CASE e.sup > 0 /\ e.ref > 0 -> "weakened"
    [] e.sup = 2 /\ e.ref = 0 -> "supported"
    [] e.sup = 0 /\ e.ref = 2 -> "rejected"
    [] e.sup = 0 /\ e.ref = 1 -> "weakened"
    [] OTHER -> Begun(s)

ScoreIsLegal(s, e) == CanMoveClaim(Begun(s), Scored(s, e))

-------------------------------------------------------------------------------
\* claims: the status of each claim, "absent" if it was not proposed.
ClaimStates == [Claims -> HypothesisStatus \cup {"absent"}]

With(claims, status) == {c \in Claims : claims[c] = status}
Proposed(claims) == {c \in Claims : claims[c] # "absent"}
OpenClaims(claims) == {c \in Proposed(claims) : claims[c] # "rejected"}

\* Evidence has separated two claims when exactly one still stands.
Settled(claims, pair) ==
  /\ \A c \in pair : claims[c] # "absent"
  /\ \E c \in pair : pair \cap With(claims, "supported") = {c}

Weakened(claims, pair) ==
  [c \in Claims |-> IF c \in pair THEN "weakened" ELSE claims[c]]

-------------------------------------------------------------------------------
Dispositions ==
  {"supported", "refuted", "mixed", "inconclusive", "unanswerable",
   "insufficient_evidence"}

\* Synthesis leaves what is still active explicitly unresolved.
Closed(claims) ==
  [c \in Claims |-> IF claims[c] = "active" THEN "unresolved" ELSE claims[c]]

Opposed(claims) ==
  {c \in Claims : claims[c] \in {"rejected", "weakened", "unresolved"}}

\* claims are the closed ones.
Disposition(claims, reason) ==
  LET supported == With(claims, "supported")
      rejected  == With(claims, "rejected")
      weakened  == With(claims, "weakened")
  IN CASE supported # {} /\ Opposed(claims) # {} -> "mixed"
       [] supported # {} /\ Opposed(claims) = {} -> "supported"
       [] supported = {} /\ weakened # {} -> "inconclusive"
       [] supported = {} /\ weakened = {} /\ rejected # {} -> "refuted"
       [] OTHER -> IF reason = "unanswerable_premise"
                   THEN "unanswerable" ELSE "insufficient_evidence"
===============================================================================
