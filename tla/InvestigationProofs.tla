-------------------------- MODULE InvestigationProofs --------------------------
(***************************************************************************)
(* Proofs about InvestigationLoop, for every policy, every tool, every     *)
(* limit and any number of claims, resumed calls and crashes, in six       *)
(* parts, each with its invariant:                                         *)
(*                                                                         *)
(*   IInv  a concluded investigation is final                              *)
(*   BInv  claims stand only on what was found                             *)
(*   LInv  what one investigation may use is bounded, and the types        *)
(*   CInv  what a conclusion stands on; no illegal change of status        *)
(*   MInv  no experiment is run twice                                      *)
(*   JInv  what the store lags behind; seen through it, a Notebook          *)
(***************************************************************************)
EXTENDS InvestigationLoop, FiniteSetTheorems, TLAPS

Fields == {"status", "claims", "rivals", "evidence", "ran", "critiques",
           "iterations", "stop", "verdict"}

\* An aggregate has its fields, and a recorded reason to stop goes with a
\* terminal status.
Sound(i) == /\ DOMAIN i = Fields
            /\ i.stop # "none" => i.status \in Ended

Final(i) == i.stop # "none" /\ Proposed(i.claims) # {}

\* Claims are proposed only for an investigation without claims, experiments
\* are folded only into one that has not stopped, and nobody holds a different
\* version of a final one.
IInv ==
  /\ Sound(inv) /\ Sound(saved)
  /\ pc = "generate" => NoClaims
  /\ pc \in {"fold", "critic"} => inv.stop = "none"
  /\ Final(saved) => inv = saved /\ pc \in {"idle", "raised", "interpret", "decide"}

\* What the theorem says of a step.
Untouched == Final(saved) => saved' = saved

-------------------------------------------------------------------------------
\* Whatever ends a call leaves the same aggregate in memory and on record.
LEMMA ReturnKeeps ==
  ASSUME NEW i, NEW n, Sound(i), Return(i, n)
  PROVE  IInv'
BY DEF Return, IInv, Sound, Final, NoClaims

LEMMA RaiseKeeps ==
  ASSUME IInv, NEW n, Raise(n)
  PROVE  IInv' /\ Untouched
BY DEF Raise, IInv, Sound, Final, NoClaims, Untouched

LEMMA TerminalIsEnded == ASSUME NEW r PROVE TerminalStatus(r) \in Ended
BY DEF TerminalStatus, Ended

LEMMA ConcludeSound ==
  ASSUME NEW i, DOMAIN i = Fields, NEW r, NEW s \in Ended
  PROVE  Sound([Conclude(i, r) EXCEPT !.status = s])
BY DEF Conclude, Sound, Fields

LEMMA FailedSound ==
  ASSUME NEW i, DOMAIN i = Fields
  PROVE  Sound(Failed(i))
BY DEF Failed, Sound, Fields, Ended

\* An investigation that has not stopped may be concluded, and so may one
\* without claims; in both cases nothing final is overwritten.
LEMMA FinalizeKeeps ==
  ASSUME IInv, NEW i, DOMAIN i = Fields, NEW r, NEW n, ~Final(saved), Finalize(i, r, n)
  PROVE  IInv' /\ Untouched
<1>1. CASE Return([Conclude(i, r) EXCEPT !.status = TerminalStatus(r)], n + 1)
  <2>1. Sound([Conclude(i, r) EXCEPT !.status = TerminalStatus(r)])
    BY TerminalIsEnded, ConcludeSound
  <2> QED BY <1>1, <2>1, ReturnKeeps DEF Untouched
<1>2. CASE Raise(n + 1)
  BY <1>2, RaiseKeeps
<1> QED BY <1>1, <1>2 DEF Finalize

LEMMA FailSafeKeeps ==
  ASSUME IInv, FailSafe
  PROVE  IInv' /\ Untouched
<1>1. CASE inv.stop # "none" /\ Return(Failed(inv), 1)
  <2>1. Failed(inv) = inv
    BY <1>1 DEF IInv, Sound, Failed
  <2>2. IInv'
    BY <1>1, <2>1, ReturnKeeps DEF IInv
  <2>3. Untouched
    BY <1>1, <2>1 DEF IInv, Untouched, Return
  <2> QED BY <2>2, <2>3
<1>2. CASE inv.stop = "none" /\ Return(Failed(Conclude(inv, "error")), 2)
  <2>1. DOMAIN Conclude(inv, "error") = Fields
    BY DEF IInv, Sound, Conclude
  <2>2. IInv'
    BY <1>2, <2>1, FailedSound, ReturnKeeps
  <2>3. Untouched
    BY <1>2 DEF IInv, Untouched, Final
  <2> QED BY <2>2, <2>3
<1> QED BY <1>1, <1>2 DEF FailSafe

LEMMA EndIterationKeeps ==
  ASSUME IInv, inv.stop = "none",
         NEW i, DOMAIN i = Fields, i.stop = "none", EndIteration(i)
  PROVE  IInv' /\ Untouched
<1> DEFINE next == [i EXCEPT !.iterations = @ + 1]
<1>1. DOMAIN next = Fields /\ next.stop = "none"
  BY DEF Fields
<1>2. inv' = next /\ saved' = next /\ pc' = "decide"
  BY DEF EndIteration
<1>3. IInv'
  BY <1>1, <1>2 DEF IInv, Sound, Final, NoClaims
<1>4. Untouched
  BY DEF IInv, Final, Untouched
<1> QED BY <1>3, <1>4

LEMMA FoldedKeeps ==
  ASSUME IInv, inv.stop = "none",
         NEW i, DOMAIN i = Fields, i.stop = "none", NEW ok, Folded(i, ok)
  PROVE  IInv' /\ Untouched
<1>1. \/ inv' = i /\ pc' \in {"fold", "critic"} /\ UNCHANGED saved
      \/ EndIteration(i)
  BY DEF Folded
<1>2. CASE inv' = i /\ pc' \in {"fold", "critic"} /\ UNCHANGED saved
  <2>1. ~Final(saved)
    BY DEF IInv, Final
  <2> QED BY <1>2, <2>1 DEF IInv, Sound, Final, NoClaims, Untouched
<1>3. CASE EndIteration(i)
  BY <1>3, EndIterationKeeps
<1> QED BY <1>1, <1>2, <1>3

LEMMA ExclusiveSound ==
  ASSUME NEW i, DOMAIN i = Fields
  PROVE  DOMAIN Exclusive(i) = Fields /\ Exclusive(i).stop = i.stop
BY DEF Exclusive, Fields

-------------------------------------------------------------------------------
LEMMA InitHolds == Init => IInv
BY DEF Init, IInv, Sound, Final, NoInvestigation, Fields

\* One step per action of Next.
LEMMA StepKeeps == IInv /\ [Next]_vars => IInv' /\ Untouched
<1> SUFFICES ASSUME IInv, [Next]_vars
             PROVE  IInv' /\ Untouched
  OBVIOUS
<1> USE DEF NoClaims
<1>1. CASE Start
  <2>1. /\ DOMAIN inv' = Fields /\ inv'.stop = "none"
        /\ saved' = inv' /\ pc' = "interpret" /\ saved.stop = "none"
    BY <1>1 DEF Start, NoInvestigation, Fields
  <2> QED BY <2>1 DEF IInv, Sound, Final, Untouched
<1>2. CASE Resume
  BY <1>2 DEF Resume, Running, IInv, Sound, Final, Untouched
<1>3. CASE Crash
  BY <1>3 DEF Crash, IInv, Sound, Final, Untouched
<1>4. CASE InterpretFails
  BY <1>4, FailSafeKeeps DEF InterpretFails
<1>5. CASE Unanswerable
  <2>1. DOMAIN Begin(inv) = Fields
    BY DEF IInv, Sound, Begin
  <2>2. ~Final(saved)
    BY <1>5 DEF Unanswerable, IInv, Final
  <2> QED BY <1>5, <2>1, <2>2, FinalizeKeeps DEF Unanswerable
<1>6. CASE Interpreted
  <2>1. CASE inv.status = "created" /\ ~NoClaims
    <3>1. inv.stop = "none"
      BY <2>1 DEF IInv, Sound, Ended
    <3>2. /\ DOMAIN inv' = Fields /\ inv'.stop = "none"
          /\ UNCHANGED saved /\ pc' = "decide"
      BY <1>6, <2>1, <3>1 DEF Interpreted, IInv, Sound, Fields
    <3> QED BY <3>1, <3>2 DEF IInv, Sound, Final, Untouched
  <2>2. CASE ~(inv.status = "created" /\ ~NoClaims)
    <3>1. UNCHANGED <<inv, saved>> /\ pc' = IF NoClaims THEN "generate" ELSE "decide"
      BY <1>6, <2>2 DEF Interpreted
    <3>2. IInv'
      BY <3>1 DEF IInv, Sound, Final
    <3> QED BY <3>1, <3>2 DEF Untouched
  <2> QED BY <2>1, <2>2
<1>7. CASE GenerateFails
  BY <1>7, FailSafeKeeps DEF GenerateFails
<1>8. CASE Generate
  <2>1. ~Final(saved)
    BY <1>8 DEF Generate, IInv
  <2>2. CASE Raise(1)
    BY <2>2, RaiseKeeps
  <2>3. CASE ~Raise(1)
    <3>1. inv.stop = "none"
      BY <1>8, <2>3 DEF Generate, IInv, Sound, Ended, CanMoveInvestigation, AllowedInvestigation
    <3>2. /\ DOMAIN inv' = Fields /\ inv'.stop = "none"
          /\ saved' = inv' /\ pc' = "decide"
      BY <1>8, <2>3, <3>1 DEF Generate, IInv, Sound, Fields
    <3> QED BY <2>1, <3>2 DEF IInv, Sound, Final, Untouched
  <2> QED BY <2>2, <2>3
<1>9. CASE LoopSkipped
  BY <1>9 DEF LoopSkipped, IInv, Sound, Final, Untouched
<1>10. CASE Stop
  BY <1>10, FinalizeKeeps DEF Stop, StopAt, IInv, Sound, Final
<1>11. CASE WindowUsed
  <2>1. Return(inv, 0) /\ inv.stop = "none"
    BY <1>11 DEF WindowUsed, GoesOn
  <2> QED BY <2>1, ReturnKeeps DEF IInv, Final, Untouched
<1>12. CASE NothingToRun
  BY <1>12, FinalizeKeeps DEF NothingToRun, Selecting, GoesOn, IInv, Sound, Final
<1>13. CASE SelectFails
  BY <1>13, FailSafeKeeps DEF SelectFails
<1>14. CASE SelectNone
  BY <1>14, FinalizeKeeps DEF SelectNone, Selecting, GoesOn, IInv, Sound, Final
<1>15. CASE Select
  <2>1. UNCHANGED <<inv, saved>> /\ pc' = "fold" /\ inv.stop = "none"
    BY <1>15 DEF Select, Selecting, GoesOn
  <2> QED BY <2>1 DEF IInv, Sound, Final, Untouched
<1>16. CASE FoldFailure
  <2> DEFINE i == [inv EXCEPT !.ran = Recorded(FALSE, {})]
  <2>1. Folded(i, FALSE) /\ inv.stop = "none"
    BY <1>16 DEF FoldFailure, IInv
  <2>2. DOMAIN i = Fields /\ i.stop = "none"
    BY <2>1 DEF IInv, Sound, Fields
  <2> HIDE DEF i
  <2> QED BY <2>1, <2>2, FoldedKeeps
<1>17. CASE FoldSuccess
  <2>1. inv.stop = "none"
    BY <1>17 DEF FoldSuccess, IInv
  <2>2. \/ Raise(0)
        \/ \E told, evidence, claims :
             Folded(Exclusive([inv EXCEPT !.ran = Recorded(TRUE, told),
                                          !.evidence = evidence,
                                          !.claims = claims]), TRUE)
    BY <1>17 DEF FoldSuccess
  <2>3. CASE Raise(0)
    BY <2>3, RaiseKeeps
  <2>4. ASSUME NEW told, NEW evidence, NEW claims,
               Folded(Exclusive([inv EXCEPT !.ran = Recorded(TRUE, told),
                                            !.evidence = evidence,
                                            !.claims = claims]), TRUE)
        PROVE  IInv' /\ Untouched
    <3> DEFINE i == [inv EXCEPT !.ran = Recorded(TRUE, told),
                                !.evidence = evidence, !.claims = claims]
    <3>1. DOMAIN i = Fields /\ i.stop = "none"
      BY <2>1 DEF IInv, Sound, Fields
    <3>2. Folded(Exclusive(i), TRUE)
      BY <2>4
    <3> HIDE DEF i
    <3> QED BY <2>1, <3>1, <3>2, ExclusiveSound, FoldedKeeps
  <2> QED BY <2>2, <2>3, <2>4
<1>18. CASE NothingToChallenge
  BY <1>18, EndIterationKeeps DEF NothingToChallenge, IInv, Sound
<1>19. CASE CriticFails
  BY <1>19, FailSafeKeeps DEF CriticFails
<1>20. CASE CriticIsSilent
  BY <1>20, EndIterationKeeps DEF CriticIsSilent, Criticising, IInv, Sound
<1>21. CASE Contradict
  <2>1. PICK t, o, tool :
          EndIteration([inv EXCEPT !.critiques = Append(@, Contradiction(t, o, tool)),
                                   !.claims = Weakened(@, {t, o})])
    BY <1>21 DEF Contradict
  <2> DEFINE i == [inv EXCEPT !.critiques = Append(@, Contradiction(t, o, tool)),
                              !.claims = Weakened(@, {t, o})]
  <2>2. inv.stop = "none" /\ EndIteration(i)
    BY <1>21, <2>1 DEF Contradict, Criticising, IInv
  <2>3. DOMAIN i = Fields /\ i.stop = "none"
    BY <2>2 DEF IInv, Sound, Fields
  <2> HIDE DEF i
  <2> QED BY <2>2, <2>3, EndIterationKeeps
<1>22. CASE Challenge
  <2>1. PICK t, tool :
          EndIteration([inv EXCEPT !.critiques = Append(@,
            [kind |-> "challenge", target |-> t, other |-> NoClaim, tool |-> tool])])
    BY <1>22 DEF Challenge
  <2> DEFINE i == [inv EXCEPT !.critiques = Append(@,
            [kind |-> "challenge", target |-> t, other |-> NoClaim, tool |-> tool])]
  <2>2. inv.stop = "none" /\ EndIteration(i)
    BY <1>22, <2>1 DEF Challenge, Criticising, IInv
  <2>3. DOMAIN i = Fields /\ i.stop = "none"
    BY <2>2 DEF IInv, Sound, Fields
  <2> HIDE DEF i
  <2> QED BY <2>2, <2>3, EndIterationKeeps
<1>23. CASE UNCHANGED vars
  BY <1>23 DEF vars, IInv, Sound, Final, Untouched
<1> QED
  BY <1>1, <1>2, <1>3, <1>4, <1>5, <1>6, <1>7, <1>8, <1>9, <1>10, <1>11, <1>12,
     <1>13, <1>14, <1>15, <1>16, <1>17, <1>18, <1>19, <1>20, <1>21, <1>22, <1>23
  DEF Next, LoopStep, Work

-------------------------------------------------------------------------------
\* A concluded investigation that has claims is never changed again: no resumed
\* call, crash or failing policy rewrites its claims, evidence, experiments,
\* conclusion or reason to stop.
THEOREM ConclusionIsFinal == Spec => ConcludedIsFinal
<1>1. IInv /\ [Next]_vars =>
        [saved.stop # "none" /\ Proposed(saved.claims) # {} => saved' = saved]_vars
  BY StepKeeps DEF Untouched, Final
<1> QED
  BY <1>1, InitHolds, StepKeeps, PTL DEF Spec, ConcludedIsFinal

-------------------------------------------------------------------------------
\* What an aggregate believes: evidence about claims only, strong and unopposed
\* evidence behind every supported claim, rivals never both supported.
Believes(i) ==
  /\ DOMAIN i = Fields
  /\ i.evidence \in [Claims -> Evidence]
  /\ \A c \in Claims :
       /\ i.claims[c] = "supported" => i.evidence[c].sup = 2 /\ i.evidence[c].ref = 0
       /\ i.claims[c] \in {"absent", "proposed"} => i.evidence[c] = NoEvidence
  /\ i.rivals => ~({1, 2} \subseteq With(i.claims, "supported"))

BInv == Believes(inv) /\ Believes(saved)

\* Status changes that neither support a claim nor make it a proposal again.
LEMMA OnlyLowered ==
  ASSUME NEW i, Believes(i), NEW claims,
         \A c \in Claims : claims[c] \in {"supported", "absent", "proposed"} =>
                             i.claims[c] = claims[c],
         NEW j, DOMAIN j = Fields, j.claims = claims,
         j.evidence = i.evidence, j.rivals = i.rivals
  PROVE  Believes(j)
<1>1. With(j.claims, "supported") \subseteq With(i.claims, "supported")
  BY DEF With
<1>2. j.rivals => ~({1, 2} \subseteq With(j.claims, "supported"))
  BY <1>1 DEF Believes
<1>3. \A c \in Claims :
        /\ j.claims[c] = "supported" => j.evidence[c].sup = 2 /\ j.evidence[c].ref = 0
        /\ j.claims[c] \in {"absent", "proposed"} => j.evidence[c] = NoEvidence
  BY DEF Believes
<1> QED BY <1>2, <1>3 DEF Believes

LEMMA SameBelief ==
  ASSUME NEW i, Believes(i), NEW j, DOMAIN j = Fields, j.claims = i.claims,
         j.evidence = i.evidence, j.rivals = i.rivals
  PROVE  Believes(j)
BY DEF Believes

LEMMA ConcludeBelieves ==
  ASSUME NEW i, Believes(i), NEW r
  PROVE  Believes(Conclude(i, r))
<1> DEFINE j == Conclude(i, r)
<1>1. /\ DOMAIN j = Fields /\ j.claims = Closed(i.claims)
      /\ j.evidence = i.evidence /\ j.rivals = i.rivals
  BY DEF Conclude, Believes, Fields
<1>2. \A c \in Claims : Closed(i.claims)[c] \in {"supported", "absent", "proposed"} =>
                          i.claims[c] = Closed(i.claims)[c]
  BY DEF Closed
<1> HIDE DEF j
<1>3. Believes(j)
  BY <1>1, <1>2, OnlyLowered
<1> QED BY <1>3 DEF j

LEMMA StatusBelieves ==
  ASSUME NEW i, Believes(i), NEW s
  PROVE  Believes([i EXCEPT !.status = s])
<1> DEFINE j == [i EXCEPT !.status = s]
<1>1. DOMAIN j = Fields /\ j.claims = i.claims /\ j.evidence = i.evidence /\ j.rivals = i.rivals
  BY DEF Believes, Fields
<1> HIDE DEF j
<1>2. Believes(j)
  BY <1>1, SameBelief
<1> QED BY <1>2 DEF j

LEMMA FailedBelieves == ASSUME NEW i, Believes(i) PROVE Believes(Failed(i))
BY StatusBelieves DEF Failed

LEMMA FinalizeBelieves ==
  ASSUME BInv, NEW i, Believes(i), NEW r, NEW n, Finalize(i, r, n)
  PROVE  BInv'
<1>1. \A s : Believes([Conclude(i, r) EXCEPT !.status = s])
  BY ConcludeBelieves, StatusBelieves
<1>2. CASE Return([Conclude(i, r) EXCEPT !.status = TerminalStatus(r)], n + 1)
  <2>1. inv' = [Conclude(i, r) EXCEPT !.status = TerminalStatus(r)] /\ saved' = inv'
    BY <1>2 DEF Return
  <2> QED BY <1>1, <2>1 DEF BInv
<1>3. CASE Raise(n + 1)
  BY <1>3 DEF Raise, BInv
<1> QED BY <1>2, <1>3 DEF Finalize

LEMMA FailSafeBelieves == ASSUME BInv, FailSafe PROVE BInv'
<1>1. inv' \in {Failed(inv), Failed(Conclude(inv, "error"))} /\ saved' = inv'
  BY DEF FailSafe, Return
<1>2. Believes(Failed(inv)) /\ Believes(Failed(Conclude(inv, "error")))
  BY FailedBelieves, ConcludeBelieves DEF BInv
<1> QED BY <1>1, <1>2 DEF BInv

LEMMA EndIterationBelieves ==
  ASSUME NEW i, Believes(i), EndIteration(i) PROVE BInv'
<1> DEFINE j == [i EXCEPT !.iterations = @ + 1]
<1>1. inv' = j /\ saved' = j
  BY DEF EndIteration
<1>2. DOMAIN j = Fields /\ j.claims = i.claims /\ j.evidence = i.evidence /\ j.rivals = i.rivals
  BY DEF Believes, Fields
<1> HIDE DEF j
<1> QED BY <1>1, <1>2, SameBelief DEF BInv

LEMMA FoldedBelieves ==
  ASSUME BInv, NEW i, Believes(i), NEW ok, Folded(i, ok) PROVE BInv'
<1>1. \/ inv' = i /\ UNCHANGED saved
      \/ EndIteration(i)
  BY DEF Folded
<1> QED BY <1>1, EndIterationBelieves DEF BInv

-------------------------------------------------------------------------------
\* One experiment's readings: what HypothesisUpdater makes of old and new evidence.
LEMMA FiledIsEvidence ==
  ASSUME NEW old \in Evidence, NEW new \in Evidence
  PROVE  /\ Filed(old, new) \in Evidence
         /\ old.sup = 2 => Filed(old, new).sup = 2
BY DEF Filed, Evidence, Strength, Stronger

LEMMA ScoredFollowsEvidence ==
  ASSUME NEW e \in Evidence, NEW s, s = "supported" => e.sup = 2
  PROVE  /\ Scored(s, e) = "supported" => e.sup = 2 /\ e.ref = 0
         /\ Scored(s, e) # "proposed"
         /\ s # "absent" => Scored(s, e) # "absent"
BY DEF Scored, Begun, Evidence, Strength

\* Apart from the rivalry, which is looked at next.
LEMMA ScoringBelieves ==
  ASSUME NEW i, Believes(i), NEW j, DOMAIN j = Fields, NEW reading,
         \A c \in DOMAIN reading : /\ reading[c] \in Evidence
                                   /\ c \in Claims /\ i.claims[c] # "absent",
         j.evidence = [c \in Claims |-> IF c \in DOMAIN reading
                                        THEN Filed(i.evidence[c], reading[c])
                                        ELSE i.evidence[c]],
         j.claims = [c \in Claims |-> IF c \in DOMAIN reading \cap OpenClaims(i.claims)
                                      THEN Scored(i.claims[c], j.evidence[c])
                                      ELSE i.claims[c]]
  PROVE  /\ j.evidence \in [Claims -> Evidence]
         /\ \A c \in Claims :
              /\ j.claims[c] = "supported" => j.evidence[c].sup = 2 /\ j.evidence[c].ref = 0
              /\ j.claims[c] \in {"absent", "proposed"} => j.evidence[c] = NoEvidence
<1>1. \A c \in DOMAIN reading : /\ reading[c] \in Evidence
                                /\ c \in Claims /\ i.claims[c] # "absent"
  OBVIOUS
<1>2. \A c \in Claims : j.evidence[c] \in Evidence
  BY <1>1, FiledIsEvidence DEF Believes
<1>3. j.evidence \in [Claims -> Evidence]
  BY <1>2
<1>4. ASSUME NEW c \in Claims
      PROVE  /\ j.claims[c] = "supported" => j.evidence[c].sup = 2 /\ j.evidence[c].ref = 0
             /\ j.claims[c] \in {"absent", "proposed"} => j.evidence[c] = NoEvidence
  <2>1. CASE c \in DOMAIN reading \cap OpenClaims(i.claims)
    <3>1. j.claims[c] = Scored(i.claims[c], j.evidence[c])
      BY <2>1
    <3>2. j.evidence[c] = Filed(i.evidence[c], reading[c])
      BY <2>1
    <3>3. i.claims[c] = "supported" => j.evidence[c].sup = 2
      BY <1>1, <2>1, <3>2, FiledIsEvidence DEF Believes
    <3>4. i.claims[c] # "absent"
      BY <1>1, <2>1
    <3> QED BY <1>2, <3>1, <3>3, <3>4, ScoredFollowsEvidence
  <2>2. CASE c \in DOMAIN reading /\ c \notin OpenClaims(i.claims)
    BY <1>1, <2>2 DEF OpenClaims, Proposed
  <2>3. CASE c \notin DOMAIN reading
    BY <2>3 DEF Believes
  <2> QED BY <2>1, <2>2, <2>3
<1> QED BY <1>3, <1>4

\* enforce_mutual_exclusivity repairs what scoring may have broken.
LEMMA ExclusiveBelieves ==
  ASSUME NEW i, DOMAIN i = Fields, i.evidence \in [Claims -> Evidence],
         \A c \in Claims :
           /\ i.claims[c] = "supported" => i.evidence[c].sup = 2 /\ i.evidence[c].ref = 0
           /\ i.claims[c] \in {"absent", "proposed"} => i.evidence[c] = NoEvidence
  PROVE  Believes(Exclusive(i))
<1>1. CASE i.rivals /\ {1, 2} \subseteq With(i.claims, "supported")
  <2> DEFINE j == Exclusive(i)
  <2>1. /\ DOMAIN j = Fields /\ j.claims = Weakened(i.claims, {1, 2})
        /\ j.evidence = i.evidence
    BY <1>1 DEF Exclusive, Fields
  <2> HIDE DEF j
  <2>2. \A c \in Claims : j.claims[c] # "weakened" => j.claims[c] = i.claims[c]
    BY <2>1 DEF Weakened
  <2>3. 1 \notin With(j.claims, "supported")
    BY <2>1 DEF With, Weakened
  <2>4. Believes(j)
    BY <2>1, <2>2, <2>3 DEF Believes
  <2> QED BY <2>4 DEF j
<1>2. CASE ~(i.rivals /\ {1, 2} \subseteq With(i.claims, "supported"))
  BY <1>2 DEF Exclusive, Believes
<1> QED BY <1>1, <1>2

-------------------------------------------------------------------------------
LEMMA NothingBelieves == Believes(NoInvestigation)
BY DEF Believes, NoInvestigation, Fields, NoEvidence, Evidence, Strength

LEMMA StepBelieves == IInv /\ BInv /\ [Next]_vars => BInv'
<1> SUFFICES ASSUME IInv, BInv, [Next]_vars
             PROVE  BInv'
  OBVIOUS
<1>1. CASE Start
  BY <1>1, NothingBelieves, StatusBelieves DEF Start, BInv
<1>2. CASE Resume \/ Crash \/ LoopSkipped \/ Select \/ UNCHANGED vars
  BY <1>2 DEF Resume, Crash, LoopSkipped, Select, vars, BInv
<1>3. CASE InterpretFails \/ GenerateFails \/ SelectFails \/ CriticFails
  BY <1>3, FailSafeBelieves DEF InterpretFails, GenerateFails, SelectFails, CriticFails
<1>4. CASE Unanswerable
  <2>1. Believes(Begin(inv))
    <3> DEFINE j == Begin(inv)
    <3>1. DOMAIN j = Fields /\ j.claims = inv.claims
          /\ j.evidence = inv.evidence /\ j.rivals = inv.rivals
      BY DEF Begin, BInv, Believes, Fields
    <3> HIDE DEF j
    <3>2. Believes(j)
      BY <3>1, SameBelief DEF BInv
    <3> QED BY <3>2 DEF j
  <2> QED BY <1>4, <2>1, FinalizeBelieves DEF Unanswerable
<1>5. CASE Interpreted
  BY <1>5, StatusBelieves DEF Interpreted, BInv
<1>6. CASE Generate
  <2>1. CASE Raise(1)
    BY <2>1 DEF Raise, BInv
  <2>2. CASE ~Raise(1)
    <3>1. PICK n \in 0..NClaims, alternatives \in BOOLEAN :
            /\ saved' = inv'
            /\ inv' = [inv EXCEPT
                 !.claims = [c \in Claims |-> IF c <= n THEN "proposed" ELSE "absent"],
                 !.rivals = alternatives /\ n = 2,
                 !.status = "running"]
      BY <1>6, <2>2 DEF Generate
    <3>2. /\ DOMAIN inv' = Fields /\ inv'.evidence = inv.evidence
          /\ inv'.claims = [c \in Claims |-> IF c <= n THEN "proposed" ELSE "absent"]
      BY <3>1 DEF BInv, Believes, Fields
    <3>3. \A c \in Claims : inv'.claims[c] \in {"proposed", "absent"}
      BY <3>2
    <3>4. \A c \in Claims : inv.evidence[c] = NoEvidence
      BY <1>6 DEF Generate, IInv, NoClaims, Proposed, BInv, Believes
    <3>5. With(inv'.claims, "supported") = {}
      BY <3>3 DEF With
    <3>6. ~({1, 2} \subseteq With(inv'.claims, "supported"))
      BY <3>5
    <3>7. Believes(inv')
      BY <3>2, <3>6, <3>3, <3>4 DEF Believes, BInv
    <3> QED BY <3>1, <3>7 DEF BInv
  <2> QED BY <2>1, <2>2
<1>7. CASE Stop \/ NothingToRun \/ SelectNone
  BY <1>7, FinalizeBelieves DEF Stop, StopAt, NothingToRun, SelectNone, BInv
<1>8. CASE WindowUsed
  BY <1>8 DEF WindowUsed, Return, BInv
<1>9. CASE FoldFailure
  <2> DEFINE i == [inv EXCEPT !.ran = Recorded(FALSE, {})]
  <2>1. Folded(i, FALSE)
    BY <1>9 DEF FoldFailure
  <2>2. DOMAIN i = Fields /\ i.claims = inv.claims
        /\ i.evidence = inv.evidence /\ i.rivals = inv.rivals
    BY DEF BInv, Believes, Fields
  <2> HIDE DEF i
  <2> QED BY <2>1, <2>2, SameBelief, FoldedBelieves DEF BInv
<1>10. CASE FoldSuccess
  <2>1. CASE Raise(0)
    BY <2>1 DEF Raise, BInv
  <2>2. CASE ~Raise(0)
    <3>1. PICK reading, told, evidence, claims :
            /\ reading \in [Due.targets \cap Proposed(inv.claims) -> Readings]
            /\ evidence = [c \in Claims |-> IF c \in DOMAIN reading
                                            THEN Filed(inv.evidence[c], reading[c])
                                            ELSE inv.evidence[c]]
            /\ claims = [c \in Claims |-> IF c \in DOMAIN reading \cap OpenClaims(inv.claims)
                                          THEN Scored(inv.claims[c], evidence[c])
                                          ELSE inv.claims[c]]
            /\ Folded(Exclusive([inv EXCEPT !.ran = Recorded(TRUE, told),
                                            !.evidence = evidence,
                                            !.claims = claims]), TRUE)
      BY <1>10, <2>2 DEF FoldSuccess
    <3> DEFINE i == [inv EXCEPT !.ran = Recorded(TRUE, told),
                                !.evidence = evidence, !.claims = claims]
    <3>2. DOMAIN i = Fields /\ i.evidence = evidence /\ i.claims = claims
      BY DEF BInv, Believes, Fields
    <3>3. Folded(Exclusive(i), TRUE)
      BY <3>1
    <3> HIDE DEF i
    <3>4. /\ i.evidence = [c \in Claims |-> IF c \in DOMAIN reading
                                              THEN Filed(inv.evidence[c], reading[c])
                                              ELSE inv.evidence[c]]
          /\ i.claims = [c \in Claims |-> IF c \in DOMAIN reading \cap OpenClaims(inv.claims)
                                            THEN Scored(inv.claims[c], i.evidence[c])
                                            ELSE inv.claims[c]]
      BY <3>1, <3>2
    <3>5. Believes(inv)
      BY DEF BInv
    <3>6. \A c \in DOMAIN reading : /\ reading[c] \in Evidence
                                    /\ c \in Claims /\ inv.claims[c] # "absent"
      BY <3>1, LoopAssumption DEF LoopAssumption, Proposed
    <3>7. /\ i.evidence \in [Claims -> Evidence]
          /\ \A c \in Claims :
               /\ i.claims[c] = "supported" => i.evidence[c].sup = 2 /\ i.evidence[c].ref = 0
               /\ i.claims[c] \in {"absent", "proposed"} => i.evidence[c] = NoEvidence
      BY <3>2, <3>4, <3>5, <3>6, ScoringBelieves
    <3>8. Believes(Exclusive(i))
      BY <3>2, <3>7, ExclusiveBelieves
    <3> QED BY <3>3, <3>8, FoldedBelieves
  <2> QED BY <2>1, <2>2
<1>11. CASE NothingToChallenge \/ CriticIsSilent
  BY <1>11, EndIterationBelieves DEF NothingToChallenge, CriticIsSilent, BInv
<1>12. CASE Contradict
  <2>1. PICK t, o, tool :
          EndIteration([inv EXCEPT !.critiques = Append(@, Contradiction(t, o, tool)),
                                   !.claims = Weakened(@, {t, o})])
    BY <1>12 DEF Contradict
  <2> DEFINE i == [inv EXCEPT !.critiques = Append(@, Contradiction(t, o, tool)),
                              !.claims = Weakened(@, {t, o})]
  <2>2. /\ DOMAIN i = Fields /\ i.claims = Weakened(inv.claims, {t, o})
        /\ i.evidence = inv.evidence /\ i.rivals = inv.rivals
    BY DEF BInv, Believes, Fields
  <2>3. EndIteration(i)
    BY <2>1
  <2> HIDE DEF i
  <2>4. \A c \in Claims : Weakened(inv.claims, {t, o})[c] \in {"supported", "absent", "proposed"}
                            => inv.claims[c] = Weakened(inv.claims, {t, o})[c]
    BY DEF Weakened
  <2>5. Believes(i)
    BY <2>2, <2>4, OnlyLowered DEF BInv
  <2> QED BY <2>3, <2>5, EndIterationBelieves
<1>13. CASE Challenge
  <2>1. PICK t, tool :
          EndIteration([inv EXCEPT !.critiques = Append(@,
            [kind |-> "challenge", target |-> t, other |-> NoClaim, tool |-> tool])])
    BY <1>13 DEF Challenge
  <2> DEFINE i == [inv EXCEPT !.critiques = Append(@,
            [kind |-> "challenge", target |-> t, other |-> NoClaim, tool |-> tool])]
  <2>2. DOMAIN i = Fields /\ i.claims = inv.claims
        /\ i.evidence = inv.evidence /\ i.rivals = inv.rivals
    BY DEF BInv, Believes, Fields
  <2>3. EndIteration(i)
    BY <2>1
  <2> HIDE DEF i
  <2> QED BY <2>2, <2>3, SameBelief, EndIterationBelieves DEF BInv
<1> QED
  BY <1>1, <1>2, <1>3, <1>4, <1>5, <1>6, <1>7, <1>8, <1>9, <1>10, <1>11, <1>12, <1>13
  DEF Next, LoopStep, Work

LEMMA BeliefHolds == Spec => []BInv
<1>1. Init => BInv
  BY NothingBelieves DEF Init, BInv
<1>2. IInv /\ [Next]_vars => IInv'
  BY StepKeeps
<1> QED BY <1>1, <1>2, InitHolds, StepBelieves, PTL DEF Spec

\* However the experiments come out and in whatever order they are folded: a
\* supported claim has strong evidence for it and none against it.
THEOREM BeliefIsEarned == Spec => []BeliefFollowsEvidence
<1>1. BInv => BeliefFollowsEvidence
  BY DEF BInv, Believes, BeliefFollowsEvidence
<1> QED BY <1>1, BeliefHolds, PTL

\* Claims posed as alternatives never both stand, not even within a batch.
THEOREM RivalsAreExclusive == Spec => []RivalsNeverBothStand
<1>1. BInv => RivalsNeverBothStand
  BY DEF BInv, Believes, RivalsNeverBothStand
<1> QED BY <1>1, BeliefHolds, PTL

-------------------------------------------------------------------------------
(* Types and limits *)

\* The limits on one aggregate.
Within(i) ==
  /\ Len(i.ran) <= MaxExperiments
  /\ i.iterations <= MaxIterations
  /\ \A t \in Tools : ToolUses(i, t) <= MaxToolUses

\* What is selected and not folded yet still fits: the experiments, the
\* consecutive failures, and the uses of each tool, of which there is one.
BatchFits ==
  /\ call.batch # {}
  /\ Cardinality(call.batch) <= MaxParallel
  /\ Len(inv.ran) + Cardinality(call.batch) <= MaxExperiments
  /\ tracker.failures + Cardinality(call.batch) <= MaxFailures + MaxParallel - 1
  /\ \A r \in call.batch : ToolUses(inv, r.tool) < MaxToolUses
  /\ \A r, s \in call.batch : r.tool = s.tool => r = s

\* How many policy calls may have been made where the call of the loop is.
CallsAt(at) ==
  CASE at = "interpret" -> 0
    [] at = "generate" -> 1
    [] at = "decide" -> MaxModelCalls + 1
    [] at \in {"fold", "critic"} -> MaxModelCalls
    [] OTHER -> MaxModelCalls + 2

LInv ==
  /\ Within(inv) /\ Within(saved)
  /\ Running => tracker.used = Len(inv.ran)
  /\ pc \in {"fold", "critic"} => inv.iterations < MaxIterations
  /\ tracker.failures <= MaxFailures + MaxParallel - 1
  /\ pc = "fold" => IsFiniteSet(call.batch) /\ BatchFits
  /\ tracker.calls <= CallsAt(pc)

-------------------------------------------------------------------------------
\* Counting.
LEMMA FirstIsLeast ==
  ASSUME NEW S, S \subseteq Nat, S # {}
  PROVE  First(S) \in S /\ \A n \in S : First(S) <= n
<1>1. \E n \in S : \A m \in S : ~(<<m, n>> \in OpToRel(<, Nat))
  BY NatLessThanWellFounded, WFMin
<1>2. \E n \in S : \A m \in S : n <= m
  <2>1. PICK n \in S : \A m \in S : ~(<<m, n>> \in OpToRel(<, Nat))
    BY <1>1
  <2>2. \A m \in S : n <= m
    <3> TAKE m \in S
    <3>1. <<m, n>> \in Nat \X Nat /\ ~(m < n)
      BY <2>1 DEF OpToRel
    <3> QED BY <3>1
  <2> QED BY <2>2
<1> QED BY <1>2 DEF First

LEMMA StrictlyFewer ==
  ASSUME NEW S, IsFiniteSet(S), NEW T, T \subseteq S, NEW x \in S, x \notin T
  PROVE  /\ IsFiniteSet(T)
         /\ Cardinality(T) \in Nat /\ Cardinality(S) \in Nat
         /\ Cardinality(T) < Cardinality(S)
<1>1. /\ IsFiniteSet(T) /\ Cardinality(T) <= Cardinality(S)
      /\ Cardinality(S) = Cardinality(T) => S = T
  BY FS_Subset
<1>2. Cardinality(T) \in Nat /\ Cardinality(S) \in Nat
  BY <1>1, FS_CardinalityType
<1> QED BY <1>1, <1>2

\* Of elements numbered differently, at most k have fewer than k before them.
LEMMA FewAreEarly ==
  ASSUME NEW S, IsFiniteSet(S), NEW id \in [S -> Nat],
         \A c, d \in S : id[c] = id[d] => c = d,
         NEW k \in Nat
  PROVE  LET early == {c \in S : Cardinality({d \in S : id[d] < id[c]}) < k}
         IN  IsFiniteSet(early) /\ Cardinality(early) <= k
<1> DEFINE Before(c) == {d \in S : id[d] < id[c]}
           early == {c \in S : Cardinality(Before(c)) < k}
           rank == [c \in early |-> Cardinality(Before(c))]
<1>1. \A c \in S : Cardinality(Before(c)) \in Nat
  BY StrictlyFewer
<1>2. \A c, d \in S : id[c] < id[d] => Cardinality(Before(c)) < Cardinality(Before(d))
  <2> SUFFICES ASSUME NEW c \in S, NEW d \in S, id[c] < id[d]
               PROVE  Cardinality(Before(c)) < Cardinality(Before(d))
    OBVIOUS
  <2>1. IsFiniteSet(Before(d))
    BY StrictlyFewer
  <2>2. Before(c) \subseteq Before(d) /\ c \in Before(d) /\ c \notin Before(c)
    OBVIOUS
  <2> QED BY <2>1, <2>2, StrictlyFewer
<1>3. rank \in [early -> 0..(k - 1)]
  BY <1>1
<1>4. \A c, d \in early : rank[c] = rank[d] => c = d
  <2> SUFFICES ASSUME NEW c \in early, NEW d \in early, rank[c] = rank[d]
               PROVE  c = d
    OBVIOUS
  <2>1. Cardinality(Before(c)) = Cardinality(Before(d))
    OBVIOUS
  <2>2. ~(id[c] < id[d]) /\ ~(id[d] < id[c])
    BY <2>1, <1>1, <1>2
  <2> QED BY <2>2
<1>5. rank \in Injection(early, 0..(k - 1))
  BY <1>3, <1>4 DEF Injection, IsInjective
<1>6. IsFiniteSet(0..(k - 1)) /\ Cardinality(0..(k - 1)) = k
  BY FS_Interval
<1> HIDE DEF early, rank
<1>7. IsFiniteSet(early) /\ Cardinality(early) <= k
  BY <1>5, <1>6, FS_Injection
<1> QED BY <1>7 DEF early

-------------------------------------------------------------------------------
\* Candidates: what they are, and that they are numbered differently.
LEMMA ReadTypes ==
  ASSUME NEW i \in Investigation, NEW c \in Claims
  PROVE  MetricFor(i, c) \in Metrics
BY LoopAssumption DEF LoopAssumption, MetricFor

LEMMA FalsifiersAreFinite ==
  ASSUME NEW i \in Investigation
  PROVE  /\ IsFiniteSet(Falsifiers(i)) /\ Cardinality(Falsifiers(i)) \in Nat
         /\ Falsifiers(i) \subseteq Nat /\ Falsifiers(i) \subseteq DOMAIN i.critiques
<1>1. Falsifiers(i) \subseteq DOMAIN i.critiques
  BY DEF Falsifiers, Useful
<1>2. /\ Len(i.critiques) \in Nat
      /\ DOMAIN i.critiques = 1..Len(i.critiques)
  BY DEF Investigation
<1>3. IsFiniteSet(DOMAIN i.critiques)
  BY <1>2, FS_Interval
<1> QED BY <1>1, <1>2, <1>3, FS_Subset, FS_CardinalityType

LEMMA PlannedAreFinite ==
  ASSUME NEW i \in Investigation
  PROVE  /\ IsFiniteSet(Planned(i)) /\ Cardinality(Planned(i)) \in Nat
         /\ Planned(i) \subseteq Groups(i) \X IntentTools
         /\ Groups(i) \subseteq Claims \cup {NoClaim}
         /\ Planned(i) \subseteq Nat \X Nat
<1>1. /\ Planned(i) \subseteq Groups(i) \X IntentTools
      /\ Groups(i) \subseteq Claims \cup {NoClaim}
  BY DEF Planned, Groups, OpenClaims, Proposed
<1>2. Claims \cup {NoClaim} = 0..NClaims /\ NClaims \in Int /\ NIntent \in Int
  BY ClaimsAssumption, LoopAssumption DEF ClaimsAssumption, LoopAssumption, Claims, NoClaim
<1>3. IsFiniteSet(0..NClaims) /\ IsFiniteSet(IntentTools)
  BY <1>2, FS_Interval DEF IntentTools
<1>4. IsFiniteSet((0..NClaims) \X IntentTools)
  BY <1>3, FS_Product
<1>5. Planned(i) \subseteq (0..NClaims) \X IntentTools
  BY <1>1, <1>2
<1>6. IsFiniteSet(Planned(i)) /\ Cardinality(Planned(i)) \in Nat
  BY <1>4, <1>5, FS_Subset, FS_CardinalityType
<1>7. Planned(i) \subseteq Nat \X Nat
  BY <1>5, <1>2 DEF IntentTools
<1> QED BY <1>1, <1>6, <1>7

LEMMA FalsifierIds ==
  ASSUME NEW i \in Investigation, NEW n \in Falsifiers(i)
  PROVE  /\ FalsifierId(i, n) \in Nat
         /\ FalsifierId(i, n) < Len(i.ran) + Cardinality(Falsifiers(i))
         /\ \A m \in Falsifiers(i) : FalsifierId(i, m) = FalsifierId(i, n) => m = n
<1> DEFINE F == Falsifiers(i)
           Before(m) == {k \in F : k < m}
<1>1. IsFiniteSet(F) /\ F \subseteq Nat /\ Len(i.ran) \in Nat
  BY FalsifiersAreFinite DEF Investigation
<1>2. \A m \in F : /\ IsFiniteSet(Before(m)) /\ Cardinality(Before(m)) \in Nat
                   /\ Cardinality(F) \in Nat /\ Cardinality(Before(m)) < Cardinality(F)
  <2> TAKE m \in F
  <2>1. Before(m) \subseteq F /\ m \notin Before(m)
    BY <1>1
  <2> QED BY <1>1, <2>1, StrictlyFewer
<1>3. \A m, k \in F : m < k => Cardinality(Before(m)) < Cardinality(Before(k))
  <2> SUFFICES ASSUME NEW m \in F, NEW k \in F, m < k
               PROVE  Cardinality(Before(m)) < Cardinality(Before(k))
    OBVIOUS
  <2>1. Before(m) \subseteq Before(k) /\ m \in Before(k) /\ m \notin Before(m)
    BY <1>1
  <2> QED BY <1>2, <2>1, StrictlyFewer
<1>4. \A m \in F : FalsifierId(i, m) = Len(i.ran) + Cardinality(Before(m))
  BY DEF FalsifierId
<1> HIDE DEF F, Before
<1>5. n \in F
  BY DEF F
<1>6. \A m \in F : FalsifierId(i, m) = FalsifierId(i, n) => m = n
  BY <1>1, <1>2, <1>3, <1>4, <1>5
<1> QED BY <1>1, <1>2, <1>4, <1>5, <1>6 DEF F

LEMMA PlannedIds ==
  ASSUME NEW i \in Investigation, NEW p \in Planned(i)
  PROVE  /\ PlannedId(i, p) \in Nat
         /\ PlannedId(i, p) >= Len(i.ran) + Cardinality(Falsifiers(i))
         /\ \A q \in Planned(i) : PlannedId(i, q) = PlannedId(i, p) => q = p
<1> DEFINE P == Planned(i)
           Less(q, r) == q[1] < r[1] \/ (q[1] = r[1] /\ q[2] < r[2])
           Before(r) == {q \in P : Less(q, r)}
<1>1. /\ IsFiniteSet(P) /\ Len(i.ran) \in Nat /\ Cardinality(Falsifiers(i)) \in Nat
      /\ \A q \in P : q[1] \in Nat /\ q[2] \in Nat /\ q = <<q[1], q[2]>>
  BY PlannedAreFinite, FalsifiersAreFinite DEF Investigation
<1>2. \A q \in P : IsFiniteSet(Before(q)) /\ Cardinality(Before(q)) \in Nat
  <2> TAKE q \in P
  <2>1. Before(q) \subseteq P
    OBVIOUS
  <2> QED BY <1>1, <2>1, FS_Subset, FS_CardinalityType
<1>3. \A q, r \in P : Less(q, r) => Cardinality(Before(q)) < Cardinality(Before(r))
  <2> SUFFICES ASSUME NEW q \in P, NEW r \in P, Less(q, r)
               PROVE  Cardinality(Before(q)) < Cardinality(Before(r))
    OBVIOUS
  <2>1. Before(q) \subseteq Before(r) /\ q \in Before(r) /\ q \notin Before(q)
    BY <1>1
  <2> QED BY <1>2, <2>1, StrictlyFewer
<1>4. \A q \in P : PlannedId(i, q) = Len(i.ran) + Cardinality(Falsifiers(i))
                                       + Cardinality(Before(q))
  BY DEF PlannedId
<1>5. \A q, r \in P : q # r => Less(q, r) \/ Less(r, q)
  BY <1>1
<1> HIDE DEF P, Before, Less
<1>6. p \in P
  BY DEF P
<1>7. \A q \in P : PlannedId(i, q) = PlannedId(i, p) => q = p
  BY <1>1, <1>2, <1>3, <1>4, <1>5, <1>6
<1> QED BY <1>1, <1>2, <1>4, <1>6, <1>7 DEF P

FalsifierRequest(i, n) ==
  [id |-> FalsifierId(i, n), tool |-> i.critiques[n].tool,
   metric |-> MetricFor(i, i.critiques[n].target),
   targets |-> {i.critiques[n].target}]
PlannedRequest(i, p) ==
  [id |-> PlannedId(i, p), tool |-> p[2], metric |-> GroupMetric(p[1]),
   targets |-> GroupTargets(i, p[1])]

LEMMA CandidatesAre ==
  ASSUME NEW i
  PROVE  Candidates(i) = {FalsifierRequest(i, n) : n \in Falsifiers(i)}
                           \cup {PlannedRequest(i, p) : p \in Planned(i)}
BY DEF Candidates, FalsifierRequest, PlannedRequest

LEMMA CandidatesAreFinite ==
  ASSUME NEW i \in Investigation
  PROVE  IsFiniteSet(Candidates(i))
<1> DEFINE f == [n \in Falsifiers(i) |-> FalsifierRequest(i, n)]
           p == [q \in Planned(i) |-> PlannedRequest(i, q)]
           F == {FalsifierRequest(i, n) : n \in Falsifiers(i)}
           P == {PlannedRequest(i, q) : q \in Planned(i)}
<1>1. f \in Surjection(Falsifiers(i), F)
  BY DEF Surjection
<1>2. p \in Surjection(Planned(i), P)
  BY DEF Surjection
<1> HIDE DEF f, p, F, P
<1>3. IsFiniteSet(F) /\ IsFiniteSet(P)
  BY <1>1, <1>2, FalsifiersAreFinite, PlannedAreFinite, FS_Surjection
<1>4. IsFiniteSet(F \cup P)
  BY <1>3, FS_Union
<1> QED BY <1>4, CandidatesAre DEF F, P

LEMMA CandidateTypes ==
  ASSUME NEW i \in Investigation, NEW c \in Candidates(i)
  PROVE  c \in Request /\ ToolUses(i, c.tool) < MaxToolUses
<1>1. ToolUses(i, c.tool) \in Nat /\ MaxToolUses \in Nat
  <2>1. /\ Len(i.ran) \in Nat /\ DOMAIN i.ran = 1..Len(i.ran)
    BY DEF Investigation
  <2>2. IsFiniteSet(DOMAIN i.ran)
    BY <2>1, FS_Interval
  <2>3. IsFiniteSet({n \in DOMAIN i.ran : i.ran[n].tool = c.tool})
    BY <2>2, FS_Subset
  <2> QED BY <2>3, FS_CardinalityType, LoopAssumption DEF ToolUses, LoopAssumption
<1>2. CASE c \in {FalsifierRequest(i, n) : n \in Falsifiers(i)}
  <2>1. PICK n \in Falsifiers(i) : c = FalsifierRequest(i, n)
    BY <1>2
  <2>2. n \in Useful(i) /\ n \in DOMAIN i.critiques
    BY DEF Falsifiers, Useful
  <2>3. i.critiques[n] \in Critique
    BY <2>2 DEF Investigation
  <2>4. /\ i.critiques[n].target \in Claims /\ i.critiques[n].tool \in Tools
        /\ ~AtLimit(i, i.critiques[n].tool)
    BY <2>2, <2>3 DEF Critique, Useful, Plannable
  <2>5. MetricFor(i, i.critiques[n].target) \in Metrics /\ FalsifierId(i, n) \in Nat
    BY <2>4, ReadTypes, FalsifierIds
  <2>6. c \in Request
    BY <2>1, <2>4, <2>5 DEF FalsifierRequest, Request
  <2>7. ~AtLimit(i, c.tool)
    BY <2>1, <2>4 DEF FalsifierRequest
  <2> QED BY <2>6, <2>7, <1>1 DEF AtLimit
<1>3. CASE c \in {PlannedRequest(i, p) : p \in Planned(i)}
  <2>1. PICK p \in Planned(i) : c = PlannedRequest(i, p)
    BY <1>3
  <2>2. /\ p[1] \in Claims \cup {NoClaim} /\ p[2] \in IntentTools
        /\ ~AtLimit(i, p[2])
    BY PlannedAreFinite DEF Planned, Plannable
  <2>3. p[2] \in Tools
    BY <2>2, LoopAssumption DEF LoopAssumption, Tools, IntentTools
  <2>4. GroupMetric(p[1]) \in Metrics
    BY <2>2, LoopAssumption DEF LoopAssumption, GroupMetric
  <2>5. GroupTargets(i, p[1]) \subseteq Claims
    BY DEF GroupTargets, SameMetric, OpenClaims, Proposed
  <2>6. PlannedId(i, p) \in Nat
    BY PlannedIds
  <2>7. c \in Request
    BY <2>1, <2>3, <2>4, <2>5, <2>6 DEF PlannedRequest, Request
  <2>8. ~AtLimit(i, c.tool)
    BY <2>1, <2>2 DEF PlannedRequest
  <2> QED BY <2>7, <2>8, <1>1 DEF AtLimit
<1> QED BY <1>2, <1>3, CandidatesAre

LEMMA CandidateIdsDiffer ==
  ASSUME NEW i \in Investigation
  PROVE  \A c, d \in Candidates(i) : c.id = d.id => c = d
<1> SUFFICES ASSUME NEW c \in Candidates(i), NEW d \in Candidates(i), c.id = d.id
             PROVE  c = d
  OBVIOUS
<1> DEFINE F == {FalsifierRequest(i, n) : n \in Falsifiers(i)}
           P == {PlannedRequest(i, p) : p \in Planned(i)}
<1>1. \A r \in F : r.id < Len(i.ran) + Cardinality(Falsifiers(i)) /\ r.id \in Nat
  BY FalsifierIds DEF FalsifierRequest
<1>2. \A r \in P : r.id >= Len(i.ran) + Cardinality(Falsifiers(i)) /\ r.id \in Nat
  BY PlannedIds DEF PlannedRequest
<1>3. Len(i.ran) \in Nat /\ Cardinality(Falsifiers(i)) \in Nat
  BY FalsifiersAreFinite DEF Investigation
<1>4. CASE c \in F /\ d \in F
  <2>1. PICK n \in Falsifiers(i), m \in Falsifiers(i) :
          c = FalsifierRequest(i, n) /\ d = FalsifierRequest(i, m)
    BY <1>4
  <2>2. FalsifierId(i, n) = FalsifierId(i, m)
    BY <2>1 DEF FalsifierRequest
  <2> QED BY <2>1, <2>2, FalsifierIds
<1>5. CASE c \in P /\ d \in P
  BY <1>5, PlannedIds DEF PlannedRequest
<1>6. ~(c \in F /\ d \in P) /\ ~(c \in P /\ d \in F)
  BY <1>1, <1>2, <1>3
<1>7. c \in F \cup P /\ d \in F \cup P
  BY CandidatesAre
<1> QED BY <1>4, <1>5, <1>6, <1>7

\* A batch is led by one of the candidates, has no tool twice and is no larger
\* than what is left.
LEMMA BatchIsBounded ==
  ASSUME NEW i \in Investigation, NEW lead \in Candidates(i), BatchLimit \in Nat \ {0}
  PROVE  LET batch == Batch(Candidates(i), lead)
         IN  /\ batch \subseteq Candidates(i) /\ batch # {}
             /\ IsFiniteSet(batch) /\ Cardinality(batch) <= BatchLimit
             /\ \A r, s \in batch : r.tool = s.tool => r = s
<1> DEFINE C == Candidates(i)
           F == Followers(C, lead)
           id == [c \in F |-> c.id]
           early == {c \in F : Cardinality({d \in F : id[d] < id[c]}) < BatchLimit - 1}
           batch == Batch(C, lead)
<1>1. F \subseteq C /\ IsFiniteSet(F)
  BY CandidatesAreFinite, FS_Subset DEF Followers
<1>2. id \in [F -> Nat]
  BY <1>1, CandidateTypes DEF Request
<1>3. \A c, d \in F : id[c] = id[d] => c = d
  BY <1>1, CandidateIdsDiffer
<1>4. BatchLimit - 1 \in Nat
  OBVIOUS
<1>5. early = {c \in F : Cardinality({d \in F : d.id < c.id}) < BatchLimit - 1}
  <2>1. \A c \in F : {d \in F : id[d] < id[c]} = {d \in F : d.id < c.id}
    OBVIOUS
  <2> QED BY <2>1
<1>6. batch = early \cup {lead}
  BY <1>5 DEF Batch
<1> HIDE DEF id
<1>7. IsFiniteSet(early) /\ Cardinality(early) <= BatchLimit - 1
  BY <1>1, <1>2, <1>3, <1>4, FewAreEarly
<1>8. early \subseteq F
  OBVIOUS
<1> HIDE DEF early, batch
<1>9. IsFiniteSet(batch) /\ Cardinality(batch) <= BatchLimit
  <2>1. Cardinality(early) \in Nat
    BY <1>7, FS_CardinalityType
  <2>2. /\ IsFiniteSet(early \cup {lead})
        /\ \/ Cardinality(early \cup {lead}) = Cardinality(early)
           \/ Cardinality(early \cup {lead}) = Cardinality(early) + 1
    BY <1>7, FS_AddElement
  <2> QED BY <1>6, <1>7, <2>1, <2>2
<1>10. \A r, s \in batch : r.tool = s.tool => r = s
  <2>1. \A r \in F : r.tool # lead.tool
    BY DEF Followers
  <2>2. \A r, s \in F : r.tool = s.tool => r.id <= s.id /\ s.id <= r.id
    BY <1>1 DEF Followers
  <2>3. \A r, s \in F : r.tool = s.tool => r.id = s.id
    <3>1. \A r \in F : r.id \in Nat
      BY <1>1, CandidateTypes DEF Request
    <3> QED BY <2>2, <3>1
  <2>4. \A r, s \in F : r.tool = s.tool => r = s
    BY <2>3, <1>1, CandidateIdsDiffer
  <2> QED BY <1>6, <1>8, <2>1, <2>4
<1>11. batch \subseteq C /\ batch # {}
  BY <1>1, <1>6, <1>8
<1> QED BY <1>9, <1>10, <1>11 DEF batch

-------------------------------------------------------------------------------
\* Types.
\* What a claim's status may become, and what may become of the aggregate.
LEMMA ConcludeType ==
  ASSUME NEW i \in Investigation, NEW r \in Reasons
  PROVE  Conclude(i, r) \in Investigation
<1>1. Closed(i.claims) \in ClaimStates
  BY DEF Closed, ClaimStates, HypothesisStatus, Investigation
<1>2. Disposition(Closed(i.claims), r) \in Dispositions
  BY DEF Disposition, Dispositions
<1> QED BY <1>1, <1>2 DEF Conclude, Investigation, Reasons

LEMMA StatusType ==
  ASSUME NEW i \in Investigation, NEW s \in InvestigationStatus
  PROVE  [i EXCEPT !.status = s] \in Investigation
BY DEF Investigation

LEMMA FailedType ==
  ASSUME NEW i \in Investigation
  PROVE  Failed(i) \in Investigation
BY StatusType DEF Failed, InvestigationStatus

LEMMA NothingType == NoInvestigation \in Investigation
BY DEF NoInvestigation, Investigation, NoEvidence, Evidence, Strength, ClaimStates

LEMMA LeaveTypes ==
  ASSUME TypeOK, NEW n \in Nat, Leave(n)
  PROVE  /\ tracker' \in [calls : Nat, used : Nat, failures : Nat]
         /\ call' \in [window : 0..MaxExperiments, userStop : BOOLEAN, fresh : Nat,
                       batch : SUBSET Request, lead : Nat, won : BOOLEAN]
<1>1. MaxExperiments \in Nat
  BY LoopAssumption DEF LoopAssumption
<1> QED BY <1>1 DEF TypeOK, Leave, NewTracker, NewCall

LEMMA ReturnTypes ==
  ASSUME TypeOK, NEW i \in Investigation, NEW n \in Nat, Return(i, n)
  PROVE  TypeOK'
BY LeaveTypes DEF Return, TypeOK

LEMMA RaiseTypes ==
  ASSUME TypeOK, NEW n \in Nat, Raise(n)
  PROVE  TypeOK'
BY LeaveTypes DEF Raise, TypeOK

LEMMA FinalizeTypes ==
  ASSUME TypeOK, NEW i \in Investigation, NEW r \in Reasons, NEW n \in Nat,
         Finalize(i, r, n)
  PROVE  TypeOK'
<1>1. TerminalStatus(r) \in InvestigationStatus
  BY DEF TerminalStatus, InvestigationStatus
<1>2. [Conclude(i, r) EXCEPT !.status = TerminalStatus(r)] \in Investigation
  BY <1>1, ConcludeType, StatusType
<1> QED BY <1>2, ReturnTypes, RaiseTypes DEF Finalize

LEMMA FailSafeTypes ==
  ASSUME TypeOK, FailSafe
  PROVE  TypeOK'
<1>1. /\ Failed(inv) \in Investigation
      /\ Failed(Conclude(inv, "error")) \in Investigation
  BY ConcludeType, FailedType DEF TypeOK, Reasons
<1> QED BY <1>1, ReturnTypes DEF FailSafe

LEMMA EndIterationTypes ==
  ASSUME TypeOK, NEW i \in Investigation, EndIteration(i)
  PROVE  inv' \in Investigation /\ saved' \in Investigation /\ pc' = "decide"
BY DEF EndIteration, Investigation

LEMMA DueIsInBatch ==
  ASSUME TypeOK, call.batch # {}
  PROVE  Due \in call.batch
<1> DEFINE leads == {r \in call.batch : r.id = call.lead}
           ids == {r.id : r \in call.batch}
<1>1. ids \subseteq Nat /\ ids # {}
  BY DEF TypeOK, Request
<1>2. First(ids) \in ids
  BY <1>1, FirstIsLeast
<1>3. \E r \in call.batch : r.id = IF leads # {} THEN call.lead ELSE First(ids)
  BY <1>2
<1> QED BY <1>3 DEF Due

LEMMA RecordedType ==
  ASSUME TypeOK, call.batch # {}, NEW ok \in BOOLEAN, NEW told \in SUBSET Claims
  PROVE  /\ Recorded(ok, told) \in Seq(Result)
         /\ Len(Recorded(ok, told)) = Len(inv.ran) + 1
         /\ [inv EXCEPT !.ran = Recorded(ok, told)] \in Investigation
<1>1. Due \in Request
  BY DueIsInBatch DEF TypeOK
<1>2. [id |-> Due.id, tool |-> Due.tool, metric |-> Due.metric,
       targets |-> Due.targets, ok |-> ok, told |-> told] \in Result
  BY <1>1 DEF Request, Result
<1>3. inv.ran \in Seq(Result)
  BY DEF TypeOK, Investigation
<1>4. Recorded(ok, told) \in Seq(Result) /\ Len(Recorded(ok, told)) = Len(inv.ran) + 1
  BY <1>2, <1>3 DEF Recorded
<1> QED BY <1>4 DEF TypeOK, Investigation

LEMMA FoldedTypes ==
  ASSUME TypeOK, NEW i \in Investigation, NEW ok \in BOOLEAN, Folded(i, ok)
  PROVE  TypeOK'
<1>1. /\ tracker' \in [calls : Nat, used : Nat, failures : Nat]
      /\ call' \in [window : 0..MaxExperiments, userStop : BOOLEAN, fresh : Nat,
                    batch : SUBSET Request, lead : Nat, won : BOOLEAN]
  <2> DEFINE left == call.batch \ {Due}
             won == (call.won \/ ok) /\ left # {}
  <2>1. left \in SUBSET Request
    BY DEF TypeOK
  <2>2. won \in BOOLEAN
    OBVIOUS
  <2>3. call' = [call EXCEPT !.fresh = @ + 1, !.batch = left,
                             !.lead = IF left = {} THEN 0 ELSE @, !.won = won]
    BY DEF Folded
  <2>4. tracker' = [tracker EXCEPT !.used = @ + 1, !.failures = IF ok THEN 0 ELSE @ + 1]
    BY DEF Folded
  <2> HIDE DEF left, won
  <2>5. tracker' \in [calls : Nat, used : Nat, failures : Nat]
    <3> DEFINE fails == IF ok THEN 0 ELSE tracker.failures + 1
    <3>1. tracker \in [calls : Nat, used : Nat, failures : Nat]
      BY DEF TypeOK
    <3>2. fails \in Nat /\ tracker.used + 1 \in Nat
      BY <3>1
    <3>3. tracker' = [tracker EXCEPT !.used = tracker.used + 1, !.failures = fails]
      BY <2>4
    <3> HIDE DEF fails
    <3> QED BY <3>1, <3>2, <3>3
  <2>6. call \in [window : 0..MaxExperiments, userStop : BOOLEAN, fresh : Nat,
                  batch : SUBSET Request, lead : Nat, won : BOOLEAN]
    BY DEF TypeOK
  <2>7. call.fresh + 1 \in Nat /\ (IF left = {} THEN 0 ELSE call.lead) \in Nat
    BY <2>6
  <2>8. call' \in [window : 0..MaxExperiments, userStop : BOOLEAN, fresh : Nat,
                   batch : SUBSET Request, lead : Nat, won : BOOLEAN]
    BY <2>1, <2>2, <2>3, <2>6, <2>7
  <2> QED BY <2>5, <2>8
<1>2. /\ inv' \in Investigation /\ saved' \in Investigation
      /\ pc' \in {"fold", "critic", "decide"}
  <2>1. CASE inv' = i /\ pc' \in {"fold", "critic"} /\ UNCHANGED saved
    BY <2>1 DEF TypeOK
  <2>2. CASE EndIteration(i)
    BY <2>2, EndIterationTypes
  <2> QED BY <2>1, <2>2 DEF Folded
<1> QED BY <1>1, <1>2 DEF TypeOK

LEMMA ExclusiveType ==
  ASSUME NEW i \in Investigation
  PROVE  /\ Exclusive(i) \in Investigation /\ Exclusive(i).ran = i.ran
         /\ Exclusive(i).iterations = i.iterations
         /\ Exclusive(i).stop = i.stop /\ Exclusive(i).status = i.status
         /\ Proposed(Exclusive(i).claims) = Proposed(i.claims)
<1>1. CASE i.rivals /\ {1, 2} \subseteq With(i.claims, "supported")
  <2>1. 1 \in Claims /\ 2 \in Claims
    BY <1>1 DEF With
  <2>2. Contradiction(1, 2, NoTool) \in Critique
    BY <2>1 DEF Contradiction, Critique
  <2>3. Weakened(i.claims, {1, 2}) \in ClaimStates
    BY DEF Weakened, ClaimStates, HypothesisStatus, Investigation
  <2>4. i.critiques \in Seq(Critique)
    BY DEF Investigation
  <2>5. Append(i.critiques, Contradiction(1, 2, NoTool)) \in Seq(Critique)
    BY <2>2, <2>4
  <2>6. Proposed(Weakened(i.claims, {1, 2})) = Proposed(i.claims)
    BY <1>1 DEF Proposed, Weakened, With
  <2> QED BY <1>1, <2>3, <2>5, <2>6 DEF Exclusive, Investigation
<1>2. CASE ~(i.rivals /\ {1, 2} \subseteq With(i.claims, "supported"))
  BY <1>2 DEF Exclusive
<1> QED BY <1>1, <1>2

LEMMA ReasonsTyped ==
  /\ \A late \in Late : StopReason(late) \in Reasons \cup {"none"}
  /\ \A i, n : OutOfCandidates(i, n) \in Reasons
<1>1. \A i : EvidenceReason(i) \in Reasons \cup {"none"}
  BY DEF EvidenceReason, Reasons
<1> QED BY <1>1 DEF StopReason, OutOfCandidates, Reasons

LEMMA FoldSuccessIs ==
  ASSUME TypeOK, call.batch # {}, FoldSuccess
  PROVE  \/ Raise(0)
         \/ \E i \in Investigation, told \in SUBSET Claims :
              /\ i.ran = Recorded(TRUE, told) /\ i.iterations = inv.iterations
              /\ i.stop = inv.stop /\ i.status = inv.status
              /\ Proposed(i.claims) = Proposed(inv.claims)
              /\ Folded(i, TRUE)
<1>1. CASE Raise(0)
  BY <1>1
<1>2. CASE ~Raise(0)
  <2>1. PICK reading, told, evidence, claims :
          /\ reading \in [Due.targets \cap Proposed(inv.claims) -> Readings]
          /\ told = {c \in DOMAIN reading : Directional(reading[c])}
          /\ evidence = [c \in Claims |-> IF c \in DOMAIN reading
                                          THEN Filed(inv.evidence[c], reading[c])
                                          ELSE inv.evidence[c]]
          /\ claims = [c \in Claims |-> IF c \in DOMAIN reading \cap OpenClaims(inv.claims)
                                        THEN Scored(inv.claims[c], evidence[c])
                                        ELSE inv.claims[c]]
          /\ Folded(Exclusive([inv EXCEPT !.ran = Recorded(TRUE, told),
                                          !.evidence = evidence,
                                          !.claims = claims]), TRUE)
    BY <1>2 DEF FoldSuccess
  <2> DEFINE i == [inv EXCEPT !.ran = Recorded(TRUE, told),
                              !.evidence = evidence, !.claims = claims]
  <2>2. told \in SUBSET Claims
    BY <2>1 DEF Proposed
  <2>3. evidence \in [Claims -> Evidence]
    <3>1. inv.evidence \in [Claims -> Evidence]
      BY DEF TypeOK, Investigation
    <3>2. \A c \in DOMAIN reading : reading[c] \in Evidence
      BY <2>1, LoopAssumption DEF LoopAssumption
    <3>3. \A old, new \in Evidence : Filed(old, new) \in Evidence
      BY DEF Filed, Evidence, Strength, Stronger
    <3> QED BY <2>1, <3>1, <3>2, <3>3
  <2>4. claims \in ClaimStates
    <3>1. inv.claims \in ClaimStates
      BY DEF TypeOK, Investigation
    <3>2. \A e : \A s \in HypothesisStatus \cup {"absent"} :
            Scored(s, e) \in HypothesisStatus \cup {"absent"}
      BY DEF Scored, Begun, HypothesisStatus
    <3> QED BY <2>1, <3>1, <3>2 DEF ClaimStates
  <2>5. inv \in Investigation /\ Recorded(TRUE, told) \in Seq(Result)
    BY <2>2, RecordedType DEF TypeOK
  <2>6. /\ i \in Investigation /\ i.ran = Recorded(TRUE, told)
        /\ i.iterations = inv.iterations /\ i.claims = claims
        /\ i.stop = inv.stop /\ i.status = inv.status
    BY <2>3, <2>4, <2>5 DEF Investigation
  <2>7. Folded(Exclusive(i), TRUE)
    BY <2>1
  <2> HIDE DEF i
  <2>8. Proposed(claims) = Proposed(inv.claims)
    <3>1. \A e, s : s # "absent" => Scored(s, e) # "absent"
      BY DEF Scored, Begun
    <3>2. \A c \in Claims : claims[c] = "absent" <=> inv.claims[c] = "absent"
      BY <2>1, <3>1 DEF OpenClaims, Proposed
    <3> QED BY <3>2 DEF Proposed
  <2>9. /\ Exclusive(i) \in Investigation /\ Exclusive(i).ran = Recorded(TRUE, told)
        /\ Exclusive(i).iterations = inv.iterations
        /\ Exclusive(i).stop = inv.stop /\ Exclusive(i).status = inv.status
        /\ Proposed(Exclusive(i).claims) = Proposed(inv.claims)
    BY <2>6, <2>8, ExclusiveType
  <2> QED BY <2>2, <2>7, <2>9
<1> QED BY <1>1, <1>2

LEMMA CriticTypes ==
  ASSUME TypeOK, NEW c \in Critique, NEW claims \in ClaimStates
  PROVE  [inv EXCEPT !.critiques = Append(@, c), !.claims = claims] \in Investigation
<1>1. inv \in Investigation /\ inv.critiques \in Seq(Critique)
  BY DEF TypeOK, Investigation
<1>2. Append(inv.critiques, c) \in Seq(Critique)
  BY <1>1
<1> QED BY <1>1, <1>2 DEF Investigation

LEMMA ContradictIs ==
  ASSUME TypeOK, Contradict
  PROVE  \E i \in Investigation : /\ i.ran = inv.ran /\ i.iterations = inv.iterations
                                  /\ i.stop = inv.stop /\ i.status = inv.status
                                  /\ Proposed(i.claims) = Proposed(inv.claims)
                                  /\ EndIteration(i)
<1>1. PICK t \in With(inv.claims, "supported"), o \in With(inv.claims, "supported"),
           tool \in Tools \cup {NoTool} :
        EndIteration([inv EXCEPT !.critiques = Append(@, Contradiction(t, o, tool)),
                                 !.claims = Weakened(@, {t, o})])
  BY DEF Contradict
<1>2. Contradiction(t, o, tool) \in Critique
  BY DEF Contradiction, Critique, With
<1>3. Weakened(inv.claims, {t, o}) \in ClaimStates
  BY DEF Weakened, ClaimStates, HypothesisStatus, TypeOK, Investigation
<1> DEFINE i == [inv EXCEPT !.critiques = Append(@, Contradiction(t, o, tool)),
                            !.claims = Weakened(inv.claims, {t, o})]
<1>4. i \in Investigation
  BY <1>2, <1>3, CriticTypes
<1>5. /\ i.ran = inv.ran /\ i.iterations = inv.iterations
      /\ i.stop = inv.stop /\ i.status = inv.status
      /\ i.claims = Weakened(inv.claims, {t, o})
  BY DEF TypeOK, Investigation
<1>6. EndIteration(i)
  BY <1>1
<1>7. Proposed(Weakened(inv.claims, {t, o})) = Proposed(inv.claims)
  BY DEF Proposed, Weakened, With
<1> QED BY <1>4, <1>5, <1>6, <1>7

LEMMA ChallengeIs ==
  ASSUME TypeOK, Challenge
  PROVE  \E i \in Investigation : /\ i.ran = inv.ran /\ i.iterations = inv.iterations
                                  /\ i.stop = inv.stop /\ i.status = inv.status
                                  /\ Proposed(i.claims) = Proposed(inv.claims)
                                  /\ EndIteration(i)
<1>1. PICK t \in Claims, tool \in Tools :
        EndIteration([inv EXCEPT !.critiques = Append(@,
          [kind |-> "challenge", target |-> t, other |-> NoClaim, tool |-> tool])])
  BY DEF Challenge
<1> DEFINE c == [kind |-> "challenge", target |-> t, other |-> NoClaim, tool |-> tool]
           i == [inv EXCEPT !.critiques = Append(@, c)]
<1>2. c \in Critique
  BY DEF Critique
<1>3. inv \in Investigation /\ inv.critiques \in Seq(Critique)
  BY DEF TypeOK, Investigation
<1>4. Append(inv.critiques, c) \in Seq(Critique)
  BY <1>2, <1>3
<1>5. EndIteration(i)
  BY <1>1
<1> HIDE DEF c
<1>6. /\ i \in Investigation /\ i.ran = inv.ran /\ i.iterations = inv.iterations
      /\ i.stop = inv.stop /\ i.status = inv.status /\ i.claims = inv.claims
  BY <1>3, <1>4 DEF Investigation
<1> QED BY <1>5, <1>6

-------------------------------------------------------------------------------
\* Type correctness of a step, one step per action of Next.
LEMMA StepTypes == TypeOK /\ LInv /\ [Next]_vars => TypeOK'
<1> SUFFICES ASSUME TypeOK, LInv, [Next]_vars
             PROVE  TypeOK'
  OBVIOUS
<1>0. \A n \in Windows, userStop \in BOOLEAN :
        NewCall(n, userStop) \in
          [window : 0..MaxExperiments, userStop : BOOLEAN, fresh : Nat,
           batch : SUBSET Request, lead : Nat, won : BOOLEAN]
  BY LoopAssumption DEF LoopAssumption, NewCall
<1>1. CASE Start
  <2>1. inv' \in Investigation
    BY <1>1, NothingType, StatusType DEF Start, InvestigationStatus
  <2> QED BY <1>1, <2>1, <1>0 DEF Start, TypeOK, NewTracker
<1>2. CASE Resume
  <2>1. Len(inv.ran) \in Nat
    BY DEF TypeOK, Investigation
  <2> QED BY <1>2, <2>1, <1>0 DEF Resume, TypeOK, NewTracker
<1>3. CASE Crash \/ LoopSkipped
  BY <1>3, LeaveTypes DEF Crash, LoopSkipped, TypeOK
<1>4. CASE InterpretFails \/ GenerateFails \/ SelectFails \/ CriticFails
  BY <1>4, FailSafeTypes DEF InterpretFails, GenerateFails, SelectFails, CriticFails
<1>5. CASE Unanswerable
  <2>1. Begin(inv) \in Investigation
    <3>1. inv \in Investigation
      BY DEF TypeOK
    <3>2. Begin(inv) \in {inv, [inv EXCEPT !.status = "running"]}
      <4>1. [inv EXCEPT !.status = inv.status] = inv
        BY <3>1 DEF Investigation
      <4>2. CASE inv.status \in {"created", "planning"}
        BY <4>2 DEF Begin
      <4>3. CASE inv.status \notin {"created", "planning"}
        BY <4>1, <4>3 DEF Begin
      <4> QED BY <4>2, <4>3
    <3> QED BY <3>1, <3>2, StatusType DEF InvestigationStatus
  <2> QED BY <1>5, <2>1, FinalizeTypes DEF Unanswerable, Reasons
<1>6. CASE Interpreted
  <2>1. inv' \in Investigation
    BY <1>6, StatusType DEF Interpreted, TypeOK, InvestigationStatus
  <2> QED BY <1>6, <2>1 DEF Interpreted, TypeOK, ModelCall
<1>7. CASE Generate
  <2>1. CASE Raise(1)
    BY <2>1, RaiseTypes
  <2>2. CASE ~Raise(1)
    <3>1. PICK n \in 0..NClaims, alternatives \in BOOLEAN :
            inv' = [inv EXCEPT
                      !.claims = [c \in Claims |-> IF c <= n THEN "proposed" ELSE "absent"],
                      !.rivals = alternatives /\ n = 2,
                      !.status = "running"]
      BY <1>7, <2>2 DEF Generate
    <3>2. [c \in Claims |-> IF c <= n THEN "proposed" ELSE "absent"] \in ClaimStates
      BY DEF ClaimStates, HypothesisStatus
    <3>3. (alternatives /\ n = 2) \in BOOLEAN
      OBVIOUS
    <3>4. inv' \in Investigation
      <4> DEFINE claims == [c \in Claims |-> IF c <= n THEN "proposed" ELSE "absent"]
                 rivals == alternatives /\ n = 2
      <4>1. claims \in ClaimStates /\ rivals \in BOOLEAN
        BY <3>2, <3>3
      <4>2. inv' = [inv EXCEPT !.claims = claims, !.rivals = rivals, !.status = "running"]
        BY <3>1
      <4>3. inv \in Investigation
        BY DEF TypeOK
      <4> HIDE DEF claims, rivals
      <4> QED BY <4>1, <4>2, <4>3 DEF Investigation, InvestigationStatus
    <3> QED BY <1>7, <2>2, <3>4 DEF Generate, TypeOK, ModelCall
  <2> QED BY <2>1, <2>2
<1>8. CASE Stop
  BY <1>8, ReasonsTyped, FinalizeTypes DEF Stop, StopAt, TypeOK
<1>9. CASE WindowUsed
  BY <1>9, ReturnTypes DEF WindowUsed, TypeOK
<1>10. CASE NothingToRun \/ SelectNone
  BY <1>10, ReasonsTyped, FinalizeTypes DEF NothingToRun, SelectNone, TypeOK
<1>11. CASE Select
  <2>1. PICK lead \in Candidates(inv) :
          call' = [call EXCEPT !.batch = Batch(Candidates(inv), lead),
                               !.lead = lead.id, !.won = FALSE]
    BY <1>11 DEF Select
  <2>2. Candidates(inv) \subseteq Request
    BY CandidateTypes DEF TypeOK
  <2>3. Batch(Candidates(inv), lead) \subseteq Request /\ lead.id \in Nat
    BY <2>2 DEF Batch, Followers, Request
  <2>4. call \in [window : 0..MaxExperiments, userStop : BOOLEAN, fresh : Nat,
                  batch : SUBSET Request, lead : Nat, won : BOOLEAN]
    BY DEF TypeOK
  <2>5. call' \in [window : 0..MaxExperiments, userStop : BOOLEAN, fresh : Nat,
                   batch : SUBSET Request, lead : Nat, won : BOOLEAN]
    BY <2>1, <2>3, <2>4
  <2> QED BY <1>11, <2>5 DEF Select, TypeOK, ModelCall
<1>12. CASE FoldFailure
  <2>1. call.batch # {}
    BY <1>12 DEF FoldFailure, LInv, BatchFits
  <2>2. [inv EXCEPT !.ran = Recorded(FALSE, {})] \in Investigation
    BY <2>1, RecordedType
  <2> QED BY <1>12, <2>2, FoldedTypes DEF FoldFailure
<1>13. CASE FoldSuccess
  <2>1. call.batch # {}
    BY <1>13 DEF FoldSuccess, LInv, BatchFits
  <2> QED BY <1>13, <2>1, FoldSuccessIs, RaiseTypes, FoldedTypes
<1>14. CASE NothingToChallenge
  BY <1>14, EndIterationTypes DEF NothingToChallenge, TypeOK
<1>15. CASE CriticIsSilent
  BY <1>15, EndIterationTypes DEF CriticIsSilent, ModelCall, TypeOK
<1>16. CASE Contradict
  <2>1. inv' \in Investigation /\ saved' \in Investigation /\ pc' = "decide"
    BY <1>16, ContradictIs, EndIterationTypes
  <2> QED BY <1>16, <2>1 DEF Contradict, ModelCall, TypeOK
<1>17. CASE Challenge
  <2>1. inv' \in Investigation /\ saved' \in Investigation /\ pc' = "decide"
    BY <1>17, ChallengeIs, EndIterationTypes
  <2> QED BY <1>17, <2>1 DEF Challenge, ModelCall, TypeOK
<1>18. CASE UNCHANGED vars
  BY <1>18 DEF vars, TypeOK
<1> QED
  BY <1>1, <1>2, <1>3, <1>4, <1>5, <1>6, <1>7, <1>8, <1>9, <1>10, <1>11, <1>12,
     <1>13, <1>14, <1>15, <1>16, <1>17, <1>18
  DEF Next, LoopStep, Work

-------------------------------------------------------------------------------
\* The limits, action by action.
LEMMA SameWithin ==
  ASSUME NEW i, NEW j, Within(i), j.ran = i.ran, j.iterations = i.iterations
  PROVE  Within(j)
BY DEF Within, ToolUses

LEMMA ReturnLimits ==
  ASSUME TypeOK, LInv, NEW i, Within(i), NEW n \in Nat, Return(i, n),
         tracker.calls + n <= MaxModelCalls + 2
  PROVE  LInv'
<1>1. tracker'.failures = 0 /\ tracker'.calls = tracker.calls + n
  BY DEF Return, Leave, NewTracker
<1>2. MaxFailures + MaxParallel - 1 >= 0
  BY LoopAssumption DEF LoopAssumption
<1> QED BY <1>1, <1>2 DEF Return, LInv, Within, ToolUses, Running, CallsAt

LEMMA RaiseLimits ==
  ASSUME TypeOK, LInv, NEW n \in Nat, Raise(n), tracker.calls + n <= MaxModelCalls + 2
  PROVE  LInv'
<1>1. tracker'.failures = 0 /\ tracker'.calls = tracker.calls + n
  BY DEF Raise, Leave, NewTracker
<1>2. MaxFailures + MaxParallel - 1 >= 0
  BY LoopAssumption DEF LoopAssumption
<1> QED BY <1>1, <1>2 DEF Raise, LInv, Within, ToolUses, Running, CallsAt

LEMMA FinalizeLimits ==
  ASSUME TypeOK, LInv, NEW i \in Investigation, Within(i), NEW r, NEW n \in Nat,
         Finalize(i, r, n), tracker.calls + n + 1 <= MaxModelCalls + 2
  PROVE  LInv'
<1> DEFINE j == [Conclude(i, r) EXCEPT !.status = TerminalStatus(r)]
<1>1. j.ran = i.ran /\ j.iterations = i.iterations
  BY DEF Conclude, Investigation
<1> HIDE DEF j
<1>2. Within(j)
  BY <1>1, SameWithin
<1>3. tracker.calls + (n + 1) <= MaxModelCalls + 2 /\ n + 1 \in Nat
  BY LoopAssumption DEF TypeOK, LoopAssumption
<1>4. Return(j, n + 1) \/ Raise(n + 1)
  BY DEF Finalize, j
<1> QED BY <1>2, <1>3, <1>4, ReturnLimits, RaiseLimits

LEMMA FailSafeLimits ==
  ASSUME TypeOK, LInv, FailSafe, tracker.calls <= MaxModelCalls
  PROVE  LInv'
<1>1. \A i \in {inv, Conclude(inv, "error")} :
        Failed(i).ran = inv.ran /\ Failed(i).iterations = inv.iterations
  BY DEF Failed, Conclude, TypeOK, Investigation
<1>2. \A i \in {inv, Conclude(inv, "error")} : Within(Failed(i))
  <2> TAKE i \in {inv, Conclude(inv, "error")}
  <2>1. Failed(i).ran = inv.ran /\ Failed(i).iterations = inv.iterations
    BY <1>1
  <2>2. Within(inv)
    BY DEF LInv
  <2> QED BY <2>1, <2>2, SameWithin
<1>3. tracker.calls + 1 <= MaxModelCalls + 2 /\ tracker.calls + 2 <= MaxModelCalls + 2
  BY LoopAssumption DEF TypeOK, LoopAssumption
<1> QED BY <1>2, <1>3, ReturnLimits DEF FailSafe

\* At the end of an iteration there are one more iteration and, if the critic was
\* asked, one more policy call.
LEMMA EndIterationLimits ==
  ASSUME TypeOK, NEW i \in Investigation, Within(i), i.iterations < MaxIterations,
         EndIteration(i), tracker'.used = Len(i.ran),
         tracker'.failures <= MaxFailures + MaxParallel - 1,
         tracker'.calls <= MaxModelCalls + 1
  PROVE  LInv'
<1> DEFINE j == [i EXCEPT !.iterations = @ + 1]
<1>1. /\ inv' = j /\ saved' = j /\ pc' = "decide"
      /\ j.ran = i.ran /\ j.iterations = i.iterations + 1
  BY DEF EndIteration, Investigation
<1>2. j.iterations <= MaxIterations
  BY <1>1, LoopAssumption DEF LoopAssumption, Investigation
<1> HIDE DEF j
<1>3. Within(j)
  BY <1>1, <1>2 DEF Within, ToolUses
<1>4. Within(inv)' /\ Within(saved)'
  BY <1>1, <1>3 DEF Within, ToolUses
<1> QED BY <1>1, <1>4 DEF LInv, Running, CallsAt

\* The loop goes on only while every limit leaves room.
LEMMA RoomIsLeft ==
  ASSUME TypeOK, GoesOn
  PROVE  /\ inv.iterations < MaxIterations /\ tracker.used < MaxExperiments
         /\ tracker.failures < MaxFailures /\ tracker.calls < MaxModelCalls
<1>1. /\ inv.iterations \in Nat /\ tracker.used \in Nat
      /\ tracker.failures \in Nat /\ tracker.calls \in Nat
  BY DEF TypeOK, Investigation
<1>2. /\ MaxIterations \in Nat /\ MaxExperiments \in Nat
      /\ MaxFailures \in Nat /\ MaxModelCalls \in Nat
  BY LoopAssumption DEF LoopAssumption
<1>3. /\ ~(inv.iterations >= MaxIterations) /\ ~(tracker.used >= MaxExperiments)
      /\ ~(tracker.failures >= MaxFailures) /\ ~(tracker.calls >= MaxModelCalls)
  BY DEF GoesOn, StopReason
<1> QED BY <1>1, <1>2, <1>3

LEMMA BatchLimitFits ==
  ASSUME TypeOK, tracker.used < MaxExperiments
  PROVE  /\ BatchLimit \in Nat \ {0} /\ BatchLimit <= MaxParallel
         /\ tracker.used + BatchLimit <= MaxExperiments
<1>1. /\ MaxParallel \in Nat \ {0} /\ MaxExperiments \in Nat /\ tracker.used \in Nat
      /\ call.window \in Nat /\ call.fresh \in Nat
  BY LoopAssumption DEF LoopAssumption, TypeOK
<1> QED BY <1>1 DEF BatchLimit, Lesser, Stronger

LEMMA SelectLimits ==
  ASSUME TypeOK, LInv, Select
  PROVE  LInv'
<1>1. PICK lead \in Candidates(inv) :
        call' = [call EXCEPT !.batch = Batch(Candidates(inv), lead),
                             !.lead = lead.id, !.won = FALSE]
  BY DEF Select
<1> DEFINE batch == Batch(Candidates(inv), lead)
<1>2. call'.batch = batch
  BY <1>1 DEF TypeOK
<1>3. /\ GoesOn /\ pc = "decide" /\ pc' = "fold" /\ UNCHANGED <<inv, saved>>
      /\ tracker'.calls = tracker.calls + 1
      /\ tracker'.used = tracker.used /\ tracker'.failures = tracker.failures
  BY DEF Select, Selecting, GoesOn, ModelCall, TypeOK
<1>4. /\ inv.iterations < MaxIterations /\ tracker.used < MaxExperiments
      /\ tracker.failures < MaxFailures /\ tracker.calls < MaxModelCalls
  BY <1>3, RoomIsLeft
<1>5. /\ BatchLimit \in Nat \ {0} /\ BatchLimit <= MaxParallel
      /\ tracker.used + BatchLimit <= MaxExperiments
  BY <1>4, BatchLimitFits
<1>6. inv \in Investigation
  BY DEF TypeOK
<1>7. /\ batch \subseteq Candidates(inv) /\ batch # {}
      /\ IsFiniteSet(batch) /\ Cardinality(batch) <= BatchLimit
      /\ \A r, s \in batch : r.tool = s.tool => r = s
  BY <1>5, <1>6, BatchIsBounded
<1>8. \A r \in batch : ToolUses(inv, r.tool) < MaxToolUses
  BY <1>6, <1>7, CandidateTypes
<1> HIDE DEF batch
<1>9. Cardinality(batch) \in Nat
  BY <1>7, FS_CardinalityType
<1>10. /\ tracker.used = Len(inv.ran) /\ tracker.used \in Nat
       /\ tracker.failures \in Nat /\ tracker.calls \in Nat
  BY <1>3 DEF LInv, Running, TypeOK
<1>11. /\ MaxParallel \in Nat /\ MaxExperiments \in Nat
       /\ MaxFailures \in Nat /\ MaxModelCalls \in Nat
  BY LoopAssumption DEF LoopAssumption
<1>12. /\ Cardinality(batch) <= MaxParallel
       /\ Len(inv.ran) + Cardinality(batch) <= MaxExperiments
       /\ tracker.failures + Cardinality(batch) <= MaxFailures + MaxParallel - 1
       /\ tracker.failures <= MaxFailures + MaxParallel - 1
       /\ tracker.calls + 1 <= MaxModelCalls
  <2>1. Cardinality(batch) <= BatchLimit
    BY <1>7
  <2>2. Cardinality(batch) <= MaxParallel
    BY <1>5, <1>9, <1>11, <2>1
  <2>3. tracker.used + Cardinality(batch) <= MaxExperiments
    BY <1>5, <1>9, <1>10, <1>11, <2>1
  <2>4. tracker.failures + Cardinality(batch) <= MaxFailures + MaxParallel - 1
    BY <1>4, <1>9, <1>10, <1>11, <2>2
  <2>5. tracker.failures <= MaxFailures + MaxParallel - 1
    BY <1>9, <1>10, <1>11, <2>4
  <2>6. tracker.calls + 1 <= MaxModelCalls
    BY <1>4, <1>10, <1>11
  <2> QED BY <1>10, <2>2, <2>3, <2>4, <2>5, <2>6
<1>13. BatchFits' /\ IsFiniteSet(call'.batch)
  BY <1>2, <1>3, <1>7, <1>8, <1>12 DEF BatchFits, ToolUses
<1> QED
  BY <1>3, <1>4, <1>10, <1>12, <1>13 DEF LInv, Within, ToolUses, Running, CallsAt

LEMMA ToolUsesAreFinite ==
  ASSUME NEW i \in Investigation, NEW t
  PROVE  ToolUses(i, t) \in Nat
<1>1. Len(i.ran) \in Nat /\ DOMAIN i.ran = 1..Len(i.ran)
  BY DEF Investigation
<1>2. IsFiniteSet(DOMAIN i.ran)
  BY <1>1, FS_Interval
<1>3. IsFiniteSet({n \in DOMAIN i.ran : i.ran[n].tool = t})
  BY <1>2, FS_Subset
<1> QED BY <1>3, FS_CardinalityType DEF ToolUses

\* One more experiment is one more use of its tool.
LEMMA OneMoreUse ==
  ASSUME NEW i \in Investigation, NEW r \in Result,
         NEW j, j.ran = Append(i.ran, r), NEW t
  PROVE  ToolUses(j, t) = ToolUses(i, t) + (IF r.tool = t THEN 1 ELSE 0)
<1> DEFINE Uses(s) == {n \in DOMAIN s : s[n].tool = t}
           new == Len(i.ran) + 1
<1>1. i.ran \in Seq(Result) /\ Len(i.ran) \in Nat /\ DOMAIN i.ran = 1..Len(i.ran)
  BY DEF Investigation
<1>2. /\ DOMAIN j.ran = 1..new /\ j.ran[new] = r
      /\ \A n \in 1..Len(i.ran) : j.ran[n] = i.ran[n]
  BY <1>1
<1>3. IsFiniteSet(Uses(i.ran)) /\ new \notin Uses(i.ran)
  <2>1. IsFiniteSet(1..Len(i.ran)) /\ Uses(i.ran) \subseteq 1..Len(i.ran)
    BY <1>1, FS_Interval
  <2> QED BY <1>1, <2>1, FS_Subset
<1>4. CASE r.tool = t
  <2>1. Uses(j.ran) = Uses(i.ran) \cup {new}
    BY <1>1, <1>2, <1>4
  <2>2. Cardinality(Uses(j.ran)) = Cardinality(Uses(i.ran)) + 1
    BY <2>1, <1>3, FS_AddElement
  <2> QED BY <1>4, <2>2 DEF ToolUses
<1>5. CASE r.tool # t
  <2>1. Uses(j.ran) = Uses(i.ran)
    BY <1>1, <1>2, <1>5
  <2>2. ToolUses(i, t) \in Nat
    BY ToolUsesAreFinite
  <2>3. ToolUses(j, t) = ToolUses(i, t)
    BY <2>1 DEF ToolUses
  <2> QED BY <1>5, <2>2, <2>3
<1> QED BY <1>4, <1>5

\* The outcome of one experiment of the batch is folded.
LEMMA FoldedLimits ==
  ASSUME TypeOK, LInv, pc = "fold", NEW ok \in BOOLEAN, NEW told \in SUBSET Claims,
         NEW i \in Investigation, i.ran = Recorded(ok, told),
         i.iterations = inv.iterations, Folded(i, ok)
  PROVE  LInv'
<1> DEFINE left == call.batch \ {Due}
<1>1. BatchFits /\ IsFiniteSet(call.batch) /\ Due \in call.batch
  BY DueIsInBatch DEF LInv, BatchFits
<1>2. /\ IsFiniteSet(left) /\ Cardinality(left) = Cardinality(call.batch) - 1
      /\ Cardinality(left) \in Nat /\ Cardinality(call.batch) \in Nat
  BY <1>1, FS_RemoveElement, FS_CardinalityType
<1>3. /\ tracker'.used = tracker.used + 1 /\ tracker'.calls = tracker.calls
      /\ tracker'.failures = (IF ok THEN 0 ELSE tracker.failures + 1)
      /\ call'.batch = left
  <2>1. tracker \in [calls : Nat, used : Nat, failures : Nat]
    BY DEF TypeOK
  <2>2. call \in [window : 0..MaxExperiments, userStop : BOOLEAN, fresh : Nat,
                  batch : SUBSET Request, lead : Nat, won : BOOLEAN]
    BY DEF TypeOK
  <2>3. tracker' = [tracker EXCEPT !.used = @ + 1, !.failures = IF ok THEN 0 ELSE @ + 1]
    BY DEF Folded
  <2>4. PICK lead, won : call' = [call EXCEPT !.fresh = @ + 1, !.batch = left,
                                              !.lead = lead, !.won = won]
    BY DEF Folded
  <2>5. call'.batch = left
    BY <2>2, <2>4
  <2> QED BY <2>1, <2>3, <2>5
<1>4. /\ tracker.used = Len(inv.ran) /\ inv.iterations < MaxIterations
      /\ tracker.calls <= MaxModelCalls
  BY DEF LInv, Running, CallsAt
<1>5. /\ tracker.used \in Nat /\ tracker.calls \in Nat /\ tracker.failures \in Nat
      /\ MaxParallel \in Nat \ {0} /\ MaxExperiments \in Nat /\ MaxFailures \in Nat \ {0}
      /\ MaxModelCalls \in Nat /\ MaxToolUses \in Nat
  BY LoopAssumption DEF TypeOK, LoopAssumption
<1>6. Len(i.ran) = Len(inv.ran) + 1
  BY <1>1, RecordedType
<1>7. PICK one \in Result : one.tool = Due.tool /\ i.ran = Append(inv.ran, one)
  <2> DEFINE new == [id |-> Due.id, tool |-> Due.tool, metric |-> Due.metric,
                     targets |-> Due.targets, ok |-> ok, told |-> told]
  <2>1. Due \in Request
    BY <1>1 DEF TypeOK
  <2>2. new \in Result
    BY <2>1 DEF Request, Result
  <2> QED BY <2>2 DEF Recorded
<1>8. \A t : ToolUses(i, t) = ToolUses(inv, t) + (IF Due.tool = t THEN 1 ELSE 0)
  BY <1>7, OneMoreUse DEF TypeOK
<1>9. \A t : ToolUses(inv, t) \in Nat /\ ToolUses(i, t) \in Nat
  BY ToolUsesAreFinite DEF TypeOK
<1>10. Len(i.ran) <= MaxExperiments
  BY <1>1, <1>2, <1>4, <1>5, <1>6 DEF BatchFits
<1>11. \A t \in Tools : ToolUses(i, t) <= MaxToolUses
  <2>1. ToolUses(inv, Due.tool) < MaxToolUses
    BY <1>1 DEF BatchFits
  <2>2. \A t \in Tools : ToolUses(inv, t) <= MaxToolUses
    BY DEF LInv, Within
  <2> QED BY <1>5, <1>8, <1>9, <2>1, <2>2
<1>12. Within(i)
  BY <1>4, <1>10, <1>11 DEF Within, LInv
<1>13. \A r \in left : ToolUses(i, r.tool) < MaxToolUses
  <2>1. \A r \in left : r.tool # Due.tool /\ ToolUses(inv, r.tool) < MaxToolUses
    BY <1>1 DEF BatchFits
  <2> QED BY <1>8, <1>9, <2>1
<1>14. \A r, s \in left : r.tool = s.tool => r = s
  BY <1>1 DEF BatchFits
<1> HIDE DEF left
<1>15. /\ Cardinality(left) <= MaxParallel
       /\ Len(i.ran) + Cardinality(left) <= MaxExperiments
       /\ tracker'.failures + Cardinality(left) <= MaxFailures + MaxParallel - 1
       /\ tracker'.failures <= MaxFailures + MaxParallel - 1
  <2>1. /\ Cardinality(call.batch) <= MaxParallel
        /\ Len(inv.ran) + Cardinality(call.batch) <= MaxExperiments
        /\ tracker.failures + Cardinality(call.batch) <= MaxFailures + MaxParallel - 1
    BY <1>1 DEF BatchFits
  <2>2. Len(inv.ran) \in Nat
    BY <1>4, <1>5
  <2>3. CASE ok
    <3>1. tracker'.failures = 0
      BY <1>3, <2>3
    <3>2. /\ Cardinality(left) <= MaxParallel
          /\ Len(i.ran) + Cardinality(left) <= MaxExperiments
      BY <1>2, <1>5, <1>6, <2>1, <2>2
    <3>3. Cardinality(left) <= MaxFailures + MaxParallel - 1
      BY <1>2, <1>5, <2>1
    <3>4. 0 <= MaxFailures + MaxParallel - 1
      BY <1>5
    <3> QED BY <1>2, <3>1, <3>2, <3>3, <3>4
  <2>4. CASE ~ok
    <3>1. tracker'.failures = tracker.failures + 1
      BY <1>3, <2>4
    <3>2. /\ Cardinality(left) <= MaxParallel
          /\ Len(i.ran) + Cardinality(left) <= MaxExperiments
      BY <1>2, <1>5, <1>6, <2>1, <2>2
    <3>3. tracker.failures + 1 + Cardinality(left) <= MaxFailures + MaxParallel - 1
      BY <1>2, <1>5, <2>1
    <3>4. tracker.failures + 1 <= MaxFailures + MaxParallel - 1
      BY <1>2, <1>5, <3>3
    <3> QED BY <3>1, <3>2, <3>3, <3>4
  <2> QED BY <2>3, <2>4
<1>16. tracker'.used = Len(i.ran) /\ tracker'.calls <= MaxModelCalls
  BY <1>3, <1>4, <1>6
<1>17. CASE left # {} /\ inv' = i /\ pc' = "fold" /\ UNCHANGED saved
  <2>1. BatchFits'
    BY <1>3, <1>13, <1>15, <1>14, <1>17 DEF BatchFits, ToolUses
  <2> QED BY <1>2, <1>3, <1>4, <1>12, <1>15, <1>16, <1>17, <2>1
          DEF LInv, Within, ToolUses, Running, CallsAt
<1>18. CASE inv' = i /\ pc' = "critic" /\ UNCHANGED saved
  BY <1>4, <1>12, <1>15, <1>16, <1>18 DEF LInv, Within, ToolUses, Running, CallsAt
<1>19. CASE EndIteration(i)
  <2>1. tracker'.calls <= MaxModelCalls + 1
    BY <1>3, <1>5, <1>16
  <2> QED BY <1>4, <1>12, <1>15, <1>16, <1>19, <2>1, EndIterationLimits
<1>20. \/ left # {} /\ inv' = i /\ pc' = "fold" /\ UNCHANGED saved
       \/ inv' = i /\ pc' = "critic" /\ UNCHANGED saved
       \/ EndIteration(i)
  BY DEF Folded, left
<1> QED BY <1>17, <1>18, <1>19, <1>20

LEMMA NothingIsWithin ==
  ASSUME NEW i, i.ran = <<>>, i.iterations = 0
  PROVE  Within(i)
<1>1. \A t : ToolUses(i, t) = 0
  <2>1. \A t : {n \in DOMAIN i.ran : i.ran[n].tool = t} = {}
    OBVIOUS
  <2> QED BY <2>1, FS_EmptySet DEF ToolUses
<1> QED BY <1>1, LoopAssumption DEF Within, LoopAssumption

LEMMA InitLimits == Init => TypeOK /\ LInv
<1> SUFFICES ASSUME Init PROVE TypeOK /\ LInv
  OBVIOUS
<1>1. Within(NoInvestigation)
  BY NothingIsWithin DEF NoInvestigation
<1>2. TypeOK
  BY NothingType, LoopAssumption DEF Init, TypeOK, NewTracker, NewCall, LoopAssumption
<1>3. LInv
  BY <1>1, LoopAssumption DEF Init, LInv, NewTracker, Running, CallsAt, LoopAssumption
<1> QED BY <1>2, <1>3

\* One step per action of Next.
LEMMA StepLimits == TypeOK /\ LInv /\ [Next]_vars => LInv'
<1> SUFFICES ASSUME TypeOK, LInv, [Next]_vars
             PROVE  LInv'
  OBVIOUS
<1>0. /\ tracker.calls \in Nat /\ MaxModelCalls \in Nat \ {0}
      /\ MaxFailures + MaxParallel - 1 \in Nat
      /\ inv \in Investigation /\ Within(inv) /\ Within(saved)
  BY LoopAssumption DEF TypeOK, LoopAssumption, LInv
<1>1. CASE Start
  <2>1. /\ inv'.ran = <<>> /\ inv'.iterations = 0 /\ saved' = inv'
        /\ tracker' = NewTracker(0) /\ pc' = "interpret"
    BY <1>1 DEF Start, NoInvestigation
  <2>2. Within(inv') /\ Within(saved')
    BY <2>1, NothingIsWithin
  <2>3. Within(inv)' /\ Within(saved)'
    BY <2>2 DEF Within, ToolUses
  <2> QED BY <1>0, <2>1, <2>3 DEF LInv, NewTracker, Running, CallsAt
<1>2. CASE Resume
  BY <1>0, <1>2 DEF Resume, LInv, Within, ToolUses, NewTracker, Running, CallsAt
<1>3. CASE Crash
  <2>1. tracker.calls <= MaxModelCalls + 2
    BY <1>0 DEF LInv, CallsAt
  <2> QED BY <1>0, <1>3, <2>1 DEF Crash, Leave, LInv, Within, ToolUses, NewTracker,
                                  Running, CallsAt
<1>4. CASE LoopSkipped
  <2>1. tracker.calls <= MaxModelCalls + 2
    BY <1>0 DEF LInv, CallsAt
  <2> QED BY <1>0, <1>4, <2>1 DEF LoopSkipped, Leave, LInv, Within, ToolUses, NewTracker,
                                  Running, CallsAt
<1>5. CASE InterpretFails \/ GenerateFails \/ SelectFails \/ CriticFails
  <2>1. tracker.calls <= MaxModelCalls
    <3>1. CASE SelectFails
      BY <3>1, <1>0, RoomIsLeft DEF SelectFails, Selecting
    <3>2. CASE InterpretFails \/ GenerateFails \/ CriticFails
      BY <3>2, <1>0 DEF InterpretFails, GenerateFails, CriticFails, Criticising, LInv, CallsAt
    <3> QED BY <1>5, <3>1, <3>2
  <2> QED BY <1>5, <2>1, FailSafeLimits
          DEF InterpretFails, GenerateFails, SelectFails, CriticFails
<1>6. CASE Unanswerable
  <2>1. Begin(inv) \in Investigation /\ Within(Begin(inv))
    <3>1. Begin(inv) \in {inv, [inv EXCEPT !.status = "running"]}
      <4>1. [inv EXCEPT !.status = inv.status] = inv
        BY <1>0 DEF Investigation
      <4>2. CASE inv.status \in {"created", "planning"}
        BY <4>2 DEF Begin
      <4>3. CASE inv.status \notin {"created", "planning"}
        BY <4>1, <4>3 DEF Begin
      <4> QED BY <4>2, <4>3
    <3>2. [inv EXCEPT !.status = "running"] \in Investigation
      BY <1>0, StatusType DEF InvestigationStatus
    <3>3. Within([inv EXCEPT !.status = "running"])
      BY <1>0, SameWithin DEF Investigation
    <3> QED BY <1>0, <3>1, <3>2, <3>3
  <2>2. tracker.calls + 1 + 1 <= MaxModelCalls + 2
    BY <1>0, <1>6 DEF Unanswerable, LInv, CallsAt
  <2> QED BY <1>6, <2>1, <2>2, FinalizeLimits DEF Unanswerable
<1>7. CASE Interpreted
  <2>1. inv'.ran = inv.ran /\ inv'.iterations = inv.iterations
    BY <1>0, <1>7 DEF Interpreted, Investigation
  <2>2. Within(inv')
    BY <1>0, <2>1, SameWithin
  <2>3. Within(inv)' /\ Within(saved)'
    BY <1>0, <1>7, <2>2 DEF Interpreted, Within, ToolUses
  <2>4. /\ tracker'.calls = tracker.calls + 1 /\ tracker.calls = 0
        /\ tracker'.used = tracker.used /\ tracker'.failures = tracker.failures
    BY <1>0, <1>7 DEF Interpreted, ModelCall, TypeOK, LInv, CallsAt
  <2> QED BY <1>0, <1>7, <2>1, <2>3, <2>4 DEF Interpreted, LInv, Running, CallsAt
<1>8. CASE Generate
  <2>1. tracker.calls <= 1
    BY <1>8 DEF Generate, LInv, CallsAt
  <2>2. CASE Raise(1)
    BY <1>0, <2>1, <2>2, RaiseLimits
  <2>3. CASE ~Raise(1)
    <3>1. /\ inv'.ran = inv.ran /\ inv'.iterations = inv.iterations
          /\ saved' = inv' /\ pc' = "decide" /\ ModelCall
      BY <1>0, <1>8, <2>3 DEF Generate, Investigation
    <3>2. Within(inv')
      BY <1>0, <3>1, SameWithin
    <3>3. Within(inv)' /\ Within(saved)'
      BY <3>1, <3>2 DEF Within, ToolUses
    <3>4. /\ tracker'.calls = tracker.calls + 1
          /\ tracker'.used = tracker.used /\ tracker'.failures = tracker.failures
      BY <3>1 DEF ModelCall, TypeOK
    <3> QED BY <1>0, <1>8, <2>1, <3>1, <3>3, <3>4 DEF Generate, LInv, Running, CallsAt
  <2> QED BY <2>2, <2>3
<1>9. CASE Stop
  <2>1. tracker.calls + 0 + 1 <= MaxModelCalls + 2
    BY <1>0, <1>9 DEF Stop, StopAt, LInv, CallsAt
  <2> QED BY <1>0, <1>9, <2>1, FinalizeLimits DEF Stop, StopAt
<1>10. CASE WindowUsed
  <2>1. tracker.calls + 0 <= MaxModelCalls + 2
    BY <1>0, <1>10 DEF WindowUsed, GoesOn, LInv, CallsAt
  <2> QED BY <1>0, <1>10, <2>1, ReturnLimits DEF WindowUsed
<1>11. CASE NothingToRun
  <2>1. tracker.calls + 0 + 1 <= MaxModelCalls + 2
    BY <1>0, <1>11 DEF NothingToRun, Selecting, GoesOn, LInv, CallsAt
  <2> QED BY <1>0, <1>11, <2>1, FinalizeLimits DEF NothingToRun
<1>12. CASE SelectNone
  <2>1. tracker.calls + 1 + 1 <= MaxModelCalls + 2
    BY <1>0, <1>12, RoomIsLeft DEF SelectNone, Selecting
  <2> QED BY <1>0, <1>12, <2>1, FinalizeLimits DEF SelectNone
<1>13. CASE Select
  BY <1>13, SelectLimits
<1>14. CASE FoldFailure
  <2> DEFINE i == [inv EXCEPT !.ran = Recorded(FALSE, {})]
  <2>1. pc = "fold" /\ call.batch # {} /\ Folded(i, FALSE)
    BY <1>14 DEF FoldFailure, LInv, BatchFits
  <2>2. /\ i \in Investigation /\ i.ran = Recorded(FALSE, {})
        /\ i.iterations = inv.iterations
    BY <1>0, <2>1, RecordedType DEF Investigation
  <2> HIDE DEF i
  <2> QED BY <2>1, <2>2, FoldedLimits
<1>15. CASE FoldSuccess
  <2>1. pc = "fold" /\ call.batch # {}
    BY <1>15 DEF FoldSuccess, LInv, BatchFits
  <2>2. CASE Raise(0)
    <3>1. tracker.calls + 0 <= MaxModelCalls + 2
      BY <1>0, <2>1 DEF LInv, CallsAt
    <3> QED BY <2>2, <3>1, RaiseLimits
  <2>3. ASSUME NEW i \in Investigation, NEW told \in SUBSET Claims,
               i.ran = Recorded(TRUE, told), i.iterations = inv.iterations,
               Folded(i, TRUE)
        PROVE  LInv'
    BY <2>1, <2>3, FoldedLimits
  <2> QED BY <1>15, <2>1, <2>2, <2>3, FoldSuccessIs
<1>16. CASE NothingToChallenge \/ CriticIsSilent \/ Contradict \/ Challenge
  <2>1. /\ pc = "critic"
        /\ \/ UNCHANGED tracker
           \/ ModelCall
    BY <1>16 DEF NothingToChallenge, CriticIsSilent, Contradict, Challenge, Criticising
  <2>2. PICK i \in Investigation : /\ i.ran = inv.ran /\ i.iterations = inv.iterations
                                   /\ EndIteration(i)
    BY <1>0, <1>16, ContradictIs, ChallengeIs DEF NothingToChallenge, CriticIsSilent
  <2>3. /\ tracker.used = Len(inv.ran) /\ inv.iterations < MaxIterations
        /\ tracker.calls <= MaxModelCalls
        /\ tracker.failures <= MaxFailures + MaxParallel - 1
    BY <2>1 DEF LInv, Running, CallsAt
  <2>4. /\ tracker'.used = tracker.used /\ tracker'.failures = tracker.failures
        /\ tracker'.calls <= tracker.calls + 1
    BY <1>0, <2>1 DEF ModelCall, TypeOK
  <2>5. /\ tracker'.used = Len(i.ran) /\ i.iterations < MaxIterations
        /\ tracker'.failures <= MaxFailures + MaxParallel - 1
    BY <2>2, <2>3, <2>4
  <2>6. tracker'.calls <= MaxModelCalls + 1
    <3>1. CASE UNCHANGED tracker
      BY <1>0, <2>3, <3>1
    <3>2. CASE ModelCall
      <4>1. tracker'.calls = tracker.calls + 1
        BY <3>2 DEF ModelCall, TypeOK
      <4> QED BY <1>0, <2>3, <4>1
    <3> QED BY <2>1, <3>1, <3>2
  <2>7. Within(i)
    BY <1>0, <2>2, SameWithin
  <2> QED BY <2>2, <2>5, <2>6, <2>7, EndIterationLimits
<1>17. CASE UNCHANGED vars
  <2>1. BatchFits' = BatchFits
    BY <1>17 DEF vars, BatchFits, ToolUses
  <2>2. Within(inv)' /\ Within(saved)'
    BY <1>0, <1>17 DEF vars, Within, ToolUses
  <2> QED BY <1>17, <2>1, <2>2 DEF vars, LInv, Running, CallsAt
<1> QED
  BY <1>1, <1>2, <1>3, <1>4, <1>5, <1>6, <1>7, <1>8, <1>9, <1>10, <1>11, <1>12,
     <1>13, <1>14, <1>15, <1>16, <1>17
  DEF Next, LoopStep, Work

-------------------------------------------------------------------------------
LEMMA LimitsHold == Spec => [](TypeOK /\ LInv)
<1> QED BY InitLimits, StepTypes, StepLimits, PTL DEF Spec

\* The aggregate, its checkpoint and the state of the call have their types: in
\* particular the experiment folded next is always one of the batch.
THEOREM LoopTypeCorrect == Spec => []TypeOK
BY LimitsHold, PTL

\* An investigation never exceeds its experiments, its iterations or the uses of
\* a tool, in memory and on record, however its calls end and are resumed.
THEOREM BudgetIsKept == Spec => []BudgetHolds
<1>1. LInv => BudgetHolds
  BY DEF LInv, Within, BudgetHolds
<1> QED BY <1>1, LimitsHold, PTL

\* A call makes at most two more policy calls than the limit.
THEOREM ModelCallsAreBounded == Spec => []ModelCallsBounded
<1>1. TypeOK /\ LInv => ModelCallsBounded
  <2> SUFFICES ASSUME TypeOK, LInv PROVE ModelCallsBounded
    OBVIOUS
  <2>1. tracker.calls \in Nat /\ MaxModelCalls \in Nat \ {0}
    BY LoopAssumption DEF TypeOK, LoopAssumption
  <2>2. CallsAt(pc) \in 0..(MaxModelCalls + 2)
    BY <2>1 DEF CallsAt
  <2> QED BY <2>1, <2>2 DEF LInv, ModelCallsBounded
<1> QED BY <1>1, LimitsHold, PTL

\* A run of failures exceeds the limit by no more than what is left of a batch.
THEOREM FailureRunIsBounded == Spec => []FailureRunBounded
<1>1. LInv => FailureRunBounded
  BY DEF LInv, FailureRunBounded
<1> QED BY <1>1, LimitsHold, PTL

\* Both at once: whatever the policy and the tools answer, one call passes
\* neither limit by more than an iteration can add.
THEOREM PerCallLimitsAreKept == Spec => []PerCallLimitsHold
<1>1. ModelCallsBounded /\ FailureRunBounded => PerCallLimitsHold
  BY DEF PerCallLimitsHold
<1> QED BY ModelCallsAreBounded, FailureRunIsBounded, <1>1, PTL

-------------------------------------------------------------------------------
(* What a conclusion stands on *)
Earned(i) ==
  i.stop = "sufficient_evidence" =>
    /\ With(i.claims, "supported") # {}
    /\ With(i.claims, "proposed") = {}
    /\ OpenContradictions(i) = {}

\* An investigation with claims that has not stopped is running, a status from
\* which each terminal status may be reached.
OnTheWay(i) == Proposed(i.claims) # {} /\ i.stop = "none" => i.status = "running"

\* A contradiction is between two claims.
Named(i) ==
  \A n \in DOMAIN i.critiques :
    i.critiques[n].kind = "contradiction" => i.critiques[n].other \in Claims

CInv ==
  /\ Earned(inv) /\ Earned(saved)
  /\ Named(inv) /\ Named(saved)
  /\ OnTheWay(inv) /\ OnTheWay(saved)
  /\ Proposed(inv.claims) = Proposed(saved.claims)
  /\ RaisesOnlyWithoutClaims

-------------------------------------------------------------------------------
LEMMA ReturnConcludes ==
  ASSUME NEW i, Earned(i), OnTheWay(i), Named(i), NEW n, Return(i, n)
  PROVE  CInv'
BY DEF Return, CInv, Earned, Named, OnTheWay, OpenContradictions, RaisesOnlyWithoutClaims

LEMMA RaiseConcludes ==
  ASSUME CInv, NoClaims, NEW n, Raise(n)
  PROVE  CInv'
BY DEF Raise, CInv, Earned, Named, OnTheWay, OpenContradictions, RaisesOnlyWithoutClaims, NoClaims

\* Closing the claims settles nothing and leaves what stands standing.
LEMMA ClosingSettlesNothing ==
  ASSUME NEW i \in Investigation, Named(i), NEW r \in Reasons
  PROVE  /\ With(Conclude(i, r).claims, "supported") = With(i.claims, "supported")
         /\ With(Conclude(i, r).claims, "proposed") = With(i.claims, "proposed")
         /\ Proposed(Conclude(i, r).claims) = Proposed(i.claims)
         /\ OpenContradictions(Conclude(i, r)) \subseteq OpenContradictions(i)
<1>1. /\ Conclude(i, r).claims = Closed(i.claims)
      /\ Conclude(i, r).critiques = i.critiques
  BY DEF Conclude, Investigation
<1>2. /\ With(Closed(i.claims), "supported") = With(i.claims, "supported")
      /\ With(Closed(i.claims), "proposed") = With(i.claims, "proposed")
      /\ Proposed(Closed(i.claims)) = Proposed(i.claims)
  BY DEF Closed, With, Proposed
<1>3. ASSUME NEW pair, pair \subseteq Claims, Settled(i.claims, pair)
      PROVE  Settled(Closed(i.claims), pair)
  <2>1. \A c \in pair : Closed(i.claims)[c] # "absent"
    BY <1>3 DEF Settled, Closed
  <2> QED BY <1>2, <1>3, <2>1 DEF Settled
<1>4. ASSUME NEW n \in OpenContradictions(Conclude(i, r))
      PROVE  n \in OpenContradictions(i)
  <2>1. /\ n \in DOMAIN i.critiques /\ i.critiques[n].kind = "contradiction"
        /\ ~Settled(Closed(i.claims), {i.critiques[n].target, i.critiques[n].other})
    BY <1>1, <1>4 DEF OpenContradictions
  <2>2. i.critiques[n] \in Critique
    BY <2>1 DEF Investigation
  <2>3. {i.critiques[n].target, i.critiques[n].other} \subseteq Claims
    BY <2>1, <2>2 DEF Critique, Named
  <2> QED BY <1>3, <2>1, <2>3 DEF OpenContradictions
<1> QED BY <1>1, <1>2, <1>4

\* What the loop gives as a reason is a reason, and sufficient evidence is given
\* only when it is there.
LEMMA SufficiencyIsChecked ==
  /\ \A late \in Late : StopReason(late) = "sufficient_evidence" =>
       /\ With(inv.claims, "supported") # {}
       /\ With(inv.claims, "proposed") = {}
       /\ OpenContradictions(inv) = {}
  /\ \A i, n : OutOfCandidates(i, n) = "sufficient_evidence" =>
       /\ With(i.claims, "supported") # {}
       /\ With(i.claims, "proposed") = {}
       /\ OpenContradictions(i) = {}
<1>1. EvidenceReason(inv) = "sufficient_evidence" =>
        /\ With(inv.claims, "supported") # {}
        /\ With(inv.claims, "proposed") = {}
        /\ OpenContradictions(inv) = {}
  BY DEF EvidenceReason
<1>2. \A late \in Late : StopReason(late) = "sufficient_evidence" =>
                           EvidenceReason(inv) = "sufficient_evidence"
  BY DEF StopReason
<1>3. \A i, n : OutOfCandidates(i, n) = "sufficient_evidence" =>
        /\ With(i.claims, "supported") # {}
        /\ With(i.claims, "proposed") = {}
        /\ OpenContradictions(i) = {}
  BY DEF OutOfCandidates
<1> QED BY <1>1, <1>2, <1>3

LEMMA FinalizeConcludes ==
  ASSUME CInv, NEW i \in Investigation, i.claims = inv.claims, Named(i),
         Proposed(i.claims) # {} => i.status = "running",
         NEW r \in Reasons,
         r = "sufficient_evidence" =>
           /\ With(i.claims, "supported") # {}
           /\ With(i.claims, "proposed") = {}
           /\ OpenContradictions(i) = {},
         NEW n, Finalize(i, r, n)
  PROVE  CInv'
<1> DEFINE j == [Conclude(i, r) EXCEPT !.status = TerminalStatus(r)]
<1>1. CASE Return(j, n + 1)
  <2>1. /\ j.claims = Conclude(i, r).claims /\ j.critiques = i.critiques
        /\ j.critiques = Conclude(i, r).critiques /\ j.stop = r
    BY DEF Conclude, Investigation
  <2>2. r # "none"
    BY DEF Reasons
  <2> HIDE DEF j
  <2>3. Named(j) /\ OnTheWay(j)
    BY <2>1, <2>2 DEF Named, OnTheWay
  <2>4. OpenContradictions(j) = OpenContradictions(Conclude(i, r))
    BY <2>1 DEF OpenContradictions
  <2>5. Earned(j)
    BY <2>1, <2>4, ClosingSettlesNothing DEF Earned
  <2> QED BY <1>1, <2>3, <2>5, ReturnConcludes
<1>2. CASE Raise(n + 1) /\ ~CanMoveInvestigation(i.status, TerminalStatus(r))
  <2>1. i.status # "running"
    BY <1>2 DEF CanMoveInvestigation, AllowedInvestigation, TerminalStatus, Ended
  <2> QED BY <1>2, <2>1, RaiseConcludes DEF NoClaims
<1> QED BY <1>1, <1>2 DEF Finalize

LEMMA FailSafeConcludes ==
  ASSUME TypeOK, IInv, CInv, FailSafe
  PROVE  CInv'
<1>1. CASE inv.stop # "none" /\ Return(Failed(inv), 1)
  <2>1. Failed(inv) = inv
    BY <1>1 DEF IInv, Sound, Failed
  <2> QED BY <1>1, <2>1, ReturnConcludes DEF CInv
<1>2. CASE inv.stop = "none" /\ Return(Failed(Conclude(inv, "error")), 2)
  <2> DEFINE j == Failed(Conclude(inv, "error"))
  <2>1. j.stop = "error" /\ j.critiques = inv.critiques
    BY DEF Failed, Conclude, TypeOK, Investigation
  <2> HIDE DEF j
  <2>2. Earned(j) /\ OnTheWay(j) /\ Named(j)
    BY <2>1 DEF Earned, OnTheWay, Named, CInv
  <2>3. Return(j, 2)
    BY <1>2 DEF j
  <2> QED BY <2>2, <2>3, ReturnConcludes
<1> QED BY <1>1, <1>2 DEF FailSafe

\* A step of an investigation that has not stopped, from one state of the claims
\* to another with the same claims proposed.
LEMMA GoingOnConcludes ==
  ASSUME CInv, NEW i \in Investigation, inv.stop = "none", i.stop = "none",
         Proposed(i.claims) = Proposed(inv.claims), i.status = inv.status, Named(i),
         \/ inv' = i /\ UNCHANGED saved
         \/ EndIteration(i),
         pc' # "raised"
  PROVE  CInv'
<1>1. Earned(i) /\ OnTheWay(i)
  BY DEF Earned, OnTheWay, CInv
<1>2. CASE inv' = i /\ UNCHANGED saved
  BY <1>1, <1>2 DEF CInv, Earned, OnTheWay, Named, OpenContradictions,
                    RaisesOnlyWithoutClaims
<1>3. CASE EndIteration(i)
  <2> DEFINE j == [i EXCEPT !.iterations = @ + 1]
  <2>1. /\ j.claims = i.claims /\ j.critiques = i.critiques
        /\ j.stop = "none" /\ j.status = i.status
    BY DEF Investigation
  <2>2. inv' = j /\ saved' = j
    BY <1>3 DEF EndIteration
  <2> HIDE DEF j
  <2>3. Earned(j) /\ OnTheWay(j) /\ Named(j)
    BY <1>1, <2>1 DEF Earned, OnTheWay, Named
  <2> QED BY <2>2, <2>3 DEF CInv, Earned, OnTheWay, Named, OpenContradictions,
                            RaisesOnlyWithoutClaims
<1> QED BY <1>2, <1>3

\* Whatever an experiment says, the status a claim is given can be reached from
\* the one it has: evidence is only added, so support is never forgotten.
LEMMA ScoresAreLegal ==
  ASSUME NEW s \in HypothesisStatus \ {"rejected"}, NEW old \in Evidence,
         NEW new \in Evidence, s = "supported" => old.sup = 2
  PROVE  ScoreIsLegal(s, Filed(old, new))
<1>1. Filed(old, new) \in Evidence /\ (old.sup = 2 => Filed(old, new).sup = 2)
  BY FiledIsEvidence
<1>2. \A e \in Evidence : (s = "supported" => e.sup = 2) =>
                             CanMoveClaim(Begun(s), Scored(s, e))
  BY DEF Evidence, Strength, CanMoveClaim, AllowedHypothesis, Begun, Scored, HypothesisStatus
<1> QED BY <1>1, <1>2 DEF ScoreIsLegal

LEMMA ExclusiveConcludes ==
  ASSUME NEW i \in Investigation, Named(i)
  PROVE  /\ Named(Exclusive(i)) /\ Exclusive(i).status = i.status
         /\ Exclusive(i).stop = i.stop
         /\ Proposed(Exclusive(i).claims) = Proposed(i.claims)
<1>1. CASE i.rivals /\ {1, 2} \subseteq With(i.claims, "supported")
  <2> DEFINE c == Contradiction(1, 2, NoTool)
             j == [i EXCEPT !.claims = Weakened(@, {1, 2}), !.critiques = Append(@, c)]
  <2>1. 2 \in Claims /\ c.other = 2 /\ i.critiques \in Seq(Critique)
    BY <1>1 DEF With, Contradiction, Investigation
  <2>2. Exclusive(i) = j
    BY <1>1 DEF Exclusive
  <2> HIDE DEF c
  <2>3. /\ j.critiques = Append(i.critiques, c) /\ j.claims = Weakened(i.claims, {1, 2})
        /\ j.status = i.status /\ j.stop = i.stop
    BY DEF Investigation
  <2> HIDE DEF j
  <2>4. Named(j)
    BY <2>1, <2>3 DEF Named
  <2>5. Proposed(j.claims) = Proposed(i.claims)
    BY <1>1, <2>3 DEF Proposed, Weakened, With
  <2> QED BY <2>2, <2>3, <2>4, <2>5
<1>2. CASE ~(i.rivals /\ {1, 2} \subseteq With(i.claims, "supported"))
  BY <1>2 DEF Exclusive
<1> QED BY <1>1, <1>2

LEMMA FoldedConcludes ==
  ASSUME CInv, NEW i \in Investigation, inv.stop = "none", i.stop = "none",
         Proposed(i.claims) = Proposed(inv.claims), i.status = inv.status, Named(i),
         NEW ok, Folded(i, ok)
  PROVE  CInv'
<1>1. /\ \/ inv' = i /\ UNCHANGED saved
         \/ EndIteration(i)
      /\ pc' # "raised"
  BY DEF Folded, EndIteration
<1> QED BY <1>1, GoingOnConcludes

LEMMA FoldSuccessConcludes ==
  ASSUME TypeOK, BInv, CInv, call.batch # {}, inv.stop = "none", FoldSuccess
  PROVE  CInv'
<1>1. PICK reading, told, evidence, claims :
        /\ reading \in [Due.targets \cap Proposed(inv.claims) -> Readings]
        /\ told = {c \in DOMAIN reading : Directional(reading[c])}
        /\ evidence = [c \in Claims |-> IF c \in DOMAIN reading
                                        THEN Filed(inv.evidence[c], reading[c])
                                        ELSE inv.evidence[c]]
        /\ claims = [c \in Claims |-> IF c \in DOMAIN reading \cap OpenClaims(inv.claims)
                                      THEN Scored(inv.claims[c], evidence[c])
                                      ELSE inv.claims[c]]
        /\ \/ Folded(Exclusive([inv EXCEPT !.ran = Recorded(TRUE, told),
                                           !.evidence = evidence,
                                           !.claims = claims]), TRUE)
           \/ /\ Raise(0)
              /\ \E c \in DOMAIN reading \cap OpenClaims(inv.claims) :
                   ~ScoreIsLegal(inv.claims[c], evidence[c])
  BY DEF FoldSuccess
<1>2. /\ inv \in Investigation /\ inv.evidence \in [Claims -> Evidence]
      /\ inv.claims \in ClaimStates
  BY DEF TypeOK, Investigation
<1>3. \A c \in DOMAIN reading : reading[c] \in Evidence /\ c \in Claims
  BY <1>1, LoopAssumption DEF LoopAssumption, Proposed
<1>4. \A c \in DOMAIN reading \cap OpenClaims(inv.claims) :
        ScoreIsLegal(inv.claims[c], evidence[c])
  <2> TAKE c \in DOMAIN reading \cap OpenClaims(inv.claims)
  <2>1. /\ c \in Claims /\ inv.evidence[c] \in Evidence /\ reading[c] \in Evidence
        /\ inv.claims[c] \in HypothesisStatus \ {"rejected"}
    BY <1>2, <1>3 DEF OpenClaims, Proposed, ClaimStates
  <2>2. inv.claims[c] = "supported" => inv.evidence[c].sup = 2
    BY <2>1 DEF BInv, Believes
  <2>3. evidence[c] = Filed(inv.evidence[c], reading[c])
    BY <1>1, <2>1
  <2> QED BY <2>1, <2>2, <2>3, ScoresAreLegal
<1> DEFINE i == [inv EXCEPT !.ran = Recorded(TRUE, told),
                            !.evidence = evidence, !.claims = claims]
<1>5. Folded(Exclusive(i), TRUE)
  BY <1>1, <1>4
<1>6. told \in SUBSET Claims
  BY <1>1, <1>3
<1>7. evidence \in [Claims -> Evidence]
  <2>1. \A old, new \in Evidence : Filed(old, new) \in Evidence
    BY FiledIsEvidence
  <2> QED BY <1>1, <1>2, <1>3, <2>1
<1>8. claims \in ClaimStates
  <2>1. \A e : \A s \in HypothesisStatus \cup {"absent"} :
          Scored(s, e) \in HypothesisStatus \cup {"absent"}
    BY DEF Scored, Begun, HypothesisStatus
  <2> QED BY <1>1, <1>2, <2>1 DEF ClaimStates
<1>9. Proposed(claims) = Proposed(inv.claims)
  <2>1. \A e, s : s # "absent" => Scored(s, e) # "absent"
    BY DEF Scored, Begun
  <2>2. \A c \in Claims : claims[c] = "absent" <=> inv.claims[c] = "absent"
    BY <1>1, <2>1 DEF OpenClaims, Proposed
  <2> QED BY <2>2 DEF Proposed
<1>10. /\ i \in Investigation /\ i.claims = claims /\ i.critiques = inv.critiques
       /\ i.status = inv.status /\ i.stop = inv.stop
  BY <1>2, <1>6, <1>7, <1>8, RecordedType DEF Investigation
<1> HIDE DEF i
<1>11. Named(i)
  BY <1>10 DEF CInv, Named
<1>12. /\ Exclusive(i) \in Investigation /\ Named(Exclusive(i))
       /\ Exclusive(i).status = inv.status /\ Exclusive(i).stop = "none"
       /\ Proposed(Exclusive(i).claims) = Proposed(inv.claims)
  BY <1>9, <1>10, <1>11, ExclusiveType, ExclusiveConcludes
<1> QED BY <1>5, <1>12, FoldedConcludes

\* A critique: one more on the list, and statuses of claims that stay proposed.
LEMMA CritiqueConcludes ==
  ASSUME TypeOK, CInv, inv.stop = "none", NEW c \in Critique,
         c.kind = "contradiction" => c.other \in Claims,
         NEW claims \in ClaimStates, Proposed(claims) = Proposed(inv.claims),
         EndIteration([inv EXCEPT !.critiques = Append(@, c), !.claims = claims])
  PROVE  CInv'
<1> DEFINE i == [inv EXCEPT !.critiques = Append(@, c), !.claims = claims]
<1>1. i \in Investigation
  BY CriticTypes
<1>2. inv.critiques \in Seq(Critique)
  BY DEF TypeOK, Investigation
<1>3. /\ i.critiques = Append(inv.critiques, c) /\ i.claims = claims
      /\ i.status = inv.status /\ i.stop = "none"
  BY DEF TypeOK, Investigation
<1> HIDE DEF i
<1>4. Named(i)
  BY <1>2, <1>3 DEF CInv, Named
<1>5. EndIteration(i) /\ pc' # "raised"
  BY DEF EndIteration, i
<1> QED BY <1>1, <1>3, <1>4, <1>5, GoingOnConcludes

\* One step per action of Next.
LEMMA StepConcludes == TypeOK /\ LInv /\ IInv /\ BInv /\ CInv /\ [Next]_vars => CInv'
<1> SUFFICES ASSUME TypeOK, LInv, IInv, BInv, CInv, [Next]_vars
             PROVE  CInv'
  OBVIOUS
<1>0. inv \in Investigation /\ Named(inv)
  BY DEF TypeOK, CInv
<1>1. CASE Start
  <2> DEFINE i == [NoInvestigation EXCEPT !.status = "created"]
  <2>1. /\ i.stop = "none" /\ i.critiques = <<>>
        /\ i.claims = [c \in Claims |-> "absent"]
    BY DEF NoInvestigation
  <2>2. inv' = i /\ saved' = i /\ pc' = "interpret"
    BY <1>1 DEF Start
  <2> HIDE DEF i
  <2>3. Earned(i) /\ Named(i) /\ Proposed(i.claims) = {} /\ OnTheWay(i)
    BY <2>1 DEF Earned, Named, Proposed, OnTheWay
  <2> QED BY <2>2, <2>3 DEF CInv, Earned, Named, OnTheWay, OpenContradictions,
                            RaisesOnlyWithoutClaims
<1>2. CASE Resume \/ Select \/ UNCHANGED vars
  BY <1>2 DEF Resume, Select, vars, CInv, Earned, Named, OnTheWay, OpenContradictions,
              RaisesOnlyWithoutClaims, NoClaims
<1>3. CASE Crash \/ LoopSkipped
  BY <1>3 DEF Crash, LoopSkipped, CInv, Earned, Named, OnTheWay, OpenContradictions,
              RaisesOnlyWithoutClaims
<1>4. CASE InterpretFails \/ GenerateFails \/ SelectFails \/ CriticFails
  BY <1>4, FailSafeConcludes DEF InterpretFails, GenerateFails, SelectFails, CriticFails
<1>5. CASE Unanswerable
  <2>1. /\ Begin(inv) \in Investigation /\ Begin(inv).claims = inv.claims
        /\ Begin(inv).critiques = inv.critiques
    BY <1>0 DEF Begin, Investigation, InvestigationStatus
  <2>2. Named(Begin(inv)) /\ Proposed(Begin(inv).claims) = {}
    BY <1>0, <1>5, <2>1 DEF Named, Unanswerable, NoClaims
  <2> QED BY <1>5, <2>1, <2>2, FinalizeConcludes DEF Unanswerable, Reasons
<1>6. CASE Interpreted
  <2>1. CASE inv.status = "created" /\ ~NoClaims
    <3>1. inv.stop = "none" /\ inv.status = "running"
      BY <2>1 DEF IInv, Sound, Ended, CInv, OnTheWay, NoClaims
    <3> QED BY <2>1, <3>1
  <2>2. CASE ~(inv.status = "created" /\ ~NoClaims)
    BY <1>6, <2>2 DEF Interpreted, CInv, Earned, Named, OnTheWay, OpenContradictions,
                      RaisesOnlyWithoutClaims
  <2> QED BY <2>1, <2>2
<1>7. CASE Generate
  <2>1. CASE Raise(1)
    BY <1>7, <2>1, RaiseConcludes DEF Generate, IInv
  <2>2. CASE ~Raise(1)
    <3>1. inv.stop = "none"
      BY <1>7, <2>2 DEF Generate, IInv, Sound, Ended, CanMoveInvestigation, AllowedInvestigation
    <3>2. /\ inv'.status = "running" /\ inv'.stop = "none"
          /\ inv'.critiques = inv.critiques /\ saved' = inv' /\ pc' = "decide"
      BY <1>0, <1>7, <2>2, <3>1 DEF Generate, Investigation
    <3>3. Earned(inv') /\ OnTheWay(inv') /\ Named(inv')
      BY <1>0, <3>2 DEF Earned, OnTheWay, Named
    <3> QED BY <3>2, <3>3 DEF CInv, Earned, OnTheWay, Named, OpenContradictions,
                              RaisesOnlyWithoutClaims
  <2> QED BY <2>1, <2>2
<1>8. CASE Stop \/ NothingToRun \/ SelectNone
  <2>1. inv.stop = "none"
    BY <1>8 DEF Stop, StopAt, NothingToRun, SelectNone, Selecting, GoesOn
  <2>2. Proposed(inv.claims) # {} => inv.status = "running"
    BY <2>1 DEF CInv, OnTheWay
  <2>3. PICK r \in Reasons, n \in Nat :
          /\ Finalize(inv, r, n)
          /\ r = "sufficient_evidence" =>
               /\ With(inv.claims, "supported") # {}
               /\ With(inv.claims, "proposed") = {}
               /\ OpenContradictions(inv) = {}
    <3>1. CASE Stop
      BY <3>1, ReasonsTyped, SufficiencyIsChecked DEF Stop, StopAt
    <3>2. CASE NothingToRun \/ SelectNone
      BY <3>2, ReasonsTyped, SufficiencyIsChecked DEF NothingToRun, SelectNone
    <3> QED BY <1>8, <3>1, <3>2
  <2> QED BY <1>0, <2>2, <2>3, FinalizeConcludes
<1>9. CASE WindowUsed
  BY <1>9, ReturnConcludes DEF WindowUsed, CInv
<1>10. CASE FoldFailure
  <2> DEFINE i == [inv EXCEPT !.ran = Recorded(FALSE, {})]
  <2>1. inv.stop = "none" /\ call.batch # {} /\ Folded(i, FALSE)
    BY <1>10 DEF FoldFailure, IInv, LInv, BatchFits
  <2>2. /\ i \in Investigation /\ i.claims = inv.claims /\ i.critiques = inv.critiques
        /\ i.status = inv.status /\ i.stop = inv.stop
    BY <1>0, <2>1, RecordedType DEF Investigation
  <2> HIDE DEF i
  <2>3. Named(i)
    BY <1>0, <2>2 DEF Named
  <2> QED BY <2>1, <2>2, <2>3, FoldedConcludes
<1>11. CASE FoldSuccess
  <2>1. inv.stop = "none" /\ call.batch # {}
    BY <1>11 DEF FoldSuccess, IInv, LInv, BatchFits
  <2> QED BY <1>11, <2>1, FoldSuccessConcludes
<1>12. CASE NothingToChallenge \/ CriticIsSilent
  <2>1. EndIteration(inv) /\ inv.stop = "none" /\ pc' # "raised"
    BY <1>12 DEF NothingToChallenge, CriticIsSilent, Criticising, EndIteration, IInv
  <2> QED BY <1>0, <2>1, GoingOnConcludes
<1>13. CASE Contradict
  <2>1. PICK t \in With(inv.claims, "supported"), o \in With(inv.claims, "supported"),
             tool \in Tools \cup {NoTool} :
          EndIteration([inv EXCEPT !.critiques = Append(@, Contradiction(t, o, tool)),
                                   !.claims = Weakened(@, {t, o})])
    BY <1>13 DEF Contradict
  <2>2. inv.stop = "none"
    BY <1>13 DEF Contradict, Criticising, IInv
  <2> DEFINE c == Contradiction(t, o, tool)
             claims == Weakened(inv.claims, {t, o})
  <2>3. c \in Critique /\ c.other \in Claims
    BY DEF Contradiction, Critique, With
  <2>4. claims \in ClaimStates
    BY <1>0 DEF Weakened, ClaimStates, HypothesisStatus, Investigation
  <2>5. Proposed(claims) = Proposed(inv.claims)
    BY DEF Proposed, Weakened, With
  <2>6. EndIteration([inv EXCEPT !.critiques = Append(@, c), !.claims = claims])
    BY <2>1
  <2> HIDE DEF c, claims
  <2> QED BY <2>2, <2>3, <2>4, <2>5, <2>6, CritiqueConcludes
<1>14. CASE Challenge
  <2>1. PICK t \in Claims, tool \in Tools :
          EndIteration([inv EXCEPT !.critiques = Append(@,
            [kind |-> "challenge", target |-> t, other |-> NoClaim, tool |-> tool])])
    BY <1>14 DEF Challenge
  <2>2. inv.stop = "none"
    BY <1>14 DEF Challenge, Criticising, IInv
  <2> DEFINE c == [kind |-> "challenge", target |-> t, other |-> NoClaim, tool |-> tool]
  <2>3. c \in Critique /\ c.kind # "contradiction"
    BY DEF Critique
  <2>4. EndIteration([inv EXCEPT !.critiques = Append(@, c)])
    BY <2>1
  <2> HIDE DEF c
  <2>5. /\ inv.claims \in ClaimStates
        /\ [inv EXCEPT !.critiques = Append(@, c), !.claims = inv.claims]
             = [inv EXCEPT !.critiques = Append(@, c)]
    BY <1>0 DEF Investigation
  <2> QED BY <2>2, <2>3, <2>4, <2>5, CritiqueConcludes
<1> QED
  BY <1>1, <1>2, <1>3, <1>4, <1>5, <1>6, <1>7, <1>8, <1>9, <1>10, <1>11, <1>12,
     <1>13, <1>14
  DEF Next, LoopStep, Work

LEMMA ConclusionsHold == Spec => []CInv
<1>1. Init => CInv
  <2>1. /\ Earned(NoInvestigation) /\ OnTheWay(NoInvestigation) /\ Named(NoInvestigation)
    BY DEF NoInvestigation, Earned, OnTheWay, Named, Proposed
  <2> QED BY <2>1 DEF Init, CInv, RaisesOnlyWithoutClaims
<1>2. IInv /\ [Next]_vars => IInv'
  BY StepKeeps
<1> QED BY <1>1, <1>2, InitHolds, LimitsHold, BeliefHolds, StepConcludes, PTL DEF Spec

\* Sufficient evidence is claimed, on record, only with a supported claim, no
\* claim nothing was run for, and every contradiction settled.
THEOREM SufficiencyIsEarned == Spec => []SufficientIsEarned
<1>1. CInv => SufficientIsEarned
  BY DEF CInv, Earned, SufficientIsEarned
<1> QED BY <1>1, ConclusionsHold, PTL

\* With claims, the loop never asks for an illegal change of status, neither of
\* a claim nor of the investigation: the only exception is without any claim.
THEOREM OnlyEmptyRaises == Spec => []RaisesOnlyWithoutClaims
<1>1. CInv => RaisesOnlyWithoutClaims
  BY DEF CInv
<1> QED BY <1>1, ConclusionsHold, PTL

-------------------------------------------------------------------------------
(* No experiment is run twice *)

\* The planner remembers a request by its tool and the metric of its first
\* target; that is what the experiment measured.
Remembered(i, r) == MetricOfFirst(i, r.targets) = r.metric
SameRun(r, s) == r.tool = s.tool /\ r.metric = s.metric

Early == {"absent", "created", "planning"}

\* An investigation that has run something has left the statuses from which
\* claims are proposed: what its targets are about does not change any more.
Memory(i) ==
  /\ \A n \in DOMAIN i.ran : Remembered(i, i.ran[n])
  /\ \A m, n \in DOMAIN i.ran : SameRun(i.ran[m], i.ran[n]) => m = n
  /\ i.ran # <<>> => i.status \notin Early

\* What is selected and not folded yet has not been run.
New(i, r) == Remembered(i, r) /\ \A n \in DOMAIN i.ran : ~SameRun(i.ran[n], r)

MInv ==
  /\ Memory(inv) /\ Memory(saved)
  /\ pc \in {"decide", "fold", "critic"} /\ inv.stop = "none" => inv.status = "running"
  /\ pc = "fold" => \A r \in call.batch : New(inv, r)

-------------------------------------------------------------------------------
\* The metric of the first target depends only on which claims there are.
LEMMA SameMetricOfFirst ==
  ASSUME NEW i, NEW j, Proposed(j.claims) = Proposed(i.claims),
         NEW targets \in SUBSET Claims
  PROVE  MetricOfFirst(j, targets) = MetricOfFirst(i, targets)
<1>1. CASE targets = {}
  BY <1>1 DEF MetricOfFirst
<1>2. CASE targets # {}
  <2>1. First(targets) \in Claims
    <3>1. targets \subseteq Nat
      BY ClaimsAssumption DEF Claims, ClaimsAssumption
    <3> QED BY <1>2, <3>1, FirstIsLeast
  <2>2. \A c \in Claims : i.claims[c] = "absent" <=> j.claims[c] = "absent"
    BY DEF Proposed
  <2> QED BY <1>2, <2>1, <2>2 DEF MetricOfFirst, MetricFor
<1> QED BY <1>1, <1>2

LEMMA TraceTypes ==
  ASSUME NEW i \in Investigation, NEW n \in DOMAIN i.ran
  PROVE  i.ran[n] \in Result /\ i.ran[n].targets \in SUBSET Claims
<1>1. i.ran[n] \in Result
  BY DEF Investigation
<1> QED BY <1>1 DEF Result

\* The trace stands, the claims stay, and no ended status is undone.
LEMMA SameMemory ==
  ASSUME NEW i \in Investigation, Memory(i), NEW j \in Investigation,
         j.ran = i.ran, Proposed(j.claims) = Proposed(i.claims),
         j.status \in Early => i.status \in Early
  PROVE  Memory(j)
<1>1. \A n \in DOMAIN i.ran : i.ran[n].targets \in SUBSET Claims
  BY TraceTypes
<1>2. \A n \in DOMAIN j.ran : Remembered(j, j.ran[n])
  BY <1>1, SameMetricOfFirst DEF Memory, Remembered
<1> QED BY <1>2 DEF Memory

\* The planner proposes only what is new, under the metric it will remember it
\* by, if the first claim is about the metric hint.
LEMMA CandidatesAreNew ==
  ASSUME Hint = MetricOf[1], NEW i \in Investigation, Memory(i), NEW c \in Candidates(i)
  PROVE  New(i, c)
<1>1. \A n \in DOMAIN i.ran :
        <<i.ran[n].tool, i.ran[n].metric>> \in ExecutedPairs(i)
  BY DEF ExecutedPairs, Ran, Memory, Remembered
<1>2. \A t, m : Plannable(i, t, m) =>
        \A n \in DOMAIN i.ran : ~(i.ran[n].tool = t /\ i.ran[n].metric = m)
  BY <1>1 DEF Plannable
<1>3. ASSUME NEW n \in Falsifiers(i), c = FalsifierRequest(i, n)
      PROVE  New(i, c)
  <2> DEFINE t == i.critiques[n].target
  <2>1. Plannable(i, i.critiques[n].tool, MetricFor(i, t))
    BY DEF Falsifiers, Useful
  <2>2. t \in Claims
    <3>1. n \in DOMAIN i.critiques
      BY DEF Falsifiers, Useful
    <3>2. i.critiques[n] \in Critique
      BY <3>1 DEF Investigation
    <3> QED BY <3>2 DEF Critique
  <2>3. First({t}) = t
    <3>1. {t} \subseteq Nat /\ {t} # {}
      BY <2>2, ClaimsAssumption DEF Claims, ClaimsAssumption
    <3> HIDE DEF t
    <3> QED BY <3>1, FirstIsLeast
  <2>4. c.tool = i.critiques[n].tool /\ c.metric = MetricFor(i, t) /\ c.targets = {t}
    BY <1>3 DEF FalsifierRequest
  <2> HIDE DEF t
  <2>5. Remembered(i, c)
    BY <2>3, <2>4 DEF Remembered, MetricOfFirst
  <2> QED BY <1>2, <2>1, <2>4, <2>5 DEF New, SameRun
<1>4. ASSUME NEW p \in Planned(i), c = PlannedRequest(i, p)
      PROVE  New(i, c)
  <2> DEFINE g == p[1]
  <2>1. Plannable(i, p[2], GroupMetric(g)) /\ g \in Groups(i)
    BY DEF Planned
  <2>2. /\ c.tool = p[2] /\ c.metric = GroupMetric(g) /\ c.targets = GroupTargets(i, g)
    BY <1>4 DEF PlannedRequest
  <2> HIDE DEF g
  <2>3. Remembered(i, c)
    <3>1. CASE g # NoClaim
      <4>1. /\ g \in OpenClaims(i.claims) /\ c.targets = SameMetric(i, g)
            /\ c.metric = MetricOf[g]
        BY <2>1, <2>2, <3>1 DEF Groups, GroupTargets, GroupMetric
      <4>2. /\ c.targets \subseteq Nat /\ g \in c.targets
            /\ \A d \in c.targets : i.claims[d] # "absent" /\ MetricOf[d] = MetricOf[g]
        BY <4>1, ClaimsAssumption DEF SameMetric, OpenClaims, Proposed, Claims,
                                      ClaimsAssumption
      <4>3. First(c.targets) \in c.targets
        BY <4>2, FirstIsLeast
      <4> QED BY <4>1, <4>2, <4>3 DEF Remembered, MetricOfFirst, MetricFor
    <3>2. CASE g = NoClaim
      <4>1. c.targets = Proposed(i.claims) \cap {1} /\ c.metric = Hint
        BY <2>2, <3>2 DEF GroupTargets, GroupMetric
      <4>2. CASE c.targets = {}
        BY <4>1, <4>2 DEF Remembered, MetricOfFirst
      <4>3. CASE c.targets # {}
        <5>1. c.targets = {1}
          BY <4>1, <4>3
        <5>2. First({1}) = 1
          <6>1. {1} \subseteq Nat /\ {1} # {}
            OBVIOUS
          <6> QED BY <6>1, FirstIsLeast
        <5> QED BY <4>1, <5>1, <5>2 DEF Remembered, MetricOfFirst, MetricFor
      <4> QED BY <4>2, <4>3
    <3> QED BY <3>1, <3>2
  <2> QED BY <1>2, <2>1, <2>2, <2>3 DEF New, SameRun
<1> QED BY <1>3, <1>4, CandidatesAre

-------------------------------------------------------------------------------
LEMMA ReturnRemembers ==
  ASSUME NEW i, Memory(i), NEW n, Return(i, n)
  PROVE  MInv'
BY DEF Return, MInv, Memory, Remembered, SameRun, MetricOfFirst, MetricFor

LEMMA RaiseRemembers ==
  ASSUME MInv, NEW n, Raise(n)
  PROVE  MInv'
BY DEF Raise, MInv, Memory, Remembered, SameRun, MetricOfFirst, MetricFor

LEMMA ConcludeRemembers ==
  ASSUME NEW i \in Investigation, Memory(i), NEW r \in Reasons, NEW s \in Ended
  PROVE  /\ Memory([Conclude(i, r) EXCEPT !.status = s])
         /\ Memory(Failed(i)) /\ Memory(Failed(Conclude(i, r)))
<1>1. Conclude(i, r) \in Investigation /\ s \in InvestigationStatus
  BY ConcludeType DEF Ended, InvestigationStatus
<1>2. /\ Conclude(i, r).ran = i.ran /\ Conclude(i, r).status = i.status
      /\ Conclude(i, r).claims = Closed(i.claims)
  BY DEF Conclude, Investigation
<1>3. Proposed(Closed(i.claims)) = Proposed(i.claims)
  BY DEF Closed, Proposed
<1>4. ASSUME NEW j \in Investigation, Memory(j), NEW status \in Ended
      PROVE  Memory([j EXCEPT !.status = status])
  <2> DEFINE k == [j EXCEPT !.status = status]
  <2>1. k \in Investigation
    BY StatusType DEF Ended, InvestigationStatus
  <2>2. k.ran = j.ran /\ k.claims = j.claims /\ k.status = status
    BY DEF Investigation
  <2>3. status \notin Early
    BY DEF Ended, Early
  <2> HIDE DEF k
  <2>4. Memory(k)
    BY <1>4, <2>1, <2>2, <2>3, SameMemory
  <2> QED BY <2>4 DEF k
<1>5. Memory(Conclude(i, r))
  BY <1>1, <1>2, <1>3, SameMemory
<1> QED BY <1>1, <1>4, <1>5 DEF Failed, Ended

LEMMA FinalizeRemembers ==
  ASSUME MInv, NEW i \in Investigation, Memory(i), NEW r \in Reasons, NEW n,
         Finalize(i, r, n)
  PROVE  MInv'
BY TerminalIsEnded, ConcludeRemembers, ReturnRemembers, RaiseRemembers DEF Finalize

LEMMA FailSafeRemembers ==
  ASSUME TypeOK, MInv, FailSafe
  PROVE  MInv'
<1>1. Memory(Failed(inv)) /\ Memory(Failed(Conclude(inv, "error")))
  <2>1. "error" \in Reasons /\ "failed" \in Ended
    BY DEF Reasons, Ended
  <2> QED BY <2>1, ConcludeRemembers DEF TypeOK, MInv
<1> QED BY <1>1, ReturnRemembers DEF FailSafe

LEMMA EndIterationRemembers ==
  ASSUME NEW i \in Investigation, Memory(i), i.status = "running", EndIteration(i)
  PROVE  MInv'
<1> DEFINE j == [i EXCEPT !.iterations = @ + 1]
<1>1. j \in Investigation
  BY DEF Investigation
<1>2. j.ran = i.ran /\ j.claims = i.claims /\ j.status = i.status
  BY DEF Investigation
<1>3. inv' = j /\ saved' = j /\ pc' = "decide"
  BY DEF EndIteration
<1> HIDE DEF j
<1>4. Memory(j) /\ j.status = "running"
  BY <1>1, <1>2, SameMemory
<1> QED BY <1>3, <1>4 DEF MInv, Memory, Remembered, SameRun, MetricOfFirst, MetricFor

LEMMA FoldedRemembers ==
  ASSUME TypeOK, LInv, IInv, MInv, pc = "fold",
         NEW ok \in BOOLEAN, NEW told \in SUBSET Claims,
         NEW i \in Investigation, i.ran = Recorded(ok, told),
         i.status = inv.status, Proposed(i.claims) = Proposed(inv.claims),
         Folded(i, ok)
  PROVE  MInv'
<1> DEFINE left == call.batch \ {Due}
<1>1. /\ inv \in Investigation /\ inv.status = "running"
      /\ Due \in call.batch /\ call.batch \subseteq Request
      /\ \A r, s \in call.batch : r.tool = s.tool => r = s
      /\ \A r \in call.batch : New(inv, r)
  BY DueIsInBatch DEF TypeOK, LInv, BatchFits, IInv, MInv
<1> DEFINE last == [id |-> Due.id, tool |-> Due.tool, metric |-> Due.metric,
                    targets |-> Due.targets, ok |-> ok, told |-> told]
<1>2. /\ i.ran = Append(inv.ran, last) /\ inv.ran \in Seq(Result)
      /\ last.tool = Due.tool /\ last.metric = Due.metric /\ last.targets = Due.targets
  BY <1>1 DEF Recorded, Investigation
<1> HIDE DEF last
<1>3. /\ \A n \in DOMAIN inv.ran : i.ran[n] = inv.ran[n]
      /\ i.ran[Len(inv.ran) + 1] = last
      /\ DOMAIN i.ran = DOMAIN inv.ran \cup {Len(inv.ran) + 1}
      /\ DOMAIN inv.ran = 1..Len(inv.ran) /\ Len(inv.ran) \in Nat
  BY <1>2
<1>4. \A r : r.targets \in SUBSET Claims /\ Remembered(inv, r) => Remembered(i, r)
  BY SameMetricOfFirst DEF Remembered
<1>5. /\ \A n \in DOMAIN inv.ran : Remembered(i, inv.ran[n])
      /\ \A r \in call.batch : Remembered(i, r)
  <2>1. \A n \in DOMAIN inv.ran : /\ inv.ran[n].targets \in SUBSET Claims
                                  /\ Remembered(inv, inv.ran[n])
    BY <1>1, TraceTypes DEF MInv, Memory
  <2>2. \A r \in call.batch : r.targets \in SUBSET Claims /\ Remembered(inv, r)
    BY <1>1 DEF New, Request
  <2> QED BY <1>4, <2>1, <2>2
<1>6. Remembered(i, last)
  BY <1>1, <1>2, <1>5 DEF Remembered
<1>7. \A n \in DOMAIN inv.ran : ~SameRun(inv.ran[n], last)
  BY <1>1, <1>2 DEF New, SameRun
<1>8. \A m, n \in DOMAIN i.ran : SameRun(i.ran[m], i.ran[n]) => m = n
  <2>1. \A m, n \in DOMAIN inv.ran : SameRun(inv.ran[m], inv.ran[n]) => m = n
    BY DEF MInv, Memory
  <2>2. \A r, s : SameRun(r, s) <=> SameRun(s, r)
    BY DEF SameRun
  <2> QED BY <1>3, <1>7, <2>1, <2>2
<1>9. Memory(i)
  <2>1. i.status \notin Early
    BY <1>1 DEF Early
  <2> QED BY <1>3, <1>5, <1>6, <1>8, <2>1 DEF Memory
<1>10. \A r \in left : New(i, r)
  <2> SUFFICES ASSUME NEW r \in left PROVE New(i, r)
    OBVIOUS
  <2>1. Remembered(i, r) /\ \A n \in DOMAIN inv.ran : ~SameRun(inv.ran[n], r)
    BY <1>1, <1>5 DEF New
  <2>2. ~SameRun(last, r)
    BY <1>1, <1>2 DEF SameRun
  <2> QED BY <1>3, <2>1, <2>2 DEF New
<1>11. CASE EndIteration(i)
  BY <1>1, <1>9, <1>11, EndIterationRemembers
<1>12. CASE inv' = i /\ pc' \in {"fold", "critic"} /\ UNCHANGED saved
  <2>1. call'.batch = left
    BY DEF Folded, TypeOK
  <2> HIDE DEF left
  <2> QED BY <1>1, <1>9, <1>10, <1>12, <2>1
          DEF MInv, Memory, New, Remembered, SameRun, MetricOfFirst, MetricFor
<1> QED BY <1>11, <1>12 DEF Folded

\* One step per action of Next.
LEMMA StepRemembers ==
  ASSUME Hint = MetricOf[1], TypeOK, LInv, IInv, CInv, MInv, [Next]_vars
  PROVE  MInv'
<1>0. /\ inv \in Investigation /\ saved \in Investigation
      /\ Memory(inv) /\ Memory(saved)
  BY DEF TypeOK, MInv
<1>1. CASE Start
  <2> DEFINE i == [NoInvestigation EXCEPT !.status = "created"]
  <2>1. i.ran = <<>>
    BY DEF NoInvestigation
  <2>2. inv' = i /\ saved' = i /\ pc' = "interpret"
    BY <1>1 DEF Start
  <2> HIDE DEF i
  <2>3. Memory(i)
    BY <2>1 DEF Memory
  <2> QED BY <2>2, <2>3 DEF MInv, Memory, Remembered, SameRun, MetricOfFirst, MetricFor
<1>2. CASE Resume \/ Crash \/ LoopSkipped \/ UNCHANGED vars
  BY <1>2 DEF Resume, Crash, LoopSkipped, vars, MInv, Memory, New, Remembered, SameRun,
              MetricOfFirst, MetricFor
<1>3. CASE InterpretFails \/ GenerateFails \/ SelectFails \/ CriticFails
  BY <1>3, FailSafeRemembers DEF InterpretFails, GenerateFails, SelectFails, CriticFails
<1>4. CASE Unanswerable
  <2> DEFINE i == Begin(inv)
  <2>1. i \in Investigation /\ i.ran = inv.ran /\ i.claims = inv.claims
    BY <1>0 DEF Begin, Investigation, InvestigationStatus
  <2>2. i.status \in Early => inv.status \in Early
    BY <1>0 DEF Begin, Investigation, Early
  <2> HIDE DEF i
  <2>3. Memory(i)
    BY <1>0, <2>1, <2>2, SameMemory
  <2>4. Finalize(i, "unanswerable_premise", 1) /\ "unanswerable_premise" \in Reasons
    BY <1>4 DEF Unanswerable, Reasons, i
  <2> QED BY <2>1, <2>3, <2>4, FinalizeRemembers
<1>5. CASE Interpreted
  <2>1. inv' \in {inv, [inv EXCEPT !.status = "running"]} /\ UNCHANGED saved
    BY <1>5 DEF Interpreted
  <2>2. Memory(inv')
    <3> DEFINE i == [inv EXCEPT !.status = "running"]
    <3>1. i \in Investigation /\ i.ran = inv.ran /\ i.claims = inv.claims
          /\ i.status \notin Early
      BY <1>0 DEF Investigation, InvestigationStatus, Early
    <3> HIDE DEF i
    <3>2. Memory(i)
      BY <1>0, <3>1, SameMemory
    <3> QED BY <1>0, <2>1, <3>2 DEF i
  <2>3. pc' = "decide" /\ inv'.stop = "none" => inv'.status = "running"
    <3> SUFFICES ASSUME pc' = "decide", inv'.stop = "none" PROVE inv'.status = "running"
      OBVIOUS
    <3>1. ~NoClaims /\ inv.stop = "none"
      BY <1>0, <1>5, <2>1 DEF Interpreted, Investigation
    <3>2. inv.status = "running"
      BY <3>1 DEF CInv, OnTheWay, NoClaims
    <3> QED BY <1>0, <2>1, <3>2 DEF Investigation
  <2>4. Memory(inv)' /\ Memory(saved)'
    BY <1>0, <2>1, <2>2 DEF Memory, Remembered, SameRun, MetricOfFirst, MetricFor
  <2> QED BY <1>5, <2>3, <2>4 DEF Interpreted, MInv
<1>6. CASE Generate
  <2>1. CASE Raise(1)
    BY <2>1, RaiseRemembers
  <2>2. CASE ~Raise(1)
    <3>1. inv.status \in Early
      <4>1. CanMoveInvestigation(inv.status, "planning")
        BY <1>6, <2>2 DEF Generate
      <4>2. inv.status \in InvestigationStatus \cup {"absent"}
        BY <1>0 DEF Investigation
      <4> QED BY <4>1, <4>2 DEF Early, CanMoveInvestigation, AllowedInvestigation,
                                InvestigationStatus, Ended
    <3>2. inv.ran = <<>>
      BY <1>0, <3>1 DEF Memory
    <3>3. /\ inv'.ran = <<>> /\ inv'.status = "running"
          /\ saved' = inv' /\ pc' = "decide"
      BY <1>0, <1>6, <2>2, <3>2 DEF Generate, Investigation
    <3> QED BY <3>3 DEF MInv, Memory
  <2> QED BY <2>1, <2>2
<1>7. CASE Stop \/ NothingToRun \/ SelectNone
  <2>1. PICK r \in Reasons, n \in Nat : Finalize(inv, r, n)
    BY <1>7, ReasonsTyped DEF Stop, StopAt, NothingToRun, SelectNone
  <2> QED BY <1>0, <2>1, FinalizeRemembers
<1>8. CASE WindowUsed
  BY <1>0, <1>8, ReturnRemembers DEF WindowUsed
<1>9. CASE Select
  <2>1. PICK lead \in Candidates(inv) : call'.batch = Batch(Candidates(inv), lead)
    BY <1>9 DEF Select, TypeOK
  <2>2. /\ UNCHANGED <<inv, saved>> /\ inv.stop = "none" /\ inv.status = "running"
        /\ pc' = "fold"
    BY <1>9 DEF Select, Selecting, GoesOn, MInv
  <2>3. Batch(Candidates(inv), lead) \subseteq Candidates(inv)
    BY DEF Batch, Followers
  <2>4. \A r \in call'.batch : New(inv, r)
    BY <1>0, <2>1, <2>3, CandidatesAreNew
  <2> QED BY <1>0, <2>2, <2>4 DEF MInv, Memory, New, Remembered, SameRun, MetricOfFirst,
                                  MetricFor
<1>10. CASE FoldFailure
  <2> DEFINE i == [inv EXCEPT !.ran = Recorded(FALSE, {})]
  <2>1. pc = "fold" /\ call.batch # {} /\ Folded(i, FALSE)
    BY <1>10 DEF FoldFailure, LInv, BatchFits
  <2>2. /\ i \in Investigation /\ i.ran = Recorded(FALSE, {})
        /\ i.status = inv.status /\ i.claims = inv.claims
    BY <1>0, <2>1, RecordedType DEF Investigation
  <2> HIDE DEF i
  <2> QED BY <2>1, <2>2, FoldedRemembers
<1>11. CASE FoldSuccess
  <2>1. pc = "fold" /\ call.batch # {}
    BY <1>11 DEF FoldSuccess, LInv, BatchFits
  <2> QED BY <1>11, <2>1, FoldSuccessIs, FoldedRemembers, RaiseRemembers
<1>12. CASE NothingToChallenge \/ CriticIsSilent \/ Contradict \/ Challenge
  <2>1. inv.stop = "none" /\ inv.status = "running"
    BY <1>12 DEF NothingToChallenge, CriticIsSilent, Contradict, Challenge, Criticising,
                 IInv, MInv
  <2>2. PICK i \in Investigation : /\ i.ran = inv.ran /\ i.status = inv.status
                                   /\ Proposed(i.claims) = Proposed(inv.claims)
                                   /\ EndIteration(i)
    BY <1>0, <1>12, ContradictIs, ChallengeIs DEF NothingToChallenge, CriticIsSilent
  <2>3. Memory(i)
    BY <1>0, <2>2, SameMemory
  <2> QED BY <2>1, <2>2, <2>3, EndIterationRemembers
<1> QED
  BY <1>1, <1>2, <1>3, <1>4, <1>5, <1>6, <1>7, <1>8, <1>9, <1>10, <1>11, <1>12
  DEF Next, LoopStep, Work

\* If the first claim is about the metric hint, a tool measures a metric once per
\* investigation, whatever the policy selects, critiques name and crashes undo.
THEOREM NothingRunsTwice == Spec => []NoRedundantRun
<1>1. Init => MInv
  <2>1. NoInvestigation.ran = <<>>
    BY DEF NoInvestigation
  <2> QED BY <2>1 DEF Init, MInv, Memory
<1>2. Hint = MetricOf[1] => (TypeOK /\ LInv /\ IInv /\ CInv /\ MInv /\ [Next]_vars => MInv')
  BY StepRemembers
<1>3. MInv => NoRedundantRun
  BY DEF MInv, Memory, SameRun, NoRedundantRun
<1>4. Hint # MetricOf[1] => NoRedundantRun
  BY DEF NoRedundantRun
<1>5. IInv /\ [Next]_vars => IInv'
  BY StepKeeps
<1>6. CASE Hint = MetricOf[1]
  <2>1. TypeOK /\ LInv /\ IInv /\ CInv /\ MInv /\ [Next]_vars => MInv'
    BY <1>2, <1>6
  <2> QED BY <1>1, <1>3, <1>5, <2>1, InitHolds, LimitsHold, ConclusionsHold, PTL DEF Spec
<1>7. CASE Hint # MetricOf[1]
  <2>1. NoRedundantRun
    BY <1>4, <1>7
  <2> QED BY <2>1, PTL
<1> QED BY <1>6, <1>7

-------------------------------------------------------------------------------
(* The store is a notebook *)

\* What memory is ahead of the store: nothing outside a batch; with what is still
\* to be folded, no more than the batch.
Ahead ==
  CASE pc = "fold"   -> Len(inv.ran) + Cardinality(call.batch) <= Len(saved.ran) + MaxParallel
    [] pc = "critic" -> Len(inv.ran) <= Len(saved.ran) + MaxParallel
    [] OTHER         -> inv.ran = saved.ran

Begins(s, t) == Len(s) <= Len(t) /\ \A n \in 1..Len(s) : t[n] = s[n]

JInv == Begins(saved.ran, inv.ran) /\ Ahead

NoteStep == [Notes!Next]_<<Done, Kept, Answer>>

LEMMA AnswerMoves ==
  ASSUME Untouched
  PROVE  Answer' = Answer \/ (Answer = NoInvestigation /\ Answer' # NoInvestigation)
<1>1. ~Final(NoInvestigation)
  BY DEF Final, NoInvestigation
<1> QED BY <1>1 DEF Untouched, Answer, Final

LEMMA AnswerStays == ASSUME UNCHANGED saved PROVE Answer' = Answer
BY DEF Answer, Proposed

\* Memory and store agree after the step, and the step has run nothing.
LEMMA NoteKept ==
  ASSUME inv'.ran = inv.ran, saved'.ran = inv.ran, Untouched, inv.ran \in Seq(Result),
         pc' \notin {"fold", "critic"}
  PROVE  JInv' /\ NoteStep
<1>1. JInv'
  BY DEF JInv, Ahead, Begins
<1>2. CASE Answer' = Answer
  BY <1>1, <1>2 DEF NoteStep, Notes!Next, Notes!Keep, Notes!notebook, Done, Kept
<1>3. CASE Answer = NoInvestigation /\ Answer' # NoInvestigation
  BY <1>1, <1>3 DEF NoteStep, Notes!Next, Notes!Answer, Notes!notebook, Done, Kept
<1> QED BY <1>1, <1>2, <1>3, AnswerMoves

LEMMA NoteLost ==
  ASSUME inv' = saved, UNCHANGED saved, saved.ran \in Seq(Result),
         pc' \notin {"fold", "critic"}
  PROVE  JInv' /\ NoteStep
<1>1. JInv'
  BY DEF JInv, Ahead, Begins
<1>2. Answer' = Answer
  BY AnswerStays
<1> QED BY <1>1, <1>2 DEF NoteStep, Notes!Next, Notes!Lose, Notes!notebook, Done, Kept

LEMMA NoteStill ==
  ASSUME inv'.ran = inv.ran, UNCHANGED saved
  PROVE  NoteStep
BY AnswerStays DEF NoteStep, Done, Kept

LEMMA ReturnNotes ==
  ASSUME TypeOK, NEW i, i.ran = inv.ran, NEW n, Return(i, n), Untouched
  PROVE  JInv' /\ NoteStep
BY NoteKept DEF Return, TypeOK, Investigation

LEMMA RaiseNotes ==
  ASSUME TypeOK, NEW n, Raise(n)
  PROVE  JInv' /\ NoteStep
BY NoteLost DEF Raise, TypeOK, Investigation

LEMMA FinalizeNotes ==
  ASSUME TypeOK, NEW i \in Investigation, i.ran = inv.ran, NEW r, NEW n,
         Finalize(i, r, n), Untouched
  PROVE  JInv' /\ NoteStep
<1> DEFINE j == [Conclude(i, r) EXCEPT !.status = TerminalStatus(r)]
<1>1. j.ran = inv.ran
  BY DEF Conclude, Investigation
<1>2. Return(j, n + 1) \/ Raise(n + 1)
  BY DEF Finalize
<1> HIDE DEF j
<1> QED BY <1>1, <1>2, ReturnNotes, RaiseNotes

LEMMA FailSafeNotes ==
  ASSUME TypeOK, FailSafe, Untouched
  PROVE  JInv' /\ NoteStep
<1>1. Failed(inv).ran = inv.ran /\ Failed(Conclude(inv, "error")).ran = inv.ran
  BY DEF Failed, Conclude, TypeOK, Investigation
<1> QED BY <1>1, ReturnNotes DEF FailSafe

LEMMA EndIterationNotes ==
  ASSUME TypeOK, NEW i \in Investigation, i.ran = inv.ran, EndIteration(i), Untouched
  PROVE  JInv' /\ NoteStep
<1> DEFINE next == [i EXCEPT !.iterations = @ + 1]
<1>1. next.ran = inv.ran /\ inv.ran \in Seq(Result)
  BY DEF TypeOK, Investigation
<1>2. inv' = next /\ saved' = next /\ pc' = "decide"
  BY DEF EndIteration
<1> HIDE DEF next
<1> QED BY <1>1, <1>2, NoteKept

\* One outcome is added; the last of a batch without a success is stored with it.
LEMMA FoldedNotes ==
  ASSUME TypeOK, LInv, IInv, JInv, Untouched, pc = "fold",
         NEW ok \in BOOLEAN, NEW told \in SUBSET Claims,
         NEW i \in Investigation, i.ran = Recorded(ok, told), i.stop = inv.stop,
         Folded(i, ok)
  PROVE  JInv' /\ NoteStep
<1> DEFINE left == call.batch \ {Due}
           d == Cardinality(call.batch)
           e == Cardinality(left)
<1>1. IsFiniteSet(call.batch) /\ call.batch # {} /\ Due \in call.batch
  BY DueIsInBatch DEF LInv, BatchFits
<1>2. d \in Nat /\ e \in Nat /\ e = d - 1
  BY <1>1, FS_CardinalityType, FS_RemoveElement
<1>3. inv.ran \in Seq(Result) /\ saved.ran \in Seq(Result) /\ inv.stop = "none"
  BY DEF TypeOK, Investigation, IInv
<1>4. /\ Len(i.ran) = Len(inv.ran) + 1 /\ i.ran \in Seq(Result)
      /\ \A n \in 1..Len(inv.ran) : i.ran[n] = inv.ran[n]
  BY <1>3 DEF Recorded, Investigation
<1>5. /\ Len(inv.ran) + d <= MaxExperiments
      /\ Len(inv.ran) + d <= Len(saved.ran) + MaxParallel
      /\ Begins(saved.ran, inv.ran)
  BY DEF LInv, BatchFits, JInv, Ahead
<1>6. Answer = NoInvestigation
  BY <1>3 DEF IInv, Final, Answer
<1>7. call'.batch = left
  BY DEF Folded, TypeOK
<1>8. MaxExperiments \in Nat /\ MaxParallel \in Nat
  BY LoopAssumption DEF LoopAssumption
<1>9. Len(inv.ran) < MaxExperiments /\ Len(inv.ran) < Len(saved.ran) + MaxParallel
  <2> HIDE DEF d, e
  <2> QED BY <1>1, <1>2, <1>3, <1>5, <1>8, FS_EmptySet DEF e
<1>10. ASSUME inv'.ran = i.ran, saved'.ran \in {saved.ran, i.ran}, Answer' = NoInvestigation
       PROVE  NoteStep
  <2>1. Notes!Add
    BY <1>4, <1>6, <1>9, <1>10 DEF Notes!Add, Done, Kept
  <2> QED BY <2>1 DEF NoteStep, Notes!Next
<1>11. CASE EndIteration(i)
  <2> DEFINE next == [i EXCEPT !.iterations = @ + 1]
  <2>1. next.ran = i.ran /\ next.stop = "none"
    BY <1>3 DEF Investigation
  <2>2. inv' = next /\ saved' = next /\ pc' = "decide"
    BY <1>11 DEF EndIteration
  <2> HIDE DEF next
  <2>3. Answer' = NoInvestigation
    BY <2>1, <2>2 DEF Answer
  <2>4. JInv'
    BY <1>4, <2>1, <2>2 DEF JInv, Ahead, Begins
  <2> QED BY <1>10, <2>1, <2>2, <2>3, <2>4
<1>12. CASE inv' = i /\ UNCHANGED saved /\ pc' = IF left # {} THEN "fold" ELSE "critic"
  <2>1. Answer' = NoInvestigation
    BY <1>6, <1>12, AnswerStays
  <2>2. Begins(saved.ran, i.ran)
    <3>1. Len(saved.ran) \in Nat /\ Len(inv.ran) \in Nat
      BY <1>3
    <3>2. Len(saved.ran) <= Len(inv.ran) /\ Len(saved.ran) <= Len(i.ran)
      <4> HIDE DEF d, e, left
      <4> QED BY <1>4, <1>5, <3>1 DEF Begins
    <3>3. ASSUME NEW n \in 1..Len(saved.ran) PROVE i.ran[n] = saved.ran[n]
      <4>1. n \in 1..Len(inv.ran)
        BY <3>1, <3>2
      <4> QED BY <1>4, <1>5, <4>1 DEF Begins
    <3> QED BY <3>2, <3>3 DEF Begins
  <2>3. Len(i.ran) + e <= Len(saved.ran) + MaxParallel
    <3> HIDE DEF d, e
    <3> QED BY <1>2, <1>3, <1>4, <1>5, <1>8
  <2>4. Ahead'
    <3>1. CASE left # {}
      BY <1>7, <1>12, <2>3, <3>1 DEF Ahead
    <3>2. CASE left = {}
      <4>1. Len(i.ran) <= Len(saved.ran) + MaxParallel
        <5> HIDE DEF d, e, left
        <5> QED BY <1>2, <1>3, <1>4, <1>8, <2>3
      <4> QED BY <1>12, <3>2, <4>1 DEF Ahead
    <3> QED BY <3>1, <3>2
  <2> QED BY <1>10, <1>12, <2>1, <2>2, <2>4 DEF JInv, Begins
<1> QED BY <1>11, <1>12 DEF Folded

\* One step per action of Next.
LEMMA StepNotes ==
  ASSUME TypeOK, LInv, IInv, JInv, [Next]_vars
  PROVE  JInv' /\ NoteStep
<1>0. /\ inv \in Investigation /\ saved \in Investigation
      /\ inv.ran \in Seq(Result) /\ saved.ran \in Seq(Result)
  BY DEF TypeOK, Investigation
<1>u. Untouched
  BY StepKeeps
<1>1. CASE Start
  <2> DEFINE i == [NoInvestigation EXCEPT !.status = "created"]
  <2>1. NoInvestigation.ran = <<>> /\ i.ran = <<>>
    BY DEF NoInvestigation
  <2>2. inv' = i /\ saved' = i /\ pc' = "interpret" /\ pc = "idle" /\ saved = NoInvestigation
    BY <1>1 DEF Start
  <2>3. inv.ran = <<>>
    BY <2>1, <2>2 DEF JInv, Ahead
  <2> HIDE DEF i
  <2> QED BY <1>0, <1>u, <2>1, <2>2, <2>3, NoteKept
<1>2. CASE Resume
  <2>1. UNCHANGED <<inv, saved>> /\ pc' = "interpret" /\ pc \in {"idle", "raised"}
    BY <1>2 DEF Resume, Running
  <2> QED BY <2>1, NoteStill DEF JInv, Ahead, Begins
<1>3. CASE Crash
  BY <1>0, <1>3, NoteLost DEF Crash
<1>4. CASE InterpretFails \/ GenerateFails \/ SelectFails \/ CriticFails
  BY <1>u, <1>4, FailSafeNotes DEF InterpretFails, GenerateFails, SelectFails, CriticFails
<1>5. CASE Unanswerable
  <2>1. Begin(inv) \in Investigation /\ Begin(inv).ran = inv.ran
    BY <1>0 DEF Begin, Investigation, InvestigationStatus
  <2> QED BY <1>u, <1>5, <2>1, FinalizeNotes DEF Unanswerable
<1>6. CASE Interpreted
  <2>1. /\ inv'.ran = inv.ran /\ UNCHANGED saved
        /\ pc = "interpret" /\ pc' \in {"generate", "decide"}
    BY <1>0, <1>6 DEF Interpreted, Investigation
  <2> QED BY <2>1, NoteStill DEF JInv, Ahead, Begins
<1>7. CASE Generate
  <2>1. CASE Raise(1)
    BY <2>1, RaiseNotes
  <2>2. CASE ~Raise(1)
    <3>1. inv'.ran = inv.ran /\ saved' = inv' /\ pc' = "decide"
      BY <1>0, <1>7, <2>2 DEF Generate, Investigation
    <3> QED BY <1>0, <1>u, <3>1, NoteKept
  <2> QED BY <2>1, <2>2
<1>8. CASE LoopSkipped
  <2>1. UNCHANGED <<inv, saved>> /\ pc = "decide" /\ pc' = "idle"
    BY <1>8 DEF LoopSkipped
  <2> QED BY <2>1, NoteStill DEF JInv, Ahead, Begins
<1>9. CASE Stop \/ NothingToRun \/ SelectNone
  BY <1>0, <1>u, <1>9, FinalizeNotes DEF Stop, StopAt, NothingToRun, SelectNone
<1>10. CASE WindowUsed
  BY <1>0, <1>u, <1>10, ReturnNotes DEF WindowUsed
<1>11. CASE Select
  <2>1. UNCHANGED <<inv, saved>> /\ pc = "decide" /\ pc' = "fold"
    BY <1>11 DEF Select, Selecting, GoesOn
  <2>2. Cardinality(call.batch)' <= MaxParallel /\ Cardinality(call.batch)' \in Nat
    <3>1. LInv' 
      BY StepLimits
    <3> QED BY <2>1, <3>1, FS_CardinalityType DEF LInv, BatchFits
  <2>3. inv.ran = saved.ran
    BY <2>1 DEF JInv, Ahead
  <2>4. MaxParallel \in Nat
    BY LoopAssumption DEF LoopAssumption
  <2>5. Ahead'
    BY <1>0, <2>1, <2>2, <2>3, <2>4 DEF Ahead
  <2>6. Begins(saved.ran, inv.ran)'
    BY <2>1 DEF JInv, Begins
  <2> QED BY <2>1, <2>5, <2>6, NoteStill DEF JInv
<1>12. CASE FoldFailure
  <2> DEFINE i == [inv EXCEPT !.ran = Recorded(FALSE, {})]
  <2>1. pc = "fold" /\ call.batch # {} /\ Folded(i, FALSE)
    BY <1>12 DEF FoldFailure, LInv, BatchFits
  <2>2. i \in Investigation /\ i.ran = Recorded(FALSE, {}) /\ i.stop = inv.stop
    BY <1>0, <2>1, RecordedType DEF Investigation
  <2> HIDE DEF i
  <2> QED BY <1>u, <2>1, <2>2, FoldedNotes
<1>13. CASE FoldSuccess
  <2>1. pc = "fold" /\ call.batch # {}
    BY <1>13 DEF FoldSuccess, LInv, BatchFits
  <2> QED BY <1>u, <1>13, <2>1, FoldSuccessIs, FoldedNotes, RaiseNotes
<1>14. CASE NothingToChallenge \/ CriticIsSilent \/ Contradict \/ Challenge
  <2>1. PICK i \in Investigation : i.ran = inv.ran /\ EndIteration(i)
    BY <1>0, <1>14, ContradictIs, ChallengeIs DEF NothingToChallenge, CriticIsSilent
  <2> QED BY <1>u, <2>1, EndIterationNotes
<1>15. CASE UNCHANGED vars
  BY <1>15, NoteStill DEF vars, JInv, Ahead, Begins
<1> QED
  BY <1>1, <1>2, <1>3, <1>4, <1>5, <1>6, <1>7, <1>8, <1>9, <1>10, <1>11, <1>12, <1>13,
     <1>14, <1>15
  DEF Next, LoopStep, Work

LEMMA NotesStart == Init => JInv /\ Notes!Init
<1>1. NoInvestigation.ran = <<>> /\ NoInvestigation.stop = "none"
  BY DEF NoInvestigation
<1> QED BY <1>1 DEF Init, JInv, Ahead, Begins, Notes!Init, Done, Kept, Answer

\* Seen through its store the loop is a notebook, for any policy, tools and limits
\* and any number of crashes and resumed calls: store.save comes often enough that
\* no more than a batch is ever at risk, and nothing comes after a conclusion.
THEOREM LoopKeepsNotebook == Spec => KeepsNotebook
<1>1. TypeOK /\ LInv /\ IInv /\ JInv /\ [Next]_vars => JInv' /\ NoteStep
  BY StepNotes
<1>2. IInv /\ [Next]_vars => IInv'
  BY StepKeeps
<1>3. NoteStep => [Notes!Next]_Notes!notebook
  BY DEF NoteStep, Notes!notebook
<1> QED BY <1>1, <1>2, <1>3, InitHolds, NotesStart, LimitsHold, PTL
        DEF Spec, KeepsNotebook, Notes!Spec

-------------------------------------------------------------------------------
(* The requests behind the results *)

\* A request's id is its place among the experiments on record.
Numbered(i) == \A n \in DOMAIN i.ran : i.ran[n].id = n - 1
NInv == Numbered(inv) /\ Numbered(saved)

\* What a step that runs nothing does to the records in memory and store.
NothingRun == /\ inv'.ran \in {<<>>, inv.ran, saved.ran}
              /\ saved'.ran \in {<<>>, inv.ran, saved.ran}

LEMMA NothingRunKeeps == ASSUME NInv, NothingRun PROVE NInv'
BY DEF NInv, Numbered, NothingRun

LEMMA FinalizeRunsNothing ==
  ASSUME NEW i \in Investigation, i.ran = inv.ran, NEW r, NEW n, Finalize(i, r, n)
  PROVE  NothingRun
<1> DEFINE j == [Conclude(i, r) EXCEPT !.status = TerminalStatus(r)]
<1>1. j.ran = inv.ran
  BY DEF Conclude, Investigation
<1>2. Return(j, n + 1) \/ Raise(n + 1)
  BY DEF Finalize
<1> HIDE DEF j
<1> QED BY <1>1, <1>2 DEF Return, Raise, NothingRun

LEMMA FailSafeRunsNothing == ASSUME TypeOK, FailSafe PROVE NothingRun
<1>1. Failed(inv).ran = inv.ran /\ Failed(Conclude(inv, "error")).ran = inv.ran
  BY DEF Failed, Conclude, TypeOK, Investigation
<1> QED BY <1>1 DEF FailSafe, Return, NothingRun

LEMMA FoldedIsNumbered ==
  ASSUME TypeOK, NInv, Due.id = Len(inv.ran), NEW ok, NEW told,
         NEW i \in Investigation, i.ran = Recorded(ok, told), Folded(i, ok)
  PROVE  NInv'
<1>1. inv.ran \in Seq(Result)
  BY DEF TypeOK, Investigation
<1>2. Numbered(i)
  <2> SUFFICES ASSUME NEW n \in DOMAIN i.ran PROVE i.ran[n].id = n - 1
    BY DEF Numbered
  <2>1. n \in 1..(Len(inv.ran) + 1)
    BY <1>1 DEF Recorded
  <2>2. CASE n = Len(inv.ran) + 1
    BY <1>1, <2>2 DEF Recorded
  <2>3. CASE n \in 1..Len(inv.ran)
    BY <1>1, <2>3 DEF Recorded, NInv, Numbered
  <2> QED BY <1>1, <2>1, <2>2, <2>3
<1>3. CASE EndIteration(i)
  <2> DEFINE next == [i EXCEPT !.iterations = @ + 1]
  <2>1. next.ran = i.ran
    BY DEF Investigation
  <2>2. inv' = next /\ saved' = next
    BY <1>3 DEF EndIteration
  <2> HIDE DEF next
  <2> QED BY <1>2, <2>1, <2>2 DEF NInv, Numbered
<1>4. CASE inv' = i /\ UNCHANGED saved
  BY <1>2, <1>4 DEF NInv, Numbered
<1> QED BY <1>3, <1>4 DEF Folded

\* One step per group of actions: only folding runs anything.
LEMMA StepNumbers ==
  ASSUME TypeOK, LInv, NInv, WorksInOrder, [Next]_vars
  PROVE  NInv'
<1>0. inv \in Investigation /\ saved \in Investigation
  BY DEF TypeOK
<1>1. CASE Start
  <2> DEFINE i == [NoInvestigation EXCEPT !.status = "created"]
  <2>1. i.ran = <<>>
    BY DEF NoInvestigation
  <2>2. inv' = i /\ saved' = i
    BY <1>1 DEF Start
  <2> HIDE DEF i
  <2> QED BY <2>1, <2>2, NothingRunKeeps DEF NothingRun
<1>2. CASE Resume \/ Crash \/ LoopSkipped \/ UNCHANGED vars
  BY <1>2, NothingRunKeeps DEF Resume, Crash, LoopSkipped, vars, NothingRun
<1>3. CASE InterpretFails \/ GenerateFails \/ SelectFails \/ CriticFails
  BY <1>3, FailSafeRunsNothing, NothingRunKeeps
     DEF InterpretFails, GenerateFails, SelectFails, CriticFails
<1>4. CASE Unanswerable
  <2>1. Begin(inv) \in Investigation /\ Begin(inv).ran = inv.ran
    BY <1>0 DEF Begin, Investigation, InvestigationStatus
  <2> QED BY <1>4, <2>1, FinalizeRunsNothing, NothingRunKeeps DEF Unanswerable
<1>5. CASE Interpreted
  <2>1. inv'.ran = inv.ran /\ UNCHANGED saved
    BY <1>0, <1>5 DEF Interpreted, Investigation
  <2> QED BY <2>1, NothingRunKeeps DEF NothingRun
<1>6. CASE Generate
  <2>1. CASE Raise(1)
    BY <2>1, NothingRunKeeps DEF Raise, NothingRun
  <2>2. CASE ~Raise(1)
    <3>1. inv'.ran = inv.ran /\ saved' = inv'
      BY <1>0, <1>6, <2>2 DEF Generate, Investigation
    <3> QED BY <3>1, NothingRunKeeps DEF NothingRun
  <2> QED BY <2>1, <2>2
<1>7. CASE Stop \/ NothingToRun \/ SelectNone
  BY <1>0, <1>7, FinalizeRunsNothing, NothingRunKeeps DEF Stop, StopAt, NothingToRun, SelectNone
<1>8. CASE WindowUsed
  BY <1>8, NothingRunKeeps DEF WindowUsed, Return, NothingRun
<1>9. CASE Select
  BY <1>9, NothingRunKeeps DEF Select, NothingRun
<1>10. CASE FoldFailure
  <2> DEFINE i == [inv EXCEPT !.ran = Recorded(FALSE, {})]
  <2>1. pc = "fold" /\ call.batch # {} /\ Folded(i, FALSE)
    BY <1>10 DEF FoldFailure, LInv, BatchFits
  <2>2. i \in Investigation /\ i.ran = Recorded(FALSE, {})
    BY <1>0, <2>1, RecordedType DEF Investigation
  <2> HIDE DEF i
  <2> QED BY <2>1, <2>2, FoldedIsNumbered DEF WorksInOrder
<1>11. CASE FoldSuccess
  <2>1. pc = "fold" /\ call.batch # {}
    BY <1>11 DEF FoldSuccess, LInv, BatchFits
  <2>2. CASE Raise(0)
    BY <2>2, NothingRunKeeps DEF Raise, NothingRun
  <2>3. CASE \E i \in Investigation, told \in SUBSET Claims :
               i.ran = Recorded(TRUE, told) /\ Folded(i, TRUE)
    BY <2>1, <2>3, FoldedIsNumbered DEF WorksInOrder
  <2> QED BY <1>11, <2>1, <2>2, <2>3, FoldSuccessIs
<1>12. CASE NothingToChallenge \/ CriticIsSilent \/ Contradict \/ Challenge
  <2>1. PICK i \in Investigation : i.ran = inv.ran /\ EndIteration(i)
    BY <1>0, <1>12, ContradictIs, ChallengeIs DEF NothingToChallenge, CriticIsSilent
  <2>2. inv'.ran = inv.ran /\ saved' = inv'
    BY <2>1 DEF EndIteration, Investigation
  <2> QED BY <2>2, NothingRunKeeps DEF NothingRun
<1> QED
  BY <1>1, <1>2, <1>3, <1>4, <1>5, <1>6, <1>7, <1>8, <1>9, <1>10, <1>11, <1>12
  DEF Next, LoopStep, Work

\* Where experiments are run in the order in which they were numbered, the
\* request that the read API finds for a stored result is the one that was
\* executed, for any batches, crashes and resumed calls: what breaks the property
\* without it is the policy's freedom to pass over a candidate, and no other part
\* of the loop (components.py: InvestigationPlanner.plan, ExperimentSelector).
THEOREM OrderedRequestsAreTraced == Spec /\ []WorksInOrder => []TraceNamesTheClaimTested
<1>1. Init => NInv
  <2>1. NoInvestigation.ran = <<>>
    BY DEF NoInvestigation
  <2> QED BY <2>1 DEF Init, NInv, Numbered
<1>2. TypeOK /\ LInv /\ NInv /\ WorksInOrder /\ [Next]_vars => NInv'
  BY StepNumbers
<1>3. TypeOK /\ NInv => TraceNamesTheClaimTested
  <2> SUFFICES ASSUME TypeOK, NInv, NEW n \in DOMAIN saved.ran
               PROVE  RequestRow(saved, saved.ran[n].id).targets = saved.ran[n].targets
    BY DEF TraceNamesTheClaimTested
  <2>1. DOMAIN saved.ran = 1..Len(saved.ran) /\ Len(saved.ran) \in Nat
    BY DEF TypeOK, Investigation
  <2> DEFINE S == {m \in DOMAIN saved.ran : saved.ran[m].id = saved.ran[n].id}
  <2>2. S = {n}
    BY <2>1 DEF NInv, Numbered
  <2>3. First(S) = n
    BY <2>1, <2>2, FirstIsLeast
  <2> QED BY <2>3 DEF RequestRow
<1> QED BY <1>1, <1>2, <1>3, LimitsHold, PTL DEF Spec
===============================================================================
