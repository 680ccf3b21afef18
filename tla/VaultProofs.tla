----------------------------- MODULE VaultProofs -----------------------------
(***************************************************************************)
(* Proofs about ArtifactVault, for any artifacts, batch size and number of *)
(* faults: a tombstone is never set over bytes that are there, and a row   *)
(* that is not yet due has its bytes.                                      *)
(***************************************************************************)
EXTENDS ArtifactVault, FiniteSetTheorems, SequenceTheorems, TLAPS

\* The rows of a running transaction have their bytes and are new; what the
\* pass under way has pruned is gone, and what it has still to prune is due.
Written  == Range(ingest) \subseteq blob
Distinct == ingest \in Seq(Artifacts) /\ IsInjective(ingest)
Passing ==
  /\ pass \in [stage : {"idle", "deleting"}, todo : SUBSET (1..old),
               pruned : SUBSET (Range(shelf) \ blob), failed : SUBSET Range(shelf),
               runs : {pass.runs}]

VaultInv ==
  /\ VaultTypeOK /\ Written /\ Distinct /\ Passing
  /\ TombstoneMeansGone /\ RowsHaveBlobs

vaultData == <<blob, shelf, tombstoned, repair, old, ingest, pass>>

-------------------------------------------------------------------------------
(* Sequences without repetition *)

LEMMA RangeOf ==
  ASSUME NEW S, NEW s \in Seq(S)
  PROVE  /\ Range(s) = {s[i] : i \in 1..Len(s)} /\ Range(s) \subseteq S
         /\ \A i \in 1..Len(s) : s[i] \in Range(s)
BY DEF Range

LEMMA InjectiveAt ==
  ASSUME NEW S, NEW s \in Seq(S), IsInjective(s)
  PROVE  \A i, j \in 1..Len(s) : s[i] = s[j] => i = j
BY DEF IsInjective

LEMMA Appended ==
  ASSUME NEW S, NEW s \in Seq(S), IsInjective(s), NEW a \in S, a \notin Range(s)
  PROVE  /\ Append(s, a) \in Seq(S) /\ IsInjective(Append(s, a))
         /\ Range(Append(s, a)) = Range(s) \cup {a}
<1> DEFINE t == Append(s, a)  n == Len(s)
<1>1. n \in Nat /\ t \in Seq(S) /\ Len(t) = n + 1 /\ t[n + 1] = a /\ DOMAIN t = 1..(n + 1)
  OBVIOUS
<1>2. \A i \in 1..n : t[i] = s[i] /\ s[i] # a
  BY RangeOf
<1>3. \A i, j \in 1..n : s[i] = s[j] => i = j
  BY InjectiveAt
<1>4. Range(s) = {s[i] : i \in 1..n} /\ Range(t) = {t[i] : i \in 1..(n + 1)}
  BY <1>1, RangeOf
<1> HIDE DEF t, n
<1>5. IsInjective(t)
  <2>1. ASSUME NEW i \in 1..(n + 1), NEW j \in 1..(n + 1), t[i] = t[j] PROVE i = j
    <3>1. i \in 1..n \/ i = n + 1
      BY <1>1
    <3>2. j \in 1..n \/ j = n + 1
      BY <1>1
    <3> QED BY <1>1, <1>2, <1>3, <2>1, <3>1, <3>2
  <2> QED BY <1>1, <2>1 DEF IsInjective
<1>6. Range(t) = Range(s) \cup {a}
  <2>1. \A i \in 1..(n + 1) : i \in 1..n \/ i = n + 1
    BY <1>1
  <2>2. \A i \in 1..n : i \in 1..(n + 1)
    BY <1>1
  <2>3. n + 1 \in 1..(n + 1)
    BY <1>1
  <2> QED BY <1>1, <1>2, <1>4, <2>1, <2>2, <2>3
<1> QED BY <1>1, <1>5, <1>6 DEF t

LEMMA IngestJoins ==
  ASSUME NEW S, NEW s \in Seq(S), NEW t \in Seq(S), IsInjective(s), IsInjective(t),
         Range(t) \cap Range(s) = {}
  PROVE  /\ s \o t \in Seq(S) /\ Len(s \o t) = Len(s) + Len(t)
         /\ IsInjective(s \o t) /\ Range(s \o t) = Range(s) \cup Range(t)
         /\ \A i \in 1..Len(s) : (s \o t)[i] = s[i]
         /\ \A i \in 1..Len(s \o t) : i > Len(s) => (s \o t)[i] \in Range(t)
<1> DEFINE u == s \o t  n == Len(s)  m == Len(t)
<1>1. /\ u \in Seq(S) /\ Len(u) = n + m
      /\ \A i \in 1..(n + m) : u[i] = IF i <= n THEN s[i] ELSE t[i - n]
  BY ConcatProperties
<1>2. n \in Nat /\ m \in Nat /\ DOMAIN u = 1..(n + m)
  BY <1>1
<1>3. /\ Range(s) = {s[i] : i \in 1..n} /\ Range(t) = {t[i] : i \in 1..m}
      /\ Range(u) = {u[i] : i \in 1..(n + m)}
      /\ \A i \in 1..n : s[i] \in Range(s)
      /\ \A i \in 1..m : t[i] \in Range(t)
  BY <1>1, RangeOf
<1>4. \A i, j \in 1..n : s[i] = s[j] => i = j
  BY InjectiveAt
<1>5. \A i, j \in 1..m : t[i] = t[j] => i = j
  BY InjectiveAt
<1> HIDE DEF u, n, m
<1>6. \A i \in 1..n : i \in 1..(n + m) /\ u[i] = s[i]
  BY <1>1, <1>2
<1>7. \A i \in 1..m : n + i \in 1..(n + m) /\ u[n + i] = t[i]
  <2> SUFFICES ASSUME NEW i \in 1..m PROVE n + i \in 1..(n + m) /\ u[n + i] = t[i]
    OBVIOUS
  <2>1. n + i \in 1..(n + m) /\ ~(n + i <= n) /\ (n + i) - n = i
    BY <1>2
  <2> QED BY <1>1, <2>1
<1>8. \A i \in 1..(n + m) : i \in 1..n \/ (i > n /\ i - n \in 1..m /\ u[i] = t[i - n])
  <2> SUFFICES ASSUME NEW i \in 1..(n + m)
               PROVE i \in 1..n \/ (i > n /\ i - n \in 1..m /\ u[i] = t[i - n])
    OBVIOUS
  <2>1. CASE i <= n
    BY <1>2, <2>1
  <2>2. CASE ~(i <= n)
    <3>1. i > n /\ i - n \in 1..m
      BY <1>2, <2>2
    <3> QED BY <1>1, <2>2, <3>1
  <2> QED BY <2>1, <2>2
<1>9. \A i \in 1..(n + m) : i > n => u[i] \in Range(t)
  <2> SUFFICES ASSUME NEW i \in 1..(n + m), i > n PROVE u[i] \in Range(t)
    OBVIOUS
  <2>1. ~(i \in 1..n)
    BY <1>2
  <2> QED BY <1>3, <1>8, <2>1
<1>10. \A i \in 1..n : u[i] \in Range(s)
  BY <1>3, <1>6
<1>11. IsInjective(u)
  <2>1. ASSUME NEW i \in 1..(n + m), NEW j \in 1..(n + m), u[i] = u[j] PROVE i = j
    <3>1. CASE i \in 1..n /\ j \in 1..n
      BY <1>4, <1>6, <2>1, <3>1
    <3>2. CASE i \in 1..n /\ ~(j \in 1..n)
      BY <1>8, <1>9, <1>10, <2>1, <3>2
    <3>3. CASE ~(i \in 1..n) /\ j \in 1..n
      BY <1>8, <1>9, <1>10, <2>1, <3>3
    <3>4. CASE ~(i \in 1..n) /\ ~(j \in 1..n)
      <4>1. i - n \in 1..m /\ j - n \in 1..m /\ t[i - n] = t[j - n]
        BY <1>8, <2>1, <3>4
      <4>2. i - n = j - n
        BY <1>5, <4>1
      <4> QED BY <1>2, <4>2
    <3> QED BY <3>1, <3>2, <3>3, <3>4
  <2> QED BY <1>2, <2>1 DEF IsInjective
<1>12. Range(u) = Range(s) \cup Range(t)
  <2>1. ASSUME NEW x \in Range(u) PROVE x \in Range(s) \cup Range(t)
    <3>1. PICK i \in 1..(n + m) : x = u[i]
      BY <1>3, <2>1
    <3> QED BY <1>8, <1>9, <1>10, <3>1
  <2>2. ASSUME NEW x \in Range(s) PROVE x \in Range(u)
    BY <1>3, <1>6, <2>2
  <2>3. ASSUME NEW x \in Range(t) PROVE x \in Range(u)
    <3>1. PICK i \in 1..m : x = t[i]
      BY <1>3, <2>3
    <3> QED BY <1>3, <1>7, <3>1
  <2> QED BY <2>1, <2>2, <2>3
<1> QED BY <1>1, <1>6, <1>9, <1>11, <1>12 DEF u, n, m

-------------------------------------------------------------------------------
(* The inductive invariant *)

LEMMA VaultInitInv == VaultInit => VaultInv
<1> SUFFICES ASSUME VaultInit PROVE VaultInv
  OBVIOUS
<1>1. /\ shelf \in [1..Cardinality(Foreign) -> Foreign] /\ IsInjective(shelf)
      /\ blob = Foreign /\ Foreign \subseteq Artifacts
      /\ tombstoned = {} /\ repair = {} /\ old = 0 /\ ingest = << >>
      /\ pass = NoPass
  BY VaultAssumption DEF VaultInit
<1>2. shelf \in Seq(Artifacts) /\ \A i \in 1..Len(shelf) : shelf[i] \in Foreign
  <2>1. Cardinality(Foreign) \in Nat
    BY VaultAssumption, FS_CardinalityType
  <2>2. shelf \in Seq(Foreign)
    BY <1>1, <2>1
  <2>3. shelf \in Seq(Artifacts)
    BY <1>1, <2>2
  <2>4. \A i \in 1..Len(shelf) : shelf[i] \in Foreign
    BY <2>2
  <2> QED BY <2>3, <2>4
<1>3. Range(ingest) = {} /\ IsInjective(ingest) /\ ingest \in Seq(Artifacts)
  BY <1>1 DEF Range, IsInjective
<1>4. old \in 0..Len(shelf)
  BY <1>1, <1>2
<1>5. run \in [Runs -> Row]
  BY DEF VaultInit
<1>6. VaultTypeOK
  BY <1>1, <1>2, <1>3, <1>4, <1>5 DEF VaultTypeOK, NoPass
<1>7. Passing
  BY <1>1 DEF Passing, NoPass
<1> QED BY <1>1, <1>2, <1>3, <1>6, <1>7
        DEF VaultInv, Written, Distinct, TombstoneMeansGone, RowsHaveBlobs

\* Steps of downloads and of runs touch neither store.
LEMMA LeavesStores ==
  ASSUME VaultInv, UNCHANGED vaultData, run' \in [Runs -> Row]
  PROVE  VaultInv'
BY DEF VaultInv, vaultData, VaultTypeOK, Written, Distinct, Passing, TombstoneMeansGone, RowsHaveBlobs

\* Bytes of an id that no row has yet disturb nothing.
LEMMA NewBytes ==
  ASSUME VaultInv, NEW a \in Artifacts, Fresh(a), blob' \in {blob, blob \cup {a}},
         \/ ingest' = << >>
         \/ ingest' = Append(ingest, a) /\ blob' = blob \cup {a},
         UNCHANGED <<shelf, tombstoned, repair, old, pass, run>>
  PROVE  VaultInv'
<1>1. /\ a \notin Range(shelf) /\ a \notin Range(ingest)
      /\ ingest \in Seq(Artifacts) /\ IsInjective(ingest)
      /\ Range(ingest) \subseteq Artifacts \ Range(shelf)
      /\ Range(ingest) \subseteq blob /\ tombstoned \subseteq Range(shelf)
      /\ blob \subseteq Artifacts
  BY DEF VaultInv, VaultTypeOK, Written, Distinct, Fresh
<1>2. /\ ingest' \in Seq(Artifacts) /\ IsInjective(ingest')
      /\ Range(ingest') \subseteq Range(ingest) \cup {a}
      /\ Range(ingest') \subseteq blob'
  <2>1. CASE ingest' = << >>
    BY <2>1 DEF Range, IsInjective
  <2>2. CASE ingest' = Append(ingest, a) /\ blob' = blob \cup {a}
    BY <1>1, <2>2, Appended
  <2> QED BY <2>1, <2>2
<1>3. VaultTypeOK'
  BY <1>1, <1>2 DEF VaultInv, VaultTypeOK
<1>4. Written' /\ Distinct'
  BY <1>2 DEF Written, Distinct
<1>5. Passing'
  <2>1. Range(shelf) \ blob' = Range(shelf) \ blob
    BY <1>1
  <2> QED BY <2>1 DEF VaultInv, Passing
<1>6. TombstoneMeansGone' /\ RowsHaveBlobs'
  BY <1>1 DEF VaultInv, TombstoneMeansGone, RowsHaveBlobs
<1> QED BY <1>3, <1>4, <1>5, <1>6 DEF VaultInv

LEMMA CommitInv ==
  ASSUME VaultInv, IngestCommits PROVE VaultInv'
<1>1. /\ shelf \in Seq(Artifacts) /\ IsInjective(shelf)
      /\ ingest \in Seq(Artifacts) /\ IsInjective(ingest)
      /\ Range(ingest) \cap Range(shelf) = {} /\ Range(ingest) \subseteq blob
      /\ old \in 0..Len(shelf)
  BY DEF VaultInv, VaultTypeOK, Written, Distinct
<1>2. /\ shelf' = shelf \o ingest /\ ingest' = << >>
      /\ UNCHANGED <<blob, tombstoned, repair, old, pass, run>>
  BY DEF IngestCommits
<1>3. /\ shelf' \in Seq(Artifacts) /\ Len(shelf') = Len(shelf) + Len(ingest)
      /\ IsInjective(shelf') /\ Range(shelf') = Range(shelf) \cup Range(ingest)
      /\ \A i \in 1..Len(shelf) : shelf'[i] = shelf[i]
      /\ \A i \in 1..Len(shelf') : i > Len(shelf) => shelf'[i] \in Range(ingest)
  BY <1>1, <1>2, IngestJoins
<1>4. Len(shelf) \in Nat /\ Len(ingest) \in Nat /\ old \in 0..Len(shelf')
  BY <1>1, <1>3
<1>5. Range(ingest') = {} /\ IsInjective(ingest') /\ ingest' \in Seq(Artifacts)
  BY <1>2 DEF Range, IsInjective
<1>6. VaultTypeOK'
  BY <1>2, <1>3, <1>4, <1>5 DEF VaultInv, VaultTypeOK
<1>7. Written' /\ Distinct'
  BY <1>5 DEF Written, Distinct
<1>8. Passing'
  <2>1. /\ SUBSET (Range(shelf) \ blob) \subseteq SUBSET (Range(shelf') \ blob)
        /\ SUBSET Range(shelf) \subseteq SUBSET Range(shelf')
    BY <1>3
  <2> QED BY <1>2, <2>1 DEF VaultInv, Passing
<1>9. TombstoneMeansGone'
  BY <1>2 DEF VaultInv, TombstoneMeansGone
<1>10. RowsHaveBlobs'
  <2> SUFFICES ASSUME NEW i \in 1..Len(shelf'), i > old PROVE shelf'[i] \in blob
    BY <1>2 DEF RowsHaveBlobs
  <2>1. CASE i <= Len(shelf)
    <3>1. i \in 1..Len(shelf)
      BY <1>4, <2>1
    <3> QED BY <1>3, <3>1 DEF VaultInv, RowsHaveBlobs
  <2>2. CASE i > Len(shelf)
    BY <1>1, <1>3, <2>2
  <2> QED BY <1>4, <2>1, <2>2
<1> QED BY <1>6, <1>7, <1>8, <1>9, <1>10 DEF VaultInv

LEMMA RollbackInv ==
  ASSUME VaultInv, IngestRollsBack PROVE VaultInv'
<1>1. /\ ingest' = << >> /\ UNCHANGED <<blob, shelf, tombstoned, repair, old, pass, run>>
  BY DEF IngestRollsBack
<1>2. Range(ingest') = {} /\ IsInjective(ingest') /\ ingest' \in Seq(Artifacts)
  BY <1>1 DEF Range, IsInjective
<1> QED BY <1>1, <1>2
        DEF VaultInv, VaultTypeOK, Written, Distinct, Passing, TombstoneMeansGone, RowsHaveBlobs

LEMMA RowsAgeInv ==
  ASSUME VaultInv, RowsAge PROVE VaultInv'
<1>1. /\ old' = old + 1 /\ old < Len(shelf)
      /\ UNCHANGED <<blob, shelf, tombstoned, repair, ingest, pass, run>>
      /\ old \in 0..Len(shelf) /\ Len(shelf) \in Nat
  BY DEF VaultInv, VaultTypeOK, RowsAge
<1>2. VaultTypeOK'
  BY <1>1 DEF VaultInv, VaultTypeOK
<1>3. Passing'
  <2>1. SUBSET (1..old) \subseteq SUBSET (1..old')
    BY <1>1
  <2> QED BY <1>1, <2>1 DEF VaultInv, Passing
<1>4. Written' /\ Distinct' /\ TombstoneMeansGone'
  BY <1>1 DEF VaultInv, Written, Distinct, TombstoneMeansGone
<1>5. RowsHaveBlobs'
  BY <1>1 DEF VaultInv, RowsHaveBlobs
<1> QED BY <1>2, <1>3, <1>4, <1>5 DEF VaultInv

\* A pass that begins or is given up has done nothing yet.
LEMMA PassResetInv ==
  ASSUME VaultInv, UNCHANGED <<blob, shelf, tombstoned, repair, old, ingest, run>>,
         pass' \in [stage : {"idle", "deleting"}, todo : SUBSET (1..old), pruned : {{}},
                    failed : {{}}, runs : {pass'.runs}]
  PROVE  VaultInv'
<1>1. Passing'
  BY DEF Passing
<1> QED BY <1>1 DEF VaultInv, VaultTypeOK, Written, Distinct, TombstoneMeansGone, RowsHaveBlobs

LEMMA PassStartsInv ==
  ASSUME VaultInv, PassStarts PROVE VaultInv'
<1>1. PruneCandidates \in SUBSET (1..old)
  BY DEF PruneCandidates
<1>2. pass' \in [stage : {"idle", "deleting"}, todo : SUBSET (1..old), pruned : {{}},
                 failed : {{}}, runs : {pass'.runs}]
  BY <1>1 DEF PassStarts
<1> QED BY <1>2, PassResetInv DEF PassStarts

LEMMA PassAbortsInv ==
  ASSUME VaultInv, PassAborts PROVE VaultInv'
<1>1. pass' \in [stage : {"idle", "deleting"}, todo : SUBSET (1..old), pruned : {{}},
                 failed : {{}}, runs : {pass'.runs}]
  BY DEF PassAborts, NoPass
<1> QED BY <1>1, PassResetInv DEF PassAborts

\* The row whose turn it is is due, so no newer row loses its bytes.
LEMMA PrunedRow ==
  ASSUME VaultInv, NEW i \in pass.todo
  PROVE  /\ i \in 1..old /\ i \in 1..Len(shelf) /\ shelf[i] \in Range(shelf)
         /\ shelf[i] \notin Range(ingest)
         /\ \A k \in 1..Len(shelf) : k > old => shelf[k] # shelf[i]
<1>1. /\ old \in 0..Len(shelf) /\ shelf \in Seq(Artifacts) /\ IsInjective(shelf)
      /\ Range(ingest) \subseteq Artifacts \ Range(shelf) /\ Len(shelf) \in Nat
  BY DEF VaultInv, VaultTypeOK
<1>2. i \in 1..old
  BY DEF VaultInv, Passing
<1>3. i \in 1..Len(shelf) /\ shelf[i] \in Range(shelf)
  BY <1>1, <1>2, RangeOf
<1>4. \A k, j \in 1..Len(shelf) : shelf[k] = shelf[j] => k = j
  BY <1>1, InjectiveAt
<1>5. \A k \in 1..Len(shelf) : k > old => k # i
  BY <1>1, <1>2
<1> QED BY <1>1, <1>2, <1>3, <1>4, <1>5

LEMMA PrunesBlobInv ==
  ASSUME VaultInv, PrunesBlob PROVE VaultInv'
<1>1. PICK i \in pass.todo :
        /\ blob' = blob \ {shelf[i]}
        /\ pass' = [pass EXCEPT !.todo = @ \ {i}, !.pruned = @ \cup {shelf[i]}]
  BY DEF PrunesBlob
<1>2. UNCHANGED <<shelf, tombstoned, repair, old, ingest, run>>
  BY DEF PrunesBlob
<1>3. /\ i \in 1..old /\ i \in 1..Len(shelf) /\ shelf[i] \in Range(shelf)
      /\ shelf[i] \notin Range(ingest)
      /\ \A k \in 1..Len(shelf) : k > old => shelf[k] # shelf[i]
  BY PrunedRow
<1>4. pass \in [stage : {"idle", "deleting"}, todo : SUBSET (1..old),
                pruned : SUBSET (Range(shelf) \ blob), failed : SUBSET Range(shelf),
                runs : {pass.runs}]
  BY DEF VaultInv, Passing
<1>5. pass.pruned \cup {shelf[i]} \in SUBSET (Range(shelf) \ blob')
      /\ pass.todo \ {i} \in SUBSET (1..old)
  BY <1>1, <1>3, <1>4
<1>6. /\ pass' \in [stage : {"idle", "deleting"}, todo : SUBSET (1..old),
                    pruned : SUBSET (Range(shelf) \ blob'), failed : SUBSET Range(shelf),
                    runs : {pass.runs}]
  BY <1>1, <1>4, <1>5
<1>7. pass'.runs = pass.runs /\ pass'.stage \in {"idle", "deleting"}
  BY <1>6
<1>8. Passing'
  BY <1>2, <1>6, <1>7 DEF Passing
<1>9. VaultTypeOK'
  BY <1>1, <1>2, <1>7 DEF VaultInv, VaultTypeOK
<1>10. Written' /\ Distinct' /\ TombstoneMeansGone'
  BY <1>1, <1>2, <1>3 DEF VaultInv, Written, Distinct, TombstoneMeansGone
<1>11. RowsHaveBlobs'
  BY <1>1, <1>2, <1>3 DEF VaultInv, RowsHaveBlobs
<1> QED BY <1>8, <1>9, <1>10, <1>11 DEF VaultInv

LEMMA PruneFailsInv ==
  ASSUME VaultInv, PruneFails PROVE VaultInv'
<1>1. PICK i \in pass.todo :
        pass' = [pass EXCEPT !.todo = @ \ {i}, !.failed = @ \cup {shelf[i]}]
  BY DEF PruneFails
<1>2. UNCHANGED <<blob, shelf, tombstoned, repair, old, ingest, run>>
  BY DEF PruneFails
<1>3. shelf[i] \in Range(shelf)
  BY PrunedRow
<1>4. pass \in [stage : {"idle", "deleting"}, todo : SUBSET (1..old),
                pruned : SUBSET (Range(shelf) \ blob), failed : SUBSET Range(shelf),
                runs : {pass.runs}]
  BY DEF VaultInv, Passing
<1>5. /\ pass' \in [stage : {"idle", "deleting"}, todo : SUBSET (1..old),
                    pruned : SUBSET (Range(shelf) \ blob), failed : SUBSET Range(shelf),
                    runs : {pass.runs}]
  BY <1>1, <1>3, <1>4
<1>6. pass'.runs = pass.runs /\ pass'.stage \in {"idle", "deleting"}
  BY <1>5
<1>7. Passing'
  BY <1>2, <1>5, <1>6 DEF Passing
<1> QED BY <1>2, <1>6, <1>7
        DEF VaultInv, VaultTypeOK, Written, Distinct, TombstoneMeansGone, RowsHaveBlobs

LEMMA PassCommitsInv ==
  ASSUME VaultInv, PassCommits PROVE VaultInv'
<1>1. /\ tombstoned' = tombstoned \cup pass.pruned
      /\ repair' = (repair \cup pass.failed) \ pass.pruned
      /\ pass' = NoPass /\ UNCHANGED <<blob, shelf, old, ingest>>
  BY DEF PassCommits
<1>2. pass.pruned \subseteq Range(shelf) \ blob /\ pass.failed \subseteq Range(shelf)
  BY DEF VaultInv, Passing
<1>3. run' \in [Runs -> Row]
  <2>1. ASSUME NEW r \in Runs
        PROVE  (IF r \in DOMAIN pass.runs
                THEN [run[r] EXCEPT !.input  = @ /\ ~pass.runs[r].input,
                                    !.output = @ /\ ~pass.runs[r].output,
                                    !.compacted = TRUE]
                ELSE run[r]) \in Row
    <3>1. run[r] \in Row
      BY DEF VaultInv, VaultTypeOK
    <3> QED BY <3>1 DEF Row
  <2> QED BY <2>1 DEF PassCommits
<1>4. Passing'
  BY <1>1 DEF Passing, NoPass
<1>5. VaultTypeOK'
  BY <1>1, <1>2, <1>3 DEF VaultInv, VaultTypeOK, NoPass
<1>6. TombstoneMeansGone'
  BY <1>1, <1>2 DEF VaultInv, TombstoneMeansGone
<1> QED BY <1>1, <1>4, <1>5, <1>6 DEF VaultInv, Written, Distinct, RowsHaveBlobs

LEMMA RunsTyped ==
  ASSUME VaultInv, NEW r \in Runs, RetryRun(r) \/ StartRun(r) \/ FinishRun(r)
  PROVE  run' \in [Runs -> Row] /\ UNCHANGED vaultData
<1>1. run \in [Runs -> Row] /\ run[r] \in Row
  BY DEF VaultInv, VaultTypeOK
<1>2. CASE RetryRun(r)
  BY <1>1, <1>2 DEF RetryRun, Row, vaultData
<1>3. CASE StartRun(r)
  BY <1>1, <1>3 DEF StartRun, Row, vaultData
<1>4. CASE FinishRun(r)
  <2>1. PICK s \in {"success", "error"} :
          run' = [run EXCEPT ![r].status = s, ![r].output = (s = "success") \/ @]
    BY <1>4 DEF FinishRun
  <2>2. run' \in [Runs -> Row]
    BY <1>1, <2>1 DEF Row
  <2> QED BY <1>4, <2>2 DEF FinishRun, vaultData
<1> QED BY <1>2, <1>3, <1>4

LEMMA VaultStepInv == VaultInv /\ [VaultNext]_vaultVars => VaultInv'
<1> SUFFICES ASSUME VaultInv, [VaultNext]_vaultVars PROVE VaultInv'
  OBVIOUS
<1>t. run \in [Runs -> Row]
  BY DEF VaultInv, VaultTypeOK
<1>1. ASSUME NEW a \in Artifacts, IngestFile(a) PROVE VaultInv'
  BY <1>1, NewBytes DEF IngestFile
<1>2. ASSUME NEW a \in Artifacts, IngestFails(a) PROVE VaultInv'
  BY <1>t, <1>2, LeavesStores DEF IngestFails, vaultData
<1>3. ASSUME NEW a \in Artifacts, GetRow(a) PROVE VaultInv'
  BY <1>t, <1>3, LeavesStores DEF GetRow, vaultData
<1>4. ASSUME NEW a \in Artifacts, NEW c \in BOOLEAN, InsertFails(a, c) PROVE VaultInv'
  BY <1>4, NewBytes DEF InsertFails
<1>5. CASE VerifyOpenable
  BY <1>t, <1>5, LeavesStores DEF VerifyOpenable, vaultData
<1>6. CASE Stream
  BY <1>t, <1>6, LeavesStores DEF Stream, vaultData
<1>7. ASSUME NEW r \in Runs, RetryRun(r) \/ StartRun(r) \/ FinishRun(r) PROVE VaultInv'
  BY <1>7, RunsTyped, LeavesStores
<1>8. CASE UNCHANGED vaultVars
  BY <1>t, <1>8, LeavesStores DEF vaultVars, vaultData
<1> QED BY <1>1, <1>2, <1>3, <1>4, <1>5, <1>6, <1>7, <1>8, CommitInv, RollbackInv, RowsAgeInv,
           PassStartsInv, PrunesBlobInv, PruneFailsInv, PassCommitsInv, PassAbortsInv
        DEF VaultNext

-------------------------------------------------------------------------------
(* The theorems *)

LEMMA VaultInvariant == VaultSpec => []VaultInv
BY VaultInitInv, VaultStepInv, PTL DEF VaultSpec

\* Rows, bytes, the open transaction and the pass keep their types: no id is on
\* the shelf twice, and the open transaction holds only ids without a row.
THEOREM VaultTypeCorrect == VaultSpec => []VaultTypeOK
<1>1. VaultInv => VaultTypeOK
  BY DEF VaultInv
<1> QED BY <1>1, VaultInvariant, PTL

\* A tombstone never hides bytes that are still there, whatever crashed between
\* the deletions and their commit.
THEOREM TombstonesAreTrue == VaultSpec => []TombstoneMeansGone
<1>1. VaultInv => TombstoneMeansGone
  BY DEF VaultInv
<1> QED BY <1>1, VaultInvariant, PTL

\* A visible row that is not yet due has its bytes, whatever failed on the way.
THEOREM NewRowsAreReadable == VaultSpec => []RowsHaveBlobs
<1>1. VaultInv => RowsHaveBlobs
  BY DEF VaultInv
<1> QED BY <1>1, VaultInvariant, PTL

-------------------------------------------------------------------------------
(* The input of queued runs *)

\* A run keeps its input until it is compacted, and a run that waits or works
\* neither is nor is about to be.
InputKept ==
  \A r \in Runs :
    /\ run[r].compacted \/ run[r].input
    /\ ~IsTerminal(run[r].status) => ~run[r].compacted /\ r \notin DOMAIN pass.runs

LEMMA InputInit == VaultInit => InputKept
<1> SUFFICES ASSUME VaultInit PROVE InputKept
  OBVIOUS
<1>1. \A r \in Runs : run[r].input /\ run[r].status \in {"success", "error"}
  BY DEF VaultInit
<1> QED BY <1>1 DEF InputKept, IsTerminal, Terminal

LEMMA InputStep ==
  ASSUME VaultInv, InputKept, [VaultNext]_vaultVars, [RetriesSpareCompacted]_vaultVars
  PROVE  InputKept'
<1>t. run \in [Runs -> Row]
  BY DEF VaultInv, VaultTypeOK
<1>n. DOMAIN NoPass.runs = {}
  BY DEF NoPass
<1>1. CASE UNCHANGED <<run, pass>>
  BY <1>1 DEF InputKept
<1>2. CASE PassStarts
  <2>1. run' = run /\ DOMAIN pass'.runs = CompactionCandidates
    BY <1>2 DEF PassStarts
  <2> QED BY <2>1 DEF InputKept, CompactionCandidates
<1>3. CASE PrunesBlob \/ PruneFails
  <2>1. pass \in [stage : {"idle", "deleting"}, todo : SUBSET (1..old),
                  pruned : SUBSET (Range(shelf) \ blob), failed : SUBSET Range(shelf),
                  runs : {pass.runs}]
    BY DEF VaultInv, Passing
  <2>2. run' = run /\ pass'.runs = pass.runs
    BY <1>3, <2>1 DEF PrunesBlob, PruneFails
  <2> QED BY <2>2 DEF InputKept
<1>4. CASE PassAborts
  BY <1>4, <1>n DEF InputKept, PassAborts
<1>5. CASE PassCommits
  <2>1. ASSUME NEW r \in Runs
        PROVE  /\ r \in DOMAIN pass.runs => run'[r].compacted /\ run'[r].status = run[r].status
               /\ r \notin DOMAIN pass.runs => run'[r] = run[r]
    BY <1>t, <1>5 DEF PassCommits, Row
  <2>2. DOMAIN pass'.runs = {}
    BY <1>5, <1>n DEF PassCommits
  <2> QED BY <2>1, <2>2 DEF InputKept
<1>6. ASSUME NEW r \in Runs, RetryRun(r) PROVE InputKept'
  <2>1. /\ run' = [run EXCEPT ![r].status = "queued"] /\ pass' = pass
        /\ IsRetriable(run[r].status)
    BY <1>6 DEF RetryRun
  <2>2. run' # run
    <3>1. run'[r].status = "queued" /\ run[r].status # "queued"
      BY <1>t, <2>1 DEF IsRetriable, RetryToQueued, Terminal
    <3> QED BY <3>1
  <2>3. ~run[r].compacted /\ r \notin DOMAIN pass.runs
    BY <1>6, <2>2 DEF RetriesSpareCompacted, vaultVars
  <2>4. \A q \in Runs : /\ run'[q].compacted = run[q].compacted /\ run'[q].input = run[q].input
                        /\ q # r => run'[q] = run[q]
    BY <1>t, <2>1 DEF Row
  <2> QED BY <2>1, <2>3, <2>4 DEF InputKept
<1>7. ASSUME NEW r \in Runs, StartRun(r) \/ FinishRun(r) PROVE InputKept'
  <2>1. ~IsTerminal(run[r].status) /\ pass' = pass
    BY <1>7 DEF StartRun, FinishRun, IsTerminal, Terminal
  <2>2. \A q \in Runs : /\ run'[q].compacted = run[q].compacted /\ run'[q].input = run[q].input
                        /\ q # r => run'[q] = run[q]
    BY <1>t, <1>7 DEF StartRun, FinishRun, Row
  <2> QED BY <2>1, <2>2 DEF InputKept
<1> QED BY <1>1, <1>2, <1>3, <1>4, <1>5, <1>6, <1>7
        DEF VaultNext, vaultVars, IngestFile, IngestFails, GetRow, InsertFails, IngestCommits,
            IngestRollsBack, RowsAge, VerifyOpenable, Stream

\* A queued run has the payload it was created with, whatever passes abort and
\* whenever they commit, as long as users retry no run whose payloads retention
\* has emptied or is about to empty: the retry route does not look at the mark,
\* and the pass does not look at the status again (maintenance/retention.py).
THEOREM InputSurvives ==
  VaultSpec /\ [][RetriesSpareCompacted]_vaultVars => []QueuedRunKeepsInput
<1>1. VaultInv /\ InputKept /\ [VaultNext]_vaultVars /\ [RetriesSpareCompacted]_vaultVars
        => InputKept'
  BY InputStep
<1>2. InputKept => QueuedRunKeepsInput
  BY DEF InputKept, QueuedRunKeepsInput, IsTerminal, Terminal
<1> QED BY InputInit, <1>1, <1>2, VaultInvariant, PTL DEF VaultSpec

-------------------------------------------------------------------------------
(* What a 404 of a download means *)

\* Every row has its bytes or its mark, but for those that the pass under way
\* has pruned and will mark; a download that looks for bytes saw no mark.
Marked ==
  /\ Range(shelf) \subseteq blob \cup tombstoned \cup pass.pruned
  /\ pass.stage = "idle" => pass.pruned = {}
  /\ download.stage \in {"verify", "stream"} => download.art \in Range(shelf)
  /\ download.stage = "verify" => download.art \notin tombstoned

LEMMA MarkedInit == VaultInit => Marked
<1> SUFFICES ASSUME VaultInit PROVE Marked
  OBVIOUS
<1>1. /\ shelf \in [1..Cardinality(Foreign) -> Foreign] /\ blob = Foreign
      /\ pass = NoPass /\ download = NoDownload
  BY DEF VaultInit
<1>2. Range(shelf) \subseteq Foreign
  BY <1>1 DEF Range
<1> QED BY <1>1, <1>2 DEF Marked, NoPass, NoDownload

LEMMA MarkedStep ==
  ASSUME VaultInv, Marked, ReadsBetweenPasses, [VaultNext]_vaultVars, [~PassAborts]_vaultVars
  PROVE  Marked'
<1>t. /\ pass \in [stage : {"idle", "deleting"}, todo : SUBSET (1..old),
                  pruned : SUBSET (Range(shelf) \ blob), failed : SUBSET Range(shelf),
                  runs : {pass.runs}]
      /\ shelf \in Seq(Artifacts) /\ ingest \in Seq(Artifacts)
      /\ IsInjective(shelf) /\ IsInjective(ingest)
      /\ Range(ingest) \cap Range(shelf) = {} /\ Range(ingest) \subseteq blob
  BY DEF VaultInv, VaultTypeOK, Passing, Written, Distinct
<1> USE DEF Marked
<1>1. CASE UNCHANGED <<shelf, tombstoned, pass, download>> /\ blob \subseteq blob'
  BY <1>1
<1>2. CASE IngestCommits
  <2>1. Range(shelf') = Range(shelf) \cup Range(ingest)
    BY <1>t, <1>2, IngestJoins DEF IngestCommits
  <2> QED BY <1>t, <1>2, <2>1 DEF IngestCommits
<1>3. CASE PassStarts
  BY <1>3 DEF PassStarts
<1>4. CASE PrunesBlob
  <2>1. PICK i \in pass.todo :
          /\ NextToPrune(i) /\ blob' = blob \ {shelf[i]}
          /\ pass' = [pass EXCEPT !.todo = @ \ {i}, !.pruned = @ \cup {shelf[i]}]
    BY <1>4 DEF PrunesBlob
  <2>2. pass'.pruned = pass.pruned \cup {shelf[i]} /\ pass'.stage = "deleting"
    BY <1>t, <2>1 DEF NextToPrune
  <2> QED BY <1>4, <2>1, <2>2 DEF PrunesBlob
<1>5. CASE PruneFails
  <2>1. PICK i \in pass.todo :
          /\ NextToPrune(i)
          /\ pass' = [pass EXCEPT !.todo = @ \ {i}, !.failed = @ \cup {shelf[i]}]
    BY <1>5 DEF PruneFails
  <2>2. pass'.pruned = pass.pruned /\ pass'.stage = "deleting"
    BY <1>t, <2>1 DEF NextToPrune
  <2> QED BY <1>5, <2>1, <2>2 DEF PruneFails
<1>6. CASE PassCommits
  <2>1. download.stage # "verify"
    BY <1>6 DEF PassCommits, ReadsBetweenPasses
  <2> QED BY <1>6, <2>1 DEF PassCommits, NoPass
<1>7. ASSUME NEW a \in Artifacts, GetRow(a) PROVE Marked'
  BY <1>7 DEF GetRow
<1>8. CASE VerifyOpenable \/ Stream
  BY <1>8 DEF VerifyOpenable, Stream
<1>9. ~PassAborts \/ UNCHANGED vaultVars
  OBVIOUS
<1> QED BY <1>1, <1>2, <1>3, <1>4, <1>5, <1>6, <1>7, <1>8, <1>9
        DEF VaultNext, vaultVars, IngestFile, IngestFails, InsertFails, IngestRollsBack, RowsAge,
            RetryRun, StartRun, FinishRun

\* What docs/artifact-delivery.md says of a 404 is true where no pass of the
\* retention is given up between its deletions and its commit, and no download
\* looks for its bytes while one is deleting: whatever else fails, the answer
\* for a row that retention pruned is the 410.
THEOREM NotFoundIsHonest ==
  VaultSpec /\ [][~PassAborts]_vaultVars /\ []ReadsBetweenPasses => []NotFoundIsRealLoss
<1>1. VaultInv /\ Marked /\ ReadsBetweenPasses /\ [VaultNext]_vaultVars
        /\ [~PassAborts]_vaultVars => Marked'
  BY MarkedStep
<1>2. VaultInit => NotFoundIsRealLoss
  BY DEF VaultInit, NotFoundIsRealLoss, NoDownload
<1>3. ASSUME NotFoundIsRealLoss, Marked, ReadsBetweenPasses, [VaultNext]_vaultVars
      PROVE  NotFoundIsRealLoss'
  <2>1. CASE UNCHANGED download
    BY <1>3, <2>1 DEF NotFoundIsRealLoss
  <2>2. ASSUME NEW a \in Artifacts, GetRow(a) PROVE NotFoundIsRealLoss'
    BY <2>2 DEF GetRow, NotFoundIsRealLoss
  <2>3. CASE Stream
    BY <2>3 DEF Stream, NotFoundIsRealLoss
  <2>4. CASE VerifyOpenable
    <3>1. download.stage = "verify" /\ pass.pruned = {}
      BY <1>3, <2>4 DEF VerifyOpenable, ReadsBetweenPasses, Marked
    <3>2. download.art \in blob
      BY <1>3, <3>1 DEF Marked
    <3> QED BY <2>4, <3>2 DEF VerifyOpenable, NotFoundIsRealLoss
  <2> QED BY <1>3, <2>1, <2>2, <2>3, <2>4
          DEF VaultNext, vaultVars, IngestFile, IngestFails, InsertFails, IngestCommits,
              IngestRollsBack, RowsAge, PassStarts, PrunesBlob, PruneFails, PassCommits,
              PassAborts, RetryRun, StartRun, FinishRun
<1>4. NotFoundIsRealLoss /\ Marked /\ ReadsBetweenPasses /\ [VaultNext]_vaultVars
        => NotFoundIsRealLoss'
  BY <1>3
<1> QED BY MarkedInit, <1>1, <1>2, <1>4, VaultInvariant, PTL DEF VaultSpec

===============================================================================
