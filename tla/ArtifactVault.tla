---------------------------- MODULE ArtifactVault ----------------------------
(***************************************************************************)
(* Artifacts: bytes in an object store, rows in the database, and the      *)
(* retention loop that removes the bytes and keeps the rows.               *)
(*                                                                         *)
(* The two stores share no transaction.  Ingestion writes the bytes and    *)
(* then inserts rows that become visible at the run's final commit;        *)
(* retention deletes bytes one by one and marks the rows in one commit at  *)
(* the end; a download reads the row, then the store, then the store again *)
(* while it streams.  The same retention transaction empties the payloads  *)
(* of old runs, which a user may have sent back to the queue meanwhile.    *)
(***************************************************************************)
EXTENDS RunStatus, Naturals, Sequences, FiniteSets, SequencesExt

CONSTANTS
  Artifacts,   \* artifact ids, never used twice
  Foreign,     \* old artifacts whose URI names a store this deployment lacks
  Batch,       \* retention_batch_size
  Runs,        \* analysis runs with payloads
  MaxFaults,   \* bound: crashes, failed commits and failed deletes
  MaxRetries   \* bound: retries of finished runs

ASSUME VaultAssumption ==
  /\ Foreign \subseteq Artifacts /\ IsFiniteSet(Foreign)
  /\ Batch \in Nat \ {0} /\ MaxFaults \in Nat

VARIABLES
  blob,        \* artifacts whose bytes are in the object store
  shelf,       \* committed artifact rows, oldest first
  tombstoned,  \* rows with blob_deleted_at
  repair,      \* rows marked repair_required
  old,         \* how many rows of shelf are older than the cutoff
  ingest,      \* rows of the open transaction of a run's executor
  pass,        \* the retention pass under way
  download,    \* a download under way
  run,         \* the runs' status and payload columns
  faults, retries

vaultVars == <<blob, shelf, tombstoned, repair, old, ingest, pass, download, run,
               faults, retries>>

NoPass   == [stage |-> "idle", todo |-> {}, pruned |-> {}, failed |-> {},
             runs |-> << >>]
NoDownload == [stage |-> "idle"]

\* A run that finished long ago, as the retention query sees it.
Row == [status : {"queued", "running", "success", "error"},
        input : BOOLEAN, output : BOOLEAN, compacted : BOOLEAN]

VaultTypeOK ==
  /\ blob \subseteq Artifacts /\ tombstoned \subseteq Range(shelf)
  /\ repair \subseteq Range(shelf)
  /\ shelf \in Seq(Artifacts) /\ IsInjective(shelf)
  /\ old \in 0..Len(shelf)
  /\ Range(ingest) \subseteq Artifacts \ Range(shelf)
  /\ pass.stage \in {"idle", "deleting"}
  /\ run \in [Runs -> Row]

VaultInit ==
  /\ blob = Foreign
  /\ shelf \in {s \in [1..Cardinality(Foreign) -> Foreign] : IsInjective(s)}
  /\ tombstoned = {} /\ repair = {} /\ old = 0
  /\ ingest = << >> /\ pass = NoPass /\ download = NoDownload
  /\ run \in [Runs -> {r \in Row : r.status \in {"success", "error"} /\ r.input
                                   /\ ~r.compacted
                                   /\ r.output = (r.status = "success")}]
  /\ faults = 0 /\ retries = 0

-------------------------------------------------------------------------------
(* Ingestion: ArtifactService.ingest_pipeline_file in the run's transaction *)

\* Mutant: an id is free again once its bytes were pruned.
Fresh_ByBytes(a) == a \notin Range(ingest) \cup blob \cup Foreign

\* Every file gets a new id.
Fresh(a) == a \notin Range(shelf) \cup Range(ingest) \cup blob \cup Foreign

\* The bytes are in place before the row is inserted and flushed.
IngestFile(a) ==
  /\ Fresh(a)
  /\ blob' = blob \cup {a}
  /\ ingest' = Append(ingest, a)
  /\ UNCHANGED <<shelf, tombstoned, repair, old, pass, download, run, faults, retries>>

\* Mutant: a file whose bytes could not be written keeps its row.
IngestFails_RowKept(a) ==
  /\ Fresh(a) /\ faults < MaxFaults
  /\ ingest' = Append(ingest, a)
  /\ faults' = faults + 1
  /\ UNCHANGED <<blob, shelf, tombstoned, repair, old, pass, download, run, retries>>

\* Writing the bytes fails: the temporary file is unlinked, no row is inserted,
\* and the executor goes on with the next file.
IngestFails(a) ==
  /\ Fresh(a) /\ faults < MaxFaults
  /\ faults' = faults + 1
  /\ UNCHANGED <<blob, shelf, tombstoned, repair, old, ingest, pass, download, run,
                 retries>>

\* The insert fails: the bytes are deleted again, best effort, and the error
\* ends the executor's transaction with all its rows.
InsertFails(a, cleaned) ==
  /\ Fresh(a) /\ faults < MaxFaults
  /\ faults' = faults + 1
  /\ blob' = IF cleaned THEN blob ELSE blob \cup {a}
  /\ ingest' = << >>
  /\ UNCHANGED <<shelf, tombstoned, repair, old, pass, download, run, retries>>

IngestCommits ==
  /\ ingest # << >>
  /\ shelf' = shelf \o ingest
  /\ ingest' = << >>
  /\ UNCHANGED <<blob, tombstoned, repair, old, pass, download, run, faults, retries>>

\* A lost lease or a crash before the commit rolls the rows back; bytes stay.
IngestRollsBack ==
  /\ ingest # << >> /\ faults < MaxFaults
  /\ ingest' = << >>
  /\ faults' = faults + 1
  /\ UNCHANGED <<blob, shelf, tombstoned, repair, old, pass, download, run, retries>>

\* Rows cross the retention cutoff in the order they were created.
RowsAge ==
  /\ old < Len(shelf)
  /\ old' = old + 1
  /\ UNCHANGED <<blob, shelf, tombstoned, repair, ingest, pass, download, run,
                 faults, retries>>

-------------------------------------------------------------------------------
(* Retention: run_retention_maintenance with --apply, again and again *)

\* list_blob_prune_candidates: the places of the oldest rows that are due.
PruneCandidates ==
  LET due == {i \in 1..old : shelf[i] \notin tombstoned}
  IN  {i \in due : Cardinality({k \in due : k < i}) < Batch}

\* list_compaction_candidates, with the payloads as they were read
CompactionCandidates ==
  {r \in Runs : IsTerminal(run[r].status) /\ ~run[r].compacted
                /\ (run[r].input \/ run[r].output)}

PassStarts ==
  /\ pass.stage = "idle"
  /\ PruneCandidates # {} \/ CompactionCandidates # {}
  /\ pass' = [stage  |-> "deleting", todo |-> PruneCandidates,
              pruned |-> {}, failed |-> {},
              runs   |-> [r \in CompactionCandidates |->
                            [input |-> run[r].input, output |-> run[r].output]]]
  /\ UNCHANGED <<blob, shelf, tombstoned, repair, old, ingest, download, run, faults,
                 retries>>

\* The row whose turn it is.
NextToPrune(i) == pass.stage = "deleting" /\ i \in pass.todo /\ \A k \in pass.todo : i <= k

\* delete_at_uri succeeds also when the bytes are gone already.
PrunesBlob ==
  /\ \E i \in pass.todo :
       /\ NextToPrune(i) /\ shelf[i] \notin Foreign
       /\ blob' = blob \ {shelf[i]}
       /\ pass' = [pass EXCEPT !.todo = @ \ {i}, !.pruned = @ \cup {shelf[i]}]
  /\ UNCHANGED <<shelf, tombstoned, repair, old, ingest, download, run, faults, retries>>

\* Mutant: a failed delete is reported and marked all the same.
PruneFails_Marked ==
  /\ \E i \in pass.todo :
       /\ NextToPrune(i) /\ (shelf[i] \in Foreign \/ faults < MaxFaults)
       /\ faults' = IF shelf[i] \in Foreign THEN faults ELSE faults + 1
       /\ pass' = [pass EXCEPT !.todo = @ \ {i}, !.pruned = @ \cup {shelf[i]}]
  /\ UNCHANGED <<blob, shelf, tombstoned, repair, old, ingest, download, run, retries>>

\* A store that is missing or fails: the row is marked for repair and the pass
\* goes on.
PruneFails ==
  /\ \E i \in pass.todo :
       /\ NextToPrune(i) /\ (shelf[i] \in Foreign \/ faults < MaxFaults)
       /\ faults' = IF shelf[i] \in Foreign THEN faults ELSE faults + 1
       /\ pass' = [pass EXCEPT !.todo = @ \ {i}, !.failed = @ \cup {shelf[i]}]
  /\ UNCHANGED <<blob, shelf, tombstoned, repair, old, ingest, download, run, retries>>

\* Mutant: the tombstones wait for a pass without errors.
PassCommits_AllOrNothing ==
  /\ pass.stage = "deleting" /\ pass.todo = {}
  /\ tombstoned' = IF pass.failed = {} THEN tombstoned \cup pass.pruned ELSE tombstoned
  /\ repair' = (repair \cup pass.failed) \ pass.pruned
  /\ pass' = NoPass
  /\ UNCHANGED <<blob, shelf, old, ingest, download, run, faults, retries>>

\* Only the columns that had a value when the row was read are written, and
\* they are written whatever the row has become.
PassCommits ==
  /\ pass.stage = "deleting" /\ pass.todo = {}
  /\ tombstoned' = tombstoned \cup pass.pruned
  /\ repair' = (repair \cup pass.failed) \ pass.pruned
  /\ run' = [r \in Runs |->
               IF r \in DOMAIN pass.runs
               THEN [run[r] EXCEPT !.input  = @ /\ ~pass.runs[r].input,
                                   !.output = @ /\ ~pass.runs[r].output,
                                   !.compacted = TRUE]
               ELSE run[r]]
  /\ pass' = NoPass
  /\ UNCHANGED <<blob, shelf, old, ingest, download, faults, retries>>

\* The commit fails or the process dies: no mark is kept, the bytes are gone.
PassAborts ==
  /\ pass.stage = "deleting" /\ faults < MaxFaults
  /\ faults' = faults + 1
  /\ pass' = NoPass
  /\ UNCHANGED <<blob, shelf, tombstoned, repair, old, ingest, download, run, retries>>

-------------------------------------------------------------------------------
(* Runs whose payloads retention compacts *)

\* Finished runs but successful ones may be queued again.
RetryRun(r) ==
  /\ IsRetriable(run[r].status) /\ retries < MaxRetries
  /\ run' = [run EXCEPT ![r].status = "queued"]
  /\ retries' = retries + 1
  /\ UNCHANGED <<blob, shelf, tombstoned, repair, old, ingest, pass, download, faults>>

\* The executor reads the input payload when it starts.
StartRun(r) ==
  /\ run[r].status = "queued"
  /\ run' = [run EXCEPT ![r].status = "running"]
  /\ UNCHANGED <<blob, shelf, tombstoned, repair, old, ingest, pass, download, faults,
                 retries>>

FinishRun(r) ==
  /\ run[r].status = "running"
  /\ \E s \in {"success", "error"} :
       run' = [run EXCEPT ![r].status = s, ![r].output = (s = "success") \/ @]
  /\ UNCHANGED <<blob, shelf, tombstoned, repair, old, ingest, pass, download, faults,
                 retries>>

-------------------------------------------------------------------------------
(* Downloads: GET /artifacts/{id}/content *)

\* The row is read and a tombstone answered at once.
GetRow(a) ==
  /\ download.stage \in {"idle", "answered"}
  /\ a \in Range(shelf)
  /\ download' = IF a \in tombstoned
               THEN [stage |-> "answered", art |-> a, answer |-> "410"]
               ELSE [stage |-> "verify", art |-> a]
  /\ UNCHANGED <<blob, shelf, tombstoned, repair, old, ingest, pass, run, faults,
                 retries>>

\* _verify_storage_openable reads a byte, then the response begins.
VerifyOpenable ==
  /\ download.stage = "verify"
  /\ download' =
       IF download.art \in Foreign
       THEN [stage |-> "answered", art |-> download.art, answer |-> "502"]
       ELSE IF download.art \in blob THEN [stage |-> "stream", art |-> download.art]
       ELSE [stage |-> "answered", art |-> download.art, answer |-> "404"]
  /\ UNCHANGED <<blob, shelf, tombstoned, repair, old, ingest, pass, run, faults,
                 retries>>

\* _byte_stream opens the object anew: a 200 may still break off.
Stream ==
  /\ download.stage = "stream"
  /\ download' = [stage |-> "answered", art |-> download.art,
                answer |-> IF download.art \in blob THEN "200" ELSE "broken"]
  /\ UNCHANGED <<blob, shelf, tombstoned, repair, old, ingest, pass, run, faults,
                 retries>>

-------------------------------------------------------------------------------
VaultNext ==
  \/ \E a \in Artifacts : IngestFile(a) \/ IngestFails(a) \/ GetRow(a)
  \/ \E a \in Artifacts, c \in BOOLEAN : InsertFails(a, c)
  \/ IngestCommits \/ IngestRollsBack \/ RowsAge
  \/ PassStarts \/ PrunesBlob \/ PruneFails \/ PassCommits \/ PassAborts
  \/ VerifyOpenable \/ Stream
  \/ \E r \in Runs : RetryRun(r) \/ StartRun(r) \/ FinishRun(r)

\* The deployment runs retention in an endless loop (docker-compose.prod.yml).
VaultFairness ==
  WF_vaultVars(PassStarts) /\ WF_vaultVars(PrunesBlob \/ PruneFails)
    /\ WF_vaultVars(PassCommits)

VaultSpec == VaultInit /\ [][VaultNext]_vaultVars /\ VaultFairness

-------------------------------------------------------------------------------
(* Properties *)

\* The 410 that downloads give for a tombstone is true: no bytes are left
\* behind it, and none that nobody will prune again.
TombstoneMeansGone == tombstoned \cap blob = {}

\* A row that is visible and not yet due has its bytes, whatever failed while
\* its run was ingested: the bytes are never written after the row, and never
\* removed before the cutoff.
RowsHaveBlobs ==
  \A i \in 1..Len(shelf) : i > old => shelf[i] \in blob

\* All bytes that retention removed are tombstoned in the end, though passes crash
\* and some rows can never be pruned, as long as those rows do not fill the
\* batch that every pass takes from the oldest.
PrunedIsTombstoned ==
  LET Unmarked == {a \in Artifacts \ Foreign :
                     a \in Range(shelf) /\ a \notin blob /\ a \notin tombstoned}
  IN  Cardinality(Foreign) < Batch => (Unmarked # {} ~> Unmarked = {})

\* What docs/artifact-delivery.md says of the 404 of a download, "treat as real
\* storage loss, not retention": retention alone never causes one.
NotFoundIsRealLoss == download.stage = "answered" => download.answer # "404"

\* A run that is queued still has the payload it was created with, which its
\* executor is about to read.
QueuedRunKeepsInput == \A r \in Runs : run[r].status = "queued" => run[r].input

\* A run whose payloads retention has emptied, or is about to, is not retried.
RetriesSpareCompacted ==
  \A r \in Runs : RetryRun(r) => ~run[r].compacted /\ r \notin DOMAIN pass.runs

\* No download looks for its bytes while a pass deletes some.
ReadsBetweenPasses == download.stage = "verify" => pass.stage = "idle"
==============================================================================
