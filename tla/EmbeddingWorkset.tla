--------------------------- MODULE EmbeddingWorkset ---------------------------
(***************************************************************************)
(* Which spans an embed job still has to do.  The durable vectors are the  *)
(* only authority; the worker that holds the maintenance lease keeps a     *)
(* frontier of pending spans per revision in TEMP tables                   *)
(* (memory/embedding-workset.ts), takes a few at a time, awaits the        *)
(* encoder and commits.  From time to time it validates every stored       *)
(* vector and queues the revisions with a missing or damaged one again     *)
(* (memory/maintenance.ts).                                                *)
(*                                                                         *)
(* The revisions are of one source and share spans.  The lease and the     *)
(* fence are in MaintenanceQueue.                                          *)
(***************************************************************************)
EXTENDS Naturals, FiniteSets

CONSTANTS
  Retained,    \* revisions of the source
  Members,     \* the spans of each, as ordinals
  Batch,       \* spans taken at a time
  MaxDamage,   \* vectors that get damaged
  MaxSetbacks  \* encoder failures and kills, together

ASSUME WorksetAssumption ==
  /\ Members \in [Retained -> SUBSET Nat]
  /\ Batch \in Nat \ {0} /\ MaxDamage \in Nat /\ MaxSetbacks \in Nat

Span == UNION {Members[r] : r \in Retained}

VARIABLES
  payload,     \* the stored vector of each span
  embedJob,    \* the job of each revision
  scannedRevs, \* the target table: revisions scanned by this worker
  frontier,    \* the pending table
  current,     \* the revision the worker is encoding for
  batch,       \* and the spans
  purged,      \* {TRUE} once the source is forgotten
  lateDamage,  \* spans damaged after the job of a revision was done
  damage, setbacks

tempVars   == <<scannedRevs, frontier>>
batchVars  == <<current, batch>>
embedVars  == <<payload, embedJob, tempVars, batchVars, purged, lateDamage, damage, setbacks>>

WorksetTypeOK ==
  /\ payload \in [Span -> {"none", "good", "bad"}]
  /\ embedJob \in [Retained -> {"absent", "pending", "running", "done", "cancelled"}]
  /\ scannedRevs \in SUBSET Retained
  /\ frontier \in [Retained -> SUBSET Span]
  /\ current \in SUBSET Retained /\ batch \in SUBSET Span
  /\ purged \in SUBSET {TRUE}
  /\ lateDamage \in [Retained -> SUBSET Span]
  /\ damage \in Nat /\ setbacks \in Nat

NothingPending == [r \in Retained |-> {}]

WorksetInit ==
  /\ payload = [s \in Span |-> "none"] /\ embedJob = [r \in Retained |-> "absent"]
  /\ scannedRevs = {} /\ frontier = NothingPending
  /\ current = {} /\ batch = {}
  /\ purged = {} /\ lateDamage = NothingPending
  /\ damage = 0 /\ setbacks = 0

-----------------------------------------------------------------------------
(* A capture publishes a revision with its job; forgetting cancels them.   *)
PublishRetained(r) ==
  /\ embedJob[r] = "absent" /\ purged = {}
  /\ embedJob' = [embedJob EXCEPT ![r] = "pending"]
  /\ UNCHANGED <<payload, tempVars, batchVars, purged, lateDamage, damage, setbacks>>

PurgeSource ==
  /\ purged = {} /\ purged' = {TRUE}
  /\ payload' = [s \in Span |-> "none"]
  /\ embedJob' = [r \in Retained |-> IF embedJob[r] = "absent" THEN "absent" ELSE "cancelled"]
  /\ UNCHANGED <<tempVars, batchVars, lateDamage, damage, setbacks>>

(* A stored vector no longer validates.                                    *)
DamageVector(s) ==
  /\ payload[s] = "good" /\ damage < MaxDamage /\ damage' = damage + 1
  /\ payload' = [payload EXCEPT ![s] = "bad"]
  /\ lateDamage' = [r \in Retained |-> IF embedJob[r] = "done" THEN lateDamage[r] \cup {s}
                                       ELSE lateDamage[r]]
  /\ UNCHANGED <<embedJob, tempVars, batchVars, purged, setbacks>>

-----------------------------------------------------------------------------
Damaged(r) == {s \in Members[r] : payload[s] # "good"}
FirstOf(S) == {s \in S : Cardinality({x \in S : x < s}) < Batch}

(* A variant that trusts an empty frontier.                                *)
ScanOnce(r) == r \notin scannedRevs

(* take(): the frontier of a revision scanned before, unless it is empty;  *)
(* then, as for one not scanned yet, every stored vector is looked at.     *)
MustScan(r) == r \notin scannedRevs \/ frontier[r] = {}
Pending(r)  == IF MustScan(r) THEN Damaged(r) ELSE frontier[r]

(* The job is claimed; nothing to do means that it is done.                *)
TakeBatch(r) ==
  /\ current = {} /\ embedJob[r] = "pending"
  /\ frontier' = [frontier EXCEPT ![r] = Pending(r)]
  /\ scannedRevs' = scannedRevs \cup {r}
  /\ batch' = FirstOf(Pending(r))
  /\ current' = IF Pending(r) = {} THEN {} ELSE {r}
  /\ embedJob' = [embedJob EXCEPT ![r] = IF Pending(r) = {} THEN "done" ELSE "running"]
  /\ lateDamage' = [lateDamage EXCEPT ![r] = {}]
  /\ UNCHANGED <<payload, purged, damage, setbacks>>

BatchEnds ==
  /\ current' = {} /\ batch' = {}
  /\ embedJob' = [r \in Retained |-> IF embedJob[r] = "running" THEN "pending" ELSE embedJob[r]]

(* commitSpanVector() of each, then committed(); of a forgotten source     *)
(* nothing is committed and its job stays cancelled.                       *)
CommitBatch ==
  /\ current # {} /\ BatchEnds
  /\ LET kept == IF purged = {} THEN batch ELSE {}
     IN /\ payload' = [s \in Span |-> IF s \in kept THEN "good" ELSE payload[s]]
        /\ frontier' = [r \in Retained |-> IF r \in current THEN frontier[r] \ kept
                                           ELSE frontier[r]]
  /\ UNCHANGED <<scannedRevs, purged, lateDamage, damage, setbacks>>

EncoderFails ==
  /\ current # {} /\ BatchEnds
  /\ setbacks < MaxSetbacks /\ setbacks' = setbacks + 1
  /\ UNCHANGED <<payload, tempVars, purged, lateDamage, damage>>

(* The next owner starts with empty TEMP tables and requeues the job.      *)
WorkerRestarts ==
  /\ BatchEnds
  /\ setbacks < MaxSetbacks /\ setbacks' = setbacks + 1
  /\ scannedRevs' = {} /\ frontier' = NothingPending
  /\ UNCHANGED <<payload, purged, lateDamage, damage>>

(* A variant that leaves done jobs alone.                                  *)
ResetFrontier ==
  /\ current = {} /\ scannedRevs' = {} /\ frontier' = NothingPending
  /\ UNCHANGED <<payload, embedJob, batchVars, purged, lateDamage, damage, setbacks>>

(* queueHistoricalEmbeddings() and reset(), between two jobs: a done job   *)
(* of a revision with a bad vector is due again.                           *)
ValidateVectors ==
  /\ current = {}
  /\ embedJob' = [r \in Retained |->
       IF embedJob[r] = "done" /\ Damaged(r) # {} THEN "pending" ELSE embedJob[r]]
  /\ scannedRevs' = {} /\ frontier' = NothingPending
  /\ UNCHANGED <<payload, batchVars, purged, lateDamage, damage, setbacks>>

EmbedStep == CommitBatch \/ \E r \in Retained : TakeBatch(r)

WorksetNext ==
  \/ PurgeSource \/ EmbedStep \/ EncoderFails \/ WorkerRestarts \/ ValidateVectors
  \/ \E r \in Retained : PublishRetained(r)
  \/ \E s \in Span : DamageVector(s)

WorksetSpec == WorksetInit /\ [][WorksetNext]_embedVars

-----------------------------------------------------------------------------
(* When a job is done every vector of its revision was good at that very   *)
(* moment, also those that were damaged while the job was on others, and   *)
(* whatever the frontier, which is older, said of them.                    *)
DoneWasValidated ==
  \A r \in Retained : embedJob[r] = "done" => Damaged(r) \subseteq lateDamage[r]

(* Damage that is done after that is found and repaired: what holds in the *)
(* end, for good.                                                          *)
VectorsAreGood ==
  purged # {} \/ \A r \in Retained :
    embedJob[r] # "absent" => (embedJob[r] = "done" /\ Damaged(r) = {})

=============================================================================
