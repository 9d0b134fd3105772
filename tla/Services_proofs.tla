--------------------------- MODULE Services_proofs ---------------------------
(***************************************************************************)
(* The components of MCServices, for every value of their constants: first *)
(* EmbeddingWorkset, IndexCommand and LocalEncoder one by one, then all of *)
(* them side by side.                                                      *)
(***************************************************************************)
EXTENDS MCServices, CardRun_proofs, AuditRun_proofs

-----------------------------------------------------------------------------
(* EmbeddingWorkset.                                                       *)

(* What take() finds pending is spans of that revision; only a revision    *)
(* whose vectors are all good leaves it nothing to do.                     *)
LEMMA PendingSpans ==
  ASSUME WorksetTypeOK, NEW r \in Retained
  PROVE  /\ Pending(r) \in SUBSET Span
         /\ FirstOf(Pending(r)) \in SUBSET Span
         /\ Pending(r) = {} => Damaged(r) = {}
<1>1. Damaged(r) \in SUBSET Span
  BY DEF Damaged, Span
<1>2. Pending(r) \in SUBSET Span
  BY <1>1 DEF Pending, WorksetTypeOK
<1>3. FirstOf(Pending(r)) \in SUBSET Pending(r)
  BY DEF FirstOf
<1>4. Pending(r) = {} => Damaged(r) = {}
  BY DEF Pending, MustScan
<1> QED
  BY <1>2, <1>3, <1>4

WorksetInv == WorksetTypeOK /\ DoneWasValidated

(* The workset starts with no job done.                                    *)
LEMMA WorksetInitInv == WorksetInit => WorksetInv
BY DEF WorksetInit, WorksetInv, WorksetTypeOK, DoneWasValidated, NothingPending

(* Every step keeps the types.                                             *)
LEMMA WorksetTyped == WorksetTypeOK /\ [WorksetNext]_embedVars => WorksetTypeOK'
<1> SUFFICES ASSUME WorksetTypeOK, [WorksetNext]_embedVars PROVE WorksetTypeOK'
  OBVIOUS
<1>1. ASSUME NEW r \in Retained, PublishRetained(r) PROVE WorksetTypeOK'
  BY <1>1 DEF PublishRetained, WorksetTypeOK, tempVars, batchVars
<1>2. CASE PurgeSource
  <2>1. /\ payload' \in [Span -> {"none", "good", "bad"}]
        /\ embedJob' \in [Retained -> {"absent", "pending", "running", "done", "cancelled"}]
    BY <1>2 DEF PurgeSource, WorksetTypeOK
  <2>2. purged' = {TRUE} /\ UNCHANGED <<tempVars, batchVars, lateDamage, damage, setbacks>>
    BY <1>2 DEF PurgeSource
  <2> QED
    BY <2>1, <2>2 DEF WorksetTypeOK, tempVars, batchVars
<1>3. ASSUME NEW s \in Span, DamageVector(s) PROVE WorksetTypeOK'
  <2>1. /\ payload' \in [Span -> {"none", "good", "bad"}]
        /\ lateDamage' \in [Retained -> SUBSET Span] /\ damage' \in Nat
    BY <1>3 DEF DamageVector, WorksetTypeOK
  <2>2. UNCHANGED <<embedJob, tempVars, batchVars, purged, setbacks>>
    BY <1>3 DEF DamageVector
  <2> QED
    BY <2>1, <2>2 DEF WorksetTypeOK, tempVars, batchVars
<1>4. ASSUME NEW r \in Retained, TakeBatch(r) PROVE WorksetTypeOK'
  <2>1. Pending(r) \in SUBSET Span /\ FirstOf(Pending(r)) \in SUBSET Span
    BY PendingSpans
  <2>2. /\ frontier' \in [Retained -> SUBSET Span] /\ scannedRevs' \in SUBSET Retained
        /\ current' \in SUBSET Retained /\ batch' \in SUBSET Span
    BY <1>4, <2>1 DEF TakeBatch, WorksetTypeOK
  <2>3. /\ embedJob' \in [Retained -> {"absent", "pending", "running", "done", "cancelled"}]
        /\ lateDamage' \in [Retained -> SUBSET Span]
    BY <1>4 DEF TakeBatch, WorksetTypeOK
  <2>4. UNCHANGED <<payload, purged, damage, setbacks>>
    BY <1>4 DEF TakeBatch
  <2> QED
    BY <2>2, <2>3, <2>4 DEF WorksetTypeOK
<1>5. ASSUME BatchEnds PROVE /\ current' \in SUBSET Retained /\ batch' \in SUBSET Span
                             /\ embedJob' \in [Retained -> {"absent", "pending", "running",
                                                            "done", "cancelled"}]
  BY <1>5 DEF BatchEnds, WorksetTypeOK
<1>6. CASE CommitBatch
  BY <1>5, <1>6 DEF CommitBatch, WorksetTypeOK
<1>7. CASE EncoderFails
  <2>1. BatchEnds /\ UNCHANGED <<payload, tempVars, purged, lateDamage, damage>>
    BY <1>7 DEF EncoderFails
  <2>2. setbacks' \in Nat
    BY <1>7 DEF EncoderFails, WorksetTypeOK
  <2> QED
    BY <1>5, <2>1, <2>2 DEF WorksetTypeOK, tempVars
<1>8. CASE WorkerRestarts
  <2>1. BatchEnds /\ scannedRevs' = {} /\ frontier' = NothingPending
        /\ UNCHANGED <<payload, purged, lateDamage, damage>>
    BY <1>8 DEF WorkerRestarts
  <2>2. setbacks' \in Nat
    BY <1>8 DEF WorkerRestarts, WorksetTypeOK
  <2> QED
    BY <1>5, <2>1, <2>2 DEF WorksetTypeOK, NothingPending
<1>9. CASE ValidateVectors
  <2>1. /\ scannedRevs' = {} /\ frontier' = NothingPending
        /\ UNCHANGED <<payload, batchVars, purged, lateDamage, damage, setbacks>>
    BY <1>9 DEF ValidateVectors
  <2>2. embedJob' \in [Retained -> {"absent", "pending", "running", "done", "cancelled"}]
    BY <1>9 DEF ValidateVectors, WorksetTypeOK
  <2> QED
    BY <2>1, <2>2 DEF WorksetTypeOK, NothingPending, batchVars
<1>10. CASE UNCHANGED embedVars
  BY <1>10 DEF WorksetTypeOK, embedVars, tempVars, batchVars
<1> QED
  BY <1>1, <1>2, <1>3, <1>4, <1>6, <1>7, <1>8, <1>9, <1>10 DEF WorksetNext, EmbedStep

(* Every step keeps the done jobs validated: a job is done only when all   *)
(* its vectors are good, a commit damages none, and what is damaged later  *)
(* is counted as late.                                                     *)
LEMMA WorksetNextInv == WorksetInv /\ [WorksetNext]_embedVars => WorksetInv'
<1> SUFFICES ASSUME WorksetTypeOK, DoneWasValidated, [WorksetNext]_embedVars
             PROVE  DoneWasValidated'
  BY WorksetTyped DEF WorksetInv
<1> USE DEF DoneWasValidated, Damaged, WorksetTypeOK
<1>1. ASSUME NEW r \in Retained, PublishRetained(r) PROVE DoneWasValidated'
  BY <1>1 DEF PublishRetained
<1>2. CASE PurgeSource
  BY <1>2 DEF PurgeSource
<1>3. ASSUME NEW s \in Span, DamageVector(s) PROVE DoneWasValidated'
  BY <1>3 DEF DamageVector, Span
<1>4. ASSUME NEW r \in Retained, TakeBatch(r) PROVE DoneWasValidated'
  <2>1. Pending(r) = {} => Damaged(r) = {}
    BY PendingSpans
  <2> QED
    BY <1>4, <2>1 DEF TakeBatch
<1>5. CASE CommitBatch
  BY <1>5 DEF CommitBatch, BatchEnds, Span
<1>6. CASE EncoderFails \/ WorkerRestarts
  BY <1>6 DEF EncoderFails, WorkerRestarts, BatchEnds
<1>7. CASE ValidateVectors
  BY <1>7 DEF ValidateVectors
<1>8. CASE UNCHANGED embedVars
  BY <1>8 DEF embedVars
<1> QED
  BY <1>1, <1>2, <1>3, <1>4, <1>5, <1>6, <1>7, <1>8 DEF WorksetNext, EmbedStep

(* A job that is done was validated when it was: memory/embedding-         *)
(* workset.ts never takes an empty frontier for good vectors.              *)
THEOREM DoneJobsWereValidated == WorksetSpec => []DoneWasValidated
<1>1. WorksetInv => DoneWasValidated
  BY DEF WorksetInv
<1> QED
  BY <1>1, WorksetInitInv, WorksetNextInv, PTL DEF WorksetSpec

(* A forgotten source stays so: no job of it is done or due again.         *)
THEOREM PurgedJobsStayCancelled ==
  WorksetSpec => [][\A r \in Retained : embedJob[r] = "cancelled" =>
                                          embedJob'[r] = "cancelled"]_embedVars
<1>1. WorksetInv /\ [WorksetNext]_embedVars =>
        [\A r \in Retained : embedJob[r] = "cancelled" => embedJob'[r] = "cancelled"]_embedVars
  <2> SUFFICES ASSUME WorksetTypeOK, WorksetNext,
                      NEW r \in Retained, embedJob[r] = "cancelled"
               PROVE  embedJob'[r] = "cancelled"
    BY DEF embedVars, WorksetInv
  <2>1. CASE EmbedStep
    BY <2>1 DEF EmbedStep, CommitBatch, BatchEnds, TakeBatch, WorksetTypeOK
  <2>2. CASE PurgeSource \/ EncoderFails \/ WorkerRestarts \/ ValidateVectors
    BY <2>2 DEF PurgeSource, EncoderFails, WorkerRestarts, BatchEnds, ValidateVectors
  <2>3. CASE (\E q \in Retained : PublishRetained(q)) \/ \E s \in Span : DamageVector(s)
    BY <2>3 DEF PublishRetained, DamageVector, WorksetTypeOK
  <2> QED
    BY <2>1, <2>2, <2>3 DEF WorksetNext
<1> QED
  BY <1>1, WorksetInitInv, WorksetNextInv, PTL DEF WorksetSpec

-----------------------------------------------------------------------------
(* IndexCommand.                                                           *)

(* Who indexes or works jobs off is named by the lease row, alone.         *)
AtWork == {"list", "next", "work", "finish", "rest"}
LeaseExcludes ==
  /\ \A w \in Worker : workerPc[w] \in AtWork => leaseRow = {w}
  /\ \A c \in Cmd : cmdPc[c] \in {"index", "leave"} => leaseRow = {c}

(* The job of a worker is running; what it has committed is in the table.  *)
JobsAreHeld ==
  \A w \in Worker :
    /\ doing[w] # {} => workerPc[w] \in {"work", "finish"}
    /\ \A c \in doing[w] : row[c] = "running"
    /\ \A c \in stored[w] : row[c] # "absent"

(* Who says that a request was indexed has published it before.            *)
SayingIsPublished ==
  /\ \A w \in Worker : workerPc[w] = "finish" => doing[w] \subseteq published
  /\ \A c \in Cmd : cmdPc[c] \in {"leave", "indexed", "reported"} => c \in published
  /\ \A c \in Cmd : row[c] = "done" => c \in published

(* A child is started after its command wrote what it will ever write; a   *)
(* listing that a child has gone through held that request.                *)
BornAfterSpooling ==
  \A c \in Cmd : workerPc[ChildOf[c]] # "unborn" => cmdPc[c] \in CmdEnds \cup {"poll", "indexed"}
ListingHeldRequest ==
  \A c \in asked \cap spool :
    /\ workerPc[ChildOf[c]] \in {"next", "work", "finish"} => c \in todo[ChildOf[c]] \cup skipped
    /\ workerPc[ChildOf[c]] = "off" => c \in skipped
AskedIsKept == \A c \in asked : c \in spool \/ row[c] # "absent"

IndexInv ==
  /\ IndexTypeOK /\ LeaseExcludes /\ JobsAreHeld /\ SayingIsPublished
  /\ BornAfterSpooling /\ ListingHeldRequest /\ AskedIsKept

(* Every process is one of three kinds.                                    *)
LEMMA Kinds ==
  /\ \A c \in Cmd : ChildOf[c] \in Child
  /\ Child \cap (Cmd \cup Server) = {} /\ Cmd \cap Server = {}
  /\ \A w \in Worker : w \notin Cmd
  /\ \A w \in Child : w \in Worker
  /\ \A w \in Server : w \in Worker
BY IndexAssumption DEF Child, Worker

(* The places of commands and workers and the states of a row.             *)
CmdPlaces    == CmdEnds \cup {"start", "lane", "claim", "index", "leave",
                              "spool", "spawn", "poll", "indexed"}
WorkerPlaces == WorkerEnds \cup {"unborn", "open", "list", "next", "work", "finish", "rest"}
RowStates    == {"absent", "pending", "running", "retry", "done"}

(* Whoever moves on or takes the lease stays within them.                  *)
LEMMA MovesTyped ==
  ASSUME IndexTypeOK
  PROVE  /\ \A c \in Cmd : \A at \in CmdPlaces : GoesTo(c, at) => cmdPc' \in [Cmd -> CmdPlaces]
         /\ \A w \in Worker : \A at \in WorkerPlaces :
              WorkerTo(w, at) => workerPc' \in [Worker -> WorkerPlaces]
         /\ \A p \in Cmd \cup Worker : TakeLease(p) =>
              leaseRow' \in SUBSET (Cmd \cup Worker) /\ row' \in [Cmd -> RowStates]
         /\ \A p : GiveUpLease(p) => leaseRow' \in SUBSET (Cmd \cup Worker)
<1>1. ASSUME NEW c \in Cmd, NEW at \in CmdPlaces, GoesTo(c, at)
      PROVE  cmdPc' \in [Cmd -> CmdPlaces]
  BY <1>1 DEF GoesTo, IndexTypeOK, CmdPlaces
<1>2. ASSUME NEW w \in Worker, NEW at \in WorkerPlaces, WorkerTo(w, at)
      PROVE  workerPc' \in [Worker -> WorkerPlaces]
  BY <1>2 DEF WorkerTo, IndexTypeOK, WorkerPlaces
<1>3. ASSUME NEW p \in Cmd \cup Worker, TakeLease(p)
      PROVE  leaseRow' \in SUBSET (Cmd \cup Worker) /\ row' \in [Cmd -> RowStates]
  BY <1>3 DEF TakeLease, Requeued, IndexTypeOK, RowStates
<1>4. ASSUME NEW p, GiveUpLease(p) PROVE leaseRow' \in SUBSET (Cmd \cup Worker)
  BY <1>4 DEF GiveUpLease, IndexTypeOK
<1> QED
  BY <1>1, <1>2, <1>3, <1>4

(* Every step keeps the types.                                             *)
LEMMA IndexTyped == IndexTypeOK /\ [IndexNext]_indexVars => IndexTypeOK'
<1> SUFFICES ASSUME IndexTypeOK, [IndexNext]_indexVars PROVE IndexTypeOK'
  OBVIOUS
<1> USE DEF IndexTypeOK, CmdPlaces, WorkerPlaces, RowStates
<1> DEFINE CmdOK == cmdPc' \in [Cmd -> CmdPlaces]
           WorkerOK == workerPc' \in [Worker -> WorkerPlaces]
<1>1. ASSUME NEW c \in Cmd, LookForOwner(c) \/ EnterLane(c) \/ LaneTimesOut(c) \/ PollSees(c) \/ PollEnds(c)
      PROVE  IndexTypeOK'
  <2>1. CmdOK
    BY <1>1, MovesTyped DEF LookForOwner, EnterLane, LaneTimesOut, PollSees, PollEnds, CmdEnds
  <2>2. lane' \in SUBSET Cmd
    BY <1>1 DEF LookForOwner, EnterLane, LaneTimesOut, PollSees, PollEnds
  <2>3. UNCHANGED <<workerPc, leaseRow, queueVars, mishaps>>
    BY <1>1 DEF LookForOwner, EnterLane, LaneTimesOut, PollSees, PollEnds
  <2> QED
    BY <2>1, <2>2, <2>3 DEF queueVars
<1>2. ASSUME NEW c \in Cmd, ClaimHere(c) PROVE IndexTypeOK'
  <2>1. CmdOK
    BY <1>2, MovesTyped DEF ClaimHere
  <2>2. /\ leaseRow' \in SUBSET (Cmd \cup Worker)
        /\ row' \in [Cmd -> RowStates]
        /\ lane' \in SUBSET Cmd
    BY <1>2, MovesTyped DEF ClaimHere
  <2> QED
    BY <1>2, <2>1, <2>2 DEF ClaimHere
<1>3. ASSUME NEW c \in Cmd, PublishHere(c) \/ SpoolRequest(c) PROVE IndexTypeOK'
  <2>1. CmdOK
    BY <1>3, MovesTyped DEF PublishHere, SpoolRequest, CmdEnds
  <2> QED
    BY <1>3, <2>1 DEF PublishHere, SpoolRequest
<1>4. ASSUME NEW c \in Cmd, LeaveHere(c) PROVE IndexTypeOK'
  <2>1. CmdOK
    BY <1>4, MovesTyped DEF LeaveHere, CmdEnds
  <2>2. leaseRow' \in SUBSET (Cmd \cup Worker) /\ mishaps' \in Nat
    BY <1>4, MovesTyped DEF LeaveHere, Mishap
  <2> QED
    BY <1>4, <2>1, <2>2 DEF LeaveHere
<1>5. ASSUME NEW c \in Cmd, SpawnChild(c) PROVE IndexTypeOK'
  <2>1. CmdOK
    BY <1>5, MovesTyped DEF SpawnChild, CmdEnds
  <2>2. WorkerOK
    BY <1>5, MovesTyped, Kinds DEF SpawnChild
  <2> QED
    BY <1>5, <2>1, <2>2 DEF SpawnChild, queueVars
<1>6. ASSUME NEW c \in Cmd, KillCommand(c) PROVE IndexTypeOK'
  <2>1. CmdOK /\ mishaps' \in Nat
    BY <1>6, MovesTyped DEF KillCommand, CmdEnds, Mishap
  <2> QED
    BY <1>6, <2>1 DEF KillCommand, queueVars
<1>7. ASSUME NEW c \in Cmd, RetryFallsDue(c) PROVE IndexTypeOK'
  BY <1>7 DEF RetryFallsDue
<1>8. ASSUME NEW w \in Worker, AcquireLease(w) PROVE IndexTypeOK'
  <2>1. WorkerOK
    BY <1>8, MovesTyped DEF AcquireLease
  <2>2. /\ leaseRow' \in SUBSET (Cmd \cup Worker)
        /\ row' \in [Cmd -> RowStates]
    BY <1>8, MovesTyped DEF AcquireLease
  <2> QED
    BY <1>8, <2>1, <2>2 DEF AcquireLease
<1>9. ASSUME NEW w \in Worker, ChildRefused(w) \/ StartServer(w) \/ ServerTimer(w) PROVE IndexTypeOK'
  <2>1. WorkerOK
    BY <1>9, MovesTyped DEF ChildRefused, StartServer, ServerTimer, WorkerEnds
  <2> QED
    BY <1>9, <2>1 DEF ChildRefused, StartServer, ServerTimer, queueVars
<1>10. ASSUME NEW w \in Worker, ListSpool(w) PROVE IndexTypeOK'
  <2>1. WorkerOK
    BY <1>10, MovesTyped DEF ListSpool
  <2> QED
    BY <1>10, <2>1 DEF ListSpool
<1>11. ASSUME NEW w \in Worker, EnqueueFile(w) PROVE IndexTypeOK'
  <2>1. PICK f \in todo[w] :
          /\ row' = IF row[f] = "absent" THEN [row EXCEPT ![f] = "pending"] ELSE row
          /\ stored' = [stored EXCEPT ![w] = {f}]
    BY <1>11 DEF EnqueueFile
  <2>2. f \in Cmd
    OBVIOUS
  <2> QED
    BY <1>11, <2>1, <2>2 DEF EnqueueFile
<1>12. ASSUME NEW w \in Worker, EnqueueFails(w) PROVE IndexTypeOK'
  BY <1>12 DEF EnqueueFails
<1>13. ASSUME NEW w \in Worker, UnlinkFile(w) PROVE IndexTypeOK'
  BY <1>13 DEF UnlinkFile
<1>14. ASSUME NEW w \in Worker, ClaimDue(w) PROVE IndexTypeOK'
  <2>1. WorkerOK
    BY <1>14, MovesTyped DEF ClaimDue
  <2>2. /\ row' \in [Cmd -> RowStates]
        /\ doing' \in [Worker -> SUBSET Cmd]
    BY <1>14 DEF ClaimDue
  <2>3. UNCHANGED <<cmdPc, lane, leaseRow, spool, todo, stored, published, asked, skipped, mishaps>>
    BY <1>14 DEF ClaimDue
  <2> QED
    BY <2>1, <2>2, <2>3
<1>15. ASSUME NEW w \in Worker, PublishRequest(w) PROVE IndexTypeOK'
  <2>1. WorkerOK
    BY <1>15, MovesTyped DEF PublishRequest
  <2> QED
    BY <1>15, <2>1 DEF PublishRequest
<1>16. ASSUME NEW w \in Worker, FinishRequest(w) PROVE IndexTypeOK'
  <2>1. WorkerOK
    BY <1>16, MovesTyped DEF FinishRequest
  <2>2. row' \in [Cmd -> RowStates]
        /\ doing' \in [Worker -> SUBSET Cmd] /\ mishaps' \in Nat
    BY <1>16 DEF FinishRequest, Mishap
  <2> QED
    BY <1>16, <2>1, <2>2 DEF FinishRequest
<1>17. ASSUME NEW w \in Worker, PassEnds(w) PROVE IndexTypeOK'
  <2>1. WorkerOK
    BY <1>17, MovesTyped DEF PassEnds, AtWork, WorkerEnds
  <2>2. leaseRow' \in SUBSET (Cmd \cup Worker)
    BY <1>17, MovesTyped DEF PassEnds
  <2> QED
    BY <1>17, <2>1, <2>2 DEF PassEnds
<1>18. ASSUME NEW w \in Worker, KillWorker(w) \/ CloseServer(w) PROVE IndexTypeOK'
  <2>1. WorkerOK
    BY <1>18, MovesTyped DEF KillWorker, CloseServer, StopWorker, WorkerEnds
  <2>2. /\ todo' \in [Worker -> SUBSET Cmd] /\ stored' \in [Worker -> SUBSET Cmd]
        /\ doing' \in [Worker -> SUBSET Cmd]
    BY <1>18 DEF KillWorker, CloseServer, StopWorker
  <2>3. /\ leaseRow' \in SUBSET (Cmd \cup Worker) /\ mishaps' \in Nat
        /\ row' \in [Cmd -> RowStates]
    BY <1>18, MovesTyped DEF KillWorker, CloseServer, Mishap
  <2> QED
    BY <1>18, <2>1, <2>2, <2>3 DEF KillWorker, CloseServer, StopWorker
<1>19. CASE UNCHANGED indexVars
  BY <1>19 DEF indexVars, queueVars
<1> QED
  BY <1>1, <1>2, <1>3, <1>4, <1>5, <1>6, <1>7, <1>8, <1>9, <1>10, <1>11, <1>12, <1>13, <1>14,
     <1>15, <1>16, <1>17, <1>18, <1>19, Kinds DEF IndexNext, CommandStep, WorkerStep

(* Whoever takes the lease finds nobody at work.                           *)
LEMMA TakerFindsNobody ==
  ASSUME LeaseExcludes, MayClaim
  PROVE  /\ \A w \in Worker : workerPc[w] \notin AtWork
         /\ \A c \in Cmd : cmdPc[c] \notin {"index", "leave"}
BY Kinds DEF LeaseExcludes, MayClaim, Runs, AtWork, WorkerEnds, CmdEnds

(* Every step keeps the holders of the lease apart.                        *)
LEMMA LeaseStep == IndexTypeOK /\ LeaseExcludes /\ [IndexNext]_indexVars => LeaseExcludes'
<1> SUFFICES ASSUME IndexTypeOK, LeaseExcludes, [IndexNext]_indexVars PROVE LeaseExcludes'
  OBVIOUS
<1> DEFINE Holds(p) == \/ p \in Worker /\ workerPc[p] \in AtWork
                       \/ p \in Cmd /\ cmdPc[p] \in {"index", "leave"}
<1> HIDE DEF Holds
<1>h. \A p : Holds(p) => leaseRow = {p}
  BY DEF Holds, LeaseExcludes
<1>g. ASSUME \A p : Holds(p)' => leaseRow' = {p} PROVE LeaseExcludes'
  BY <1>g DEF Holds, LeaseExcludes
<1>1. ASSUME UNCHANGED leaseRow, \A p : Holds(p)' => Holds(p) PROVE LeaseExcludes'
  BY <1>1, <1>g, <1>h
<1>2. ASSUME NEW p, leaseRow' = leaseRow \ {p}, ~Holds(p)', \A o : Holds(o)' => Holds(o)
      PROVE  LeaseExcludes'
  BY <1>2, <1>g, <1>h
<1>3. ASSUME NEW p, leaseRow' = {p}, MayClaim, \A o : Holds(o)' => Holds(o) \/ o = p
      PROVE  LeaseExcludes'
  <2>1. \A o : ~Holds(o)
    BY <1>3, TakerFindsNobody DEF Holds
  <2> QED
    BY <1>3, <1>g, <2>1
<1>4. ASSUME NEW c \in Cmd,
             LookForOwner(c) \/ EnterLane(c) \/ LaneTimesOut(c) \/ PublishHere(c) \/ SpoolRequest(c)
               \/ PollSees(c) \/ PollEnds(c) \/ KillCommand(c)
      PROVE  LeaseExcludes'
  <2>1. UNCHANGED <<leaseRow, workerPc>>
    BY <1>4 DEF LookForOwner, EnterLane, LaneTimesOut, PublishHere, SpoolRequest, PollSees,
                PollEnds, KillCommand
  <2>2. PICK at : GoesTo(c, at) /\ (at \in {"index", "leave"} => cmdPc[c] \in {"index", "leave"})
    BY <1>4 DEF LookForOwner, EnterLane, LaneTimesOut, PublishHere, SpoolRequest, PollSees,
                PollEnds, KillCommand
  <2>3. \A p : Holds(p)' => Holds(p)
    BY <2>1, <2>2 DEF Holds, GoesTo, IndexTypeOK
  <2> QED
    BY <1>1, <2>1, <2>3
<1>5. ASSUME NEW c \in Cmd, ClaimHere(c) PROVE LeaseExcludes'
  <2>1. CASE MayClaim /\ TakeLease(c) /\ GoesTo(c, "index")
    <3>1. \A o : Holds(o)' => Holds(o) \/ o = c
      BY <1>5, <2>1 DEF ClaimHere, Holds, GoesTo, IndexTypeOK
    <3> QED
      BY <1>3, <2>1, <3>1 DEF TakeLease
  <2>2. CASE GoesTo(c, "spool") /\ UNCHANGED leaseRow
    <3>1. \A o : Holds(o)' => Holds(o)
      BY <1>5, <2>2 DEF ClaimHere, Holds, GoesTo, IndexTypeOK
    <3> QED
      BY <1>1, <2>2, <3>1
  <2> QED
    BY <1>5, <2>1, <2>2 DEF ClaimHere
<1>6. ASSUME NEW c \in Cmd, LeaveHere(c) PROVE LeaseExcludes'
  <2>1. leaseRow' = leaseRow \ {c} /\ UNCHANGED workerPc
    BY <1>6 DEF LeaveHere, GiveUpLease
  <2>2. PICK at \in {"indexed", "failed"} : GoesTo(c, at)
    BY <1>6 DEF LeaveHere
  <2>3. ~Holds(c)' /\ \A o : Holds(o)' => Holds(o)
    BY <2>1, <2>2, Kinds DEF Holds, GoesTo, IndexTypeOK
  <2> QED
    BY <1>2, <2>1, <2>3
<1>7. ASSUME NEW c \in Cmd, SpawnChild(c) PROVE LeaseExcludes'
  <2>1. PICK at \in {"poll", "reported"} : GoesTo(c, at)
    BY <1>7 DEF SpawnChild
  <2>2. UNCHANGED workerPc \/ WorkerTo(ChildOf[c], "open")
    BY <1>7 DEF SpawnChild
  <2>3. \A p : Holds(p)' => Holds(p)
    BY <2>1, <2>2, Kinds DEF Holds, GoesTo, WorkerTo, IndexTypeOK, AtWork
  <2> QED
    BY <1>1, <1>7, <2>3 DEF SpawnChild
<1>8. ASSUME NEW w \in Worker, AcquireLease(w) PROVE LeaseExcludes'
  <2>1. \A o : Holds(o)' => Holds(o) \/ o = w
    BY <1>8 DEF AcquireLease, Holds, WorkerTo, IndexTypeOK
  <2> QED
    BY <1>3, <1>8, <2>1 DEF AcquireLease, TakeLease
<1>9. ASSUME NEW w \in Worker,
             ChildRefused(w) \/ ListSpool(w) \/ ClaimDue(w) \/ PublishRequest(w) \/ FinishRequest(w)
               \/ KillWorker(w) \/ StartServer(w) \/ ServerTimer(w)
      PROVE  LeaseExcludes'
  <2>1. UNCHANGED <<leaseRow, cmdPc>>
    BY <1>9 DEF ChildRefused, ListSpool, ClaimDue, PublishRequest, FinishRequest, KillWorker,
                StopWorker, StartServer, ServerTimer
  <2>2. UNCHANGED workerPc
        \/ \E at : WorkerTo(w, at) /\ (at \in AtWork => workerPc[w] \in AtWork)
    BY <1>9 DEF ChildRefused, ListSpool, ClaimDue, PublishRequest, FinishRequest, KillWorker,
                StopWorker, StartServer, ServerTimer, AtWork
  <2>3. \A p : Holds(p)' => Holds(p)
    BY <2>1, <2>2 DEF Holds, WorkerTo, IndexTypeOK
  <2> QED
    BY <1>1, <2>1, <2>3
<1>10. ASSUME NEW w \in Worker, CloseServer(w) \/ PassEnds(w) PROVE LeaseExcludes'
  <2>1. CASE leaseRow' = leaseRow \ {w} /\ UNCHANGED cmdPc /\ WorkerTo(w, "off")
    <3>1. ~Holds(w)' /\ \A o : Holds(o)' => Holds(o)
      BY <2>1, Kinds DEF Holds, WorkerTo, IndexTypeOK, AtWork
    <3> QED
      BY <1>2, <2>1, <3>1
  <2>2. CASE UNCHANGED <<leaseRow, cmdPc>> /\ WorkerTo(w, "rest") /\ workerPc[w] = "next"
    <3>1. \A o : Holds(o)' => Holds(o)
      BY <2>2 DEF Holds, WorkerTo, IndexTypeOK, AtWork
    <3> QED
      BY <1>1, <2>2, <3>1
  <2> QED
    BY <1>10, <2>1, <2>2 DEF CloseServer, PassEnds, GiveUpLease, StopWorker
<1>11. ASSUME UNCHANGED <<leaseRow, cmdPc, workerPc>> PROVE LeaseExcludes'
  BY <1>11 DEF LeaseExcludes
<1>12. ASSUME NEW w \in Worker, EnqueueFile(w) \/ EnqueueFails(w) \/ UnlinkFile(w)
       PROVE  LeaseExcludes'
  BY <1>11, <1>12 DEF EnqueueFile, EnqueueFails, UnlinkFile
<1>13. CASE (\E c \in Cmd : RetryFallsDue(c)) \/ UNCHANGED indexVars
  BY <1>11, <1>13 DEF RetryFallsDue, indexVars
<1> QED
  BY <1>4, <1>5, <1>6, <1>7, <1>8, <1>9, <1>10, <1>12, <1>13, Kinds
  DEF IndexNext, CommandStep, WorkerStep

(* Two workers are never on jobs at the same time.                         *)
LEMMA OneWorksJobs ==
  ASSUME LeaseExcludes, JobsAreHeld
  PROVE  \A v, w \in Worker : doing[v] # {} /\ doing[w] # {} => v = w
<1> SUFFICES ASSUME NEW v \in Worker, NEW w \in Worker, doing[v] # {}, doing[w] # {} PROVE v = w
  OBVIOUS
<1>1. workerPc[v] \in AtWork /\ workerPc[w] \in AtWork
  BY DEF JobsAreHeld, AtWork
<1>2. leaseRow = {v} /\ leaseRow = {w}
  BY <1>1 DEF LeaseExcludes
<1> QED
  BY <1>2

(* Every step keeps the jobs with the workers that are on them, and leaves *)
(* a done job done.                                                        *)
LEMMA JobStep ==
  IndexTypeOK /\ LeaseExcludes /\ JobsAreHeld /\ [IndexNext]_indexVars
    => JobsAreHeld' /\ (\A c \in Cmd : row[c] = "done" => row'[c] = "done")
                    /\ (\A c \in Cmd : row[c] # "absent" => row'[c] # "absent")
<1> SUFFICES ASSUME IndexTypeOK, LeaseExcludes, JobsAreHeld, [IndexNext]_indexVars
             PROVE  /\ JobsAreHeld'
                    /\ \A c \in Cmd : row[c] = "done" => row'[c] = "done"
                    /\ \A c \in Cmd : row[c] # "absent" => row'[c] # "absent"
  OBVIOUS
<1> DEFINE Settled1 == \A c \in Cmd : row[c] = "done" => row'[c] = "done"
           Known    == \A c \in Cmd : row[c] # "absent" => row'[c] # "absent"
           Good     == JobsAreHeld' /\ Settled1 /\ Known
<1>t. /\ row \in [Cmd -> {"absent", "pending", "running", "retry", "done"}]
      /\ doing \in [Worker -> SUBSET Cmd] /\ stored \in [Worker -> SUBSET Cmd]
      /\ todo \in [Worker -> SUBSET Cmd]
      /\ DOMAIN workerPc = Worker
  BY DEF IndexTypeOK
<1>1. ASSUME UNCHANGED <<row, doing, stored>>,
             \A w \in Worker : doing[w] # {} => workerPc'[w] \in {"work", "finish"}
      PROVE  Good
  BY <1>1 DEF JobsAreHeld
<1>2. ASSUME MayClaim, row' = Requeued, UNCHANGED <<doing, stored>> PROVE Good
  <2>1. \A w \in Worker : doing[w] = {}
    BY <1>2, TakerFindsNobody DEF JobsAreHeld, AtWork
  <2>2. \A c \in Cmd : row'[c] = IF row[c] = "running" THEN "pending" ELSE row[c]
    BY <1>2 DEF Requeued
  <2> QED
    BY <1>2, <1>t, <2>1, <2>2 DEF JobsAreHeld
<1>3. ASSUME NEW w \in Worker, NEW s \in {"done", "retry"},
             \A c \in Cmd : row'[c] = IF c \in doing[w] THEN s ELSE row[c],
             doing' = [doing EXCEPT ![w] = {}],
             stored' \in {stored, [stored EXCEPT ![w] = {}]},
             \A v \in Worker \ {w} : workerPc'[v] = workerPc[v]
      PROVE  Good
  <2>1. \A v \in Worker \ {w} : \A c \in doing[v] : c \notin doing[w]
    BY OneWorksJobs
  <2>2. \A v \in Worker : doing'[v] = IF v = w THEN {} ELSE doing[v]
    BY <1>3, <1>t
  <2>3. \A v \in Worker : stored'[v] \subseteq stored[v]
    BY <1>3, <1>t
  <2>4. Settled1
    BY <1>3, <1>t DEF JobsAreHeld
  <2>5. Known
    BY <1>3
  <2>6. JobsAreHeld'
    <3> SUFFICES ASSUME NEW v \in Worker
                 PROVE  /\ doing'[v] # {} => workerPc'[v] \in {"work", "finish"}
                        /\ \A c \in doing'[v] : row'[c] = "running"
                        /\ \A c \in stored'[v] : row'[c] # "absent"
      BY DEF JobsAreHeld
    <3>1. doing'[v] # {} => workerPc'[v] \in {"work", "finish"}
      BY <1>3, <2>2 DEF JobsAreHeld
    <3>2. \A c \in doing'[v] : row'[c] = "running"
      BY <1>3, <1>t, <2>1, <2>2 DEF JobsAreHeld
    <3>3. \A c \in stored'[v] : row'[c] # "absent"
      BY <1>t, <2>3, <2>5 DEF JobsAreHeld
    <3> QED
      BY <3>1, <3>2, <3>3
  <2> QED
    BY <2>4, <2>5, <2>6
<1>4. ASSUME NEW c \in Cmd,
             LookForOwner(c) \/ EnterLane(c) \/ LaneTimesOut(c) \/ PublishHere(c) \/ SpoolRequest(c)
               \/ PollSees(c) \/ PollEnds(c) \/ KillCommand(c) \/ LeaveHere(c)
      PROVE  Good
  <2>1. UNCHANGED <<row, doing, stored, workerPc>>
    BY <1>4 DEF LookForOwner, EnterLane, LaneTimesOut, PublishHere, SpoolRequest, PollSees,
                PollEnds, KillCommand, LeaveHere, queueVars
  <2> QED
    BY <1>1, <2>1 DEF JobsAreHeld
<1>5. ASSUME NEW c \in Cmd, ClaimHere(c) PROVE Good
  <2>1. CASE MayClaim /\ TakeLease(c)
    BY <1>2, <1>5, <2>1 DEF ClaimHere, TakeLease
  <2>2. CASE UNCHANGED row
    BY <1>1, <1>5, <2>2 DEF ClaimHere, JobsAreHeld
  <2> QED
    BY <1>5, <2>1, <2>2 DEF ClaimHere
<1>6. ASSUME NEW c \in Cmd, SpawnChild(c) PROVE Good
  <2>1. UNCHANGED <<row, doing, stored>>
    BY <1>6 DEF SpawnChild, queueVars
  <2>2. \/ UNCHANGED workerPc
        \/ workerPc[ChildOf[c]] = "unborn" /\ WorkerTo(ChildOf[c], "open")
    BY <1>6 DEF SpawnChild
  <2>3. \A w \in Worker : doing[w] # {} => workerPc'[w] \in {"work", "finish"}
    BY <1>t, <2>2 DEF JobsAreHeld, WorkerTo
  <2> QED
    BY <1>1, <2>1, <2>3
<1>7. ASSUME NEW c \in Cmd, RetryFallsDue(c) PROVE Good
  <2>1. \A d \in Cmd : row'[d] = IF d = c THEN "pending" ELSE row[d]
    BY <1>7, <1>t DEF RetryFallsDue
  <2>2. row[c] = "retry" /\ UNCHANGED <<doing, stored, workerPc>>
    BY <1>7 DEF RetryFallsDue
  <2> QED
    BY <1>t, <2>1, <2>2 DEF JobsAreHeld
<1>8. ASSUME NEW w \in Worker, AcquireLease(w) PROVE Good
  BY <1>2, <1>8 DEF AcquireLease, TakeLease
<1>9. ASSUME NEW w \in Worker,
             ChildRefused(w) \/ StartServer(w) \/ ServerTimer(w) \/ ListSpool(w) \/ PassEnds(w)
               \/ PublishRequest(w)
      PROVE  Good
  <2>1. UNCHANGED <<row, doing, stored>>
    BY <1>9 DEF ChildRefused, StartServer, ServerTimer, ListSpool, PassEnds, PublishRequest, queueVars
  <2>2. UNCHANGED workerPc
        \/ \E at : /\ workerPc' = [workerPc EXCEPT ![w] = at]
                   /\ at = "finish" \/ workerPc[w] \notin {"work", "finish"}
    BY <1>9 DEF ChildRefused, StartServer, ServerTimer, ListSpool, PassEnds, PublishRequest, WorkerTo
  <2>3. \A v \in Worker : doing[v] # {} => workerPc'[v] \in {"work", "finish"}
    BY <1>t, <2>2 DEF JobsAreHeld
  <2> QED
    BY <1>1, <2>1, <2>3
<1>10. ASSUME NEW w \in Worker, EnqueueFile(w) PROVE Good
  <2>1. PICK f \in todo[w] :
          /\ row' = IF row[f] = "absent" THEN [row EXCEPT ![f] = "pending"] ELSE row
          /\ stored' = [stored EXCEPT ![w] = {f}]
    BY <1>10 DEF EnqueueFile
  <2>2. f \in Cmd /\ \A c \in Cmd : row'[c] = IF c = f /\ row[c] = "absent" THEN "pending" ELSE row[c]
    BY <1>t, <2>1
  <2>3. \A v \in Worker : stored'[v] = IF v = w THEN {f} ELSE stored[v]
    BY <1>t, <2>1
  <2>4. UNCHANGED <<workerPc, doing>>
    BY <1>10 DEF EnqueueFile
  <2> QED
    BY <1>t, <2>2, <2>3, <2>4 DEF JobsAreHeld
<1>11. ASSUME NEW w \in Worker, EnqueueFails(w) PROVE Good
  BY <1>1, <1>11 DEF EnqueueFails, JobsAreHeld
<1>12. ASSUME NEW w \in Worker, UnlinkFile(w) PROVE Good
  <2>1. \A v \in Worker : stored'[v] \subseteq stored[v]
    <3>1. stored' = [stored EXCEPT ![w] = {}]
      BY <1>12 DEF UnlinkFile
    <3> QED
      BY <3>1, <1>t
  <2>2. UNCHANGED <<workerPc, doing, row>>
    BY <1>12 DEF UnlinkFile
  <2> QED
    BY <2>1, <2>2 DEF JobsAreHeld
<1>13. ASSUME NEW w \in Worker, ClaimDue(w) PROVE Good
  <2>1. PICK c \in Cmd : /\ row[c] = "pending" /\ row' = [row EXCEPT ![c] = "running"]
                         /\ doing' = [doing EXCEPT ![w] = {c}]
    BY <1>13 DEF ClaimDue
  <2>2. /\ \A d \in Cmd : row'[d] = IF d = c THEN "running" ELSE row[d]
        /\ \A v \in Worker : doing'[v] = IF v = w THEN {c} ELSE doing[v]
    BY <1>t, <2>1
  <2>3. \A v \in Worker : workerPc'[v] = IF v = w THEN "work" ELSE workerPc[v]
    BY <1>13, <1>t DEF ClaimDue, WorkerTo
  <2>4. stored' = stored
    BY <1>13 DEF ClaimDue
  <2> QED
    BY <1>t, <2>1, <2>2, <2>3, <2>4 DEF JobsAreHeld
<1>14. ASSUME NEW w \in Worker, FinishRequest(w) PROVE Good
  <2>1. PICK s \in {"done", "retry"} : \A c \in Cmd : row'[c] = IF c \in doing[w] THEN s ELSE row[c]
    BY <1>14 DEF FinishRequest
  <2>2. doing' = [doing EXCEPT ![w] = {}] /\ stored' = stored
        /\ \A v \in Worker \ {w} : workerPc'[v] = workerPc[v]
    BY <1>14, <1>t DEF FinishRequest, WorkerTo
  <2> QED
    BY <1>3, <2>1, <2>2
<1>15. ASSUME NEW w \in Worker, CloseServer(w) PROVE Good
  <2>1. \A c \in Cmd : row'[c] = IF c \in doing[w] THEN "retry" ELSE row[c]
    BY <1>15 DEF CloseServer
  <2>2. doing' = [doing EXCEPT ![w] = {}] /\ stored' = [stored EXCEPT ![w] = {}]
        /\ \A v \in Worker \ {w} : workerPc'[v] = workerPc[v]
    BY <1>15, <1>t DEF CloseServer, StopWorker, WorkerTo
  <2> QED
    BY <1>3, <2>1, <2>2
<1>16. ASSUME NEW w \in Worker, KillWorker(w) PROVE Good
  <2>1. UNCHANGED row
        /\ doing' = [doing EXCEPT ![w] = {}] /\ stored' = [stored EXCEPT ![w] = {}]
        /\ \A v \in Worker \ {w} : workerPc'[v] = workerPc[v]
    BY <1>16, <1>t DEF KillWorker, StopWorker, WorkerTo
  <2> QED
    BY <1>t, <2>1 DEF JobsAreHeld
<1>17. CASE UNCHANGED indexVars
  BY <1>1, <1>17 DEF indexVars, queueVars, JobsAreHeld
<1>18. ASSUME NEW c \in Cmd, CommandStep(c) \/ RetryFallsDue(c) \/ KillCommand(c) PROVE Good
  BY <1>4, <1>5, <1>6, <1>7, <1>18 DEF CommandStep
<1>19. ASSUME NEW w \in Worker, WorkerStep(w) \/ KillWorker(w) PROVE Good
  BY <1>8, <1>9, <1>10, <1>11, <1>12, <1>13, <1>14, <1>16, <1>19 DEF WorkerStep
<1>20. ASSUME NEW w \in Server, StartServer(w) \/ ServerTimer(w) \/ CloseServer(w) PROVE Good
  BY <1>9, <1>15, <1>20, Kinds
<1> QED
  BY <1>17, <1>18, <1>19, <1>20 DEF IndexNext

(* Every step keeps: nothing is said to be indexed that was not published. *)
LEMMA PublishedStep ==
  IndexTypeOK /\ SayingIsPublished /\ [IndexNext]_indexVars => SayingIsPublished'
<1> SUFFICES ASSUME IndexTypeOK, SayingIsPublished, [IndexNext]_indexVars PROVE SayingIsPublished'
  OBVIOUS
<1> DEFINE Saying == {"leave", "indexed", "reported"}
<1>t. /\ row \in [Cmd -> {"absent", "pending", "running", "retry", "done"}]
      /\ doing \in [Worker -> SUBSET Cmd]
      /\ DOMAIN workerPc = Worker /\ DOMAIN cmdPc = Cmd
  BY DEF IndexTypeOK
<1>1. ASSUME published \subseteq published',
             \A c \in Cmd : cmdPc'[c] \in Saying => cmdPc[c] \in Saying \/ c \in published',
             \A c \in Cmd : row'[c] = "done" => row[c] = "done" \/ c \in published',
             \A w \in Worker : workerPc'[w] = "finish" =>
               \/ workerPc[w] = "finish" /\ doing'[w] = doing[w]
               \/ doing'[w] \subseteq published'
      PROVE  SayingIsPublished'
  BY <1>1 DEF SayingIsPublished
<1> HIDE DEF Saying
<1>2. ASSUME UNCHANGED <<workerPc, doing, published>>,
             \A c \in Cmd : cmdPc'[c] \in Saying => cmdPc[c] \in Saying \/ c \in published,
             \A c \in Cmd : row'[c] = "done" => row[c] = "done"
      PROVE  SayingIsPublished'
  BY <1>1, <1>2
<1>3. \A p : TakeLease(p) => \A c \in Cmd : row'[c] = "done" => row[c] = "done"
  BY DEF TakeLease, Requeued
<1>4. ASSUME NEW c \in Cmd,
             LookForOwner(c) \/ EnterLane(c) \/ LaneTimesOut(c) \/ ClaimHere(c) \/ SpoolRequest(c)
               \/ PollEnds(c) \/ KillCommand(c)
      PROVE  SayingIsPublished'
  <2>1. PICK at : GoesTo(c, at) /\ at \notin Saying
    BY <1>4 DEF LookForOwner, EnterLane, LaneTimesOut, ClaimHere, SpoolRequest, PollEnds,
                KillCommand, Saying
  <2>2. UNCHANGED <<workerPc, doing, published>>
    BY <1>4 DEF LookForOwner, EnterLane, LaneTimesOut, ClaimHere, SpoolRequest, PollEnds,
                KillCommand, queueVars
  <2>3. UNCHANGED row \/ TakeLease(c)
    BY <1>4 DEF LookForOwner, EnterLane, LaneTimesOut, ClaimHere, SpoolRequest, PollEnds,
                KillCommand, queueVars
  <2> QED
    BY <1>t, <1>2, <1>3, <2>1, <2>2, <2>3 DEF GoesTo
<1>5. ASSUME NEW c \in Cmd, PublishHere(c) PROVE SayingIsPublished'
  <2>1. UNCHANGED <<workerPc, doing, row>> /\ published' = published \cup {c} /\ GoesTo(c, "leave")
    BY <1>5 DEF PublishHere
  <2>2. \A d \in Cmd : cmdPc'[d] \in Saying => cmdPc[d] \in Saying \/ d \in published'
    BY <1>t, <2>1 DEF GoesTo
  <2>3. \A w \in Worker : workerPc'[w] = "finish" => workerPc[w] = "finish" /\ doing'[w] = doing[w]
    BY <2>1
  <2> QED
    BY <1>1, <2>1, <2>2, <2>3
<1>6. ASSUME NEW c \in Cmd, LeaveHere(c) \/ SpawnChild(c) \/ PollSees(c) PROVE SayingIsPublished'
  <2>1. UNCHANGED <<doing, row, published>>
    BY <1>6 DEF LeaveHere, SpawnChild, PollSees, queueVars
  <2>2. PICK at : GoesTo(c, at) /\ (at \in Saying => cmdPc[c] \in Saying \/ c \in published)
    BY <1>6 DEF LeaveHere, SpawnChild, PollSees, Saying
  <2>3. UNCHANGED workerPc \/ WorkerTo(ChildOf[c], "open")
    BY <1>6 DEF LeaveHere, SpawnChild, PollSees
  <2>4. \A d \in Cmd : cmdPc'[d] \in Saying => cmdPc[d] \in Saying \/ d \in published'
    BY <1>t, <2>1, <2>2 DEF GoesTo
  <2>5. \A w \in Worker : workerPc'[w] = "finish" => workerPc[w] = "finish" /\ doing'[w] = doing[w]
    BY <1>t, <2>1, <2>3 DEF WorkerTo
  <2> QED
    BY <1>1, <2>1, <2>4, <2>5
<1>7. ASSUME NEW w \in Worker,
             AcquireLease(w) \/ ChildRefused(w) \/ ListSpool(w) \/ ClaimDue(w) \/ PassEnds(w)
               \/ StartServer(w) \/ ServerTimer(w)
      PROVE  SayingIsPublished'
  <2>1. UNCHANGED <<cmdPc, published>>
    BY <1>7 DEF AcquireLease, ChildRefused, ListSpool, ClaimDue, PassEnds, StartServer, ServerTimer,
                queueVars
  <2>2. \A c \in Cmd : row'[c] = "done" => row[c] = "done"
    <3>1. CASE AcquireLease(w)
      BY <1>3, <3>1 DEF AcquireLease
    <3>2. CASE ClaimDue(w)
      BY <1>t, <3>2 DEF ClaimDue
    <3>3. CASE ChildRefused(w) \/ ListSpool(w) \/ PassEnds(w) \/ StartServer(w) \/ ServerTimer(w)
      BY <3>3 DEF ChildRefused, ListSpool, PassEnds, StartServer, ServerTimer, queueVars
    <3> QED
      BY <1>7, <3>1, <3>2, <3>3
  <2>3. PICK at : at # "finish" /\ (WorkerTo(w, at) \/ UNCHANGED <<workerPc, doing>>)
    BY <1>7 DEF AcquireLease, ChildRefused, ListSpool, ClaimDue, PassEnds, StartServer, ServerTimer,
                queueVars
  <2>4. \A v \in Worker \ {w} : doing'[v] = doing[v]
    BY <1>7, <1>t DEF AcquireLease, ChildRefused, ListSpool, ClaimDue, PassEnds, StartServer,
                      ServerTimer, queueVars
  <2>5. \A v \in Worker : workerPc'[v] = "finish" => workerPc[v] = "finish" /\ doing'[v] = doing[v]
    BY <1>t, <2>3, <2>4 DEF WorkerTo
  <2> QED
    BY <1>1, <2>1, <2>2, <2>5
<1>8. ASSUME NEW w \in Worker, EnqueueFile(w) \/ EnqueueFails(w) \/ UnlinkFile(w)
      PROVE  SayingIsPublished'
  <2>1. UNCHANGED <<workerPc, doing, published, cmdPc>>
    BY <1>8 DEF EnqueueFile, EnqueueFails, UnlinkFile
  <2>2. \A c \in Cmd : row'[c] = "done" => row[c] = "done"
    BY <1>8, <1>t DEF EnqueueFile, EnqueueFails, UnlinkFile
  <2> QED
    BY <1>2, <2>1, <2>2
<1>9. ASSUME NEW w \in Worker, PublishRequest(w) PROVE SayingIsPublished'
  <2>1. UNCHANGED <<cmdPc, row, doing>> /\ published' = published \cup doing[w]
        /\ WorkerTo(w, "finish")
    BY <1>9 DEF PublishRequest
  <2>2. \A v \in Worker : workerPc'[v] = "finish" =>
               \/ workerPc[v] = "finish" /\ doing'[v] = doing[v]
               \/ doing'[v] \subseteq published'
    BY <1>t, <2>1 DEF WorkerTo
  <2> QED
    BY <1>1, <2>1, <2>2
<1>10. ASSUME NEW w \in Worker, FinishRequest(w) PROVE SayingIsPublished'
  <2>1. UNCHANGED <<cmdPc, published>> /\ WorkerTo(w, "next")
        /\ doing' = [doing EXCEPT ![w] = {}]
    BY <1>10 DEF FinishRequest
  <2>2. \A c \in Cmd : row'[c] = "done" =>
          row[c] = "done" \/ (workerPc[w] = "finish" /\ c \in doing[w])
    BY <1>10 DEF FinishRequest
  <2>3. \A c \in Cmd : row'[c] = "done" => row[c] = "done" \/ c \in published'
    BY <2>1, <2>2 DEF SayingIsPublished
  <2>4. \A v \in Worker : workerPc'[v] = "finish" => workerPc[v] = "finish" /\ doing'[v] = doing[v]
    BY <1>t, <2>1 DEF WorkerTo
  <2> QED
    BY <1>1, <2>1, <2>3, <2>4
<1>11. ASSUME NEW w \in Worker, CloseServer(w) \/ KillWorker(w) PROVE SayingIsPublished'
  <2>1. PICK at \in {"off", "dead"} : StopWorker(w, at)
    BY <1>11 DEF CloseServer, KillWorker
  <2>2. \A c \in Cmd : row'[c] = "done" => row[c] = "done"
    BY <1>11 DEF CloseServer, KillWorker
  <2>3. \A v \in Worker : workerPc'[v] = "finish" => workerPc[v] = "finish" /\ doing'[v] = doing[v]
    BY <1>t, <2>1 DEF StopWorker, WorkerTo
  <2> QED
    BY <1>1, <2>1, <2>2, <2>3 DEF StopWorker
<1>12. ASSUME NEW c \in Cmd, RetryFallsDue(c) PROVE SayingIsPublished'
  <2>1. UNCHANGED <<workerPc, doing, published, cmdPc>>
    BY <1>12 DEF RetryFallsDue
  <2>2. \A d \in Cmd : row'[d] = "done" => row[d] = "done"
    BY <1>12, <1>t DEF RetryFallsDue
  <2> QED
    BY <1>2, <2>1, <2>2
<1>13. CASE UNCHANGED indexVars
  BY <1>13 DEF indexVars, queueVars, SayingIsPublished
<1>14. ASSUME NEW c \in Cmd, CommandStep(c) \/ RetryFallsDue(c) \/ KillCommand(c)
       PROVE  SayingIsPublished'
  BY <1>4, <1>5, <1>6, <1>12, <1>14 DEF CommandStep
<1>15. ASSUME NEW w \in Worker, WorkerStep(w) \/ KillWorker(w) PROVE SayingIsPublished'
  BY <1>7, <1>8, <1>9, <1>10, <1>11, <1>15 DEF WorkerStep
<1>16. ASSUME NEW w \in Server, StartServer(w) \/ ServerTimer(w) \/ CloseServer(w)
       PROVE  SayingIsPublished'
  BY <1>7, <1>11, <1>16, Kinds
<1> QED
  BY <1>13, <1>14, <1>15, <1>16 DEF IndexNext

(* Every step keeps a child younger than the request of its command.       *)
LEMMA BornStep ==
  IndexTypeOK /\ BornAfterSpooling /\ [IndexNext]_indexVars => BornAfterSpooling'
<1> SUFFICES ASSUME IndexTypeOK, BornAfterSpooling, [IndexNext]_indexVars PROVE BornAfterSpooling'
  OBVIOUS
<1> DEFINE Past == CmdEnds \cup {"poll", "indexed"}
<1>t. DOMAIN workerPc = Worker /\ DOMAIN cmdPc = Cmd
  BY DEF IndexTypeOK
<1>1. ASSUME \A c \in Cmd : cmdPc[c] \in Past => cmdPc'[c] \in Past,
             \A c \in Cmd : workerPc'[ChildOf[c]] # "unborn" =>
                              workerPc[ChildOf[c]] # "unborn" \/ cmdPc'[c] \in Past
      PROVE  BornAfterSpooling'
  BY <1>1 DEF BornAfterSpooling
<1> HIDE DEF Past
<1>2. ASSUME NEW c \in Cmd, CommandStep(c) \/ KillCommand(c) PROVE BornAfterSpooling'
  <2>1. PICK at : GoesTo(c, at) /\ (cmdPc[c] \in Past => at \in Past)
    BY <1>2 DEF CommandStep, LookForOwner, EnterLane, LaneTimesOut, ClaimHere, PublishHere, LeaveHere,
                SpoolRequest, SpawnChild, PollSees, PollEnds, KillCommand, Past, CmdEnds
  <2>2. \A d \in Cmd : cmdPc[d] \in Past => cmdPc'[d] \in Past
    BY <1>t, <2>1 DEF GoesTo
  <2>3. CASE SpawnChild(c)
    <3>1. cmdPc'[c] \in Past
      BY <1>t, <2>3 DEF SpawnChild, GoesTo, Past, CmdEnds
    <3>2. UNCHANGED workerPc \/ WorkerTo(ChildOf[c], "open")
      BY <2>3 DEF SpawnChild
    <3>3. \A d \in Cmd \ {c} : workerPc'[ChildOf[d]] = workerPc[ChildOf[d]]
      BY <1>t, <3>2, Kinds, IndexAssumption DEF WorkerTo
    <3> QED
      BY <1>1, <2>2, <3>1, <3>3
  <2>4. CASE ~SpawnChild(c)
    <3>1. UNCHANGED workerPc
      BY <1>2, <2>4 DEF CommandStep, LookForOwner, EnterLane, LaneTimesOut, ClaimHere, PublishHere,
                        LeaveHere, SpoolRequest, PollSees, PollEnds, KillCommand
    <3> QED
      BY <1>1, <2>2, <3>1
  <2> QED
    BY <2>3, <2>4
<1>3. ASSUME NEW w \in Worker, UNCHANGED cmdPc, NEW at, WorkerTo(w, at),
             workerPc[w] # "unborn" \/ w \in Server
      PROVE  BornAfterSpooling'
  <2>1. \A c \in Cmd : workerPc'[ChildOf[c]] # "unborn" => workerPc[ChildOf[c]] # "unborn"
    BY <1>3, <1>t, Kinds DEF WorkerTo
  <2> QED
    BY <1>1, <1>3, <2>1
<1>4. ASSUME UNCHANGED <<cmdPc, workerPc>> PROVE BornAfterSpooling'
  BY <1>4 DEF BornAfterSpooling
<1>5. ASSUME NEW w \in Worker,
             AcquireLease(w) \/ ChildRefused(w) \/ ListSpool(w) \/ ClaimDue(w) \/ PublishRequest(w)
               \/ FinishRequest(w) \/ PassEnds(w) \/ KillWorker(w)
      PROVE  BornAfterSpooling'
  <2>1. UNCHANGED cmdPc /\ workerPc[w] # "unborn" /\ (UNCHANGED workerPc \/ \E at : WorkerTo(w, at))
    BY <1>5, Kinds DEF AcquireLease, ChildRefused, ListSpool, ClaimDue, PublishRequest, FinishRequest,
                PassEnds, KillWorker, StopWorker, Runs
  <2> QED
    BY <1>3, <1>4, <2>1
<1>6. ASSUME NEW w \in Worker, EnqueueFile(w) \/ EnqueueFails(w) \/ UnlinkFile(w)
      PROVE  BornAfterSpooling'
  BY <1>4, <1>6 DEF EnqueueFile, EnqueueFails, UnlinkFile
<1>7. ASSUME NEW w \in Server, StartServer(w) \/ ServerTimer(w) \/ CloseServer(w)
      PROVE  BornAfterSpooling'
  <2>1. UNCHANGED cmdPc /\ \E at : WorkerTo(w, at)
    BY <1>7 DEF StartServer, ServerTimer, CloseServer, StopWorker
  <2> QED
    BY <1>3, <2>1, Kinds
<1>8. CASE (\E c \in Cmd : RetryFallsDue(c)) \/ UNCHANGED indexVars
  BY <1>4, <1>8 DEF RetryFallsDue, indexVars
<1> QED
  BY <1>2, <1>5, <1>6, <1>7, <1>8 DEF IndexNext, WorkerStep

(* Every step keeps: what a child has listed and left in the spool, it was *)
(* kept from inserting.                                                    *)
LEMMA ListingStep ==
  IndexTypeOK /\ BornAfterSpooling /\ ListingHeldRequest /\ [IndexNext]_indexVars
    => ListingHeldRequest'
<1> SUFFICES ASSUME IndexTypeOK, BornAfterSpooling, ListingHeldRequest, [IndexNext]_indexVars
             PROVE  ListingHeldRequest'
  OBVIOUS
<1> DEFINE Mid == {"next", "work", "finish"}
           At(c)   == workerPc[ChildOf[c]]
           List(c) == todo[ChildOf[c]]
<1>t. /\ DOMAIN workerPc = Worker /\ DOMAIN cmdPc = Cmd
      /\ todo \in [Worker -> SUBSET Cmd] /\ asked \in SUBSET Cmd
  BY DEF IndexTypeOK
<1>1. ASSUME asked' \cap spool' \subseteq asked \cap spool, skipped \subseteq skipped',
             \A c \in asked' \cap spool' : At(c)' \in Mid =>
               \/ At(c) \in Mid /\ List(c) \subseteq List(c)' \cup skipped'
               \/ c \in List(c)',
             \A c \in asked' \cap spool' : At(c)' = "off" =>
               At(c) = "off" \/ (At(c) \in Mid /\ List(c) = {})
      PROVE  ListingHeldRequest'
  BY <1>1 DEF ListingHeldRequest
<1>2. ASSUME NEW w \in Worker, UNCHANGED <<asked, spool, skipped, todo>>, NEW at, WorkerTo(w, at),
             at \in Mid => workerPc[w] \in Mid,
             at = "off" /\ w \in Child => workerPc[w] \in Mid /\ todo[w] = {}
      PROVE  ListingHeldRequest'
  <2>1. \A c \in asked : ChildOf[c] \in Child /\ ChildOf[c] \in Worker
    BY <1>t, Kinds
  <2>2. \A c \in asked : At(c)' = IF ChildOf[c] = w THEN at ELSE At(c)
    BY <1>2, <1>t, <2>1 DEF WorkerTo
  <2> QED
    BY <1>1, <1>2, <2>1, <2>2
<1>3. ASSUME UNCHANGED <<asked, spool, skipped, todo, workerPc>> PROVE ListingHeldRequest'
  BY <1>3 DEF ListingHeldRequest
<1>4. ASSUME NEW c \in Cmd, SpoolRequest(c) PROVE ListingHeldRequest'
  <2>1. cmdPc[c] \in {"spool", "start"}
    BY <1>4 DEF SpoolRequest
  <2>2. workerPc[ChildOf[c]] = "unborn"
    BY <2>1 DEF BornAfterSpooling, CmdEnds
  <2>3. UNCHANGED <<workerPc, todo, skipped>> /\ spool' = spool \cup {c} /\ asked' = asked \cup {c}
    BY <1>4 DEF SpoolRequest
  <2> QED
    BY <2>2, <2>3 DEF ListingHeldRequest
<1>5. ASSUME NEW c \in Cmd, SpawnChild(c) PROVE ListingHeldRequest'
  <2>1. UNCHANGED <<asked, spool, skipped, todo>> /\ (UNCHANGED workerPc \/ WorkerTo(ChildOf[c], "open"))
    BY <1>5 DEF SpawnChild, queueVars
  <2> QED
    BY <1>2, <1>3, <2>1, Kinds
<1>6. ASSUME NEW c \in Cmd,
             LookForOwner(c) \/ EnterLane(c) \/ LaneTimesOut(c) \/ ClaimHere(c) \/ PublishHere(c)
               \/ LeaveHere(c) \/ PollSees(c) \/ PollEnds(c) \/ KillCommand(c) \/ RetryFallsDue(c)
      PROVE  ListingHeldRequest'
  BY <1>3, <1>6 DEF LookForOwner, EnterLane, LaneTimesOut, ClaimHere, PublishHere, LeaveHere, PollSees,
                    PollEnds, KillCommand, RetryFallsDue, queueVars
<1>7. ASSUME NEW w \in Worker,
             AcquireLease(w) \/ ChildRefused(w) \/ ClaimDue(w) \/ PublishRequest(w)
               \/ FinishRequest(w) \/ PassEnds(w) \/ StartServer(w) \/ ServerTimer(w)
      PROVE  ListingHeldRequest'
  <2>1. UNCHANGED <<asked, spool, skipped, todo>>
    BY <1>7 DEF AcquireLease, ChildRefused, ClaimDue, PublishRequest, FinishRequest, PassEnds,
                StartServer, ServerTimer, queueVars
  <2>2. PICK at : /\ WorkerTo(w, at) /\ (at \in Mid => workerPc[w] \in Mid)
                  /\ at = "off" => workerPc[w] \in Mid /\ todo[w] = {}
    BY <1>7 DEF AcquireLease, ChildRefused, ClaimDue, PublishRequest, FinishRequest, PassEnds,
                StartServer, ServerTimer
  <2> QED
    BY <1>2, <2>1, <2>2
<1>8. ASSUME NEW w \in Worker, ListSpool(w) PROVE ListingHeldRequest'
  <2>1. UNCHANGED <<asked, spool, skipped>> /\ todo[w] = {} /\ todo' = [todo EXCEPT ![w] = spool]
    BY <1>8 DEF ListSpool
  <2>2. UNCHANGED workerPc \/ (workerPc[w] = "list" /\ WorkerTo(w, "next"))
    BY <1>8 DEF ListSpool
  <2>3. \A c \in asked : ChildOf[c] \in Worker
    BY <1>t, Kinds
  <2>4. \A c \in asked : List(c)' = IF ChildOf[c] = w THEN spool ELSE List(c)
    BY <1>t, <2>1, <2>3
  <2>5. \A c \in asked : At(c)' = At(c) \/ (ChildOf[c] = w /\ At(c)' = "next")
    BY <1>t, <2>2, <2>3 DEF WorkerTo
  <2> QED
    BY <1>1, <2>1, <2>4, <2>5
<1>9. ASSUME NEW w \in Worker, EnqueueFile(w) PROVE ListingHeldRequest'
  BY <1>3, <1>9 DEF EnqueueFile
<1>10. ASSUME NEW w \in Worker, EnqueueFails(w) PROVE ListingHeldRequest'
  <2>1. PICK f : todo' = [todo EXCEPT ![w] = @ \ {f}] /\ skipped' = skipped \cup {f}
    BY <1>10 DEF EnqueueFails
  <2>2. UNCHANGED <<asked, spool, workerPc>>
    BY <1>10 DEF EnqueueFails
  <2>3. \A c \in asked : ChildOf[c] \in Worker
    BY <1>t, Kinds
  <2>4. \A c \in asked : List(c) \subseteq List(c)' \cup skipped'
    BY <1>t, <2>1, <2>3
  <2>5. asked' \cap spool' \subseteq asked \cap spool /\ skipped \subseteq skipped'
    BY <2>1, <2>2
  <2>6. \A c \in asked : c \in List(c) => c \in List(c)' \cup skipped'
    BY <2>4
  <2> QED
    BY <2>1, <2>2, <2>5, <2>6 DEF ListingHeldRequest
<1>11. ASSUME NEW w \in Worker, UnlinkFile(w) PROVE ListingHeldRequest'
  <2>1. spool' = spool \ stored[w] /\ todo' = [todo EXCEPT ![w] = @ \ stored[w]]
        /\ UNCHANGED <<asked, skipped, workerPc>>
    BY <1>11 DEF UnlinkFile
  <2>2. \A c \in asked : ChildOf[c] \in Worker
    BY <1>t, Kinds
  <2>3. \A c \in asked \cap spool' : c \in List(c) => c \in List(c)'
    BY <1>t, <2>1, <2>2
  <2> QED
    BY <2>1, <2>3 DEF ListingHeldRequest
<1>12. ASSUME NEW w \in Worker, KillWorker(w) \/ (w \in Server /\ CloseServer(w))
       PROVE  ListingHeldRequest'
  <2>1. PICK at \in {"off", "dead"} : StopWorker(w, at) /\ (at = "off" => w \in Server)
    BY <1>12 DEF KillWorker, CloseServer
  <2>2. UNCHANGED <<asked, skipped, spool>> /\ todo' = [todo EXCEPT ![w] = {}]
        /\ WorkerTo(w, at)
    BY <2>1 DEF StopWorker
  <2>3. \A c \in asked : ChildOf[c] \in Worker /\ ChildOf[c] \notin Server
    BY <1>t, Kinds
  <2>4. \A c \in asked : IF ChildOf[c] = w THEN At(c)' = "dead"
                         ELSE At(c)' = At(c) /\ List(c)' = List(c)
    BY <1>t, <2>1, <2>2, <2>3 DEF WorkerTo
  <2> QED
    BY <1>1, <2>2, <2>4
<1>13. CASE UNCHANGED indexVars
  BY <1>3, <1>13 DEF indexVars, queueVars
<1>14. ASSUME NEW c \in Cmd, CommandStep(c) \/ RetryFallsDue(c) \/ KillCommand(c)
       PROVE  ListingHeldRequest'
  BY <1>4, <1>5, <1>6, <1>14 DEF CommandStep
<1>15. ASSUME NEW w \in Worker, WorkerStep(w) \/ KillWorker(w) PROVE ListingHeldRequest'
  BY <1>7, <1>8, <1>9, <1>10, <1>11, <1>12, <1>15 DEF WorkerStep
<1>16. ASSUME NEW w \in Server, StartServer(w) \/ ServerTimer(w) \/ CloseServer(w)
       PROVE  ListingHeldRequest'
  BY <1>7, <1>12, <1>16, Kinds
<1> QED
  BY <1>13, <1>14, <1>15, <1>16 DEF IndexNext

(* Every step keeps a request that was written: its file is removed after  *)
(* its job was committed, and no job ever leaves the table.                *)
LEMMA AskedStep ==
  ASSUME IndexTypeOK, JobsAreHeld, AskedIsKept, [IndexNext]_indexVars,
         \A c \in Cmd : row[c] # "absent" => row'[c] # "absent"
  PROVE  AskedIsKept'
<1>t. asked \in SUBSET Cmd
  BY DEF IndexTypeOK
<1>1. ASSUME asked' = asked, \A c \in asked : c \in spool => c \in spool' \/ row'[c] # "absent"
      PROVE  AskedIsKept'
  BY <1>1, <1>t DEF AskedIsKept
<1>2. ASSUME NEW c \in Cmd, CommandStep(c) \/ RetryFallsDue(c) \/ KillCommand(c)
      PROVE  AskedIsKept'
  <2>1. CASE SpoolRequest(c)
    BY <2>1, <1>t DEF SpoolRequest, AskedIsKept
  <2>2. CASE ~SpoolRequest(c)
    <3>1. UNCHANGED <<asked, spool>>
      BY <1>2, <2>2 DEF CommandStep, LookForOwner, EnterLane, LaneTimesOut, ClaimHere, PublishHere,
                        LeaveHere, SpawnChild, PollSees, PollEnds, KillCommand, RetryFallsDue, queueVars
    <3> QED
      BY <1>1, <3>1
  <2> QED
    BY <2>1, <2>2
<1>3. ASSUME NEW w \in Worker, WorkerStep(w) \/ KillWorker(w) PROVE AskedIsKept'
  <2>1. CASE UnlinkFile(w)
    <3>1. asked' = asked /\ spool' = spool \ stored[w] /\ row' = row
      BY <2>1 DEF UnlinkFile
    <3>2. \A c \in stored[w] : row[c] # "absent"
      BY DEF JobsAreHeld
    <3> QED
      BY <1>1, <3>1, <3>2
  <2>2. CASE ~UnlinkFile(w)
    <3>1. UNCHANGED <<asked, spool>>
      BY <1>3, <2>2 DEF WorkerStep, AcquireLease, ChildRefused, ListSpool, EnqueueFile, EnqueueFails,
                        ClaimDue, PublishRequest, FinishRequest, PassEnds, KillWorker, StopWorker,
                        queueVars
    <3> QED
      BY <1>1, <3>1
  <2> QED
    BY <2>1, <2>2
<1>4. ASSUME NEW s \in Server, StartServer(s) \/ ServerTimer(s) \/ CloseServer(s)
      PROVE  AskedIsKept'
  <2>1. UNCHANGED <<asked, spool>>
    BY <1>4 DEF StartServer, ServerTimer, CloseServer, StopWorker, queueVars
  <2> QED
    BY <1>1, <2>1
<1>5. CASE UNCHANGED indexVars
  BY <1>1, <1>5 DEF indexVars, queueVars
<1> QED
  BY <1>2, <1>3, <1>4, <1>5 DEF IndexNext

(* Commands and workers start with nothing spooled, owned or done.         *)
LEMMA IndexInitInv == IndexInit => IndexInv
<1> SUFFICES ASSUME IndexInit PROVE IndexInv
  OBVIOUS
<1>1. IndexTypeOK
  BY DEF IndexInit, IndexTypeOK
<1>2. LeaseExcludes /\ JobsAreHeld /\ SayingIsPublished
  BY DEF IndexInit, LeaseExcludes, JobsAreHeld, SayingIsPublished, AtWork
<1>3. BornAfterSpooling /\ ListingHeldRequest /\ AskedIsKept
  BY Kinds DEF IndexInit, BornAfterSpooling, ListingHeldRequest, AskedIsKept
<1> QED
  BY <1>1, <1>2, <1>3 DEF IndexInv

(* Every step keeps the inductive invariant, and what is done stays so.    *)
LEMMA IndexNextInv ==
  IndexInv /\ [IndexNext]_indexVars =>
    IndexInv' /\ (\A c \in Cmd : row[c] = "done" => row'[c] = "done")
<1> SUFFICES ASSUME IndexInv, [IndexNext]_indexVars
             PROVE  IndexInv' /\ (\A c \in Cmd : row[c] = "done" => row'[c] = "done")
  OBVIOUS
<1>1. /\ IndexTypeOK /\ LeaseExcludes /\ JobsAreHeld /\ SayingIsPublished
      /\ BornAfterSpooling /\ ListingHeldRequest /\ AskedIsKept
  BY DEF IndexInv
<1>2. IndexTypeOK' /\ LeaseExcludes'
  BY <1>1, IndexTyped, LeaseStep
<1>3. /\ JobsAreHeld' /\ (\A c \in Cmd : row[c] = "done" => row'[c] = "done")
      /\ \A c \in Cmd : row[c] # "absent" => row'[c] # "absent"
  BY <1>1, JobStep
<1>4. SayingIsPublished' /\ BornAfterSpooling' /\ ListingHeldRequest'
  BY <1>1, PublishedStep, BornStep, ListingStep
<1>5. AskedIsKept'
  BY <1>1, <1>3, AskedStep
<1> QED
  BY <1>2, <1>3, <1>4, <1>5 DEF IndexInv

(* The inductive invariant gives what a command is promised.               *)
LEMMA IndexInvKeeps == IndexInv => KeptOrCarriedOut
<1> SUFFICES ASSUME IndexInv PROVE KeptOrCarriedOut
  OBVIOUS
<1>1. \A c \in asked : c \in spool \/ row[c] # "absent"
  BY DEF IndexInv, AskedIsKept
<1>2. \A c \in Cmd : (row[c] = "done" \/ cmdPc[c] = "reported") => c \in published
  BY DEF IndexInv, SayingIsPublished
<1>3. \A c \in asked : workerPc[ChildOf[c]] = "off" => (c \notin spool \/ c \in skipped)
  BY DEF IndexInv, ListingHeldRequest
<1> QED
  BY <1>1, <1>2, <1>3 DEF KeptOrCarriedOut

(* A request that commands/index.ts spooled is in the spool or in the job  *)
(* table, reported only when published, and run once, whatever is killed.  *)
THEOREM SpooledRequestIsKept == IndexSpec => RequestIsKept
<1>1. IndexInv /\ [IndexNext]_indexVars =>
        [\A c \in Cmd : row[c] = "done" => row'[c] = "done"]_indexVars
  BY IndexNextInv
<1> QED
  BY <1>1, IndexInitInv, IndexNextInv, IndexInvKeeps, PTL DEF IndexSpec, RequestIsKept, SettledOnce

(* Whoever indexes here or works jobs off is the one the lease row names:  *)
(* no two processes of the host are ever at it.                            *)
THEOREM OneIndexerAtATime == IndexSpec => [](IndexTypeOK /\ LeaseExcludes)
<1>1. IndexInv => IndexTypeOK /\ LeaseExcludes
  BY DEF IndexInv
<1> QED
  BY <1>1, IndexInitInv, IndexNextInv, PTL DEF IndexSpec

-----------------------------------------------------------------------------
(* LocalEncoder.                                                           *)

(* Requests that hold a slot, and where the chain has them.                *)
Held == {q \in Request : encPc[q] \in {"queued", "computing", "computed"}}
ChainIsHeld ==
  /\ \A i \in 1 .. Len(chain) : chain[i] \in Held
  /\ \A i, j \in 1 .. Len(chain) : chain[i] = chain[j] => i = j

(* One slot for each request in the chain; only the first in it computes,  *)
(* on the thread in use, which is the only one alive.                      *)
SlotsAreCounted == IsFiniteSet(Held) /\ pending = Cardinality(Held)
OneAtATime      == \A q \in Request : Computing(q) => InFront(q) /\ (served = worker \/ closed # {})
OneThread       == alive \subseteq {worker} /\ worker <= started

EncoderInv == EncoderTypeOK /\ ChainIsHeld /\ SlotsAreCounted /\ OneAtATime /\ OneThread

(* The encoder starts with nothing in the chain.                           *)
LEMMA EncoderInitInv == EncoderInit => EncoderInv
<1> SUFFICES ASSUME EncoderInit PROVE EncoderInv
  OBVIOUS
<1>1. EncoderTypeOK
  BY EncoderAssumption DEF EncoderInit, EncoderTypeOK
<1>2. Held = {} /\ chain = <<>>
  BY DEF EncoderInit, Held
<1>3. ChainIsHeld /\ SlotsAreCounted
  BY <1>2, FS_EmptySet DEF EncoderInit, ChainIsHeld, SlotsAreCounted
<1>4. OneAtATime /\ OneThread
  BY DEF EncoderInit, OneAtATime, OneThread, Computing
<1> QED
  BY <1>1, <1>3, <1>4 DEF EncoderInv

(* The request in front leaves the chain and its slot; the others keep     *)
(* their order.                                                            *)
LEMMA SettleStep ==
  ASSUME EncoderInv, NEW q \in Request, InFront(q), NEW what \in Told, Settle(q, what)
  PROVE  /\ chain' \in Seq(Request) /\ pending' \in 0 .. Limit
         /\ encPc' \in [Request -> {"off", "queued", "computing", "computed", "over"}]
         /\ outcome' \in [Request -> Told \cup {"none"}]
         /\ ChainIsHeld' /\ SlotsAreCounted'
         /\ \A r \in Request : ~Computing(r)'
<1>1. /\ encPc' = [encPc EXCEPT ![q] = "over"] /\ chain' = Tail(chain)
      /\ pending' = pending - 1 /\ outcome' = [outcome EXCEPT ![q] = IF @ = "none" THEN what ELSE @]
  BY DEF Settle, CountsDown, Tell
<1>2. /\ chain \in Seq(Request) /\ chain # <<>> /\ chain[1] = q /\ pending \in 0 .. Limit
      /\ encPc \in [Request -> {"off", "queued", "computing", "computed", "over"}]
      /\ outcome \in [Request -> Told \cup {"none"}]
  BY DEF InFront, EncoderInv, EncoderTypeOK
<1>3. /\ chain' \in Seq(Request) /\ Len(chain') = Len(chain) - 1
      /\ Len(chain) \in Nat \ {0}
      /\ \A i \in 1 .. Len(chain') : chain'[i] = chain[i + 1]
  BY <1>1, <1>2
<1>4. Held' = Held \ {q} /\ q \in Held
  <2>1. 1 \in 1 .. Len(chain)
    BY <1>3
  <2>2. q \in Held
    BY <1>2, <2>1 DEF EncoderInv, ChainIsHeld
  <2>3. \A r \in Request : encPc'[r] = IF r = q THEN "over" ELSE encPc[r]
    BY <1>1, <1>2
  <2> QED
    BY <2>2, <2>3 DEF Held
<1>5. ChainIsHeld'
  <2>1. ASSUME NEW i \in 1 .. Len(chain') PROVE chain'[i] \in Held'
    <3>1. i + 1 \in 1 .. Len(chain) /\ 1 \in 1 .. Len(chain) /\ i + 1 # 1
      BY <1>3
    <3>2. chain[i + 1] \in Held /\ chain[i + 1] # chain[1]
      BY <3>1 DEF EncoderInv, ChainIsHeld
    <3> QED
      BY <1>2, <1>3, <1>4, <3>2
  <2>2. ASSUME NEW i \in 1 .. Len(chain'), NEW j \in 1 .. Len(chain'), chain'[i] = chain'[j]
        PROVE  i = j
    <3>1. i + 1 \in 1 .. Len(chain) /\ j + 1 \in 1 .. Len(chain) /\ chain[i + 1] = chain[j + 1]
      BY <1>3, <2>2
    <3>2. i + 1 = j + 1
      BY <3>1 DEF EncoderInv, ChainIsHeld
    <3> QED
      BY <3>2
  <2> QED
    BY <2>1, <2>2 DEF ChainIsHeld
<1>6. SlotsAreCounted' /\ pending' \in 0 .. Limit
  <2>1. IsFiniteSet(Held) /\ pending = Cardinality(Held)
    BY DEF EncoderInv, SlotsAreCounted
  <2>2. IsFiniteSet(Held') /\ Cardinality(Held') = Cardinality(Held) - 1 /\ Cardinality(Held') \in Nat
    BY <1>4, <2>1, FS_RemoveElement, FS_CardinalityType
  <2> QED
    BY <1>1, <1>2, <2>1, <2>2, EncoderAssumption DEF SlotsAreCounted
<1>7. /\ encPc' \in [Request -> {"off", "queued", "computing", "computed", "over"}]
      /\ outcome' \in [Request -> Told \cup {"none"}]
  BY <1>1, <1>2
<1>8. \A r \in Request : ~Computing(r)'
  <2>1. \A r \in Request \ {q} : ~Computing(r)
    BY <1>2 DEF EncoderInv, OneAtATime, InFront
  <2> QED
    BY <1>1, <1>2, <2>1 DEF Computing
<1> QED
  BY <1>3, <1>5, <1>6, <1>7, <1>8

(* Every step keeps the inductive invariant.                               *)
LEMMA EncoderNextInv == EncoderInv /\ [EncoderNext]_encoderVars => EncoderInv'
<1> SUFFICES ASSUME EncoderInv, [EncoderNext]_encoderVars PROVE EncoderInv'
  OBVIOUS
<1> DEFINE Places == {"off", "queued", "computing", "computed", "over"}
<1>t. /\ encPc \in [Request -> {"off", "queued", "computing", "computed", "over"}]
      /\ outcome \in [Request -> Told \cup {"none"}]
      /\ chain \in Seq(Request) /\ pending \in 0 .. Limit
      /\ worker \in Nat /\ alive \in SUBSET (1 .. started) /\ started \in Nat /\ served \in Nat
      /\ unheard \in SUBSET (1 .. started) /\ deaths \in Nat
  BY DEF EncoderInv, EncoderTypeOK
<1>c. closed \in SUBSET {TRUE}
  BY DEF EncoderInv, EncoderTypeOK
<1>i. ChainIsHeld /\ SlotsAreCounted /\ OneAtATime /\ OneThread
  BY DEF EncoderInv
<1>f. \A q \in Request : Computing(q) => InFront(q)
  BY <1>i DEF OneAtATime
<1>1. ASSUME NEW q \in Request, InFront(q), \E what \in Told : Settle(q, what),
             \/ UNCHANGED <<worker, alive>>
             \/ Stop,
             UNCHANGED <<started, served, unheard, closed, deaths>>
      PROVE  EncoderInv'
  <2>1. /\ chain' \in Seq(Request) /\ pending' \in 0 .. Limit
        /\ encPc' \in [Request -> Places] /\ outcome' \in [Request -> Told \cup {"none"}]
        /\ ChainIsHeld' /\ SlotsAreCounted'
        /\ \A r \in Request : ~Computing(r)'
    BY <1>1, SettleStep
  <2>2. OneThread' /\ worker' \in Nat /\ alive' \in SUBSET (1 .. started)
    <3>1. CASE UNCHANGED <<worker, alive>>
      BY <1>1, <1>i, <1>t, <3>1 DEF OneThread
    <3>2. CASE Stop
      BY <1>1, <1>i, <1>t, <3>2 DEF Stop, OneThread
    <3> QED
      BY <1>1, <3>1, <3>2
  <2>3. OneAtATime'
    BY <2>1 DEF OneAtATime
  <2>4. EncoderTypeOK'
    BY <1>1, <1>t, <1>c, <2>1, <2>2 DEF EncoderTypeOK
  <2> QED
    BY <2>1, <2>2, <2>3, <2>4 DEF EncoderInv
<1>2. ASSUME UNCHANGED <<encPc, chain, pending>>, outcome' \in [Request -> Told \cup {"none"}],
             worker' \in Nat, worker' <= started', started' = started, served' = served,
             alive' \in SUBSET (1 .. started), alive' \subseteq {worker'},
             unheard' \in SUBSET (1 .. started), closed' \in SUBSET {TRUE}, deaths' \in Nat,
             (worker' = worker /\ closed' = closed) \/ closed' # {}
      PROVE  EncoderInv'
  <2>1. EncoderTypeOK'
    BY <1>2, <1>t DEF EncoderTypeOK
  <2>2. Held' = Held
    BY <1>2 DEF Held
  <2>3. ChainIsHeld' /\ SlotsAreCounted'
    BY <1>2, <1>i, <2>2 DEF ChainIsHeld, SlotsAreCounted
  <2>4. OneAtATime' /\ OneThread'
    BY <1>2, <1>i DEF OneAtATime, OneThread, Computing, InFront
  <2> QED
    BY <2>1, <2>3, <2>4 DEF EncoderInv
<1>3. ASSUME NEW q \in Request, TurnRefused(q) \/ AnswerArrives(q) \/ TimesOut(q) \/ ExitArrives(q)
      PROVE  EncoderInv'
  <2>1. InFront(q)
    BY <1>3, <1>f DEF TurnRefused, AnswerArrives, TimesOut, ExitArrives, Computing
  <2>2. \E what \in Told : Settle(q, what)
    BY <1>3 DEF TurnRefused, AnswerArrives, TimesOut, ExitArrives, Told
  <2>3. /\ UNCHANGED <<worker, alive>> \/ Stop
        /\ UNCHANGED <<started, served, unheard, closed, deaths>>
    BY <1>3 DEF TurnRefused, AnswerArrives, TimesOut, ExitArrives
  <2> QED
    BY <1>1, <2>1, <2>2, <2>3
<1>4. ASSUME NEW q \in Request, Encode(q) PROVE EncoderInv'
  <2>1. UNCHANGED <<worker, alive, started, served, unheard, closed, deaths>> /\ encPc[q] = "off"
    BY <1>4 DEF Encode
  <2>2. CASE pending >= Limit
    <3>1. /\ encPc' = [encPc EXCEPT ![q] = "over"] /\ UNCHANGED <<chain, pending>>
          /\ outcome' = [outcome EXCEPT ![q] = IF @ = "none" THEN "failed" ELSE @]
      BY <1>4, <2>2 DEF Encode, Tell
    <3>2. EncoderTypeOK'
      BY <1>t, <1>c, <2>1, <3>1 DEF EncoderTypeOK, Told
    <3>3. Held' = Held
      BY <1>t, <2>1, <3>1 DEF Held
    <3>4. ChainIsHeld' /\ SlotsAreCounted'
      BY <1>i, <3>1, <3>3 DEF ChainIsHeld, SlotsAreCounted
    <3>5. OneAtATime' /\ OneThread'
      BY <1>i, <1>t, <2>1, <3>1 DEF OneAtATime, OneThread, Computing, InFront
    <3> QED
      BY <3>2, <3>4, <3>5 DEF EncoderInv
  <2>3. CASE ~(pending >= Limit)
    <3>1. /\ encPc' = [encPc EXCEPT ![q] = "queued"] /\ UNCHANGED outcome
          /\ chain' = Append(chain, q) /\ pending' = pending + 1
      BY <1>4, <2>3 DEF Encode
    <3>2. EncoderTypeOK'
      <4>1. encPc' \in [Request -> Places] /\ chain' \in Seq(Request) /\ pending' \in 0 .. Limit
        BY <1>t, <2>3, <3>1, EncoderAssumption
      <4> QED
        BY <1>t, <1>c, <2>1, <3>1, <4>1 DEF EncoderTypeOK
    <3>3. Held' = Held \cup {q} /\ q \notin Held
      BY <1>t, <2>1, <3>1 DEF Held
    <3>4. SlotsAreCounted'
      BY <1>i, <1>t, <3>1, <3>3, FS_AddElement DEF SlotsAreCounted
    <3>5. /\ Len(chain') = Len(chain) + 1 /\ chain'[Len(chain) + 1] = q
          /\ \A i \in 1 .. Len(chain) : chain'[i] = chain[i]
          /\ Len(chain) \in Nat
      BY <1>t, <3>1
    <3>6. ChainIsHeld'
      <4>1. ASSUME NEW i \in 1 .. Len(chain') PROVE chain'[i] \in Held'
        BY <1>i, <3>3, <3>5 DEF ChainIsHeld
      <4>2. ASSUME NEW i \in 1 .. Len(chain'), NEW j \in 1 .. Len(chain'), chain'[i] = chain'[j]
            PROVE  i = j
        BY <1>i, <3>3, <3>5, <4>2 DEF ChainIsHeld
      <4> QED
        BY <4>1, <4>2 DEF ChainIsHeld
    <3>7. \A r \in Request : Computing(r)' => Computing(r) /\ (InFront(r) => InFront(r)')
      <4>1. \A r \in Request : Computing(r)' => Computing(r)
        BY <1>t, <3>1 DEF Computing
      <4>2. \A r \in Request : InFront(r) => InFront(r)'
        BY <1>t, <3>1, <3>5 DEF InFront
      <4> QED
        BY <4>1, <4>2
    <3>8. OneAtATime' /\ OneThread'
      BY <1>i, <2>1, <3>7 DEF OneAtATime, OneThread
    <3> QED
      BY <3>2, <3>4, <3>6, <3>8 DEF EncoderInv
  <2> QED
    BY <2>2, <2>3
<1>5. ASSUME NEW q \in Request, Turn(q) \/ ThreadComputes(q) PROVE EncoderInv'
  <2>1. PICK at \in {"computing", "computed"} : encPc' = [encPc EXCEPT ![q] = at]
    BY <1>5 DEF Turn, ThreadComputes
  <2>2. UNCHANGED <<outcome, chain, pending, unheard, closed, deaths>> /\ InFront(q)
        /\ encPc[q] \in {"queued", "computing"}
    BY <1>5, <1>f DEF Turn, ThreadComputes, Computing
  <2>3. /\ worker' \in Nat /\ worker' <= started' /\ started' \in Nat /\ started <= started'
        /\ served' \in Nat /\ alive' \subseteq {worker'} /\ alive' \in SUBSET (1 .. started')
        /\ served' = worker' \/ closed # {}
    <3>1. CASE Turn(q) /\ worker = 0
      <4>1. started' = started + 1 /\ worker' = started' /\ served' = started'
            /\ alive' = alive \cup {started'} /\ alive = {}
        BY <1>i, <1>t, <3>1 DEF Turn, OneThread
      <4> QED
        BY <1>t, <4>1
    <3>2. CASE Turn(q) /\ worker # 0
      <4>1. served' = worker /\ UNCHANGED <<worker, alive, started>>
        BY <3>2 DEF Turn
      <4> QED
        BY <1>i, <1>t, <4>1 DEF OneThread
    <3>3. CASE ThreadComputes(q)
      BY <1>i, <1>t, <3>3 DEF ThreadComputes, OneThread, OneAtATime, Computing
    <3> QED
      BY <1>5, <3>1, <3>2, <3>3
  <2>4. EncoderTypeOK'
    <3>1. encPc' \in [Request -> Places] /\ unheard \in SUBSET (1 .. started')
      BY <1>t, <2>1, <2>3
    <3> QED
      BY <1>t, <1>c, <2>2, <2>3, <3>1 DEF EncoderTypeOK
  <2>5. Held' = Held
    BY <1>t, <2>1, <2>2 DEF Held
  <2>6. ChainIsHeld' /\ SlotsAreCounted'
    BY <1>i, <2>2, <2>5 DEF ChainIsHeld, SlotsAreCounted
  <2>7. OneAtATime' /\ OneThread'
    <3>1. \A r \in Request : Computing(r)' => InFront(r)
      BY <1>f, <1>t, <2>1, <2>2 DEF Computing
    <3> QED
      BY <2>2, <2>3, <3>1 DEF OneAtATime, OneThread, InFront
  <2> QED
    BY <2>4, <2>6, <2>7 DEF EncoderInv
<1>6. CASE ThreadDies \/ ExitUnheard \/ CloseEncoder
  <2>1. UNCHANGED <<encPc, chain, pending, outcome, started, served>>
    BY <1>6 DEF ThreadDies, ExitUnheard, CloseEncoder
  <2>2. \/ worker' = 0 /\ alive' = alive \ {worker}
        \/ worker' = worker /\ (alive' = alive \ {worker} \/ alive' = alive)
    BY <1>6, Zenon DEF ThreadDies, ExitUnheard, CloseEncoder
  <2>3. \/ unheard' = unheard
        \/ worker # 0 /\ unheard' = unheard \cup {worker}
    BY <1>6, Zenon DEF ThreadDies, ExitUnheard, CloseEncoder
  <2>4. deaths' = deaths \/ deaths' = deaths + 1
    BY <1>6, Zenon DEF ThreadDies, ExitUnheard, CloseEncoder
  <2>5. /\ worker' \in Nat /\ worker' <= started' /\ alive' \in SUBSET (1 .. started)
        /\ alive' \subseteq {worker'}
    <3>1. /\ worker \in Nat /\ started \in Nat /\ worker <= started /\ started' = started
          /\ alive \in SUBSET (1 .. started) /\ alive \subseteq {worker}
      BY <1>i, <1>t, <2>1 DEF OneThread
    <3>2. worker' \in Nat /\ worker' <= started'
      BY <2>2, <3>1
    <3>3. alive \ {worker} = {}
      BY <3>1
    <3> QED
      BY <2>2, <3>1, <3>2, <3>3, Zenon
  <2>6. (worker' = worker /\ closed' = closed) \/ closed' # {}
    BY <1>6, Zenon DEF ThreadDies, ExitUnheard, CloseEncoder
  <2>7. unheard' \in SUBSET (1 .. started)
    <3>1. /\ worker \in Nat /\ started \in Nat /\ worker <= started
          /\ unheard \in SUBSET (1 .. started)
      BY <1>i, <1>t DEF OneThread
    <3>2. worker # 0 => worker \in 1 .. started
      BY <3>1
    <3>3. ASSUME worker # 0, unheard' = unheard \cup {worker} PROVE unheard' \subseteq 1 .. started
      BY <3>1, <3>2, <3>3
    <3>4. ASSUME unheard' = unheard PROVE unheard' \subseteq 1 .. started
      BY <3>1, <3>4
    <3> QED
      BY <2>3, <3>3, <3>4
  <2>8. closed' \in SUBSET {TRUE}
    BY <1>6, <1>c, Zenon DEF ThreadDies, ExitUnheard, CloseEncoder
  <2>9. deaths' \in Nat
    BY <1>t, <2>4
  <2>10. outcome' \in [Request -> Told \cup {"none"}]
    BY <1>t, <2>1
  <2> QED
    BY <1>2, <2>1, <2>5, <2>7, <2>8, <2>9, <2>10, <2>6
<1>7. ASSUME NEW q \in Request, SignalComes(q) PROVE EncoderInv'
  <2>1. CASE Computing(q)
    BY <1>1, <1>7, <1>f, <2>1 DEF SignalComes, Told
  <2>2. CASE ~Computing(q)
    <3>1. /\ UNCHANGED <<encPc, chain, pending, worker, alive, started, served, unheard, closed, deaths>>
          /\ Tell(q, "failed")
      BY <1>7, <2>2 DEF SignalComes
    <3>2. outcome' \in [Request -> Told \cup {"none"}]
      BY <1>t, <3>1 DEF Tell, Told
    <3> QED
      BY <1>2, <1>i, <1>t, <1>c, <3>1, <3>2 DEF OneThread
  <2> QED
    BY <2>1, <2>2
<1>8. CASE UNCHANGED encoderVars
  BY <1>2, <1>8, <1>i, <1>t, <1>c DEF encoderVars, OneThread
<1> QED
  BY <1>3, <1>4, <1>5, <1>6, <1>7, <1>8 DEF EncoderNext, EncodeStep

(* memory/assets.ts computes one request at a time, the first of its       *)
(* chain, with at most one thread alive; `pending` counts the requests     *)
(* that have a slot, never more than it takes.                             *)
THEOREM EncoderIsSerial ==
  EncoderSpec => [](/\ EncoderTypeOK /\ SlotsAreCounted /\ OneThread
                    /\ \A q, r \in Request : Computing(q) /\ Computing(r) => q = r)
<1>1. EncoderInv => /\ EncoderTypeOK /\ SlotsAreCounted /\ OneThread
                    /\ \A q, r \in Request : Computing(q) /\ Computing(r) => q = r
  BY DEF EncoderInv, OneAtATime, InFront
<1> QED
  BY <1>1, EncoderInitInv, EncoderNextInv, PTL DEF EncoderSpec

(* What a caller has been told never changes: neither a late answer nor a  *)
(* signal behind it is heard.                                              *)
THEOREM CallerIsToldOnce ==
  EncoderSpec => [][\A q \in Request : outcome[q] # "none" => outcome'[q] = outcome[q]]_encoderVars
<1>1. EncoderInv /\ [EncoderNext]_encoderVars =>
        [\A q \in Request : outcome[q] # "none" => outcome'[q] = outcome[q]]_encoderVars
  <2> SUFFICES ASSUME EncoderTypeOK, EncoderNext, NEW q \in Request, outcome[q] # "none"
               PROVE  outcome'[q] = outcome[q]
    BY DEF EncoderInv, encoderVars
  <2>1. ASSUME NEW r \in Request, NEW what, Tell(r, what) PROVE outcome'[q] = outcome[q]
    BY <2>1 DEF Tell, EncoderTypeOK
  <2>2. UNCHANGED outcome \/ \E r \in Request, what \in Told : Tell(r, what)
    <3>1. CASE EncodeStep
      BY <3>1 DEF EncodeStep, Turn, TurnRefused, ThreadComputes, AnswerArrives, TimesOut, ExitArrives,
                  Settle, Told
    <3>2. CASE ThreadDies \/ ExitUnheard \/ CloseEncoder
      BY <3>2 DEF ThreadDies, ExitUnheard, CloseEncoder
    <3>3. CASE \E r \in Request : Encode(r) \/ SignalComes(r)
      BY <3>3 DEF Encode, SignalComes, Settle, Told
    <3> QED
      BY <3>1, <3>2, <3>3 DEF EncoderNext
  <2> QED
    BY <2>1, <2>2
<1> QED
  BY <1>1, EncoderInitInv, EncoderNextInv, PTL DEF EncoderSpec

-----------------------------------------------------------------------------
(* All of them side by side.                                               *)

ServicesInv == IndexInv /\ CardInv /\ WorksetInv /\ AuditInv /\ EncoderInv

(* Every one of them starts in its own initial state.                      *)
LEMMA ServicesInitInv == Init => ServicesInv
BY IndexInitInv, CardInitInv, WorksetInitInv, AuditInitInv, EncoderInitInv, Zenon DEF Init, ServicesInv

(* A step of all is a step of each or leaves it alone.                     *)
LEMMA EachSteps ==
  ASSUME [Next]_vars
  PROVE  /\ [IndexNext]_indexVars /\ [CardNext]_cardVars /\ [WorksetNext]_embedVars
         /\ [AuditNext]_auditVars /\ [EncoderNext]_encoderVars
BY Zenon DEF Next, vars, InIndex, InCards, InEmbed, InAudit, InEncoder

(* So it keeps all the inductive invariants.                               *)
LEMMA ServicesNextInv == ServicesInv /\ [Next]_vars => ServicesInv'
<1> SUFFICES ASSUME ServicesInv, [Next]_vars PROVE ServicesInv'
  OBVIOUS
<1>1. IndexInv' /\ CardInv' /\ WorksetInv' /\ AuditInv' /\ EncoderInv'
  BY EachSteps, IndexNextInv, CardNextInv, WorksetNextInv, AuditNextInv, EncoderNextInv, Zenon
     DEF ServicesInv
<1> QED
  BY <1>1 DEF ServicesInv

(* The types of all the components hold.                                   *)
THEOREM ServicesTypeCorrect == Spec => []ServicesTypeOK
<1>1. ServicesInv => ServicesTypeOK
  BY Zenon DEF ServicesInv, ServicesTypeOK, IndexInv, CardInv, WorksetInv, AuditInv, EncoderInv
<1> QED
  BY <1>1, ServicesInitInv, ServicesNextInv, PTL DEF Spec

(* What each promises by itself holds of them together.                    *)
THEOREM ServicesKeepPromises ==
  Spec => [](SpendWithinCap /\ DoneWasValidated /\ EveryFileOnce) /\ RequestIsKept
<1>1. ServicesInv => SpendWithinCap /\ DoneWasValidated /\ EveryFileOnce /\ KeptOrCarriedOut
  <2>1. CardInv => SpendWithinCap
    BY DEF CardInv
  <2>2. WorksetInv => DoneWasValidated
    BY DEF WorksetInv
  <2>3. AuditInv => EveryFileOnce
    BY DEF AuditInv, EveryFileOnce, ScanCounts, EndFollowsScan, AllCounted
  <2> QED
    BY <2>1, <2>2, <2>3, IndexInvKeeps DEF ServicesInv
<1>2. ServicesInv /\ [Next]_vars =>
        [\A c \in Cmd : row[c] = "done" => row'[c] = "done"]_indexVars
  BY EachSteps, IndexNextInv DEF ServicesInv
<1> QED
  BY <1>1, <1>2, ServicesInitInv, ServicesNextInv, PTL DEF Spec, RequestIsKept, SettledOnce

=============================================================================
