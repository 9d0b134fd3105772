--------------------------- MODULE MaintenanceQueue ---------------------------
(***************************************************************************)
(* The background maintenance of the memory store: the leased owner        *)
(* (memory/leases.ts), the durable queue (memory/jobs.ts) and the worker   *)
(* that drains it (memory/maintenance.ts).  Every process may run a        *)
(* worker; one row of maintenance_leases decides which of them works; each *)
(* SQLite transaction is one step and the steps of different processes     *)
(* interleave.  Between claiming a job and finishing it a worker awaits    *)
(* the encoder or an indexing pass, so the lease may have moved meanwhile. *)
(*                                                                         *)
(* A worker takes the lease at most once in its life (acquire() keeps its  *)
(* fence), so its owner token is the worker itself.                        *)
(***************************************************************************)
EXTENDS Naturals, FiniteSets, Sequences, SequencesExt

CONSTANTS
  Worker,     \* process incarnations, each with one MaintenanceWorker
  Steady,     \* those of them that neither die nor close
  Pid,        \* the pid of a process
  Host,       \* its host; several may share the root
  Zone,       \* the time zone and locale its `ps -o lstart=` prints in
  KnownStart, \* the workers that could read their own start time
  Job,        \* identities (kind, target, input hash)
  EmbedJob,   \* those of kind 'embed'; the rest go through indexAll & co.
  Part,       \* what a job has to commit, in batches
  Target,     \* the parts of each job
  Poison,     \* jobs whose work always fails
  Batch,      \* parts taken per claim of an embed job
  MaxFaults,  \* how often a transaction may fail with SQLITE_BUSY
  FaultAt,    \* and at which labels
  None

ASSUME WorkerAssumption ==
  /\ IsFiniteSet(Worker)
  /\ Steady \subseteq Worker
  /\ KnownStart \subseteq Worker
  /\ None \notin Worker
ASSUME JobAssumption ==
  /\ IsFiniteSet(Job)
  /\ EmbedJob \subseteq Job
  /\ Poison \subseteq Job
  /\ None \notin Job
  /\ Target \in [Job -> SUBSET Part]
  /\ Batch \in Nat \ {0}
  /\ MaxFaults \in Nat

VARIABLES
  life,       \* "unborn", "alive" or "dead"
  pc,         \* where the worker's pass is
  fence,      \* the generation it holds a fence of; 0 before acquire()
  beating,    \* workers whose heartbeat timer runs
  aborted,    \* workers whose AbortController has fired
  stopped,    \* workers whose close() was called
  cur,        \* the job the pass is on
  took,       \* the parts it selected
  outcome,    \* the state it will finish the job with
  lastCapture,\* workers whose last job was not an embed job
  holder,     \* owner token of the lease row; None when released
  gen,        \* its generation
  state,      \* state of each job row
  owner,      \* owner token of a running job
  queue,      \* due pending/retry jobs by next_attempt_at, created_at
  vec,        \* committed parts of each job
  assets,     \* the embedding model is installed
  faults      \* SQLITE_BUSY so far

workVars  == <<cur, took, outcome, lastCapture>>
timerVars == <<beating, aborted, stopped>>
leaseVars == <<holder, gen>>
jobVars   == <<state, owner, queue>>
vars == <<life, pc, fence, timerVars, workVars, leaseVars, jobVars, vec, assets, faults>>

States == {"absent", "pending", "running", "retry", "blocked", "done", "cancelled"}
Labels == {"idle", "recover", "drain", "next", "work", "commit", "finish", "fail", "closed"}

TypeOK ==
  /\ life \in [Worker -> {"unborn", "alive", "dead"}]
  /\ pc \in [Worker -> Labels]
  /\ fence \in [Worker -> Nat]
  /\ beating \subseteq Worker /\ aborted \subseteq Worker /\ stopped \subseteq Worker
  /\ cur \in [Worker -> Job \cup {None}]
  /\ took \in [Worker -> SUBSET Part]
  /\ outcome \in [Worker -> {"done", "pending", "retry", "blocked"}]
  /\ lastCapture \subseteq Worker
  /\ holder \in Worker \cup {None}
  /\ gen \in Nat
  /\ state \in [Job -> States]
  /\ owner \in [Job -> Worker \cup {None}]
  /\ queue \in Seq(Job)
  /\ vec \in [Job -> SUBSET Part]
  /\ assets \in BOOLEAN
  /\ faults \in Nat

Init ==
  /\ life = [w \in Worker |-> "unborn"]
  /\ pc = [w \in Worker |-> "idle"]
  /\ fence = [w \in Worker |-> 0]
  /\ beating = {} /\ aborted = {} /\ stopped = {} /\ lastCapture = {}
  /\ cur = [w \in Worker |-> None]
  /\ took = [w \in Worker |-> {}]
  /\ outcome = [w \in Worker |-> "retry"]
  /\ holder = None /\ gen = 0
  /\ state = [j \in Job |-> "absent"]
  /\ owner = [j \in Job |-> None]
  /\ queue = <<>>
  /\ vec = [j \in Job |-> {}]
  /\ assets \in BOOLEAN
  /\ faults = 0

-----------------------------------------------------------------------------
(* Processes, pids and what `ps -p pid -o lstart=` tells about them.       *)

Alive(w) == life[w] = "alive"
PidUsers(o) == {q \in Worker : Alive(q) /\ Pid[q] = Pid[o] /\ Host[q] = Host[o]}

Spawn(w) ==
  /\ life[w] = "unborn"
  /\ PidUsers(w) = {}
  /\ life' = [life EXCEPT ![w] = "alive"]
  /\ UNCHANGED <<pc, fence, timerVars, workVars, leaseVars, jobVars, vec, assets, faults>>

(* The job and what was selected for it are locals of the loop.            *)
LeaveJob(w) ==
  /\ cur' = [cur EXCEPT ![w] = None]
  /\ took' = [took EXCEPT ![w] = {}]
  /\ outcome' = [outcome EXCEPT ![w] = "retry"]

(* A killed process loses its memory; the store keeps what it wrote.       *)
Die(w) ==
  /\ Alive(w) /\ w \notin Steady
  /\ life' = [life EXCEPT ![w] = "dead"]
  /\ pc' = [pc EXCEPT ![w] = "idle"] /\ fence' = [fence EXCEPT ![w] = 0]
  /\ beating' = beating \ {w} /\ aborted' = aborted \ {w} /\ stopped' = stopped \ {w}
  /\ lastCapture' = lastCapture \ {w}
  /\ LeaveJob(w)
  /\ UNCHANGED <<leaseVars, jobVars, vec, assets, faults>>

(* The string a reader prints for a birth: the birth and the reader's zone.*)
StartAs(q, reader) == <<q, Zone[reader]>>

MayReplaceByAge(w, o) == TRUE

(* claimLease(): may w replace the owner o of the row?  Not one of another *)
(* host; not while ps still prints what o recorded; when ps prints nothing,*)
(* or o recorded no start, only once no process has the pid; when it       *)
(* prints anything else, yes.                                              *)
MayReplace(w, o) ==
  LET users == PidUsers(o)
      same  == \E q \in users : StartAs(q, w) = StartAs(o, o)
  IN Host[o] = Host[w] /\ IF o \in KnownStart THEN ~same ELSE users = {}

-----------------------------------------------------------------------------
Goto(w, label) == pc' = [pc EXCEPT ![w] = label]
At(w, label)   == Alive(w) /\ pc[w] = label
Fenced(w)      == holder = w /\ gen = fence[w]   \* assertFence()

(* A transaction may throw at this label: the store stayed locked for      *)
(* longer than busy_timeout.                                               *)
Throws(label) ==
  /\ label \in FaultAt
  /\ faults < MaxFaults
  /\ faults' = faults + 1

Claimable(j) == j \in Range(queue)
Without(j)   == IF Claimable(j) THEN RemoveAt(queue, CHOOSE i \in DOMAIN queue : queue[i] = j)
                                ELSE queue

EnqueueAgain(j) ==
  /\ state' = [state EXCEPT ![j] = "pending"]
  /\ queue' = Append(queue, j)
  /\ UNCHANGED <<life, pc, fence, timerVars, workVars, leaseVars, owner, vec, assets, faults>>

(* enqueueJob(): ON CONFLICT DO NOTHING, so every identity runs once; by   *)
(* drainSpool, discover, publication or another process, without a fence.  *)
Enqueue(j) ==
  /\ state[j] = "absent"
  /\ state' = [state EXCEPT ![j] = "pending"]
  /\ queue' = Append(queue, j)
  /\ UNCHANGED <<life, pc, fence, timerVars, workVars, leaseVars, owner, vec, assets, faults>>

(* The backoff of a retry runs out: the job is due.                        *)
BackoffEnds(j) ==
  /\ state[j] = "retry" /\ ~Claimable(j)
  /\ queue' = Append(queue, j)
  /\ UNCHANGED <<life, pc, fence, timerVars, workVars, leaseVars, state, owner, vec, assets, faults>>

(* applyForget() cancels the embed jobs of its source, drops their vectors.*)
Cancel(j) ==
  /\ j \in EmbedJob
  /\ state[j] \notin {"absent", "cancelled"}
  /\ state' = [state EXCEPT ![j] = "cancelled"]
  /\ owner' = [owner EXCEPT ![j] = None]
  /\ queue' = Without(j)
  /\ vec' = [vec EXCEPT ![j] = {}]
  /\ UNCHANGED <<life, pc, fence, timerVars, workVars, leaseVars, assets, faults>>

InstallAssets ==
  /\ ~assets
  /\ assets' = TRUE
  /\ UNCHANGED <<life, pc, fence, timerVars, workVars, leaseVars, jobVars, vec, faults>>

-----------------------------------------------------------------------------
(* drain(): acquire() first.                                               *)

Resume(w) ==
  /\ At(w, "idle") /\ w \notin stopped
  /\ fence[w] # 0
  /\ Goto(w, "drain")
  /\ UNCHANGED <<life, fence, timerVars, workVars, leaseVars, jobVars, vec, assets, faults>>

ClaimLease(w) ==
  /\ At(w, "idle") /\ w \notin stopped
  /\ fence[w] = 0
  /\ holder # None => MayReplace(w, holder)
  /\ holder' = w
  /\ gen' = gen + 1
  /\ fence' = [fence EXCEPT ![w] = gen + 1]
  /\ Goto(w, "recover")
  /\ UNCHANGED <<life, timerVars, workVars, jobVars, vec, assets, faults>>

InterruptedOwn(w) == {j \in Job : state[j] = "running" /\ owner[j] = w}

(* recoverJobs(): in a transaction of its own, after the fence is kept.    *)
Interrupted(w) == {j \in Job : state[j] = "running" /\ owner[j] # w}

(* They become due together; created_at and job_id order them.             *)
Orders(J) == Bijection(1 .. Cardinality(J), J)

Requeue(J, to) ==
  /\ state' = [j \in Job |-> IF j \in J THEN to ELSE state[j]]
  /\ owner' = [j \in Job |-> IF j \in J THEN None ELSE owner[j]]
  /\ \E order \in Orders(J) : queue' = queue \o order

Recover(w) ==
  /\ At(w, "recover")
  /\ \/ /\ Fenced(w)
        /\ Requeue(Interrupted(w), "retry")
        /\ beating' = beating \cup {w}
        /\ Goto(w, "drain")
        /\ UNCHANGED faults
     \/ /\ \/ ~Fenced(w) /\ UNCHANGED faults
           \/ Throws("recover")
        /\ Goto(w, "idle")
        /\ UNCHANGED <<jobVars, beating>>
  /\ UNCHANGED <<life, fence, aborted, stopped, workVars, leaseVars, vec, assets>>

(* Once the assets are there, retryBlocked() sets waiting jobs free.       *)
Drain(w) ==
  /\ At(w, "drain")
  /\ Requeue({j \in Job : assets /\ state[j] = "blocked"}, "pending")
  /\ Goto(w, "next")
  /\ UNCHANGED <<life, fence, timerVars, workVars, leaseVars, vec, assets, faults>>

-----------------------------------------------------------------------------
(* The loop: claimJob, handle, finishJob.                                  *)

ChosenNewest(w, i) == i = Len(queue)

(* After a capture the oldest embed job, after an embed job the oldest     *)
(* other one, and if that lane is empty the oldest of all.                 *)
Preferred(w) == IF w \in lastCapture THEN EmbedJob ELSE Job \ EmbedJob
Lane(w)      == IF Preferred(w) \cap Range(queue) # {} THEN Preferred(w) ELSE Job
Chosen(w, i) == queue[i] \in Lane(w) /\ \A k \in 1 .. (i - 1) : queue[k] \notin Lane(w)

EndPass(w) == Goto(w, "idle") /\ UNCHANGED <<life, fence, timerVars, workVars, leaseVars,
                                             jobVars, vec, assets>>

ClaimJob(w) ==
  /\ At(w, "next")
  /\ w \notin aborted /\ Fenced(w)
  /\ \E i \in DOMAIN queue :
       /\ Chosen(w, i)
       /\ state' = [state EXCEPT ![queue[i]] = "running"]
       /\ owner' = [owner EXCEPT ![queue[i]] = w]
       /\ cur' = [cur EXCEPT ![w] = queue[i]]
       /\ lastCapture' = IF queue[i] \in EmbedJob THEN lastCapture \ {w}
                                                  ELSE lastCapture \cup {w}
       /\ queue' = RemoveAt(queue, i)
  /\ Goto(w, "work")
  /\ UNCHANGED <<life, fence, timerVars, took, outcome, leaseVars, vec, assets, faults>>

(* throwIfAborted, an empty queue, lease_superseded or a failing statement:*)
(* the pass is over, in the loop or already in what drain() does before it.*)
StopPass(w) ==
  /\ \/ At(w, "next") /\ (w \in aborted \/ queue = <<>>) /\ UNCHANGED faults
     \/ \E label \in {"drain", "next"} :
          /\ At(w, label)
          /\ \/ ~Fenced(w) /\ UNCHANGED faults
             \/ Throws(label)
  /\ EndPass(w)

Decide(w, result, label) ==
  /\ outcome' = [outcome EXCEPT ![w] = result]
  /\ Goto(w, label)

Mine(w) == state[cur[w]] = "running" /\ owner[cur[w]] = w

OutcomeDone(j)   == "done"
OutcomeFailed(j) == "failed"

(* What a handler that did something reports: an embed job is not complete *)
(* by the batch it just committed, any other is.                           *)
Outcome(j) == IF j \in EmbedJob THEN "pending" ELSE "done"

(* handle() up to its await: nothing selected is the only completion of an *)
(* embed job; a cancelled target has nothing to do.                        *)
Work(w) ==
  LET j == cur[w]  missing == Target[j] \ vec[j]  IN
  /\ At(w, "work")
  /\ \/ ~Fenced(w) /\ Decide(w, "retry", "fail") /\ UNCHANGED took
     \/ /\ Fenced(w) /\ j \in EmbedJob /\ ~assets
        /\ Decide(w, "blocked", "fail") /\ UNCHANGED took
     \/ /\ Fenced(w) /\ j \in EmbedJob /\ assets
        /\ (missing = {} \/ state[j] = "cancelled")
        /\ Decide(w, "done", "finish") /\ UNCHANGED took
     \/ /\ Fenced(w) /\ j \in EmbedJob /\ assets
        /\ missing # {} /\ state[j] # "cancelled"
        /\ \E P \in SUBSET missing :
             /\ Cardinality(P) = Batch \/ (P = missing /\ Cardinality(P) < Batch)
             /\ took' = [took EXCEPT ![w] = P]
        /\ Decide(w, Outcome(j), "commit")
     \/ /\ Fenced(w) /\ j \notin EmbedJob
        /\ took' = [took EXCEPT ![w] = Target[j]]
        /\ Decide(w, Outcome(j), "commit")
  /\ UNCHANGED <<life, fence, timerVars, cur, lastCapture, leaseVars, jobVars, vec, assets, faults>>

(* The commit after the await re-checks the fence, the abort signal and    *)
(* that the job is still this worker's running job.  The work itself fails *)
(* on a Poison job, and may fail on any (an encoder that dies).            *)
CommitUnfenced(w) ==
  /\ At(w, "commit")
  /\ IF w \notin aborted /\ state[cur[w]] = "running"
     THEN /\ vec' = [vec EXCEPT ![cur[w]] = @ \cup took[w]]
          /\ Goto(w, "finish") /\ UNCHANGED outcome
     ELSE Decide(w, "retry", "fail") /\ UNCHANGED vec
  /\ UNCHANGED <<life, fence, timerVars, cur, took, lastCapture, leaseVars, jobVars, assets, faults>>

Commit(w) ==
  /\ At(w, "commit")
  /\ \/ /\ Fenced(w) /\ w \notin aborted /\ Mine(w) /\ cur[w] \notin Poison
        /\ vec' = [vec EXCEPT ![cur[w]] = @ \cup took[w]]
        /\ Goto(w, "finish")
        /\ UNCHANGED <<outcome, faults>>
     \/ /\ \/ (~Fenced(w) \/ w \in aborted \/ ~Mine(w) \/ cur[w] \in Poison) /\ UNCHANGED faults
           \/ Throws("commit")
        /\ Decide(w, "retry", "fail")
        /\ UNCHANGED vec
  /\ UNCHANGED <<life, fence, timerVars, cur, took, lastCapture, leaseVars, jobVars, assets>>

FinishAnyRow(w, to) ==
  LET j == cur[w] IN
  /\ state' = [state EXCEPT ![j] = to]
  /\ owner' = [owner EXCEPT ![j] = None]
  /\ queue' = IF to = "pending" THEN Append(queue, j) ELSE queue

(* finishJob(): a no-op on a row that is no longer this worker's.  'retry' *)
(* waits out its backoff, 'pending' goes to the back of the queue.         *)
FinishRow(w, to) ==
  LET j == cur[w] IN
  IF Mine(w)
  THEN /\ state' = [state EXCEPT ![j] = to]
       /\ owner' = [owner EXCEPT ![j] = None]
       /\ queue' = IF to = "pending" THEN Append(queue, j) ELSE queue
  ELSE UNCHANGED jobVars

Finish(w) ==
  /\ At(w, "finish")
  /\ \/ /\ Fenced(w)
        /\ FinishRow(w, outcome[w])
        /\ Goto(w, "next")
        /\ LeaveJob(w)
        /\ UNCHANGED faults
     \/ /\ \/ ~Fenced(w) /\ UNCHANGED faults
           \/ Throws("finish")
        /\ Decide(w, "retry", "fail")
        /\ UNCHANGED <<jobVars, cur, took>>
  /\ UNCHANGED <<life, fence, timerVars, lastCapture, leaseVars, vec, assets>>

(* The catch block: an aborted worker stops, whether its finishJob worked  *)
(* or not; otherwise a second failure ends the pass.                       *)
Fail(w) ==
  LET to == IF w \in aborted THEN "retry" ELSE outcome[w] IN
  /\ At(w, "fail")
  /\ \/ /\ Fenced(w)
        /\ FinishRow(w, to)
        /\ Goto(w, IF w \in aborted THEN "idle" ELSE "next")
        /\ UNCHANGED faults
     \/ /\ \/ ~Fenced(w) /\ UNCHANGED faults
           \/ Throws("fail")
        /\ Goto(w, "idle")
        /\ UNCHANGED jobVars
  /\ LeaveJob(w)
  /\ UNCHANGED <<life, fence, timerVars, lastCapture, leaseVars, vec, assets>>

-----------------------------------------------------------------------------
(* Timers and shutdown.  They run when the pass has yielded to the event   *)
(* loop: between two passes, or in the await of handle().                  *)

Yielded(w) == Alive(w) /\ pc[w] \in {"idle", "commit"}

Heartbeat(w) ==
  /\ Yielded(w) /\ w \in beating /\ w \notin stopped /\ w \notin aborted
  /\ \/ ~Fenced(w) /\ UNCHANGED faults
     \/ Throws("heartbeat")
  /\ aborted' = aborted \cup {w}
  /\ UNCHANGED <<life, pc, fence, beating, stopped, workVars, leaseVars, jobVars, vec, assets>>

Close(w) ==
  /\ Yielded(w) /\ w \notin stopped /\ w \notin Steady
  /\ stopped' = stopped \cup {w}
  /\ aborted' = aborted \cup {w}
  /\ beating' = beating \ {w}
  /\ UNCHANGED <<life, pc, fence, workVars, leaseVars, jobVars, vec, assets, faults>>

(* finishClose(), once the pass has ended: own running jobs go back and    *)
(* the lease is released, in one transaction.                              *)
Own(w) == {j \in Job : state[j] = "running" /\ owner[j] = w}

FinishClose(w) ==
  /\ At(w, "idle") /\ w \in stopped
  /\ \/ /\ Fenced(w)
        /\ Requeue(Own(w), "retry")
        /\ holder' = None
        /\ UNCHANGED faults
     \/ /\ \/ ~Fenced(w) /\ UNCHANGED faults
           \/ Throws("close")
        /\ UNCHANGED <<jobVars, holder>>
  /\ Goto(w, "closed")
  /\ UNCHANGED <<life, fence, timerVars, workVars, gen, vec, assets>>

-----------------------------------------------------------------------------
Pass(w) == \/ Resume(w) \/ ClaimLease(w) \/ Recover(w) \/ Drain(w)
           \/ ClaimJob(w) \/ StopPass(w) \/ Work(w) \/ Commit(w)
           \/ Finish(w) \/ Fail(w) \/ FinishClose(w)

Next ==
  \/ \E w \in Worker : Pass(w) \/ Heartbeat(w) \/ Close(w) \/ Spawn(w) \/ Die(w)
  \/ \E j \in Job : Enqueue(j) \/ BackoffEnds(j) \/ Cancel(j)
  \/ InstallAssets

Spec == Init /\ [][Next]_vars

(* The two-second timer and the event loop run every pass on; steady       *)
(* workers start; backoffs end.  Nothing says that a process dies, closes, *)
(* that assets are ever installed or that new work arrives.                *)
Fairness ==
  /\ \A w \in Worker : WF_vars(Pass(w))
  /\ \A w \in Steady : WF_vars(Spawn(w))
  /\ \A j \in Job : WF_vars(BackoffEnds(j))

FairSpec == Spec /\ Fairness

-----------------------------------------------------------------------------
(* Properties.                                                             *)

(* Local live identity wins over age, however long an encoder or an        *)
(* indexing pass keeps an owner from beating, with one exception: a live   *)
(* owner loses the lease by its own close(), or to a process of its own    *)
(* host whose ps prints in another zone or locale than the one in which    *)
(* the owner has recorded its start (claimLease, processStart).            *)
LeaseMove ==
  holder # None /\ holder' # holder
    => \/ ~Alive(holder)
       \/ holder' = None /\ holder \in stopped
       \/ /\ holder' # None /\ Host[holder'] = Host[holder]
          /\ holder \in KnownStart /\ Zone[holder'] # Zone[holder]
LiveOwnerYieldsOnlyAcrossZones == [][LeaseMove]_vars

(* What a job has committed grows only in the transaction of the process   *)
(* that holds the lease now, on the row it has claimed and nobody has      *)
(* cancelled or recovered since: a pass that was overtaken during its      *)
(* await, by another owner or by a forget, leaves nothing behind.          *)
Effect ==
  \A j \in Job : \A p \in vec'[j] \ vec[j] :
     /\ holder # None /\ pc[holder] = "commit" /\ cur[holder] = j
     /\ state[j] = "running" /\ owner[j] = holder
     /\ holder \notin aborted
FencedEffects == [][Effect]_vars

(* Work whose source was forgotten stays cancelled, whatever passes were   *)
(* running, recovered or finishing at the time, and nothing of it is       *)
(* written again.                                                          *)
Gone == \A j \in Job : state[j] = "cancelled" => state'[j] = "cancelled" /\ vec'[j] = {}
CancelledWorkStaysGone == [][Gone]_vars

(* A job counts as done only when everything it was to commit is           *)
(* committed, whatever owners and interruptions its batches went through.  *)
DoneIsComplete == \A j \in Job : state[j] = "done" => vec[j] = Target[j]

(* A running job is the current owner's, or that owner is just about to    *)
(* recover it: while an owner works, no row is left running for one that   *)
(* lost the lease.                                                         *)
RunningHasOwner ==
  \A j \in Job : state[j] = "running" =>
     holder # None /\ (owner[j] = holder \/ pc[holder] = "recover" \/ ~Alive(holder))

(* No job is claimable twice, and only unfinished unclaimed jobs are.      *)
QueueIsExact ==
  /\ IsInjective(queue)
  /\ \A j \in Job : /\ state[j] = "pending" => Claimable(j)
                    /\ Claimable(j) => state[j] \in {"pending", "retry"}

(* A claimed job does not stay running for ever: it is finished, given     *)
(* back or recovered from an owner that was killed.                        *)
RunningEnds == \A j \in Job : state[j] = "running" ~> state[j] # "running"

(* Queued work is taken up in the end, past jobs that fail and retry for   *)
(* ever, as long as some worker lives on.                                  *)
QueuedWorkRuns == \A j \in Job : state[j] = "pending" ~> state[j] # "pending"

=============================================================================
