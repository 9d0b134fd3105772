---------------------------- MODULE IndexCommand ----------------------------
(***************************************************************************)
(* `potsherd index` and the work it hands over (commands/index.ts).  A     *)
(* command that finds the maintenance lease free indexes in its own        *)
(* process; one that finds it taken writes a request to the spool          *)
(* directory, starts a detached child and polls for the result.  Children  *)
(* and long-lived servers (mcp/src/context.ts) run a MaintenanceWorker,    *)
(* which drains the spool into the job table and works the jobs off.       *)
(*                                                                         *)
(* All processes share one host: the owner of the lease row is replaced    *)
(* exactly when it is dead (see MaintenanceQueue).  A job is 'pending'     *)
(* here when it is due, 'retry' until its delay has passed.                *)
(***************************************************************************)
EXTENDS Naturals

CONSTANTS
  Cmd,        \* runs of `potsherd index`, each with its own request
  ChildOf,    \* the process a command may start, its own, by command
  Server,     \* MCP server processes
  Awkward,    \* requests whose insertion fails once
  MaxMishaps  \* kills and failing captures, together

ASSUME IndexAssumption ==
  /\ ChildOf \in [Cmd -> {ChildOf[c] : c \in Cmd}]
  /\ \A c, d \in Cmd : ChildOf[c] = ChildOf[d] => c = d
  /\ {ChildOf[c] : c \in Cmd} \cap (Cmd \cup Server) = {}
  /\ Cmd \cap Server = {} /\ Awkward \subseteq Cmd
  /\ MaxMishaps \in Nat

Child  == {ChildOf[c] : c \in Cmd}
Worker == Child \cup Server

VARIABLES
  cmdPc,      \* where each command is
  workerPc,   \* where each worker is
  lane,       \* the command in .lock index
  leaseRow,   \* the owner the lease row names, dead or alive
  spool,      \* commands whose request file exists
  row,        \* state of each request's job
  todo,       \* files of the directory listing a worker is going through
  stored,     \* the file it has committed as a job and not yet unlinked
  doing,      \* the job it is on
  published,  \* requests whose capture has been published
  asked,      \* requests ever written to the spool
  skipped,    \* those whose job a drain failed to insert
  mishaps

queueVars == <<spool, row, todo, stored, doing, published, asked, skipped>>
indexVars == <<cmdPc, workerPc, lane, leaseRow, queueVars, mishaps>>

CmdEnds    == {"reported", "queued", "failed", "dead"}
WorkerEnds == {"off", "refused", "dead"}

IndexTypeOK ==
  /\ cmdPc \in [Cmd -> CmdEnds \cup {"start", "lane", "claim", "index", "leave",
                                      "spool", "spawn", "poll", "indexed"}]
  /\ workerPc \in [Worker -> WorkerEnds \cup {"unborn", "open", "list", "next",
                                               "work", "finish", "rest"}]
  /\ lane \in SUBSET Cmd
  /\ leaseRow \in SUBSET (Cmd \cup Worker)
  /\ row \in [Cmd -> {"absent", "pending", "running", "retry", "done"}]
  /\ todo \in [Worker -> SUBSET Cmd]
  /\ stored \in [Worker -> SUBSET Cmd]
  /\ doing \in [Worker -> SUBSET Cmd]
  /\ spool \in SUBSET Cmd /\ published \in SUBSET Cmd
  /\ asked \in SUBSET Cmd /\ skipped \in SUBSET Cmd
  /\ mishaps \in Nat

IndexInit ==
  /\ cmdPc = [c \in Cmd |-> "start"]
  /\ workerPc = [w \in Worker |-> "unborn"]
  /\ lane = {} /\ leaseRow = {} /\ spool = {}
  /\ row = [c \in Cmd |-> "absent"]
  /\ todo = [w \in Worker |-> {}] /\ stored = [w \in Worker |-> {}]
  /\ doing = [w \in Worker |-> {}]
  /\ published = {} /\ asked = {} /\ skipped = {}
  /\ mishaps = 0

-----------------------------------------------------------------------------
Runs(p) == IF p \in Cmd THEN cmdPc[p] \notin CmdEnds
                        ELSE workerPc[p] \notin WorkerEnds \cup {"unborn"}

GoesTo(c, at)  == cmdPc' = [cmdPc EXCEPT ![c] = at]
WorkerTo(w, at) == workerPc' = [workerPc EXCEPT ![w] = at]

(* claimLease() on one host, then recoverJobs(): what a dead owner was     *)
(* running is due again.                                                   *)
MayClaim == \A o \in leaseRow : ~Runs(o)
Requeued == [c \in Cmd |-> IF row[c] = "running" THEN "pending" ELSE row[c]]
TakeLease(p) == leaseRow' = {p} /\ row' = Requeued

GiveUpLease(p) == leaseRow' = leaseRow \ {p}

Mishap == mishaps < MaxMishaps /\ mishaps' = mishaps + 1

-----------------------------------------------------------------------------
(* The command.                                                            *)

(* `owned`: does the lease row name anybody at all, alive or not?          *)
LookForOwner(c) ==
  /\ cmdPc[c] = "start"
  /\ GoesTo(c, IF leaseRow # {} THEN "spool" ELSE "lane")
  /\ UNCHANGED <<workerPc, lane, leaseRow, queueVars, mishaps>>

(* lock.withLockAsync('index', .., {wait: 2000}).                          *)
EnterLane(c) ==
  /\ cmdPc[c] = "lane" /\ \A h \in lane : ~Runs(h)
  /\ lane' = {c} /\ GoesTo(c, "claim")
  /\ UNCHANGED <<workerPc, leaseRow, queueVars, mishaps>>

LaneTimesOut(c) ==
  /\ cmdPc[c] = "lane" /\ \E h \in lane : Runs(h)
  /\ GoesTo(c, "failed")
  /\ UNCHANGED <<workerPc, lane, leaseRow, queueVars, mishaps>>

(* withPublicationLease(): the lease, or maintenance_busy and the spool.   *)
ClaimHere(c) ==
  /\ cmdPc[c] = "claim"
  /\ \/ MayClaim /\ TakeLease(c) /\ GoesTo(c, "index") /\ UNCHANGED lane
     \/ ~MayClaim /\ lane' = {} /\ GoesTo(c, "spool") /\ UNCHANGED <<leaseRow, row>>
  /\ UNCHANGED <<workerPc, spool, todo, stored, doing, published, asked, skipped, mishaps>>

PublishHere(c) ==
  /\ cmdPc[c] = "index" /\ leaseRow = {c}
  /\ published' = published \cup {c} /\ GoesTo(c, "leave")
  /\ UNCHANGED <<workerPc, lane, leaseRow, spool, row, todo, stored, doing, asked, skipped, mishaps>>

(* worker.close() in the finally, then the lane; the same when it throws.  *)
LeaveHere(c) ==
  /\ \/ cmdPc[c] = "leave" /\ GoesTo(c, "indexed") /\ UNCHANGED mishaps
     \/ cmdPc[c] = "index" /\ GoesTo(c, "failed") /\ Mishap
  /\ GiveUpLease(c) /\ lane' = {}
  /\ UNCHANGED <<workerPc, spool, row, todo, stored, doing, published, asked, skipped>>

(* spoolRequest(): written aside, synced and renamed.  With                *)
(* `maintain --enqueue-only` it is all the command does.                   *)
SpoolRequest(c) ==
  /\ \/ cmdPc[c] = "spool" /\ GoesTo(c, "spawn")
     \/ cmdPc[c] = "start" /\ GoesTo(c, "queued")
  /\ spool' = spool \cup {c} /\ asked' = asked \cup {c}
  /\ UNCHANGED <<workerPc, lane, leaseRow, row, todo, stored, doing, published, skipped, mishaps>>

(* startBackgroundEmbedding(), after spooling and after a report.  Nothing *)
(* is started while somebody holds 'embed' or when spawn() fails.  A       *)
(* command that spawns twice is given one child.                           *)
SpawnChild(c) ==
  /\ cmdPc[c] \in {"spawn", "indexed"}
  /\ GoesTo(c, IF cmdPc[c] = "spawn" THEN "poll" ELSE "reported")
  /\ \/ UNCHANGED workerPc
     \/ workerPc[ChildOf[c]] = "unborn" /\ WorkerTo(ChildOf[c], "open")
  /\ UNCHANGED <<lane, leaseRow, queueVars, mishaps>>

(* captureStatus(): the job is done and its last result says captured.     *)
PollSees(c) ==
  /\ cmdPc[c] = "poll" /\ row[c] = "done" /\ c \in published
  /\ GoesTo(c, "indexed")
  /\ UNCHANGED <<workerPc, lane, leaseRow, queueVars, mishaps>>

PollEnds(c) ==
  /\ cmdPc[c] = "poll"
  /\ GoesTo(c, "queued")
  /\ UNCHANGED <<workerPc, lane, leaseRow, queueVars, mishaps>>

KillCommand(c) ==
  /\ Runs(c) /\ cmdPc[c] # "start" /\ Mishap
  /\ GoesTo(c, "dead")
  /\ UNCHANGED <<workerPc, lane, leaseRow, queueVars>>

-----------------------------------------------------------------------------
(* The workers.                                                            *)

(* startMemoryMaintenance(): with a saved enrollment or any job debt.      *)
StartServer(s) ==
  /\ workerPc[s] = "unborn" /\ WorkerTo(s, "open")
  /\ UNCHANGED <<cmdPc, lane, leaseRow, queueVars, mishaps>>

(* acquire(): a server that is refused tries again on its timer; a child,  *)
(* whose drainOnce() returns, closes and is gone.                          *)
AcquireLease(w) ==
  /\ workerPc[w] = "open" /\ MayClaim
  /\ TakeLease(w) /\ WorkerTo(w, "list")
  /\ UNCHANGED <<cmdPc, lane, spool, todo, stored, doing, published, asked, skipped, mishaps>>

ChildRefused(w) ==
  /\ workerPc[w] = "open" /\ w \in Child /\ ~MayClaim
  /\ WorkerTo(w, "refused")
  /\ UNCHANGED <<cmdPc, lane, leaseRow, queueVars, mishaps>>

(* drainSpool() reads the directory once, at the start of a pass and, in a *)
(* server, on the timer while the pass awaits.                             *)
ListSpool(w) ==
  /\ todo[w] = {} /\ todo' = [todo EXCEPT ![w] = spool]
  /\ \/ workerPc[w] = "list" /\ WorkerTo(w, "next")
     \/ w \in Server /\ workerPc[w] = "work" /\ spool # {} /\ UNCHANGED workerPc
  /\ UNCHANGED <<cmdPc, lane, leaseRow, spool, row, stored, doing, published, asked, skipped, mishaps>>

(* A variant that upserts the row.                                         *)
EnqueueOver(w) ==
  /\ stored[w] = {} /\ \E f \in todo[w] :
       /\ row' = [row EXCEPT ![f] = "pending"] /\ stored' = [stored EXCEPT ![w] = {f}]
  /\ UNCHANGED <<cmdPc, workerPc, lane, leaseRow, spool, todo, doing, published, asked, skipped, mishaps>>

(* enqueueRequest(): INSERT .. ON CONFLICT DO NOTHING.                     *)
EnqueueFile(w) ==
  /\ stored[w] = {} /\ \E f \in todo[w] :
       /\ row' = IF row[f] = "absent" THEN [row EXCEPT ![f] = "pending"] ELSE row
       /\ stored' = [stored EXCEPT ![w] = {f}]
  /\ UNCHANGED <<cmdPc, workerPc, lane, leaseRow, spool, todo, doing, published, asked, skipped, mishaps>>

(* A variant that clears away what it cannot insert.                       *)
EnqueueDrops(w) ==
  /\ stored[w] = {} /\ \E f \in (todo[w] \cap Awkward) \ skipped :
       /\ todo' = [todo EXCEPT ![w] = @ \ {f}] /\ spool' = spool \ {f}
       /\ skipped' = skipped \cup {f}
  /\ UNCHANGED <<cmdPc, workerPc, lane, leaseRow, row, stored, doing, published, asked, mishaps>>

(* .. or it throws and the file is kept for the next drain.                *)
EnqueueFails(w) ==
  /\ stored[w] = {} /\ \E f \in (todo[w] \cap Awkward) \ skipped :
       /\ todo' = [todo EXCEPT ![w] = @ \ {f}]
       /\ skipped' = skipped \cup {f}
  /\ UNCHANGED <<cmdPc, workerPc, lane, leaseRow, spool, row, stored, doing, published, asked, mishaps>>

UnlinkFile(w) ==
  /\ stored[w] # {} /\ spool' = spool \ stored[w]
  /\ todo' = [todo EXCEPT ![w] = @ \ stored[w]]
  /\ stored' = [stored EXCEPT ![w] = {}]
  /\ UNCHANGED <<cmdPc, workerPc, lane, leaseRow, row, doing, published, asked, skipped, mishaps>>

ClaimDue(w) ==
  /\ workerPc[w] = "next" /\ todo[w] = {}
  /\ \E c \in Cmd : /\ row[c] = "pending"
                    /\ row' = [row EXCEPT ![c] = "running"]
                    /\ doing' = [doing EXCEPT ![w] = {c}]
  /\ WorkerTo(w, "work")
  /\ UNCHANGED <<cmdPc, lane, leaseRow, spool, todo, stored, published, asked, skipped, mishaps>>

(* indexAll() under the fence, then recordCaptureResult().                 *)
PublishRequest(w) ==
  /\ workerPc[w] = "work" /\ todo[w] = {} /\ leaseRow = {w}
  /\ published' = published \cup doing[w]
  /\ WorkerTo(w, "finish")
  /\ UNCHANGED <<cmdPc, lane, leaseRow, spool, row, todo, stored, doing, asked, skipped, mishaps>>

(* finishJob(): 'done', or 'retry' after a failed capture.                 *)
FinishRequest(w) ==
  /\ \/ workerPc[w] = "finish" /\ UNCHANGED mishaps
     \/ workerPc[w] = "work" /\ todo[w] = {} /\ Mishap
  /\ row' = [c \in Cmd |-> IF c \notin doing[w] THEN row[c]
                           ELSE IF workerPc[w] = "finish" THEN "done" ELSE "retry"]
  /\ doing' = [doing EXCEPT ![w] = {}]
  /\ WorkerTo(w, "next")
  /\ UNCHANGED <<cmdPc, lane, leaseRow, spool, todo, stored, published, asked, skipped>>

RetryFallsDue(c) ==
  /\ row[c] = "retry" /\ row' = [row EXCEPT ![c] = "pending"]
  /\ UNCHANGED <<cmdPc, workerPc, lane, leaseRow, spool, todo, stored, doing,
                 published, asked, skipped, mishaps>>

(* No job is due: a server rests until its timer, a child closes.          *)
PassEnds(w) ==
  /\ workerPc[w] = "next" /\ todo[w] = {} /\ \A c \in Cmd : row[c] # "pending"
  /\ \/ w \in Server /\ WorkerTo(w, "rest") /\ UNCHANGED leaseRow
     \/ w \in Child  /\ WorkerTo(w, "off") /\ GiveUpLease(w)
  /\ UNCHANGED <<cmdPc, lane, spool, row, todo, stored, doing, published, asked, skipped, mishaps>>

(* A variant whose timer looks only for jobs that are due.                 *)
ServerTimerForJobs(s) ==
  /\ workerPc[s] = "rest" /\ \E c \in Cmd : row[c] = "pending"
  /\ WorkerTo(s, "list")
  /\ UNCHANGED <<cmdPc, lane, leaseRow, queueVars, mishaps>>

ServerTimer(s) ==
  /\ workerPc[s] = "rest" /\ WorkerTo(s, "list")
  /\ UNCHANGED <<cmdPc, lane, leaseRow, queueVars, mishaps>>

StopWorker(w, at) ==
  /\ WorkerTo(w, at)
  /\ todo' = [todo EXCEPT ![w] = {}] /\ stored' = [stored EXCEPT ![w] = {}]
  /\ doing' = [doing EXCEPT ![w] = {}]
  /\ UNCHANGED <<cmdPc, lane, spool, published, asked, skipped>>

(* close() aborts the pass and waits for it: the running capture goes back *)
(* as 'retry', one that is already published is finished first.            *)
CloseServer(s) ==
  /\ Runs(s) /\ workerPc[s] # "finish" /\ todo[s] = {}
  /\ row' = [c \in Cmd |-> IF c \in doing[s] THEN "retry" ELSE row[c]]
  /\ GiveUpLease(s)
  /\ StopWorker(s, "off") /\ UNCHANGED mishaps

KillWorker(w) ==
  /\ Runs(w) /\ Mishap
  /\ StopWorker(w, "dead") /\ UNCHANGED <<leaseRow, row>>

-----------------------------------------------------------------------------
CommandStep(c) ==
  \/ LookForOwner(c) \/ EnterLane(c) \/ LaneTimesOut(c) \/ ClaimHere(c) \/ PublishHere(c)
  \/ LeaveHere(c) \/ SpoolRequest(c) \/ SpawnChild(c) \/ PollSees(c) \/ PollEnds(c)

WorkerStep(w) ==
  \/ AcquireLease(w) \/ ChildRefused(w) \/ ListSpool(w) \/ EnqueueFile(w) \/ EnqueueFails(w)
  \/ UnlinkFile(w) \/ ClaimDue(w) \/ PublishRequest(w) \/ FinishRequest(w) \/ PassEnds(w)

IndexNext ==
  \/ \E c \in Cmd : CommandStep(c) \/ RetryFallsDue(c) \/ KillCommand(c)
  \/ \E w \in Worker : WorkerStep(w) \/ KillWorker(w)
  \/ \E s \in Server : StartServer(s) \/ ServerTimer(s) \/ CloseServer(s)

IndexSpec == IndexInit /\ [][IndexNext]_indexVars

-----------------------------------------------------------------------------
(* A request written to the spool is in the spool or in the job table      *)
(* whatever is killed, and a command reports an index, as its job is done, *)
(* only when its capture was published.  A child that got the lease leaves *)
(* nothing of its parent in the spool: what may stay behind is the request *)
(* of a command whose child was refused, killed or not started.            *)
KeptOrCarriedOut ==
  /\ \A c \in asked : c \in spool \/ row[c] # "absent"
  /\ \A c \in Cmd : (row[c] = "done" \/ cmdPc[c] = "reported") => c \in published
  /\ \A c \in asked : workerPc[ChildOf[c]] = "off" => (c \notin spool \/ c \in skipped)

(* A job that is done stays done: a request file that a kill left behind   *)
(* after its job was committed is replayed without running it again.       *)
SettledOnce == [][\A c \in Cmd : row[c] = "done" => row'[c] = "done"]_indexVars

(* A spooled request is neither lost nor carried out twice.                *)
RequestIsKept == []KeptOrCarriedOut /\ SettledOnce

(* While a server runs, every request in the spool is carried out, also    *)
(* one whose own child was refused.                                        *)
ServedWhileServerRuns ==
  \A c \in Cmd : c \in spool ~> (row[c] = "done" \/ \A s \in Server : ~Runs(s))

=============================================================================
