------------------------------ MODULE AuditRun ------------------------------
(***************************************************************************)
(* One run of the audit: AuditSession.run() (analytics/index.ts) reads the *)
(* history files that are not cached on a pool of threads                  *)
(* (analytics/scan-pool.ts), aggregates, asks models if it may, closes the *)
(* pool and returns.  On a terminal it runs in a child process             *)
(* (audit-background.ts) that the renderer starts, asks by message, may    *)
(* cancel and kills if it lingers; otherwise it runs in the process.       *)
(*                                                                         *)
(* A step is a task of one event loop, or a thread's reading of one file.  *)
(* `run` is the one request that the terminal makes.  A model call is      *)
(* announced once, and the renderer acknowledges what it has painted.      *)
(***************************************************************************)
EXTENDS Naturals, Sequences

CONSTANTS
  Files,       \* history files, the largest first
  Threads,     \* defaultThreads()
  MaxCrashes   \* of threads and of the child, together

HistoryFile == 1 .. Files
Thread      == 1 .. Threads

ASSUME AuditAssumption == Files \in Nat /\ Threads \in Nat \ {0} /\ MaxCrashes \in Nat

VARIABLES
  host,       \* "here" or "child": where the session runs
  runPc,      \* what run() is for its caller
  stopped,    \* {TRUE} once the caller called cancel()
  left,       \* {TRUE} once the renderer's process is gone
  child,      \* the child: "up", "down", or "reaped" when its exit was noticed
  toChild,    \* messages under way
  toRenderer,
  notice,     \* of a model call
  sessPc,     \* where the session is
  sessErr,    \* {TRUE} once it threw
  unread,     \* the pool: its queue
  pool,       \* its threads, without the crashed and the terminated
  reading,    \* the file each was given and has not answered for; 0: none
  posted,     \* threads whose answer is under way
  fallen,     \* threads whose error is under way
  scanDone,   \* {TRUE} once scan() has returned
  reported,   \* how often the facts of each file were counted
  crashes

callerVars  == <<host, runPc, stopped, left>>
ipcVars     == <<child, toChild, toRenderer, notice>>
sessionVars == <<sessPc, sessErr>>
poolState   == <<unread, pool, reading, posted, fallen, scanDone, reported>>
auditVars   == <<callerVars, ipcVars, sessionVars, poolState, crashes>>

RunEnds == {"answered", "cancelled", "failed"}

AuditTypeOK ==
  /\ host \in {"here", "child"}
  /\ runPc \in RunEnds \cup {"idle", "starting", "pending"}
  /\ stopped \in SUBSET {TRUE} /\ left \in SUBSET {TRUE}
  /\ child \in {"none", "up", "down", "reaped"}
  /\ toChild \in Seq({"init", "run", "ack", "cancel"})
  /\ toRenderer \in Seq({"ready", "transfer", "result", "error"})
  /\ notice \in {"none", "sent", "shown", "acked", "given"}
  /\ sessPc \in {"off", "scan", "models", "close", "over"} /\ sessErr \in SUBSET {TRUE}
  /\ unread \in Seq(HistoryFile)
  /\ pool \in SUBSET Thread /\ reading \in [Thread -> HistoryFile \cup {0}]
  /\ posted \in SUBSET Thread /\ fallen \in SUBSET Thread
  /\ scanDone \in SUBSET {TRUE} /\ reported \in [HistoryFile -> Nat]
  /\ crashes \in Nat

AuditInit ==
  /\ host \in {"here", "child"} /\ runPc = "idle" /\ stopped = {} /\ left = {}
  /\ child = "none" /\ toChild = <<>> /\ toRenderer = <<>> /\ notice = "none"
  /\ sessPc = "off" /\ sessErr = {}
  /\ unread = <<>> /\ pool = {} /\ reading = [t \in Thread |-> 0]
  /\ posted = {} /\ fallen = {} /\ scanDone = {}
  /\ reported = [f \in HistoryFile |-> 0] /\ crashes = 0

(* The process of the session runs; its signal is aborted.  A child that is *)
(* told to cancel exits in the same task.                                  *)
Alive   == host = "here" \/ child = "up"
Aborted == host = "here" /\ stopped # {}
Present == left = {}

-----------------------------------------------------------------------------
(* The pool.                                                               *)

Count(fs) == reported' = [f \in HistoryFile |-> reported[f] + (IF f \in fs THEN 1 ELSE 0)]
Report(fs) == Count(IF scanDone = {} THEN fs ELSE {})

(* A variant that finishes with the queue, whoever is still reading.       *)
QueueIsEnough(reads) == TRUE

(* `active` is 0.                                                          *)
NoneActive(reads) == \A t \in Thread : reads[t] = 0

Finished(reads) == scanDone' = IF NoneActive(reads) THEN {TRUE} ELSE scanDone

(* The facts of `n` files are not cached; each of the first threads is     *)
(* given one.  The synchronous rest of run() may throw.                    *)
BeginScan ==
  \E n \in 0 .. Files :
    LET busy == {t \in Thread : t <= n} IN
    /\ unread' = [i \in 1 .. (IF n > Threads THEN n - Threads ELSE 0) |-> i + Threads]
    /\ pool' = busy
    /\ reading' = [t \in Thread |-> IF t \in busy THEN t ELSE 0]
    /\ scanDone' = IF n = 0 THEN {TRUE} ELSE {}
    /\ Count((n + 1) .. Files)
    /\ \/ sessPc' = "scan" /\ UNCHANGED sessErr
       \/ sessPc' = "close" /\ sessErr' = {TRUE}
    /\ UNCHANGED <<posted, fallen>>

ThreadReads(t) ==
  /\ Alive /\ t \in pool /\ reading[t] # 0 /\ t \notin posted \cup fallen
  /\ posted' = posted \cup {t}
  /\ UNCHANGED <<callerVars, ipcVars, sessionVars, unread, pool, reading, fallen, scanDone,
                 reported, crashes>>

ThreadCrashes(t) ==
  /\ Alive /\ t \in pool /\ reading[t] # 0 /\ t \notin posted \cup fallen
  /\ crashes < MaxCrashes /\ crashes' = crashes + 1
  /\ fallen' = fallen \cup {t}
  /\ UNCHANGED <<callerVars, ipcVars, sessionVars, unread, pool, reading, posted, scanDone,
                 reported>>

(* onMessage() and feed(): the next file, or the end of the scan.          *)
ThreadAnswers(t) ==
  /\ Alive /\ t \in posted /\ posted' = posted \ {t}
  /\ Report({reading[t]})
  /\ IF scanDone = {} /\ unread # <<>>
       THEN /\ reading' = [reading EXCEPT ![t] = Head(unread)]
            /\ unread' = Tail(unread)
            /\ UNCHANGED scanDone
       ELSE /\ reading' = [reading EXCEPT ![t] = 0]
            /\ Finished(reading') /\ UNCHANGED unread
  /\ UNCHANGED <<callerVars, ipcVars, sessionVars, pool, fallen, crashes>>

(* A variant that reads the file of the thread and leaves the queue to the *)
(* others, of whom there may be none.                                      *)
LeftToOthers(t) == {}

(* The files nobody is left to read.                                       *)
NobodyReads(t) == IF pool \ {t} = {} THEN {unread[i] : i \in DOMAIN unread} ELSE {}

(* onError(): a crashed thread loses only its file, which is read here.    *)
ThreadFails(t) ==
  /\ Alive /\ t \in fallen /\ fallen' = fallen \ {t}
  /\ pool' = pool \ {t}
  /\ reading' = [reading EXCEPT ![t] = 0]
  /\ Report({reading[t]} \cup NobodyReads(t))
  /\ unread' = IF NobodyReads(t) = {} THEN unread ELSE <<>>
  /\ IF unread' = <<>> THEN Finished(reading') ELSE UNCHANGED scanDone
  /\ UNCHANGED <<callerVars, ipcVars, sessionVars, posted, crashes>>

(* close() terminates the threads: they answer nothing more, not even      *)
(* with an error.                                                          *)
ClosePool == pool' = {} /\ fallen' = {} /\ UNCHANGED <<unread, reading, posted, reported>>

-----------------------------------------------------------------------------
(* The session.                                                            *)

(* After the scan: cancelled, or aggregated and perhaps shown to models.   *)
ScanReturns ==
  /\ Alive /\ sessPc = "scan" /\ scanDone # {}
  /\ \/ sessPc' = "close" /\ UNCHANGED sessErr
     \/ ~Aborted /\ sessPc' = "close" /\ sessErr' = {TRUE}
     \/ ~Aborted /\ sessPc' = "models" /\ UNCHANGED sessErr
  /\ UNCHANGED <<callerVars, ipcVars, poolState, crashes>>

(* onTransfer(): in the process the notice is written at once.             *)
AnnounceTransfer ==
  /\ Alive /\ sessPc = "models" /\ notice = "none" /\ ~Aborted
  /\ IF host = "here"
       THEN notice' = "given" /\ UNCHANGED toRenderer
       ELSE notice' = "sent" /\ toRenderer' = Append(toRenderer, "transfer")
  /\ UNCHANGED <<callerVars, child, toChild, sessionVars, poolState, crashes>>

ModelsEnd ==
  /\ Alive /\ sessPc = "models" /\ notice \in {"none", "given"}
  /\ sessPc' = "close"
  /\ UNCHANGED <<callerVars, ipcVars, sessErr, poolState, crashes>>

(* finally: the pool is closed before run() returns or throws.             *)
SessionReturns ==
  /\ Alive /\ sessPc = "close" /\ sessPc' = "over"
  /\ ClosePool
  /\ IF host = "here"
       THEN /\ runPc' = IF sessErr # {} THEN "failed"
                        ELSE IF stopped # {} THEN "cancelled" ELSE "answered"
            /\ UNCHANGED toRenderer
       ELSE /\ toRenderer' = Append(toRenderer, IF sessErr # {} THEN "error" ELSE "result")
            /\ UNCHANGED runPc
  /\ UNCHANGED <<host, stopped, left, child, toChild, notice, sessErr, scanDone, crashes>>

-----------------------------------------------------------------------------
(* The caller, and the child it owns.                                      *)

StartRun ==
  /\ Present /\ runPc = "idle"
  /\ IF host = "here"
       THEN runPc' = "pending" /\ BeginScan /\ UNCHANGED <<child, toChild>>
       ELSE /\ IF stopped # {}
                 THEN runPc' = "cancelled" /\ UNCHANGED <<child, toChild>>
                 ELSE runPc' = "starting" /\ child' = "up" /\ toChild' = <<"init">>
            /\ UNCHANGED <<sessionVars, poolState>>
  /\ UNCHANGED <<host, stopped, left, toRenderer, notice, crashes>>

Kept(queue, message) == IF child = "up" THEN Append(queue, message) ELSE queue

(* What arrives after a cancel is dropped, and so is the answer to a       *)
(* request that is settled.                                                *)
RendererReceives ==
  /\ Present /\ toRenderer # <<>> /\ toRenderer' = Tail(toRenderer)
  /\ LET m == Head(toRenderer) IN
     /\ runPc' = IF stopped # {} THEN runPc
                 ELSE CASE m = "ready"  /\ runPc = "starting" -> "pending"
                        [] m = "result" /\ runPc = "pending"  -> "answered"
                        [] m = "error"  /\ runPc = "pending"  -> "failed"
                        [] OTHER -> runPc
     /\ toChild' = IF runPc = "starting" /\ runPc' = "pending" THEN Kept(toChild, "run")
                                                              ELSE toChild
     /\ notice' = IF m = "transfer" /\ stopped = {} THEN "shown" ELSE notice
  /\ UNCHANGED <<host, stopped, left, child, sessionVars, poolState, crashes>>

Acknowledge ==
  /\ Present /\ notice = "shown" /\ stopped = {} /\ child = "up"
  /\ notice' = "acked" /\ toChild' = Append(toChild, "ack")
  /\ UNCHANGED <<callerVars, child, toRenderer, sessionVars, poolState, crashes>>

ChildReceives ==
  /\ child = "up" /\ toChild # <<>> /\ toChild' = Tail(toChild)
  /\ LET m == Head(toChild) IN
     /\ child' = IF m = "cancel" THEN "down" ELSE child
     /\ toRenderer' = IF m = "init" THEN Append(toRenderer, "ready") ELSE toRenderer
     /\ notice' = IF m = "ack" THEN "given" ELSE notice
     /\ IF m = "run" THEN BeginScan ELSE UNCHANGED <<sessionVars, poolState>>
  /\ UNCHANGED <<callerVars, crashes>>

(* failAll() settles what is pending when the child's exit is noticed; its *)
(* last messages may come later.                                           *)
ExitNoticed ==
  /\ Present /\ child = "down" /\ child' = "reaped"
  /\ runPc' = IF stopped = {} /\ runPc \in {"starting", "pending"} THEN "failed" ELSE runPc
  /\ UNCHANGED <<host, stopped, left, toChild, toRenderer, notice, sessionVars, poolState,
                 crashes>>

(* cancel(): the user quits, a signal comes, or the caller disposes of the *)
(* session once it is done with it.                                        *)
Cancel ==
  /\ Present /\ stopped = {} /\ stopped' = {TRUE}
  /\ IF host = "here"
       THEN /\ runPc # "idle"
            /\ scanDone' = IF sessPc = "scan" THEN {TRUE} ELSE scanDone
            /\ ClosePool /\ UNCHANGED <<runPc, toChild>>
       ELSE /\ runPc' = IF runPc \in {"starting", "pending"} THEN "cancelled" ELSE runPc
            /\ toChild' = Kept(toChild, "cancel")
            /\ UNCHANGED poolState
  /\ UNCHANGED <<host, left, child, toRenderer, notice, sessionVars, crashes>>

(* The timers of cancel(): SIGTERM, then SIGKILL.                          *)
KillChild ==
  /\ Present /\ stopped # {} /\ child = "up" /\ child' = "down"
  /\ UNCHANGED <<callerVars, toChild, toRenderer, notice, sessionVars, poolState, crashes>>

(* The renderer ends or is killed, with its timers.                        *)
RendererLeaves ==
  /\ Present /\ host = "child" /\ left' = {TRUE}
  /\ UNCHANGED <<host, runPc, stopped, ipcVars, sessionVars, poolState, crashes>>

ChildDisconnects ==
  /\ ~Present /\ child = "up" /\ child' = "down"
  /\ UNCHANGED <<callerVars, toChild, toRenderer, notice, sessionVars, poolState, crashes>>

ChildCrashes ==
  /\ child = "up" /\ child' = "down"
  /\ crashes < MaxCrashes /\ crashes' = crashes + 1
  /\ UNCHANGED <<callerVars, toChild, toRenderer, notice, sessionVars, poolState>>

-----------------------------------------------------------------------------
AuditStep ==
  \/ \E t \in Thread : ThreadReads(t) \/ ThreadAnswers(t) \/ ThreadFails(t)
  \/ ScanReturns \/ AnnounceTransfer \/ ModelsEnd \/ SessionReturns
  \/ RendererReceives \/ Acknowledge \/ ChildReceives
  \/ ExitNoticed \/ KillChild \/ ChildDisconnects

AuditNext ==
  \/ AuditStep
  \/ StartRun \/ Cancel \/ RendererLeaves \/ ChildCrashes
  \/ \E t \in Thread : ThreadCrashes(t)

AuditSpec == AuditInit /\ [][AuditNext]_auditVars /\ WF_auditVars(AuditStep)

(* No file is counted twice, whatever crashes, and a run that goes on to   *)
(* aggregate or is answered has counted every one of them.                 *)
EveryFileOnce ==
  \A f \in HistoryFile :
    /\ reported[f] <= 1
    /\ sessPc = "models" \/ runPc = "answered" => reported[f] = 1

(* In the end run() has settled for its caller, if the caller is there,    *)
(* no child outlives a cancel or its renderer, and the files were counted  *)
(* once; counts only go up, so they were at every time before.             *)
AuditRests ==
  /\ EveryFileOnce
  /\ Present => runPc \notin {"starting", "pending"}
  /\ stopped # {} \/ ~Present => child # "up"

=============================================================================
