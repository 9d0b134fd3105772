------------------------------- MODULE DirLock -------------------------------
(***************************************************************************)
(* The single-writer lock over the archive root (packages/core/src/lock.ts)*)
(* at the granularity of its file-system calls.  A lane is a directory; a  *)
(* process owns the lane while the directory at the lane's path holds the  *)
(* record it published there.  Every acquire() call is a Call with its own *)
(* token, so its own record name.  Calls run in processes that may die     *)
(* between any two system calls and whose pids may be given to a later     *)
(* process.  One instance of this module is one lane.                      *)
(*                                                                         *)
(* Left out: the private staging directory (nobody but its owner names     *)
(* it), the text of LockBusyError, and the value of the clock: a           *)
(* directory's age is the one bit "older than STALE_MS".                   *)
(***************************************************************************)
EXTENDS FiniteSets

CONSTANTS
  Call,        \* acquire() calls; a call is also the record it publishes
  Proc,        \* process incarnations
  ProcOf,      \* the process that makes a call
  Pid,         \* the pid the kernel gives an incarnation
  Host,        \* the host it runs on
  LegacyProc,  \* the process an old build's owner.json names, or NoProc
  NoProc,      \* "that owner.json cannot be parsed"
  NoFile       \* readOwner() saw no owner record

Legacy == "owner.json"  \* the one record name of old builds
Extra  == "unknown"     \* a file that is not an owner record
Files  == Call \cup {Legacy, Extra}

ASSUME CallAssumption ==
  /\ ProcOf \in [Call -> Proc]
  /\ Legacy \notin Call
  /\ Extra \notin Call
  /\ NoFile \notin Files
ASSUME ProcAssumption ==
  /\ LegacyProc \in Proc \cup {NoProc}
  /\ NoProc \notin Proc
  /\ \A c \in Call : ProcOf[c] # LegacyProc

VARIABLES
  pc,       \* where each call is
  seen,     \* the record file readOwner() picked, per call
  ident,    \* the calls whose picked record could be read and names a process
  birth,    \* the calls whose own record carries a process birth identity
  life,     \* "unborn", "alive" or "dead", per process
  present,  \* the lane's directory exists
  records,  \* the files in it
  aged      \* its mtime is more than STALE_MS old

dirVars == <<present, records, aged>>
vars == <<pc, seen, ident, birth, life, present, records, aged>>

(***************************************************************************)
(* Labels.  acquire() runs "check" .. "open" synchronously: a process      *)
(* cannot run anything else of its own meanwhile; release() likewise runs  *)
(* "drop" and "dropDir".                                                   *)
(***************************************************************************)
Waiting == {"check", "list", "read", "recheck", "judge", "unlink", "rmdir",
            "after", "busy", "publish"}
Owning  == {"open", "held", "drop"}   \* published, own record not yet removed
Ended   == {"dropDir", "done"}        \* own record removed
Labels  == {"idle", "refused"} \cup Waiting \cup Owning \cup Ended
Synchronous == Waiting \cup {"open", "drop", "dropDir"}

Live(c) == life[ProcOf[c]] = "alive"
Owns(c) == Live(c) /\ pc[c] \in Owning
LegacyLive == LegacyProc \in Proc /\ life[LegacyProc] = "alive"

TypeOK ==
  /\ pc \in [Call -> Labels]
  /\ seen \in [Call -> Call \cup {Legacy, NoFile}]
  /\ ident \in SUBSET Call
  /\ birth \in SUBSET Call
  /\ life \in [Proc -> {"unborn", "alive", "dead"}]
  /\ present \in BOOLEAN
  /\ records \in SUBSET Files
  /\ aged \in BOOLEAN
  /\ records # {} => present

(* The lane may hold what an earlier run left: nothing, an empty           *)
(* directory, an old build's record, files nobody knows.  An old build's   *)
(* process that still runs has its record in place.                        *)
Init ==
  /\ pc = [c \in Call |-> "idle"]
  /\ seen = [c \in Call |-> NoFile]
  /\ ident = {}
  /\ birth = {}
  /\ life \in [Proc -> {"unborn", "alive", "dead"}]
  /\ \A p \in Proc : life[p] = "unborn" <=> p # LegacyProc
  /\ present \in BOOLEAN
  /\ records \in SUBSET {Legacy, Extra}
  /\ records # {} => present
  /\ LegacyLive => Legacy \in records
  /\ aged \in BOOLEAN

-----------------------------------------------------------------------------
(* Processes.  A pid is reused only after its process is gone.             *)

SameSlot(p, q) == Host[p] = Host[q] /\ Pid[p] = Pid[q]

Spawn(p) ==
  /\ life[p] = "unborn"
  /\ \A q \in Proc : life[q] = "alive" => ~SameSlot(p, q)
  /\ life' = [life EXCEPT ![p] = "alive"]
  /\ UNCHANGED <<pc, seen, ident, birth, dirVars>>

Die(p) ==
  /\ life[p] = "alive"
  /\ life' = [life EXCEPT ![p] = "dead"]
  /\ UNCHANGED <<pc, seen, ident, birth, dirVars>>

(* Five minutes pass without a stamp on the directory.                     *)
Age ==
  /\ present /\ ~aged
  /\ aged' = TRUE
  /\ UNCHANGED <<pc, seen, ident, birth, life, present, records>>

-----------------------------------------------------------------------------
(* What a caller can find out about the process a record names.            *)

OwnerOf(f)  == IF f \in Call THEN ProcOf[f] ELSE LegacyProc
Readable(f) == f \in records /\ OwnerOf(f) \in Proc
HasBirth(f) == f \in Call /\ f \in birth

PidAlive(p) == \E q \in Proc : life[q] = "alive" /\ SameSlot(p, q)

(* A slip: only another birth counts, and that of a pid that is gone       *)
(* cannot be read.                                                         *)
OwnerGoneByBirth(f, readBirth) ==
  /\ HasBirth(f) /\ readBirth /\ PidAlive(OwnerOf(f))
  /\ \A q \in Proc : life[q] = "alive" /\ SameSlot(OwnerOf(f), q) => q # OwnerOf(f)

(* isStale() for an identified holder of the caller's own host: its pid is *)
(* gone, or the pid belongs to a process born at another time.  Reading    *)
(* the birth identity may fail (readBirth FALSE): a live pid is then kept. *)
OwnerGone(f, readBirth) ==
  LET p == OwnerOf(f) IN
  \/ ~PidAlive(p)
  \/ /\ HasBirth(f) /\ readBirth
     /\ \A q \in Proc : life[q] = "alive" /\ SameSlot(p, q) => q # p

(* Slips this rule must not make: the expiry every lock once had, a pid    *)
(* taken for an identity of its own, a foreign owner probed as if local.   *)
IsStaleByAge(c, readBirth) ==
  \/ c \in ident /\ (aged \/ OwnerGone(seen[c], readBirth))
  \/ c \notin ident /\ (aged \/ ~present)
IsStaleAnyHost(c, readBirth) ==
  \/ /\ c \in ident
     /\ \A q \in Proc : life[q] = "alive" /\ Host[q] = Host[ProcOf[c]]
                      => Pid[q] # Pid[OwnerOf(seen[c])]
  \/ c \notin ident /\ (aged \/ ~present)
IsStaleNoGrace(c, readBirth) ==
  \/ c \in ident /\ OwnerGone(seen[c], readBirth)
  \/ FALSE

IsStale(c, readBirth) ==
  \/ /\ c \in ident
     /\ Host[OwnerOf(seen[c])] = Host[ProcOf[c]]
     /\ OwnerGone(seen[c], readBirth)
  \/ c \notin ident /\ (aged \/ ~present)

-----------------------------------------------------------------------------
(* acquire().                                                              *)

Free(p) == \A c \in Call : ProcOf[c] = p => pc[c] \notin Synchronous

At(c, label)   == Live(c) /\ pc[c] = label
Goto(c, label) == pc' = [pc EXCEPT ![c] = label]
Forget(c)      == /\ seen' = [seen EXCEPT ![c] = NoFile]
                  /\ ident' = ident \ {c}

Begin(c) ==
  /\ At(c, "idle")
  /\ Free(ProcOf[c])
  /\ birth' \in {birth, birth \cup {c}}
  /\ Goto(c, "check")
  /\ UNCHANGED <<seen, ident, life, dirVars>>

(* fs.existsSync(lockPath) ? readOwner(lockPath) : null                    *)
Check(c) ==
  /\ At(c, "check")
  /\ Forget(c)
  /\ Goto(c, IF present THEN "list" ELSE "recheck")
  /\ UNCHANGED <<birth, life, dirVars>>

(* readdir: any per-token record; the old name only if there is none.      *)
List(c) ==
  /\ At(c, "list")
  /\ LET candidates == IF records \cap Call # {} THEN records \cap Call
                       ELSE records \cap {Legacy}
     IN IF candidates = {}
        THEN Goto(c, "recheck") /\ UNCHANGED seen
        ELSE /\ \E f \in candidates : seen' = [seen EXCEPT ![c] = f]
             /\ Goto(c, "read")
  /\ UNCHANGED <<ident, birth, life, dirVars>>

(* readFile and JSON.parse: the record may have gone since the listing.    *)
Read(c) ==
  /\ At(c, "read")
  /\ ident' = IF Readable(seen[c]) THEN ident \cup {c} ELSE ident
  /\ Goto(c, "recheck")
  /\ UNCHANGED <<seen, birth, life, dirVars>>

Recheck(c) ==
  /\ At(c, "recheck")
  /\ Goto(c, IF present THEN "judge" ELSE "publish")
  /\ UNCHANGED <<seen, ident, birth, life, dirVars>>

Judge(c) ==
  /\ At(c, "judge")
  /\ \E readBirth \in BOOLEAN :
       Goto(c, IF ~IsStale(c, readBirth) THEN "busy"
               ELSE IF seen[c] = NoFile THEN "rmdir" ELSE "unlink")
  /\ UNCHANGED <<seen, ident, birth, life, dirVars>>

(* The two calls of retire(lockPath, file).  A failing unlink skips rmdir; *)
(* rmdir removes only an empty directory.                                  *)
UnlinkRecord(c, f, next, skip) ==
  /\ IF f \in records
     THEN records' = records \ {f} /\ aged' = FALSE /\ Goto(c, next)
     ELSE UNCHANGED <<records, aged>> /\ Goto(c, skip)
  /\ UNCHANGED <<seen, ident, birth, life, present>>

RemoveDirBlindly(c, next) ==
  /\ present' = FALSE
  /\ Goto(c, next)
  /\ UNCHANGED <<seen, ident, birth, life, records, aged>>
RemoveTree(c, next) ==
  /\ present' = FALSE
  /\ records' = {}
  /\ Goto(c, next)
  /\ UNCHANGED <<seen, ident, birth, life, aged>>

RemoveDir(c, next) ==
  /\ present' = (present /\ records # {})
  /\ Goto(c, next)
  /\ UNCHANGED <<seen, ident, birth, life, records, aged>>

Unlink(c) == At(c, "unlink") /\ UnlinkRecord(c, seen[c], "rmdir", "after")
Rmdir(c)  == At(c, "rmdir") /\ RemoveDir(c, "after")

After(c) ==
  /\ At(c, "after")
  /\ Goto(c, IF present THEN "busy" ELSE "check")
  /\ UNCHANGED <<seen, ident, birth, life, dirVars>>

(* acquire() throws: the deadline is over, or the rename fails for another *)
(* reason than a directory in the way.  Its private claim is removed.      *)
Refuse(c) ==
  /\ At(c, "busy") \/ At(c, "publish")
  /\ Goto(c, "refused")
  /\ Forget(c)
  /\ UNCHANGED <<birth, life, dirVars>>

(* Another hundred milliseconds of sleep before the deadline.              *)
Sleep(c) ==
  /\ At(c, "busy")
  /\ Goto(c, "check")
  /\ UNCHANGED <<seen, ident, birth, life, dirVars>>

(* rename(claim, lockPath) replaces nothing or an empty directory.  The    *)
(* claim's own mtime may already be old: it was written before the wait.   *)
PublishOver(c) ==
  /\ At(c, "publish")
  /\ present' = TRUE
  /\ records' = records \cup {c}
  /\ aged' \in BOOLEAN
  /\ Goto(c, "open")
  /\ Forget(c)
  /\ UNCHANGED <<birth, life>>

Publish(c) ==
  /\ At(c, "publish")
  /\ IF records = {}
     THEN /\ present' = TRUE
          /\ records' = {c}
          /\ aged' \in BOOLEAN
          /\ Goto(c, "open")
     ELSE Goto(c, "check") /\ UNCHANGED dirVars
  /\ Forget(c)
  /\ UNCHANGED <<birth, life>>

(* open() of the published directory; a failure retires the own record.    *)
Open(c) ==
  /\ At(c, "open")
  /\ \/ Goto(c, "held")
     \/ Goto(c, "drop")
  /\ UNCHANGED <<seen, ident, birth, life, dirVars>>

-----------------------------------------------------------------------------
(* The handle.                                                             *)

(* touch(), on the timer or by hand: stamps this owner's own inode.        *)
Touch(c) ==
  /\ At(c, "held")
  /\ aged
  /\ c \in records
  /\ aged' = FALSE
  /\ UNCHANGED <<pc, seen, ident, birth, life, present, records>>

Release(c) ==
  /\ At(c, "held")
  /\ Free(ProcOf[c])
  /\ Goto(c, "drop")
  /\ UNCHANGED <<seen, ident, birth, life, dirVars>>

Drop(c)    == At(c, "drop") /\ UnlinkRecord(c, c, "dropDir", "done")
DropDir(c) == At(c, "dropDir") /\ RemoveDir(c, "done")

-----------------------------------------------------------------------------
Scan(c)     == Check(c) \/ List(c) \/ Read(c) \/ Recheck(c) \/ Judge(c)
Retire(c)   == Unlink(c) \/ Rmdir(c) \/ After(c)
LetGo(c)    == Drop(c) \/ DropDir(c)
Progress(c) == Scan(c) \/ Retire(c) \/ Sleep(c) \/ Publish(c) \/ Open(c) \/ LetGo(c)

CallStep(c) == Begin(c) \/ Progress(c) \/ Refuse(c) \/ Touch(c) \/ Release(c)

Next ==
  \/ \E c \in Call : CallStep(c)
  \/ \E p \in Proc : Spawn(p) \/ Die(p)
  \/ Age

Spec == Init /\ [][Next]_vars

(* A running process takes the steps of its synchronous code, callers      *)
(* release what they hold (withLock's finally), and time passes.  Neither  *)
(* the start of a call, a death, a deadline nor a heartbeat is assumed.    *)
Fairness ==
  /\ \A c \in Call : WF_vars(Progress(c)) /\ WF_vars(Release(c))
  /\ WF_vars(Age)

FairSpec == Spec /\ Fairness

-----------------------------------------------------------------------------
(* Properties.                                                             *)

(* One writer per lane: of the running processes, at most one acquire()    *)
(* call has published and not yet let go, and none has while an old        *)
(* build's process still holds its own record (acquire, retire, isStale).  *)
MutualExclusion ==
  /\ \A c, d \in Call : Owns(c) /\ Owns(d) => c = d
  /\ LegacyLive => \A c \in Call : ~Owns(c)

(* "Unlinking A's record cannot affect B": a record leaves the lane only   *)
(* by its own call's release, or by a caller of the same host after the    *)
(* process it names is dead, or because it never named one; the record of  *)
(* a foreign host is never removed for its owner (retire, isStale).        *)
RecordRemoval(f) ==
  \/ f \in Call /\ pc[f] = "drop" /\ pc'[f] = "dropDir"
  \/ /\ OwnerOf(f) \in Proc
     /\ life[OwnerOf(f)] = "dead"
     /\ \E c \in Call : /\ pc[c] = "unlink" /\ pc'[c] = "rmdir"
                        /\ Host[ProcOf[c]] = Host[OwnerOf(f)]
  \/ f = Legacy /\ LegacyProc = NoProc
RemovalsFollowTheRule == \A f \in records : f \in records' \/ RecordRemoval(f)
RecordsAreOwned == [][RemovalsFollowTheRule]_vars

(* A directory holding a file nobody knows is never taken, whatever else   *)
(* is retired from it: it fails closed until a person removes it.          *)
UnknownStays ==
  Extra \in records => /\ Extra \in records'
                       /\ \A c \in Call : pc'[c] = "open" => pc[c] = "open"
UnknownFilesFailClosed == [][UnknownStays]_vars

(* The lane is an exclusive lock: granted only while free, each call once. *)
LaneHolders == {c \in Call : Owns(c)} \cup (IF LegacyLive THEN {Legacy} ELSE {})
LaneServed  == {c \in Call : pc[c] \in Owning \cup Ended} \cup {Legacy}
Lane == INSTANCE ExclusiveLock WITH
  Client <- Call \cup {Legacy}, Incumbent <- {Legacy},
  holders <- LaneHolders, served <- LaneServed
ImplementsExclusiveLock == Lane!Spec

(* Across hosts and builds: owners are honoured, files nobody knows close  *)
(* the lane for good, and it is still an exclusive lock.                   *)
LaneIsHonoured ==
  RecordsAreOwned /\ UnknownFilesFailClosed /\ ImplementsExclusiveLock

(* What a caller has to leave alone: a file nobody knows, an old build     *)
(* still running, a record of another host than its own, a dead owner of   *)
(* its own host whose pid a live process has: its birth identity may stay  *)
(* unreadable.                                                             *)
Unrecoverable(c) ==
  \/ Extra \in records
  \/ LegacyLive
  \/ \E f \in records :
       /\ OwnerOf(f) \in Proc
       /\ \/ Host[OwnerOf(f)] # Host[ProcOf[c]]
          \/ life[OwnerOf(f)] = "dead" /\ PidAlive(OwnerOf(f))

(* A caller that keeps waiting gets the lane, is told it is busy, or dies: *)
(* short of what it has to leave alone, no dead owner of its own host, no  *)
(* half-finished retirement and no empty directory left by a crash blocks  *)
(* it for ever (acquire's loop, isStale).                                  *)
WaitersAreServed ==
  \A c \in Call :
    pc[c] \in Waiting ~>
      \/ pc[c] \in Owning \cup Ended \cup {"refused"}
      \/ ~Live(c)
      \/ Unrecoverable(c)
=============================================================================
