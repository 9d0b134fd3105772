---------------------------- MODULE EvidenceStore ----------------------------
(***************************************************************************)
(* What the memory store keeps of a source: capture and publication of its *)
(* evidence (ingest.ts indexHarness, memory/source.ts publishSource), the  *)
(* archive copies rescue makes of it (rescue.ts copyPass), and forgetting  *)
(* it (memory/delete.ts).  A source is one session of one harness; it has  *)
(* a live transcript that the harness appends to, rewrites or sweeps away, *)
(* and an archive copy under the root.  Captures run under the maintenance *)
(* lease (MaintenanceQueue), rescue under a lock of its own (DirLock), and *)
(* forgetting under neither: only SQLite orders them.                      *)
(***************************************************************************)
EXTENDS Naturals, FiniteSets

CONSTANTS
  Source,
  Content,    \* bytes a transcript may have; they name their artifact file
  Shorter,    \* Shorter[y]: the contents that y extends
  Holds,      \* Holds[s]: what the transcript of s may contain
  AppendOnly, \* the sources whose harness only appends to the transcript
  MaxOwner,   \* how many owners the maintenance lease has in turn
  MaxFails,   \* how many steps of a capture, copy or cleanup may fail
  None

ASSUME ContentAssumption ==
  /\ Shorter \in [Content -> SUBSET Content]
  /\ \A x \in Content : x \notin Shorter[x]
  /\ \A x, y, z \in Content : x \in Shorter[y] /\ y \in Shorter[z] => x \in Shorter[z]
  /\ Holds \in [Source -> SUBSET Content]
  /\ AppendOnly \subseteq Source
  /\ None \notin Content \cup Source
  /\ Content \cap Source = {}
ASSUME BoundAssumption == MaxOwner \in Nat \ {0} /\ MaxFails \in Nat

VARIABLES
  live,       \* the transcript the harness keeps; None if there is none
  arch,       \* its copy below archive/
  evid,       \* the artifact files below archive/evidence/
  revs,       \* artifacts of the revisions of each source
  active,     \* its active revision
  alias,      \* what each of its two paths held when last captured
  ack,        \* the fingerprint its checkpoint acknowledges
  seen,       \* the fingerprint its checkpoint has discovered
  failed,     \* sources whose checkpoint carries an error
  conflicted, \* sources whose availability is 'conflict'
  rows,       \* sources that archive_files has a row of
  tomb,       \* "none", "pending" or "complete"
  journal,    \* the files a pending tombstone still has to remove; an
              \* archive copy is named by its source
  unlinked,   \* those the running finishArchive() has been through
  lease,      \* the owner of the maintenance lease
  cap,        \* the capture each owner is at
  resc,       \* the copy pass of the running rescue
  fails

fileVars    == <<live, arch, evid>>
storeVars   == <<revs, active, alias, ack, seen, failed, conflicted>>
forgetVars  == <<tomb, journal, unlinked>>
vars == <<fileVars, storeVars, rows, forgetVars, lease, cap, resc, fails>>

Owner   == 1 .. MaxOwner
Path    == {"live", "archive"}
File    == Content \cup Source
Maybe   == Content \cup {None}
Idle    == [at |-> "idle"]
Capture == [at : {"found", "read", "parsing", "checked", "preserved"}, src : Source,
            from : Path, raw : Maybe,
            expect : Maybe, compat : SUBSET Content,
            older : BOOLEAN, sole : BOOLEAN]
Rescue  == [todo : SUBSET Source, cur : Source \cup {None}, copy : Maybe, placed : BOOLEAN]
NoPass  == [todo |-> {}, cur |-> None, copy |-> None, placed |-> FALSE]

TypeOK ==
  /\ live \in [Source -> Maybe] /\ arch \in [Source -> Maybe]
  /\ evid \subseteq Content
  /\ revs \in [Source -> SUBSET Content]
  /\ active \in [Source -> Maybe]
  /\ alias \in [Source -> [Path -> Maybe]]
  /\ ack \in [Source -> Maybe] /\ seen \in [Source -> Maybe]
  /\ failed \subseteq Source /\ conflicted \subseteq Source /\ rows \subseteq Source
  /\ tomb \in [Source -> {"none", "pending", "complete"}]
  /\ journal \in [Source -> SUBSET File] /\ unlinked \in [Source -> SUBSET File]
  /\ lease \in Owner
  /\ cap \in [Owner -> Capture \cup {Idle}]
  /\ \A k \in Owner : cap[k].at \notin {"idle", "found"} => cap[k].raw # None
  /\ resc \in Rescue /\ (resc.placed => resc.cur # None)
  /\ fails \in Nat

Init ==
  /\ live \in [Source -> Maybe] /\ \A s \in Source : live[s] \in Holds[s] \cup {None}
  /\ arch = [s \in Source |-> None] /\ evid = {}
  /\ revs = [s \in Source |-> {}] /\ active = [s \in Source |-> None]
  /\ alias = [s \in Source |-> [p \in Path |-> None]]
  /\ ack = [s \in Source |-> None] /\ seen = [s \in Source |-> None]
  /\ failed = {} /\ conflicted = {} /\ rows = {}
  /\ tomb = [s \in Source |-> "none"]
  /\ journal = [s \in Source |-> {}] /\ unlinked = [s \in Source |-> {}]
  /\ lease = 1
  /\ cap = [k \in Owner |-> Idle]
  /\ resc = NoPass
  /\ fails = 0

-----------------------------------------------------------------------------
(* The harness appends to a transcript, sweeps it away, or rewrites it.    *)
Appended(s) == {x \in Holds[s] : live[s] \in Shorter[x]}

Harness(s) ==
  /\ \E x \in (IF s \in AppendOnly THEN Appended(s) ELSE Holds[s]) \cup {None} :
       x # live[s] /\ live' = [live EXCEPT ![s] = x]
  /\ UNCHANGED <<arch, evid, storeVars, rows, forgetVars, lease, cap, resc, fails>>

(* The lease moves on while its owner is in the middle of something.       *)
Overtake ==
  /\ lease < MaxOwner
  /\ lease' = lease + 1
  /\ UNCHANGED <<fileVars, storeVars, rows, forgetVars, cap, resc, fails>>

Fails ==
  /\ fails < MaxFails
  /\ fails' = fails + 1

-----------------------------------------------------------------------------
(* Capture: the loop of indexHarness().                                    *)

Related(x, y) == x = y \/ x \in Shorter[y] \/ y \in Shorter[x]

(* discover(): a live file always wins over its archive copy.              *)
FoundAt(s) == IF live[s] # None THEN "live" ELSE "archive"
Bytes(s)   == IF live[s] # None THEN live[s] ELSE arch[s]

At(k, label) == cap[k].at = label

Discover(k, s) ==
  /\ cap[k] = Idle /\ k <= lease
  /\ Bytes(s) # None
  /\ cap' = [cap EXCEPT ![k] =
       [at |-> "found", src |-> s, from |-> FoundAt(s), raw |-> None,
        expect |-> None, compat |-> {}, older |-> FALSE, sole |-> FALSE]]
  /\ UNCHANGED <<fileVars, storeVars, rows, forgetVars, lease, resc, fails>>

(* The tombstone, then the bytes of the path that was found: they may have *)
(* changed since, or be gone, and that is a failure of the source.         *)
Read(k) ==
  LET s == cap[k].src
      bytes == IF cap[k].from = "live" THEN live[s] ELSE arch[s]
      gone  == tomb[s] = "none" /\ bytes = None IN
  /\ At(k, "found")
  /\ cap' = [cap EXCEPT ![k] =
       IF tomb[s] # "none" \/ gone THEN Idle ELSE [@ EXCEPT !.at = "read", !.raw = bytes]]
  /\ failed' = IF gone /\ k = lease THEN failed \cup {s} ELSE failed
  /\ UNCHANGED <<fileVars, revs, active, alias, ack, seen, conflicted, rows, forgetVars,
                 lease, resc, fails>>

UpToDateSeen(c) == c.src \notin failed /\ seen[c.src] = c.raw

(* The skip: these bytes were acknowledged and nothing failed since.       *)
UpToDate(c) ==
  /\ c.src \notin failed
  /\ ack[c.src] = c.raw \/ (c.from = "archive" /\ seen[c.src] = c.raw)

(* The checkpoint, and the revision to replace; `full` overrides the skip. *)
(* Then the parser is awaited.                                             *)
Look(k, full) ==
  /\ At(k, "read")
  /\ cap' = [cap EXCEPT ![k] =
       IF UpToDate(cap[k]) /\ ~full THEN Idle
       ELSE [@ EXCEPT !.at = "parsing", !.expect = active[cap[k].src]]]
  /\ UNCHANGED <<fileVars, storeVars, rows, forgetVars, lease, resc, fails>>

(* Parsed.  The tombstone again, then sourcePrefixProof(): the retained    *)
(* artifacts that these bytes extend or are extended by, and whether the   *)
(* active one extends them with no live file left that was captured.       *)
Prove(k) ==
  LET s == cap[k].src
      related == {x \in revs[s] : x \in evid /\ Related(x, cap[k].raw)}
      older   == active[s] \in related /\ cap[k].raw \in Shorter[active[s]] IN
  /\ At(k, "parsing")
  /\ IF tomb[s] # "none"
     THEN cap' = [cap EXCEPT ![k] = Idle]
     ELSE cap' = [cap EXCEPT ![k] = [@ EXCEPT !.at = "checked", !.compat = related,
            !.older = older, !.sole = older /\ (alias[s]["live"] = None \/ live[s] = None)]]
  /\ UNCHANGED <<fileVars, storeVars, rows, forgetVars, lease, resc, fails>>

PreserveNew(k) ==
  /\ At(k, "checked")
  /\ evid' = IF cap[k].compat = {} THEN evid \cup {cap[k].raw} ELSE evid
  /\ cap' = [cap EXCEPT ![k] = [@ EXCEPT !.at = "preserved"]]
  /\ UNCHANGED <<live, arch, storeVars, rows, forgetVars, lease, resc, fails>>

(* preserveEvidenceArtifact(): the raw bytes, before the store knows.      *)
Preserve(k) ==
  /\ At(k, "checked")
  /\ evid' = evid \cup {cap[k].raw}
  /\ cap' = [cap EXCEPT ![k] = [@ EXCEPT !.at = "preserved"]]
  /\ UNCHANGED <<live, arch, storeVars, rows, forgetVars, lease, resc, fails>>

-----------------------------------------------------------------------------
(* publishSource(): one immediate transaction.                             *)

RefusedStale(c) == active[c.src] # c.expect

Refused(c) == tomb[c.src] # "none" \/ active[c.src] # c.expect

Other(p) == IF p = "live" THEN "archive" ELSE "live"

(* The other path showed bytes that these neither extend nor are part of.  *)
(* A live file that was captured before may be rewritten against an older  *)
(* archive copy, but nothing may replace a divergent live file.            *)
Conflict(c) ==
  LET other == alias[c.src][Other(c.from)] IN
  /\ active[c.src] # None
  /\ other \notin {None, c.raw} \cup c.compat
  /\ \/ alias[c.src][c.from] = None
     \/ c.from = "archive"
     \/ c.src \in conflicted

NeverOlder(c) == FALSE

OlderPrefix(c) ==
  /\ c.from = "archive" /\ c.older
  /\ active[c.src] \in c.compat

(* A divergent alias is reported and changes nothing else.                 *)
ReportConflict(c) ==
  /\ conflicted' = conflicted \cup {c.src}
  /\ seen' = [seen EXCEPT ![c.src] = c.raw]
  /\ failed' = failed \cup {c.src}
  /\ UNCHANGED <<active, ack>>

AcknowledgeOlder(c) ==
  /\ seen' = [seen EXCEPT ![c.src] = c.raw]
  /\ ack' = [ack EXCEPT ![c.src] = c.raw]
  /\ failed' = failed \ {c.src}
  /\ UNCHANGED <<active, conflicted>>

(* An archive copy that the active evidence extends is only noted; if it is *)
(* all that is left the source becomes available from the archive.         *)
KeepNewer(c) ==
  /\ seen' = [seen EXCEPT ![c.src] = c.raw]
  /\ failed' = failed \ {c.src}
  /\ conflicted' = IF c.sole THEN conflicted \ {c.src} ELSE conflicted
  /\ UNCHANGED <<active, ack>>

Activate(c) ==
  /\ active' = [active EXCEPT ![c.src] = c.raw]
  /\ ack' = [ack EXCEPT ![c.src] = c.raw]
  /\ seen' = [seen EXCEPT ![c.src] = c.raw]
  /\ failed' = failed \ {c.src}
  /\ conflicted' = conflicted \ {c.src}

PublishUnfenced(k) ==
  LET c == cap[k]  s == cap[k].src IN
  /\ At(k, "preserved")
  /\ ~Refused(c)
  /\ revs' = [revs EXCEPT ![s] = @ \cup {c.raw}]
  /\ alias' = [alias EXCEPT ![s][c.from] = c.raw]
  /\ IF Conflict(c) THEN ReportConflict(c)
     ELSE IF OlderPrefix(c) THEN KeepNewer(c) ELSE Activate(c)
  /\ cap' = [cap EXCEPT ![k] = Idle]
  /\ UNCHANGED <<fileVars, rows, forgetVars, lease, resc, fails>>

Publish(k) ==
  LET c == cap[k]  s == cap[k].src IN
  /\ At(k, "preserved")
  /\ ~Refused(c) /\ k = lease
  /\ revs' = [revs EXCEPT ![s] = @ \cup {c.raw}]
  /\ alias' = [alias EXCEPT ![s][c.from] = c.raw]
  /\ IF Conflict(c) THEN ReportConflict(c)
     ELSE IF OlderPrefix(c) THEN KeepNewer(c) ELSE Activate(c)
  /\ cap' = [cap EXCEPT ![k] = Idle]
  /\ UNCHANGED <<fileVars, rows, forgetVars, lease, resc, fails>>

(* Refused, by the store or the fence: nothing is published, and the       *)
(* failure is recorded if the lease is still there.                        *)
Refuse(k) ==
  LET c == cap[k] IN
  /\ At(k, "preserved")
  /\ Refused(c) \/ k # lease
  /\ failed' = IF k = lease THEN failed \cup {c.src} ELSE failed
  /\ cap' = [cap EXCEPT ![k] = Idle]
  /\ UNCHANGED <<fileVars, revs, active, alias, ack, seen, conflicted, rows, forgetVars,
                 lease, resc, fails>>

(* A step of the capture throws, or its process is killed.                 *)
Abandon(k) ==
  /\ cap[k] # Idle
  /\ Fails
  /\ failed' = failed \/ (k = lease /\ failed' = failed \cup {cap[k].src})
  /\ cap' = [cap EXCEPT ![k] = Idle]
  /\ UNCHANGED <<fileVars, revs, active, alias, ack, seen, conflicted, rows, forgetVars,
                 lease, resc>>

-----------------------------------------------------------------------------
(* Rescue: the copy pass, one at a time.                                   *)

(* The list of files, and once for the whole pass the list of tombstones.  *)
StartRescue ==
  /\ resc = NoPass
  /\ \E s \in Source : live[s] # None
  /\ resc' = [NoPass EXCEPT !.todo = {s \in Source : live[s] # None /\ tomb[s] = "none"}]
  /\ UNCHANGED <<fileVars, storeVars, rows, forgetVars, lease, cap, fails>>

(* Hash the source; equal bytes are acknowledged, others are copied aside. *)
RescueFile(s) ==
  /\ s \in resc.todo /\ resc.cur = None
  /\ IF live[s] \in {None, arch[s]}
     THEN /\ resc' = [resc EXCEPT !.todo = @ \ {s}]
          /\ rows' = IF live[s] # None THEN rows \cup {s} ELSE rows
     ELSE /\ resc' = [resc EXCEPT !.cur = s, !.copy = live[s]]
          /\ UNCHANGED rows
  /\ UNCHANGED <<fileVars, storeVars, forgetVars, lease, cap, fails>>

PlaceCopy ==
  /\ resc.cur # None /\ ~resc.placed
  /\ arch' = [arch EXCEPT ![resc.cur] = resc.copy]
  /\ resc' = [resc EXCEPT !.placed = TRUE]
  /\ UNCHANGED <<live, evid, storeVars, rows, forgetVars, lease, cap, fails>>

RecordCopy ==
  /\ resc.placed
  /\ rows' = rows \cup {resc.cur}
  /\ resc' = [NoPass EXCEPT !.todo = resc.todo \ {resc.cur}]
  /\ UNCHANGED <<fileVars, storeVars, forgetVars, lease, cap, fails>>

(* A copy fails its verification, or the process is killed.                *)
AbandonCopy ==
  /\ resc.cur # None
  /\ Fails
  /\ resc' \in {NoPass, [NoPass EXCEPT !.todo = resc.todo \ {resc.cur}]}
  /\ UNCHANGED <<fileVars, storeVars, rows, forgetVars, lease, cap>>

-----------------------------------------------------------------------------
(* Forget: the transaction of applyForget(), then finishArchive() by the   *)
(* caller or, after a crash or without a root, by recoverForget().         *)

OwnArtifacts(s) == {x \in revs[s] : \A t \in Source \ {s} : x \notin revs[t]}
OwnCopy(s)      == IF alias[s]["archive"] # None \/ (s \in rows /\ active[s] # None)
                   THEN {s} ELSE {}

(* A source has a row in the store once it was published or failed to be.  *)
Known(s) == revs[s] # {} \/ s \in failed

Forget(s) ==
  LET owned == OwnArtifacts(s) \cup OwnCopy(s) IN
  /\ tomb[s] = "none" /\ Known(s)
  /\ tomb' = [tomb EXCEPT ![s] = IF owned = {} THEN "complete" ELSE "pending"]
  /\ journal' = [journal EXCEPT ![s] = owned]
  /\ revs' = [revs EXCEPT ![s] = {}]
  /\ active' = [active EXCEPT ![s] = None]
  /\ alias' = [alias EXCEPT ![s] = [p \in Path |-> None]]
  /\ ack' = [ack EXCEPT ![s] = None] /\ seen' = [seen EXCEPT ![s] = None]
  /\ failed' = failed \ {s} /\ conflicted' = conflicted \ {s} /\ rows' = rows \ {s}
  /\ UNCHANGED <<fileVars, unlinked, lease, cap, resc, fails>>

UnlinkPresent(s, f) ==
  /\ tomb[s] = "pending" /\ f \in journal[s] \ unlinked[s]
  /\ f \in evid \/ (f \in Source /\ arch[s] # None)
  /\ evid' = evid \ {f}
  /\ arch' = IF f = s THEN [arch EXCEPT ![s] = None] ELSE arch
  /\ unlinked' = [unlinked EXCEPT ![s] = @ \cup {f}]
  /\ UNCHANGED <<live, storeVars, rows, tomb, journal, lease, cap, resc, fails>>

(* ENOENT is as good as removed.                                           *)
Unlink(s, f) ==
  /\ tomb[s] = "pending" /\ f \in journal[s] \ unlinked[s]
  /\ evid' = evid \ {f}
  /\ arch' = IF f = s THEN [arch EXCEPT ![s] = None] ELSE arch
  /\ unlinked' = [unlinked EXCEPT ![s] = @ \cup {f}]
  /\ UNCHANGED <<live, storeVars, rows, tomb, journal, lease, cap, resc, fails>>

SettleReversed(s) ==
  /\ tomb[s] = "pending" /\ unlinked[s] = journal[s]
  /\ tomb' = [tomb EXCEPT ![s] = "reversed"]
  /\ journal' = [journal EXCEPT ![s] = {}] /\ unlinked' = [unlinked EXCEPT ![s] = {}]
  /\ UNCHANGED <<fileVars, storeVars, rows, lease, cap, resc, fails>>

Settle(s) ==
  /\ tomb[s] = "pending" /\ unlinked[s] = journal[s]
  /\ tomb' = [tomb EXCEPT ![s] = "complete"]
  /\ journal' = [journal EXCEPT ![s] = {}] /\ unlinked' = [unlinked EXCEPT ![s] = {}]
  /\ UNCHANGED <<fileVars, storeVars, rows, lease, cap, resc, fails>>

(* The process is killed between two files: the journal is as it was.      *)
AbandonCleanup(s) ==
  /\ unlinked[s] # {}
  /\ Fails
  /\ unlinked' = [unlinked EXCEPT ![s] = {}]
  /\ UNCHANGED <<fileVars, storeVars, rows, tomb, journal, lease, cap, resc>>

-----------------------------------------------------------------------------
Work(k)    == \/ Read(k) \/ Prove(k) \/ Preserve(k) \/ Publish(k) \/ Refuse(k)
              \/ \E full \in BOOLEAN : Look(k, full)
Cleanup(s) == Settle(s) \/ \E f \in File : Unlink(s, f)
Copying    == PlaceCopy \/ RecordCopy \/ \E s \in Source : RescueFile(s)

Next ==
  \/ \E s \in Source : Harness(s) \/ Forget(s) \/ Cleanup(s) \/ AbandonCleanup(s)
  \/ \E k \in Owner : Work(k) \/ Abandon(k) \/ \E s \in Source : Discover(k, s)
  \/ Overtake \/ StartRescue \/ Copying \/ AbandonCopy

Spec == Init /\ [][Next]_vars

(* Jobs are retried until they succeed and a pass goes through all sources *)
(* (MaintenanceQueue); every pass begins with recoverForget().  Rescue and *)
(* forget happen when somebody asks.                                       *)
Fairness ==
  /\ \A k \in Owner : WF_vars(Work(k))
  /\ \A s \in Source : SF_vars(\E k \in Owner : k = lease /\ Discover(k, s)) /\ WF_vars(Cleanup(s))

FairSpec == Spec /\ Fairness

-----------------------------------------------------------------------------
(* Properties.                                                             *)

(* Once a tombstone of a source is committed nothing of it is in the       *)
(* store, whatever captures had passed their checks before ("Tombstones    *)
(* prevent silent reimport").                                              *)
ForgottenStaysForgotten ==
  \A s \in Source : tomb[s] # "none" =>
     revs[s] = {} /\ active[s] = None /\ ack[s] = None
       /\ \A p \in Path : alias[s][p] = None

(* An archive copy never takes the place of evidence that extends it, nor, *)
(* when it diverges, of what the live file last showed ("Prefix-related    *)
(* archives preserve the newest verified active evidence; divergent or     *)
(* unproven aliases report conflict").                                     *)
ArchiveYields ==
  \A k \in Owner : LET c == cap[k] IN
    At(k, "preserved") /\ cap'[k] = Idle /\ c.from = "archive"
      /\ active[c.src] # None /\ active'[c.src] \notin {None, active[c.src]}
    => /\ active'[c.src] \notin Shorter[active[c.src]]
       /\ alias[c.src]["live"] = active[c.src] => active[c.src] \in Shorter[active'[c.src]]
NewestEvidenceStays == [][ArchiveYields]_vars

(* Of a transcript that only grows the evidence only grows, whichever      *)
(* owners of the lease, paths and retries it comes from.                   *)
Grows == \A s \in AppendOnly :
  active[s] # None /\ active'[s] \notin {None, active[s]} => active[s] \in Shorter[active'[s]]
EvidenceOnlyGrows == [][Grows]_vars

(* A capture is skipped only for bytes that really are the active evidence *)
(* ("Failed work never shares the successful source acknowledgment").      *)
AcknowledgedIsActive == \A s \in Source : ack[s] # None => ack[s] = active[s]

(* The raw bytes of every retained revision are on disk, also while other  *)
(* sources are forgotten ("content-addressed owner-only raw artifacts      *)
(* preserve history when live paths disappear").                           *)
RevisionsKeepBytes == \A s \in Source : revs[s] \subseteq evid

(* Of a forgotten source whose cleanup is complete no bytes are left below *)
(* the root, neither the archive copy nor raw artifacts that no other      *)
(* source has ("owned artifact cleanup remains pending until durable       *)
(* recovery completes").                                                   *)
ForgottenLeavesNothing ==
  \A s \in Source : tomb[s] = "complete" =>
     /\ arch[s] = None
     /\ \A x \in Holds[s] \cap evid : \E t \in Source \ {s} : x \in Holds[t]

(* A pending cleanup is completed, across kills and missing files.         *)
CleanupCompletes == \A s \in Source : tomb[s] = "pending" ~> tomb[s] = "complete"

(* A transcript that stops changing ends up as the active evidence, or the *)
(* conflict is reported, or it was forgotten.                              *)
CaptureConverges ==
  \A s \in Source : \A x \in Holds[s] :
     <>[](live[s] = x) => <>[](active[s] = x \/ s \in conflicted \/ tomb[s] # "none")

(* Both: what is forgotten goes, what is kept arrives.                     *)
EvidenceSettles == CleanupCompletes /\ CaptureConverges

=============================================================================
