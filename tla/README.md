# Slopie: specifications of the memory core

TLA+ models of the concurrent core of Slopie (`src/`), the local memory for
coding-agent sessions: what TLC checks on small instances, what TLAPS proves
for every instance, and where the program does not do what its own text says.
Paths below are relative to `src/packages/core/src/` unless they name another
package.

## 1. The system

Coding agents (Claude Code, Codex, OpenCode) keep transcripts that they append
to, rewrite and sweep away. Slopie copies them under a private root, indexes
them into one SQLite database and answers questions about them. Nothing is a
server in the usual sense: any number of short CLI processes and one stdio MCP
server per agent session open the same root at once, and each of them may do
maintenance work. They meet in three places: directories that serve as locks,
rows of SQLite, and the files under `archive/`.

### Components

| Component | State it keeps | Operations | Meets the others through |
|---|---|---|---|
| Directory lock, `lock.ts` | a directory per lane with one owner record in it; its mtime | `acquire`, `touch`, `release`, stale recovery | `rescue`, `index`, `setup-memory` and `maintain` commands; `runIndex` |
| Lease, `memory/leases.ts` | one row: owner token, generation, pid, host, birth | `claimLease`, `assertFence`, `heartbeatLease`, `releaseLease` | every write of a worker re-checks the fence in its transaction |
| Job queue, `memory/jobs.ts` | `maintenance_jobs`, spool files | `enqueueJob`, `claimJob`, `finishJob`, `recoverJobs`, `retryBlocked`, `drainSpool` | enqueued by publication, discovery, the CLI; drained by the lease's owner |
| Worker, `memory/maintenance.ts` | fence, `AbortController`, pass, last lane | `start`, `wake`, `drain`, `handle`, heartbeat, `close` | in every MCP server (`mcp/context.ts`) and `maintain`/`index` command |
| Evidence store, `ingest.ts`, `memory/source.ts` | sources, revisions, aliases, checkpoints, raw artifacts in `archive/evidence/` | capture, prefix proof, publish, fail | reads live transcripts and archive copies; runs inside jobs; enqueues embed jobs |
| Rescue, `rescue.ts` | copies in `archive/`, `archive_files` rows, ghosts | copy pass, ghost pass | own directory lane; its copies are capture inputs |
| Forget, `memory/delete.ts` | tombstones with a journal of files | `applyForget`, `finishArchive`, `recoverForget` | takes neither lock nor lease; cancels jobs, deletes rows, unlinks files |
| Index command and spool, `cli/commands/index.ts` | spool files, a background child | `runIndex`, `runEmbedWorker` | looks at the lease, spools requests |
| Recall and read, `memory/service.ts` | none beyond cursors | `recall`, `read` | two snapshots around an awaited dense search |
| Note writes, `memory/notes-store.ts` | notes, request receipts | append, retract | idempotent under retries by several processes |
| Embedding workset, `memory/embedding-workset.ts` | TEMP table of pending spans | `take`, `committed`, `reset` | a cache of the queue's selection |
| Ghosts and derived tables, `threads.ts`, `browse.ts`, `memory/backfill.ts` | threads, ghost rows, fingerprints | rebuild behind fingerprints | rescue writes, capture reads |
| Encoder, `memory/assets.ts` | a chain of requests, one worker thread | `encodeBatch`, `close` | workers and recall await it |
| Vector store, `vec.ts` and its callers in `ingest.ts`, `rescue.ts`, `memory/delete.ts` | stamps on rows, vectors by id, a version | conversion, reconciliation, carry, embedding passes | every writable open reconciles; `find` searches it |
| LLM budget and cards, `llm.ts`, `cards/*` | spent and reserved cost, a gate | reserve, settle, enter, release | one CLI process, concurrent calls |
| Audit, `analytics/`, `cli/audit-background.ts` | a scan pool, a child process, pending requests | `run`, `cancel` | messages between renderer and child, threads and session |
| Settings consent, `consent.ts`, `claude/settings.ts` | settings files of the agents | propose, apply | files other programs edit |
| MCP server, `mcp/` | one open database handle | four tools | a worker and the memory service |
| Ask, `ask.ts` | a budget, a gate, the calls in flight | shortlist, readers, synthesizer, citation filter | reads the index, shares budget and gate with cards |
| Adapters, parsers, redaction, legacy search, rendering, bridges | none of their own, or read-only | translate, filter, print | pure functions over bytes |

`PROJECT.json` has the same list with what is and is not modelled of each.

### What is hard here

* Synchronous Node code cannot be interrupted by its own process, but every
  file-system call and every SQLite transaction interleaves with those of
  other processes. Between a claim and its commit a worker awaits the encoder
  or a parser for seconds to minutes; the lease may move, the job may be
  recovered, the source may be forgotten meanwhile.
* Processes are killed anywhere (the agent closes its MCP server). Locks and
  leases have no expiry that takes them from a live owner, so liveness of the
  system rests on telling a dead owner from a live one: by pid, by birth time,
  by host.
* Files and rows are changed in separate steps (artifact first, row after; row
  first, unlink after). A kill, a failure or a second actor between the two is
  where bytes are lost or left behind.
* A transaction throws `SQLITE_BUSY` when the store is locked for longer than
  its timeout. Which of the throwing places can be retried decides whether
  queued work is ever done.

* Copies of one fact are kept apart: a stamp and a vector, ghost rows and the
  full-text side, a fingerprint and what it was taken from, a receipt and a
  note. Each pair is written by actors that do not exclude one another.
* Work is handed to threads and child processes that may crash, be terminated
  or answer late.

`PROJECT.json` lists each hazard at its line, with the properties that cover
it; five have none, because they do go wrong (section 6). Five more that no
property covers: `discover()` remembers a fingerprint
before `enqueueJob()` has committed it (`memory/maintenance.ts:92`); a second
forget under a new request key reports completion while the first one's files
are pending (`memory/delete.ts:147`); the archive copy of a source that never
became a session is not listed by its forget (`memory/delete.ts:124`); a card
made from text older than what is indexed looks fresh (`cards/plan.ts:312`); and
`applyProposal()` writes settings composed before the question to the user
(`consent.ts:170`).

## 2. Modules

| Module | Models | Checked by |
|---|---|---|
| `ExclusiveLock` | what a lane promises: granted only when free | the refinement below |
| `DirLock` | `lock.ts`, one action per file-system call | `MCDirLock`, `MCLockSites` |
| `MaintenanceQueue` | lease, queue and worker, one action per transaction | `MCMaintenanceQueue` |
| `EvidenceStore` | capture, publication, rescue copies, forgetting | `MCEvidenceStore`, `MCStore` |
| `GhostIndex` | ghosts under rescue, index pass and forget | `MCStore` |
| `MemoryRecall` | `recall()` against the store's writers; note writes | `MCStore` |
| `ReadPages` | `read()` and its cursor | `MCStore` |
| `VectorStore` | stamps and vectors under opens, captures, forgets, passes | `MCStore` |
| `IndexCommand` | `potsherd index`, its child, servers, the spool | `MCServices` |
| `CardRun` | the pool, gate and budget of `potsherd card` | `MCServices` |
| `EmbeddingWorkset` | the frontier of pending spans and its validation | `MCServices` |
| `LocalEncoder` | the encoder's chain and its thread | `MCServices` |
| `AuditRun` | one audit: session, scan pool, child, messages | `MCServices` |
| `SessionThreads` | fork and resume chains: derivation, `ls` | `MCVerbs` |
| `AskRun` | `potsherd ask`: calls, budget, citation filter | `MCVerbs` |
| `CardShelf` | plan, rows and files of cards over time | `MCVerbs` |
| `DirLock_proofs`, `MaintenanceQueue_proofs`, `EvidenceStore_proofs`, `CardRun_proofs`, `AuditRun_proofs` | theorems about the module of the name | TLAPS |
| `Services_proofs` | `IndexCommand`, `EmbeddingWorkset`, `LocalEncoder`, then all of `MCServices` | TLAPS |
| `Readers_proofs` | `VectorStore`, `GhostIndex`, `MemoryRecall`, `ReadPages`, then all of them beside the store | TLAPS |
| `Verbs_proofs` | `SessionThreads`, `CardShelf`, `AskRun`, then all of `MCVerbs` | TLAPS |

`MCStore`, `MCServices` and `MCVerbs` put components that share no state side by
side: the variable `part` says which one a behaviour is of, the rest stay where
they start. A run of theirs is the runs of its parts; nothing is multiplied.

Next to an action stand the slips it is tested against (`PublishUnfenced`,
`IsStaleAnyHost`, `StillThere`, ...): variants that no specification uses.
`PROJECT.json` says which property each of them breaks.

### DirLock

A lane is a directory, present or not; a process owns it while the directory
holds the record it published. A `Call` is one `acquire()` with its token, hence
also the name of its record. `pc` follows the code: `check` and `recheck` are
the two `existsSync`, `list` and `read` are `readOwner()`, `judge` is
`isStale()`, `unlink` and `rmdir` are the two calls of `retire()`, `publish` is
the `rename` of the staged claim, `open` the `openSync` after it, `drop` and
`dropDir` the release. `Free(p)` says that a process does not run two
synchronous stretches at once; the timer's `Touch` needs no such guard because
it changes nothing any stretch of its own process reads back.

Processes are incarnations. `Pid` and `Host` say which of them the kernel gives
equal pids, so a record may name a dead process whose pid a live one has;
`birth` is the set of records that carry a birth identity (reading it fails at
times, at writing and at judging). `LegacyProc` is a process of an old build
whose `owner.json` is in place. `aged` is the one bit of the directory's mtime
that `isStale()` looks at.

`MCLockSites` instantiates the module twice, for callers of one host and for
callers of two; its variable `site` says which.

Left out: the staging directory (only its owner names it), `holder()`, which
reads and changes nothing, and the text of errors.

### MaintenanceQueue

`holder` and `gen` are the lease row; `state`, `owner` and `queue` the job
rows, with `queue` the order in which due rows come (`next_attempt_at`,
`created_at`, `job_id`). Rows that become due at once are put in any order.
`vec[j]` is what job `j` has committed of its `Target[j]`. An embed job takes
`Batch` parts per claim, goes to the back of the queue after each batch and is
done only by a claim that finds nothing left (`handle()` returns
`rows.length===0`); a capture does all in one.

The worker's `pc` is where its pass is: `idle` between passes, `recover` inside
`acquire()` after the fence has been kept, `drain` (`recoverForget`,
`retryBlocked`), `next` the head of the loop, `work` the synchronous part of
`handle()`, `commit` the transaction after its await, `finish` and `fail` the
two `finishJob()` calls. `Heartbeat` and `Close` run only where the pass has
yielded to the event loop: in `idle` and in the await before `commit`.
`Throws(label)` is the transaction at that label throwing; `FaultAt` and
`MaxFaults` say where and how often.

`MayReplace` is `claimLease()`'s judgement of the old owner: `ps -o lstart=`
of its pid, as a string that depends on the reader's zone and locale (`Zone`),
compared with the one the owner wrote, or, when the owner could not read its
own (`KnownStart`), `kill(pid, 0)`.

What is abstracted: what a job computes, backoff lengths (a retry becomes due at
some time), `discover()` (the unfenced `Enqueue`; `drainSpool()` is in
`IndexCommand`),
error codes beyond "blocked" and "retry" (`source_enrollment_required` among
them), `runExplicit()` and `withPublicationLease()`. The loop asks for a job of
its preferred lane and then for any (`maintenance.ts:107`): two transactions, of
which `ClaimJob` makes one, so nothing is enqueued or cancelled between them.
What `drain()` does before its loop (spool, `recoverForget`, discovery, assets)
is one step that may throw as a whole.

### EvidenceStore

A source has a live transcript (`live`) and an archive copy (`arch`). Contents
are model values; `Shorter[y]` are the contents `y` extends, a strict order as
prefixes are, which is all that `sourcePrefixProof()` finds out about bytes. An
artifact file is named by its bytes' hash, so `evid` is a set of contents and
two sources with equal bytes share one file. `revs`, `active`, `alias`, `ack`,
`seen`, `failed` and `conflicted` are the rows of one source; `tomb`, `journal`
and `unlinked` its forgetting.

A capture is a record that walks through the awaits of `indexHarness()`:
`Discover` (a live path wins over the archive), `Read` (tombstone, bytes),
`Look` (the skip, then the expected revision), `Prove` (tombstone again, prefix
proof), `Preserve` (the artifact), then `Publish` or `Refuse` in one
transaction. `Publish` is the whole of `publishSource()`: the fence, the
tombstone, the expected revision, alias and revision rows, and the four ways it
can end (conflict, kept newer, kept newer as sole source, activated). `Owner` is
the succession of lease owners; `Overtake` moves the lease in the middle of
whatever its owner does, which is the worst that `MaintenanceQueue` allows.

Rescue is one pass at a time (its lane excludes a second): the tombstones are
read once in `StartRescue`, then per file `RescueFile` (hash and copy aside),
`PlaceCopy` (rename), `RecordCopy` (row). `Forget` is `applyForget()`'s
transaction; `Unlink`, `Settle` and `AbandonCleanup` are `finishArchive()`, run
by the caller or later by `recoverForget()`.

Left out: spans, legacy projections and notes written by the same transactions
(ghosts are in `GhostIndex`, lineage in `SessionThreads`); reversal of a
tombstone, which no code of this repository performs; and an `unlink` that fails
with another error than `ENOENT` (`memory/delete.ts:230` keeps that file in the
journal and goes on with the next; here a cleanup is given up as a whole and
begun again).

### GhostIndex

A ghost's text is the version of the history it was derived from and whether
something in it still has to be masked. `TypePrompt` adds to the history of any
session, one without a transcript included, whose transcript may come back with
it; `CleanTranscript` sweeps one away at any time. The rescue's pass is
`RescueScans`, `RescueSkips` (fingerprint matches), `RescueStats`,
`RescueReads`, `RescueHistory` (the transaction with the tombstone check),
`RescueOrphans` (the one without), `RescueStores`; the index pass reads, writes
and backfills (`IndexReads`, `IndexWrites`, `IndexBackfills`). `torn` and
`overwritten` are marks of the model: ghosts that changed between a pass's
reading and writing, and those of them whose newer text the pass set back to
what it had read.

### MemoryRecall and ReadPages

A recall takes a snapshot, reads the dense lane page by page and answers in a
second transaction if the epochs of evidence and notes and the scope are the
ones it saw; otherwise it tries once more and gives up. Every writer of the
store is an action that counts its epoch up. `WriteNote` is one transaction
with its receipt. `ReadPages` has one read whose cursor is all that survives
between two calls. `Unchanged` compares the sessions that are hidden, of which
the code compares the scope list they give (`memory/service.ts:118`); a selection
that a client names, and notes that become valid by the clock alone, are left
out.

### VectorStore

A vector is the text it was computed from. `stamp` is `embedding_version` on the
row, `vector` the store. `OpenMigrates` is migration 10 (one transaction, which
may cut unreadable tables out or decline), then `reconcileVectorStamps()`
statement by statement, and a process may die between any two. `Rewrite` is
`replaceSession()` with its carry of vectors by text, `ForgetRows`
`clearLegacySource()`, `RescueGhost` and `MaskGhost` what rescue and index do
to prompts that have vectors. `EmbedChecked` is `embedPending()`, which reads
the row again in the transaction that writes, `EmbedTrusting`
`embedExchanges()`, which does not. `drifted` marks ids whose vector may be of
another text for a reason the code does not look for (section 6); the
properties speak of all others. Both lanes go through a statement together,
where the code does one lane after the other (`vec.ts:1338`, `vec.ts:1344`); no
row, stamp or vector is of both.

### IndexCommand

A command looks for a lease owner, indexes under `.lock index` when there is
none, else spools a request, starts a child and polls. Children and servers run
a worker: list the spool, enqueue, unlink, claim, publish, finish. The lease is
that of `MaintenanceQueue` on one host: replaced exactly when its owner is dead.
The `skipped` requests are those whose insertion threw in a drain.

### CardRun

A step runs from one await to the next. `callPc` takes a call through the gate,
its reservation, the model and the release; `verdict` is the first error of a
session's calls (`Promise.all`), after which its siblings run on. `overrun` is
what recorded calls cost above their estimates. `running` counts the workers
whose function has not returned, which is what the `Promise.all` of `runCards()`
waits for: a worker returns when nothing is left, when the run was aborted, or
from the `catch` of a session that hit the ceiling or fell to its abort.
`options.signal` is left out: `cli/commands/card.ts:211` passes none.

### EmbeddingWorkset and LocalEncoder

`frontier` and `scannedRevs` are the TEMP tables of one worker; a restart empties
them. `ValidateVectors` is `queueHistoricalEmbeddings()` with `reset()`.
`TakeBatch` is one step from the scan to the row's end, which the code reaches in
a second transaction (`memory/embedding-workset.ts:63`). The
encoder's requests stand in `chain`; the first one computes on the worker
thread, started when needed. `unheard` are threads whose exit came while no
request listened: a request posted to one rests on its 30 s timer.

### AuditRun

`sessPc` follows `AuditSession.run()` from scan to close. The pool's threads
read, answer or crash; `ThreadFails` is `onError()`, which reads the crashed
thread's file itself and, when no thread is left, the queue. On a terminal the
session is in a child: `toChild` and `toRenderer` are the messages, `notice` the
announcement of a model call and its acknowledgement, `ExitNoticed` the 'exit'
event, which may overtake the last messages.

### SessionThreads

A transcript is the set of its records, numbered in the order in which they were
written anywhere, and the sessions that its records name as their origin. `row`
is what the index holds of it (`session_record_ids`,
`session_declared_parents`), `threads` the table derived from all rows.
`Parents` is the candidate loop of `deriveThreads()`: `Alike` the two
thresholds, `Older` is `orient()`, `Edge` adds the flip by a declared parent and
`Stronger` is `consider()` with the order in which pairs are met. `Walk` is
`rootOf()`, `Chains` the table. `Derive` and `WriteThreads` are its reads and its
transaction, apart, because other processes write in between; the four reads
(`threads.ts:244` to `345`) are of one state here. `Links`,
`HeadOf`, `Folded` and `StandsFor` are `threadOf()`, `threadRollup()` and
`withThreads()`; `shown` is any set of sessions that filters let through.

### AskRun

`callPc` takes each call from its reservation to its end, `askPc` the verb from
readers over synthesizer to open threads. `Filter` is `filterAnswer()` as a
whole: `Survivors` (the lines that are genuine), `Backed` (sentences that still
cite one), `Within` (the budget of words), `Order` and `Renumbered`. The code's
`filter`, `dedupe` and `sort` are stated by the places they keep (`Chosen`,
`Ascending`), so that the same definitions can be evaluated and reasoned about:
the prover does not look into `SelectSeq` and `SortSeq`. Whether a quote stands
in its excerpt is one bit of a proposed line.

### CardShelf

The text of a session is the number of its edits, so that a card knows from
which text it was made. A pass stats the files when it lists them and reads them
one by one later (`ListTranscript`, `IndexTranscript`): what it publishes may be
newer than the mtime it publishes with it, and under `--full` it may be the same
text again. `Stale` compares what the code compares: the mtime that
was indexed with the card's creation. `SaveRows` and `SaveMirror` are the two
halves of `writeCard()`; `mirror` is the card's file, which may hold an error
sentinel instead. `inHand` marks forgotten sessions that a command had loaded at
the time, or failed to card since, for `CardFails` writes a sentinel also when
the session could not be read. The order of the plan is by `ended_at` in the code and by the
indexed mtime here, and ghosts count as oldest.

### How they compose

`DirLock` gives rescue its exclusivity: `EvidenceStore` has one `resc`.
`MaintenanceQueue` gives captures their owner: `EvidenceStore` has `lease` and
fences with it. `FencedEffects` is the promise the one makes and `k = lease` in
`Publish` the place where the other relies on it. `Cancel` in the queue is the
part of `applyForget()` that reaches it, and `Enqueue` the part of
`publishSource()` that does. `IndexCommand` composes commands, lanes, spool,
lease and workers, with the lease reduced to what `LiveOwnerYieldsOnlyAcrossZones`
and `FencedEffects` say of it in one zone. `EmbeddingWorkset` is what `handle()` of an embed job
selects; `MemoryRecall` sees the other modules as its writers.

## 3. Runs

| Run | Instance | States | Shows |
|---|---|---|---|
| `lock_reuse` | three calls, three processes, one reborn with a dead one's pid, lane not yet there | 648 k | exclusion; records leave by the rule; refinement |
| `lock_hosts` | two sites over every leftover in the lane: two calls on one host beside another host's legacy owner, and two calls on two hosts with equal pids beside a legacy owner | 56 k | no waiter stays behind what it can judge dead; the rule and the refinement across hosts; unknown files block for good |
| `queue_safety` | four workers: three on one host in two zones, one of them reborn with a dead one's pid, one on another host; a capture and a two-batch embed job, one fault anywhere but in recovery | 2.7 M | fencing, completion, exact queue |
| `queue_settles` | two workers of which one lives on, a job that always fails, one fault before the loop, at claim, commit or finish | 12 k | claimed jobs end, queued jobs run |
| `queue_beat` | the same with a fault in a heartbeat | | **violated**: see section 6 |
| `evidence_safety` | one source with three contents (old, its extension, a rewrite), two owners, one failure anywhere | 3.0 M | forgetting, acknowledgement, newest evidence stays |
| `evidence_settles` | one source, one owner, one failure | 174 k | cleanups complete, captures converge |
| `store_and_readers` | an append-only source with two owners, a rescue and a failure; two ghosts; a recall over two sources; a read of two revisions; vectors of an exchange and a ghost prompt | 3.0 M | evidence only grows; derived and delivered data agree with it |
| `services` | two index commands and a server; two sessions to card; two revisions to embed; three files on two threads; three encode calls | 158 k | requests, budget, validation, facts; all of them settle |
| `verbs` | three transcripts of up to three records, two overlapping passes; an ask of two readers over 361 proposals; two card commands over a transcript and a ghost | 2.1 M | chains heal, nothing is hidden, answers are grounded, forgets of cards are complete |
| `forget_shared` | two sources with equal bytes | | **violated**: see section 6 |
| `forget_leaves` | one source, no failure at all | | **violated**: see section 6 |

Run one with `tlc -config MCLockSites.cfg MCLockSites`, and so on; the names
of module and configuration are in `PROJECT.json`.

Properties, by the question they answer:

* Is the lane a lock? `MutualExclusion`, and the stronger
  `ImplementsExclusiveLock` (refinement of `ExclusiveLock` with "the calls that
  own" as holders). The old build's owner takes part as an incumbent.
* Does a caller ever remove what is not its own or a dead process's?
  `RecordsAreOwned` looks at every step that removes a record; it is what makes
  the comment "unlinking A's record cannot affect B" true for two retirers that
  judged the same record. `LaneIsHonoured` asks this, the refinement and that
  files nobody knows close the lane for good of two hosts and an old build.
* Does a lane fail closed only then? `WaitersAreServed`: a call that waits for
  ever has a reason that is still there and that it cannot judge
  (`Unrecoverable(c)`: a file nobody knows, a record of another host, an old build
  that lives, a dead owner whose pid was given again). A call that died on its
  own host is none.
* Does an overtaken worker leave anything behind? `FencedEffects`,
  `CancelledWorkStaysGone`, `DoneIsComplete`.
* Does a row ever get lost? `QueueIsExact`, `RunningHasOwner`, `RunningEnds`,
  `QueuedWorkRuns`.
* Does a live owner ever lose its lease? `LiveOwnerYieldsOnlyAcrossZones`: to a
  worker of its host in another zone, and to nobody else.
* Does forgetting hold against captures in flight (`ForgottenStaysForgotten`),
  against rescues of ghosts (`HistoryGhostsRespectForget`), and does its cleanup
  end (`EvidenceSettles`)?
* Does older or divergent evidence ever win? `NewestEvidenceStays`,
  `EvidenceOnlyGrows`. Is a change ever skipped? `AcknowledgedIsActive`,
  `EvidenceSettles`.
* Does every revision have its bytes? `RevisionsKeepBytes`.
* May a fingerprint that matches be trusted? `FastPathIsSound`, for the one of
  a rescue (`RescueMaySkip`) and the one of an index (`MatchMeansIndexed`).
* Is an answer of one state of the store (`AnswerIsOneSnapshot`), a read neither
  repeated nor holed (`PagesCoverOnce`), a retried note one note
  (`RetriedWriteIsOneWrite`)?
* Do stamps and vectors agree with the rows? `VectorsFit`: a vector is of its
  row's text (`VectorsMatchText`), and a stamped row has one
  (`StampsHaveVectors`), or it would never be embedded again.
* Is a spooled request kept, run once, and run at all? `RequestIsKept`,
  `RequestsAreServed`.
* Is the ceiling kept under concurrency? `SpendWithinCap`.
* Does "done" mean validated (`DoneWasValidated`), and is damage repaired
  (`HelpersAnswer`)?
* Is every history file counted once whatever crashes? `HelpersAnswer`, by
  `EveryFileOnce`: counts only go up, so once at the end is once always.
* Do chains follow the transcripts again after a pass that nothing disturbed,
  whatever was overtaken, failed or forgotten before (`ChainsHealInOnePass`)?
  Does `ls` show all work under every filter (`NothingHidden`)?
* Does an answer say only what evidence says, is it given only when it was
  earned, within one ceiling of which only calls in flight hold a part?
  `AskIsHonest`.
* Is a session carded again only when something is indexed that its card has
  not seen (`PlansOnlyChanges`), and is nothing left of the card of a forgotten
  one that nobody had in hand (`QuietForgetIsComplete`)? `CardsFollowSessions` is
  these two halves. That every change is carded is not so, nor that ghosts and
  sessions in hand leave nothing; section 6 has them.
* Does what was handed out come back? `HelpersAnswer`: card runs end with gate
  and budget empty, audits settle and leave no child, encode calls settle and
  free their slots.

### Bounds

Three calls are what the lock's races need: one to die, one to judge it, one to
take the lane between the judgement and the retirement. `lock_hosts` has only
two calls because its initial states are many (every leftover): one dies or
holds, the other waits.
Of the four workers `w1` and `w2` live on one host in two zones, so that each may
take the lease from the other in the middle of an await, with the first coming
back afterwards; `w3` has the pid of `w1` after its death and the zone of `w2`; and
`w4`, alone on its host,
gets the lease only when it is free. A capture
and a two-batch embed job are the least that makes the two lanes alternate and
a job span owners. One fault may fail any of these steps, also the
one that writes a row back after a shutdown has aborted its pass. One source with `old`, its extension `new` and the
unrelated `fork` covers the three relations two contents can have; two sources
are needed only for shared artifacts. `evidence_safety` has the constraint
`OvertakenBeforeRescue`: a second owner only where nothing failed and no rescue
has begun; `store_and_readers` has, on two contents, the second owner with a
rescue, with a failure, and a rescue with a failure, but not all three at once
(`TwoTroubles`).

Two ghosts, one of them with something to mask and one more prompt, make the
history move once under each pass. Two sources, one publication each, make the
snapshot of a recall stale in either of its two attempts. Two revisions of two
and three spans of two units make pages break inside a span, between spans and
across a capture. One exchange and one ghost prompt are all that a vector can be
mixed up with when ids are stable: two texts tell "same" from "other"; two
openers overlap in every pair of statements, one pass runs beside them and two
without them (`OnePassWhileOpening`).

Two commands, each with a child, and one server give the lease three kinds of
owner; `MaxMishaps` kills one process or fails one capture. Two sessions of two
and one chunks under two permits and a ceiling of three estimates make calls
wait at the gate, be refused and be asked again. Two overlapping revisions of
three and two spans with batches of two leave a batch over after a restart.
Three files on two threads with two crashes lose every thread while a file is
queued. `Limit = 2` with three requests stands for 16 slots.

Three transcripts with three records (`Threshold = 3`, three quarters as in the
code, `MinShared = 1` for its 10) make chains of three, two forks of one, and a
transcript that goes on after its fork. `FewTroubles` admits one deleted
transcript, one name of an origin and one pass at its captures at a time; the
reads and writes of derivations overlap freely. Two readers in flight
at once at a price of two each, a synthesizer of two and a confirmation of one
under a ceiling of six make each call one that may be refused, some only by what
other calls still hold. The proposals have up to three lines and two sentences: genuine and
false quotes, a session nobody was given, two lines with one number, citations
of nothing and of lines that are not there, and sentences longer together than
`MaxWords`. Two edits and two readings of the clock put an edit before,
between and after listing, indexing, planning and saving.

`MaxRecords`, `MaxNow`, `MaxOwner`, `MaxFails`, `MaxFaults`, `MaxMishaps`,
`MaxDamage`, `MaxSetbacks`, `MaxCrashes`, `MaxDeaths`, `MaxEdits`,
`MaxRevision`, `MaxEpoch` and the finite sets of calls, workers and requests
are the only other bounds on behaviours: they enter the guards of what goes
wrong or comes from outside, and none of them enters a property. The theorems
hold without them.

Deadlock is not checked where the instance runs out (all calls made, all
workers dead or closed, a run returned, a transcript that can grow no more); in
the `EvidenceStore` runs it is.

### Fairness

* `DirLock`: weak fairness of a call's steps (synchronous code of a running
  process), of releasing (`withLock`'s `finally`) and of ageing. None for
  starting, dying, giving up at the deadline or the heartbeat.
* `MaintenanceQueue`: weak fairness of each worker's pass (the two-second timer
  calls `wake()`), of starting a `Steady` worker and of backoffs ending. None
  for deaths, shutdowns, installing assets or new work. `Steady` is the
  assumption "some process lives on"; without it nothing needs to happen.
* `EvidenceStore`: weak fairness of a capture's steps and of each cleanup
  (every pass begins with `recoverForget()`), strong fairness of taking up a
  source, because the loop goes through all of them and comes back while a
  source that fails or is swept and rewritten is enabled only now and then.
  None for the harness, for failures, for rescue and forget.
* `services`: a running command and worker take their next step, a retry falls
  due, a server's timer fires (`IndexCommand`); a job that is claimed goes on and
  the validation of stored vectors, which every worker does from time to time,
  comes again (`EmbeddingWorkset`). Behaviours of `CardRun`, `AuditRun` and
  `LocalEncoder` are finite, so one weak fairness of all of a component's steps
  says that none of them stops short: a model call ends, be it at its deadline,
  a thread answers or its exit is noticed, timers fire. Crashes, cancels,
  signals and the renderer's end are not assumed, only allowed.

## 4. Theorems

All proofs are checked by TLAPS to the last leaf; they hold for every value of
the constants that satisfies the named assumptions of the modules.

**DirLock_proofs.** `TypeCorrect`, `LockExcludes`, `RemovalFollowsTheRule`,
`LockRefines`. `MutualExclusion` is not inductive: a caller about to unlink a
record could hold a wrong judgement of it. The invariant adds that a record in
the directory is alone and its call still owns (`RecordAlone`,
`RecordPublished`), that a running owner's record is there (`OwnerHasRecord`),
and for the retirer `Doomed` (an identified record about to be unlinked names a
dead process of the retirer's host, and death is final) and `Unidentified` (a
record that could not be read has gone, and a token is never published twice,
`SeenPublished`; or it is an unparsable old record). From this follow exclusion
and the removal rule; the refinement maps `Publish` to `Grant`, `Drop` and `Die`
to `Vacate`, the rest to stutters. The argument rests on a death being final
and a token being used once; it does not use birth identities being readable.

**MaintenanceQueue_proofs.** `Inductive`, `TypeCorrect`, `DoneComplete`,
`QueueExact`, `CancelledStaysGone`, `EffectsAreFenced`, `LiveOwnerKeeps`,
`RunningOwned`. The invariant adds `HolderFenced` (the lease row names a
process that has run and that, while alive, has the fence of the row's
generation), per worker `HasJob` (a pass beyond `next` has a job),
`TookOwn` and `PartsOfJob` (what was taken and what is committed belongs to the
job), `FailsOpen` (the outcome at `fail` is never "done") and `NothingLeft` (a
pass about to finish a job as done, whose row is still its own, left nothing of
it uncommitted). A lemma on moves of a row (`RowMoves`) and one on
moves of a pass (`PassMoves`) stand between the actions and the invariants.
`LiveOwnerKeeps` is about any hosts and zones: no worker but one of the owner's
host that asks `ps` in another zone takes the lease of a live owner
(`LiveOwnerYieldsOnlyAcrossZones`), and the run shows that such a worker does.
Fencing (`EffectsAreFenced`) holds all the same. One theorem has an assumption
that TLC shows to be needed:

* `RunningOwned` assumes `"recover" \notin FaultAt`: see section 6.

**EvidenceStore_proofs.** `Inductive`, `TypeCorrect`, `StaysForgotten`,
`AcknowledgedActive`, `RevisionsKept`, `NewestStays`. The invariant adds, for
the capture of the present owner, that the revision it expects is the active
one unless the store was forgotten under it (`Expected`), that the active and
acknowledged contents are retained (`ActiveIsRevision`), where every content in
the store, in files and in flight came from (`Provenance`), and, when sources
share no bytes, that every retained revision and every preserved capture has
its artifact (`Kept`) and that the prefix proof in a capture's hands is still
true when it publishes (`PrefixProof`). `RevisionsKept` and `NewestStays` assume
`Distinct`, that no two sources may have equal bytes: without it
`forget_shared` is a counterexample to the first, and a prefix proof may miss
an artifact that was unlinked for another source.

`GrowsOnly` (under `Distinct` as well) has an invariant of its own: all contents
of an append-only source that a process may still have in hand (`Saw`) are
prefixes of one another and of the live file (`OneHistory`), and what the
present owner has read from the live path is at or ahead of the active revision
(`Ahead`). It uses that `Shorter` is transitive.

`UnknownIsNeverTaken` and `LaneAlwaysHonoured` complete `DirLock`: only a record
is ever unlinked, and `rmdir` and the rename of a claim need an empty lane.

**CardRun_proofs.** `CardTypeCorrect`, `SpendStaysWithinCap`, `PaidWithinCap`,
`OnlySentCallsAreHeld`, `GateLosesNoWakeup`, `CardedWithoutError`,
`SettledStays`. The invariant is the ledger (`reserved` is an estimate for each
call that is out), the gate (it counts who is inside, keeps in line, once each,
those that wait, and while somebody waits somebody is inside or woken who will
wake the next), and the pool (sessions are taken in order by a worker that
stays). `PaidWithinCap` says that `spent` passes the cap by no more than `overrun`,
and not at all while no call has cost more than its estimate; neither theorem
assumes anything of prices, which the code does not bound.

**AuditRun_proofs.** `AuditTypeCorrect`, `FilesAreCountedOnce`,
`RunSettlesOnce`. While a scan goes on each file is in the queue once, or with
one thread, or counted, and never two of these (`EachFileOnePlace`), whichever
threads crash, and what a caller is told follows a scan that counted all
(`EndFollowsScan`).

**Services_proofs.** `SpooledRequestIsKept`, `OneIndexerAtATime`;
`DoneJobsWereValidated`, `PurgedJobsStayCancelled`; `EncoderIsSerial`,
`CallerIsToldOnce`; `ServicesTypeCorrect`, `ServicesKeepPromises`. A request is
lost nowhere because a listing that its child has gone through held it, or it
was skipped (`ListingHeldRequest`), and who says "indexed" has published before
(`SayingIsPublished`); at work is only whom the lease row names
(`LeaseExcludes`). That each command has a child of its own is an assumption
(`IndexAssumption`), which the proof found missing. The encoder's requests hold
as many slots as are counted, and only the first in the chain computes.

**Readers_proofs.** `VectorsAlwaysFit`, `GhostsRespectForget`,
`FastPathsAreSound`, `AnswersAreOneSnapshot`, `RetriesAreOneWrite`,
`PagesAlwaysCoverOnce`, `ReadersTypeCorrect`, `ReadersKeepPromises`.
`VectorsFit` is nearly inductive (`FormsFollow` adds which form the store has at
which statement of an open). `FastPathIsSound` needs `RescueDid` and `IndexDid`: what
a rescue past its transaction, and a stored fingerprint, have done while the
history is still the one stat'ed; histories only grow, so "stat before read"
makes a fingerprint older than the text. `AnswerIsOneSnapshot` rests on each
writer counting up the epoch of what it changes (`WritersShow`). For
`PagesCoverOnce` every span is in one of five places: not named, unavailable, in
the cursor at the offset delivered so far, ahead of the scan and untouched, or
delivered in full (`SpansArePlaced`).

**Verbs_proofs.** `VerbsTyped`, `LsHidesNothing`, `ChainsAlwaysHeal`,
`CardsAlwaysFollow`, `AskAlwaysHonest`, `AskPrintsOneReply`.

* `LsHidesNothing` is `OneHead`, a fact about the table and not about its
  derivation: whatever `Parents` is, `Chains` marks one session of a chain at
  most, and forgetting only takes rows out.
* `ChainsAlwaysHeal`: a pass in `calm` has row by row what the transcripts have
  (`CalmPass`), and once it has derived, the derived chains are those of the
  rows. That the derived table is well typed (`ChainsAreTables`) needs more: there
  is a strongest candidate among finitely many, so `Parents` is defined, and a
  walk up stays among the sessions and stops where it would meet one again, so
  a chain has no more links than there are sessions, also in a cycle.
* `CardsAlwaysFollow`: `ShelfAges` orders the texts of transcript, listing, index
  and card by their times: whatever has a later mtime than a card was made is a
  later text, also when it was read after its mtime. `ForgottenStays` is the
  forget. Ghosts and sessions in hand are excluded, as in the property.
* `AskAlwaysHonest` has a part with no state: whatever `Replies` holds, what
  `filterAnswer()` leaves of a proposal is grounded in it (`FilterIsGrounded`).
  `AskAssumption` says no more of a proposal than its shape. The budget's part is
  that `reserved` is the sum over the calls in flight.

Sums and walks are recursive functions, whose existence is no axiom: a function
on the subsets of a finite set, or on an interval, exists because a smallest
set, or number, without one would have one (`SmallestSet`, `MinOf`). The same
argument gives a strongest candidate and the first place of an element. This is
the form that induction takes here.

Assumptions that the proofs needed and the modules now name: `ChildOf` is
injective, the shelf is finite, there is at least one indexer, `Shorter` is
transitive, and the shape of proposals. Attempts that failed showed where the
model was wrong, and it is now as in the code: which rows `ForgetRows` reaches,
that prompts come to sessions without a transcript too, which units of a page
count as shown (`ShownUnits`), and which of two links that end alike is the head.

Only model-checked: what is stated under fairness (`WaitersAreServed`,
`RunningEnds`, `QueuedWorkRuns`, `EvidenceSettles`, `RequestsAreServed`, and
`HelpersAnswer` but for its `EveryFileOnce`), because ENABLED and fairness are
out of the prover's reach. Every other property of a passing run has its theorem
(`LaneIsHonoured`, which `MCLockSites` states of its two sites, that of one lane,
`LaneAlwaysHonoured`).

## 5. Not modelled, and why

* Formats, parsers, redaction rules, ranking, packing, analytics' figures,
  prompts, rendering and terminal screens: sequential work over strings with no
  state to interleave. They are most of the lines of the repository (`recall.ts`,
  `ask.ts`, `graft.ts`, `redact*.ts`, the adapters, `cli/commands/*`,
  `audit-ui/`), and the reason why the models stand for a small share of them.
* `llm.ts` beyond budget and calls: transports and prices are data.
* Settings consent: one function reads, asks and writes. That a concurrent edit
  is lost follows from two lines; there is no interleaving to explore.
* `evals/`, build scripts and vendored files.
* Card vectors, redating and other legacy projections: written in the
  transactions that are modelled, from data that is not.
* The `--embed` foreground pass of `index` (its effects are `EmbedChecked`),
  malformed spool files, `setup`.
* SQLite itself: a transaction is one step, `SQLITE_BUSY` one outcome of it. In
  the modules of `MCStore` and `MCServices` it is a failing step where the code
  handles it (`EnqueueFails`, a failing capture), else it is left out.
* Torn files and `fsync`: a rename is atomic in the models.

## 6. Where the code and its text disagree

Three runs are expected to be violated; each has a line in `PROJECT.json`
under `findings`.

* `queue_beat`. The heartbeat's `catch` aborts the worker's only
  `AbortController` (`memory/maintenance.ts:81`). Every later pass throws at
  `throwIfAborted()`, the process lives and keeps the lease, so queued work
  waits until the process ends, though `cli/commands/index.ts` tells the user
  that the active worker will retry it. One `SQLITE_BUSY` is enough.
* `forget_shared`. `applyForget()` decides in its transaction which artifacts
  another source owns; `finishArchive()` unlinks the rest later without asking
  again. A source that published equal bytes in between loses its artifact.
* `forget_leaves`. A rescue reads the tombstones once before it copies, and a
  capture writes its artifact before the transaction that would refuse it. When
  the forget is committed and cleaned up in between, bytes come back under
  `archive/` and the tombstone is already complete.

The same models show, without a run of their own:

* `RescueOrphans`, the transaction for sessions that only a
  `sessions-index.json` lists, does not look at tombstones: a forgotten ghost is
  built again by the next rescue (`rescue.ts:710`). Only rebuilding from
  `history.jsonl` is safe (`HistoryGhostsRespectForget`).
* Forgetting the newest link of a chain takes the only row marked `head`. Until
  the next pass `threadRollup()` folds none of the other links (`browse.ts:188`),
  while `threadOf()` makes the deepest one the head that counts them all: their
  work is listed twice, though `browse.ts:164` says that an earlier link does
  not take a row. `NothingHidden` is the half that holds.
* `Parents` may have a cycle. The dates orient most edges and a declared parent
  may turn one against them (`threads.ts:379`): with `MinShared = 2`, six records
  of a session forked twice, with one fork naming it, that goes on after both
  give three edges in a circle. `rootOf()` then ends at a different session
  for each of them and the chain falls into pieces, though `threads.ts:408`
  says that a cycle cannot arise from the orientation.
* Forgetting reaches cards through the row in `sessions`
  (`memory/delete.ts:154`). A ghost has none, its card stays, rows and file.
* `writeCard()` asks no tombstone (`cards/write.ts:230`), and a run may have the
  session in hand for minutes: it stores the card, and its file, after the
  forget is complete (`inHand`).
* The sentinel of a failed re-carding replaces the file of the card that is
  still in the database (`cards/run.ts:380`).
* `shouldQueueForCard()` has no caller: with `--limit` a session that keeps
  failing is in every plan (`cards/plan.ts:193`) and the sessions behind it never
  are, which is what `cards/run.ts:42` says the sentinel is for.
* `FaultAt = {"recover"}`: `acquire()` keeps the fence before `recoverJobs()`
  has run. If that throws, the next pass finds a fence and skips recovery for
  good; a dead owner's rows stay `running` (`RunningHasOwner`, `RunningEnds`).
* `FaultAt = {"fail"}` with a `Poison` job: a throw of `finishJob()` in the
  catch block leaves the row running under the worker's own fence, which its
  own `recoverJobs()` never touches (`RunningEnds`).
* A fault in `finishClose()`'s transaction leaves the lease unreleased; it is
  recoverable once the process has ended.
* A spooled request whose child was refused, because the lease's owner was a
  foreground command that ends without draining the spool, waits for the next
  worker of any kind; `cli/commands/index.ts:126` says that the active worker
  will retry it. `RequestsAreServed` therefore speaks of running servers, and
  `RequestIsKept` says that nothing is lost.
* `embedExchanges()` (`ingest.ts:1304`) writes a chunk of vectors after its
  await without reading the rows again, as `embedPending()` does: of a row that
  was rewritten meanwhile it stores and stamps the vector of the earlier text,
  and of a forgotten one it leaves a vector behind until the next open, although
  `ingest.ts:292` says that a vector belongs to the text it was computed from.
  A rescue that replaces a ghost's prompts, and the masking after it, leave
  their vectors under the same ids; the next reconcile adopts them by id. So
  does a store of 1.1.0 whose conversion was declined while rows were
  rewritten. `drifted` is exactly these.
* A kill between the two statements that empty a superseded store leaves rows
  stamped without vectors until another open sees them (`severed`).
* An index pass that masks a ghost writes back the text it had read, also over
  the newer one of a rescue in between (`ingest.ts:558`, `overwritten`); the rescue's
  fingerprint says that the newer text is there, so it stays away until the history
  changes again.
* An index fingerprint may match although a ghost that was rebuilt while the
  pass ran is not in the full-text side (`torn`), against the comment at
  `ingest.ts:598`; a forget's 'rebuild' puts ghosts not yet masked there too.
* `SpendWithinCap` holds up to `overrun`: calls that cost more than their
  estimates, several at once, end above the ceiling. The gate may for a moment
  run one call more than it has permits (`cards/gate.ts:33`), and the chunk
  calls of a session that failed run on after it.
* A card made from text that was loaded before an index pass, and stored after
  it, looks fresh for good (`cards/plan.ts:312`), and so does one made before
  text was stored under the mtime of an earlier listing (`ingest.ts:953`, `1028`):
  they stay out of date until the transcript is written again.
* The birth of a lease's owner is compared as `ps` prints it, without the
  `LC_ALL` and `TZ` that the lock sets (`memory/leases.ts:7`, `lock.ts:270`): two
  agents on one host started in different zones or locales take the lease from
  each other while both live. Work is fenced, so it is repeated, not mixed.
* An idle encoder thread that dies unheard costs the next request its 30 s.

## 7. Plan

Done: the modules above with their runs, and a theorem for every safety and
action property of the passing runs. To come:

1. An abstract evidence store (a source is absent, known with evidence, or
   forgotten for good; publication extends or replaces; nothing revives) that
   `EvidenceStore` implements, as a refinement with its proof.
2. `ImplementsExclusiveLock`'s counterpart for the lease: `MaintenanceQueue`
   implements a lease that is handed on only when given up or when its owner
   is dead, and `IndexCommand`'s lease implements the same, which would replace the
   argument in "How they compose" by two theorems.
3. `NewestStays`, `RevisionsKept` and `GrowsOnly` without `Distinct`, for the sources
   that share no bytes with a forgotten one.
4. Conditional forms of what section 6 shows: `ForgottenLeavesNothing` when
   nothing was under way at the forget; a chain with exactly one head when its
   head was not forgotten.
