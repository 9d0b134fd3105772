------------------------------ MODULE GhostIndex ------------------------------
(***************************************************************************)
(* Ghosts: sessions whose transcript is gone and of which history.jsonl or *)
(* a sessions-index.json still remembers something.  rescue (rescue.ts,    *)
(* ghostPass) derives their rows, unredacted; the index pass (ingest.ts,   *)
(* ingestGhosts) masks them and fills the full-text tables; forgetting     *)
(* (memory/delete.ts) removes them.  Rescues exclude each other by the     *)
(* 'rescue' lane and index passes by the maintenance lease, but the three  *)
(* do not exclude one another.  Rescue and index each keep a fingerprint   *)
(* of what they last saw and do nothing while it matches.                  *)
(*                                                                         *)
(* The text of a ghost is abstracted to the version of the history it was  *)
(* derived from and whether it still holds something to mask.  Two states  *)
(* of the tables, or of a file, have different fingerprints: a rewrite of  *)
(* the same total length, or within one millisecond, is not modelled.      *)
(***************************************************************************)
EXTENDS Naturals

CONSTANTS
  Session,    \* sessions of Claude Code
  Indexed,    \* those a sessions-index.json lists
  Secret,     \* those whose text holds something to mask
  MaxEdits    \* how many prompts each appends to history.jsonl

ASSUME GhostAssumption ==
  /\ Indexed \subseteq Session /\ Secret \subseteq Session
  /\ MaxEdits \in [Session -> Nat]

VARIABLES
  history,    \* prompts of each session in history.jsonl
  onDisk,     \* sessions whose transcript exists
  forgotten,  \* sessions with a tombstone
  known,      \* sessions with a row in memory_sources
  ghost,      \* the ghost row of each session
  fts,        \* what the full-text tables hold for it
  rescueFp,   \* sync_state 'claude:ghosts': {} or one fingerprint
  indexFp,    \* index_state of ingestGhosts(): {} or one fingerprint
  rescuePc,   \* where the rescue is
  scanned,    \* the transcripts it listed
  statHistory,\* the history its fingerprint was taken from
  readHistory,\* the history it read
  indexPc,    \* where the index pass is
  readGhosts, \* the rows it read
  torn,       \* sessions whose ghost changed while the last index pass ran
  overwritten \* sessions whose text an index pass set back to what it had read

ghostFiles   == <<history, onDisk>>
tableVars  == <<forgotten, known, ghost, fts, rescueFp, indexFp>>
rescueVars == <<rescuePc, scanned, statHistory, readHistory>>
passVars   == <<indexPc, readGhosts>>
markVars   == <<torn, overwritten>>
ghostVars  == <<ghostFiles, tableVars, rescueVars, passVars, markVars>>

NoGhost == [from |-> "nowhere", ver |-> 0, raw |-> {}]
Ghosts  == [from : {"nowhere", "history", "index"}, ver : Nat, raw : SUBSET Session]
NoRows  == [s \in Session |-> NoGhost]
Empty   == [s \in Session |-> 0]

GhostTypeOK ==
  /\ history \in [Session -> Nat] /\ onDisk \in SUBSET Session
  /\ forgotten \in SUBSET Session /\ known \in SUBSET Session
  /\ ghost \in [Session -> Ghosts] /\ fts \in [Session -> Ghosts]
  /\ rescueFp \in SUBSET ([Session -> Nat] \X SUBSET Session)
  /\ indexFp \in SUBSET [Session -> Ghosts]
  /\ rescuePc \in {"idle", "stat", "read", "history", "orphans", "store"}
  /\ scanned \in SUBSET Session
  /\ statHistory \in [Session -> Nat] /\ readHistory \in [Session -> Nat]
  /\ indexPc \in {"idle", "write", "backfill"}
  /\ readGhosts \in [Session -> Ghosts]
  /\ torn \in SUBSET Session /\ overwritten \in SUBSET Session

GhostInit ==
  /\ history = Empty /\ onDisk = Session
  /\ forgotten = {} /\ known = {} /\ ghost = NoRows /\ fts = NoRows
  /\ rescueFp = {} /\ indexFp = {}
  /\ rescuePc = "idle" /\ scanned = {} /\ statHistory = Empty /\ readHistory = Empty
  /\ indexPc = "idle" /\ readGhosts = NoRows
  /\ torn = {} /\ overwritten = {}

-----------------------------------------------------------------------------
(* Claude Code appends a prompt, also of a session whose transcript it has *)
(* removed before and may write again, and removes transcripts that got old.*)
TypePrompt(s) ==
  /\ history[s] < MaxEdits[s]
  /\ history' = [history EXCEPT ![s] = @ + 1]
  /\ onDisk' \in {onDisk, onDisk \cup {s}}
  /\ UNCHANGED <<tableVars, rescueVars, passVars, markVars>>

CleanTranscript(s) ==
  /\ s \in onDisk /\ onDisk' = onDisk \ {s}
  /\ UNCHANGED <<history, tableVars, rescueVars, passVars, markVars>>

-----------------------------------------------------------------------------
(* The rescue.  The transcripts are listed, and history.jsonl is stat'ed   *)
(* for the fingerprint, before anything is read.                           *)
RescueScans ==
  /\ rescuePc = "idle" /\ rescuePc' = "stat"
  /\ scanned' = onDisk
  /\ UNCHANGED <<ghostFiles, tableVars, statHistory, readHistory, passVars, markVars>>

RescueEnds ==
  /\ rescuePc' = "idle"
  /\ scanned' = {} /\ statHistory' = Empty /\ readHistory' = Empty

AnyGhost == \E s \in Session : ghost[s] # NoGhost

(* The fast path: nothing changed since the fingerprint was stored.        *)
RescueSkips ==
  /\ rescuePc = "stat" /\ rescueFp = {<<history, scanned>>} /\ AnyGhost
  /\ RescueEnds
  /\ UNCHANGED <<ghostFiles, tableVars, passVars, markVars>>

RescueStats ==
  /\ rescuePc = "stat" /\ ~(rescueFp = {<<history, scanned>>} /\ AnyGhost)
  /\ statHistory' = history /\ rescuePc' = "read"
  /\ UNCHANGED <<ghostFiles, tableVars, scanned, readHistory, passVars, markVars>>

RescueReads ==
  /\ rescuePc = "read" /\ readHistory' = history /\ rescuePc' = "history"
  /\ UNCHANGED <<ghostFiles, tableVars, scanned, statHistory, passVars, markVars>>

Derived(s, from, ver) == [from |-> from, ver |-> ver, raw |-> Secret \cap {s}]

(* A variant without the tombstones.                                       *)
HistoryGhostsAll == {s \in Session \ scanned : readHistory[s] > 0}

HistoryGhosts == {s \in Session \ (scanned \cup forgotten) : readHistory[s] > 0}

(* The first transaction: ghosts of history.jsonl, but not forgotten ones. *)
RescueHistory ==
  LET ghosts == HistoryGhosts
  IN /\ rescuePc = "history" /\ rescuePc' = "orphans"
     /\ ghost' = [s \in Session |-> IF s \in ghosts
                                    THEN Derived(s, "history", readHistory[s]) ELSE ghost[s]]
     /\ overwritten' = overwritten \ ghosts
     /\ UNCHANGED <<ghostFiles, forgotten, known, fts, rescueFp, indexFp,
                    scanned, statHistory, readHistory, passVars, torn>>

(* The second: ghosts only a sessions-index.json knows.                    *)
RescueOrphans ==
  LET orphans == {s \in Indexed \ scanned : readHistory[s] = 0}
  IN /\ rescuePc = "orphans" /\ rescuePc' = "store"
     /\ ghost' = [s \in Session |-> IF s \in orphans THEN Derived(s, "index", 0) ELSE ghost[s]]
     /\ overwritten' = overwritten \ orphans
     /\ UNCHANGED <<ghostFiles, forgotten, known, fts, rescueFp, indexFp,
                    scanned, statHistory, readHistory, passVars, torn>>

(* A variant that takes the fingerprint at the end.                        *)
LateFingerprint == <<history, onDisk>>

StoredFingerprint == <<statHistory, scanned>>

RescueStores ==
  /\ rescuePc = "store" /\ RescueEnds
  /\ rescueFp' = {StoredFingerprint}
  /\ UNCHANGED <<ghostFiles, forgotten, known, ghost, fts, indexFp, passVars, markVars>>

RescueDies ==
  /\ rescuePc # "idle" /\ RescueEnds
  /\ UNCHANGED <<ghostFiles, tableVars, passVars, markVars>>

-----------------------------------------------------------------------------
(* The index pass captures live transcripts and then looks at the ghosts.  *)
CaptureLive(s) ==
  /\ indexPc = "idle" /\ s \in onDisk \ forgotten
  /\ known' = known \cup {s}
  /\ UNCHANGED <<ghostFiles, forgotten, ghost, fts, rescueFp, indexFp,
                 rescueVars, passVars, markVars>>

(* The rows are selected outside the transaction that writes them back;    *)
(* with --full also when the fingerprint matches.                          *)
IndexReads ==
  /\ indexPc = "idle" /\ indexPc' = "write"
  /\ readGhosts' = ghost
  /\ UNCHANGED <<ghostFiles, tableVars, rescueVars, markVars>>

Masked(g) == [g EXCEPT !.raw = {}]

(* A variant that masks only the full-text side.                           *)
LeftInPlace(s) == ghost[s]

(* UPDATE of the rows whose masked text differs from what was read.        *)
WrittenBack(s) ==
  IF ghost[s] # NoGhost /\ Masked(readGhosts[s]) # readGhosts[s]
    THEN [ghost[s] EXCEPT !.ver = readGhosts[s].ver, !.raw = {}]
    ELSE ghost[s]

(* 'delete-all', then the masked text of every row read; the fingerprint   *)
(* that is stored is that of the tables as they are now.                   *)
IndexWrites ==
  /\ indexPc = "write" /\ indexPc' = "backfill" /\ readGhosts' = NoRows
  /\ ghost' = [s \in Session |-> WrittenBack(s)]
  /\ fts' = [s \in Session |-> Masked(readGhosts[s])]
  /\ indexFp' = {ghost'}
  /\ torn' = {s \in Session : ghost[s] # readGhosts[s]}
  /\ overwritten' = overwritten \cup {s \in torn' : WrittenBack(s) # ghost[s]}
  /\ UNCHANGED <<ghostFiles, forgotten, known, rescueFp, rescueVars>>

(* backfillLegacyGhosts(): a source for every ghost not forgotten.         *)
IndexBackfills ==
  /\ indexPc = "backfill" /\ indexPc' = "idle"
  /\ known' = known \cup {s \in Session \ forgotten : ghost[s] # NoGhost}
  /\ UNCHANGED <<ghostFiles, forgotten, ghost, fts, rescueFp, indexFp,
                 rescueVars, readGhosts, markVars>>

IndexDies ==
  /\ indexPc # "idle" /\ indexPc' = "idle" /\ readGhosts' = NoRows
  /\ UNCHANGED <<ghostFiles, tableVars, rescueVars, markVars>>

(* applyForget(): the tombstone, the ghost of a source it knows, and       *)
(* 'rebuild' of the full-text tables from the rows, masked or not.         *)
ForgetSession(s) ==
  /\ s \notin forgotten /\ forgotten' = forgotten \cup {s}
  /\ ghost' = IF s \in known THEN [ghost EXCEPT ![s] = NoGhost] ELSE ghost
  /\ fts' = ghost'
  /\ UNCHANGED <<ghostFiles, known, rescueFp, indexFp, rescueVars, passVars, markVars>>

-----------------------------------------------------------------------------
RescueStep == \/ RescueScans \/ RescueSkips \/ RescueStats \/ RescueReads
              \/ RescueHistory \/ RescueOrphans \/ RescueStores \/ RescueDies
PassStep   == IndexReads \/ IndexWrites \/ IndexBackfills \/ IndexDies

GhostNext ==
  \/ RescueStep \/ PassStep
  \/ \E s \in Session :
       TypePrompt(s) \/ CleanTranscript(s) \/ CaptureLive(s) \/ ForgetSession(s)

GhostSpec == GhostInit /\ [][GhostNext]_ghostVars

-----------------------------------------------------------------------------
Erased == forgotten \cap known

(* The ghost of a forgotten source is not rebuilt from history.jsonl, at   *)
(* whatever point of a running rescue it was forgotten.                    *)
HistoryGhostsRespectForget == \A s \in Erased : ghost[s].from # "history"

(* When the stored fingerprint of a rescue matches the files, every        *)
(* session it would rebuild has its ghost, of the newest history unless an *)
(* index pass set the text back: a stale fingerprint costs only work.      *)
RescueMaySkip ==
  \A s \in Session \ forgotten, d \in SUBSET Session :
    (rescueFp = {<<history, d>>} /\ s \notin d /\ history[s] > 0)
      => /\ ghost[s].from = "history"
         /\ ghost[s].ver = history[s] \/ s \in overwritten

(* When the stored fingerprint of the index matches the tables, the        *)
(* full-text side holds exactly the rows and nothing is left to mask,      *)
(* except for ghosts that changed between the pass's reading and writing,  *)
(* and forgotten ones: one that comes back as it was is not noticed.       *)
MatchMeansIndexed ==
  indexFp = {ghost} =>
    \A s \in Session \ (torn \cup forgotten) : fts[s] = ghost[s] /\ ghost[s].raw = {}

(* What a matching fingerprint lets a pass skip is done already.           *)
FastPathIsSound == RescueMaySkip /\ MatchMeansIndexed

=============================================================================
