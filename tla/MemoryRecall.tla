----------------------------- MODULE MemoryRecall -----------------------------
(***************************************************************************)
(* recall() of memory/service.ts against the writers of the memory store.  *)
(* It takes the lexical candidates and the notes in one transaction,       *)
(* awaits the dense lane (memory/dense.ts), which reads page by page, and  *)
(* answers in a second transaction if nothing it relied on has changed:    *)
(* every writer counts up an epoch of what it changed, and the effective   *)
(* scope, which depends on a file of ignored projects and on no epoch, is  *)
(* compared as such.  Notes are written under a request key               *)
(* (memory/notes-store.ts) and removed when a source they rest on is       *)
(* forgotten (memory/delete.ts).                                           *)
(*                                                                         *)
(* One recall runs; every source matches its query.                        *)
(***************************************************************************)
EXTENDS Naturals

CONSTANTS
  Recalled,    \* sources, each of a project of its own
  MaxRevision, \* how many revisions of each are published
  Key,         \* request keys of note writes
  Input,       \* what a client writes under them
  RestsOn      \* the source each input names

ASSUME RecallAssumption ==
  /\ MaxRevision \in [Recalled -> Nat]
  /\ RestsOn \in [Input -> Recalled]

VARIABLES
  latest,      \* the active revision of each source; 0 for none
  erased,      \* forgotten sources
  vectors,     \* revisions with their vectors committed
  hidden,      \* sources whose project is on the ignore list
  notes,       \* note events, by key and input
  receipts,    \* memory_write_receipts: at most one input per key
  epochs,      \* memory_epochs: evidence (with lineage and deletion), notes, vector
  recallPc,    \* where the recall is
  attempt,     \* 0 or 1
  snapshot,    \* what its first transaction saw
  edited,      \* the ignore list was edited since the snapshot: {} or {TRUE}
  pages,       \* the sources the dense lane has not read yet
  hits,        \* its candidates
  answer       \* what it delivered

memoryVars  == <<latest, erased, vectors, hidden, notes, receipts, epochs>>
callVars   == <<recallPc, attempt, snapshot, edited, pages, hits, answer>>
recallVars == <<memoryVars, callVars>>

Revision == Recalled \X (Nat \ {0})
Note     == Key \X Input
Epochs   == [evidence : Nat, notes : Nat, vector : Nat]

(* The evidence a query may return: active revisions in scope.             *)
Eligible == {<<s, latest[s]>> : s \in {x \in Recalled \ hidden : latest[x] > 0}}
NotesInScope == {n \in notes : RestsOn[n[2]] \notin hidden}

Snapshots == [lexical : SUBSET Revision, notes : SUBSET Note, hidden : SUBSET Recalled,
              epochs : Epochs]
Answers   == [lexical : SUBSET Revision, notes : SUBSET Note, dense : SUBSET Revision]
NoEpochs   == [evidence |-> 0, notes |-> 0, vector |-> 0]
NoSnapshot == [lexical |-> {}, notes |-> {}, hidden |-> {}, epochs |-> NoEpochs]

RecallTypeOK ==
  /\ latest \in [Recalled -> Nat]
  /\ erased \in SUBSET Recalled /\ hidden \in SUBSET Recalled
  /\ vectors \in SUBSET Revision
  /\ notes \in SUBSET Note
  /\ receipts \in [Key -> SUBSET Input]
  /\ epochs \in Epochs
  /\ recallPc \in {"idle", "snapshot", "dense", "answered", "changed"}
  /\ attempt \in {0, 1}
  /\ snapshot \in Snapshots
  /\ edited \in SUBSET {TRUE} /\ pages \in SUBSET Recalled /\ hits \in SUBSET Revision
  /\ answer \in SUBSET Answers

RecallInit ==
  /\ latest = [s \in Recalled |-> 0] /\ erased = {} /\ vectors = {} /\ hidden = {}
  /\ notes = {} /\ receipts = [k \in Key |-> {}]
  /\ epochs = NoEpochs
  /\ recallPc = "idle" /\ attempt = 0 /\ snapshot = NoSnapshot
  /\ edited = {} /\ pages = {} /\ hits = {} /\ answer = {}

-----------------------------------------------------------------------------
(* The writers.  Each is one transaction.                                  *)

PublishRevision(s) ==
  /\ s \notin erased /\ latest[s] < MaxRevision[s]
  /\ latest' = [latest EXCEPT ![s] = @ + 1]
  /\ epochs' = [epochs EXCEPT !.evidence = @ + 1]
  /\ UNCHANGED <<erased, vectors, hidden, notes, receipts, callVars>>

(* commitSpanVector(): also of a revision that is no longer active.        *)
CommitVector(s, r) ==
  /\ s \notin erased /\ <<s, r>> \notin vectors
  /\ vectors' = vectors \cup {<<s, r>>}
  /\ epochs' = [epochs EXCEPT !.vector = @ + 1]
  /\ UNCHANGED <<latest, erased, hidden, notes, receipts, callVars>>

(* applyForget(): the source, its vectors and the notes that rest on it,   *)
(* but not the receipts of their writes.                                   *)
ForgetSource(s) ==
  /\ s \notin erased /\ erased' = erased \cup {s}
  /\ latest' = [latest EXCEPT ![s] = 0]
  /\ vectors' = {v \in vectors : v[1] # s}
  /\ notes' = {n \in notes : RestsOn[n[2]] # s}
  /\ epochs' = [evidence |-> epochs.evidence + 1, notes |-> epochs.notes + 1,
                vector |-> epochs.vector + 1]
  /\ UNCHANGED <<hidden, receipts, callVars>>

(* The user edits the ignore list; nothing counts that.                    *)
EditIgnoreList(s) ==
  /\ hidden' = (hidden \cup {s}) \ (hidden \cap {s})
  /\ edited' = IF recallPc = "dense" THEN {TRUE} ELSE {}
  /\ UNCHANGED <<latest, erased, vectors, notes, receipts, epochs,
                 recallPc, attempt, snapshot, pages, hits, answer>>

(* A variant that looks for the note instead of the receipt.               *)
NoteExists(k) == \E n \in notes : n[1] = k

Answered(k) == receipts[k] # {}

(* writeMemoryNotes(): an earlier receipt of the key is returned before    *)
(* anything else is looked at, and never for another input.                *)
WriteNote(k, i) ==
  /\ \/ ~Answered(k) /\ latest[RestsOn[i]] > 0
        /\ notes' = notes \cup {<<k, i>>}
        /\ receipts' = [receipts EXCEPT ![k] = {i}]
        /\ epochs' = [epochs EXCEPT !.notes = @ + 1]
     \/ Answered(k) /\ receipts[k] = {i} /\ UNCHANGED <<notes, receipts, epochs>>
  /\ UNCHANGED <<latest, erased, vectors, hidden, callVars>>

-----------------------------------------------------------------------------
(* The recall.                                                             *)

RecallStarts ==
  /\ recallPc = "idle" /\ recallPc' = "snapshot"
  /\ UNCHANGED <<memoryVars, attempt, snapshot, edited, pages, hits, answer>>

TakeSnapshot ==
  /\ recallPc = "snapshot" /\ recallPc' = "dense"
  /\ snapshot' = [lexical |-> Eligible, notes |-> NotesInScope, hidden |-> hidden,
                  epochs |-> epochs]
  /\ pages' = Recalled /\ hits' = {} /\ edited' = {}
  /\ UNCHANGED <<memoryVars, attempt, answer>>

(* One page of the dense lane, in a read of its own.                       *)
DensePage(s) ==
  /\ recallPc = "dense" /\ s \in pages
  /\ pages' = pages \ {s}
  /\ hits' = hits \cup (Eligible \cap vectors \cap ({s} \X Nat))
  /\ UNCHANGED <<memoryVars, recallPc, attempt, snapshot, edited, answer>>

(* No assets, no encoder, a vector that does not validate.                 *)
DenseFails ==
  /\ recallPc = "dense" /\ pages # {}
  /\ pages' = {} /\ hits' = {}
  /\ UNCHANGED <<memoryVars, recallPc, attempt, snapshot, edited, answer>>

(* A variant that forgets the notes.                                       *)
SameRevisions(a, b) == a.evidence = b.evidence

SameEvidence(a, b) == a.evidence = b.evidence /\ a.notes = b.notes

Unchanged == SameEvidence(snapshot.epochs, epochs) /\ snapshot.hidden = hidden

(* A commit of vectors does not invalidate the lexical answer, but its     *)
(* dense candidates are dropped; the others must still be eligible.        *)
Verified == IF snapshot.epochs.vector # epochs.vector THEN {} ELSE hits \cap Eligible

Answer ==
  /\ recallPc = "dense" /\ pages = {} /\ Unchanged
  /\ recallPc' = "answered"
  /\ answer' = {[lexical |-> snapshot.lexical, notes |-> snapshot.notes, dense |-> Verified]}
  /\ snapshot' = NoSnapshot /\ hits' = {} /\ edited' = {}
  /\ UNCHANGED <<memoryVars, attempt, pages>>

(* A variant without the limit.                                            *)
TryAgainAlways ==
  /\ recallPc = "dense" /\ pages = {} /\ ~Unchanged
  /\ recallPc' = "snapshot" /\ attempt' = attempt + 1
  /\ snapshot' = NoSnapshot /\ hits' = {}
  /\ UNCHANGED <<memoryVars, edited, pages, answer>>

(* Once more, and then the caller is told `snapshot_changed`.              *)
TryAgain ==
  /\ recallPc = "dense" /\ pages = {} /\ ~Unchanged
  /\ recallPc' = IF attempt = 0 THEN "snapshot" ELSE "changed"
  /\ attempt' = 1
  /\ snapshot' = NoSnapshot /\ hits' = {}
  /\ UNCHANGED <<memoryVars, edited, pages, answer>>

-----------------------------------------------------------------------------
WriterStep ==
  \/ \E s \in Recalled : PublishRevision(s) \/ ForgetSource(s) \/ EditIgnoreList(s)
  \/ \E s \in Recalled : \E r \in 1 .. latest[s] : CommitVector(s, r)
  \/ \E k \in Key, i \in Input : WriteNote(k, i)
RecallStep ==
  \/ RecallStarts \/ TakeSnapshot \/ DenseFails \/ Answer \/ TryAgain
  \/ \E s \in Recalled : DensePage(s)

RecallNext == WriterStep \/ RecallStep
RecallSpec == RecallInit /\ [][RecallNext]_recallVars

-----------------------------------------------------------------------------
(* What a recall answers is true of one state of the store, the one it is  *)
(* delivered in, whatever was published, embedded, forgotten, noted or     *)
(* ignored while it awaited: the lexical evidence and the notes are those  *)
(* in scope, and the dense evidence is all that has its vectors or, when   *)
(* the lane failed or vectors were committed, none.  Only an edit of the   *)
(* ignore list that was taken back can leave a part of it out.             *)
AnswerIsOneSnapshot ==
  [][\A a \in answer' \ answer :
       /\ a.lexical = Eligible /\ a.notes = NotesInScope
       /\ a.dense \subseteq Eligible \cap vectors
       /\ edited = {} => a.dense \in {{}, Eligible \cap vectors}]_recallVars

(* A write repeated under its key is one write, also when forgetting has   *)
(* removed the note meanwhile: once there is a receipt it is for ever of   *)
(* that input, and no note of its key is added.                            *)
RetriedWriteIsOneWrite ==
  [][\A k \in Key : receipts[k] # {} =>
       /\ receipts'[k] = receipts[k]
       /\ {n \in notes' : n[1] = k} \subseteq notes]_recallVars

=============================================================================
