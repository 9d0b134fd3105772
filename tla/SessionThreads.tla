---------------------------- MODULE SessionThreads ----------------------------
(***************************************************************************)
(* Fork and resume chains (threads.ts).  `claude --resume` writes a new    *)
(* transcript whose head is a copy of an old one.  An index pass stores    *)
(* for each session the ids of its records and the sessions that its       *)
(* records name as their origin (prepareLineage()), and ends by deriving   *)
(* all chains anew from the stored rows (deriveThreads()); `ls` folds the  *)
(* earlier links of a chain into its head (browse.ts).                     *)
(*                                                                         *)
(* Records are numbered in the order in which they were written, so the    *)
(* greatest one of a session is its last activity.  A capture is one step  *)
(* here; EvidenceStore has its steps.                                      *)
(***************************************************************************)
EXTENDS Integers, FiniteSets, FiniteSetsExt

CONSTANTS
  Sessions,     \* session ids are numbers: only their order matters
  MaxRecords,
  MinShared,    \* MIN_SHARED_RECORDS
  Threshold,    \* OVERLAP_THRESHOLD, in quarters
  Forgettable,
  Indexer       \* processes that run index passes

Session == 1 .. Sessions

ASSUME ThreadAssumption ==
  /\ Sessions \in Nat /\ MaxRecords \in Nat
  /\ MinShared \in Nat \ {0} /\ Threshold \in 1 .. 4
  /\ Forgettable \subseteq Session /\ Indexer # {}

VARIABLES
  file,       \* the transcripts: records, and the sessions these name
  gone,       \* those that were deleted from the harness's directory
  clock,      \* records written so far
  row,        \* what the index holds of each: session_record_ids,
              \* session_declared_parents and its row of `sessions`
  forgotten,
  threads,    \* session_threads
  owner,      \* who has the lease
  pass,       \* the index passes
  calm        \* passes since whose start nothing else has happened

fileState  == <<file, gone, clock>>
indexState == <<row, forgotten, threads>>
threadVars == <<fileState, indexState, owner, pass, calm>>

Nothing == [recs |-> {}, names |-> {}]
Content == [recs : SUBSET (1 .. MaxRecords), names : SUBSET Session]
NoRow   == [root |-> 0, parent |-> 0, depth |-> 0, head |-> FALSE]
Table   == [Session -> [root : 0 .. Sessions, parent : 0 .. Sessions,
                        depth : 0 .. Sessions, head : BOOLEAN]]
NoTable == [s \in Session |-> NoRow]
NoPass  == [at |-> "idle", todo |-> {}, found |-> NoTable]

ThreadsTypeOK ==
  /\ file \in [Session -> Content] /\ gone \subseteq Session
  /\ clock \in 0 .. MaxRecords
  /\ row \in [Session -> Content] /\ forgotten \subseteq Forgettable
  /\ threads \in Table
  /\ owner \in Indexer /\ calm \subseteq Indexer
  /\ pass \in [Indexer -> [at : {"idle", "capture", "derived"}, todo : SUBSET Session,
                           found : Table]]

ThreadsInit ==
  /\ file = [s \in Session |-> Nothing] /\ gone = {} /\ clock = 0
  /\ row = [s \in Session |-> Nothing] /\ forgotten = {} /\ threads = NoTable
  /\ owner = CHOOSE p \in Indexer : TRUE
  /\ pass = [p \in Indexer |-> NoPass] /\ calm = {}

-----------------------------------------------------------------------------
(* deriveThreads(), over the rows `r` of the index.                        *)

Pairs == {{s, t} : s \in Session, t \in Session} \ {{s} : s \in Session}
Other(pair, s) == CHOOSE t \in pair : t # s

Shared(r, pair)  == {n \in 1 .. MaxRecords : \A s \in pair : n \in r[s].recs}
Smaller(r, pair) == Min({Cardinality(r[s].recs) : s \in pair})

Alike(r, pair) ==
  LET count == Cardinality(Shared(r, pair))
  IN count >= MinShared /\ 4 * count >= Threshold * Smaller(r, pair)

(* orient(): the one whose own work is later inherited from the other.     *)
Older(r, a, b) ==
  LET size(s) == Cardinality(r[s].recs)
      end(s)  == Max(r[s].recs)
  IN \/ end(a) < end(b)
     \/ end(a) = end(b) /\ (size(a) < size(b) \/ (size(a) = size(b) /\ a < b))

(* The harness's own pointer outranks the dates.                           *)
Edge(r, pair) ==
  LET late  == CHOOSE s \in pair : Older(r, Other(pair, s), s)
      early == Other(pair, late)
      child == IF late \in r[early].names /\ early \notin r[late].names THEN early ELSE late
  IN [child |-> child, parent |-> Other(pair, child),
      named |-> late \in r[early].names \/ early \in r[late].names,
      shared |-> Shared(r, pair), of |-> Smaller(r, pair)]

(* The strongest candidate wins; of equal ones, the one met first when the *)
(* pairs are listed by their first shared record.                          *)
Stronger(e, f) ==
  LET share(x, y) == Cardinality(x.shared) * y.of
      first(x)    == <<Min(x.shared), Min({x.child, x.parent}), Max({x.child, x.parent})>>
  IN \/ e.named /\ ~f.named
     \/ e.named = f.named /\ share(e, f) > share(f, e)
     \/ /\ e.named = f.named /\ share(e, f) = share(f, e)
        /\ \E i \in 1 .. 3 : first(e)[i] < first(f)[i]
                             /\ \A j \in 1 .. (i - 1) : first(e)[j] = first(f)[j]

Parents(r) ==
  LET edges == {Edge(r, pair) : pair \in {p \in Pairs : Alike(r, p)}}
      best(s) == CHOOSE e \in edges : /\ e.child = s
                                      /\ \A f \in edges \ {e} : f.child = s => Stronger(e, f)
  IN [s \in Session |-> IF \E e \in edges : e.child = s THEN best(s).parent ELSE 0]

(* rootOf(): walk up, refusing to loop.                                    *)
Walk(par, s) ==
  LET at[n \in 0 .. Sessions] ==
        IF n = 0 THEN s
        ELSE IF par[at[n - 1]] \in {0} \cup {at[k] : k \in 0 .. (n - 1)} THEN at[n - 1]
        ELSE par[at[n - 1]]
  IN at

Chains(r) ==
  LET par     == Parents(r)
      linked  == {s \in Session : par[s] # 0 \/ \E t \in Session : par[t] = s}
      walk    == [s \in linked |-> Walk(par, s)]
      root(s) == walk[s][Sessions]
      depth(s) == Cardinality({walk[s][n] : n \in 0 .. Sessions}) - 1
      end(s)  == Max(r[s].recs \cup {0})
      before(s, t) == \/ depth(s) < depth(t)
                      \/ depth(s) = depth(t) /\ (end(s) < end(t) \/ (end(s) = end(t) /\ s < t))
  IN [s \in Session |->
        IF s \notin linked THEN NoRow
        ELSE [root |-> root(s), parent |-> par[s], depth |-> depth(s),
              head |-> \A t \in linked \ {s} : root(t) = root(s) => before(t, s)]]

-----------------------------------------------------------------------------
(* The harness.                                                            *)
Writes(s, recs, names) ==
  /\ clock < MaxRecords /\ clock' = clock + 1
  /\ file' = [file EXCEPT ![s] = [recs |-> recs \cup {clock + 1}, names |-> names \ {s}]]
  /\ calm' = {}
  /\ UNCHANGED <<gone, indexState, owner, pass>>

(* The name a record carries as its origin sticks to the process, so a new *)
(* record may name a session that it has nothing from.                     *)
WriteRecord(s) ==
  /\ s \notin gone
  /\ \E n \in {{}} \cup {{t} : t \in {u \in Session : file[u] # Nothing}} :
       Writes(s, file[s].recs, file[s].names \cup n)

(* A copied record keeps the name of its origin, where it has one.         *)
ResumeAs(s, t) ==
  /\ file[s] # Nothing /\ s \notin gone /\ file[t] = Nothing
  /\ \E n \in {{}, {s}} : Writes(t, file[s].recs, file[s].names \cup n)

(* The harness deletes old transcripts.                                    *)
Sweep(s) ==
  /\ file[s] # Nothing /\ gone' = gone \cup {s}
  /\ calm' = {}
  /\ UNCHANGED <<file, clock, indexState, owner, pass>>

-----------------------------------------------------------------------------
(* The index.                                                              *)
Overtake(p) ==
  /\ owner' = p
  /\ calm' = {}
  /\ UNCHANGED <<fileState, indexState, pass>>

(* The tombstone and the rows; ON DELETE CASCADE takes the three tables.   *)
ForgetSession(s) ==
  /\ row[s] # Nothing /\ forgotten' = forgotten \cup {s}
  /\ row' = [row EXCEPT ![s] = Nothing] /\ threads' = [threads EXCEPT ![s] = NoRow]
  /\ calm' = {}
  /\ UNCHANGED <<fileState, owner, pass>>

Discover(p) ==
  /\ pass[p].at = "idle" /\ p = owner
  /\ pass' = [pass EXCEPT ![p].at = "capture",
                          ![p].todo = {s \in Session : file[s] # Nothing /\ s \notin gone}]
  /\ calm' = {p}
  /\ UNCHANGED <<fileState, indexState, owner>>

(* The pass goes through the transcripts in one order.                     *)
UpTo(p, s) == pass[p].at = "capture" /\ pass[p].todo # {} /\ s = Min(pass[p].todo)

(* Skipped, published under the fence, or refused by it.                   *)
IndexFile(p, s) ==
  /\ UpTo(p, s)
  /\ pass' = [pass EXCEPT ![p].todo = @ \ {s}]
  /\ row' = IF s \in forgotten \cup gone \/ p # owner THEN row
            ELSE [row EXCEPT ![s] = file[s]]
  /\ calm' = calm \cap {p}
  /\ UNCHANGED <<fileState, forgotten, threads, owner>>

(* Reading, parsing or publishing fails; the pass goes on with the others. *)
IndexFails(p, s) ==
  /\ UpTo(p, s)
  /\ pass' = [pass EXCEPT ![p].todo = @ \ {s}]
  /\ calm' = {}
  /\ UNCHANGED <<fileState, indexState, owner>>

(* A variant that derives from the transcripts that are still there.       *)
DeriveFromPresent(p) ==
  /\ pass[p].at = "capture" /\ pass[p].todo = {} /\ p = owner
  /\ pass' = [pass EXCEPT ![p].at = "derived",
       ![p].found = Chains([s \in Session |-> IF s \in gone THEN Nothing ELSE row[s]])]
  /\ calm' = calm \cap {p}
  /\ UNCHANGED <<fileState, indexState, owner>>

(* The reads of deriveThreads(), behind the last fence of the pass.        *)
Derive(p) ==
  /\ pass[p].at = "capture" /\ pass[p].todo = {} /\ p = owner
  /\ pass' = [pass EXCEPT ![p].at = "derived", ![p].found = Chains(row)]
  /\ calm' = calm \cap {p}
  /\ UNCHANGED <<fileState, indexState, owner>>

(* Its transaction, without a fence: replace the table, or fail on the     *)
(* foreign key of a session that was forgotten meanwhile.                  *)
WriteThreads(p) ==
  /\ pass[p].at = "derived"
  /\ threads' = IF \E s \in Session : pass[p].found[s] # NoRow /\ row[s] = Nothing
                THEN threads ELSE pass[p].found
  /\ pass' = [pass EXCEPT ![p] = NoPass]
  /\ calm' = calm \cap {p}
  /\ UNCHANGED <<fileState, row, forgotten, owner>>

(* Killed, or the fence threw.                                             *)
AbandonPass(p) ==
  /\ pass[p].at # "idle"
  /\ pass' = [pass EXCEPT ![p] = NoPass]
  /\ calm' = {}
  /\ UNCHANGED <<fileState, indexState, owner>>

ThreadsNext ==
  \/ \E s \in Session : WriteRecord(s) \/ Sweep(s) \/ \E t \in Session : ResumeAs(s, t)
  \/ \E s \in Forgettable : ForgetSession(s)
  \/ \E p \in Indexer :
       \/ Overtake(p) \/ Discover(p) \/ Derive(p) \/ WriteThreads(p) \/ AbandonPass(p)
       \/ \E s \in Session : IndexFile(p, s) \/ IndexFails(p, s)

-----------------------------------------------------------------------------
(* `ls`.                                                                   *)
Indexed == {s \in Session : row[s] # Nothing}

(* threadOf(): any member names the whole chain.                           *)
Links(s) == IF threads[s] = NoRow THEN {s}
            ELSE {t \in Session : threads[t].root = threads[s].root}

HeadOf(s) ==
  IF \E t \in Links(s) : threads[t].head THEN CHOOSE t \in Links(s) : threads[t].head
  ELSE CHOOSE t \in Links(s) : \A u \in Links(s) \ {t} :
         threads[u].depth < threads[t].depth \/ (threads[u].depth = threads[t].depth /\ u < t)

(* A variant that folds a link away whether or not its head is shown.      *)
FoldedAnyway(shown, s) == threads[s] # NoRow /\ ~threads[s].head

(* threadRollup(), under the filters that only the sessions of `shown` pass. *)
Folded(shown, s) ==
  /\ threads[s] # NoRow /\ ~threads[s].head
  /\ \E t \in shown : threads[t].root = threads[s].root /\ threads[t].head

(* withThreads(): the row of a head stands for its chain.                  *)
Listed(shown)   == {s \in shown : ~Folded(shown, s)}
StandsFor(s)    == IF HeadOf(s) = s THEN Links(s) ELSE {s}

-----------------------------------------------------------------------------
(* Whatever was overtaken, failed or forgotten before, a pass that nothing *)
(* disturbs leaves the chains that a cold index of the transcripts would   *)
(* derive, those deleted since they were last read included.               *)
ChainsHealInOnePass ==
  [][\A p \in Indexer :
       pass[p].at = "derived" /\ p \in calm \cap calm' =>
         threads' = Chains([s \in Session |->
                              IF s \in forgotten THEN Nothing
                              ELSE IF s \in gone THEN row[s] ELSE file[s]])]_threadVars

(* `ls` hides no work: whatever the filters show is a row of its own or is *)
(* counted on a row that is shown, also when a link was forgotten since    *)
(* the chains were derived.                                                *)
NothingHidden ==
  \A shown \in SUBSET Indexed : \A s \in shown : \E t \in Listed(shown) : s \in StandsFor(t)

=============================================================================
