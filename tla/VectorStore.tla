----------------------------- MODULE VectorStore -----------------------------
(***************************************************************************)
(* The stored vectors that `find` compares (vec.ts).  Whether a row is     *)
(* embedded is on record twice: the stamp `embedding_version` on the row,  *)
(* which makes the queue, and the vector in the store, which is searched.  *)
(* Every writable open converts a store of 1.1.0 (migration 10) and then   *)
(* reconciles the two, statement by statement; a capture rewrites the rows *)
(* of a session and carries the vectors of unchanged text over; passes     *)
(* embed what is not stamped, across an await.  Captures, forgets and      *)
(* rescues are not excluded while a pass runs.                             *)
(*                                                                         *)
(* A vector is the text it was computed from; 0 is no row, or no vector.   *)
(* The lanes of exchanges and ghosts go through each statement together.   *)
(***************************************************************************)
EXTENDS Naturals

CONSTANTS
  Chat,       \* sessions: disjoint sets of exchanges, by id
  Ghost,      \* ids of recovered prompts
  Texts,      \* texts 1 .. Texts; of a ghost, 1 is raw and 2 masked
  Opener,     \* processes that open the database
  Checking,   \* passes of embedPending()
  Trusting    \* passes of embedExchanges(), which a caller of indexAll() gets

ASSUME VectorAssumption == Texts \in Nat \ {0, 1} /\ Checking \cap Trusting = {}

Exchange == UNION Chat
Row      == Exchange \cup Ghost
Pass     == Checking \cup Trusting
Text     == 1 .. Texts

VARIABLES
  prose,      \* text of each row
  stamp,      \* embedding_version of each row
  vector,     \* of each id
  store,      \* "vec0": virtual tables of 1.1.0, else "blobs"
  version,    \* sync_state 'vectors:store-version'
  openPc,     \* where each opener is
  severed,    \* {TRUE} while a reconcile that was killed has left its mark
  work,       \* the rows each pass read and has not done, with their text
  drifted     \* ids whose vector may be of another text, for a known reason

laneVars   == <<prose, stamp, vector>>
formVars   == <<store, version>>
openVars   == <<openPc, severed>>
vectorVars == <<laneVars, formVars, openVars, work, drifted>>

NoWork == [r \in Row |-> 0]

VectorTypeOK ==
  /\ prose \in [Row -> Text \cup {0}] /\ vector \in [Row -> Text \cup {0}]
  /\ stamp \in [Row -> {"none", "current", "old"}]
  /\ store \in {"vec0", "blobs"} /\ version \in {"unset", "current", "old"}
  /\ openPc \in [Opener -> {"closed", "known", "orphans", "adopt", "clear",
                            "empty", "unstamp", "version"}]
  /\ severed \in SUBSET {TRUE}
  /\ work \in [Pass -> [Row -> Text \cup {0}]]
  /\ drifted \in SUBSET Row

(* What earlier versions left: a store of 1.1.0, one whose stamps drifted  *)
(* while nothing compared them, or one of a superseded model.              *)
VectorInit ==
  /\ prose \in [Row -> {0, 1}] /\ vector \in [Row -> {0, 1, 2}]
  /\ store \in {"vec0", "blobs"}
  /\ version \in IF store = "vec0" THEN {"unset"} ELSE {"unset", "old"}
  /\ stamp \in [Row -> {"none", IF version = "old" THEN "old" ELSE "current"}]
  /\ \A r \in Row : prose[r] = 0 => stamp[r] = "none"
  /\ openPc = [o \in Opener |-> "closed"] /\ severed = {TRUE}
  /\ work = [p \in Pass |-> NoWork]
  /\ drifted = {r \in Row : vector[r] # prose[r]}

-----------------------------------------------------------------------------
(* The ids of `rs` get vectors of another text for a reason that the code  *)
(* does not look for.                                                      *)
Excuse(rs) == drifted' = {r \in drifted \cup rs : vector'[r] \notin {0, prose'[r]}}

(* open(): migration 10, then reconcileVectorStamps().                     *)

Goes(o, from, to) == openPc[o] = from /\ openPc' = [openPc EXCEPT ![o] = to]

(* Tables that cannot be read are cut out of the schema with their         *)
(* vectors, or, when this driver refuses, nothing at all is converted.     *)
OpenMigrates(o) ==
  /\ Goes(o, "closed", "known")
  /\ \/ UNCHANGED <<store, vector, stamp>>
     \/ \E unreadable \in {{}, Exchange, Ghost, Row} :
          /\ store = "vec0" /\ store' = "blobs"
          /\ vector' = [r \in Row |-> IF r \in unreadable THEN 0 ELSE vector[r]]
          /\ stamp' = [r \in Row |-> IF r \in unreadable THEN "none" ELSE stamp[r]]
  /\ UNCHANGED <<prose, version, severed, work>> /\ Excuse({})

OpenAsks(o) ==
  /\ Goes(o, "known", IF version = "old" THEN "empty" ELSE "orphans")
  /\ UNCHANGED <<laneVars, formVars, severed, work, drifted>>

(* A statement changes nothing where there are no blob tables.             *)
OnBlobs(changed, kept) == IF store = "blobs" THEN changed ELSE kept

DropOrphans(o) ==
  /\ Goes(o, "orphans", "adopt")
  /\ vector' = OnBlobs([r \in Row |-> IF prose[r] = 0 THEN 0 ELSE vector[r]], vector)
  /\ UNCHANGED <<prose, stamp, formVars, severed, work>> /\ Excuse({})

Adopt(o) ==
  /\ Goes(o, "adopt", "clear")
  /\ stamp' = OnBlobs([r \in Row |-> IF prose[r] # 0 /\ vector[r] # 0 THEN "current"
                                                                     ELSE stamp[r]], stamp)
  /\ UNCHANGED <<prose, vector, formVars, severed, work, drifted>>

ClearStamps(o) ==
  /\ Goes(o, "clear", "version")
  /\ stamp' = OnBlobs([r \in Row |-> IF vector[r] = 0 THEN "none" ELSE stamp[r]], stamp)
  /\ severed' = OnBlobs({}, severed)
  /\ UNCHANGED <<prose, vector, formVars, work, drifted>>

(* The store of a superseded model is emptied first and unstamped after.   *)
EmptyStore(o) ==
  /\ Goes(o, "empty", "unstamp")
  /\ vector' = OnBlobs(NoWork, vector)
  /\ UNCHANGED <<prose, stamp, formVars, severed, work>> /\ Excuse({})

Unstamp(o) ==
  /\ Goes(o, "unstamp", "version")
  /\ stamp' = [r \in Row |-> "none"] /\ severed' = {}
  /\ UNCHANGED <<prose, vector, formVars, work, drifted>>

OpenRecords(o) ==
  /\ Goes(o, "version", "closed") /\ version' = "current"
  /\ UNCHANGED <<laneVars, store, severed, work, drifted>>

OpenDies(o) ==
  /\ openPc[o] # "closed" /\ Goes(o, openPc[o], "closed")
  /\ severed' = IF openPc[o] = "unstamp" THEN {TRUE} ELSE severed
  /\ UNCHANGED <<laneVars, formVars, work, drifted>>

-----------------------------------------------------------------------------
(* Whoever writes below has opened the database.                           *)
Opened == version = "current"

(* replaceSession(): delete, insert without stamps, and the vectors of     *)
(* rows that had one settled by text; an earlier store is not reached.     *)
Rewrite(c) ==
  \E new \in [c -> Text \cup {0}] :
    LET carried == {r \in c : store = "blobs" /\ prose[r] # 0 /\ vector[r] # 0}
        kept    == {r \in carried : new[r] = prose[r]}
    IN /\ Opened
       /\ prose' = [r \in Row |-> IF r \in c THEN new[r] ELSE prose[r]]
       /\ vector' = [r \in Row |-> IF r \in carried \ kept THEN 0 ELSE vector[r]]
       /\ stamp' = [r \in Row |-> IF r \in c \ kept THEN "none" ELSE stamp[r]]
       /\ Excuse(IF store = "vec0" THEN c ELSE {})
       /\ UNCHANGED <<formVars, openVars, work>>

(* A rescue inserts the prompts of a ghost anew, raw, and leaves their     *)
(* vectors where they are; the next index pass masks them in place.        *)
RescueGhost(g) ==
  /\ Opened
  /\ prose' = [prose EXCEPT ![g] = 1] /\ stamp' = [stamp EXCEPT ![g] = "none"]
  /\ UNCHANGED vector /\ Excuse({g})
  /\ UNCHANGED <<formVars, openVars, work>>

MaskGhost(g) ==
  /\ Opened /\ prose[g] = 1
  /\ prose' = [prose EXCEPT ![g] = 2]
  /\ UNCHANGED <<stamp, vector>> /\ Excuse({g})
  /\ UNCHANGED <<formVars, openVars, work>>

(* clearLegacySource(): the vectors of the rows, where they can be         *)
(* reached, and the rows.                                                  *)
ForgetRows(rs) ==
  \E missed \in SUBSET rs :
    LET gone == {r \in rs : prose[r] # 0} IN
    /\ Opened
    /\ store = "blobs" => missed = {}
    /\ vector' = [r \in Row |-> IF r \in gone \ missed THEN 0 ELSE vector[r]]
    /\ prose' = [r \in Row |-> IF r \in gone THEN 0 ELSE prose[r]]
    /\ stamp' = [r \in Row |-> IF r \in gone THEN "none" ELSE stamp[r]]
    /\ Excuse(missed)
    /\ UNCHANGED <<formVars, openVars, work>>

-----------------------------------------------------------------------------
Pending(rows) ==
  [r \in Row |-> IF r \in rows /\ stamp[r] # "current" THEN prose[r] ELSE 0]

StartPass(p) ==
  /\ Opened /\ store = "blobs" /\ work[p] = NoWork
  /\ \E rows \in IF p \in Checking THEN {Row} ELSE {Exchange, Ghost} :
       work' = [work EXCEPT ![p] = Pending(rows)]
  /\ work'[p] # NoWork
  /\ UNCHANGED <<laneVars, formVars, openVars, drifted>>

Done(p, rs) == work' = [work EXCEPT ![p] = [r \in Row |-> IF r \in rs THEN 0 ELSE @[r]]]

(* A variant that only looks whether the row is still there.               *)
StillThere(p, r) == prose[r] # 0

SameText(p, r) == prose[r] = work[p][r]

(* embedPending(): the row is read again in the transaction that writes.   *)
EmbedChecked(p, r) ==
  /\ p \in Checking /\ work[p][r] # 0 /\ Done(p, {r})
  /\ IF SameText(p, r)
       THEN /\ vector' = [vector EXCEPT ![r] = work[p][r]]
            /\ stamp' = [stamp EXCEPT ![r] = "current"]
       ELSE UNCHANGED <<vector, stamp>>
  /\ UNCHANGED prose /\ Excuse({})
  /\ UNCHANGED <<formVars, openVars>>

(* embedExchanges(): a chunk of up to 32 rows is written as it was read.   *)
EmbedTrusting(p, rs) ==
  /\ p \in Trusting /\ rs # {} /\ Done(p, rs)
  /\ \A r \in rs : work[p][r] # 0
  /\ vector' = [r \in Row |-> IF r \in rs THEN work[p][r] ELSE vector[r]]
  /\ stamp' = [r \in Row |-> IF r \in rs /\ prose[r] # 0 THEN "current" ELSE stamp[r]]
  /\ UNCHANGED prose /\ Excuse(rs)
  /\ UNCHANGED <<formVars, openVars>>

(* Stopped, out of its limit, without a model, or killed.                  *)
EndPass(p) ==
  /\ work[p] # NoWork /\ Done(p, Row)
  /\ UNCHANGED <<laneVars, formVars, openVars, drifted>>

-----------------------------------------------------------------------------
OpenStep(o) ==
  \/ OpenMigrates(o) \/ OpenAsks(o) \/ OpenRecords(o) \/ OpenDies(o)
  \/ DropOrphans(o) \/ Adopt(o) \/ ClearStamps(o) \/ EmptyStore(o) \/ Unstamp(o)

VectorNext ==
  \/ \E o \in Opener : OpenStep(o)
  \/ \E c \in Chat : Rewrite(c) \/ ForgetRows(c)
  \/ \E g \in Ghost : RescueGhost(g) \/ MaskGhost(g) \/ ForgetRows({g})
  \/ \E p \in Pass : StartPass(p) \/ EndPass(p)
  \/ \E p \in Checking, r \in Row : EmbedChecked(p, r)
  \/ \E p \in Trusting, rs \in SUBSET Row : EmbedTrusting(p, rs)

VectorSpec == VectorInit /\ [][VectorNext]_vectorVars

(* A vector belongs to the text it was computed from, and to a row that    *)
(* exists: short of what 1.1.0 left, of a store that could not be reached, *)
(* of ghosts and of a pass that trusted what it had read, no interleaving  *)
(* of captures, forgets, opens and passes mixes them up.                   *)
VectorsMatchText == \A r \in Row \ drifted : vector[r] \in {0, prose[r]}

(* A stamped row has a vector, or it would never be embedded again: from   *)
(* the first reconcile on, except between the two statements that empty a  *)
(* superseded store, and after a process was killed there.                 *)
StampsHaveVectors ==
  severed = {} /\ store = "blobs" /\ (\A o \in Opener : openPc[o] # "unstamp")
    => \A r \in Row : stamp[r] # "none" => vector[r] # 0

(* What the two sides of the record promise together.                      *)
VectorsFit == VectorsMatchText /\ StampsHaveVectors

=============================================================================
