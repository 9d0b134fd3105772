------------------------------ MODULE ReadPages ------------------------------
(***************************************************************************)
(* read() of memory/service.ts and its cursor (memory/context.ts): text    *)
(* that does not fit the budget is delivered in pages.  Each call is one   *)
(* transaction, the cursor it returns carries everything the next one      *)
(* needs, and between two calls the source may be captured again or        *)
(* forgotten.  A read of given references goes on across such changes; a   *)
(* read of a session (`legacyRef`) walks the rows of its active revision   *)
(* by their offset and is refused once any evidence epoch has moved.       *)
(*                                                                         *)
(* A span has Length units of text.  A call that can show nothing is       *)
(* answered with a budget error and leaves the client its cursor.          *)
(***************************************************************************)
EXTENDS Naturals

CONSTANTS
  Revisions,  \* revisions of the session's source that may be published
  Spans,      \* how many spans each has
  Length,     \* units of text in a span
  MaxEpoch    \* transactions that count an epoch up

ASSUME ReadAssumption ==
  /\ Revisions \in Nat \ {0}
  /\ Spans \in [1 .. Revisions -> Nat \ {0}]
  /\ Length \in Nat \ {0}
  /\ MaxEpoch \in Nat

VARIABLES
  revision,   \* the active revision; 0 once forgotten
  epoch,      \* the evidence epochs, together
  readPc,     \* "idle", "more", "done" or "refused"
  historical, \* the read goes on across changes: {} or {TRUE}
  pinned,     \* the epoch the cursor carries
  start,      \* its positions: the first unit not delivered, by reference
  offset,     \* its scan: the next row, {} when there is none
  named,      \* the spans the read is about
  absent,     \* those reported unavailable
  delivered   \* how often each unit was delivered

readStore  == <<revision, epoch>>
readCursor == <<readPc, historical, pinned, start, offset>>
pageVars   == <<readStore, readCursor, named, absent, delivered>>

Ref     == (1 .. Revisions) \X Nat
Rows(r) == {<<r, i>> : i \in 0 .. (Spans[r] - 1)}
AllRefs == UNION {Rows(r) : r \in 1 .. Revisions}
Unit    == AllRefs \X (0 .. (Length - 1))

ReadTypeOK ==
  /\ revision \in 0 .. Revisions /\ epoch \in Nat
  /\ readPc \in {"idle", "more", "done", "refused"}
  /\ historical \in SUBSET {TRUE} /\ pinned \in SUBSET Nat
  /\ start \in [DOMAIN start -> 0 .. Length] /\ DOMAIN start \subseteq AllRefs
  /\ offset \in SUBSET Nat
  /\ named \in SUBSET AllRefs /\ absent \in SUBSET AllRefs
  /\ delivered \in [Unit -> Nat]

Nowhere == [r \in {} |-> 0]

ReadInit ==
  /\ revision = 1 /\ epoch = 0
  /\ readPc = "idle" /\ historical = {} /\ pinned = {} /\ start = Nowhere /\ offset = {}
  /\ named = {} /\ absent = {} /\ delivered = [u \in Unit |-> 0]

-----------------------------------------------------------------------------
(* Captured again, forgotten, or anything published of another source.     *)
StoreChanges ==
  /\ epoch < MaxEpoch /\ epoch' = epoch + 1
  /\ \/ revision \in 1 .. (Revisions - 1) /\ revision' = revision + 1
     \/ revision' \in {0, revision}
  /\ UNCHANGED <<readCursor, named, absent, delivered>>

(* The first call, with references from an earlier answer ..               *)
AskRefs(refs) ==
  /\ readPc = "idle" /\ readPc' = "more"
  /\ historical' = {TRUE} /\ start' = [r \in refs |-> 0] /\ named' = refs
  /\ UNCHANGED <<readStore, pinned, offset, absent, delivered>>

(* .. or with a session.                                                   *)
AskSession ==
  /\ readPc = "idle" /\ readPc' = "more"
  /\ offset' = {0}
  /\ UNCHANGED <<readStore, historical, pinned, start, named, absent, delivered>>

CursorHolds == historical # {} \/ pinned \subseteq {epoch}

(* The positions of the cursor, or the next row of the scan.               *)
Wanted ==
  IF DOMAIN start # {} THEN start
  ELSE [r \in {<<revision, i>> : i \in offset} |-> 0]
ScanAfter == IF DOMAIN start # {} THEN offset
             ELSE {i + 1 : i \in {j \in offset : j + 1 < Spans[revision]}}
RowExists == DOMAIN start # {} \/ revision # 0

(* A retained revision may be read until its source is forgotten.          *)
Available(refs) == {r \in refs : revision # 0}

(* A variant that counts from the start of the page.                       *)
RemainderOfPage(wanted, shown) ==
  [r \in {x \in DOMAIN shown : shown[x] < Length} |-> shown[r]]

(* What the page leaves of them: exactly the rest of what it showed.       *)
Remainder(wanted, shown) ==
  LET rest == {r \in DOMAIN shown : wanted[r] + shown[r] < Length}
  IN [r \in rest |-> wanted[r] + shown[r]]

ShownUnits(wanted, shown) ==
  {u \in Unit : /\ u[1] \in DOMAIN shown
               /\ wanted[u[1]] <= u[2] /\ u[2] < wanted[u[1]] + shown[u[1]]}

NextPage ==
  /\ readPc = "more" /\ CursorHolds /\ RowExists
  /\ \E shown \in [Available(DOMAIN Wanted) -> 0 .. Length] :
       /\ \A r \in DOMAIN shown : Wanted[r] + shown[r] <= Length
       /\ (\E r \in DOMAIN shown : shown[r] > 0) \/ DOMAIN shown # DOMAIN Wanted
       /\ start' = Remainder(Wanted, shown)
       /\ delivered' = [u \in Unit |-> IF u \in ShownUnits(Wanted, shown)
                                       THEN delivered[u] + 1 ELSE delivered[u]]
       /\ absent' = absent \cup (DOMAIN Wanted \ DOMAIN shown)
  /\ offset' = ScanAfter
  /\ named' = IF named = {} THEN Rows(revision) ELSE named
  /\ pinned' = IF historical = {} THEN {epoch} ELSE {}
  /\ readPc' = IF DOMAIN start' = {} /\ offset' = {} THEN "done" ELSE "more"
  /\ UNCHANGED <<readStore, historical>>

(* `snapshot_changed`, or nothing of the session is left.                  *)
RefusePage ==
  /\ readPc = "more" /\ ~(CursorHolds /\ RowExists)
  /\ readPc' = "refused"
  /\ UNCHANGED <<readStore, historical, pinned, start, offset, named, absent, delivered>>

ReadNext ==
  \/ StoreChanges \/ AskSession \/ NextPage \/ RefusePage
  \/ \E refs \in (SUBSET (IF revision = 0 THEN {} ELSE Rows(revision))) \ {{}} : AskRefs(refs)

ReadSpec == ReadInit /\ [][ReadNext]_pageVars

-----------------------------------------------------------------------------
(* Following the cursor delivers every unit of what was asked for once:    *)
(* nothing twice, nothing of a revision published meanwhile, and when      *)
(* there is no further page nothing is left out but what was reported      *)
(* unavailable.                                                            *)
PagesCoverOnce ==
  /\ \A u \in Unit : delivered[u] <= 1 /\ (delivered[u] = 1 => u[1] \in named)
  /\ readPc = "done" => \A u \in Unit : u[1] \in named \ absent => delivered[u] = 1

=============================================================================
