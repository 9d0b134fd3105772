------------------------------- MODULE MCStore -------------------------------
(***************************************************************************)
(* The evidence store and what is derived and read from it, side by side:  *)
(* EvidenceStore, GhostIndex, MemoryRecall, ReadPages and VectorStore     *)
(* share no state; `part` says which of them a behaviour is of, and the    *)
(* others stay where they start.                                           *)
(***************************************************************************)
EXTENDS MCEvidenceStore, GhostIndex, MemoryRecall, ReadPages, VectorStore

CONSTANTS g1, g2, src1, src2, key, t1, t2, x1, h1, o1, o2, p1, p2

VARIABLE part

OneEdit == g1 :> 1 @@ g2 :> 0
OneEach == src1 :> 1 @@ src2 :> 1
Rests   == t1 :> src1 @@ t2 :> src2
TwoEach == <<2, 3>>
OneChat == {{x1}}

(* The bounds.  A rescue, a second owner of the lease and a failure come   *)
(* two at a time; one embedding pass runs while a process opens the        *)
(* database, two while none does.                                          *)
TwoTroubles == (lease > 1 /\ fails > 0) => resc = NoPass
OnePassWhileOpening ==
  (\E o \in Opener : openPc[o] # "closed") => \E p \in Pass : work[p] = NoWork

StoreInit ==
  /\ part \in {"evidence", "ghosts", "recall", "read", "vectors"}
  /\ Init /\ (part # "evidence" => live = [s \in Source |-> None])
  /\ GhostInit /\ RecallInit /\ ReadInit
  /\ VectorInit /\ (part # "vectors" => store = "vec0" /\ prose = NoWork /\ vector = NoWork)

Only(p) == part = p /\ UNCHANGED part

StoreNext ==
  \/ Only("evidence") /\ Next /\ UNCHANGED <<ghostVars, recallVars, pageVars, vectorVars>>
  \/ Only("ghosts") /\ GhostNext /\ UNCHANGED <<vars, recallVars, pageVars, vectorVars>>
  \/ Only("recall") /\ RecallNext /\ UNCHANGED <<vars, ghostVars, pageVars, vectorVars>>
  \/ Only("read") /\ ReadNext /\ UNCHANGED <<vars, ghostVars, recallVars, vectorVars>>
  \/ Only("vectors") /\ VectorNext /\ UNCHANGED <<vars, ghostVars, recallVars, pageVars>>

StoreSpec ==
  StoreInit /\ [][StoreNext]_<<part, vars, ghostVars, recallVars, pageVars, vectorVars>>

(* The type invariants of the components beside the evidence store.        *)
ReadersTypeOK == GhostTypeOK /\ RecallTypeOK /\ ReadTypeOK /\ VectorTypeOK

=============================================================================
