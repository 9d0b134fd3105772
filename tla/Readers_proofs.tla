---------------------------- MODULE Readers_proofs ----------------------------
(***************************************************************************)
(* What is derived and read from the evidence store, for every value of    *)
(* the constants: VectorStore, GhostIndex, MemoryRecall and ReadPages one  *)
(* by one, then all of them side by side with the store (MCStore).         *)
(***************************************************************************)
EXTENDS MCStore, TLAPS

-----------------------------------------------------------------------------
(* VectorStore.                                                            *)

(* A stamp is of a row; the reconcile of a store of 1.1.0 is always still  *)
(* to come; and a superseded model is one of a converted store.            *)
FormsFollow ==
  /\ \A r \in Row : prose[r] = 0 => stamp[r] = "none"
  /\ store = "vec0" => severed # {}
  /\ version = "old" => store = "blobs"
  /\ \A o \in Opener : openPc[o] \in {"empty", "unstamp"} => store = "blobs"

VectorInv == VectorTypeOK /\ FormsFollow /\ VectorsMatchText /\ StampsHaveVectors

(* Whatever earlier versions left is on record as drifted or severed.      *)
LEMMA VectorInitInv == VectorInit => VectorInv
<1> SUFFICES ASSUME VectorInit PROVE VectorInv
  OBVIOUS
<1>1. severed # {} /\ severed \in SUBSET {TRUE}
  BY Zenon DEF VectorInit
<1>2. /\ prose \in [Row -> {0, 1}] /\ vector \in [Row -> {0, 1, 2}]
      /\ store \in {"vec0", "blobs"} /\ version \in {"unset", "old"}
      /\ store = "vec0" => version = "unset"
      /\ stamp \in [Row -> {"none", "current", "old"}]
      /\ \A r \in Row : prose[r] = 0 => stamp[r] = "none"
      /\ openPc = [o \in Opener |-> "closed"] /\ work = [p \in Pass |-> NoWork]
      /\ drifted = {r \in Row : vector[r] # prose[r]}
  BY DEF VectorInit
<1>3. {0, 1} \subseteq Text \cup {0} /\ {0, 1, 2} \subseteq Text \cup {0}
  BY VectorAssumption DEF Text
<1>4. prose \in [Row -> Text \cup {0}] /\ vector \in [Row -> Text \cup {0}]
  BY <1>2, <1>3
<1>5. VectorTypeOK
  <2>1. /\ openPc \in [Opener -> {"closed", "known", "orphans", "adopt", "clear",
                                  "empty", "unstamp", "version"}]
        /\ work \in [Pass -> [Row -> Text \cup {0}]]
        /\ drifted \in SUBSET Row /\ version \in {"unset", "current", "old"}
    BY <1>2 DEF NoWork
  <2> QED
    BY <1>1, <1>2, <1>4, <2>1 DEF VectorTypeOK
<1>6. FormsFollow
  BY <1>1, <1>2 DEF FormsFollow
<1>7. VectorsMatchText
  BY <1>2 DEF VectorsMatchText
<1> QED
  BY <1>1, <1>5, <1>6, <1>7 DEF VectorInv, StampsHaveVectors

Stamps    == {"none", "current", "old"}
OpenPlaces == {"closed", "known", "orphans", "adopt", "clear", "empty", "unstamp", "version"}

(* An id that is not excused has a vector of its text, or none; one that   *)
(* is, or was, is drifted until it has.                                    *)
LEMMA ExcusedOrFits ==
  ASSUME VectorTypeOK, NEW rs \in SUBSET Row, Excuse(rs),
         \A r \in Row \ (drifted \cup rs) : vector'[r] \in {0, prose'[r]}
  PROVE  VectorsMatchText' /\ drifted' \in SUBSET Row
BY DEF VectorTypeOK, Excuse, VectorsMatchText

(* A capture, a rescue, a forget and a pass leave where openers are and    *)
(* what form the store has; it is enough that the lanes fit.               *)
LEMMA LanesFit ==
  ASSUME VectorInv, UNCHANGED <<formVars, openVars>>,
         prose' \in [Row -> Text \cup {0}], vector' \in [Row -> Text \cup {0}],
         stamp' \in [Row -> Stamps], work' \in [Pass -> [Row -> Text \cup {0}]],
         NEW rs \in SUBSET Row, Excuse(rs),
         \A r \in Row \ (drifted \cup rs) : vector'[r] \in {0, prose'[r]},
         \A r \in Row : prose'[r] = 0 => stamp'[r] = "none",
         \A r \in Row : (stamp'[r] # "none" /\ vector'[r] = 0)
                          => stamp[r] # "none" /\ vector[r] = 0
  PROVE  VectorInv'
<1>1. VectorsMatchText' /\ drifted' \in SUBSET Row
  BY ExcusedOrFits DEF VectorInv
<1>2. VectorTypeOK'
  BY <1>1 DEF VectorInv, VectorTypeOK, formVars, openVars, Stamps
<1>3. FormsFollow'
  BY DEF VectorInv, FormsFollow, formVars, openVars
<1>4. StampsHaveVectors'
  BY DEF VectorInv, StampsHaveVectors, formVars, openVars
<1> QED
  BY <1>1, <1>2, <1>3, <1>4 DEF VectorInv

(* What an open does to the place of its process.                          *)
LEMMA OpenerGoes ==
  ASSUME VectorTypeOK, NEW o \in Opener, NEW from, NEW to \in OpenPlaces, Goes(o, from, to)
  PROVE  /\ openPc' \in [Opener -> OpenPlaces]
         /\ openPc[o] = from /\ openPc'[o] = to
         /\ \A p \in Opener : p # o => openPc'[p] = openPc[p]
BY DEF VectorTypeOK, Goes, OpenPlaces

(* The statements of an open, one by one.                                  *)
LEMMA OpensFit ==
  ASSUME VectorInv, NEW o \in Opener, OpenStep(o)
  PROVE  VectorInv'
<1>t. /\ prose \in [Row -> Text \cup {0}] /\ vector \in [Row -> Text \cup {0}]
      /\ stamp \in [Row -> Stamps] /\ store \in {"vec0", "blobs"}
      /\ version \in {"unset", "current", "old"} /\ openPc \in [Opener -> OpenPlaces]
      /\ work \in [Pass -> [Row -> Text \cup {0}]] /\ drifted \in SUBSET Row
  BY DEF VectorInv, VectorTypeOK, Stamps, OpenPlaces
<1>v. VectorTypeOK /\ severed \in SUBSET {TRUE}
  BY DEF VectorInv, VectorTypeOK
<1>f. FormsFollow /\ VectorsMatchText /\ StampsHaveVectors
  BY DEF VectorInv
<1>1. ASSUME prose' = prose, work' = work, vector' \in [Row -> Text \cup {0}],
             stamp' \in [Row -> Stamps], store' \in {"vec0", "blobs"},
             version' \in {"unset", "current", "old"}, openPc' \in [Opener -> OpenPlaces],
             severed' \in SUBSET {TRUE}, drifted' \in SUBSET Row,
             FormsFollow', VectorsMatchText', StampsHaveVectors'
      PROVE  VectorInv'
  BY <1>t, <1>1 DEF VectorInv, VectorTypeOK, Stamps, OpenPlaces
<1>2. ASSUME Excuse({}), prose' = prose, \A r \in Row : vector'[r] \in {0, vector[r]}
      PROVE  VectorsMatchText' /\ drifted' \in SUBSET Row
  <2>1. \A r \in Row \ (drifted \cup {}) : vector'[r] \in {0, prose'[r]}
    BY <1>2, <1>f DEF VectorsMatchText
  <2> QED
    BY <1>2, <1>v, <2>1, ExcusedOrFits
<1>3. CASE OpenMigrates(o)
  <2>1. /\ UNCHANGED <<prose, version, severed, work>> /\ Excuse({})
        /\ Goes(o, "closed", "known")
    BY <1>3 DEF OpenMigrates
  <2>2. \/ UNCHANGED <<store, vector, stamp>>
        \/ \E unreadable \in {{}, Exchange, Ghost, Row} :
             /\ store = "vec0" /\ store' = "blobs"
             /\ vector' = [r \in Row |-> IF r \in unreadable THEN 0 ELSE vector[r]]
             /\ stamp' = [r \in Row |-> IF r \in unreadable THEN "none" ELSE stamp[r]]
    BY <1>3 DEF OpenMigrates
  <2>3. openPc' \in [Opener -> OpenPlaces]
        /\ \A p \in Opener : openPc'[p] # openPc[p] => openPc'[p] = "known"
    BY <1>v, <2>1, OpenerGoes DEF OpenPlaces
  <2>4. /\ vector' \in [Row -> Text \cup {0}] /\ stamp' \in [Row -> Stamps]
        /\ \A r \in Row : vector'[r] \in {0, vector[r]} /\ stamp'[r] \in {"none", stamp[r]}
        /\ store' \in {"vec0", "blobs"}
        /\ UNCHANGED <<store, vector, stamp>> \/ store = "vec0"
        /\ store = "blobs" => store' = "blobs"
    BY <1>t, <2>2 DEF Stamps
  <2>5. VectorsMatchText' /\ drifted' \in SUBSET Row
    BY <1>2, <2>1, <2>4
  <2>6. FormsFollow'
    BY <1>f, <1>t, <2>1, <2>3, <2>4 DEF FormsFollow
  <2>7. StampsHaveVectors'
    <3>1. severed' = {} => severed = {}
      BY <2>1
    <3>2. severed = {} => UNCHANGED <<store, vector, stamp>>
      BY <1>f, <2>4 DEF FormsFollow
    <3>3. (\A p \in Opener : openPc'[p] # "unstamp") => \A p \in Opener : openPc[p] # "unstamp"
      BY <2>1, <2>3 DEF Goes
    <3> QED
      BY <1>f, <3>1, <3>2, <3>3 DEF StampsHaveVectors
  <2> QED
    BY <1>1, <1>t, <1>v, <2>1, <2>3, <2>4, <2>5, <2>6, <2>7
<1>4. CASE OpenAsks(o) \/ OpenRecords(o)
  <2>1. UNCHANGED <<prose, stamp, vector, store, severed, work, drifted>>
    BY <1>4 DEF OpenAsks, OpenRecords, laneVars, formVars
  <2>2. PICK to \in {"empty", "orphans", "closed"} :
          /\ to = "empty" => version = "old"
          /\ \E from \in {"known", "version"} : Goes(o, from, to)
    BY <1>4 DEF OpenAsks, OpenRecords
  <2>3. version' = version \/ version' = "current"
    BY <1>4 DEF OpenAsks, OpenRecords, formVars
  <2>4. /\ openPc' \in [Opener -> OpenPlaces] /\ openPc'[o] = to
        /\ openPc[o] # "unstamp" /\ \A p \in Opener : p # o => openPc'[p] = openPc[p]
    BY <1>v, <2>2, OpenerGoes DEF OpenPlaces
  <2>5. FormsFollow'
    BY <1>f, <2>1, <2>2, <2>3, <2>4 DEF FormsFollow
  <2>6. VectorsMatchText' /\ StampsHaveVectors'
    BY <1>f, <2>1, <2>4 DEF VectorsMatchText, StampsHaveVectors
  <2> QED
    BY <1>1, <1>t, <1>v, <2>1, <2>3, <2>4, <2>5, <2>6
<1>5. CASE OpenDies(o)
  <2>1. UNCHANGED <<laneVars, formVars, work, drifted>> /\ Goes(o, openPc[o], "closed")
    BY <1>5 DEF OpenDies
  <2>2. severed' = IF openPc[o] = "unstamp" THEN {TRUE} ELSE severed
    BY <1>5 DEF OpenDies
  <2>3. severed' \in SUBSET {TRUE} /\ (severed # {} => severed' # {})
        /\ (openPc[o] = "unstamp" => severed' # {})
    BY <1>v, <2>2, Zenon
  <2>4. /\ openPc' \in [Opener -> OpenPlaces] /\ openPc'[o] = "closed"
        /\ \A p \in Opener : p # o => openPc'[p] = openPc[p]
    BY <1>v, <2>1, OpenerGoes DEF OpenPlaces
  <2>5. FormsFollow'
    BY <1>f, <2>1, <2>3, <2>4 DEF FormsFollow, laneVars, formVars
  <2>6. VectorsMatchText' /\ StampsHaveVectors'
    BY <1>f, <2>1, <2>3, <2>4 DEF VectorsMatchText, StampsHaveVectors, laneVars, formVars
  <2> QED
    BY <1>1, <1>t, <2>1, <2>3, <2>4, <2>5, <2>6 DEF laneVars, formVars
<1>6. CASE DropOrphans(o) \/ EmptyStore(o)
  <2>1. UNCHANGED <<prose, stamp, store, version, severed, work>> /\ Excuse({})
    BY <1>6 DEF DropOrphans, EmptyStore, formVars
  <2>2. PICK to \in {"adopt", "unstamp"} :
          /\ \E from \in {"orphans", "empty"} :
               Goes(o, from, to) /\ (to = "unstamp" => from = "empty")
          /\ to = "adopt" => \A r \in Row : vector'[r] = vector[r] \/ prose[r] = 0
    <3>1. ASSUME DropOrphans(o) PROVE \A r \in Row : vector'[r] = vector[r] \/ prose[r] = 0
      BY <3>1 DEF DropOrphans, OnBlobs
    <3> QED
      BY <1>6, <3>1 DEF DropOrphans, EmptyStore
  <2>3. /\ openPc' \in [Opener -> OpenPlaces] /\ openPc'[o] = to
        /\ to = "unstamp" => openPc[o] = "empty"
        /\ openPc[o] # "unstamp" /\ \A p \in Opener : p # o => openPc'[p] = openPc[p]
    BY <1>v, <2>2, OpenerGoes DEF OpenPlaces
  <2>4. vector' \in [Row -> Text \cup {0}] /\ \A r \in Row : vector'[r] \in {0, vector[r]}
    BY <1>6, <1>t DEF DropOrphans, EmptyStore, OnBlobs, NoWork
  <2>5. VectorsMatchText' /\ drifted' \in SUBSET Row
    BY <1>2, <2>1, <2>4
  <2>6. FormsFollow'
    BY <1>f, <2>1, <2>3 DEF FormsFollow
  <2>7. StampsHaveVectors'
    BY <1>f, <2>1, <2>2, <2>3 DEF StampsHaveVectors, FormsFollow
  <2> QED
    BY <1>1, <1>t, <1>v, <2>1, <2>3, <2>4, <2>5, <2>6, <2>7
<1>7. CASE Adopt(o) \/ ClearStamps(o)
  <2>1. UNCHANGED <<prose, vector, store, version, work, drifted>>
    BY <1>7 DEF Adopt, ClearStamps, formVars
  <2>2. PICK to \in {"clear", "version"} : \E from \in {"adopt", "clear"} : Goes(o, from, to)
    BY <1>7 DEF Adopt, ClearStamps
  <2>3. /\ openPc' \in [Opener -> OpenPlaces] /\ openPc'[o] = to
        /\ openPc[o] # "unstamp" /\ \A p \in Opener : p # o => openPc'[p] = openPc[p]
    BY <1>v, <2>2, OpenerGoes DEF OpenPlaces
  <2>4. severed' \in SUBSET {TRUE} /\ (store = "vec0" => severed' = severed)
    BY <1>7, <1>v DEF Adopt, ClearStamps, OnBlobs
  <2>5. /\ stamp' \in [Row -> Stamps]
        /\ \A r \in Row : prose[r] = 0 /\ stamp[r] = "none" => stamp'[r] = "none"
        /\ \A r \in Row : (stamp'[r] # "none" /\ vector[r] = 0) => stamp[r] # "none"
    BY <1>7, <1>t DEF Adopt, ClearStamps, OnBlobs, Stamps
  <2>6. \/ severed' = severed
        \/ store = "blobs" => \A r \in Row : stamp'[r] # "none" => vector[r] # 0
    BY <1>7, <1>t DEF Adopt, ClearStamps, OnBlobs
  <2>7. FormsFollow'
    BY <1>f, <2>1, <2>3, <2>4, <2>5 DEF FormsFollow
  <2>8. VectorsMatchText'
    BY <1>f, <2>1 DEF VectorsMatchText
  <2>9. StampsHaveVectors'
    BY <1>f, <2>1, <2>3, <2>5, <2>6 DEF StampsHaveVectors
  <2> QED
    BY <1>1, <1>t, <2>1, <2>3, <2>4, <2>5, <2>7, <2>8, <2>9
<1>8. CASE Unstamp(o)
  <2>1. UNCHANGED <<prose, vector, store, version, work, drifted>> /\ severed' = {}
        /\ stamp' = [r \in Row |-> "none"] /\ Goes(o, "unstamp", "version")
    BY <1>8 DEF Unstamp, formVars
  <2>2. /\ openPc' \in [Opener -> OpenPlaces] /\ openPc'[o] = "version" /\ openPc[o] = "unstamp"
        /\ \A p \in Opener : p # o => openPc'[p] = openPc[p]
    BY <1>v, <2>1, OpenerGoes DEF OpenPlaces
  <2>3. store = "blobs"
    BY <1>f, <2>2 DEF FormsFollow
  <2>4. FormsFollow'
    BY <1>f, <2>1, <2>2, <2>3 DEF FormsFollow
  <2>5. VectorsMatchText' /\ StampsHaveVectors'
    BY <1>f, <2>1 DEF VectorsMatchText, StampsHaveVectors
  <2>6. stamp' \in [Row -> Stamps] /\ severed' \in SUBSET {TRUE}
    BY <2>1 DEF Stamps
  <2> QED
    BY <1>1, <1>t, <2>1, <2>2, <2>4, <2>5, <2>6
<1> QED
  BY <1>3, <1>4, <1>5, <1>6, <1>7, <1>8 DEF OpenStep

(* The steps of captures, rescues, forgets and passes.                     *)
LEMMA WritesFit ==
  ASSUME VectorInv,
         \/ \E c \in Chat : Rewrite(c) \/ ForgetRows(c)
         \/ \E g \in Ghost : RescueGhost(g) \/ MaskGhost(g) \/ ForgetRows({g})
         \/ \E p \in Pass : StartPass(p) \/ EndPass(p)
         \/ \E p \in Checking, r \in Row : EmbedChecked(p, r)
         \/ \E p \in Trusting, rs \in SUBSET Row : EmbedTrusting(p, rs)
  PROVE  VectorInv'
<1>t. /\ prose \in [Row -> Text \cup {0}] /\ vector \in [Row -> Text \cup {0}]
      /\ stamp \in [Row -> Stamps] /\ store \in {"vec0", "blobs"}
      /\ work \in [Pass -> [Row -> Text \cup {0}]] /\ drifted \in SUBSET Row
  BY DEF VectorInv, VectorTypeOK, Stamps
<1>f. /\ \A r \in Row : prose[r] = 0 => stamp[r] = "none"
      /\ \A r \in Row \ drifted : vector[r] \in {0, prose[r]}
  BY DEF VectorInv, FormsFollow, VectorsMatchText
<1>1. ASSUME NEW c \in Chat, Rewrite(c) PROVE VectorInv'
  <2>1. c \in SUBSET Row
    BY DEF Row, Exchange
  <2>2. PICK text \in [c -> Text \cup {0}] :
          LET carried == {r \in c : store = "blobs" /\ prose[r] # 0 /\ vector[r] # 0}
              kept    == {r \in carried : text[r] = prose[r]}
          IN /\ prose' = [r \in Row |-> IF r \in c THEN text[r] ELSE prose[r]]
             /\ vector' = [r \in Row |-> IF r \in carried \ kept THEN 0 ELSE vector[r]]
             /\ stamp' = [r \in Row |-> IF r \in c \ kept THEN "none" ELSE stamp[r]]
             /\ Excuse(IF store = "vec0" THEN c ELSE {})
             /\ UNCHANGED <<formVars, openVars, work>>
    BY <1>1 DEF Rewrite
  <2> DEFINE carried == {r \in c : store = "blobs" /\ prose[r] # 0 /\ vector[r] # 0}
             kept    == {r \in carried : text[r] = prose[r]}
             rs      == IF store = "vec0" THEN c ELSE {}
  <2>3. /\ prose' \in [Row -> Text \cup {0}] /\ vector' \in [Row -> Text \cup {0}]
        /\ stamp' \in [Row -> Stamps] /\ work' \in [Pass -> [Row -> Text \cup {0}]]
    BY <1>t, <2>2 DEF Stamps
  <2>4. rs \in SUBSET Row /\ Excuse(rs)
    BY <2>1, <2>2
  <2>5. \A r \in Row \ (drifted \cup rs) : vector'[r] \in {0, prose'[r]}
    BY <1>f, <1>t, <2>2
  <2>6. \A r \in Row : prose'[r] = 0 => stamp'[r] = "none"
    BY <1>f, <1>t, <2>2
  <2>7. \A r \in Row : (stamp'[r] # "none" /\ vector'[r] = 0) => stamp[r] # "none" /\ vector[r] = 0
    BY <1>t, <2>2
  <2>8. UNCHANGED <<formVars, openVars>>
    BY <2>2
  <2> QED
    BY <2>3, <2>4, <2>5, <2>6, <2>7, <2>8, LanesFit
<1>2. ASSUME NEW rs \in SUBSET Row, ForgetRows(rs) PROVE VectorInv'
  <2>1. PICK missed \in SUBSET rs :
          LET gone == {r \in rs : prose[r] # 0} IN
          /\ store = "blobs" => missed = {}
          /\ vector' = [r \in Row |-> IF r \in gone \ missed THEN 0 ELSE vector[r]]
          /\ prose' = [r \in Row |-> IF r \in gone THEN 0 ELSE prose[r]]
          /\ stamp' = [r \in Row |-> IF r \in gone THEN "none" ELSE stamp[r]]
          /\ Excuse(missed)
          /\ UNCHANGED <<formVars, openVars, work>>
    BY <1>2 DEF ForgetRows
  <2>2. /\ prose' \in [Row -> Text \cup {0}] /\ vector' \in [Row -> Text \cup {0}]
        /\ stamp' \in [Row -> Stamps] /\ work' \in [Pass -> [Row -> Text \cup {0}]]
    BY <1>t, <2>1 DEF Stamps
  <2>3. missed \in SUBSET Row
    OBVIOUS
  <2>4. /\ \A r \in Row \ (drifted \cup missed) : vector'[r] \in {0, prose'[r]}
        /\ \A r \in Row : prose'[r] = 0 => stamp'[r] = "none"
        /\ \A r \in Row : (stamp'[r] # "none" /\ vector'[r] = 0)
                            => stamp[r] # "none" /\ vector[r] = 0
    BY <1>f, <1>t, <2>1
  <2> QED
    BY <2>1, <2>2, <2>3, <2>4, LanesFit
<1>3. ASSUME NEW g \in Ghost, RescueGhost(g) \/ MaskGhost(g) PROVE VectorInv'
  <2>1. /\ g \in Row /\ {g} \in SUBSET Row
        /\ 1 \in Text /\ 2 \in Text
    BY VectorAssumption DEF Row, Text
  <2>2. PICK text \in {1, 2} : prose' = [prose EXCEPT ![g] = text]
    BY <1>3 DEF RescueGhost, MaskGhost
  <2>3. UNCHANGED <<vector, formVars, openVars, work>> /\ Excuse({g})
    BY <1>3 DEF RescueGhost, MaskGhost
  <2>4. stamp' = stamp \/ stamp' = [stamp EXCEPT ![g] = "none"]
    BY <1>3 DEF RescueGhost, MaskGhost
  <2>5. /\ prose' \in [Row -> Text \cup {0}] /\ vector' \in [Row -> Text \cup {0}]
        /\ stamp' \in [Row -> Stamps] /\ work' \in [Pass -> [Row -> Text \cup {0}]]
    BY <1>t, <2>1, <2>2, <2>3, <2>4 DEF Stamps
  <2>6. /\ \A r \in Row \ (drifted \cup {g}) : vector'[r] \in {0, prose'[r]}
        /\ \A r \in Row : prose'[r] = 0 => stamp'[r] = "none"
        /\ \A r \in Row : (stamp'[r] # "none" /\ vector'[r] = 0)
                            => stamp[r] # "none" /\ vector[r] = 0
    BY <1>f, <1>t, <2>2, <2>3, <2>4
  <2> QED
    BY <2>1, <2>3, <2>5, <2>6, LanesFit
<1>4. ASSUME NEW p \in Pass, StartPass(p) \/ EndPass(p) PROVE VectorInv'
  <2>1. UNCHANGED <<prose, stamp, vector, formVars, openVars, drifted>>
    BY <1>4 DEF StartPass, EndPass, laneVars
  <2>2. work' \in [Pass -> [Row -> Text \cup {0}]]
    BY <1>4, <1>t DEF StartPass, EndPass, Pending, Done
  <2>3. VectorTypeOK'
    BY <2>1, <2>2 DEF VectorInv, VectorTypeOK, formVars, openVars
  <2> QED
    BY <2>1, <2>3 DEF VectorInv, FormsFollow, VectorsMatchText, StampsHaveVectors, formVars, openVars
<1>5. ASSUME NEW p \in Checking, NEW r \in Row, EmbedChecked(p, r) PROVE VectorInv'
  <2>1. /\ UNCHANGED <<prose, formVars, openVars>> /\ Excuse({}) /\ work[p][r] # 0
        /\ \/ UNCHANGED <<vector, stamp>>
           \/ /\ prose[r] = work[p][r] /\ vector' = [vector EXCEPT ![r] = work[p][r]]
              /\ stamp' = [stamp EXCEPT ![r] = "current"]
    BY <1>5 DEF EmbedChecked, SameText
  <2>2. p \in Pass /\ work' \in [Pass -> [Row -> Text \cup {0}]]
    BY <1>5, <1>t DEF EmbedChecked, Done, Pass
  <2>3. /\ prose' \in [Row -> Text \cup {0}] /\ vector' \in [Row -> Text \cup {0}]
        /\ stamp' \in [Row -> Stamps]
    BY <1>t, <2>1, <2>2 DEF Stamps
  <2>4. /\ \A q \in Row \ (drifted \cup {}) : vector'[q] \in {0, prose'[q]}
        /\ \A q \in Row : prose'[q] = 0 => stamp'[q] = "none"
        /\ \A q \in Row : (stamp'[q] # "none" /\ vector'[q] = 0)
                            => stamp[q] # "none" /\ vector[q] = 0
    BY <1>f, <1>t, <2>1
  <2> QED
    BY <2>1, <2>2, <2>3, <2>4, LanesFit
<1>6. ASSUME NEW p \in Trusting, NEW rs \in SUBSET Row, EmbedTrusting(p, rs) PROVE VectorInv'
  <2>1. /\ UNCHANGED <<prose, formVars, openVars>> /\ Excuse(rs)
        /\ \A r \in rs : work[p][r] # 0
        /\ vector' = [r \in Row |-> IF r \in rs THEN work[p][r] ELSE vector[r]]
        /\ stamp' = [r \in Row |-> IF r \in rs /\ prose[r] # 0 THEN "current" ELSE stamp[r]]
    BY <1>6 DEF EmbedTrusting
  <2>2. p \in Pass /\ work' \in [Pass -> [Row -> Text \cup {0}]]
    BY <1>6, <1>t DEF EmbedTrusting, Done, Pass
  <2>3. /\ prose' \in [Row -> Text \cup {0}] /\ vector' \in [Row -> Text \cup {0}]
        /\ stamp' \in [Row -> Stamps]
    BY <1>t, <2>1, <2>2 DEF Stamps
  <2>4. /\ \A q \in Row \ (drifted \cup rs) : vector'[q] \in {0, prose'[q]}
        /\ \A q \in Row : prose'[q] = 0 => stamp'[q] = "none"
        /\ \A q \in Row : (stamp'[q] # "none" /\ vector'[q] = 0)
                            => stamp[q] # "none" /\ vector[q] = 0
    BY <1>f, <1>t, <2>1
  <2> QED
    BY <2>1, <2>2, <2>3, <2>4, LanesFit
<1> QED
  <2>1. \A c \in Chat : c \in SUBSET Row
    BY DEF Row, Exchange
  <2>2. \A g \in Ghost : {g} \in SUBSET Row
    BY DEF Row
  <2> QED
    BY <1>1, <1>2, <1>3, <1>4, <1>5, <1>6, <2>1, <2>2

(* So every step keeps the two sides of the record together.               *)
LEMMA VectorNextInv == VectorInv /\ [VectorNext]_vectorVars => VectorInv'
<1> SUFFICES ASSUME VectorInv, [VectorNext]_vectorVars PROVE VectorInv'
  OBVIOUS
<1>1. CASE UNCHANGED vectorVars
  BY <1>1 DEF VectorInv, VectorTypeOK, FormsFollow, VectorsMatchText, StampsHaveVectors,
              vectorVars, laneVars, formVars, openVars
<1>2. CASE VectorNext
  BY <1>2, OpensFit, WritesFit DEF VectorNext
<1> QED
  BY <1>1, <1>2

(* What `find` searches is what is embedded: vec.ts never leaves a vector  *)
(* of another text, or a stamp without a vector, but for a reason it has   *)
(* on record here.                                                         *)
THEOREM VectorsAlwaysFit == VectorSpec => []VectorsFit
<1>1. VectorInv => VectorsFit
  BY DEF VectorInv, VectorsFit
<1> QED
  BY <1>1, VectorInitInv, VectorNextInv, PTL DEF VectorSpec

-----------------------------------------------------------------------------
(* GhostIndex.                                                             *)

(* What a ghost was derived from only ever gets better: from history.jsonl *)
(* rather than an index, and of a later history.                           *)
Rank(g) ==
  IF g.from = "nowhere" THEN 0 ELSE IF g.from = "index" THEN 1 ELSE 2 + g.ver

(* A ghost can not become again what it is above, short of being forgotten *)
(* or masked.                                                              *)
Above(a, b) == Rank(a) > Rank(b) \/ (Rank(a) = Rank(b) /\ a.raw # {})

Reading == {"history", "orphans", "store"}

(* A rescue reads what is not older than its fingerprint, and not newer    *)
(* than the file.                                                          *)
ReadAfterStat ==
  /\ \A s \in Session : statHistory[s] <= history[s] /\ readHistory[s] <= history[s]
  /\ rescuePc \in Reading => \A s \in Session : statHistory[s] <= readHistory[s]

(* The stored fingerprint is of an earlier history.                        *)
FingerprintIsOlder ==
  \A fp \in rescueFp, s \in Session :
    fp[1][s] <= history[s] /\ (rescuePc \in Reading => fp[1][s] <= readHistory[s])

(* A text is of a history that was read.                                   *)
DerivedFrom(g, s) ==
  /\ g.ver <= history[s] /\ (g.from = "history" => history[s] > 0)
  /\ rescuePc \in Reading =>
       g.ver <= readHistory[s] /\ (g.from = "history" => readHistory[s] > 0)
  /\ g.from # "history" => g.ver = 0
  /\ g.from = "nowhere" => g = NoGhost
  /\ g.raw \subseteq Secret \cap {s}
GhostsAreDerived ==
  \A s \in Session :
    /\ DerivedFrom(ghost[s], s) /\ DerivedFrom(readGhosts[s], s)
    /\ ghost[s].from = "index" => readGhosts[s].from # "history"

Rescued(s) == ghost[s].from = "history" /\ (ghost[s].ver = history[s] \/ s \in overwritten)

(* What a running rescue has done, and what a stored fingerprint says was  *)
(* done, while the history of a session is still the one stat'ed.          *)
RescueDid ==
  /\ rescuePc \in {"orphans", "store"} =>
       \A s \in Session \ (scanned \cup forgotten) :
         statHistory[s] = history[s] /\ history[s] > 0 => Rescued(s)
  /\ \A fp \in rescueFp : \A s \in Session \ (fp[2] \cup forgotten) :
         fp[1][s] = history[s] /\ history[s] > 0 => Rescued(s)

(* Since the index pass stored its fingerprint, a row was left alone, and  *)
(* so was its full-text side, or it is above what was indexed.             *)
IndexDid ==
  \A g \in indexFp : \A s \in Session \ (torn \cup forgotten) :
    /\ g[s].raw = {} /\ (g[s].from # "history" => g[s].ver = 0)
    /\ Rank(g[s]) <= Rank(ghost[s])
    /\ fts[s] = g[s] \/ Above(ghost[s], g[s])

GhostInv ==
  /\ GhostTypeOK /\ HistoryGhostsRespectForget /\ ReadAfterStat /\ FingerprintIsOlder
  /\ GhostsAreDerived /\ RescueDid /\ IndexDid

(* The tables start empty and the rescue idle.                             *)
LEMMA GhostInitInv == GhostInit => GhostInv
<1> SUFFICES ASSUME GhostInit PROVE GhostInv
  OBVIOUS
<1> USE DEF GhostInit
<1>1. NoGhost \in Ghosts /\ NoGhost.from = "nowhere" /\ NoGhost.ver = 0 /\ NoGhost.raw = {}
  BY DEF NoGhost, Ghosts
<1>2. GhostTypeOK
  BY <1>1 DEF GhostTypeOK, NoRows, Empty
<1>3. HistoryGhostsRespectForget /\ ReadAfterStat /\ FingerprintIsOlder
  BY DEF HistoryGhostsRespectForget, Erased, ReadAfterStat, FingerprintIsOlder, Empty, Reading
<1>4. GhostsAreDerived
  BY <1>1 DEF GhostsAreDerived, DerivedFrom, NoRows, Empty, Reading
<1>5. RescueDid /\ IndexDid
  BY DEF RescueDid, IndexDid
<1> QED
  BY <1>2, <1>3, <1>4, <1>5 DEF GhostInv

Places == {"idle", "stat", "read", "history", "orphans", "store"}

(* Every step keeps the types.                                             *)
LEMMA GhostTyped == GhostTypeOK /\ [GhostNext]_ghostVars => GhostTypeOK'
<1> SUFFICES ASSUME GhostTypeOK, [GhostNext]_ghostVars PROVE GhostTypeOK'
  OBVIOUS
<1>1. ASSUME NEW s \in Session, TypePrompt(s) \/ CleanTranscript(s) \/ CaptureLive(s)
      PROVE  GhostTypeOK'
  <2>1. history' \in [Session -> Nat] /\ onDisk' \in SUBSET Session /\ known' \in SUBSET Session
    <3>1. CASE TypePrompt(s)
      <4>1. onDisk' = onDisk \/ onDisk' = onDisk \cup {s}
        BY <3>1 DEF TypePrompt
      <4>2. history' \in [Session -> Nat] /\ known' = known
        BY <3>1 DEF TypePrompt, GhostTypeOK, tableVars
      <4> QED
        BY <4>1, <4>2 DEF GhostTypeOK
    <3>2. CASE CleanTranscript(s) \/ CaptureLive(s)
      BY <3>2 DEF CleanTranscript, CaptureLive, GhostTypeOK, tableVars, ghostFiles
    <3> QED
      BY <1>1, <3>1, <3>2
  <2>2. UNCHANGED <<forgotten, ghost, fts, rescueFp, indexFp, rescueVars, passVars, markVars>>
    BY <1>1 DEF TypePrompt, CleanTranscript, CaptureLive, tableVars
  <2> QED
    BY <2>1, <2>2 DEF GhostTypeOK, rescueVars, passVars, markVars
<1>2. ASSUME NEW s \in Session, ForgetSession(s) PROVE GhostTypeOK'
  <2>1. NoGhost \in Ghosts
    BY DEF NoGhost, Ghosts
  <2>2. ghost' \in [Session -> Ghosts] /\ fts' = ghost' /\ forgotten' \in SUBSET Session
    BY <1>2, <2>1 DEF ForgetSession, GhostTypeOK
  <2> QED
    BY <1>2, <2>2 DEF ForgetSession, GhostTypeOK, ghostFiles, rescueVars, passVars, markVars
<1>3. CASE RescueScans \/ RescueSkips \/ RescueStats \/ RescueReads \/ RescueDies
  <2>1. rescuePc' \in Places
    BY <1>3 DEF RescueScans, RescueSkips, RescueStats, RescueReads, RescueDies, RescueEnds, Places
  <2>2. /\ scanned' \in SUBSET Session
        /\ statHistory' \in [Session -> Nat] /\ readHistory' \in [Session -> Nat]
    BY <1>3 DEF RescueScans, RescueSkips, RescueStats, RescueReads, RescueDies, RescueEnds, Empty,
                GhostTypeOK
  <2>3. UNCHANGED <<ghostFiles, tableVars, passVars, markVars>>
    BY <1>3 DEF RescueScans, RescueSkips, RescueStats, RescueReads, RescueDies
  <2> QED
    BY <2>1, <2>2, <2>3 DEF GhostTypeOK, ghostFiles, tableVars, passVars, markVars, Places
<1>4. CASE RescueHistory \/ RescueOrphans
  <2>1. \A s \in Session : \A from \in {"history", "index"}, ver \in Nat : Derived(s, from, ver) \in Ghosts
    BY GhostAssumption DEF Derived, Ghosts
  <2>2. ghost' \in [Session -> Ghosts]
    BY <1>4, <2>1 DEF RescueHistory, RescueOrphans, GhostTypeOK
  <2>3. overwritten' \in SUBSET Session /\ rescuePc' \in Places
    BY <1>4 DEF RescueHistory, RescueOrphans, GhostTypeOK, Places
  <2> QED
    BY <1>4, <2>2, <2>3 DEF RescueHistory, RescueOrphans, GhostTypeOK, ghostFiles, passVars, Places
<1>5. CASE RescueStores
  <2>1. rescueFp' \in SUBSET ([Session -> Nat] \X SUBSET Session)
    BY <1>5 DEF RescueStores, StoredFingerprint, GhostTypeOK
  <2> QED
    BY <1>5, <2>1 DEF RescueStores, RescueEnds, Empty, GhostTypeOK, ghostFiles, passVars, markVars
<1>6. CASE IndexReads \/ IndexBackfills \/ IndexDies
  <2>1. NoRows \in [Session -> Ghosts]
    BY DEF NoRows, NoGhost, Ghosts
  <2>2. readGhosts' \in [Session -> Ghosts] /\ indexPc' \in {"idle", "write", "backfill"}
    BY <1>6, <2>1 DEF IndexReads, IndexBackfills, IndexDies, GhostTypeOK
  <2>3. known' \in SUBSET Session
    BY <1>6 DEF IndexReads, IndexBackfills, IndexDies, GhostTypeOK, tableVars
  <2> QED
    BY <1>6, <2>2, <2>3 DEF IndexReads, IndexBackfills, IndexDies, GhostTypeOK,
                            ghostFiles, tableVars, rescueVars, markVars
<1>7. CASE IndexWrites
  <2>1. \A g \in Ghosts : Masked(g) \in Ghosts
    BY DEF Masked, Ghosts
  <2>2. \A s \in Session : WrittenBack(s) \in Ghosts
    <3>1. \A g \in Ghosts : \A v \in Nat : [g EXCEPT !.ver = v, !.raw = {}] \in Ghosts
      BY DEF Ghosts
    <3>2. \A s \in Session : ghost[s] \in Ghosts /\ readGhosts[s].ver \in Nat
      BY DEF GhostTypeOK, Ghosts
    <3> QED
      BY <3>1, <3>2 DEF WrittenBack
  <2>3. /\ ghost' \in [Session -> Ghosts] /\ fts' \in [Session -> Ghosts]
        /\ indexFp' \in SUBSET [Session -> Ghosts]
    BY <1>7, <2>1, <2>2 DEF IndexWrites, GhostTypeOK
  <2>4. readGhosts' \in [Session -> Ghosts]
    BY <1>7 DEF IndexWrites, NoRows, NoGhost, Ghosts
  <2>5. torn' \in SUBSET Session /\ overwritten' \in SUBSET Session
    BY <1>7 DEF IndexWrites, GhostTypeOK
  <2> QED
    BY <1>7, <2>3, <2>4, <2>5 DEF IndexWrites, GhostTypeOK, ghostFiles, rescueVars
<1>8. CASE UNCHANGED ghostVars
  BY <1>8 DEF GhostTypeOK, ghostVars, ghostFiles, tableVars, rescueVars, passVars, markVars
<1> QED
  BY <1>1, <1>2, <1>3, <1>4, <1>5, <1>6, <1>7, <1>8 DEF GhostNext, RescueStep, PassStep

(* The parts of GhostInv that a step has to keep.                          *)
GhostParts ==
  /\ HistoryGhostsRespectForget /\ ReadAfterStat /\ FingerprintIsOlder
  /\ GhostsAreDerived /\ RescueDid /\ IndexDid

(* A prompt typed only makes histories newer; a capture adds a source that *)
(* is not forgotten.                                                       *)
LEMMA OthersKeepParts ==
  ASSUME GhostInv, NEW q \in Session, TypePrompt(q) \/ CleanTranscript(q) \/ CaptureLive(q)
  PROVE  GhostParts'
<1>t. GhostTypeOK
  BY DEF GhostInv
<1>i. GhostParts
  BY DEF GhostInv, GhostParts
<1>1. /\ UNCHANGED <<forgotten, ghost, fts, rescueFp, indexFp, torn, overwritten, readGhosts>>
      /\ UNCHANGED <<rescuePc, scanned, statHistory, readHistory>>
  BY DEF TypePrompt, CleanTranscript, CaptureLive, tableVars, rescueVars, passVars, markVars
<1>2. /\ history' \in [Session -> Nat]
      /\ \A s \in Session : history'[s] = history[s] \/ history'[s] = history[s] + 1
  BY <1>t DEF TypePrompt, CleanTranscript, CaptureLive, ghostFiles, GhostTypeOK
<1>3. \A s \in known' : s \in known \/ s \notin forgotten
  BY <1>t DEF TypePrompt, CleanTranscript, CaptureLive, tableVars, GhostTypeOK
<1>4. HistoryGhostsRespectForget'
  BY <1>i, <1>1, <1>3 DEF GhostParts, HistoryGhostsRespectForget, Erased
<1>5. ReadAfterStat' /\ FingerprintIsOlder'
  <2>1. ReadAfterStat'
    BY <1>i, <1>t, <1>1, <1>2 DEF GhostParts, ReadAfterStat, GhostTypeOK
  <2>2. ASSUME NEW fp \in rescueFp, NEW s \in Session
        PROVE  fp[1][s] <= history'[s] /\ (rescuePc \in Reading => fp[1][s] <= readHistory[s])
    <3>1. fp[1][s] \in Nat /\ history[s] \in Nat
      BY <1>t DEF GhostTypeOK
    <3> QED
      BY <1>i, <1>2, <3>1 DEF GhostParts, FingerprintIsOlder
  <2> QED
    BY <1>1, <2>1, <2>2 DEF FingerprintIsOlder
<1>6. GhostsAreDerived'
  <2>1. ASSUME NEW g \in Ghosts, NEW s \in Session, DerivedFrom(g, s) PROVE DerivedFrom(g, s)'
    <3>1. g.ver \in Nat /\ history[s] \in Nat /\ history'[s] \in Nat /\ history[s] <= history'[s]
      <4>1. history[s] \in Nat /\ g.ver \in Nat
        BY <1>t DEF Ghosts, GhostTypeOK
      <4> QED
        BY <1>2, <4>1
    <3>2. g.ver <= history'[s] /\ (g.from = "history" => history'[s] > 0)
      BY <2>1, <3>1 DEF DerivedFrom
    <3> QED
      BY <1>1, <2>1, <3>2 DEF DerivedFrom
  <2> QED
    BY <1>i, <1>t, <1>1, <2>1 DEF GhostParts, GhostsAreDerived, GhostTypeOK
<1>7. RescueDid'
  <2>1. \A s \in Session : (Rescued(s) /\ history'[s] = history[s]) => Rescued(s)'
    BY <1>1 DEF Rescued
  <2>2. ASSUME rescuePc \in {"orphans", "store"}, NEW s \in Session \ (scanned \cup forgotten),
               statHistory[s] = history'[s], history'[s] > 0
        PROVE  Rescued(s)'
    <3>1. history'[s] = history[s]
      BY <1>i, <1>t, <1>2, <2>2 DEF GhostParts, ReadAfterStat, GhostTypeOK
    <3> QED
      BY <1>i, <2>1, <2>2, <3>1 DEF GhostParts, RescueDid
  <2>3. ASSUME NEW fp \in rescueFp, NEW s \in Session \ (fp[2] \cup forgotten),
               fp[1][s] = history'[s], history'[s] > 0
        PROVE  Rescued(s)'
    <3>1. fp[1][s] <= history[s]
      BY <1>i DEF GhostParts, FingerprintIsOlder
    <3>2. history'[s] = history[s]
      BY <1>t, <1>2, <2>3, <3>1 DEF GhostTypeOK
    <3> QED
      BY <1>i, <2>1, <2>3, <3>2 DEF GhostParts, RescueDid
  <2> QED
    BY <1>1, <2>2, <2>3 DEF RescueDid
<1>8. IndexDid'
  BY <1>i, <1>1 DEF GhostParts, IndexDid, Above, Rank
<1> QED
  BY <1>4, <1>5, <1>6, <1>7, <1>8 DEF GhostParts

(* The steps of a rescue that only look.                                   *)
LEMMA LooksKeepParts ==
  ASSUME GhostInv, RescueScans \/ RescueSkips \/ RescueStats \/ RescueReads \/ RescueDies
  PROVE  GhostParts'
<1>t. GhostTypeOK
  BY DEF GhostInv
<1>i. GhostParts
  BY DEF GhostInv, GhostParts
<1>1. /\ UNCHANGED <<history, forgotten, known, ghost, fts, rescueFp, indexFp, torn, overwritten>>
      /\ UNCHANGED readGhosts
  BY DEF RescueScans, RescueSkips, RescueStats, RescueReads, RescueDies, ghostFiles, tableVars,
         passVars, markVars
<1>2. /\ rescuePc' \notin {"orphans", "store"}
      /\ rescuePc' \in Reading => readHistory' = history
      /\ \A s \in Session : statHistory'[s] <= history[s] /\ readHistory'[s] <= history[s]
  BY <1>i, <1>t DEF RescueScans, RescueSkips, RescueStats, RescueReads, RescueDies, RescueEnds,
                    Empty, Reading, GhostParts, ReadAfterStat, GhostTypeOK
<1>3. HistoryGhostsRespectForget' /\ IndexDid'
  BY <1>i, <1>1 DEF GhostParts, HistoryGhostsRespectForget, Erased, IndexDid, Above, Rank
<1>4. ReadAfterStat' /\ FingerprintIsOlder'
  BY <1>i, <1>1, <1>2 DEF GhostParts, ReadAfterStat, FingerprintIsOlder
<1>5. GhostsAreDerived'
  BY <1>i, <1>1, <1>2 DEF GhostParts, GhostsAreDerived, DerivedFrom
<1>6. RescueDid'
  BY <1>i, <1>1, <1>2 DEF GhostParts, RescueDid, Rescued
<1> QED
  BY <1>3, <1>4, <1>5, <1>6 DEF GhostParts

(* What the two transactions of a rescue write: ghosts derived from what   *)
(* it read, none of a forgotten session from history.jsonl.                *)
LEMMA DerivingKeepsParts ==
  ASSUME GhostInv, RescueHistory \/ RescueOrphans
  PROVE  GhostParts'
<1>t. GhostTypeOK
  BY DEF GhostInv
<1>i. GhostParts
  BY DEF GhostInv, GhostParts
<1> DEFINE orphans == {s \in Indexed \ scanned : readHistory[s] = 0}
<1>1. /\ UNCHANGED <<history, forgotten, known, fts, rescueFp, indexFp, torn, readGhosts>>
      /\ UNCHANGED <<scanned, statHistory, readHistory>>
      /\ rescuePc \in {"history", "orphans"} /\ rescuePc' \in {"orphans", "store"}
      /\ rescuePc' = "store" => rescuePc = "orphans"
  BY DEF RescueHistory, RescueOrphans, ghostFiles, passVars
<1>2. PICK derived \in SUBSET Session :
        /\ \/ /\ derived = HistoryGhosts /\ rescuePc' = "orphans"
              /\ \A s \in derived : ghost'[s] = Derived(s, "history", readHistory[s])
           \/ /\ derived = orphans /\ rescuePc' = "store"
              /\ \A s \in derived : ghost'[s] = Derived(s, "index", 0)
        /\ \A s \in Session \ derived : ghost'[s] = ghost[s]
        /\ overwritten' = overwritten \ derived
  <2>1. HistoryGhosts \in SUBSET Session /\ orphans \in SUBSET Session
    BY GhostAssumption DEF HistoryGhosts
  <2>2. CASE RescueHistory
    BY <2>1, <2>2 DEF RescueHistory
  <2>3. CASE RescueOrphans
    BY <2>1, <2>3 DEF RescueOrphans
  <2> QED
    BY <2>2, <2>3
<1>3. \A s \in Session : /\ statHistory[s] \in Nat /\ readHistory[s] \in Nat /\ history[s] \in Nat
                         /\ statHistory[s] <= readHistory[s] /\ readHistory[s] <= history[s]
                         /\ ghost[s] \in Ghosts /\ ghost[s].ver <= readHistory[s]
                         /\ ghost[s].from = "history" => readHistory[s] > 0
                         /\ ghost[s].from # "history" => ghost[s].ver = 0
                         /\ ghost[s].raw \subseteq Secret \cap {s}
  BY <1>i, <1>t, <1>1 DEF GhostParts, ReadAfterStat, GhostsAreDerived, DerivedFrom, GhostTypeOK, Reading
<1>4. ASSUME NEW s \in derived
      PROVE  /\ ghost'[s].raw = Secret \cap {s}
             /\ \/ ghost'[s].from = "history" /\ ghost'[s].ver = readHistory[s] /\ readHistory[s] > 0
                   /\ s \notin forgotten
                \/ ghost'[s].from = "index" /\ ghost'[s].ver = 0 /\ readHistory[s] = 0
  <2>1. CASE derived = HistoryGhosts /\ ghost'[s] = Derived(s, "history", readHistory[s])
    BY <1>3, <2>1 DEF Derived, HistoryGhosts
  <2>2. CASE derived = orphans /\ ghost'[s] = Derived(s, "index", 0)
    BY <2>2 DEF Derived
  <2> QED
    BY <1>2, <2>1, <2>2
<1>5. HistoryGhostsRespectForget'
  <2>1. \A s \in Erased : s \in Session /\ s \in forgotten /\ ghost[s].from # "history"
    BY <1>i, <1>t DEF GhostParts, HistoryGhostsRespectForget, Erased, GhostTypeOK
  <2>2. \A s \in Erased : ghost'[s].from # "history"
    BY <1>2, <1>4, <2>1
  <2> QED
    BY <1>1, <2>2 DEF HistoryGhostsRespectForget, Erased
<1>6. ReadAfterStat' /\ FingerprintIsOlder'
  BY <1>i, <1>1 DEF GhostParts, ReadAfterStat, FingerprintIsOlder, Reading
<1>7. GhostsAreDerived'
  <2>1. \A s \in Session \ derived : DerivedFrom(ghost[s], s)'
    BY <1>i, <1>1, <1>2 DEF GhostParts, GhostsAreDerived, DerivedFrom, Reading
  <2>2. \A s \in Session : DerivedFrom(readGhosts[s], s)'
    BY <1>i, <1>1 DEF GhostParts, GhostsAreDerived, DerivedFrom, Reading
  <2>3. \A s \in derived : DerivedFrom(ghost[s], s)'
    BY <1>1, <1>3, <1>4 DEF DerivedFrom, Reading
  <2>4. \A s \in Session : ghost'[s].from = "index" => readGhosts[s].from # "history"
    <3>1. \A s \in Session : readGhosts[s].from = "history" => readHistory[s] > 0
      BY <1>i, <1>1 DEF GhostParts, GhostsAreDerived, DerivedFrom, Reading
    <3> QED
      BY <1>i, <1>2, <1>3, <1>4, <3>1 DEF GhostParts, GhostsAreDerived
  <2> QED
    BY <1>1, <2>1, <2>2, <2>3, <2>4 DEF GhostsAreDerived
<1>8. RescueDid'
  <2>1. ASSUME NEW s \in Session, readHistory[s] = history[s], history[s] > 0,
               Rescued(s) \/ s \in derived
        PROVE  Rescued(s)'
    <3>1. CASE s \in derived
      BY <1>1, <1>3, <1>4, <2>1, <3>1 DEF Rescued
    <3>2. CASE s \notin derived
      BY <1>1, <1>2, <2>1, <3>2 DEF Rescued
    <3> QED
      BY <3>1, <3>2
  <2>2. ASSUME NEW s \in Session \ (scanned \cup forgotten), statHistory[s] = history[s], history[s] > 0
        PROVE  Rescued(s)'
    <3>1. readHistory[s] = history[s]
      BY <1>3, <2>2
    <3>2. CASE rescuePc = "orphans"
      BY <1>i, <2>1, <2>2, <3>1, <3>2 DEF GhostParts, RescueDid
    <3>3. CASE rescuePc = "history"
      <4>1. derived = HistoryGhosts
        BY <1>1, <1>2, <3>3
      <4> QED
        BY <2>1, <2>2, <3>1, <4>1 DEF HistoryGhosts
    <3> QED
      BY <1>1, <3>2, <3>3
  <2>3. ASSUME NEW fp \in rescueFp, NEW s \in Session \ (fp[2] \cup forgotten),
               fp[1][s] = history[s], history[s] > 0
        PROVE  Rescued(s)'
    <3>1. fp[1][s] <= readHistory[s]
      BY <1>i, <1>1 DEF GhostParts, FingerprintIsOlder, Reading
    <3>2. readHistory[s] = history[s]
      BY <1>3, <2>3, <3>1
    <3> QED
      BY <1>i, <2>1, <2>3, <3>2 DEF GhostParts, RescueDid
  <2> QED
    BY <1>1, <2>2, <2>3 DEF RescueDid
<1>9. IndexDid'
  <2>1. \A s \in derived : \/ Rank(ghost'[s]) > Rank(ghost[s])
                           \/ /\ Rank(ghost'[s]) = Rank(ghost[s])
                              /\ ghost[s].raw \subseteq ghost'[s].raw
    BY <1>3, <1>4 DEF Rank, Ghosts
  <2>2. \A s \in Session : Rank(ghost[s]) \in Nat /\ Rank(ghost'[s]) \in Nat
    BY <1>2, <1>3, <1>4 DEF Rank, Ghosts
  <2>3. ASSUME NEW g \in indexFp, NEW s \in Session \ (torn \cup forgotten)
        PROVE  /\ g[s].raw = {} /\ (g[s].from # "history" => g[s].ver = 0)
               /\ Rank(g[s]) <= Rank(ghost'[s])
               /\ fts[s] = g[s] \/ Above(ghost'[s], g[s])
    <3>1. Rank(g[s]) \in Nat
      BY <1>t DEF GhostTypeOK, Rank, Ghosts
    <3>2. /\ g[s].raw = {} /\ (g[s].from # "history" => g[s].ver = 0)
          /\ Rank(g[s]) <= Rank(ghost[s])
          /\ fts[s] = g[s] \/ Above(ghost[s], g[s])
      BY <1>i DEF GhostParts, IndexDid
    <3>3. CASE s \in derived
      BY <2>1, <2>2, <3>1, <3>2, <3>3 DEF Above
    <3>4. CASE s \notin derived
      BY <1>2, <3>2, <3>4
    <3> QED
      BY <3>3, <3>4
  <2> QED
    BY <1>1, <2>3 DEF IndexDid
<1> QED
  BY <1>5, <1>6, <1>7, <1>8, <1>9 DEF GhostParts

(* The fingerprint that is stored is of what was derived.                  *)
LEMMA StoringKeepsParts ==
  ASSUME GhostInv, RescueStores
  PROVE  GhostParts'
<1>t. GhostTypeOK
  BY DEF GhostInv
<1>i. GhostParts
  BY DEF GhostInv, GhostParts
<1>1. /\ UNCHANGED <<history, forgotten, known, ghost, fts, indexFp, torn, overwritten, readGhosts>>
      /\ rescuePc = "store" /\ rescuePc' = "idle"
      /\ statHistory' = Empty /\ readHistory' = Empty /\ rescueFp' = {<<statHistory, scanned>>}
  BY DEF RescueStores, RescueEnds, StoredFingerprint, ghostFiles, passVars, markVars
<1>2. HistoryGhostsRespectForget' /\ IndexDid'
  BY <1>i, <1>1 DEF GhostParts, HistoryGhostsRespectForget, Erased, IndexDid, Above, Rank
<1>3. ReadAfterStat' /\ FingerprintIsOlder'
  BY <1>i, <1>t, <1>1 DEF GhostParts, ReadAfterStat, FingerprintIsOlder, Reading, Empty, GhostTypeOK
<1>4. GhostsAreDerived'
  BY <1>i, <1>1 DEF GhostParts, GhostsAreDerived, DerivedFrom, Reading
<1>5. RescueDid'
  BY <1>i, <1>1 DEF GhostParts, RescueDid, Rescued
<1> QED
  BY <1>2, <1>3, <1>4, <1>5 DEF GhostParts

(* The steps of the index pass that leave rows and tables alone.           *)
LEMMA PassKeepsParts ==
  ASSUME GhostInv, IndexReads \/ IndexBackfills \/ IndexDies
  PROVE  GhostParts'
<1>t. GhostTypeOK
  BY DEF GhostInv
<1>i. GhostParts
  BY DEF GhostInv, GhostParts
<1>1. /\ UNCHANGED <<history, forgotten, ghost, fts, rescueFp, indexFp, torn, overwritten>>
      /\ UNCHANGED <<rescuePc, scanned, statHistory, readHistory>>
  BY DEF IndexReads, IndexBackfills, IndexDies, ghostFiles, tableVars, rescueVars, markVars
<1>2. \A s \in known' : s \in known \/ s \notin forgotten
  BY DEF IndexReads, IndexBackfills, IndexDies, tableVars
<1>3. readGhosts' \in {ghost, readGhosts, NoRows}
  BY DEF IndexReads, IndexBackfills, IndexDies
<1>4. HistoryGhostsRespectForget'
  BY <1>i, <1>1, <1>2 DEF GhostParts, HistoryGhostsRespectForget, Erased
<1>5. ReadAfterStat' /\ FingerprintIsOlder' /\ RescueDid' /\ IndexDid'
  BY <1>i, <1>1 DEF GhostParts, ReadAfterStat, FingerprintIsOlder, RescueDid, Rescued, IndexDid, Above, Rank
<1>6. GhostsAreDerived'
  <2>1. \A s \in Session : DerivedFrom(NoGhost, s) /\ NoGhost.from = "nowhere"
    BY <1>t DEF DerivedFrom, NoGhost, GhostTypeOK
  <2>2. \A s \in Session : readGhosts'[s] \in {ghost[s], readGhosts[s], NoGhost}
    BY <1>3 DEF NoRows
  <2>3. \A s \in Session : /\ DerivedFrom(ghost[s], s) /\ DerivedFrom(readGhosts[s], s)
                           /\ ghost[s].from = "index" => readGhosts[s].from # "history"
    BY <1>i DEF GhostParts, GhostsAreDerived
  <2>4. \A s \in Session : /\ DerivedFrom(ghost[s], s) /\ DerivedFrom(readGhosts'[s], s)
                           /\ ghost[s].from = "index" => readGhosts'[s].from # "history"
    BY <2>1, <2>2, <2>3
  <2> QED
    BY <1>1, <2>4 DEF GhostsAreDerived, DerivedFrom
<1> QED
  BY <1>4, <1>5, <1>6 DEF GhostParts

(* What the index pass writes back is not newer than what it read; where   *)
(* it read the rows as they are, both sides are masked alike.              *)
LEMMA WritingKeepsParts ==
  ASSUME GhostInv, IndexWrites
  PROVE  GhostParts'
<1>t. GhostTypeOK
  BY DEF GhostInv
<1>i. GhostParts
  BY DEF GhostInv, GhostParts
<1>1. /\ UNCHANGED <<history, forgotten, known, rescueFp>>
      /\ UNCHANGED <<rescuePc, scanned, statHistory, readHistory>>
      /\ readGhosts' = NoRows
      /\ ghost' = [s \in Session |-> WrittenBack(s)]
      /\ fts' = [s \in Session |-> Masked(readGhosts[s])] /\ indexFp' = {ghost'}
      /\ torn' = {s \in Session : ghost[s] # readGhosts[s]}
      /\ overwritten' = overwritten \cup {s \in torn' : WrittenBack(s) # ghost[s]}
  BY DEF IndexWrites, ghostFiles, rescueVars
<1>2. \A s \in Session : /\ ghost[s] \in Ghosts /\ readGhosts[s] \in Ghosts
                         /\ DerivedFrom(ghost[s], s) /\ DerivedFrom(readGhosts[s], s)
                         /\ ghost[s].from = "index" => readGhosts[s].from # "history"
  BY <1>i, <1>t DEF GhostParts, GhostsAreDerived, GhostTypeOK
<1>3. ASSUME NEW s \in Session
      PROVE  /\ ghost'[s].from = ghost[s].from
             /\ \/ ghost'[s] = ghost[s]
                \/ ghost'[s].ver = readGhosts[s].ver /\ ghost'[s].raw = {} /\ ghost[s] # NoGhost
  <2>1. ghost'[s] = WrittenBack(s)
    BY <1>1
  <2>2. CASE ghost[s] # NoGhost /\ Masked(readGhosts[s]) # readGhosts[s]
    BY <1>2, <2>1, <2>2 DEF WrittenBack, Ghosts
  <2>3. CASE ~(ghost[s] # NoGhost /\ Masked(readGhosts[s]) # readGhosts[s])
    BY <2>1, <2>3 DEF WrittenBack
  <2> QED
    BY <2>2, <2>3
<1>4. HistoryGhostsRespectForget'
  BY <1>i, <1>t, <1>1, <1>3 DEF GhostParts, HistoryGhostsRespectForget, Erased, GhostTypeOK
<1>5. ReadAfterStat' /\ FingerprintIsOlder'
  BY <1>i, <1>1 DEF GhostParts, ReadAfterStat, FingerprintIsOlder
<1>6. GhostsAreDerived'
  <2>1. \A s \in Session : readGhosts'[s] = NoGhost
    BY <1>1 DEF NoRows
  <2>2. \A s \in Session : DerivedFrom(NoGhost, s)
    BY <1>t DEF DerivedFrom, NoGhost, GhostTypeOK
  <2>3. ASSUME NEW s \in Session PROVE DerivedFrom(ghost'[s], s)
    <3>1. CASE ghost'[s] = ghost[s]
      BY <1>2, <3>1
    <3>2. CASE /\ ghost'[s].ver = readGhosts[s].ver /\ ghost'[s].raw = {} /\ ghost[s] # NoGhost
      BY <1>2, <1>3, <3>2 DEF DerivedFrom, Ghosts
    <3> QED
      BY <1>3, <3>1, <3>2
  <2>4. NoGhost.from # "history"
    BY DEF NoGhost
  <2> QED
    BY <1>1, <2>1, <2>2, <2>3, <2>4 DEF GhostsAreDerived, DerivedFrom
<1>7. RescueDid'
  <2>1. ASSUME NEW s \in Session, Rescued(s) PROVE Rescued(s)'
    <3>1. CASE ghost'[s] = ghost[s]
      BY <1>1, <2>1, <3>1 DEF Rescued
    <3>2. CASE ghost'[s] # ghost[s] /\ s \in torn'
      BY <1>1, <1>3, <2>1, <3>2 DEF Rescued
    <3>3. CASE s \notin torn'
      <4>1. ghost[s] = readGhosts[s]
        BY <1>1, <3>3
      <4>2. ghost'[s].ver = ghost[s].ver /\ ghost'[s].from = ghost[s].from
        BY <1>3, <4>1
      <4> QED
        BY <1>1, <2>1, <4>2 DEF Rescued
    <3> QED
      BY <3>1, <3>2, <3>3
  <2> QED
    BY <1>i, <1>1, <2>1 DEF GhostParts, RescueDid
<1>8. IndexDid'
  <2>1. ASSUME NEW s \in Session, ghost[s] = readGhosts[s]
        PROVE  /\ ghost'[s] = fts'[s] /\ ghost'[s].raw = {}
               /\ ghost'[s].from # "history" => ghost'[s].ver = 0
    <3>1. ghost'[s] = WrittenBack(s) /\ fts'[s] = Masked(ghost[s])
      BY <1>1, <2>1
    <3>2. ghost[s] \in Ghosts /\ (ghost[s].from # "history" => ghost[s].ver = 0)
      BY <1>2 DEF DerivedFrom
    <3>3. /\ Masked(ghost[s]) \in Ghosts /\ Masked(ghost[s]).from = ghost[s].from
          /\ Masked(ghost[s]).ver = ghost[s].ver /\ Masked(ghost[s]).raw = {}
      BY <3>2 DEF Masked, Ghosts
    <3>4. WrittenBack(s) = Masked(ghost[s])
      <4>1. CASE ghost[s] # NoGhost /\ Masked(readGhosts[s]) # readGhosts[s]
        <5>1. WrittenBack(s) = [ghost[s] EXCEPT !.ver = ghost[s].ver, !.raw = {}]
          BY <2>1, <4>1 DEF WrittenBack
        <5>2. /\ WrittenBack(s) \in Ghosts /\ WrittenBack(s).from = ghost[s].from
              /\ WrittenBack(s).ver = ghost[s].ver /\ WrittenBack(s).raw = {}
          BY <3>2, <5>1 DEF Ghosts
        <5> QED
          BY <3>3, <5>2 DEF Ghosts
      <4>2. CASE ghost[s] = NoGhost
        <5>1. NoGhost.raw = {}
          BY DEF NoGhost
        <5> QED
          BY <3>2, <3>3, <4>2, <5>1 DEF WrittenBack, Ghosts
      <4>3. CASE ghost[s] # NoGhost /\ Masked(readGhosts[s]) = readGhosts[s]
        BY <2>1, <4>3 DEF WrittenBack
      <4> QED
        BY <4>1, <4>2, <4>3
    <3> QED
      BY <3>1, <3>2, <3>3, <3>4
  <2>2. \A s \in Session : Rank(ghost'[s]) <= Rank(ghost'[s])
    <3>1. \A s \in Session : ghost'[s].ver \in Nat
      BY <1>2, <1>3 DEF Ghosts
    <3> QED
      BY <3>1 DEF Rank
  <2> QED
    BY <1>1, <2>1, <2>2 DEF IndexDid
<1> QED
  BY <1>4, <1>5, <1>6, <1>7, <1>8 DEF GhostParts

(* A forget takes one ghost away, and shows the full-text side the rows as *)
(* they are, masked or not.                                                *)
LEMMA ForgettingKeepsParts ==
  ASSUME GhostInv, NEW q \in Session, ForgetSession(q)
  PROVE  GhostParts'
<1>t. GhostTypeOK
  BY DEF GhostInv
<1>i. GhostParts
  BY DEF GhostInv, GhostParts
<1>1. /\ UNCHANGED <<history, known, rescueFp, indexFp, torn, overwritten, readGhosts>>
      /\ UNCHANGED <<rescuePc, scanned, statHistory, readHistory>>
      /\ forgotten' = forgotten \cup {q} /\ fts' = ghost'
  BY DEF ForgetSession, ghostFiles, rescueVars, passVars, markVars
<1>2. /\ \A s \in Session \ {q} : ghost'[s] = ghost[s]
      /\ ghost'[q] \in {ghost[q], NoGhost} /\ (q \in known => ghost'[q] = NoGhost)
  BY <1>t DEF ForgetSession, GhostTypeOK
<1>3. NoGhost.from = "nowhere"
  BY DEF NoGhost
<1>4. HistoryGhostsRespectForget'
  BY <1>i, <1>t, <1>1, <1>2, <1>3 DEF GhostParts, HistoryGhostsRespectForget, Erased, GhostTypeOK
<1>5. ReadAfterStat' /\ FingerprintIsOlder'
  BY <1>i, <1>1 DEF GhostParts, ReadAfterStat, FingerprintIsOlder
<1>6. GhostsAreDerived'
  <2>1. \A s \in Session : DerivedFrom(NoGhost, s)
    BY <1>t DEF DerivedFrom, NoGhost, GhostTypeOK
  <2>2. \A s \in Session : /\ DerivedFrom(ghost'[s], s) /\ DerivedFrom(readGhosts[s], s)
                           /\ ghost'[s].from = "index" => readGhosts[s].from # "history"
    BY <1>i, <1>2, <1>3, <2>1 DEF GhostParts, GhostsAreDerived
  <2> QED
    BY <1>1, <2>2 DEF GhostsAreDerived, DerivedFrom
<1>7. RescueDid'
  BY <1>i, <1>1, <1>2 DEF GhostParts, RescueDid, Rescued
<1>8. IndexDid'
  <2>1. ASSUME NEW g \in indexFp, NEW s \in Session \ (torn \cup forgotten'), ~Above(ghost[s], g[s])
        PROVE  ghost[s] = g[s]
    <3>1. /\ g[s].raw = {} /\ (g[s].from # "history" => g[s].ver = 0)
          /\ Rank(g[s]) <= Rank(ghost[s])
      BY <1>i, <1>1 DEF GhostParts, IndexDid
    <3>2. ghost[s] \in Ghosts /\ g[s] \in Ghosts
      BY <1>t DEF GhostTypeOK
    <3>3. ghost[s].from # "history" => ghost[s].ver = 0
      BY <1>i DEF GhostParts, GhostsAreDerived, DerivedFrom
    <3>4. Rank(g[s]) \in Nat /\ Rank(ghost[s]) \in Nat
      BY <3>2 DEF Rank, Ghosts
    <3>5. Rank(g[s]) = Rank(ghost[s]) /\ ghost[s].raw = {}
      BY <2>1, <3>1, <3>4 DEF Above
    <3>6. ghost[s].from = g[s].from /\ ghost[s].ver = g[s].ver
      BY <3>1, <3>2, <3>3, <3>5 DEF Rank, Ghosts
    <3> QED
      BY <3>1, <3>2, <3>5, <3>6 DEF Ghosts
  <2> QED
    BY <1>i, <1>1, <1>2, <2>1 DEF GhostParts, IndexDid
<1> QED
  BY <1>4, <1>5, <1>6, <1>7, <1>8 DEF GhostParts

(* Every step keeps the invariant.                                         *)
LEMMA GhostNextInv == GhostInv /\ [GhostNext]_ghostVars => GhostInv'
<1> SUFFICES ASSUME GhostInv, [GhostNext]_ghostVars PROVE GhostParts'
  BY GhostTyped DEF GhostInv, GhostParts
<1>1. CASE RescueStep
  BY <1>1, LooksKeepParts, DerivingKeepsParts, StoringKeepsParts DEF RescueStep
<1>2. CASE PassStep
  BY <1>2, PassKeepsParts, WritingKeepsParts DEF PassStep
<1>3. ASSUME NEW s \in Session,
             TypePrompt(s) \/ CleanTranscript(s) \/ CaptureLive(s) \/ ForgetSession(s)
      PROVE  GhostParts'
  BY <1>3, OthersKeepParts, ForgettingKeepsParts
<1>4. CASE UNCHANGED ghostVars
  BY <1>4 DEF GhostInv, GhostParts, HistoryGhostsRespectForget, Erased, ReadAfterStat,
              FingerprintIsOlder, GhostsAreDerived, DerivedFrom, RescueDid, Rescued, IndexDid, Above,
              Rank, ghostVars, ghostFiles, tableVars, rescueVars, passVars, markVars
<1> QED
  BY <1>1, <1>2, <1>3, <1>4 DEF GhostNext

(* A fingerprint that matches has nothing left to do.                      *)
LEMMA GhostInvFast == GhostInv => FastPathIsSound
<1> SUFFICES ASSUME GhostInv PROVE RescueMaySkip /\ MatchMeansIndexed
  BY DEF FastPathIsSound
<1>1. RescueMaySkip
  <2> SUFFICES ASSUME NEW s \in Session \ forgotten, NEW d \in SUBSET Session,
                      rescueFp = {<<history, d>>}, s \notin d, history[s] > 0
               PROVE  Rescued(s)
    BY DEF RescueMaySkip, Rescued
  <2>1. <<history, d>> \in rescueFp
    OBVIOUS
  <2> QED
    BY <2>1 DEF GhostInv, RescueDid
<1>2. MatchMeansIndexed
  <2> SUFFICES ASSUME indexFp = {ghost}, NEW s \in Session \ (torn \cup forgotten)
               PROVE  fts[s] = ghost[s] /\ ghost[s].raw = {}
    BY DEF MatchMeansIndexed
  <2>1. ghost[s].raw = {} /\ (fts[s] = ghost[s] \/ Above(ghost[s], ghost[s]))
    BY DEF GhostInv, IndexDid
  <2>2. Rank(ghost[s]) \in Nat
    BY DEF GhostInv, GhostTypeOK, Rank, Ghosts
  <2> QED
    BY <2>1, <2>2 DEF Above
<1> QED
  BY <1>1, <1>2

(* rescue.ts never derives a ghost of a forgotten source from              *)
(* history.jsonl, wherever in a running rescue it is forgotten.            *)
THEOREM GhostsRespectForget == GhostSpec => []HistoryGhostsRespectForget
<1>1. GhostInv => HistoryGhostsRespectForget
  BY DEF GhostInv
<1> QED
  BY <1>1, GhostInitInv, GhostNextInv, PTL DEF GhostSpec

(* What a matching fingerprint lets a rescue or an index pass skip is      *)
(* done, however rescues, passes, forgets and new prompts interleave.      *)
THEOREM FastPathsAreSound == GhostSpec => []FastPathIsSound
BY GhostInvFast, GhostInitInv, GhostNextInv, PTL DEF GhostSpec

-----------------------------------------------------------------------------
(* MemoryRecall.                                                           *)

SameEvidenceYet == snapshot.epochs.evidence = epochs.evidence
SameNotesYet    == snapshot.epochs.notes = epochs.notes
SameVectorYet   == snapshot.epochs.vector = epochs.vector

(* What was eligible for who ignores these.                                *)
ActiveBut(ignored) == {<<s, latest[s]>> : s \in {x \in Recalled \ ignored : latest[x] > 0}}
NotesBut(ignored)  == {n \in notes : RestsOn[n[2]] \notin ignored}

(* While an epoch is the one of the snapshot, what the snapshot took under *)
(* it is still what there is; and so are the pages of the dense lane.      *)
SnapshotHolds ==
  /\ snapshot.epochs.evidence <= epochs.evidence /\ snapshot.epochs.notes <= epochs.notes
  /\ snapshot.epochs.vector <= epochs.vector
  /\ SameEvidenceYet => snapshot.lexical = ActiveBut(snapshot.hidden)
  /\ SameNotesYet => snapshot.notes = NotesBut(snapshot.hidden)
  /\ SameVectorYet => hits \subseteq vectors
PagesHold ==
  edited = {} =>
    /\ hidden = snapshot.hidden
    /\ SameEvidenceYet /\ SameVectorYet =>
         \/ hits = {v \in Eligible \cap vectors : v[1] \notin pages}
         \/ pages = {} /\ hits = {}

RecallInv == RecallTypeOK /\ (recallPc = "dense" => SnapshotHolds /\ PagesHold)

(* No recall runs at the start.                                            *)
LEMMA RecallInitInv == RecallInit => RecallInv
<1> SUFFICES ASSUME RecallInit PROVE RecallInv
  OBVIOUS
<1>1. NoEpochs \in Epochs /\ NoSnapshot \in Snapshots
  BY DEF NoEpochs, Epochs, NoSnapshot, Snapshots
<1>2. RecallTypeOK
  BY <1>1 DEF RecallInit, RecallTypeOK
<1> QED
  BY <1>2 DEF RecallInit, RecallInv

(* The evidence in scope is of existing revisions.                         *)
LEMMA EligibleTyped ==
  ASSUME RecallTypeOK
  PROVE  /\ Eligible \in SUBSET Revision /\ NotesInScope \in SUBSET Note
         /\ Eligible = ActiveBut(hidden) /\ NotesInScope = NotesBut(hidden)
BY DEF Eligible, NotesInScope, ActiveBut, NotesBut, Revision, RecallTypeOK

(* What the writers change.                                                *)
LEMMA WritersTyped ==
  ASSUME RecallTypeOK, WriterStep
  PROVE  /\ latest' \in [Recalled -> Nat] /\ erased' \in SUBSET Recalled
         /\ hidden' \in SUBSET Recalled /\ vectors' \in SUBSET Revision
         /\ notes' \in SUBSET Note /\ receipts' \in [Key -> SUBSET Input] /\ epochs' \in Epochs
         /\ edited' \in SUBSET {TRUE}
         /\ UNCHANGED <<recallPc, attempt, snapshot, pages, hits, answer>>
<1>t. /\ latest \in [Recalled -> Nat] /\ erased \in SUBSET Recalled
      /\ hidden \in SUBSET Recalled /\ vectors \in SUBSET Revision
      /\ notes \in SUBSET Note /\ receipts \in [Key -> SUBSET Input] /\ epochs \in Epochs
  BY DEF RecallTypeOK
<1>e. edited \in SUBSET {TRUE}
  BY DEF RecallTypeOK
<1>c. epochs.evidence \in Nat /\ epochs.notes \in Nat /\ epochs.vector \in Nat
  BY <1>t DEF Epochs
<1>1. ASSUME NEW s \in Recalled, PublishRevision(s) PROVE UNCHANGED edited /\ latest' \in [Recalled -> Nat]
                                                          /\ epochs' \in Epochs
  BY <1>1, <1>t DEF PublishRevision, Epochs, callVars
<1>2. ASSUME NEW s \in Recalled, ForgetSource(s)
      PROVE  /\ UNCHANGED edited /\ latest' \in [Recalled -> Nat] /\ erased' \in SUBSET Recalled
             /\ vectors' \in SUBSET Revision /\ notes' \in SUBSET Note /\ epochs' \in Epochs
  <2>1. epochs' \in Epochs
    BY <1>2, <1>c DEF ForgetSource, Epochs
  <2> QED
    BY <1>2, <1>t, <2>1 DEF ForgetSource, callVars
<1>3. ASSUME NEW s \in Recalled, EditIgnoreList(s)
      PROVE  hidden' \in SUBSET Recalled /\ edited' \in SUBSET {TRUE}
  <2>1. hidden' \in SUBSET Recalled
    BY <1>3, <1>t DEF EditIgnoreList
  <2>2. edited' = IF recallPc = "dense" THEN {TRUE} ELSE {}
    BY <1>3 DEF EditIgnoreList
  <2>3. edited' \in SUBSET {TRUE}
    BY <2>2, Zenon
  <2> QED
    BY <2>1, <2>3
<1>4. ASSUME NEW s \in Recalled, NEW r \in 1 .. latest[s], CommitVector(s, r)
      PROVE  UNCHANGED edited /\ vectors' \in SUBSET Revision /\ epochs' \in Epochs
  <2>1. <<s, r>> \in Revision
    BY <1>t DEF Revision
  <2> QED
    BY <1>4, <1>t, <2>1 DEF CommitVector, Epochs, callVars
<1>5. ASSUME NEW k \in Key, NEW i \in Input, WriteNote(k, i)
      PROVE  /\ UNCHANGED edited /\ notes' \in SUBSET Note
             /\ receipts' \in [Key -> SUBSET Input] /\ epochs' \in Epochs
  <2>1. <<k, i>> \in Note
    BY DEF Note
  <2>2. \/ UNCHANGED <<notes, receipts, epochs>>
        \/ /\ notes' = notes \cup {<<k, i>>} /\ receipts' = [receipts EXCEPT ![k] = {i}]
           /\ epochs' = [epochs EXCEPT !.notes = @ + 1]
    BY <1>5 DEF WriteNote
  <2>3. epochs' \in Epochs
    BY <1>t, <2>2 DEF Epochs
  <2>4. notes' \in SUBSET Note /\ receipts' \in [Key -> SUBSET Input]
    BY <1>t, <2>1, <2>2
  <2> QED
    BY <1>5, <2>3, <2>4 DEF WriteNote, callVars
<1>6. UNCHANGED <<recallPc, attempt, snapshot, pages, hits, answer>>
  BY DEF WriterStep, PublishRevision, ForgetSource, EditIgnoreList, CommitVector, WriteNote, callVars
<1>7. CASE \E s \in Recalled : PublishRevision(s)
  BY <1>1, <1>6, <1>7, <1>t, <1>e DEF PublishRevision
<1>8. CASE \E s \in Recalled : ForgetSource(s)
  BY <1>2, <1>6, <1>8, <1>t, <1>e DEF ForgetSource
<1>9. CASE \E s \in Recalled : EditIgnoreList(s)
  <2>1. UNCHANGED <<latest, erased, vectors, notes, receipts, epochs>>
    BY <1>9 DEF EditIgnoreList
  <2> QED
    BY <1>3, <1>6, <1>9, <1>t, <2>1
<1>10. CASE \E s \in Recalled : \E r \in 1 .. latest[s] : CommitVector(s, r)
  BY <1>4, <1>6, <1>10, <1>t, <1>e DEF CommitVector
<1>11. CASE \E k \in Key, i \in Input : WriteNote(k, i)
  BY <1>5, <1>6, <1>11, <1>t, <1>e DEF WriteNote
<1> QED
  BY <1>7, <1>8, <1>9, <1>10, <1>11 DEF WriterStep

(* A writer counts up the epoch of what it changes.                        *)
LEMMA WritersCount ==
  ASSUME RecallTypeOK, WriterStep
  PROVE  /\ epochs.evidence \in Nat /\ epochs.notes \in Nat /\ epochs.vector \in Nat
         /\ \/ epochs'.evidence = epochs.evidence + 1
            \/ epochs'.evidence = epochs.evidence /\ latest' = latest
         /\ \/ epochs'.notes = epochs.notes + 1
            \/ epochs'.notes = epochs.notes /\ notes' = notes
         /\ \/ epochs'.vector = epochs.vector + 1
            \/ epochs'.vector = epochs.vector /\ vectors' = vectors
         /\ hidden' = hidden \/ (recallPc = "dense" => edited' # {})
         /\ edited' = {} /\ recallPc = "dense" => edited = {}
<1>c. /\ epochs.evidence \in Nat /\ epochs.notes \in Nat /\ epochs.vector \in Nat
      /\ epochs \in Epochs
  BY DEF RecallTypeOK, Epochs
<1>1. ASSUME NEW s \in Recalled, EditIgnoreList(s)
      PROVE  /\ UNCHANGED <<epochs, latest, notes, vectors>>
             /\ recallPc = "dense" => edited' # {}
  <2>1. UNCHANGED <<epochs, latest, notes, vectors>>
    BY <1>1 DEF EditIgnoreList
  <2>2. edited' = IF recallPc = "dense" THEN {TRUE} ELSE {}
    BY <1>1 DEF EditIgnoreList
  <2>3. recallPc = "dense" => edited' # {}
    BY <2>2, Zenon
  <2> QED
    BY <2>1, <2>3
<1>2. ASSUME \/ \E s \in Recalled : PublishRevision(s) \/ ForgetSource(s)
             \/ \E s \in Recalled : \E r \in 1 .. latest[s] : CommitVector(s, r)
             \/ \E k \in Key, i \in Input : WriteNote(k, i)
      PROVE  UNCHANGED <<hidden, edited>>
  BY <1>2 DEF PublishRevision, ForgetSource, CommitVector, WriteNote, callVars
<1>3. CASE \E s \in Recalled : EditIgnoreList(s)
  BY <1>1, <1>3, <1>c
<1>4. CASE \E s \in Recalled : PublishRevision(s)
  <2>1. /\ UNCHANGED <<notes, vectors>>
        /\ epochs' = [epochs EXCEPT !.evidence = @ + 1]
    BY <1>4 DEF PublishRevision
  <2>2. /\ epochs'.evidence = epochs.evidence + 1 /\ epochs'.notes = epochs.notes
        /\ epochs'.vector = epochs.vector
    BY <1>c, <2>1 DEF Epochs
  <2> QED
    BY <1>2, <1>4, <1>c, <2>1, <2>2
<1>5. CASE \E s \in Recalled : ForgetSource(s)
  <2>1. /\ epochs'.evidence = epochs.evidence + 1 /\ epochs'.notes = epochs.notes + 1
        /\ epochs'.vector = epochs.vector + 1
    BY <1>5 DEF ForgetSource
  <2> QED
    BY <1>2, <1>5, <1>c, <2>1
<1>6. CASE \E s \in Recalled : \E r \in 1 .. latest[s] : CommitVector(s, r)
  <2>1. /\ UNCHANGED <<notes, latest>>
        /\ epochs' = [epochs EXCEPT !.vector = @ + 1]
    BY <1>6 DEF CommitVector
  <2>2. /\ epochs'.vector = epochs.vector + 1 /\ epochs'.notes = epochs.notes
        /\ epochs'.evidence = epochs.evidence
    BY <1>c, <2>1 DEF Epochs
  <2> QED
    BY <1>2, <1>6, <1>c, <2>1, <2>2
<1>7. CASE \E k \in Key, i \in Input : WriteNote(k, i)
  <2>1. /\ UNCHANGED <<latest, vectors>>
        /\ UNCHANGED <<notes, epochs>> \/ epochs' = [epochs EXCEPT !.notes = @ + 1]
    BY <1>7 DEF WriteNote
  <2>2. /\ epochs'.vector = epochs.vector /\ epochs'.evidence = epochs.evidence
        /\ UNCHANGED <<notes, epochs>> \/ epochs'.notes = epochs.notes + 1
    BY <1>c, <2>1 DEF Epochs
  <2> QED
    BY <1>2, <1>7, <1>c, <2>1, <2>2
<1> QED
  BY <1>3, <1>4, <1>5, <1>6, <1>7 DEF WriterStep

(* So a writer leaves what the snapshot took, or makes it show.            *)
LEMMA WritersShow ==
  ASSUME RecallInv, WriterStep
  PROVE  RecallInv'
<1>t. RecallTypeOK
  BY DEF RecallInv
<1>1. UNCHANGED <<recallPc, attempt, snapshot, pages, hits, answer>>
  BY <1>t, WritersTyped
<1>2. RecallTypeOK'
  BY <1>t, WritersTyped DEF RecallTypeOK
<1>3. ASSUME recallPc = "dense" PROVE SnapshotHolds' /\ PagesHold'
  <2>1. SnapshotHolds /\ PagesHold
    BY <1>3 DEF RecallInv
  <2>2. /\ snapshot.epochs.evidence \in Nat /\ snapshot.epochs.notes \in Nat
        /\ snapshot.epochs.vector \in Nat
    BY <1>t DEF RecallTypeOK, Snapshots, Epochs
  <2>3. /\ SameEvidenceYet' => SameEvidenceYet /\ latest' = latest
        /\ SameNotesYet' => SameNotesYet /\ notes' = notes
        /\ SameVectorYet' => SameVectorYet /\ vectors' = vectors
    BY <1>1, <1>t, <2>1, <2>2, WritersCount
       DEF SnapshotHolds, SameEvidenceYet, SameNotesYet, SameVectorYet
  <2>4. /\ snapshot.epochs.evidence <= epochs'.evidence /\ snapshot.epochs.notes <= epochs'.notes
        /\ snapshot.epochs.vector <= epochs'.vector
    BY <1>t, <2>1, <2>2, WritersCount DEF SnapshotHolds
  <2>5. SnapshotHolds'
    BY <1>1, <2>1, <2>3, <2>4 DEF SnapshotHolds, ActiveBut, NotesBut
  <2>6. edited' = {} => edited = {} /\ hidden' = hidden
    BY <1>3, <1>t, WritersCount
  <2>7. PagesHold'
    BY <1>1, <2>1, <2>3, <2>6 DEF PagesHold, Eligible
  <2> QED
    BY <2>5, <2>7
<1> QED
  BY <1>1, <1>2, <1>3 DEF RecallInv

(* The steps of the recall itself.                                         *)
LEMMA RecallSteps ==
  ASSUME RecallInv, RecallStep
  PROVE  RecallInv'
<1>t. RecallTypeOK
  BY DEF RecallInv
<1>m. UNCHANGED memoryVars
  BY DEF RecallStep, RecallStarts, TakeSnapshot, DenseFails, Answer, TryAgain, DensePage
<1>1. ASSUME UNCHANGED memoryVars, recallPc' \in {"idle", "snapshot", "dense", "answered", "changed"},
             attempt' \in {0, 1}, snapshot' \in Snapshots, pages' \in SUBSET Recalled,
             hits' \in SUBSET Revision, answer' \in SUBSET Answers, edited' \in SUBSET {TRUE}
      PROVE  RecallTypeOK'
  BY <1>1, <1>t DEF RecallTypeOK, memoryVars
<1>2. /\ recallPc \in {"idle", "snapshot", "dense", "answered", "changed"}
      /\ attempt \in {0, 1} /\ snapshot \in Snapshots /\ pages \in SUBSET Recalled
      /\ hits \in SUBSET Revision /\ answer \in SUBSET Answers
      /\ Eligible \in SUBSET Revision /\ NotesInScope \in SUBSET Note
      /\ NoSnapshot \in Snapshots
  BY <1>t, EligibleTyped DEF RecallTypeOK, NoSnapshot, Snapshots, NoEpochs, Epochs
<1>e. edited \in SUBSET {TRUE} /\ {} \in SUBSET {TRUE}
  BY <1>t DEF RecallTypeOK
<1>3. CASE RecallStarts
  <2>1. /\ UNCHANGED <<memoryVars, attempt, snapshot, edited, pages, hits, answer>>
        /\ recallPc' = "snapshot"
    BY <1>3 DEF RecallStarts
  <2> QED
    BY <1>1, <1>2, <1>e, <2>1 DEF RecallInv
<1>4. CASE TakeSnapshot
  <2>1. /\ UNCHANGED <<memoryVars, attempt, answer>> /\ pages' = Recalled
        /\ recallPc' = "dense" /\ hits' = {} /\ edited' = {}
        /\ snapshot' = [lexical |-> Eligible, notes |-> NotesInScope, hidden |-> hidden,
                        epochs |-> epochs]
    BY <1>4 DEF TakeSnapshot
  <2>2. snapshot' \in Snapshots
    BY <1>2, <1>t, <2>1 DEF Snapshots, RecallTypeOK
  <2>3. RecallTypeOK'
    BY <1>1, <1>2, <1>e, <2>1, <2>2
  <2>4. SnapshotHolds'
    <3>1. /\ epochs.evidence \in Nat /\ epochs.notes \in Nat /\ epochs.vector \in Nat
      BY <1>t DEF RecallTypeOK, Epochs
    <3>2. /\ snapshot'.epochs = epochs' /\ epochs' = epochs /\ snapshot'.hidden = hidden
          /\ snapshot'.lexical = ActiveBut(hidden) /\ snapshot'.notes = NotesBut(hidden)
          /\ hits' \subseteq vectors'
      BY <1>t, <2>1, EligibleTyped DEF memoryVars
    <3>3. /\ snapshot'.epochs.evidence <= epochs'.evidence
          /\ snapshot'.epochs.notes <= epochs'.notes
          /\ snapshot'.epochs.vector <= epochs'.vector
      BY <3>1, <3>2
    <3>4. /\ snapshot'.lexical = ActiveBut(snapshot.hidden)'
          /\ snapshot'.notes = NotesBut(snapshot.hidden)'
      BY <1>m, <3>2 DEF ActiveBut, NotesBut, memoryVars
    <3> QED
      BY <3>2, <3>3, <3>4 DEF SnapshotHolds
  <2>5. \A v \in Eligible : v[1] \in Recalled
    BY <1>2 DEF Revision
  <2>6. PagesHold'
    BY <1>m, <2>1, <2>5 DEF PagesHold, Eligible, memoryVars
  <2> QED
    BY <2>3, <2>4, <2>6 DEF RecallInv
<1>5. ASSUME NEW s \in Recalled, DensePage(s) PROVE RecallInv'
  <2>1. /\ UNCHANGED <<memoryVars, recallPc, attempt, snapshot, edited, answer>>
        /\ recallPc = "dense" /\ s \in pages /\ pages' = pages \ {s}
        /\ hits' = hits \cup (Eligible \cap vectors \cap ({s} \X Nat))
    BY <1>5 DEF DensePage
  <2>2. RecallTypeOK'
    BY <1>1, <1>2, <1>e, <2>1
  <2>3. SnapshotHolds /\ PagesHold
    BY <2>1 DEF RecallInv
  <2>4. SnapshotHolds'
    BY <2>1, <2>3 DEF SnapshotHolds, ActiveBut, NotesBut, memoryVars, SameEvidenceYet, SameNotesYet,
                      SameVectorYet
  <2>5. ASSUME hits = {v \in Eligible \cap vectors : v[1] \notin pages}
        PROVE  hits' = {v \in Eligible \cap vectors : v[1] \notin pages'}
    <3>1. \A v \in Eligible : v \in {s} \X Nat <=> v[1] = s
      BY <1>2 DEF Revision
    <3> QED
      BY <2>1, <2>5, <3>1
  <2>6. PagesHold'
    BY <2>1, <2>3, <2>5 DEF PagesHold, Eligible, memoryVars, SameEvidenceYet, SameVectorYet
  <2> QED
    BY <2>2, <2>4, <2>6 DEF RecallInv
<1>6. CASE DenseFails
  <2>1. /\ UNCHANGED <<memoryVars, recallPc, attempt, snapshot, edited, answer>>
        /\ recallPc = "dense" /\ pages' = {} /\ hits' = {}
    BY <1>6 DEF DenseFails
  <2>2. RecallTypeOK'
    BY <1>1, <1>2, <1>e, <2>1
  <2>3. SnapshotHolds' /\ PagesHold'
    BY <2>1 DEF RecallInv, SnapshotHolds, PagesHold, ActiveBut, NotesBut, Eligible, memoryVars,
                SameEvidenceYet, SameNotesYet, SameVectorYet
  <2> QED
    BY <2>2, <2>3 DEF RecallInv
<1>7. CASE Answer
  <2>1. /\ UNCHANGED <<memoryVars, attempt, pages>> /\ recallPc' = "answered"
        /\ answer' = {[lexical |-> snapshot.lexical, notes |-> snapshot.notes, dense |-> Verified]}
        /\ snapshot' = NoSnapshot /\ hits' = {} /\ edited' = {}
    BY <1>7 DEF Answer
  <2>2. Verified \in SUBSET Revision
    BY <1>2 DEF Verified
  <2>3. answer' \in SUBSET Answers
    BY <1>2, <2>1, <2>2 DEF Answers, Snapshots
  <2>4. RecallTypeOK'
    BY <1>1, <1>2, <1>e, <2>1, <2>3
  <2> QED
    BY <2>1, <2>4 DEF RecallInv
<1>8. CASE TryAgain
  <2>1. /\ UNCHANGED <<memoryVars, edited, pages, answer>> /\ recallPc' \in {"snapshot", "changed"}
        /\ attempt' = 1 /\ snapshot' = NoSnapshot /\ hits' = {}
    BY <1>8 DEF TryAgain
  <2>2. RecallTypeOK'
    BY <1>1, <1>2, <1>e, <2>1
  <2> QED
    BY <2>1, <2>2 DEF RecallInv
<1> QED
  BY <1>3, <1>4, <1>5, <1>6, <1>7, <1>8 DEF RecallStep

(* Every step keeps the invariant.                                         *)
LEMMA RecallNextInv == RecallInv /\ [RecallNext]_recallVars => RecallInv'
<1> SUFFICES ASSUME RecallInv, [RecallNext]_recallVars PROVE RecallInv'
  OBVIOUS
<1>1. CASE UNCHANGED recallVars
  <2>1. UNCHANGED <<memoryVars, callVars>>
    BY <1>1 DEF recallVars
  <2>2. RecallTypeOK'
    BY <2>1 DEF RecallInv, RecallTypeOK, memoryVars, callVars
  <2>3. recallPc' = "dense" => SnapshotHolds' /\ PagesHold'
    BY <2>1 DEF RecallInv, SnapshotHolds, PagesHold, ActiveBut, NotesBut, Eligible, memoryVars, callVars,
                SameEvidenceYet, SameNotesYet, SameVectorYet
  <2> QED
    BY <2>2, <2>3 DEF RecallInv
<1> QED
  BY <1>1, WritersShow, RecallSteps DEF RecallNext

(* What recall() of memory/service.ts delivers is true of the store it is  *)
(* delivered in, whatever any number of writers did while it awaited.      *)
THEOREM AnswersAreOneSnapshot == RecallSpec => AnswerIsOneSnapshot
<1>1. RecallInv /\ [RecallNext]_recallVars =>
        [\A a \in answer' \ answer :
           /\ a.lexical = Eligible /\ a.notes = NotesInScope
           /\ a.dense \subseteq Eligible \cap vectors
           /\ edited = {} => a.dense \in {{}, Eligible \cap vectors}]_recallVars
  <2> SUFFICES ASSUME RecallInv, RecallNext, NEW a \in answer' \ answer
               PROVE  /\ a.lexical = Eligible /\ a.notes = NotesInScope
                      /\ a.dense \subseteq Eligible \cap vectors
                      /\ edited = {} => a.dense \in {{}, Eligible \cap vectors}
    BY DEF recallVars, memoryVars, callVars
  <2>1. Answer
    <3>1. ~WriterStep
      BY WritersTyped DEF RecallInv
    <3> QED
      BY <3>1 DEF RecallNext, RecallStep, RecallStarts, TakeSnapshot, DenseFails, TryAgain, DensePage
  <2>2. /\ recallPc = "dense" /\ pages = {} /\ SameEvidenceYet /\ SameNotesYet
        /\ snapshot.hidden = hidden
        /\ a = [lexical |-> snapshot.lexical, notes |-> snapshot.notes, dense |-> Verified]
    BY <2>1 DEF Answer, Unchanged, SameEvidence, SameEvidenceYet, SameNotesYet
  <2>3. SnapshotHolds /\ PagesHold
    BY <2>2 DEF RecallInv
  <2>4. Eligible = ActiveBut(hidden) /\ NotesInScope = NotesBut(hidden)
    BY EligibleTyped DEF RecallInv
  <2>5. a.lexical = Eligible /\ a.notes = NotesInScope /\ a.dense = Verified
    BY <2>2, <2>3, <2>4 DEF SnapshotHolds
  <2>6. Verified \subseteq Eligible \cap vectors
    BY <2>3 DEF Verified, SnapshotHolds, SameVectorYet
  <2>7. ASSUME edited = {} PROVE Verified \in {{}, Eligible \cap vectors}
    BY <2>2, <2>3, <2>7 DEF Verified, PagesHold, SameVectorYet
  <2> QED
    BY <2>5, <2>6, <2>7
<1> QED
  BY <1>1, RecallInitInv, RecallNextInv, PTL DEF RecallSpec, AnswerIsOneSnapshot

(* writeMemoryNotes() writes once under a key, whatever is forgotten       *)
(* between a write and its repetition.                                     *)
THEOREM RetriesAreOneWrite == RecallSpec => RetriedWriteIsOneWrite
<1>1. RecallInv /\ [RecallNext]_recallVars =>
        [\A k \in Key : (receipts[k] # {}) =>
           /\ receipts'[k] = receipts[k]
           /\ {n \in notes' : n[1] = k} \subseteq notes]_recallVars
  <2> SUFFICES ASSUME RecallTypeOK, RecallNext, NEW k \in Key, receipts[k] # {}
               PROVE  receipts'[k] = receipts[k] /\ {n \in notes' : n[1] = k} \subseteq notes
    BY DEF recallVars, memoryVars, RecallInv
  <2>1. CASE RecallStep
    BY <2>1 DEF RecallStep, RecallStarts, TakeSnapshot, DenseFails, Answer, TryAgain, DensePage, memoryVars
  <2>2. ASSUME NEW j \in Key, NEW i \in Input, WriteNote(j, i)
        PROVE  receipts'[k] = receipts[k] /\ {n \in notes' : n[1] = k} \subseteq notes
    BY <2>2 DEF WriteNote, Answered, RecallTypeOK
  <2>3. CASE \E s \in Recalled : PublishRevision(s) \/ ForgetSource(s) \/ EditIgnoreList(s)
    BY <2>3 DEF PublishRevision, ForgetSource, EditIgnoreList
  <2>4. CASE \E s \in Recalled : \E r \in 1 .. latest[s] : CommitVector(s, r)
    BY <2>4 DEF CommitVector
  <2> QED
    BY <2>1, <2>2, <2>3, <2>4 DEF RecallNext, WriterStep
<1> QED
  BY <1>1, RecallInitInv, RecallNextInv, PTL DEF RecallSpec, RetriedWriteIsOneWrite

-----------------------------------------------------------------------------
(* ReadPages.                                                              *)

(* The first n units of r were delivered once, and no others.              *)
Got(r, n) == \A i \in 0 .. (Length - 1) : delivered[<<r, i>>] = IF i < n THEN 1 ELSE 0

(* The scan has still to come to r.                                        *)
Ahead(r) == \E i \in offset : i <= r[2]

(* A span is not named, or reported unavailable, or at its position in the *)
(* cursor, or ahead of the scan and untouched, or delivered in full.       *)
SpansArePlaced ==
  /\ \A u \in Unit : delivered[u] \in {0, 1}
  /\ \A r \in AllRefs \ named : Got(r, 0)
  /\ DOMAIN start \subseteq named \ absent
  /\ \A r \in DOMAIN start : Got(r, start[r]) /\ ~Ahead(r)
  /\ \A r \in named : Ahead(r) => Got(r, 0)
  /\ \A r \in named \ (absent \cup DOMAIN start) : ~Ahead(r) => Got(r, Length)

(* A read of references has no scan.  That of a session has one row to     *)
(* come, names nothing before its first page, and is, while the epoch is   *)
(* the one it is pinned to, of the revision that is active.                *)
CursorFits ==
  /\ readPc = "idle" => /\ historical = {} /\ pinned = {} /\ offset = {} /\ named = {}
  /\ readPc = "done" => DOMAIN start = {} /\ offset = {}
  /\ historical # {} => offset = {} /\ pinned = {} /\ named # {}
  /\ historical = {} => absent = {}
  /\ historical = {} /\ pinned = {} => offset \subseteq {0} /\ named = {}
  /\ \A i, j \in offset : i = j
  /\ \A e \in pinned : e <= epoch
  /\ \A e \in pinned : e = epoch => /\ revision # 0 /\ named = Rows(revision)
                                    /\ \A i \in offset : i < Spans[revision]

ReadInv == ReadTypeOK /\ SpansArePlaced /\ CursorFits

(* References are pairs of a revision and a row.                           *)
LEMMA Refs ==
  /\ \A r \in 1 .. Revisions : Rows(r) \subseteq AllRefs
  /\ \A x \in AllRefs : x[1] \in 1 .. Revisions /\ x[2] \in Nat /\ x = <<x[1], x[2]>>
  /\ \A r \in 1 .. Revisions : \A x : x \in Rows(r) <=>
       \E i \in 0 .. (Spans[r] - 1) : x = <<r, i>>
  /\ \A u \in Unit : u[1] \in AllRefs /\ u[2] \in 0 .. (Length - 1) /\ u = <<u[1], u[2]>>
  /\ \A x \in AllRefs, i \in 0 .. (Length - 1) : <<x, i>> \in Unit
  /\ \A r \in 1 .. Revisions : Spans[r] \in Nat \ {0}
  /\ Length \in Nat \ {0}
BY ReadAssumption DEF Rows, AllRefs, Unit

(* Nothing is named or delivered at the start.                             *)
LEMMA ReadInitInv == ReadInit => ReadInv
<1> SUFFICES ASSUME ReadInit PROVE ReadInv
  OBVIOUS
<1>1. ReadTypeOK
  BY ReadAssumption DEF ReadInit, ReadTypeOK, Nowhere
<1>2. SpansArePlaced
  <2>1. \A r \in AllRefs : Got(r, 0)
    <3>1. ASSUME NEW r \in AllRefs, NEW i \in 0 .. (Length - 1)
          PROVE  delivered[<<r, i>>] = 0 /\ ~(i < 0)
      <4>1. <<r, i>> \in Unit /\ Length \in Nat
        BY Refs
      <4> QED
        BY <4>1 DEF ReadInit
    <3> QED
      BY <3>1 DEF Got
  <2> QED
    BY <2>1 DEF ReadInit, SpansArePlaced, Nowhere
<1>3. CursorFits
  BY DEF ReadInit, CursorFits, Nowhere
<1> QED
  BY <1>1, <1>2, <1>3 DEF ReadInv

(* What happens between two calls moves the epoch, and with it the cursor  *)
(* of a session out of its snapshot.                                       *)
LEMMA ChangesKeepPages == ReadInv /\ StoreChanges => ReadInv'
<1> SUFFICES ASSUME ReadInv, StoreChanges PROVE ReadInv'
  OBVIOUS
<1>1. UNCHANGED <<readCursor, named, absent, delivered>> /\ epoch' = epoch + 1 /\ epoch \in Nat
  BY DEF StoreChanges, ReadInv, ReadTypeOK
<1>2. revision' \in 0 .. Revisions
  <2>1. revision \in 0 .. Revisions /\ Revisions \in Nat
    BY ReadAssumption DEF ReadInv, ReadTypeOK
  <2>2. \/ revision \in 1 .. (Revisions - 1) /\ revision' = revision + 1
        \/ revision' = 0 \/ revision' = revision
    BY DEF StoreChanges
  <2> QED
    BY <2>1, <2>2
<1>3. ReadTypeOK'
  <2>1. /\ UNCHANGED <<readPc, historical, pinned, start, offset, named, absent, delivered>>
        /\ epoch' \in Nat
    BY <1>1 DEF readCursor
  <2> QED
    BY <1>2, <2>1 DEF ReadInv, ReadTypeOK
<1>4. SpansArePlaced'
  BY <1>1 DEF ReadInv, SpansArePlaced, Got, Ahead, readCursor
<1>5. CursorFits'
  <2>1. \A e \in pinned : e <= epoch' /\ e # epoch'
    BY <1>1 DEF ReadInv, CursorFits, ReadTypeOK
  <2> QED
    BY <1>1, <2>1 DEF ReadInv, CursorFits, readCursor
<1> QED
  BY <1>3, <1>4, <1>5 DEF ReadInv

(* What a read is about is settled by its first call.                      *)
LEMMA AsksKeepPages ==
  ASSUME ReadInv,
         \/ AskSession
         \/ \E refs \in (SUBSET (IF revision = 0 THEN {} ELSE Rows(revision))) \ {{}} : AskRefs(refs)
  PROVE  ReadInv'
<1>t. ReadTypeOK /\ SpansArePlaced /\ CursorFits
  BY DEF ReadInv
<1>1. CASE AskSession
  <2>1. /\ readPc = "idle" /\ readPc' = "more" /\ offset' = {0}
        /\ UNCHANGED <<revision, epoch, historical, pinned, start, named, absent, delivered>>
    BY <1>1 DEF AskSession, readStore
  <2>2. historical = {} /\ pinned = {} /\ named = {}
    BY <1>t, <2>1 DEF CursorFits
  <2>3. ReadTypeOK'
    <3>1. offset' \in SUBSET Nat /\ readPc' \in {"idle", "more", "done", "refused"}
      BY <2>1
    <3> QED
      BY <1>t, <2>1, <3>1 DEF ReadTypeOK
  <2>4. SpansArePlaced'
    BY <1>t, <2>1, <2>2 DEF SpansArePlaced, Got
  <2>5. CursorFits'
    BY <1>t, <2>1, <2>2 DEF CursorFits
  <2> QED
    BY <2>3, <2>4, <2>5 DEF ReadInv
<1>2. ASSUME NEW refs \in (SUBSET (IF revision = 0 THEN {} ELSE Rows(revision))) \ {{}}, AskRefs(refs)
      PROVE  ReadInv'
  <2>1. /\ readPc = "idle" /\ readPc' = "more" /\ start' = [r \in refs |-> 0] /\ named' = refs
        /\ UNCHANGED <<revision, epoch, pinned, offset, absent, delivered>>
    BY <1>2 DEF AskRefs, readStore
  <2>2. historical' # {} /\ historical' \in SUBSET {TRUE}
    <3>1. historical' = {TRUE}
      BY <1>2 DEF AskRefs
    <3> QED
      BY <3>1, Zenon
  <2>3. historical = {} /\ pinned = {} /\ named = {} /\ offset = {} /\ absent = {}
    BY <1>t, <2>1 DEF CursorFits
  <2>4. refs # {} /\ refs \subseteq AllRefs
    <3>1. revision \in 0 .. Revisions /\ Revisions \in Nat
      BY <1>t, ReadAssumption DEF ReadTypeOK
    <3>2. refs # {} /\ refs \subseteq (IF revision = 0 THEN {} ELSE Rows(revision))
      OBVIOUS
    <3>3. revision # 0
      BY <3>2
    <3>4. revision \in 1 .. Revisions
      BY <3>1, <3>3
    <3>5. Rows(revision) \subseteq AllRefs
      BY <3>4, Refs
    <3> QED
      BY <3>2, <3>3, <3>5
  <2>5. start' \in [refs -> 0 .. Length] /\ DOMAIN start' = refs
    BY <2>1, ReadAssumption
  <2>6. ReadTypeOK'
    BY <1>t, <2>1, <2>2, <2>4, <2>5 DEF ReadTypeOK
  <2>7. SpansArePlaced'
    <3>1. \A r \in AllRefs : Got(r, 0)
      BY <1>t, <2>3 DEF SpansArePlaced
    <3>2. \A r \in AllRefs : Got(r, 0)'
      BY <2>1, <3>1 DEF Got
    <3>3. \A r \in refs : start'[r] = 0
      BY <2>1
    <3>4. \A r \in refs : Got(r, start[r])'
      BY <2>4, <3>2, <3>3 DEF Got
    <3> QED
      BY <1>t, <2>1, <2>3, <2>4, <2>5, <3>2, <3>4 DEF SpansArePlaced, Ahead
  <2>8. CursorFits'
    BY <1>t, <2>1, <2>2, <2>3, <2>4 DEF CursorFits
  <2> QED
    BY <2>6, <2>7, <2>8 DEF ReadInv
<1> QED
  BY <1>1, <1>2

(* One page: of what the cursor wants, all is available or nothing.        *)
LEMMA PagesKeepPages == ReadInv /\ NextPage => ReadInv'
<1> SUFFICES ASSUME ReadInv, NextPage PROVE ReadInv'
  OBVIOUS
<1>t. ReadTypeOK /\ SpansArePlaced /\ CursorFits
  BY DEF ReadInv
<1> DEFINE W == Wanted
           D == DOMAIN Wanted
           Placed ==
             /\ D \subseteq named' \ absent /\ W \in [D -> 0 .. Length] /\ named' \subseteq AllRefs
             /\ \A r \in D : Got(r, W[r]) /\ ~Ahead(r)'
             /\ \A r \in AllRefs \ named' : Got(r, 0)
             /\ \A r \in named' : Ahead(r)' => Got(r, 0)
             /\ \A r \in named' \ (absent \cup D) : ~Ahead(r)' => Got(r, Length)
             /\ offset' \in SUBSET Nat /\ (\A i, j \in offset' : i = j)
             /\ historical = {} => \A i \in offset' : i < Spans[revision]
<1>1. PICK shown \in [Available(D) -> 0 .. Length] :
        /\ \A r \in DOMAIN shown : W[r] + shown[r] <= Length
        /\ (\E r \in DOMAIN shown : shown[r] > 0) \/ DOMAIN shown # D
        /\ start' = Remainder(W, shown)
        /\ delivered' = [u \in Unit |-> IF u \in ShownUnits(W, shown)
                                        THEN delivered[u] + 1 ELSE delivered[u]]
        /\ absent' = absent \cup (D \ DOMAIN shown)
  BY DEF NextPage
<1>2. /\ readPc = "more" /\ CursorHolds /\ RowExists /\ offset' = ScanAfter
      /\ named' = IF named = {} THEN Rows(revision) ELSE named
      /\ readPc' = IF DOMAIN start' = {} /\ offset' = {} THEN "done" ELSE "more"
      /\ UNCHANGED <<revision, epoch, historical>>
  BY DEF NextPage, readStore
<1>3. pinned' = IF historical = {} THEN {epoch} ELSE {}
  BY DEF NextPage
<1>4. /\ revision \in 0 .. Revisions /\ epoch \in Nat /\ pinned \in SUBSET Nat
      /\ start \in [DOMAIN start -> 0 .. Length] /\ DOMAIN start \subseteq AllRefs
      /\ offset \in SUBSET Nat /\ named \in SUBSET AllRefs /\ absent \in SUBSET AllRefs
      /\ delivered \in [Unit -> Nat]
  BY <1>t DEF ReadTypeOK
<1>5. DOMAIN shown = IF revision = 0 THEN {} ELSE D
  BY <1>1 DEF Available
<1>6. historical = {} => /\ revision # 0 /\ absent = {} /\ named' = Rows(revision)
                         /\ \A i \in offset : i < Spans[revision]
                         /\ pinned = {} => named = {} /\ DOMAIN start = {}
                         /\ pinned # {} => named = Rows(revision)
  <2>1. CASE historical = {} /\ pinned = {}
    <3>1. absent = {} /\ named = {} /\ DOMAIN start = {} /\ offset \subseteq {0}
      BY <1>t, <2>1 DEF CursorFits, SpansArePlaced
    <3>2. revision # 0 /\ revision \in 1 .. Revisions
      BY <1>2, <1>4, <3>1, ReadAssumption DEF RowExists
    <3>3. Spans[revision] \in Nat \ {0}
      BY <3>2, Refs
    <3>4. \A i \in offset : i < Spans[revision]
      BY <3>1, <3>3
    <3> QED
      BY <1>2, <2>1, <3>1, <3>2, <3>4
  <2>2. CASE historical = {} /\ pinned # {}
    <3>1. PICK e \in pinned : e = epoch
      BY <1>2, <2>2 DEF CursorHolds
    <3>2. /\ absent = {} /\ revision # 0 /\ named = Rows(revision)
          /\ \A i \in offset : i < Spans[revision]
      BY <1>t, <2>2, <3>1 DEF CursorFits
    <3> QED
      BY <1>2, <2>2, <3>2
  <2> QED
    BY <2>1, <2>2
<1>7. historical # {} => DOMAIN start # {} /\ offset = {} /\ named' = named
  <2>1. historical # {} => offset = {} /\ named # {}
    BY <1>t DEF CursorFits
  <2>2. DOMAIN start = {} /\ offset = {} => D = {}
    BY DEF Wanted
  <2>3. D # {}
    BY <1>1, <1>5
  <2> QED
    BY <1>2, <2>1, <2>2, <2>3
(* What is wanted: the positions of the cursor ..                          *)
<1>8. ASSUME DOMAIN start # {} PROVE Placed
  <2>1. W = start /\ D = DOMAIN start /\ offset' = offset
    BY <1>2, <1>8 DEF Wanted, ScanAfter
  <2>2. named # {} /\ named' = named
    BY <1>2, <1>8, <1>t DEF SpansArePlaced
  <2>3. /\ D \subseteq named' \ absent /\ W \in [D -> 0 .. Length]
        /\ \A r \in D : Got(r, W[r]) /\ ~Ahead(r)'
        /\ \A r \in AllRefs \ named' : Got(r, 0)
        /\ \A r \in named' : Ahead(r)' => Got(r, 0)
        /\ \A r \in named' \ (absent \cup D) : ~Ahead(r)' => Got(r, Length)
    BY <1>4, <1>t, <2>1, <2>2 DEF SpansArePlaced, Ahead
  <2>4. offset' \in SUBSET Nat /\ \A i, j \in offset' : i = j
    BY <1>4, <1>t, <2>1 DEF CursorFits
  <2>5. historical = {} => \A i \in offset' : i < Spans[revision]
    BY <1>6, <2>1
  <2>6. named' \subseteq AllRefs
    BY <1>4, <2>2
  <2> QED
    BY <2>3, <2>4, <2>5, <2>6
(* .. or the next row of the scan.                                         *)
<1>9. ASSUME DOMAIN start = {} PROVE Placed
  <2>1. /\ W = [r \in {<<revision, i>> : i \in offset} |-> 0]
        /\ D = {<<revision, i>> : i \in offset} /\ historical = {}
        /\ offset' = {i + 1 : i \in {j \in offset : j + 1 < Spans[revision]}}
    BY <1>2, <1>7, <1>9 DEF Wanted, ScanAfter
  <2>2. D # {}
    BY <1>1, <1>5
  <2>3. PICK n \in Nat : offset = {n}
    <3>1. PICK n \in offset : TRUE
      BY <2>1, <2>2
    <3>2. \A i \in offset : i = n
      BY <1>t DEF CursorFits
    <3> QED
      BY <1>4, <3>1, <3>2
  <2>4. /\ revision \in 1 .. Revisions /\ n < Spans[revision] /\ absent = {}
        /\ named' = Rows(revision) /\ Spans[revision] \in Nat
        /\ pinned = {} => named = {} /\ n = 0
    <3>1. pinned = {} => offset \subseteq {0}
      BY <1>t, <2>1 DEF CursorFits
    <3> QED
      BY <1>4, <1>6, <2>1, <2>3, <3>1, ReadAssumption, Refs
  <2>5. D = {<<revision, n>>} /\ W = [r \in D |-> 0]
    BY <2>1, <2>3
  <2>6. offset' = IF n + 1 < Spans[revision] THEN {n + 1} ELSE {}
    BY <2>1, <2>3
  <2>7. named = {} \/ named = named'
    BY <1>2
  <2>8. \A r \in named' : r[1] = revision /\ r[2] \in 0 .. (Spans[revision] - 1) /\ r = <<revision, r[2]>>
    BY <2>4, Refs
  <2>9. named' \subseteq AllRefs
    BY <2>4, Refs
  <2>10. /\ D \subseteq named' \ absent /\ W \in [D -> 0 .. Length]
    <3>1. <<revision, n>> \in named'
      BY <2>4, Refs
    <3>2. 0 \in 0 .. Length
      BY ReadAssumption
    <3> QED
      BY <2>4, <2>5, <3>1, <3>2
  <2>11. \A r \in D : r[2] = n /\ ~Ahead(r)'
    BY <2>5, <2>6 DEF Ahead
  <2>12. \A r \in named' : n <= r[2] => Got(r, 0)
    <3>1. CASE named = {}
      BY <1>t, <2>9, <3>1 DEF SpansArePlaced
    <3>2. CASE named = named'
      BY <1>t, <2>3, <3>2 DEF SpansArePlaced, Ahead
    <3> QED
      BY <2>7, <3>1, <3>2
  <2>13. \A r \in D : Got(r, W[r])
    BY <2>10, <2>11, <2>12, <2>5
  <2>14. \A r \in AllRefs \ named' : Got(r, 0)
    BY <1>t, <2>7 DEF SpansArePlaced
  <2>15. \A r \in named' : Ahead(r)' => Got(r, 0)
    BY <2>6, <2>8, <2>12 DEF Ahead
  <2>16. ASSUME NEW r \in named' \ (absent \cup D), ~Ahead(r)' PROVE Got(r, Length)
    <3>1. r[2] # n
      BY <2>5, <2>8, <2>16
    <3>2. r[2] < n
      BY <2>3, <2>4, <2>6, <2>8, <2>16, <3>1 DEF Ahead
    <3>3. named = named'
      BY <1>6, <2>1, <2>4, <2>8, <3>2
    <3>4. ~Ahead(r)
      BY <2>3, <2>8, <3>2 DEF Ahead
    <3> QED
      BY <1>9, <1>t, <2>16, <3>3, <3>4 DEF SpansArePlaced
  <2>17. offset' \in SUBSET Nat /\ \A i, j \in offset' : i = j
    BY <2>6
  <2>18. \A i \in offset' : i < Spans[revision]
    BY <2>6
  <2> QED
    BY <2>9, <2>10, <2>11, <2>13, <2>14, <2>15, <2>16, <2>17, <2>18
<1>10. /\ D \subseteq named' \ absent /\ W \in [D -> 0 .. Length] /\ named' \subseteq AllRefs
       /\ \A r \in D : Got(r, W[r]) /\ ~Ahead(r)'
       /\ \A r \in AllRefs \ named' : Got(r, 0)
       /\ \A r \in named' : Ahead(r)' => Got(r, 0)
       /\ \A r \in named' \ (absent \cup D) : ~Ahead(r)' => Got(r, Length)
       /\ offset' \in SUBSET Nat /\ (\A i, j \in offset' : i = j)
       /\ historical = {} => \A i \in offset' : i < Spans[revision]
  BY <1>8, <1>9
(* What the page does to it.                                               *)
<1> DEFINE GotThen(r, n) == \A i \in 0 .. (Length - 1) : delivered'[<<r, i>>] = IF i < n THEN 1 ELSE 0
<1>11. /\ DOMAIN start' \subseteq DOMAIN shown
       /\ \A r \in DOMAIN shown : /\ r \in D /\ W[r] \in 0 .. Length /\ shown[r] \in 0 .. Length
                                  /\ W[r] + shown[r] <= Length
                                  /\ r \in DOMAIN start' <=> W[r] + shown[r] < Length
       /\ \A r \in DOMAIN start' : start'[r] = W[r] + shown[r] /\ start'[r] \in 0 .. Length
  <2>1. start' = Remainder(W, shown) /\ DOMAIN shown \subseteq D
        /\ DOMAIN start' = {r \in DOMAIN shown : W[r] + shown[r] < Length}
    BY <1>1, <1>5 DEF Remainder
  <2>2. \A r \in DOMAIN shown : W[r] \in 0 .. Length /\ shown[r] \in 0 .. Length
    BY <1>1, <1>5, <1>10
  <2>3. \A r \in DOMAIN start' : start'[r] = W[r] + shown[r]
    BY <2>1 DEF Remainder
  <2> QED
    BY <1>1, <2>1, <2>2, <2>3, ReadAssumption
<1>12. start' \in [DOMAIN start' -> 0 .. Length]
  BY <1>1, <1>11 DEF Remainder
<1>13. ASSUME NEW r \in AllRefs, NEW i \in 0 .. (Length - 1)
       PROVE  delivered'[<<r, i>>] = IF r \in DOMAIN shown /\ W[r] <= i /\ i < W[r] + shown[r]
                                     THEN delivered[<<r, i>>] + 1 ELSE delivered[<<r, i>>]
  <2>1. <<r, i>> \in Unit /\ <<r, i>>[1] = r /\ <<r, i>>[2] = i
    BY Refs
  <2> QED
    BY <1>1, <2>1 DEF ShownUnits
<1>14. ASSUME NEW r \in AllRefs, r \notin DOMAIN shown, NEW n, Got(r, n) PROVE GotThen(r, n)
  BY <1>13, <1>14 DEF Got
<1>15. ASSUME NEW r \in DOMAIN shown PROVE GotThen(r, W[r] + shown[r])
  <2>1. /\ r \in AllRefs /\ Got(r, W[r]) /\ W[r] \in 0 .. Length /\ shown[r] \in 0 .. Length
    BY <1>10, <1>11
  <2>2. ASSUME NEW i \in 0 .. (Length - 1)
        PROVE  delivered'[<<r, i>>] = IF i < W[r] + shown[r] THEN 1 ELSE 0
    <3>1. delivered[<<r, i>>] = IF i < W[r] THEN 1 ELSE 0
      BY <2>1 DEF Got
    <3> HIDE DEF W
    <3> QED
      BY <1>13, <2>1, <3>1, ReadAssumption
  <2> QED
    BY <2>2
<1>16. ReadTypeOK'
  <2>1. delivered' \in [Unit -> Nat]
    BY <1>1, <1>4
  <2>2. DOMAIN start' \subseteq AllRefs /\ absent' \in SUBSET AllRefs /\ named' \in SUBSET AllRefs
    BY <1>1, <1>4, <1>10, <1>11
  <2>3. pinned' \in SUBSET Nat /\ offset' \in SUBSET Nat
    BY <1>3, <1>4, <1>10
  <2>4. readPc' \in {"idle", "more", "done", "refused"}
    BY <1>2
  <2>5. UNCHANGED <<revision, epoch, historical>>
    BY <1>2
  <2> QED
    BY <1>12, <1>t, <2>1, <2>2, <2>3, <2>4, <2>5 DEF ReadTypeOK
<1>17. SpansArePlaced'
  <2>1. absent' = absent \cup (D \ DOMAIN shown)
    BY <1>1
  <2>2. \A r \in AllRefs \ named' : GotThen(r, 0)
    BY <1>10, <1>11, <1>14
  <2>3. DOMAIN start' \subseteq named' \ absent'
    BY <1>10, <1>11, <2>1
  <2>4. \A r \in DOMAIN start' : GotThen(r, start'[r]) /\ ~Ahead(r)'
    BY <1>10, <1>11, <1>15
  <2>5. \A r \in named' : Ahead(r)' => GotThen(r, 0)
    BY <1>10, <1>11, <1>14
  <2>6. ASSUME NEW r \in named' \ (absent' \cup DOMAIN start'), ~Ahead(r)'
        PROVE  GotThen(r, Length)
    <3>1. CASE r \in DOMAIN shown
      <4>1. W[r] + shown[r] = Length
        <5>1. ~(W[r] + shown[r] < Length)
          BY <1>11, <2>6, <3>1
        <5>2. /\ W[r] + shown[r] <= Length /\ W[r] \in Nat /\ shown[r] \in Nat /\ Length \in Nat
          BY <1>11, <3>1, ReadAssumption
        <5> HIDE DEF W
        <5> QED
          BY <5>1, <5>2
      <4> QED
        BY <1>15, <3>1, <4>1
    <3>2. CASE r \notin DOMAIN shown
      <4>1. r \notin D /\ r \notin absent
        BY <2>1, <2>6, <3>2
      <4> QED
        BY <1>10, <1>14, <2>6, <3>2, <4>1
    <3> QED
      BY <3>1, <3>2
  <2>7. ASSUME NEW u \in Unit PROVE delivered'[u] \in {0, 1}
    <3>1. PICK r \in AllRefs, i \in 0 .. (Length - 1) : u = <<r, i>>
      BY Refs
    <3>2. CASE r \in DOMAIN shown
      BY <1>15, <3>1, <3>2 DEF Got
    <3>3. CASE r \notin DOMAIN shown
      BY <1>13, <1>t, <3>1, <3>3 DEF SpansArePlaced
    <3> QED
      BY <3>2, <3>3
  <2> QED
    BY <2>2, <2>3, <2>4, <2>5, <2>6, <2>7 DEF SpansArePlaced, Got
<1>18. CursorFits'
  <2>1. readPc' # "idle" /\ (readPc' = "done" => DOMAIN start' = {} /\ offset' = {})
    BY <1>2
  <2>2. historical' # {} => offset' = {} /\ pinned' = {} /\ named' # {}
    <3>1. historical # {} => offset' = {}
      BY <1>2, <1>7 DEF ScanAfter
    <3>2. historical # {} => named' # {}
      BY <1>7, <1>2, <1>t DEF CursorFits
    <3> QED
      BY <1>2, <1>3, <3>1, <3>2
  <2>3. historical' = {} => absent' = {}
    BY <1>1, <1>2, <1>5, <1>6
  <2>4. historical' = {} => pinned' # {}
    BY <1>2, <1>3
  <2>5. \A e \in pinned' : e = epoch' /\ e <= epoch'
    BY <1>2, <1>3, <1>4
  <2>6. \A e \in pinned' : /\ revision' # 0 /\ named' = Rows(revision)'
                           /\ \A i \in offset' : i < Spans[revision']
    BY <1>2, <1>3, <1>6, <1>10 DEF Rows
  <2> QED
    BY <1>10, <2>1, <2>2, <2>3, <2>4, <2>5, <2>6 DEF CursorFits
<1> QED
  BY <1>16, <1>17, <1>18 DEF ReadInv

(* Every step keeps the invariant.                                         *)
LEMMA ReadNextInv == ReadInv /\ [ReadNext]_pageVars => ReadInv'
<1> SUFFICES ASSUME ReadInv, [ReadNext]_pageVars PROVE ReadInv'
  OBVIOUS
<1>1. CASE RefusePage
  <2>1. /\ UNCHANGED <<revision, epoch, historical, pinned, start, offset, named, absent, delivered>>
        /\ readPc' = "refused"
    BY <1>1 DEF RefusePage, readStore
  <2>2. ReadTypeOK'
    BY <2>1 DEF ReadInv, ReadTypeOK
  <2>3. SpansArePlaced'
    BY <2>1 DEF ReadInv, SpansArePlaced, Got, Ahead
  <2>4. CursorFits'
    BY <2>1 DEF ReadInv, CursorFits, Rows
  <2> QED
    BY <2>2, <2>3, <2>4 DEF ReadInv
<1>2. CASE UNCHANGED pageVars
  <2>1. UNCHANGED <<revision, epoch, readPc, historical, pinned, start, offset, named, absent, delivered>>
    BY <1>2 DEF pageVars, readStore, readCursor
  <2>2. ReadTypeOK'
    BY <2>1 DEF ReadInv, ReadTypeOK
  <2>3. SpansArePlaced'
    BY <2>1 DEF ReadInv, SpansArePlaced, Got, Ahead
  <2>4. CursorFits'
    BY <2>1 DEF ReadInv, CursorFits, Rows
  <2> QED
    BY <2>2, <2>3, <2>4 DEF ReadInv
<1> QED
  BY <1>1, <1>2, ChangesKeepPages, AsksKeepPages, PagesKeepPages DEF ReadNext

(* Every unit is delivered at most once, and when there is no further page *)
(* every unit of what was named and available was.                         *)
LEMMA ReadInvCovers == ReadInv => PagesCoverOnce
<1> SUFFICES ASSUME ReadInv PROVE PagesCoverOnce
  OBVIOUS
<1>1. ASSUME NEW u \in Unit
      PROVE  /\ delivered[u] <= 1 /\ (delivered[u] = 1 => u[1] \in named)
             /\ readPc = "done" /\ u[1] \in named \ absent => delivered[u] = 1
  <2>1. /\ u[1] \in AllRefs /\ u[2] \in 0 .. (Length - 1) /\ u = <<u[1], u[2]>>
        /\ u[2] < Length /\ ~(u[2] < 0)
    BY Refs, ReadAssumption
  <2>2. delivered[u] \in {0, 1}
    BY DEF ReadInv, SpansArePlaced
  <2>3. u[1] \notin named => delivered[u] = 0
    BY <2>1 DEF ReadInv, SpansArePlaced, Got
  <2>4. readPc = "done" /\ u[1] \in named \ absent => Got(u[1], Length)
    BY DEF ReadInv, SpansArePlaced, CursorFits, Ahead
  <2> QED
    BY <2>1, <2>2, <2>3, <2>4 DEF Got
<1> QED
  BY <1>1 DEF PagesCoverOnce

(* Following the cursor of read() delivers everything once, with any pages *)
(* and whatever is published or forgotten between them.                    *)
THEOREM PagesAlwaysCoverOnce == ReadSpec => []PagesCoverOnce
BY ReadInvCovers, ReadInitInv, ReadNextInv, PTL DEF ReadSpec

-----------------------------------------------------------------------------
(* All of them side by side with the evidence store.                       *)

ReadersInv == VectorInv /\ GhostInv /\ RecallInv /\ ReadInv

(* Every one of them starts in one of its initial states.                  *)
LEMMA ReadersInitInv == StoreInit => ReadersInv
BY VectorInitInv, GhostInitInv, RecallInitInv, ReadInitInv, Zenon DEF StoreInit, ReadersInv

(* A step of all is a step of each or leaves it alone.                     *)
LEMMA EachSteps ==
  ASSUME [StoreNext]_<<part, vars, ghostVars, recallVars, pageVars, vectorVars>>
  PROVE  /\ [GhostNext]_ghostVars /\ [RecallNext]_recallVars
         /\ [ReadNext]_pageVars /\ [VectorNext]_vectorVars
BY Zenon DEF StoreNext

(* So it keeps all the inductive invariants.                               *)
LEMMA ReadersNextInv ==
  ReadersInv /\ [StoreNext]_<<part, vars, ghostVars, recallVars, pageVars, vectorVars>> => ReadersInv'
<1> SUFFICES ASSUME ReadersInv, [StoreNext]_<<part, vars, ghostVars, recallVars, pageVars, vectorVars>>
             PROVE  ReadersInv'
  OBVIOUS
<1>1. VectorInv' /\ GhostInv' /\ RecallInv' /\ ReadInv'
  BY EachSteps, VectorNextInv, GhostNextInv, RecallNextInv, ReadNextInv, Zenon DEF ReadersInv
<1> QED
  BY <1>1 DEF ReadersInv

(* The types of all the components hold.                                   *)
THEOREM ReadersTypeCorrect == StoreSpec => []ReadersTypeOK
<1>1. ReadersInv => ReadersTypeOK
  BY Zenon DEF ReadersInv, ReadersTypeOK, VectorInv, GhostInv, RecallInv, ReadInv
<1> QED
  BY <1>1, ReadersInitInv, ReadersNextInv, PTL DEF StoreSpec

(* What each promises by itself holds of them together.                    *)
THEOREM ReadersKeepPromises ==
  StoreSpec => [](VectorsFit /\ HistoryGhostsRespectForget /\ FastPathIsSound /\ PagesCoverOnce)
<1>1. ReadersInv => VectorsFit /\ HistoryGhostsRespectForget /\ FastPathIsSound /\ PagesCoverOnce
  BY GhostInvFast, ReadInvCovers DEF ReadersInv, VectorInv, VectorsFit, GhostInv
<1> QED
  BY <1>1, ReadersInitInv, ReadersNextInv, PTL DEF StoreSpec

=============================================================================
