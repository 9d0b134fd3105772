------------------------- MODULE EvidenceStore_proofs -------------------------
(***************************************************************************)
(* EvidenceStore for any sources, contents, number of lease owners and     *)
(* failures.  What is said of the bytes on disk needs Distinct: without it *)
(* it is false (run forget_shared).                                        *)
(***************************************************************************)
EXTENDS EvidenceStore, TLAPS

Distinct == \A s, t \in Source : s # t => Holds[s] \cap Holds[t] = {}

Started == {"parsing", "checked", "preserved"}
Proved  == {"checked", "preserved"}

(* A capture that can still publish: the lease is its own, and its source  *)
(* is not forgotten.                                                       *)
Current(k, labels) == k = lease /\ cap[k].at \in labels /\ tomb[cap[k].src] = "none"

(* A tombstone and rows of the source exclude each other, and only a       *)
(* pending one has a journal.                                              *)
Forgotten ==
  /\ ForgottenStaysForgotten
  /\ \A s \in Source : tomb[s] # "pending" => journal[s] = {}

(* No owner begins a capture before the lease has come to it.              *)
Fenced == \A k \in Owner : cap[k] # Idle => k <= lease

(* What the present owner read of the active revision is still true.       *)
Expected == \A k \in Owner : Current(k, Started) => active[cap[k].src] = cap[k].expect

ActiveIsRevision ==
  \A s \in Source : active[s] \in revs[s] \cup {None} /\ ack[s] \in {None, active[s]}

(* All bytes of a source come from its transcript.                         *)
Provenance ==
  /\ \A s \in Source : /\ live[s] \in Holds[s] \cup {None} /\ arch[s] \in Holds[s] \cup {None}
                       /\ revs[s] \subseteq Holds[s] /\ journal[s] \subseteq Holds[s] \cup {s}
  /\ \A k \in Owner : cap[k].at \in {"read"} \cup Started => cap[k].raw \in Holds[cap[k].src]
  /\ resc.cur # None => resc.copy \in Holds[resc.cur]

(* The artifact of a revision is there, and of one about to be published.  *)
Kept ==
  /\ RevisionsKeepBytes
  /\ \A k \in Owner : cap[k].at = "preserved" /\ tomb[cap[k].src] = "none" => cap[k].raw \in evid

(* The prefix proof still speaks of the active revision.                   *)
PrefixProof ==
  \A k \in Owner : LET c == cap[k]  a == active[cap[k].src] IN
    Current(k, Proved) /\ a # None =>
      /\ a \in c.compat <=> Related(a, c.raw)
      /\ c.older <=> c.raw \in Shorter[a]

IInv ==
  /\ TypeOK
  /\ Forgotten /\ Fenced /\ Expected /\ ActiveIsRevision /\ Provenance
  /\ Distinct => Kept /\ PrefixProof

-----------------------------------------------------------------------------
(* A capture that is not idle has a capture record in hand.                *)
LEMMA CaptureAt ==
  ASSUME TypeOK, NEW k \in Owner, cap[k].at # "idle"
  PROVE  cap[k] \in Capture
BY DEF TypeOK, Idle

(* The label tells whether a capture is under way.                         *)
LEMMA IdleAt ==
  ASSUME TypeOK, NEW k \in Owner
  PROVE  cap[k] # Idle <=> cap[k].at # "idle"
<1>1. cap[k] \in Capture \cup {Idle} BY DEF TypeOK
<1>2. Idle.at = "idle" BY DEF Idle
<1>3. \A c \in Capture : c.at # "idle" BY DEF Capture
<1> QED BY <1>1, <1>2, <1>3

(* Which steps change what.                                                *)
CaptureStep(k) ==
  \/ \E s \in Source : Discover(k, s)
  \/ Read(k) \/ Prove(k) \/ Preserve(k) \/ Publish(k) \/ Refuse(k) \/ Abandon(k)
  \/ \E full \in BOOLEAN : Look(k, full)
RescueStep ==
  \/ StartRescue \/ PlaceCopy \/ RecordCopy \/ AbandonCopy
  \/ \E s \in Source : RescueFile(s)

(* A step is one of these, by the actor whose it is.                       *)
LEMMA NextCases ==
  ASSUME [Next]_vars
  PROVE  \/ \E s \in Source : Harness(s) \/ Forget(s) \/ Settle(s) \/ AbandonCleanup(s)
         \/ \E s \in Source, f \in File : Unlink(s, f)
         \/ Overtake \/ RescueStep \/ (\E k \in Owner : CaptureStep(k)) \/ UNCHANGED vars
BY DEF Next, Work, Cleanup, Copying, CaptureStep, RescueStep

-----------------------------------------------------------------------------
(* The types.                                                              *)

(* The initial states are well typed.                                      *)
LEMMA InitTyped == Init => TypeOK
BY BoundAssumption, ContentAssumption DEF Init, TypeOK, Maybe, Owner, Rescue, NoPass, Idle, Capture

(* A step of a capture keeps the types.                                    *)
LEMMA CaptureTyped ==
  ASSUME TypeOK, NEW k \in Owner, CaptureStep(k)
  PROVE  TypeOK'
<1> USE DEF fileVars, storeVars, forgetVars
<1>1. CASE \E s \in Source : Discover(k, s)
  BY <1>1 DEF Discover, TypeOK, Capture, FoundAt, Path, Maybe
<1>2. CASE Read(k)
  <2>1. cap[k] \in Capture BY <1>2, CaptureAt DEF Read, At
  <2> DEFINE bytes == IF cap[k].from = "live" THEN live[cap[k].src] ELSE arch[cap[k].src]
  <2>2. bytes \in Maybe /\ cap[k].src \in Source BY <2>1 DEF TypeOK, Capture
  <2>3. [cap[k] EXCEPT !.at = "read", !.raw = bytes] \in Capture BY <2>1, <2>2 DEF Capture
  <2> QED BY <1>2, <2>1, <2>2, <2>3 DEF Read, At, TypeOK, Idle
<1>3. CASE \E full \in BOOLEAN : Look(k, full)
  <2>1. cap[k] \in Capture BY <1>3, CaptureAt DEF Look, At
  <2>2. active[cap[k].src] \in Maybe BY <2>1 DEF TypeOK, Capture
  <2>3. [cap[k] EXCEPT !.at = "parsing", !.expect = active[cap[k].src]] \in Capture
    BY <2>1, <2>2 DEF Capture
  <2> QED BY <1>3, <2>1, <2>3 DEF Look, At, TypeOK, Idle
<1>4. CASE Prove(k)
  <2> DEFINE related == {x \in revs[cap[k].src] : x \in evid /\ Related(x, cap[k].raw)}
             older == active[cap[k].src] \in related /\ cap[k].raw \in Shorter[active[cap[k].src]]
             sole == older /\ (alias[cap[k].src]["live"] = None \/ live[cap[k].src] = None)
  <2>1. cap[k] \in Capture BY <1>4, CaptureAt DEF Prove, At
  <2>2. related \in SUBSET Content BY <2>1 DEF TypeOK, Capture
  <2>3. older \in BOOLEAN /\ sole \in BOOLEAN OBVIOUS
  <2>4. cap' = [cap EXCEPT ![k] = IF tomb[cap[k].src] # "none" THEN Idle ELSE
                 [cap[k] EXCEPT !.at = "checked", !.compat = related, !.older = older, !.sole = sole]]
    BY <1>4 DEF Prove
  <2> HIDE DEF related, older, sole
  <2>5. [cap[k] EXCEPT !.at = "checked", !.compat = related, !.older = older, !.sole = sole] \in Capture
    BY <2>1, <2>2, <2>3 DEF Capture
  <2> QED BY <1>4, <2>1, <2>4, <2>5 DEF Prove, At, TypeOK, Idle
<1>5. CASE Preserve(k)
  <2>1. cap[k] \in Capture BY <1>5, CaptureAt DEF Preserve, At
  <2>2. [cap[k] EXCEPT !.at = "preserved"] \in Capture BY <2>1 DEF Capture
  <2>3. cap[k].raw \in Content BY <1>5, <2>1 DEF Preserve, At, TypeOK, Capture, Maybe
  <2> QED BY <1>5, <2>1, <2>2, <2>3 DEF Preserve, At, TypeOK
<1>6. CASE Publish(k)
  <2>1. cap[k] \in Capture BY <1>6, CaptureAt DEF Publish, At
  <2>2. cap[k].raw \in Content /\ cap[k].src \in Source /\ cap[k].from \in Path
    BY <1>6, <2>1 DEF Publish, At, TypeOK, Capture, Maybe
  <2>3. active' \in [Source -> Maybe] /\ ack' \in [Source -> Maybe] /\ seen' \in [Source -> Maybe]
        /\ failed' \subseteq Source /\ conflicted' \subseteq Source
    <3>1. CASE ReportConflict(cap[k])
      BY <2>2, <3>1 DEF ReportConflict, TypeOK, Maybe
    <3>2. CASE KeepNewer(cap[k])
      BY <2>2, <3>2 DEF KeepNewer, TypeOK, Maybe
    <3>3. CASE Activate(cap[k])
      BY <2>2, <3>3 DEF Activate, TypeOK, Maybe
    <3> QED BY <1>6, <3>1, <3>2, <3>3 DEF Publish
  <2>4. revs' \in [Source -> SUBSET Content] /\ alias' \in [Source -> [Path -> Maybe]]
    BY <1>6, <2>2 DEF Publish, TypeOK, Maybe
  <2>5. cap' = [cap EXCEPT ![k] = Idle] BY <1>6 DEF Publish
  <2> QED BY <1>6, <2>3, <2>4, <2>5 DEF Publish, TypeOK, Idle
<1>7. CASE Refuse(k) \/ Abandon(k)
  <2>1. cap[k] \in Capture BY <1>7, CaptureAt, IdleAt DEF Refuse, Abandon, At
  <2>2. cap[k].src \in Source BY <2>1 DEF Capture
  <2> QED BY <1>7, <2>2 DEF Refuse, Abandon, Fails, TypeOK, Idle
<1> QED BY <1>1, <1>2, <1>3, <1>4, <1>5, <1>6, <1>7 DEF CaptureStep

(* So does every step.                                                     *)
LEMMA NextTyped == TypeOK /\ [Next]_vars => TypeOK'
<1> SUFFICES ASSUME TypeOK, [Next]_vars PROVE TypeOK'
  OBVIOUS
<1> USE DEF fileVars, storeVars, forgetVars
<1>1. CASE \E k \in Owner : CaptureStep(k)
  BY <1>1, CaptureTyped
<1>2. CASE \E s \in Source : Harness(s)
  <2> PICK s \in Source : Harness(s) BY <1>2
  <2> PICK x \in Holds[s] \cup {None} : live' = [live EXCEPT ![s] = x]
    BY DEF Harness, Appended
  <2>1. x \in Maybe BY ContentAssumption DEF Maybe
  <2>2. live' \in [Source -> Maybe] BY <2>1 DEF TypeOK
  <2> QED BY <1>2, <2>2 DEF Harness, TypeOK
<1>3. CASE \E s \in Source : Forget(s)
  <2> PICK s \in Source : Forget(s) BY <1>3
  <2>1. OwnArtifacts(s) \cup OwnCopy(s) \subseteq File
    BY DEF OwnArtifacts, OwnCopy, TypeOK, File
  <2>2. /\ revs' \in [Source -> SUBSET Content] /\ active' \in [Source -> Maybe]
        /\ alias' \in [Source -> [Path -> Maybe]]
        /\ ack' \in [Source -> Maybe] /\ seen' \in [Source -> Maybe]
    BY DEF Forget, TypeOK, Maybe
  <2>3. tomb' \in [Source -> {"none", "pending", "complete"}] /\ journal' \in [Source -> SUBSET File]
    BY <2>1 DEF Forget, TypeOK
  <2> QED BY <2>2, <2>3 DEF Forget, TypeOK
<1>4. CASE \E s \in Source : Settle(s) \/ AbandonCleanup(s)
  <2>1. CASE \E s \in Source : Settle(s)
    BY <2>1 DEF Settle, TypeOK
  <2>2. CASE \E s \in Source : AbandonCleanup(s)
    BY <2>2 DEF AbandonCleanup, Fails, TypeOK
  <2> QED BY <1>4, <2>1, <2>2
<1>5. CASE \E s \in Source, f \in File : Unlink(s, f)
  BY <1>5 DEF Unlink, TypeOK, Maybe
<1>6. CASE Overtake
  BY <1>6, BoundAssumption DEF Overtake, TypeOK, Owner
<1>7. CASE RescueStep
  <2>1. CASE StartRescue
    BY <2>1 DEF StartRescue, NoPass, TypeOK, Rescue, Maybe
  <2>2. CASE \E s \in Source : RescueFile(s)
    <3> PICK s \in Source : RescueFile(s) BY <2>2
    <3>1. live[s] \in Maybe BY DEF TypeOK
    <3>2. [resc EXCEPT !.todo = @ \ {s}] \in Rescue
          /\ [resc EXCEPT !.cur = s, !.copy = live[s]] \in Rescue
      BY <3>1 DEF TypeOK, Rescue
    <3>3. resc.cur = None BY DEF RescueFile
    <3>4. resc' \in Rescue /\ (resc'.placed => resc'.cur # None)
      BY <3>2, <3>3 DEF RescueFile, TypeOK, Rescue
    <3> QED BY <3>4 DEF RescueFile, TypeOK
  <2>3. CASE PlaceCopy
    BY <2>3 DEF PlaceCopy, TypeOK, Rescue, Maybe
  <2>4. CASE RecordCopy \/ AbandonCopy
    <3>1. /\ [NoPass EXCEPT !.todo = resc.todo \ {resc.cur}] \in Rescue /\ NoPass \in Rescue
          /\ ~[NoPass EXCEPT !.todo = resc.todo \ {resc.cur}].placed /\ ~NoPass.placed
      BY DEF NoPass, TypeOK, Rescue, Maybe
    <3>2. resc' \in {NoPass, [NoPass EXCEPT !.todo = resc.todo \ {resc.cur}]}
      BY <2>4 DEF RecordCopy, AbandonCopy
    <3>4. resc' \in Rescue /\ ~resc'.placed
      BY <3>1, <3>2
    <3>3. rows' \subseteq Source /\ fails' \in Nat
      BY <2>4 DEF RecordCopy, AbandonCopy, Fails, TypeOK, Rescue, NoPass
    <3> QED BY <2>4, <3>4, <3>3 DEF RecordCopy, AbandonCopy, TypeOK
  <2> QED BY <1>7, <2>1, <2>2, <2>3, <2>4 DEF RescueStep
<1>8. CASE UNCHANGED vars
  BY <1>8 DEF vars, TypeOK
<1> QED BY <1>1, <1>2, <1>3, <1>4, <1>5, <1>6, <1>7, <1>8, NextCases

-----------------------------------------------------------------------------
(* Who changes what.                                                       *)

(* Only publications and forgets change the rows of the store.             *)
LEMMA StoreChanges ==
  ASSUME [Next]_vars
  PROVE  \/ \E k \in Owner : Publish(k)
         \/ \E s \in Source : Forget(s)
         \/ UNCHANGED <<revs, active, alias, ack>>
<1> USE DEF fileVars, storeVars, forgetVars
<1>1. CASE \E k \in Owner : CaptureStep(k)
  BY <1>1 DEF CaptureStep, Discover, Read, Look, Prove, Preserve, Refuse, Abandon
<1>2. CASE RescueStep
  BY <1>2 DEF RescueStep, StartRescue, RescueFile, PlaceCopy, RecordCopy, AbandonCopy
<1> QED
  BY <1>1, <1>2, NextCases DEF Harness, Settle, AbandonCleanup, Unlink, Overtake, vars

(* What a step of a capture leaves alone.                                  *)
LEMMA CaptureFrame ==
  ASSUME TypeOK, NEW k \in Owner, CaptureStep(k)
  PROVE  /\ UNCHANGED <<live, arch, tomb, journal, lease, resc>>
         /\ \A j \in Owner \ {k} : cap'[j] = cap[j]
<1> USE DEF fileVars, storeVars, forgetVars
<1>1. UNCHANGED <<live, arch, tomb, journal, lease, resc>>
  BY DEF CaptureStep, Discover, Read, Look, Prove, Preserve, Publish, Refuse, Abandon
<1>2. \E c : cap' = [cap EXCEPT ![k] = c]
  BY DEF CaptureStep, Discover, Read, Look, Prove, Preserve, Publish, Refuse, Abandon
<1> QED BY <1>1, <1>2 DEF TypeOK

(* What a step of anybody else leaves alone of captures and rows.          *)
LEMMA OtherFrame ==
  ASSUME [Next]_vars, ~(\E k \in Owner : CaptureStep(k))
  PROVE  /\ UNCHANGED cap
         /\ \/ Overtake \/ \E s \in Source : Forget(s)
            \/ UNCHANGED <<lease, active>> /\ \A s \in Source : tomb'[s] = "none" => tomb[s] = "none"
<1> USE DEF fileVars, storeVars, forgetVars
<1>1. CASE RescueStep
  BY <1>1 DEF RescueStep, StartRescue, RescueFile, PlaceCopy, RecordCopy, AbandonCopy
<1>2. CASE \E s \in Source, f \in File : Unlink(s, f)
  BY <1>2 DEF Unlink
<1>3. CASE \E s \in Source : Harness(s) \/ AbandonCleanup(s)
  BY <1>3 DEF Harness, AbandonCleanup
<1>4. CASE \E s \in Source : Settle(s)
  BY <1>4 DEF Settle
<1>5. CASE Overtake \/ \E s \in Source : Forget(s)
  BY <1>5 DEF Overtake, Forget
<1>6. CASE UNCHANGED vars
  BY <1>6 DEF vars
<1> QED BY <1>1, <1>2, <1>3, <1>4, <1>5, <1>6, NextCases

(* Only a forget and its settling change tombstones.                       *)
LEMMA TombChanges ==
  ASSUME [Next]_vars
  PROVE  (\E s \in Source : Forget(s) \/ Settle(s)) \/ UNCHANGED <<tomb, journal>>
<1> USE DEF fileVars, storeVars, forgetVars
<1>1. CASE \E k \in Owner : CaptureStep(k)
  BY <1>1 DEF CaptureStep, Discover, Read, Look, Prove, Preserve, Publish, Refuse, Abandon
<1>2. CASE RescueStep
  BY <1>2 DEF RescueStep, StartRescue, RescueFile, PlaceCopy, RecordCopy, AbandonCopy
<1> QED
  BY <1>1, <1>2, NextCases DEF Harness, AbandonCleanup, Unlink, Overtake, vars

(* Prove() only adds to the capture, or ends it.                           *)
LEMMA ProveSteps ==
  ASSUME TypeOK, NEW k \in Owner, Prove(k), cap'[k] # Idle
  PROVE  LET s == cap[k].src IN
         /\ cap[k] \in Capture /\ active' = active /\ revs' = revs /\ evid' = evid
         /\ cap'[k].at = "checked" /\ cap'[k].src = s /\ cap'[k].raw = cap[k].raw
         /\ cap'[k].from = cap[k].from /\ cap'[k].expect = cap[k].expect
         /\ cap'[k].compat = {x \in revs[s] : x \in evid /\ Related(x, cap[k].raw)}
         /\ cap'[k].older <=> (active[s] \in cap'[k].compat /\ cap[k].raw \in Shorter[active[s]])
<1> DEFINE s == cap[k].src
           related == {x \in revs[s] : x \in evid /\ Related(x, cap[k].raw)}
           older == active[s] \in related /\ cap[k].raw \in Shorter[active[s]]
           sole == older /\ (alias[s]["live"] = None \/ live[s] = None)
           next == [cap[k] EXCEPT !.at = "checked", !.compat = related, !.older = older, !.sole = sole]
<1>1. cap[k] \in Capture BY CaptureAt DEF Prove, At
<1>2. cap' = [cap EXCEPT ![k] = IF tomb[s] # "none" THEN Idle ELSE next]
  BY DEF Prove
<1>3. active' = active /\ revs' = revs /\ evid' = evid BY DEF Prove, fileVars, storeVars
<1>4. older \in BOOLEAN /\ (older <=> active[s] \in related /\ cap[k].raw \in Shorter[active[s]])
  OBVIOUS
<1> HIDE DEF related, older, sole
<1>5. cap'[k] = next BY <1>2 DEF TypeOK
<1>6. /\ next.at = "checked" /\ next.src = s /\ next.raw = cap[k].raw /\ next.from = cap[k].from
      /\ next.expect = cap[k].expect /\ next.compat = related /\ next.older = older
  BY <1>1 DEF Capture
<1> HIDE DEF next
<1>7. related = {x \in revs[s] : x \in evid /\ Related(x, cap[k].raw)} BY DEF related
<1> QED BY <1>1, <1>3, <1>4, <1>5, <1>6, <1>7

-----------------------------------------------------------------------------
(* The parts of the invariant, one lemma each.                             *)

(* No step revives a forgotten source.                                     *)
LEMMA ForgottenStep ==
  ASSUME TypeOK, Forgotten, [Next]_vars
  PROVE  Forgotten'
<1> USE DEF Forgotten, ForgottenStaysForgotten
<1>1. CASE \E k \in Owner : Publish(k)
  <2> PICK k \in Owner : Publish(k) BY <1>1
  <2>1. cap[k] \in Capture BY CaptureAt DEF Publish, At
  <2>2. tomb[cap[k].src] = "none" /\ cap[k].src \in Source /\ UNCHANGED <<tomb, journal>>
    BY <2>1 DEF Publish, Refused, Capture, forgetVars
  <2>3. \A s \in Source \ {cap[k].src} :
          revs'[s] = revs[s] /\ active'[s] = active[s] /\ ack'[s] = ack[s] /\ alias'[s] = alias[s]
    BY <2>2 DEF Publish, ReportConflict, KeepNewer, Activate, TypeOK
  <2> QED BY <2>2, <2>3
<1>2. CASE \E s \in Source : Forget(s)
  BY <1>2 DEF Forget, TypeOK
<1>3. CASE \E s \in Source : Settle(s)
  BY <1>3 DEF Settle, TypeOK, storeVars
<1>4. CASE UNCHANGED <<revs, active, alias, ack>> /\ UNCHANGED <<tomb, journal>>
  BY <1>4
<1> QED BY <1>1, <1>2, <1>3, <1>4, StoreChanges, TombChanges

(* A capture under way belongs to an owner that has come.                  *)
LEMMA FencedStep ==
  ASSUME TypeOK, Fenced, [Next]_vars
  PROVE  Fenced'
<1> USE DEF Fenced
<1>1. CASE \E k \in Owner : CaptureStep(k)
  <2> PICK k \in Owner : CaptureStep(k) BY <1>1
  <2>1. lease' = lease /\ \A j \in Owner \ {k} : cap'[j] = cap[j]
    BY CaptureFrame
  <2>2. k <= lease
    BY IdleAt DEF CaptureStep, Discover, Read, Look, Prove, Preserve, Publish, Refuse, Abandon, At
  <2> QED BY <2>1, <2>2
<1>2. CASE ~(\E k \in Owner : CaptureStep(k))
  <2>1. lease' = lease \/ lease' = lease + 1
    BY <1>2, OtherFrame DEF Overtake, Forget
  <2>2. lease \in Nat /\ Owner \subseteq Nat BY BoundAssumption DEF TypeOK, Owner
  <2>3. \A k \in Owner : k <= lease => k <= lease' BY <2>1, <2>2
  <2> QED BY <1>2, <2>3, OtherFrame
<1> QED BY <1>1, <1>2

(* The revision expected by the present owner's capture stays the active one.*)
LEMMA ExpectedStep ==
  ASSUME TypeOK, Fenced, Expected, [Next]_vars
  PROVE  Expected'
<1> SUFFICES ASSUME NEW k \in Owner, Current(k, Started)'
             PROVE  active'[cap'[k].src] = cap'[k].expect
  BY DEF Expected
<1>1. k = lease' /\ cap'[k].at \in Started /\ tomb'[cap'[k].src] = "none"
  BY DEF Current
<1>2. CASE \E j \in Owner : CaptureStep(j)
  <2> PICK j \in Owner : CaptureStep(j) BY <1>2
  <2>1. lease' = lease /\ tomb' = tomb /\ \A i \in Owner \ {j} : cap'[i] = cap[i]
    BY CaptureFrame
  <2>2. CASE j # k
    <3>1. UNCHANGED active
      BY <2>1, <2>2, <1>1 DEF CaptureStep, Discover, Read, Look, Prove, Preserve, Publish, Refuse,
         Abandon, storeVars
    <3> QED BY <3>1, <2>1, <2>2, <1>1 DEF Expected, Current
  <2>3. CASE j = k
    <3>1. CASE \E full \in BOOLEAN : Look(k, full)
      <4>1. cap[k] \in Capture BY <3>1, CaptureAt DEF Look, At
      <4>2. cap'[k] = [cap[k] EXCEPT !.at = "parsing", !.expect = active[cap[k].src]]
        BY <3>1, <1>1 DEF Look, TypeOK, Idle, Started
      <4> QED BY <3>1, <4>1, <4>2 DEF Look, Capture, storeVars
    <3>2. CASE Prove(k) \/ Preserve(k)
      <4>1. cap[k] \in Capture /\ cap[k].at \in Started
        BY <3>2, CaptureAt DEF Prove, Preserve, At, Started
      <4>2. cap'[k].src = cap[k].src /\ cap'[k].expect = cap[k].expect /\ active' = active
        <5>1. CASE Prove(k)
          <6>1. cap'[k] # Idle BY <1>1 DEF Idle, Started
          <6> QED BY <5>1, <6>1, ProveSteps
        <5>2. CASE Preserve(k)
          BY <5>2, <4>1, <1>1 DEF Preserve, TypeOK, Capture, storeVars
        <5> QED BY <3>2, <5>1, <5>2
      <4> QED BY <4>1, <4>2, <2>1, <1>1 DEF Expected, Current
    <3>3. cap'[k].at \notin Started \/ Prove(k) \/ Preserve(k) \/ \E full \in BOOLEAN : Look(k, full)
      <4>1. CASE \E s \in Source : Discover(k, s)
        BY <4>1 DEF Discover, TypeOK, Started
      <4>2. CASE Read(k)
        <5>1. cap[k] \in Capture BY <4>2, CaptureAt DEF Read, At
        <5> QED BY <4>2, <5>1 DEF Read, TypeOK, Started, Idle, Capture
      <4>3. CASE Publish(k) \/ Refuse(k) \/ Abandon(k)
        BY <4>3 DEF Publish, Refuse, Abandon, TypeOK, Started, Idle
      <4> QED BY <2>3, <4>1, <4>2, <4>3 DEF CaptureStep
    <3> QED BY <3>1, <3>2, <3>3, <1>1
  <2> QED BY <2>2, <2>3
<1>3. CASE ~(\E j \in Owner : CaptureStep(j))
  <2>1. UNCHANGED cap BY <1>3, OtherFrame
  <2>2. cap[k] \in Capture BY <2>1, <1>1, CaptureAt DEF Started
  <2>3. CASE Overtake
    <3>1. lease \in Nat /\ k = lease + 1 BY <2>3, <1>1, BoundAssumption DEF Overtake, TypeOK, Owner
    <3>2. ~(k <= lease) BY <3>1
    <3> QED BY <3>2, <2>1, <1>1, IdleAt DEF Fenced, Started
  <2>4. CASE \E s \in Source : Forget(s)
    <3> PICK s \in Source : Forget(s) BY <2>4
    <3>1. tomb'[s] # "none" /\ lease' = lease /\ tomb' = [tomb EXCEPT ![s] = tomb'[s]]
      BY DEF Forget, TypeOK
    <3>2. s # cap[k].src BY <3>1, <1>1, <2>1
    <3>3. active'[cap[k].src] = active[cap[k].src] /\ tomb'[cap[k].src] = tomb[cap[k].src]
      BY <3>2, <2>2 DEF Forget, TypeOK, Capture
    <3> QED BY <3>1, <3>3, <2>1, <1>1 DEF Expected, Current
  <2>5. CASE UNCHANGED <<lease, active>> /\ \A s \in Source : tomb'[s] = "none" => tomb[s] = "none"
    BY <2>5, <2>1, <2>2, <1>1 DEF Expected, Current, Capture
  <2> QED BY <1>3, <2>3, <2>4, <2>5, OtherFrame
<1> QED BY <1>2, <1>3

(* The active and the acknowledged contents stay retained.                 *)
LEMMA ActiveStep ==
  ASSUME TypeOK, ActiveIsRevision, [Next]_vars
  PROVE  ActiveIsRevision'
<1> USE DEF ActiveIsRevision
<1>1. CASE \E k \in Owner : Publish(k)
  <2> PICK k \in Owner : Publish(k) BY <1>1
  <2>1. cap[k] \in Capture BY CaptureAt DEF Publish, At
  <2>2. cap[k].src \in Source BY <2>1 DEF Capture
  <2>3. \A s \in Source : revs[s] \subseteq revs'[s] BY <2>2 DEF Publish, TypeOK
  <2>4. CASE UNCHANGED <<active, ack>> BY <2>3, <2>4
  <2>5. CASE Activate(cap[k]) BY <2>2, <2>5 DEF Publish, Activate, TypeOK
  <2> QED BY <2>4, <2>5 DEF Publish, ReportConflict, KeepNewer
<1>2. CASE \E s \in Source : Forget(s)
  BY <1>2 DEF Forget, TypeOK
<1>3. CASE UNCHANGED <<revs, active, alias, ack>>
  BY <1>3
<1> QED BY <1>1, <1>2, <1>3, StoreChanges

(* What a capture has read, and of what, stays as it is until it ends.     *)
LEMMA RawKept ==
  ASSUME TypeOK, NEW k \in Owner, CaptureStep(k), ~Read(k), cap'[k].at \in {"read"} \cup Started
  PROVE  /\ cap[k].at \in {"read"} \cup Started
         /\ cap'[k].raw = cap[k].raw /\ cap'[k].src = cap[k].src
<1>1. CASE \E full \in BOOLEAN : Look(k, full)
  <2>1. cap[k] \in Capture BY <1>1, CaptureAt DEF Look, At
  <2>2. cap'[k] = [cap[k] EXCEPT !.at = "parsing", !.expect = active[cap[k].src]]
    BY <1>1 DEF Look, TypeOK, Idle, Started
  <2> QED BY <1>1, <2>1, <2>2 DEF Look, At, Capture
<1>2. CASE Prove(k)
  <2>1. cap'[k] # Idle BY DEF Idle, Started
  <2> QED BY <1>2, <2>1, ProveSteps DEF Prove, At, Started
<1>3. CASE Preserve(k)
  <2>1. cap[k] \in Capture BY <1>3, CaptureAt DEF Preserve, At
  <2> QED BY <1>3, <2>1 DEF Preserve, At, TypeOK, Capture, Started
<1>4. ~(\E s \in Source : Discover(k, s))
  BY DEF Discover, TypeOK, Started
<1>5. ~(Publish(k) \/ Refuse(k) \/ Abandon(k))
  BY DEF Publish, Refuse, Abandon, TypeOK, Started, Idle
<1> QED BY <1>1, <1>2, <1>3, <1>4, <1>5 DEF CaptureStep

(* Every content stays one that a live transcript or its copy had.         *)
LEMMA ProvenanceStep ==
  ASSUME TypeOK, Provenance, [Next]_vars
  PROVE  Provenance'
<1> USE DEF fileVars, storeVars, forgetVars
<1>1. CASE \E k \in Owner : CaptureStep(k)
  <2> PICK k \in Owner : CaptureStep(k) BY <1>1
  <2>1. UNCHANGED <<live, arch, tomb, journal, lease, resc>> /\ \A j \in Owner \ {k} : cap'[j] = cap[j]
    BY CaptureFrame
  <2>2. \A s \in Source : revs'[s] \subseteq Holds[s]
    <3>1. CASE Publish(k)
      <4>1. cap[k] \in Capture /\ cap[k].raw \in Holds[cap[k].src]
        BY <3>1, CaptureAt DEF Publish, At, Provenance, Started
      <4> QED BY <3>1, <4>1 DEF Publish, TypeOK, Capture, Provenance
    <3>2. CASE ~Publish(k)
      <4>1. revs' = revs
        BY <3>2 DEF CaptureStep, Discover, Read, Look, Prove, Preserve, Refuse, Abandon
      <4> QED BY <4>1 DEF Provenance
    <3> QED BY <3>1, <3>2
  <2>3. cap'[k].at \in {"read"} \cup Started => cap'[k].raw \in Holds[cap'[k].src]
    <3>1. CASE Read(k)
      <4> DEFINE s == cap[k].src
                 bytes == IF cap[k].from = "live" THEN live[s] ELSE arch[s]
      <4>1. cap[k] \in Capture BY <3>1, CaptureAt DEF Read, At
      <4>2. bytes \in Holds[s] \cup {None} BY <4>1 DEF Provenance, Capture
      <4>3. cap'[k] = Idle \/ (bytes # None /\ cap'[k] = [cap[k] EXCEPT !.at = "read", !.raw = bytes])
        BY <3>1 DEF Read, TypeOK
      <4>4. CASE cap'[k] = Idle BY <4>4 DEF Idle, Started
      <4>5. CASE bytes # None /\ cap'[k] = [cap[k] EXCEPT !.at = "read", !.raw = bytes]
        <5>1. cap'[k].raw = bytes /\ cap'[k].src = s BY <4>1, <4>5 DEF Capture
        <5> QED BY <5>1, <4>2, <4>5
      <4> QED BY <4>3, <4>4, <4>5
    <3>2. CASE ~Read(k)
      BY <3>2, RawKept DEF Provenance
    <3> QED BY <3>1, <3>2
  <2> QED BY <2>1, <2>2, <2>3 DEF Provenance
<1>2. CASE \E s \in Source : Harness(s)
  <2> PICK s \in Source : Harness(s) BY <1>2
  <2>1. live'[s] \in Holds[s] \cup {None} /\ \A t \in Source \ {s} : live'[t] = live[t]
    BY DEF Harness, Appended, TypeOK
  <2> QED BY <2>1 DEF Harness, Provenance
<1>3. CASE \E s \in Source : Forget(s)
  <2> PICK s \in Source : Forget(s) BY <1>3
  <2>1. journal'[s] \subseteq revs[s] \cup {s} /\ \A t \in Source \ {s} : journal'[t] = journal[t]
    BY DEF Forget, OwnArtifacts, OwnCopy, TypeOK
  <2>2. \A t \in Source : revs'[t] \subseteq revs[t] BY DEF Forget, TypeOK
  <2> QED BY <2>1, <2>2 DEF Forget, Provenance
<1>4. CASE \E s \in Source : Settle(s)
  BY <1>4 DEF Settle, TypeOK, Provenance
<1>5. CASE \E s \in Source, f \in File : Unlink(s, f)
  BY <1>5 DEF Unlink, TypeOK, Provenance
<1>6. CASE \E s \in Source : AbandonCleanup(s)
  BY <1>6 DEF AbandonCleanup, Provenance
<1>7. CASE Overtake \/ UNCHANGED vars
  BY <1>7 DEF Overtake, vars, Provenance
<1>8. CASE RescueStep
  <2>1. UNCHANGED <<live, revs, journal, cap>>
    BY <1>8 DEF RescueStep, StartRescue, RescueFile, PlaceCopy, RecordCopy, AbandonCopy
  <2>2. CASE PlaceCopy
    <3>1. resc'.cur = resc.cur /\ resc'.copy = resc.copy BY <2>2 DEF PlaceCopy, TypeOK, Rescue
    <3>2. \A s \in Source : arch'[s] \in Holds[s] \cup {None}
      BY <2>2 DEF PlaceCopy, TypeOK, Provenance
    <3> QED BY <2>1, <3>1, <3>2 DEF Provenance
  <2>3. CASE \E s \in Source : RescueFile(s)
    <3> PICK s \in Source : RescueFile(s) BY <2>3
    <3>1. arch' = arch BY DEF RescueFile
    <3>2. CASE live[s] \in {None, arch[s]}
      BY <2>1, <3>1, <3>2 DEF RescueFile, TypeOK, Rescue, Provenance
    <3>3. CASE live[s] \notin {None, arch[s]}
      <4>1. live[s] \in Holds[s] BY <3>3 DEF Provenance
      <4>2. resc'.cur = s /\ resc'.copy = live[s] BY <3>3 DEF RescueFile, TypeOK, Rescue
      <4> QED BY <2>1, <3>1, <4>1, <4>2 DEF Provenance
    <3> QED BY <3>2, <3>3
  <2>4. CASE StartRescue
    BY <2>1, <2>4 DEF StartRescue, NoPass, Provenance
  <2>5. CASE RecordCopy \/ AbandonCopy
    <3>1. arch' = arch /\ resc' \in {NoPass, [NoPass EXCEPT !.todo = resc.todo \ {resc.cur}]}
      BY <2>5 DEF RecordCopy, AbandonCopy
    <3>2. resc'.cur = None BY <3>1 DEF NoPass
    <3> QED BY <2>1, <3>1, <3>2 DEF Provenance
  <2> QED BY <1>8, <2>2, <2>3, <2>4, <2>5 DEF RescueStep
<1> QED BY <1>1, <1>2, <1>3, <1>4, <1>5, <1>6, <1>7, <1>8, NextCases

(* Retained revisions keep their artifacts where sources share no bytes.   *)
LEMMA KeptStep ==
  ASSUME Distinct, TypeOK, Forgotten, Provenance, Kept, [Next]_vars
  PROVE  Kept'
<1> USE DEF fileVars, storeVars, forgetVars
<1>1. CASE \E k \in Owner : CaptureStep(k)
  <2> PICK k \in Owner : CaptureStep(k) BY <1>1
  <2>1. tomb' = tomb /\ \A j \in Owner \ {k} : cap'[j] = cap[j]
    BY CaptureFrame
  <2>2. evid \subseteq evid'
    BY DEF CaptureStep, Discover, Read, Look, Prove, Preserve, Publish, Refuse, Abandon
  <2>3. \A s \in Source : revs'[s] \subseteq evid'
    <3>1. CASE Publish(k)
      <4>1. cap[k] \in Capture /\ cap[k].raw \in evid
        BY <3>1, CaptureAt DEF Publish, Refused, At, Kept
      <4> QED BY <3>1, <4>1, <2>2 DEF Publish, TypeOK, Capture, Kept, RevisionsKeepBytes
    <3>2. CASE ~Publish(k)
      <4>1. revs' = revs
        BY <3>2 DEF CaptureStep, Discover, Read, Look, Prove, Preserve, Refuse, Abandon
      <4> QED BY <4>1, <2>2 DEF Kept, RevisionsKeepBytes
    <3> QED BY <3>1, <3>2
  <2>4. cap'[k].at = "preserved" => cap'[k].raw \in evid'
    <3> SUFFICES ASSUME cap'[k].at = "preserved" PROVE cap'[k].raw \in evid'
      OBVIOUS
    <3>1. Preserve(k)
      <4>1. CASE \E s \in Source : Discover(k, s)
        BY <4>1 DEF Discover, TypeOK
      <4>2. CASE Read(k)
        <5>1. cap[k] \in Capture BY <4>2, CaptureAt DEF Read, At
        <5> QED BY <4>2, <5>1 DEF Read, TypeOK, Idle, Capture
      <4>3. CASE \E full \in BOOLEAN : Look(k, full)
        <5>1. cap[k] \in Capture BY <4>3, CaptureAt DEF Look, At
        <5> QED BY <4>3, <5>1 DEF Look, TypeOK, Idle, Capture
      <4>4. CASE Prove(k)
        <5>1. cap'[k] # Idle BY DEF Idle
        <5> QED BY <4>4, <5>1, ProveSteps
      <4>5. CASE Publish(k) \/ Refuse(k) \/ Abandon(k)
        BY <4>5 DEF Publish, Refuse, Abandon, TypeOK, Idle
      <4> QED BY <4>1, <4>2, <4>3, <4>4, <4>5 DEF CaptureStep
    <3>2. cap[k] \in Capture BY <3>1, CaptureAt DEF Preserve, At
    <3> QED BY <3>1, <3>2 DEF Preserve, TypeOK, Capture
  <2> QED BY <2>1, <2>2, <2>3, <2>4 DEF Kept, RevisionsKeepBytes
<1>2. CASE ~(\E k \in Owner : CaptureStep(k))
  <2>1. cap' = cap BY <1>2, OtherFrame
  <2>2. \A s \in Source : tomb'[s] = "none" => tomb[s] = "none"
    BY <1>2, OtherFrame DEF Overtake, Forget, TypeOK
  <2>3. \A s \in Source : revs'[s] \subseteq revs[s]
    <3>1. CASE \E k \in Owner : Publish(k) BY <1>2, <3>1 DEF CaptureStep
    <3>2. CASE \E s \in Source : Forget(s) BY <3>2 DEF Forget, TypeOK
    <3>3. CASE revs' = revs BY <3>3
    <3> QED BY <3>1, <3>2, <3>3, StoreChanges
  <2>4. \A k \in Owner : cap[k].at = "preserved" => cap[k].src \in Source /\ cap[k].raw \in Content
    BY CaptureAt DEF TypeOK, Capture, Maybe
  <2>5. CASE \E s \in Source, f \in File : Unlink(s, f)
    <3> PICK s \in Source, f \in File : Unlink(s, f) BY <2>5
    <3>1. tomb[s] = "pending" /\ f \in Holds[s] \cup {s} /\ evid' = evid \ {f}
      BY DEF Unlink, Provenance
    <3>2. \A t \in Source, x \in Content : tomb[t] = "none" /\ x \in Holds[t] => x # f
      BY <3>1, ContentAssumption DEF Distinct
    <3>3. \A t \in Source : tomb[t] # "none" => revs[t] = {}
      BY DEF Forgotten, ForgottenStaysForgotten
    <3>4. \A t \in Source : revs[t] \subseteq evid'
      BY <3>1, <3>2, <3>3 DEF Kept, RevisionsKeepBytes, Provenance, TypeOK
    <3>5. \A k \in Owner : cap[k].at = "preserved" /\ tomb[cap[k].src] = "none" => cap[k].raw \in evid'
      BY <3>1, <3>2, <2>4 DEF Kept, Provenance, Started
    <3> QED BY <2>1, <2>2, <2>3, <2>4, <3>4, <3>5 DEF Kept, RevisionsKeepBytes
  <2>6. CASE ~(\E s \in Source, f \in File : Unlink(s, f))
    <3>1. evid' = evid
      <4>1. CASE RescueStep
        BY <4>1 DEF RescueStep, StartRescue, RescueFile, PlaceCopy, RecordCopy, AbandonCopy
      <4> QED BY <1>2, <2>6, <4>1, NextCases DEF Harness, Forget, Settle, AbandonCleanup, Overtake, vars
    <3> QED BY <2>1, <2>2, <2>3, <2>4, <3>1 DEF Kept, RevisionsKeepBytes
  <2> QED BY <2>5, <2>6
<1> QED BY <1>1, <1>2

(* A prefix proof in hand stays true until its capture publishes.          *)
LEMMA PrefixProofStep ==
  ASSUME TypeOK, Fenced, Expected, ActiveIsRevision, Kept, PrefixProof, [Next]_vars
  PROVE  PrefixProof'
<1> SUFFICES ASSUME NEW k \in Owner, Current(k, Proved)', active'[cap'[k].src] # None
             PROVE  LET c == cap'[k]  a == active'[cap'[k].src] IN
                    /\ a \in c.compat <=> Related(a, c.raw)
                    /\ c.older <=> c.raw \in Shorter[a]
  BY DEF PrefixProof, Related
<1>1. k = lease' /\ cap'[k].at \in Proved /\ tomb'[cap'[k].src] = "none"
  BY DEF Current
<1>2. CASE \E j \in Owner : CaptureStep(j)
  <2> PICK j \in Owner : CaptureStep(j) BY <1>2
  <2>1. lease' = lease /\ tomb' = tomb /\ \A i \in Owner \ {j} : cap'[i] = cap[i]
    BY CaptureFrame
  <2>2. CASE j # k
    <3>1. UNCHANGED active
      BY <2>1, <2>2, <1>1 DEF CaptureStep, Discover, Read, Look, Prove, Preserve, Publish, Refuse,
         Abandon, storeVars
    <3> QED BY <3>1, <2>1, <2>2, <1>1 DEF PrefixProof, Current
  <2>3. CASE j = k /\ Prove(k)
    <3>1. cap'[k] # Idle BY <1>1 DEF Idle, Proved
    <3> DEFINE s == cap[k].src
    <3>2. /\ cap[k] \in Capture /\ active' = active
          /\ cap'[k].src = s /\ cap'[k].raw = cap[k].raw
          /\ cap'[k].compat = {x \in revs[s] : x \in evid /\ Related(x, cap[k].raw)}
          /\ cap'[k].older <=> (active[s] \in cap'[k].compat /\ cap[k].raw \in Shorter[active[s]])
      BY <2>3, <3>1, ProveSteps
    <3>3. active[s] \in revs[s] /\ active[s] \in evid
      BY <3>2 DEF ActiveIsRevision, Kept, RevisionsKeepBytes, Capture
    <3> QED BY <3>2, <3>3 DEF Related
  <2>4. CASE j = k /\ Preserve(k)
    <3>1. cap[k] \in Capture BY <2>4, CaptureAt DEF Preserve, At
    <3>2. cap'[k] = [cap[k] EXCEPT !.at = "preserved"] /\ active' = active
      BY <2>4 DEF Preserve, TypeOK, storeVars
    <3>3. /\ cap'[k].src = cap[k].src /\ cap'[k].raw = cap[k].raw
          /\ cap'[k].compat = cap[k].compat /\ cap'[k].older = cap[k].older
      BY <3>1, <3>2 DEF Capture
    <3>4. Current(k, Proved) BY <2>1, <2>4, <3>3, <1>1 DEF Current, Preserve, At, Proved
    <3> QED BY <3>2, <3>3, <3>4 DEF PrefixProof
  <2>5. CASE j = k /\ ~Prove(k) /\ ~Preserve(k)
    <3>1. cap'[k].at \notin Proved
      <4>1. CASE \E s \in Source : Discover(k, s)
        BY <4>1 DEF Discover, TypeOK, Proved
      <4>2. CASE Read(k)
        <5>1. cap[k] \in Capture BY <4>2, CaptureAt DEF Read, At
        <5> QED BY <4>2, <5>1 DEF Read, TypeOK, Proved, Idle, Capture
      <4>3. CASE \E full \in BOOLEAN : Look(k, full)
        <5>1. cap[k] \in Capture BY <4>3, CaptureAt DEF Look, At
        <5> QED BY <4>3, <5>1 DEF Look, TypeOK, Proved, Idle, Capture
      <4>4. CASE Publish(k) \/ Refuse(k) \/ Abandon(k)
        BY <4>4 DEF Publish, Refuse, Abandon, TypeOK, Proved, Idle
      <4> QED BY <2>5, <4>1, <4>2, <4>3, <4>4 DEF CaptureStep
    <3> QED BY <3>1, <1>1
  <2> QED BY <2>2, <2>3, <2>4, <2>5
<1>3. CASE ~(\E j \in Owner : CaptureStep(j))
  <2>1. UNCHANGED cap BY <1>3, OtherFrame
  <2>2. cap[k] \in Capture BY <2>1, <1>1, CaptureAt DEF Proved
  <2>3. CASE Overtake
    <3>1. lease \in Nat /\ k = lease + 1 BY <2>3, <1>1, BoundAssumption DEF Overtake, TypeOK, Owner
    <3>2. ~(k <= lease) BY <3>1
    <3> QED BY <3>2, <2>1, <1>1, IdleAt DEF Fenced, Proved
  <2>4. CASE \E s \in Source : Forget(s)
    <3> PICK s \in Source : Forget(s) BY <2>4
    <3>1. tomb'[s] # "none" /\ lease' = lease
      BY DEF Forget, TypeOK
    <3>2. s # cap[k].src BY <3>1, <1>1, <2>1
    <3>3. active'[cap[k].src] = active[cap[k].src] /\ tomb'[cap[k].src] = tomb[cap[k].src]
      BY <3>2, <2>2 DEF Forget, TypeOK, Capture
    <3> QED BY <3>1, <3>3, <2>1, <1>1 DEF PrefixProof, Current
  <2>5. CASE UNCHANGED <<lease, active>> /\ \A s \in Source : tomb'[s] = "none" => tomb[s] = "none"
    BY <2>5, <2>1, <2>2, <1>1 DEF PrefixProof, Current, Capture
  <2> QED BY <1>3, <2>3, <2>4, <2>5, OtherFrame
<1> QED BY <1>2, <1>3

-----------------------------------------------------------------------------
(* The invariant.                                                          *)

(* The initial states satisfy the invariant.                               *)
LEMMA InitIInv == Init => IInv
<1> SUFFICES ASSUME Init PROVE IInv
  OBVIOUS
<1>1. TypeOK BY InitTyped
<1>2. \A k \in Owner : cap[k] = Idle /\ cap[k].at = "idle" BY DEF Init, Idle
<1>3. Forgotten /\ ActiveIsRevision
  BY DEF Init, Forgotten, ForgottenStaysForgotten, ActiveIsRevision
<1>4. Fenced /\ Expected /\ PrefixProof
  BY <1>2 DEF Fenced, Expected, PrefixProof, Current, Started, Proved
<1>5. Provenance
  BY <1>2 DEF Init, Provenance, Started, NoPass
<1>6. Kept
  BY <1>2 DEF Init, Kept, RevisionsKeepBytes
<1> QED BY <1>1, <1>3, <1>4, <1>5, <1>6 DEF IInv

(* The invariant is inductive: every step of captures, rescue, cleanup and *)
(* the harness preserves it.                                               *)
THEOREM Inductive == IInv /\ [Next]_vars => IInv'
<1> SUFFICES ASSUME IInv, [Next]_vars PROVE IInv'
  OBVIOUS
<1>1. TypeOK /\ Forgotten /\ Fenced /\ Expected /\ ActiveIsRevision /\ Provenance
  BY DEF IInv
<1>2. TypeOK' BY <1>1, NextTyped
<1>3. Forgotten' BY <1>1, ForgottenStep
<1>4. Fenced' BY <1>1, FencedStep
<1>5. Expected' BY <1>1, ExpectedStep
<1>6. ActiveIsRevision' BY <1>1, ActiveStep
<1>7. Provenance' BY <1>1, ProvenanceStep
<1>8. ASSUME Distinct PROVE Kept' /\ PrefixProof'
  <2>1. Kept /\ PrefixProof BY <1>8 DEF IInv
  <2> QED BY <1>1, <1>8, <2>1, KeptStep, PrefixProofStep
<1>9. Distinct' <=> Distinct BY DEF Distinct
<1> QED BY <1>2, <1>3, <1>4, <1>5, <1>6, <1>7, <1>8, <1>9 DEF IInv

(* The invariant holds in every reachable state.                           *)
LEMMA AlwaysIInv == Spec => []IInv
BY InitIInv, Inductive, PTL DEF Spec

(* Every reachable state is well typed.                                    *)
THEOREM TypeCorrect == Spec => []TypeOK
<1>1. IInv => TypeOK BY DEF IInv
<1> QED BY <1>1, AlwaysIInv, PTL

(* No capture in flight, of whichever owner, brings a forgotten source     *)
(* back into the store.                                                    *)
THEOREM StaysForgotten == Spec => []ForgottenStaysForgotten
<1>1. IInv => ForgottenStaysForgotten BY DEF IInv, Forgotten
<1> QED BY <1>1, AlwaysIInv, PTL

(* Bytes are skipped only if they are the active evidence.                 *)
THEOREM AcknowledgedActive == Spec => []AcknowledgedIsActive
<1>1. IInv => AcknowledgedIsActive BY DEF IInv, ActiveIsRevision, AcknowledgedIsActive
<1> QED BY <1>1, AlwaysIInv, PTL

(* If no two sources share bytes, forgetting one never takes the artifact  *)
(* of a revision of another.                                               *)
THEOREM RevisionsKept ==
  ASSUME Distinct
  PROVE  Spec => []RevisionsKeepBytes
<1>1. IInv => RevisionsKeepBytes BY DEF IInv, Kept
<1> QED BY <1>1, AlwaysIInv, PTL

(* Publishing from the archive does not replace evidence it is no extension of.*)
LEMMA ArchiveYieldsStep ==
  ASSUME Distinct, IInv, [Next]_vars
  PROVE  ArchiveYields
<1>0. TypeOK /\ ActiveIsRevision /\ PrefixProof BY DEF IInv
<1> SUFFICES ASSUME NEW k \in Owner, At(k, "preserved"), cap'[k] = Idle, cap[k].from = "archive",
                    active[cap[k].src] # None,
                    active'[cap[k].src] \notin {None, active[cap[k].src]}
             PROVE  /\ active'[cap[k].src] \notin Shorter[active[cap[k].src]]
                    /\ alias[cap[k].src]["live"] = active[cap[k].src]
                         => active[cap[k].src] \in Shorter[active'[cap[k].src]]
  BY DEF ArchiveYields
<1> DEFINE c == cap[k]  s == cap[k].src
<1>1. cap[k] \in Capture /\ s \in Source
  BY <1>0, CaptureAt DEF At, Capture
<1>2. Publish(k)
  <2>1. CASE \E j \in Owner : Publish(j)
    <3> PICK j \in Owner : Publish(j) BY <2>1
    <3>1. CASE j # k
      <4>1. cap'[k] = cap[k] BY <3>1 DEF Publish, TypeOK
      <4> QED BY <4>1 DEF At, Idle
    <3> QED BY <3>1
  <2>2. CASE \E t \in Source : Forget(t)
    BY <1>0, <1>1, <2>2 DEF Forget, TypeOK
  <2>3. CASE UNCHANGED <<revs, active, alias, ack>>
    BY <2>3
  <2> QED BY <2>1, <2>2, <2>3, StoreChanges
<1>3. ~Conflict(c) /\ ~OlderPrefix(c) /\ active'[s] = c.raw
  BY <1>0, <1>1, <1>2 DEF Publish, ReportConflict, KeepNewer, Activate, TypeOK
<1>4. (active[s] \in c.compat <=> Related(active[s], c.raw)) /\ (c.older <=> c.raw \in Shorter[active[s]])
  BY <1>0, <1>2 DEF PrefixProof, Current, Proved, Publish, Refused, At
<1>5. c.raw \notin Shorter[active[s]]
  BY <1>3, <1>4 DEF OlderPrefix, Related
<1>6. ASSUME alias[s]["live"] = active[s] PROVE active[s] \in Shorter[c.raw]
  <2>1. active[s] \in c.compat
    BY <1>3, <1>6 DEF Conflict, Other
  <2> QED BY <2>1, <1>3, <1>4, <1>5 DEF Related
<1> QED BY <1>3, <1>5, <1>6

(* ... and an archive copy never takes the place of newer evidence, nor of *)
(* a live file it diverges from.                                           *)
THEOREM NewestStays ==
  ASSUME Distinct
  PROVE  Spec => NewestEvidenceStays
<1>1. IInv /\ [Next]_vars => [ArchiveYields]_vars
  BY ArchiveYieldsStep
<1> QED BY <1>1, AlwaysIInv, PTL DEF Spec, NewestEvidenceStays

-----------------------------------------------------------------------------
(* A transcript that only grows.                                           *)

(* The bytes of a source that are somewhere: on one of its paths, in the   *)
(* store, or in the hands of a capture or a rescue.                        *)
Saw(s, x) ==
  /\ x # None
  /\ \/ x \in {live[s], arch[s], active[s]}
     \/ \E k \in Owner : cap[k] # Idle /\ cap[k].src = s /\ cap[k].raw = x
     \/ resc.cur = s /\ resc.copy = x

AtMost(x, y) == x = y \/ x \in Shorter[y]

(* They are all moments of one history, and the live file is the last.     *)
OneHistory ==
  \A s \in AppendOnly : \A x \in Content : Saw(s, x) =>
    /\ \A y \in Content : Saw(s, y) => Related(x, y)
    /\ live[s] # None => AtMost(x, live[s])

(* While the lease is its own, nothing newer than the live file a capture  *)
(* has read can have been published.                                       *)
Ahead ==
  \A k \in Owner : LET c == cap[k] IN
    /\ k = lease /\ c.at \in {"read"} \cup Started /\ c.from = "live"
    /\ c.src \in AppendOnly /\ active[c.src] # None
    => AtMost(active[c.src], c.raw)

GrowthInv == OneHistory /\ Ahead

(* The initial states satisfy the invariant on growing transcripts.        *)
LEMMA InitGrowth == Init => GrowthInv
<1> SUFFICES ASSUME Init PROVE GrowthInv
  OBVIOUS
<1>1. \A k \in Owner : cap[k] = Idle /\ cap[k].at = "idle"
  BY DEF Init, Idle
<1>2. \A s \in AppendOnly, x \in Content : Saw(s, x) => x = live[s]
  BY <1>1, ContentAssumption DEF Init, Saw, NoPass, ContentAssumption
<1> QED BY <1>1, <1>2 DEF GrowthInv, OneHistory, Ahead, Started, AtMost, Related

(* Bytes come from the transcript: a step that shows new ones is a step of *)
(* the harness.                                                            *)
LEMMA SawStep ==
  ASSUME TypeOK, [Next]_vars, NEW s \in Source, NEW x, Saw(s, x)'
  PROVE  Saw(s, x) \/ (x = live'[s] /\ live'[s] # live[s])
<1> USE DEF fileVars, storeVars, forgetVars
<1>1. CASE \E k \in Owner : CaptureStep(k)
  <2> PICK k \in Owner : CaptureStep(k) BY <1>1
  <2>1. /\ UNCHANGED <<live, arch, resc>>
        /\ \A j \in Owner \ {k} : cap'[j] = cap[j]
    BY CaptureFrame
  <2>2. ASSUME cap'[k] # Idle, cap'[k].src = s, cap'[k].raw = x PROVE Saw(s, x)
    <3>1. CASE \E t \in Source : Discover(k, t)
      BY <2>2, <3>1 DEF Discover, TypeOK, Saw
    <3>2. CASE Read(k)
      <4>1. cap[k] \in Capture BY <3>2, CaptureAt DEF Read, At
      <4>2. \E bytes \in {live[cap[k].src], arch[cap[k].src]} :
               cap'[k] = [cap[k] EXCEPT !.at = "read", !.raw = bytes]
        BY <2>2, <3>2 DEF Read, TypeOK
      <4> QED BY <2>2, <4>1, <4>2 DEF Capture, Saw
    <3>3. CASE \E full \in BOOLEAN : Look(k, full)
      <4>1. cap[k] \in Capture BY <3>3, CaptureAt DEF Look, At
      <4>2. cap'[k] = [cap[k] EXCEPT !.at = "parsing", !.expect = active[cap[k].src]]
        BY <2>2, <3>3 DEF Look, TypeOK
      <4> QED BY <2>2, <4>1, <4>2, IdleAt, <3>3 DEF Capture, Saw, Look, At
    <3>4. CASE Prove(k)
      BY <2>2, <3>4, ProveSteps, IdleAt DEF Saw, Prove, At
    <3>5. CASE Preserve(k)
      <4>1. cap[k] \in Capture BY <3>5, CaptureAt DEF Preserve, At
      <4>2. cap'[k] = [cap[k] EXCEPT !.at = "preserved"]
        BY <3>5 DEF Preserve, TypeOK
      <4> QED BY <2>2, <4>1, <4>2, IdleAt, <3>5 DEF Capture, Saw, Preserve, At
    <3>6. CASE Publish(k) \/ Refuse(k) \/ Abandon(k)
      BY <2>2, <3>6 DEF Publish, Refuse, Abandon, TypeOK
    <3> QED BY <3>1, <3>2, <3>3, <3>4, <3>5, <3>6 DEF CaptureStep
  <2>3. ASSUME active'[s] = x PROVE Saw(s, x)
    <3>1. x # None BY DEF Saw
    <3>2. CASE Publish(k)
      <4>1. active' = active \/ active' = [active EXCEPT ![cap[k].src] = cap[k].raw]
        BY <3>2 DEF Publish, ReportConflict, KeepNewer, Activate
      <4>2. CASE active'[s] = active[s]
        BY <2>3, <3>1, <4>2 DEF Saw
      <4>3. CASE active'[s] # active[s]
        <5>1. s = cap[k].src /\ x = cap[k].raw BY <2>3, <4>1, <4>3 DEF TypeOK
        <5> QED BY <3>1, <3>2, <5>1, IdleAt DEF Saw, Publish, At
      <4> QED BY <4>2, <4>3
    <3>3. CASE ~Publish(k)
      <4>1. UNCHANGED active
        BY <3>3 DEF CaptureStep, Discover, Read, Look, Prove, Preserve, Refuse, Abandon
      <4> QED BY <2>3, <3>1, <4>1 DEF Saw
    <3> QED BY <3>2, <3>3
  <2> QED BY <2>1, <2>2, <2>3 DEF Saw
<1>2. CASE ~\E k \in Owner : CaptureStep(k)
  <2>1. UNCHANGED cap BY <1>2, OtherFrame
  <2>2. CASE RescueStep
    <3>1. UNCHANGED <<live, active>>
      BY <2>2 DEF RescueStep, StartRescue, RescueFile, PlaceCopy, RecordCopy, AbandonCopy
    <3>2. arch'[s] \in {arch[s], resc.copy} /\ (arch'[s] # arch[s] => resc.cur = s)
      BY <2>2 DEF RescueStep, StartRescue, RescueFile, PlaceCopy, RecordCopy, AbandonCopy, TypeOK
    <3>3. resc'.cur = s => \/ resc'.copy = resc.copy /\ resc.cur = s
                           \/ resc'.copy = live[s]
      <4>1. resc \in Rescue BY DEF TypeOK
      <4>2. CASE \E t \in Source : RescueFile(t)
        <5> PICK t \in Source : RescueFile(t) BY <4>2
        <5>1. \/ resc' = [resc EXCEPT !.todo = @ \ {t}] /\ resc.cur = None
              \/ resc' = [resc EXCEPT !.cur = t, !.copy = live[t]]
          BY DEF RescueFile
        <5>2. \/ resc'.cur = None
              \/ resc'.cur = t /\ resc'.copy = live[t]
          BY <4>1, <5>1 DEF Rescue
        <5> QED BY <5>2, ContentAssumption DEF ContentAssumption
      <4>3. CASE StartRescue \/ RecordCopy \/ AbandonCopy
        BY <4>3, ContentAssumption DEF StartRescue, RecordCopy, AbandonCopy, NoPass, ContentAssumption
      <4>4. CASE PlaceCopy
        BY <4>1, <4>4 DEF PlaceCopy, Rescue
      <4> QED BY <2>2, <4>2, <4>3, <4>4 DEF RescueStep
    <3> QED BY <2>1, <3>1, <3>2, <3>3 DEF Saw
  <2>3. CASE \E t \in Source : Forget(t)
    <3>1. active'[s] \in {active[s], None} /\ UNCHANGED <<live, arch, resc>>
      BY <2>3 DEF Forget, TypeOK
    <3> QED BY <2>1, <3>1 DEF Saw
  <2>4. CASE \E t \in Source : Harness(t)
    BY <2>1, <2>4 DEF Harness, Saw
  <2>5. CASE \E t \in Source, f \in File : Unlink(t, f)
    <3>1. arch'[s] \in {arch[s], None} /\ UNCHANGED <<live, active, resc>>
      BY <2>5 DEF Unlink, TypeOK
    <3> QED BY <2>1, <3>1 DEF Saw
  <2>6. CASE \E t \in Source : Settle(t) \/ AbandonCleanup(t)
    BY <2>1, <2>6 DEF Settle, AbandonCleanup, Saw
  <2>7. CASE Overtake \/ UNCHANGED vars
    BY <2>1, <2>7 DEF Overtake, vars, Saw
  <2> QED BY <1>2, <2>2, <2>3, <2>4, <2>5, <2>6, <2>7, NextCases
<1> QED BY <1>1, <1>2

(* The harness only appends to such a transcript, or removes it.           *)
LEMMA LiveStep ==
  ASSUME TypeOK, [Next]_vars, NEW s \in AppendOnly
  PROVE  \/ live'[s] \in {live[s], None}
         \/ live[s] # None /\ live'[s] \in Content /\ live[s] \in Shorter[live'[s]]
<1> USE DEF fileVars, storeVars, forgetVars
<1>1. CASE \E t \in Source : Harness(t)
  <2> PICK t \in Source : Harness(t) BY <1>1
  <2>1. CASE t # s
    BY <2>1, ContentAssumption DEF Harness, TypeOK, ContentAssumption
  <2>2. CASE t = s
    <3>1. live'[s] \in Appended(s) \cup {None}
      BY <2>2, ContentAssumption DEF Harness, TypeOK, ContentAssumption
    <3> QED BY <3>1, ContentAssumption DEF Appended, ContentAssumption
  <2> QED BY <2>1, <2>2
<1>2. CASE ~\E t \in Source : Harness(t)
  <2>1. UNCHANGED live
    <3>1. CASE \E k \in Owner : CaptureStep(k) BY <3>1, CaptureFrame
    <3>2. CASE RescueStep
      BY <3>2 DEF RescueStep, StartRescue, RescueFile, PlaceCopy, RecordCopy, AbandonCopy
    <3> QED BY <1>2, <3>1, <3>2, NextCases
            DEF Forget, Settle, AbandonCleanup, Unlink, Overtake, vars
  <2> QED BY <2>1
<1> QED BY <1>1, <1>2

(* Contents of an append-only source stay prefixes of one another.         *)
LEMMA HistoryStep ==
  ASSUME TypeOK, OneHistory, [Next]_vars
  PROVE  OneHistory'
<1> SUFFICES ASSUME NEW s \in AppendOnly, NEW x \in Content, Saw(s, x)'
             PROVE  /\ \A y \in Content : Saw(s, y)' => Related(x, y)
                    /\ live'[s] # None => AtMost(x, live'[s])
  BY DEF OneHistory, Related, AtMost
<1>1. s \in Source /\ live[s] \in Content \cup {None}
  BY ContentAssumption DEF ContentAssumption, TypeOK, Maybe
<1>2. \A y \in Content : Saw(s, y)' => Saw(s, y) \/ (y = live'[s] /\ live'[s] # live[s])
  BY <1>1, SawStep
<1>3. CASE live'[s] \in {live[s], None}
  BY <1>1, <1>2, <1>3, ContentAssumption DEF OneHistory, AtMost, ContentAssumption
<1>4. CASE live[s] # None /\ live'[s] \in Content /\ live[s] \in Shorter[live'[s]]
  <2>1. \A y \in Content : Saw(s, y) => y \in Shorter[live'[s]]
    <3> SUFFICES ASSUME NEW y \in Content, Saw(s, y) PROVE y \in Shorter[live'[s]]
      OBVIOUS
    <3>1. y = live[s] \/ y \in Shorter[live[s]] BY <1>4 DEF OneHistory, AtMost
    <3> QED BY <1>1, <1>4, <3>1, ContentAssumption DEF ContentAssumption
  <2>2. \A y \in Content : Saw(s, y)' => y = live'[s] \/ (Saw(s, y) /\ y \in Shorter[live'[s]])
    BY <1>2, <2>1
  <2>3. \A y \in Content : Saw(s, y)' => Related(x, y)
    BY <2>2 DEF OneHistory, Related
  <2> QED BY <2>2, <2>3 DEF AtMost
<1> QED BY <1>3, <1>4, LiveStep

(* A capture of the live transcript stays at or ahead of the active revision.*)
LEMMA AheadStep ==
  ASSUME TypeOK, Fenced, OneHistory, Ahead, [Next]_vars
  PROVE  Ahead'
<1> DEFINE Labels == {"read"} \cup Started
<1> SUFFICES ASSUME NEW k \in Owner, k = lease', cap'[k].at \in Labels, cap'[k].from = "live",
                    cap'[k].src \in AppendOnly, active'[cap'[k].src] # None
             PROVE  AtMost(active'[cap'[k].src], cap'[k].raw)
  BY DEF Ahead, AtMost
<1>0. cap'[k] # Idle BY DEF Idle, Started
<1>1. CASE \E j \in Owner : CaptureStep(j)
  <2> PICK j \in Owner : CaptureStep(j) BY <1>1
  <2>1. lease' = lease /\ live' = live /\ \A i \in Owner \ {j} : cap'[i] = cap[i]
    BY CaptureFrame
  <2>2. CASE j # k
    <3>1. UNCHANGED active
      BY <2>1, <2>2 DEF CaptureStep, Discover, Read, Look, Prove, Preserve, Publish, Refuse,
         Abandon, storeVars
    <3> QED BY <3>1, <2>1, <2>2 DEF Ahead
  <2>3. CASE j = k /\ Read(k)
    <3>1. cap[k] \in Capture BY <2>3, CaptureAt DEF Read, At
    <3> DEFINE s == cap[k].src
    <3>2. /\ cap'[k].src = s /\ cap'[k].from = cap[k].from /\ active' = active
          /\ cap'[k].raw = IF cap[k].from = "live" THEN live[s] ELSE arch[s]
      BY <1>0, <2>3, <3>1 DEF Read, TypeOK, Capture
    <3>3. s \in AppendOnly /\ active[s] # None /\ active[s] \in Content
      BY <3>1, <3>2 DEF TypeOK, Capture, Maybe
    <3>4. live[s] # None
      BY <1>0, <2>3, <3>1, <3>2 DEF Read, TypeOK
    <3> QED BY <3>2, <3>3, <3>4 DEF OneHistory, Saw
  <2>4. CASE j = k /\ ((\E full \in BOOLEAN : Look(k, full)) \/ Prove(k) \/ Preserve(k))
    <3>1. cap[k] \in Capture /\ cap[k].at \in Labels
      BY <2>4, CaptureAt DEF Look, Prove, Preserve, At, Started
    <3>2. active' = active
      BY <2>4 DEF Look, Prove, Preserve, storeVars
    <3>3. cap'[k].src = cap[k].src /\ cap'[k].from = cap[k].from /\ cap'[k].raw = cap[k].raw
      <4>1. CASE \E full \in BOOLEAN : Look(k, full)
        <5>1. cap'[k] = [cap[k] EXCEPT !.at = "parsing", !.expect = active[cap[k].src]]
          BY <1>0, <4>1 DEF Look, TypeOK
        <5> QED BY <3>1, <5>1 DEF Capture
      <4>2. CASE Prove(k)
        BY <1>0, <4>2, ProveSteps
      <4>3. CASE Preserve(k)
        <5>1. cap'[k] = [cap[k] EXCEPT !.at = "preserved"] BY <4>3 DEF Preserve, TypeOK
        <5> QED BY <3>1, <5>1 DEF Capture
      <4> QED BY <2>4, <4>1, <4>2, <4>3
    <3> QED BY <2>1, <3>1, <3>2, <3>3 DEF Ahead
  <2>5. CASE j = k /\ \E s \in Source : Discover(k, s)
    BY <2>5 DEF Discover, TypeOK, Started
  <2>6. CASE j = k /\ (Publish(k) \/ Refuse(k) \/ Abandon(k))
    BY <1>0, <2>6 DEF Publish, Refuse, Abandon, TypeOK
  <2> QED BY <2>2, <2>3, <2>4, <2>5, <2>6 DEF CaptureStep
<1>2. CASE ~\E j \in Owner : CaptureStep(j)
  <2>1. UNCHANGED cap BY <1>2, OtherFrame
  <2>2. cap[k] \in Capture BY <2>1, CaptureAt DEF Started
  <2>3. CASE Overtake
    <3>1. lease \in Nat /\ k = lease + 1 BY <2>3, BoundAssumption DEF Overtake, TypeOK, Owner
    <3>2. ~(k <= lease) BY <3>1
    <3> QED BY <3>2, <2>1, <1>0 DEF Fenced
  <2>4. CASE \E t \in Source : Forget(t)
    <3>1. lease' = lease /\ active'[cap[k].src] = active[cap[k].src]
      BY <2>1, <2>2, <2>4 DEF Forget, TypeOK, Capture
    <3> QED BY <2>1, <3>1 DEF Ahead
  <2>5. CASE UNCHANGED <<lease, active>>
    BY <2>1, <2>5 DEF Ahead
  <2> QED BY <1>2, <2>3, <2>4, <2>5, OtherFrame
<1> QED BY <1>1, <1>2

(* A publication moves an append-only source to a longer content.          *)
LEMMA GrowsStep ==
  ASSUME Distinct, IInv, GrowthInv, [Next]_vars
  PROVE  Grows
<1>0. TypeOK /\ PrefixProof BY DEF IInv
<1> SUFFICES ASSUME NEW s \in AppendOnly, active[s] # None, active'[s] \notin {None, active[s]}
             PROVE  active[s] \in Shorter[active'[s]]
  BY DEF Grows
<1>1. s \in Source /\ active[s] \in Content
  BY <1>0, ContentAssumption DEF ContentAssumption, TypeOK, Maybe
<1>2. PICK k \in Owner : Publish(k)
  BY <1>0, <1>1, StoreChanges DEF Forget, TypeOK
<1> DEFINE c == cap[k]
<1>3. /\ c \in Capture /\ c # Idle /\ c.at = "preserved"
  BY <1>0, <1>2, CaptureAt, IdleAt DEF Publish, At
<1>4. c.src = s /\ ~Conflict(c) /\ ~OlderPrefix(c) /\ active'[s] = c.raw
  BY <1>0, <1>1, <1>2 DEF Publish, ReportConflict, KeepNewer, Activate, TypeOK
<1>5. c.raw \in Content /\ Saw(s, c.raw) /\ Saw(s, active[s])
  <2>1. c.raw \in Content BY <1>0, <1>3 DEF TypeOK, Capture, Maybe
  <2> QED BY <1>1, <1>3, <1>4, <2>1, ContentAssumption DEF ContentAssumption, Saw
<1>6. Related(active[s], c.raw)
  BY <1>1, <1>5 DEF GrowthInv, OneHistory
<1>7. c.raw \notin Shorter[active[s]]
  <2>1. CASE c.from = "archive"
    <3>1. (active[s] \in c.compat <=> Related(active[s], c.raw)) /\ (c.older <=> c.raw \in Shorter[active[s]])
      BY <1>0, <1>2, <1>4 DEF PrefixProof, Current, Proved, Publish, Refused, At
    <3> QED BY <1>4, <1>6, <2>1, <3>1 DEF OlderPrefix
  <2>2. CASE c.from = "live"
    <3>1. k = lease BY <1>2 DEF Publish
    <3>2. active[s] = c.raw \/ active[s] \in Shorter[c.raw]
      BY <1>3, <1>4, <2>2, <3>1 DEF GrowthInv, Ahead, AtMost, Started
    <3>3. ASSUME active[s] \in Shorter[c.raw], c.raw \in Shorter[active[s]] PROVE FALSE
      BY <1>1, <1>5, <3>3, ContentAssumption DEF ContentAssumption
    <3> QED BY <1>4, <3>2, <3>3
  <2> QED BY <1>3, <2>1, <2>2 DEF Capture, Path
<1> QED BY <1>4, <1>6, <1>7 DEF Related

(* Of a transcript that only grows the active evidence only grows, also    *)
(* when archive copies, failed captures and owners that lost the lease are *)
(* in between.                                                             *)
THEOREM GrowsOnly ==
  ASSUME Distinct
  PROVE  Spec => EvidenceOnlyGrows
<1>1. IInv /\ GrowthInv /\ [Next]_vars => GrowthInv'
  BY HistoryStep, AheadStep DEF IInv, GrowthInv
<1>2. IInv /\ GrowthInv /\ [Next]_vars => [Grows]_vars
  BY GrowsStep
<1> QED BY <1>1, <1>2, InitGrowth, AlwaysIInv, PTL DEF Spec, EvidenceOnlyGrows

=============================================================================
