--------------------------- MODULE DirLock_proofs ---------------------------
(***************************************************************************)
(* DirLock for every set of calls, processes, pids and hosts: at most one  *)
(* running call owns the lane, records are removed only by the rule, and   *)
(* the lane implements ExclusiveLock.                                      *)
(***************************************************************************)
EXTENDS DirLock, TLAPS

(* What makes the argument inductive.  A call that has published owns the  *)
(* only record of the lane until it or a retirer removes it; a retirer     *)
(* about to unlink a record either knows its process is dead, or could not *)
(* read it because it had gone, and a token is never published twice.      *)
RecordAlone     == \A c \in Call : c \in records => records = {c}
RecordPublished == \A c \in Call : c \in records => pc[c] \in Owning
OwnerHasRecord  == \A c \in Call : Owns(c) => c \in records
LegacyHasRecord == LegacyLive => Legacy \in records
UnbornIdle      == \A c \in Call : life[ProcOf[c]] = "unborn" => pc[c] = "idle"
LegacyBorn      == LegacyProc \in Proc => life[LegacyProc] # "unborn"
SeenPublished   == \A c \in Call : seen[c] \in Call => pc[seen[c]] \in Owning \cup Ended
Fresh           == \A c \in Call :
  /\ pc[c] \in {"list", "read"} => c \notin ident
  /\ pc[c] = "list" => seen[c] = NoFile
SeenToken       == \A c \in Call : pc[c] \in {"read", "unlink"} => seen[c] # NoFile
Identified      == \A c \in Call : c \in ident => seen[c] # NoFile /\ OwnerOf(seen[c]) \in Proc
Gone(f)         == f \notin records \/ (f = Legacy /\ LegacyProc = NoProc)
Unidentified    == \A c \in Call :
  pc[c] \in {"recheck", "judge", "unlink"} /\ c \notin ident /\ seen[c] # NoFile
    => Gone(seen[c])
Doomed          == \A c \in Call :
  pc[c] = "unlink" /\ c \in ident =>
    /\ life[OwnerOf(seen[c])] = "dead"
    /\ Host[OwnerOf(seen[c])] = Host[ProcOf[c]]

IInv == /\ TypeOK
        /\ RecordAlone /\ RecordPublished /\ OwnerHasRecord /\ LegacyHasRecord
        /\ UnbornIdle /\ LegacyBorn
        /\ SeenPublished /\ Fresh /\ SeenToken /\ Identified /\ Unidentified /\ Doomed

(* The initial states satisfy the invariant, with every leftover a lane may hold.*)
LEMMA InitIInv == Init => IInv
<1> SUFFICES ASSUME Init PROVE IInv
  OBVIOUS
<1> USE CallAssumption, ProcAssumption
    DEF CallAssumption, ProcAssumption, Init, Files, Legacy, Extra, Owning
<1>1. TypeOK
  BY DEF TypeOK, Labels
<1>2. RecordAlone /\ RecordPublished /\ OwnerHasRecord /\ LegacyHasRecord
  BY DEF RecordAlone, RecordPublished, OwnerHasRecord, LegacyHasRecord, Owns
<1>3. UnbornIdle /\ LegacyBorn
  BY DEF UnbornIdle, LegacyBorn
<1>4. SeenPublished /\ Fresh /\ SeenToken /\ Identified /\ Unidentified /\ Doomed
  BY DEF SeenPublished, Fresh, SeenToken, Identified, Unidentified, Doomed
<1> QED BY <1>1, <1>2, <1>3, <1>4 DEF IInv

(***************************************************************************)
(* Type correctness.                                                       *)
(***************************************************************************)
LEMMA TypeStep == TypeOK /\ [Next]_vars => TypeOK'
<1> SUFFICES ASSUME TypeOK, [Next]_vars PROVE TypeOK'
  OBVIOUS
<1> USE DEF TypeOK, Labels, Waiting, Owning, Ended, Files, At, Goto, Forget, dirVars
<1>1. ASSUME NEW c \in Call, Begin(c) PROVE TypeOK'
  BY <1>1 DEF Begin
<1>2. ASSUME NEW c \in Call, Check(c) PROVE TypeOK'
  BY <1>2 DEF Check
<1>3. ASSUME NEW c \in Call, List(c) PROVE TypeOK'
  <2> DEFINE candidates == IF records \cap Call # {} THEN records \cap Call
                           ELSE records \cap {Legacy}
  <2>1. candidates \subseteq Call \cup {Legacy}
    OBVIOUS
  <2>2. CASE candidates = {}
    BY <1>3, <2>2 DEF List
  <2>3. CASE candidates # {}
    BY <1>3, <2>1, <2>3 DEF List
  <2> QED BY <2>2, <2>3
<1>4. ASSUME NEW c \in Call, Read(c) PROVE TypeOK'
  BY <1>4 DEF Read, Readable
<1>5. ASSUME NEW c \in Call, Recheck(c) PROVE TypeOK'
  BY <1>5 DEF Recheck
<1>6. ASSUME NEW c \in Call, Judge(c) PROVE TypeOK'
  BY <1>6 DEF Judge
<1>7. ASSUME NEW c \in Call, Unlink(c) \/ Drop(c) PROVE TypeOK'
  BY <1>7 DEF Unlink, Drop, UnlinkRecord
<1>8. ASSUME NEW c \in Call, Rmdir(c) \/ DropDir(c) PROVE TypeOK'
  BY <1>8 DEF Rmdir, DropDir, RemoveDir
<1>9. ASSUME NEW c \in Call, After(c) \/ Refuse(c) \/ Sleep(c) PROVE TypeOK'
  BY <1>9 DEF After, Refuse, Sleep
<1>10. ASSUME NEW c \in Call, Publish(c) PROVE TypeOK'
  <2>1. CASE records = {}
    BY <1>10, <2>1 DEF Publish
  <2>2. CASE records # {}
    BY <1>10, <2>2 DEF Publish
  <2> QED BY <2>1, <2>2
<1>11. ASSUME NEW c \in Call, Open(c) \/ Touch(c) \/ Release(c) PROVE TypeOK'
  BY <1>11 DEF Open, Touch, Release
<1>12. ASSUME NEW p \in Proc, Spawn(p) \/ Die(p) PROVE TypeOK'
  BY <1>12 DEF Spawn, Die
<1>13. CASE Age
  BY <1>13 DEF Age
<1>14. CASE UNCHANGED vars
  BY <1>14 DEF vars
<1> QED
  BY <1>1, <1>2, <1>3, <1>4, <1>5, <1>6, <1>7, <1>8, <1>9, <1>10, <1>11, <1>12, <1>13, <1>14
  DEF Next, CallStep, Progress, Scan, Retire, LetGo

(* Every reachable state of the lane and of its calls is well typed.       *)
THEOREM TypeCorrect == Spec => []TypeOK
<1>1. Init => TypeOK
  BY InitIInv DEF IInv
<1> QED BY <1>1, TypeStep, PTL DEF Spec

(***************************************************************************)
(* The inductive step.                                                     *)
(***************************************************************************)
Conjuncts == RecordAlone /\ RecordPublished /\ OwnerHasRecord /\ LegacyHasRecord
             /\ UnbornIdle /\ LegacyBorn
             /\ SeenPublished /\ Fresh /\ SeenToken /\ Identified /\ Unidentified /\ Doomed

(* Every step of a call, a process or the clock keeps the invariant.       *)
LEMMA StepIInv == IInv /\ [Next]_vars => IInv'
<1> SUFFICES ASSUME IInv, [Next]_vars PROVE IInv'
  OBVIOUS
<1> TypeOK /\ TypeOK'
  BY TypeStep DEF IInv
<1> SUFFICES Conjuncts'
  BY DEF IInv, Conjuncts
<1> USE CallAssumption, ProcAssumption
    DEF CallAssumption, ProcAssumption, TypeOK, IInv, Files, Legacy, Extra,
        Waiting, Owning, Ended, At, Live, Goto, Forget, dirVars, Conjuncts,
        RecordAlone, RecordPublished, OwnerHasRecord, LegacyHasRecord, Owns, LegacyLive,
        UnbornIdle, LegacyBorn, SeenPublished, Fresh, SeenToken, Identified, Unidentified,
        Doomed, OwnerOf, Gone
<1>1. ASSUME NEW c \in Call, Begin(c) PROVE Conjuncts'
  BY <1>1 DEF Begin
<1>2. ASSUME NEW c \in Call, Check(c) PROVE Conjuncts'
  <2>1. /\ \A d \in Call \ {c} : pc'[d] = pc[d] /\ seen'[d] = seen[d] /\ (d \in ident' <=> d \in ident)
        /\ pc[c] = "check" /\ pc'[c] \in {"list", "recheck"}
        /\ seen'[c] = NoFile /\ c \notin ident'
        /\ UNCHANGED <<birth, life, present, records, aged>>
    BY <1>2 DEF Check
  <2>2. (RecordAlone /\ RecordPublished /\ OwnerHasRecord /\ LegacyHasRecord)'
    BY <2>1
  <2>3. (UnbornIdle /\ LegacyBorn)'
    BY <2>1
  <2>4. (SeenPublished /\ Fresh /\ SeenToken)'
    BY <2>1
  <2>5. (Identified /\ Unidentified /\ Doomed)'
    BY <2>1
  <2> QED BY <2>2, <2>3, <2>4, <2>5
<1>3. ASSUME NEW c \in Call, List(c) PROVE Conjuncts'
  <2>1. /\ pc[c] = "list" /\ life[ProcOf[c]] = "alive"
        /\ \A d \in Call \ {c} : pc'[d] = pc[d] /\ seen'[d] = seen[d]
        /\ UNCHANGED <<ident, birth, life, present, records, aged>>
    BY <1>3 DEF List
  <2>2. \/ pc'[c] = "recheck" /\ seen'[c] = seen[c]
        \/ /\ pc'[c] = "read"
           /\ seen'[c] \in records /\ seen'[c] \in Call \cup {Legacy}
    BY <1>3 DEF List
  <2>3. (RecordAlone /\ RecordPublished /\ OwnerHasRecord /\ LegacyHasRecord)'
    BY <2>1, <2>2
  <2>4. (UnbornIdle /\ LegacyBorn)'
    BY <2>1, <2>2
  <2>5. (SeenPublished /\ Fresh /\ SeenToken)'
    BY <2>1, <2>2
  <2>6. (Identified /\ Unidentified /\ Doomed)'
    BY <2>1, <2>2
  <2> QED BY <2>3, <2>4, <2>5, <2>6
<1>4. ASSUME NEW c \in Call, Read(c) PROVE Conjuncts'
  BY <1>4 DEF Read, Readable
<1>5. ASSUME NEW c \in Call, Recheck(c) PROVE Conjuncts'
  BY <1>5 DEF Recheck
<1>6. ASSUME NEW c \in Call, Judge(c) PROVE Conjuncts'
  BY <1>6 DEF Judge, IsStale, OwnerGone, PidAlive, SameSlot
<1>7. ASSUME NEW c \in Call, Unlink(c) PROVE Conjuncts'
  BY <1>7 DEF Unlink, UnlinkRecord
<1>8. ASSUME NEW c \in Call, Drop(c) PROVE Conjuncts'
  BY <1>8 DEF Drop, UnlinkRecord
<1>9. ASSUME NEW c \in Call, Rmdir(c) PROVE Conjuncts'
  BY <1>9 DEF Rmdir, RemoveDir
<1>10. ASSUME NEW c \in Call, DropDir(c) PROVE Conjuncts'
  BY <1>10 DEF DropDir, RemoveDir
<1>11. ASSUME NEW c \in Call, After(c) PROVE Conjuncts'
  BY <1>11 DEF After
<1>12. ASSUME NEW c \in Call, Refuse(c) PROVE Conjuncts'
  BY <1>12 DEF Refuse
<1>13. ASSUME NEW c \in Call, Sleep(c) PROVE Conjuncts'
  BY <1>13 DEF Sleep
<1>14. ASSUME NEW c \in Call, Publish(c) PROVE Conjuncts'
  BY <1>14 DEF Publish
<1>15. ASSUME NEW c \in Call, Open(c) PROVE Conjuncts'
  BY <1>15 DEF Open
<1>16. ASSUME NEW c \in Call, Touch(c) PROVE Conjuncts'
  BY <1>16 DEF Touch
<1>17. ASSUME NEW c \in Call, Release(c) PROVE Conjuncts'
  BY <1>17 DEF Release
<1>18. ASSUME NEW p \in Proc, Spawn(p) PROVE Conjuncts'
  BY <1>18 DEF Spawn
<1>19. ASSUME NEW p \in Proc, Die(p) PROVE Conjuncts'
  BY <1>19 DEF Die
<1>20. CASE Age
  BY <1>20 DEF Age
<1>21. CASE UNCHANGED vars
  BY <1>21 DEF vars
<1> QED
  BY <1>1, <1>2, <1>3, <1>4, <1>5, <1>6, <1>7, <1>8, <1>9, <1>10, <1>11, <1>12, <1>13, <1>14, <1>15, <1>16, <1>17, <1>18, <1>19, <1>20, <1>21
  DEF Next, CallStep, Progress, Scan, Retire, LetGo

(* The invariant holds in every reachable state.                           *)
LEMMA Inductive == Spec => []IInv
BY InitIInv, StepIInv, PTL DEF Spec

(***************************************************************************)
(* At most one running call owns the lane, and none while an old build's   *)
(* process holds it: an owner's record is in the directory and alone.      *)
(***************************************************************************)
LEMMA Exclusive == IInv => MutualExclusion
BY CallAssumption
DEF CallAssumption, IInv, OwnerHasRecord, RecordAlone, LegacyHasRecord, MutualExclusion, Legacy

(* The lane is a lock: owners exclude one another, an old build's included.*)
THEOREM LockExcludes == Spec => []MutualExclusion
BY Inductive, Exclusive, PTL

(***************************************************************************)
(* A record leaves the lane by its own call's release, or after its        *)
(* process is dead, or because it never named a process: retiring what was *)
(* seen earlier cannot remove a successor's record.                        *)
(***************************************************************************)
LEMMA RemovalStep ==
  IInv /\ [Next]_vars => [\A f \in records : f \in records' \/ RecordRemoval(f)]_vars
<1> SUFFICES ASSUME IInv, [Next]_vars, NEW f \in records, f \notin records'
             PROVE RecordRemoval(f)
  BY DEF vars
<1>1. ASSUME NEW c \in Call, Unlink(c) PROVE RecordRemoval(f)
  <2>1. f = seen[c] /\ pc[c] = "unlink" /\ pc'[c] = "rmdir"
    BY <1>1 DEF Unlink, UnlinkRecord, At, Goto, IInv, TypeOK
  <2>2. CASE c \in ident
    BY <2>1, <2>2 DEF IInv, Doomed, Identified, RecordRemoval
  <2>3. CASE c \notin ident
    BY <2>1, <2>3 DEF IInv, Unidentified, SeenToken, Gone, RecordRemoval
  <2> QED BY <2>2, <2>3
<1>2. ASSUME NEW c \in Call, Drop(c) PROVE RecordRemoval(f)
  BY <1>2 DEF Drop, UnlinkRecord, At, Goto, IInv, TypeOK, RecordRemoval
<1>3. ASSUME NEW c \in Call, Publish(c) PROVE FALSE
  BY <1>3 DEF Publish, dirVars
<1> QED
  BY <1>1, <1>2, <1>3
  DEF Next, CallStep, Progress, Scan, Retire, LetGo, Begin, Check, List, Read, Recheck,
      Judge, Rmdir, DropDir, RemoveDir, After, Refuse, Sleep, Open, Touch, Release,
      Spawn, Die, Age, vars, dirVars

(* Nobody removes a record but its call or after its process is dead.      *)
THEOREM RemovalFollowsTheRule == Spec => RecordsAreOwned
BY Inductive, RemovalStep, PTL DEF Spec, RecordsAreOwned, RemovalsFollowTheRule

(***************************************************************************)
(* A lane with a file nobody knows is never taken, and the file stays      *)
(* whatever is retired beside it: only a record is ever unlinked, and the  *)
(* directory of a claim replaces nothing but an empty one.                 *)
(***************************************************************************)
LEMMA UnknownStep == TypeOK /\ [Next]_vars => [UnknownStays]_vars
<1> SUFFICES ASSUME TypeOK, [Next]_vars, vars' # vars, Extra \in records PROVE UnknownStays
  BY DEF UnknownStays
<1> DEFINE Closed == /\ Extra \in records'
                     /\ \A c \in Call : pc'[c] = "open" => pc[c] = "open"
<1> USE CallAssumption DEF CallAssumption, TypeOK, Labels, Waiting, Owning, Ended, Files,
        Legacy, Extra, At, Goto, Forget, dirVars
<1>1. ASSUME NEW c \in Call, Scan(c) PROVE Closed
  BY <1>1 DEF Scan, Check, List, Read, Recheck, Judge
<1>2. ASSUME NEW c \in Call, Unlink(c) PROVE Closed
  BY <1>2 DEF Unlink, UnlinkRecord
<1>3. ASSUME NEW c \in Call, Rmdir(c) \/ DropDir(c) \/ After(c) PROVE Closed
  BY <1>3 DEF Rmdir, DropDir, RemoveDir, After
<1>4. ASSUME NEW c \in Call, Drop(c) PROVE Closed
  BY <1>4 DEF Drop, UnlinkRecord
<1>5. ASSUME NEW c \in Call, Publish(c) PROVE Closed
  BY <1>5 DEF Publish
<1>6. ASSUME NEW c \in Call, Begin(c) \/ Sleep(c) \/ Open(c) \/ Refuse(c) PROVE Closed
  BY <1>6 DEF Begin, Sleep, Open, Refuse
<1>7. ASSUME NEW c \in Call, Touch(c) \/ Release(c) PROVE Closed
  BY <1>7 DEF Touch, Release
<1>8. CASE Age \/ \E p \in Proc : Spawn(p) \/ Die(p)
  BY <1>8 DEF UnknownStays, Age, Spawn, Die
<1> QED
  BY <1>1, <1>2, <1>3, <1>4, <1>5, <1>6, <1>7, <1>8
  DEF Next, CallStep, Progress, Retire, LetGo, UnknownStays

(* A file that no build knows closes the lane for good (lock.ts, retire()).*)
THEOREM UnknownIsNeverTaken == Spec => UnknownFilesFailClosed
BY TypeCorrect, UnknownStep, PTL DEF Spec, UnknownFilesFailClosed

(***************************************************************************)
(* The lane implements an exclusive lock.                                  *)
(***************************************************************************)
LEMMA LaneInit == Init => Lane!Init
<1> SUFFICES ASSUME Init PROVE Lane!Init
  OBVIOUS
<1>1. \A c \in Call : pc[c] = "idle"
  BY DEF Init
<1>2. LaneServed = {Legacy}
  BY <1>1 DEF LaneServed, Owning, Ended
<1>3. LaneHolders = {} \/ LaneHolders = {Legacy}
  BY <1>1 DEF LaneHolders, Owns, Owning
<1> QED BY <1>2, <1>3 DEF Lane!Init

(* A step of the calls is a step of the exclusive lock or a stutter.       *)
LEMMA LaneStep == IInv /\ IInv' /\ [Next]_vars => [Lane!Next]_(Lane!vars)
<1> SUFFICES ASSUME IInv, IInv', [Next]_vars
             PROVE Lane!Next \/ (LaneHolders' = LaneHolders /\ LaneServed' = LaneServed)
  BY DEF Lane!vars
<1> USE DEF IInv, TypeOK
<1> DEFINE Same == LaneHolders' = LaneHolders /\ LaneServed' = LaneServed
           Post == Owning \cup Ended
<1>0. /\ \A c \in Call : c \in LaneHolders <=> Owns(c)
      /\ \A c \in Call : c \in LaneHolders' <=> Owns(c)'
      /\ Legacy \notin Call
      /\ Legacy \in LaneHolders <=> LegacyLive
      /\ Legacy \in LaneHolders' <=> LegacyLive'
      /\ LaneHolders \subseteq Call \cup {Legacy}
      /\ LaneHolders' \subseteq Call \cup {Legacy}
  BY CallAssumption DEF CallAssumption, LaneHolders
<1>1. \A a, b \in LaneHolders : a = b
  BY <1>0, Exclusive DEF MutualExclusion
<1>2. ASSUME life' = life,
             \A c \in Call : (pc'[c] \in Owning <=> pc[c] \in Owning)
                            /\ (pc'[c] \in Post <=> pc[c] \in Post)
      PROVE Same
  BY <1>2 DEF LaneHolders, LaneServed, Owns, Live, LegacyLive
<1>3. ASSUME NEW c \in Call, Publish(c), records = {} PROVE Lane!Next
  <2>1. LaneHolders = {}
    BY <1>0, <1>3 DEF OwnerHasRecord, LegacyHasRecord
  <2>2. /\ pc[c] = "publish" /\ pc'[c] = "open" /\ Live(c) /\ life' = life
        /\ \A d \in Call \ {c} : pc'[d] = pc[d]
    BY <1>3 DEF Publish, At, Goto
  <2>3. LaneHolders' = {c}
    BY <1>0, <2>1, <2>2 DEF Owns, Live, Owning, LegacyLive
  <2>4. LaneServed' = LaneServed \cup {c} /\ c \notin LaneServed
    BY <1>0, <2>2 DEF LaneServed, Owning, Ended
  <2>5. Lane!Grant(c)
    BY <2>1, <2>3, <2>4 DEF Lane!Grant
  <2> QED BY <2>5 DEF Lane!Next
<1>4. ASSUME NEW c \in Call, Drop(c) PROVE Lane!Next
  <2>1. /\ pc[c] = "drop" /\ pc'[c] \in Ended /\ Live(c) /\ life' = life
        /\ \A d \in Call \ {c} : pc'[d] = pc[d]
    BY <1>4 DEF Drop, UnlinkRecord, At, Goto, Ended
  <2>2. LaneHolders = {c}
    BY <1>0, <1>1, <2>1 DEF Owns, Owning
  <2>3. LaneHolders' = {}
    BY <1>0, <2>1, <2>2 DEF Owns, Live, Owning, Ended, LegacyLive
  <2>4. LaneServed' = LaneServed
    BY <2>1 DEF LaneServed, Owning, Ended
  <2>5. Lane!Vacate(c)
    BY <2>2, <2>3, <2>4 DEF Lane!Vacate
  <2> QED BY <2>5 DEF Lane!Next
<1>5. ASSUME NEW p \in Proc, Die(p) PROVE Lane!Next \/ Same
  <2>1. LaneServed' = LaneServed
    BY <1>5 DEF Die, LaneServed
  <2>2. LaneHolders' \subseteq LaneHolders
    BY <1>0, <1>5 DEF Die, Owns, Live, LegacyLive
  <2>3. CASE LaneHolders' = LaneHolders
    BY <2>1, <2>3
  <2>4. CASE LaneHolders' # LaneHolders
    <3>1. PICK a \in LaneHolders : a \notin LaneHolders'
      BY <2>2, <2>4
    <3>2. LaneHolders = {a} /\ LaneHolders' = {}
      BY <1>1, <2>2, <3>1
    <3>3. Lane!Vacate(a)
      BY <2>1, <3>2 DEF Lane!Vacate
    <3> QED BY <1>0, <3>1, <3>3 DEF Lane!Next
  <2> QED BY <2>3, <2>4
<1>6. ASSUME NEW p \in Proc, Spawn(p) PROVE Same
  <2>1. \A c \in Call : Owns(c)' <=> Owns(c)
    BY <1>6 DEF Spawn, Owns, Live, Owning, UnbornIdle
  <2>2. LegacyLive' <=> LegacyLive
    BY <1>6 DEF Spawn, LegacyLive, LegacyBorn
  <2>3. pc' = pc
    BY <1>6 DEF Spawn
  <2> QED BY <2>1, <2>2, <2>3 DEF LaneHolders, LaneServed
<1>7. ASSUME NEW c \in Call,
             \/ Begin(c) \/ Scan(c) \/ Retire(c) \/ Sleep(c) \/ Refuse(c)
             \/ Publish(c) /\ records # {}
             \/ Open(c) \/ DropDir(c) \/ Touch(c) \/ Release(c)
      PROVE Same
  <2> USE DEF At, Goto, Owning, Ended, dirVars
  <2>1. life' = life /\ \E from, to \in Labels :
          /\ pc[c] = from /\ pc'[c] = to
          /\ \A d \in Call \ {c} : pc'[d] = pc[d]
          /\ from \in Owning <=> to \in Owning
          /\ from \in Post <=> to \in Post
    <3> USE DEF Labels, Waiting
    <3>1. CASE Begin(c)
      BY <3>1 DEF Begin
    <3>2. CASE Scan(c)
      BY <3>2 DEF Scan, Check, List, Read, Recheck, Judge
    <3>3. CASE Retire(c)
      BY <3>3 DEF Retire, Unlink, UnlinkRecord, Rmdir, RemoveDir, After
    <3>4. CASE Sleep(c) \/ Refuse(c)
      BY <3>4 DEF Sleep, Refuse
    <3>5. CASE Publish(c) /\ records # {}
      BY <3>5 DEF Publish
    <3>6. CASE Open(c) \/ DropDir(c)
      BY <3>6 DEF Open, DropDir, RemoveDir
    <3>7. CASE Touch(c) \/ Release(c)
      BY <3>7 DEF Touch, Release
    <3> QED BY <1>7, <3>1, <3>2, <3>3, <3>4, <3>5, <3>6, <3>7
  <2> QED BY <1>2, <2>1
<1>8. CASE Age \/ UNCHANGED vars
  BY <1>2, <1>8 DEF Age, vars
<1> QED
  BY <1>3, <1>4, <1>5, <1>6, <1>7, <1>8 DEF Next, CallStep, Progress, LetGo

(* The protocol of lock.ts implements an exclusive lock.                   *)
THEOREM LockRefines == Spec => ImplementsExclusiveLock
BY Inductive, LaneInit, LaneStep, PTL DEF Spec, ImplementsExclusiveLock, Lane!Spec

(* All of what a lane shared by hosts and builds promises.                 *)
THEOREM LaneAlwaysHonoured == Spec => LaneIsHonoured
BY RemovalFollowsTheRule, UnknownIsNeverTaken, LockRefines DEF LaneIsHonoured
=============================================================================
