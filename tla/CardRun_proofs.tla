---------------------------- MODULE CardRun_proofs ----------------------------
(***************************************************************************)
(* CardRun for every number of sessions, chunks and permits, every ceiling *)
(* and every price that calls turn out to have.                            *)
(***************************************************************************)
EXTENDS CardRun, FiniteSetTheorems, SequenceTheorems, TLAPS

-----------------------------------------------------------------------------
(* The inductive invariant.  The ceiling is kept because the budget holds  *)
(* one estimate for each call that is out, and for no other call.          *)

CallsAt(S) == {c \in Call : callPc[c] \in S}

LedgerHolds ==
  /\ live = CallsAt({"sent"})
  /\ reserved = Estimate * Cardinality(live)

(* The gate counts who is inside and keeps in line, once each, those that  *)
(* wait; somebody who will wake the first of them is inside or about to be. *)
InLine(q, S) ==
  /\ q \in Seq(Call)
  /\ \A i, j \in DOMAIN q : q[i] = q[j] => i = j
  /\ S = {q[i] : i \in DOMAIN q}

GateCounts == inFlight = Cardinality(CallsAt(Inside))
GateQueues == InLine(waiting, CallsAt({"waiting"}))
GateWakes  == waiting # <<>> => CallsAt(Inside \cup {"woken"}) # {}

(* Each session is taken once, in order, by a worker that stays with it.   *)
TakenInOrder == nextUp >= 1 /\ \A t \in Target : stage[t] = "queued" <=> t >= nextUp
WorkersStay  == Cardinality(InHand) <= running /\ running <= Workers

(* A call is under way in the stage it belongs to, or its session has met  *)
(* an error; a session that is saved has met none.                         *)
CallsBelong ==
  \A c \in Call : callPc[c] \notin {"off", "over"} =>
                    c \in StageCalls(c[1]) \/ verdict[c[1]] # "none"
SavedWithoutError ==
  \A t \in Target : stage[t] \in {"save", "carded"} => verdict[t] = "none"

GateInv == GateCounts /\ GateQueues /\ GateWakes
PoolInv == TakenInOrder /\ WorkersStay /\ CallsBelong /\ SavedWithoutError
CardInv == CardTypeOK /\ LedgerHolds /\ SpendWithinCap /\ GateInv /\ PoolInv

-----------------------------------------------------------------------------
(* Facts about the constants, the counts and the line.                     *)

(* A session or a call is one of finitely many.                            *)
LEMMA Finitely ==
  /\ IsFiniteSet(Target) /\ Target \subseteq Nat
  /\ IsFiniteSet(Call)
<1>1. IsFiniteSet(Target) /\ Target \subseteq Nat
  BY CardAssumption, FS_Interval DEF Target
<1>2. \A t \in Target : IsFiniteSet(Calls(t))
  <2> SUFFICES ASSUME NEW t \in Target PROVE IsFiniteSet(Calls(t))
    OBVIOUS
  <2>1. Chunks[t] \in Nat
    BY CardAssumption
  <2> DEFINE D == 0 .. (Chunks[t] + 1)
             f == [i \in D |-> <<t, i>>]
  <2>2. IsFiniteSet(D)
    BY <2>1, FS_Interval
  <2>3. f \in Surjection(D, Calls(t))
    BY DEF Surjection, Calls
  <2> HIDE DEF D, f
  <2> QED
    BY <2>2, <2>3, FS_Surjection
<1>3. IsFiniteSet({Calls(t) : t \in Target})
  <2> DEFINE f == [t \in Target |-> Calls(t)]
  <2>1. f \in Surjection(Target, {Calls(t) : t \in Target})
    BY DEF Surjection
  <2> HIDE DEF f
  <2> QED
    BY <1>1, <2>1, FS_Surjection
<1> QED
  BY <1>1, <1>2, <1>3, FS_UNION DEF Call

(* Every call is a call of its session, numbered.                          *)
LEMMA CallParts ==
  ASSUME NEW c \in Call
  PROVE  c[1] \in Target /\ c \in Calls(c[1])
BY DEF Call, Calls

(* A set of calls is finite; one call more or less is counted as one.      *)
LEMMA CallCount ==
  ASSUME NEW S \in SUBSET Call, NEW c
  PROVE  /\ Cardinality(S) \in Nat
         /\ Cardinality(S \cup {c}) = IF c \in S THEN Cardinality(S) ELSE Cardinality(S) + 1
         /\ Cardinality(S \ {c}) = IF c \in S THEN Cardinality(S) - 1 ELSE Cardinality(S)
<1>1. IsFiniteSet(S)
  BY Finitely, FS_Subset
<1> QED
  BY <1>1, FS_CardinalityType, FS_AddElement, FS_RemoveElement

(* The same for sessions.                                                  *)
LEMMA TargetCount ==
  ASSUME NEW S \in SUBSET Target, NEW t
  PROVE  /\ Cardinality(S) \in Nat
         /\ Cardinality(S \cup {t}) = IF t \in S THEN Cardinality(S) ELSE Cardinality(S) + 1
         /\ Cardinality(S \ {t}) = IF t \in S THEN Cardinality(S) - 1 ELSE Cardinality(S)
<1>1. IsFiniteSet(S)
  BY Finitely, FS_Subset
<1> QED
  BY <1>1, FS_CardinalityType, FS_AddElement, FS_RemoveElement

(* The pool is never larger than a natural number of workers.              *)
LEMMA WorkersNat == Workers \in Nat
BY CardAssumption DEF Workers

(* Joining the line.                                                       *)
LEMMA JoinLine ==
  ASSUME NEW q, NEW S, InLine(q, S), NEW c \in Call, c \notin S
  PROVE  InLine(Append(q, c), S \cup {c})
<1> DEFINE r == Append(q, c)
<1> q \in Seq(Call) BY DEF InLine
<1>1. /\ r \in Seq(Call) /\ Len(r) = Len(q) + 1
      /\ \A i \in 1 .. Len(q) : r[i] = q[i]
      /\ r[Len(q) + 1] = c
  BY AppendProperties
<1>2. DOMAIN r = 1 .. Len(q) + 1 /\ DOMAIN q = 1 .. Len(q) /\ Len(q) \in Nat
  BY <1>1, LenProperties
<1>3. \A i \in 1 .. Len(q) : q[i] \in S
  BY <1>2 DEF InLine
<1> HIDE DEF r
<1>4. \A i, j \in DOMAIN r : r[i] = r[j] => i = j
  BY <1>1, <1>2, <1>3 DEF InLine
<1>5. S \cup {c} = {r[i] : i \in DOMAIN r}
  BY <1>1, <1>2 DEF InLine
<1> QED
  BY <1>1, <1>4, <1>5 DEF InLine, r

(* The first in line leaves it.                                            *)
LEMMA LeaveLine ==
  ASSUME NEW q, NEW S, InLine(q, S), q # <<>>
  PROVE  /\ Head(q) \in S /\ Head(q) \in Call
         /\ InLine(Tail(q), S \ {Head(q)})
<1> DEFINE r == Tail(q)
<1> q \in Seq(Call) BY DEF InLine
<1>1. /\ Head(q) \in Call /\ r \in Seq(Call) /\ Len(r) = Len(q) - 1
      /\ \A i \in 1 .. Len(r) : r[i] = q[i + 1]
  BY HeadTailProperties
<1>2. DOMAIN r = 1 .. Len(r) /\ DOMAIN q = 1 .. Len(q) /\ Len(q) \in Nat /\ Len(q) >= 1
  BY <1>1, LenProperties, EmptySeq
<1>3. Head(q) = q[1]
  OBVIOUS
<1> HIDE DEF r
<1>4. \A i, j \in DOMAIN r : r[i] = r[j] => i = j
  <2> SUFFICES ASSUME NEW i \in DOMAIN r, NEW j \in DOMAIN r, r[i] = r[j] PROVE i = j
    OBVIOUS
  <2>1. i + 1 \in DOMAIN q /\ j + 1 \in DOMAIN q /\ q[i + 1] = q[j + 1]
    BY <1>1, <1>2
  <2>2. i + 1 = j + 1
    BY <2>1 DEF InLine
  <2> QED
    BY <1>2, <2>2
<1>5. S \ {q[1]} = {r[i] : i \in DOMAIN r}
  <2>1. ASSUME NEW i \in DOMAIN r PROVE r[i] \in S \ {q[1]}
    BY <1>1, <1>2 DEF InLine
  <2>2. ASSUME NEW d \in S \ {q[1]} PROVE \E i \in DOMAIN r : d = r[i]
    <3>1. PICK i \in DOMAIN q : d = q[i] /\ i # 1
      BY DEF InLine
    <3>2. i - 1 \in DOMAIN r /\ r[i - 1] = q[i]
      BY <3>1, <1>1, <1>2
    <3> QED
      BY <3>1, <3>2
  <2> QED
    BY <2>1, <2>2
<1>6. InLine(r, S \ {q[1]})
  BY <1>1, <1>4, <1>5 DEF InLine
<1>7. Head(q) \in S
  BY <1>2, <1>3 DEF InLine
<1> QED
  BY <1>1, <1>3, <1>6, <1>7 DEF r

-----------------------------------------------------------------------------
(* Types.                                                                  *)

(* What a call costs to admit, to release or to record keeps the types.    *)
LEMMA BudgetTyped ==
  ASSUME CardTypeOK, NEW c \in Call
  PROVE  /\ Admitted(c) =>
              /\ callPc' \in [Call -> Inside \cup {"off", "waiting", "woken", "over"}]
              /\ live' \in SUBSET Call /\ reserved' \in Int /\ spent' \in Nat /\ overrun' \in Nat
         /\ Release(c) => live' \in SUBSET Call /\ reserved' \in Int
         /\ \A usd \in Actual : Record(c, usd) =>
              /\ live' \in SUBSET Call /\ reserved' \in Int
              /\ spent' \in Nat /\ overrun' \in Nat
<1>1. Admitted(c) => callPc' \in [Call -> Inside \cup {"off", "waiting", "woken", "over"}]
  BY DEF Admitted, CardTypeOK, Inside
<1>2. Admitted(c) => live' \in SUBSET Call /\ reserved' \in Int /\ spent' \in Nat /\ overrun' \in Nat
  BY CardAssumption DEF Admitted, CardTypeOK
<1>3. Release(c) => live' \in SUBSET Call /\ reserved' \in Int
  BY CardAssumption DEF Release, CardTypeOK
<1>4. ASSUME NEW usd \in Actual, Record(c, usd)
      PROVE  spent' \in Nat /\ overrun' \in Nat
  BY <1>4, CardAssumption DEF Record, CardTypeOK
<1> QED
  BY <1>1, <1>2, <1>3, <1>4 DEF Record

(* Every step keeps the types.                                             *)
LEMMA TypeStep ==
  CardTypeOK /\ GateCounts /\ GateQueues /\ WorkersStay /\ [CardNext]_cardVars => CardTypeOK'
<1> SUFFICES ASSUME CardTypeOK, GateCounts, GateQueues, WorkersStay, [CardNext]_cardVars
             PROVE  CardTypeOK'
  OBVIOUS
<1>h. /\ Cardinality(InHand) \in Nat /\ Cardinality(InHand) <= running
      /\ \A t \in InHand : Cardinality(InHand) >= 1
  <2>1. InHand \in SUBSET Target
    BY DEF InHand
  <2>2. ASSUME NEW t \in InHand PROVE Cardinality(InHand) >= 1
    <3>1. Cardinality(InHand \ {t}) = Cardinality(InHand) - 1 /\ InHand \ {t} \in SUBSET Target
      BY <2>1, TargetCount
    <3>2. Cardinality(InHand \ {t}) \in Nat /\ Cardinality(InHand) \in Nat
      BY <2>1, <3>1, TargetCount
    <3> QED
      BY <3>1, <3>2
  <2> QED
    BY <2>1, <2>2, TargetCount DEF WorkersStay
<1>1. ASSUME NEW c \in Call, EnterGate(c) \/ WokenEnters(c) \/ AskAgain(c) PROVE CardTypeOK'
  <2>1. Admitted(c) /\ UNCHANGED <<reasked, waiting, poolVars>>
    BY <1>1 DEF EnterGate, WokenEnters, AskAgain, gateVars
  <2>2. inFlight' \in Nat
    BY <1>1 DEF EnterGate, WokenEnters, AskAgain, gateVars, CardTypeOK
  <2>3. /\ callPc' \in [Call -> Inside \cup {"off", "waiting", "woken", "over"}]
        /\ live' \in SUBSET Call /\ reserved' \in Int /\ spent' \in Nat /\ overrun' \in Nat
    BY <2>1, BudgetTyped
  <2> QED
    BY <2>1, <2>2, <2>3 DEF CardTypeOK, poolVars
<1>2. ASSUME NEW c \in Call, WaitAtGate(c) PROVE CardTypeOK'
  <2>1. waiting' \in Seq(Call)
    BY <1>2, AppendProperties DEF WaitAtGate, CardTypeOK
  <2> QED
    BY <1>2, <2>1 DEF WaitAtGate, CardTypeOK, poolVars, budgetVars
<1>3. ASSUME NEW c \in Call, CallReturns(c) PROVE CardTypeOK'
  <2>1. /\ live' \in SUBSET Call /\ reserved' \in Int
        /\ spent' \in Nat /\ overrun' \in Nat
    BY <1>3, BudgetTyped DEF CallReturns
  <2>2. reasked' \in SUBSET Call
    BY <1>3 DEF CallReturns, CardTypeOK
  <2>3. callPc' \in [Call -> Inside \cup {"off", "waiting", "woken", "over"}]
    BY <1>3 DEF CallReturns, CardTypeOK, Inside
  <2> QED
    BY <1>3, <2>1, <2>2, <2>3 DEF CallReturns, CardTypeOK, poolVars, gateVars
<1>4. ASSUME NEW c \in Call, CallFails(c) PROVE CardTypeOK'
  <2>1. live' \in SUBSET Call /\ reserved' \in Int
    BY <1>4, BudgetTyped DEF CallFails
  <2>2. callPc' \in [Call -> Inside \cup {"off", "waiting", "woken", "over"}]
    BY <1>4 DEF CallFails, CardTypeOK, Inside
  <2> QED
    BY <1>4, <2>1, <2>2 DEF CallFails, CardTypeOK, poolVars, gateVars
<1>5. ASSUME NEW c \in Call, LeaveGate(c) PROVE CardTypeOK'
  <2>1. waiting' \in Seq(Call)
    BY <1>5, HeadTailProperties DEF LeaveGate, CardTypeOK
  <2>2. callPc' \in [Call -> Inside \cup {"off", "waiting", "woken", "over"}]
    BY <1>5 DEF LeaveGate, CardTypeOK
  <2>3. verdict' \in [Target -> {"none", "failed", "refused"}]
    BY <1>5, CallParts DEF LeaveGate, CardTypeOK
  <2>4. inFlight' \in Nat
    <3>1. c \in CallsAt(Inside)
      BY <1>5 DEF LeaveGate, CallsAt, Inside
    <3>2. Cardinality(CallsAt(Inside)) \in Nat /\ Cardinality(CallsAt(Inside) \ {c}) \in Nat
          /\ Cardinality(CallsAt(Inside) \ {c}) = Cardinality(CallsAt(Inside)) - 1
      <4>1. CallsAt(Inside) \in SUBSET Call /\ CallsAt(Inside) \ {c} \in SUBSET Call
        BY DEF CallsAt
      <4> QED
        BY <3>1, <4>1, CallCount
    <3> QED
      BY <1>5, <3>2 DEF LeaveGate, GateCounts
  <2>5. UNCHANGED <<reasked, budgetVars, stage, running, nextUp, aborted>>
    BY <1>5 DEF LeaveGate
  <2> QED
    BY <2>1, <2>2, <2>3, <2>4, <2>5 DEF CardTypeOK, budgetVars
<1>6. CASE TakeTarget
  <2>1. stage' \in [Target -> Working \cup Settled \cup {"queued", "dropped"}]
    BY <1>6 DEF TakeTarget, CardTypeOK, Working, Settled
  <2>2. running' \in Nat /\ nextUp' \in Nat /\ aborted' \in SUBSET {TRUE}
    BY <1>6 DEF TakeTarget, CardTypeOK
  <2> QED
    BY <1>6, <2>1, <2>2 DEF TakeTarget, CardTypeOK, callState, gateVars, budgetVars
<1>7. CASE WorkerLeaves
  <2>1. running' \in Nat
    BY <1>7, <1>h DEF WorkerLeaves, SomeoneIdle, CardTypeOK
  <2> QED
    BY <1>7, <2>1 DEF WorkerLeaves, CardTypeOK, callState, gateVars, budgetVars
<1>8. ASSUME NEW t \in Target, StageEnds(t) PROVE CardTypeOK'
  <2>1. stage' \in [Target -> Working \cup Settled \cup {"queued", "dropped"}]
    BY <1>8 DEF StageEnds, CardTypeOK, Working, Settled
  <2>2. running' \in Nat /\ nextUp' \in Nat /\ aborted' \in SUBSET {TRUE}
    BY <1>8 DEF StageEnds, CardTypeOK
  <2> QED
    BY <1>8, <2>1, <2>2 DEF StageEnds, CardTypeOK, callState, gateVars, budgetVars
<1>9. ASSUME NEW t \in Target, SaveCard(t) PROVE CardTypeOK'
  <2>1. stage' \in [Target -> Working \cup Settled \cup {"queued", "dropped"}]
    BY <1>9 DEF SaveCard, Caught, CardTypeOK, Working, Settled
  <2>2. running' \in Nat /\ nextUp' \in Nat /\ aborted' \in SUBSET {TRUE}
    <3>1. /\ running' \in {running, running - 1} /\ nextUp' = nextUp
          /\ aborted' \in {aborted, {TRUE}} /\ t \in InHand
      BY <1>9 DEF SaveCard, Caught, InHand, Working
    <3>2. running' \in Nat /\ nextUp' \in Nat
      BY <1>h, <3>1, FS_EmptySet DEF CardTypeOK
    <3>3. aborted' \in SUBSET {TRUE}
      BY <3>1, Zenon DEF CardTypeOK
    <3> QED
      BY <3>2, <3>3
  <2>3. UNCHANGED <<callState, gateVars, budgetVars, verdict>>
    BY <1>9 DEF SaveCard
  <2> QED
    BY <2>1, <2>2, <2>3 DEF CardTypeOK, callState, gateVars, budgetVars
<1>10. ASSUME NEW t \in Target, CatchError(t) PROVE CardTypeOK'
  <2>1. stage' \in [Target -> Working \cup Settled \cup {"queued", "dropped"}]
    BY <1>10 DEF CatchError, Caught, CardTypeOK, Working, Settled
  <2>2. running' \in Nat /\ nextUp' \in Nat /\ aborted' \in SUBSET {TRUE}
    <3>1. /\ running' \in {running, running - 1} /\ nextUp' = nextUp
          /\ aborted' \in {aborted, {TRUE}} /\ t \in InHand
      BY <1>10 DEF CatchError, Caught, InHand, Working
    <3>2. running' \in Nat /\ nextUp' \in Nat
      BY <1>h, <3>1, FS_EmptySet DEF CardTypeOK
    <3>3. aborted' \in SUBSET {TRUE}
      BY <3>1, Zenon DEF CardTypeOK
    <3> QED
      BY <3>2, <3>3
  <2>3. UNCHANGED <<callState, gateVars, budgetVars, verdict>>
    BY <1>10 DEF CatchError
  <2> QED
    BY <2>1, <2>2, <2>3 DEF CardTypeOK, callState, gateVars, budgetVars
<1>11. CASE UNCHANGED cardVars
  BY <1>11 DEF CardTypeOK, cardVars, callState, gateVars, budgetVars, poolVars
<1> QED
  BY <1>1, <1>2, <1>3, <1>4, <1>5, <1>6, <1>7, <1>8, <1>9, <1>10, <1>11
  DEF CardNext, CallStep, TargetStep, PoolStep

-----------------------------------------------------------------------------
(* The budget.                                                             *)

(* A call that is admitted adds its estimate, and itself, to what is held. *)
LEMMA AdmitLedger ==
  ASSUME CardTypeOK, LedgerHolds, SpendWithinCap,
         NEW c \in Call, callPc[c] # "sent", Admitted(c)
  PROVE  LedgerHolds' /\ SpendWithinCap'
<1>1. Cardinality(live) \in Nat /\ c \notin live
      /\ Cardinality(live \cup {c}) = Cardinality(live) + 1
  BY CallCount DEF LedgerHolds, CallsAt, CardTypeOK
<1>2. CASE Fits
  <2>1. live' = live \cup {c} /\ live' = CallsAt({"sent"})'
    BY <1>2 DEF Admitted, LedgerHolds, CallsAt, CardTypeOK
  <2>2. reserved' = reserved + Estimate /\ UNCHANGED <<spent, overrun>>
    BY <1>2 DEF Admitted
  <2>3. reserved' = Estimate * Cardinality(live')
    BY <1>1, <2>1, <2>2, CardAssumption DEF LedgerHolds
  <2>4. SpendWithinCap'
    BY <1>2, <2>2, CardAssumption DEF SpendWithinCap, Fits, CardTypeOK
  <2> QED
    BY <2>1, <2>3, <2>4 DEF LedgerHolds
<1>3. CASE ~Fits
  BY <1>3 DEF Admitted, LedgerHolds, SpendWithinCap, CallsAt, CardTypeOK
<1> QED
  BY <1>2, <1>3

(* A call that is released takes exactly its estimate back; nothing is     *)
(* given back twice.                                                       *)
LEMMA ReleaseLedger ==
  ASSUME CardTypeOK, LedgerHolds, NEW c \in Call, callPc[c] = "sent",
         NEW s \in {"parsed", "again", "failed"}, callPc' = [callPc EXCEPT ![c] = s], Release(c)
  PROVE  LedgerHolds' /\ reserved' = reserved - Estimate
<1>1. Cardinality(live) \in Nat /\ c \in live
      /\ Cardinality(live \ {c}) = Cardinality(live) - 1
  <2>1. c \in live /\ live \in SUBSET Call
    BY DEF LedgerHolds, CallsAt, CardTypeOK
  <2> QED
    BY <2>1, CallCount
<1>2. live' = live \ {c} /\ reserved' = reserved - Estimate
  BY <1>1 DEF Release
<1>3. live' = CallsAt({"sent"})'
  <2>1. CallsAt({"sent"})' = CallsAt({"sent"}) \ {c}
    BY DEF CallsAt, CardTypeOK
  <2> QED
    BY <1>2, <2>1 DEF LedgerHolds
<1>4. reserved' = Estimate * Cardinality(live')
  <2> DEFINE n == Cardinality(live)
  <2>1. n \in Nat /\ Cardinality(live') = n - 1 /\ reserved = Estimate * n
    BY <1>1, <1>2 DEF LedgerHolds
  <2> HIDE DEF n
  <2>2. Estimate * (n - 1) = Estimate * n - Estimate
    BY <2>1, CardAssumption
  <2> QED
    BY <1>2, <2>1, <2>2
<1> QED
  BY <1>2, <1>3, <1>4 DEF LedgerHolds

(* No step lets the ledger drift or what is promised pass the ceiling.     *)
LEMMA BudgetStep ==
  CardTypeOK /\ LedgerHolds /\ SpendWithinCap /\ GateQueues /\ [CardNext]_cardVars
    => LedgerHolds' /\ SpendWithinCap'
<1> SUFFICES ASSUME CardTypeOK, LedgerHolds, SpendWithinCap, GateQueues, [CardNext]_cardVars
             PROVE  LedgerHolds' /\ SpendWithinCap'
  OBVIOUS
<1>1. ASSUME UNCHANGED budgetVars, CallsAt({"sent"})' = CallsAt({"sent"})
      PROVE  LedgerHolds' /\ SpendWithinCap'
  BY <1>1 DEF budgetVars, LedgerHolds, SpendWithinCap
<1>2. ASSUME NEW c \in Call, EnterGate(c) \/ WokenEnters(c) \/ AskAgain(c)
      PROVE  LedgerHolds' /\ SpendWithinCap'
  BY <1>2, AdmitLedger DEF EnterGate, WokenEnters, AskAgain
<1>3. ASSUME NEW c \in Call, WaitAtGate(c) PROVE LedgerHolds' /\ SpendWithinCap'
  <2>1. CallsAt({"sent"})' = CallsAt({"sent"})
    BY <1>3 DEF WaitAtGate, CallsAt, CardTypeOK
  <2> QED
    BY <1>1, <1>3, <2>1 DEF WaitAtGate
<1>4. ASSUME NEW c \in Call, CallReturns(c) PROVE LedgerHolds' /\ SpendWithinCap'
  <2>1. PICK usd \in Actual : Record(c, usd)
    BY <1>4 DEF CallReturns
  <2>2. PICK s \in {"parsed", "again"} : callPc' = [callPc EXCEPT ![c] = s]
    BY <1>4 DEF CallReturns
  <2>3. LedgerHolds' /\ reserved' = reserved - Estimate
    BY <1>4, <2>1, <2>2, ReleaseLedger DEF CallReturns, Record
  <2>4. spent' = spent + usd
        /\ overrun' = overrun + (IF usd > Estimate THEN usd - Estimate ELSE 0)
    BY <2>1 DEF Record
  <2>5. SpendWithinCap'
    BY <2>3, <2>4, CardAssumption DEF SpendWithinCap, CardTypeOK
  <2> QED
    BY <2>3, <2>5
<1>5. ASSUME NEW c \in Call, CallFails(c) PROVE LedgerHolds' /\ SpendWithinCap'
  <2>1. LedgerHolds' /\ reserved' = reserved - Estimate /\ UNCHANGED <<spent, overrun>>
    BY <1>5, ReleaseLedger DEF CallFails
  <2> QED
    BY <2>1, CardAssumption DEF SpendWithinCap, CardTypeOK
<1>6. ASSUME NEW c \in Call, LeaveGate(c) PROVE LedgerHolds' /\ SpendWithinCap'
  <2>1. waiting # <<>> => callPc[Head(waiting)] = "waiting"
    <3>1. waiting # <<>> => Head(waiting) \in CallsAt({"waiting"})
      BY LeaveLine DEF GateQueues
    <3> QED
      BY <3>1 DEF CallsAt
  <2>2. CallsAt({"sent"})' = CallsAt({"sent"})
    BY <1>6, <2>1 DEF LeaveGate, CallsAt, CardTypeOK
  <2> QED
    BY <1>1, <1>6, <2>2 DEF LeaveGate
<1>7. ASSUME UNCHANGED <<callState, budgetVars>> PROVE LedgerHolds' /\ SpendWithinCap'
  BY <1>1, <1>7 DEF callState, CallsAt
<1>8. CASE PoolStep \/ \E t \in Target : TargetStep(t)
  BY <1>7, <1>8 DEF PoolStep, TargetStep, TakeTarget, WorkerLeaves, StageEnds, SaveCard, CatchError
<1>9. CASE UNCHANGED cardVars
  BY <1>7, <1>9 DEF cardVars
<1> QED
  BY <1>2, <1>3, <1>4, <1>5, <1>6, <1>8, <1>9 DEF CardNext, CallStep

-----------------------------------------------------------------------------
(* The gate.                                                               *)

(* A call that comes in is counted, and will wake whoever waits.           *)
LEMMA ComingIn ==
  ASSUME CardTypeOK, GateInv, NEW c \in Call, callPc[c] \in {"off", "woken"},
         inFlight' = inFlight + 1, Admitted(c), UNCHANGED waiting
  PROVE  GateInv'
<1>1. PICK s \in {"sent", "refused"} : callPc' = [callPc EXCEPT ![c] = s]
  BY DEF Admitted
<1>2. CallsAt(Inside)' = CallsAt(Inside) \cup {c} /\ c \notin CallsAt(Inside)
  BY <1>1 DEF CallsAt, CardTypeOK, Inside
<1>3. CallsAt({"waiting"})' = CallsAt({"waiting"})
  BY <1>1 DEF CallsAt, CardTypeOK
<1>4. GateCounts'
  <2>1. CallsAt(Inside) \in SUBSET Call
    BY DEF CallsAt
  <2>2. Cardinality(CallsAt(Inside) \cup {c}) = Cardinality(CallsAt(Inside)) + 1
    BY <1>2, <2>1, CallCount
  <2> QED
    BY <1>2, <2>2 DEF GateInv, GateCounts
<1>5. GateQueues'
  BY <1>3 DEF GateInv, GateQueues
<1>6. c \in CallsAt(Inside \cup {"woken"})'
  BY <1>1 DEF CallsAt, CardTypeOK, Inside
<1> QED
  BY <1>4, <1>5, <1>6 DEF GateInv, GateWakes

(* Steps of a call that stays inside do not concern the gate.              *)
LEMMA StayingIn ==
  ASSUME CardTypeOK, GateInv, NEW c \in Call, callPc[c] \in Inside, NEW s \in Inside,
         callPc' = [callPc EXCEPT ![c] = s], UNCHANGED gateVars
  PROVE  GateInv'
<1>1. /\ CallsAt(Inside)' = CallsAt(Inside)
      /\ CallsAt(Inside \cup {"woken"})' = CallsAt(Inside \cup {"woken"})
  BY DEF CallsAt, CardTypeOK
<1>2. CallsAt({"waiting"})' = CallsAt({"waiting"})
  BY DEF CallsAt, CardTypeOK, Inside
<1> QED
  BY <1>1, <1>2 DEF GateInv, GateCounts, GateQueues, GateWakes, gateVars

(* Every step keeps the count, the line, and somebody who will wake it.    *)
LEMMA GateStep == CardTypeOK /\ GateInv /\ [CardNext]_cardVars => GateInv'
<1> SUFFICES ASSUME CardTypeOK, GateInv, [CardNext]_cardVars PROVE GateInv'
  OBVIOUS
<1>1. ASSUME NEW c \in Call, EnterGate(c) \/ WokenEnters(c) PROVE GateInv'
  BY <1>1, ComingIn DEF EnterGate, WokenEnters
<1>2. ASSUME NEW c \in Call, WaitAtGate(c) PROVE GateInv'
  <2>1. callPc[c] = "off" /\ callPc' = [callPc EXCEPT ![c] = "waiting"]
    BY <1>2 DEF WaitAtGate
  <2>2. /\ CallsAt(Inside)' = CallsAt(Inside)
        /\ CallsAt(Inside \cup {"woken"})' = CallsAt(Inside \cup {"woken"})
    BY <2>1 DEF CallsAt, CardTypeOK, Inside
  <2>3. CallsAt({"waiting"})' = CallsAt({"waiting"}) \cup {c} /\ c \notin CallsAt({"waiting"})
    BY <2>1 DEF CallsAt, CardTypeOK
  <2>4. InLine(Append(waiting, c), CallsAt({"waiting"}) \cup {c})
    BY <2>3, JoinLine DEF GateInv, GateQueues
  <2>5. GateQueues'
    BY <1>2, <2>3, <2>4 DEF GateQueues, WaitAtGate
  <2>6. CallsAt(Inside) # {}
    <3>1. inFlight > 0 /\ inFlight = Cardinality(CallsAt(Inside))
      BY <1>2, CardAssumption DEF WaitAtGate, GateInv, GateCounts, CardTypeOK
    <3>2. CallsAt(Inside) = {} => Cardinality(CallsAt(Inside)) = 0
      BY FS_EmptySet
    <3> QED
      BY <3>1, <3>2
  <2>7. CallsAt(Inside) \subseteq CallsAt(Inside \cup {"woken"})
    BY DEF CallsAt
  <2>8. GateCounts'
    BY <1>2, <2>2 DEF GateInv, GateCounts, WaitAtGate
  <2> QED
    BY <2>2, <2>5, <2>6, <2>7, <2>8 DEF GateInv, GateWakes
<1>3. ASSUME NEW c \in Call, CallReturns(c) \/ CallFails(c) PROVE GateInv'
  <2>1. PICK s \in {"parsed", "again", "failed"} : callPc' = [callPc EXCEPT ![c] = s]
    BY <1>3 DEF CallReturns, CallFails
  <2>2. callPc[c] \in Inside /\ s \in Inside /\ UNCHANGED gateVars
    BY <1>3 DEF CallReturns, CallFails, Inside
  <2> QED
    BY <2>1, <2>2, StayingIn
<1>4. ASSUME NEW c \in Call, AskAgain(c) PROVE GateInv'
  <2>1. PICK s \in {"sent", "refused"} : callPc' = [callPc EXCEPT ![c] = s]
    BY <1>4 DEF AskAgain, Admitted
  <2>2. callPc[c] \in Inside /\ s \in Inside /\ UNCHANGED gateVars
    BY <1>4 DEF AskAgain, Inside
  <2> QED
    BY <2>1, <2>2, StayingIn
<1>5. ASSUME NEW c \in Call, LeaveGate(c) PROVE GateInv'
  <2>1. callPc[c] \in {"parsed", "failed", "refused"} /\ inFlight' = inFlight - 1
    BY <1>5 DEF LeaveGate
  <2>2. c \in CallsAt(Inside) /\ CallsAt(Inside) \in SUBSET Call
    BY <2>1 DEF CallsAt, Inside
  <2>3. Cardinality(CallsAt(Inside) \ {c}) = Cardinality(CallsAt(Inside)) - 1
    BY <2>2, CallCount
  <2>4. CASE waiting = <<>>
    <3>1. callPc' = [d \in Call |-> IF d = c THEN "over" ELSE callPc[d]] /\ waiting' = waiting
      BY <1>5, <2>4 DEF LeaveGate
    <3>2. CallsAt(Inside)' = CallsAt(Inside) \ {c}
      BY <3>1 DEF CallsAt, CardTypeOK, Inside
    <3>3. CallsAt({"waiting"})' = CallsAt({"waiting"})
      BY <2>1, <3>1 DEF CallsAt, CardTypeOK
    <3> QED
      BY <2>1, <2>3, <2>4, <3>1, <3>2, <3>3 DEF GateInv, GateCounts, GateQueues, GateWakes
  <2>5. CASE waiting # <<>>
    <3> DEFINE h == Head(waiting)
    <3>1. /\ h \in CallsAt({"waiting"}) /\ h \in Call
          /\ InLine(Tail(waiting), CallsAt({"waiting"}) \ {h})
      BY <2>5, LeaveLine DEF GateInv, GateQueues
    <3>2. callPc[h] = "waiting" /\ h # c
      BY <2>1, <3>1 DEF CallsAt
    <3>3. /\ callPc' = [d \in Call |-> IF d = c THEN "over" ELSE IF d = h THEN "woken"
                                       ELSE callPc[d]]
          /\ waiting' = Tail(waiting)
      BY <1>5, <2>5 DEF LeaveGate
    <3> HIDE DEF h
    <3>4. CallsAt(Inside)' = CallsAt(Inside) \ {c}
      BY <3>1, <3>2, <3>3 DEF CallsAt, CardTypeOK, Inside
    <3>5. CallsAt({"waiting"})' = CallsAt({"waiting"}) \ {h}
      BY <2>1, <3>1, <3>2, <3>3 DEF CallsAt, CardTypeOK
    <3>6. h \in CallsAt(Inside \cup {"woken"})'
      BY <3>1, <3>2, <3>3 DEF CallsAt
    <3>7. GateQueues'
      BY <3>1, <3>3, <3>5 DEF GateQueues
    <3> QED
      BY <2>1, <2>3, <3>4, <3>6, <3>7 DEF GateInv, GateCounts, GateWakes
  <2> QED
    BY <2>4, <2>5
<1>6. ASSUME UNCHANGED <<callState, gateVars>> PROVE GateInv'
  BY <1>6 DEF callState, gateVars, CallsAt, GateInv, GateCounts, GateQueues, GateWakes
<1>7. CASE PoolStep \/ \E t \in Target : TargetStep(t)
  BY <1>6, <1>7 DEF PoolStep, TargetStep, TakeTarget, WorkerLeaves, StageEnds, SaveCard, CatchError
<1>8. CASE UNCHANGED cardVars
  BY <1>6, <1>8 DEF cardVars
<1> QED
  BY <1>1, <1>2, <1>3, <1>4, <1>5, <1>7, <1>8 DEF CardNext, CallStep

-----------------------------------------------------------------------------
(* The pool.                                                               *)

(* Only a session that is mapped, merged or supplemented has calls to make. *)
LEMMA StagesWithCalls ==
  ASSUME NEW t \in Target, NEW c \in StageCalls(t)
  PROVE  stage[t] \in {"map", "reduce", "extra"}
BY DEF StageCalls

(* Every step keeps the order in which sessions are taken and the workers  *)
(* that stay with them.                                                    *)
LEMMA CountStep ==
  CardTypeOK /\ TakenInOrder /\ WorkersStay /\ [CardNext]_cardVars
    => TakenInOrder' /\ WorkersStay'
<1> SUFFICES ASSUME CardTypeOK, TakenInOrder, WorkersStay, [CardNext]_cardVars
             PROVE  TakenInOrder' /\ WorkersStay'
  OBVIOUS
<1> DEFINE W == InHand
<1>w. W \in SUBSET Target /\ Cardinality(W) \in Nat
  <2>1. W \in SUBSET Target
    BY DEF InHand
  <2> QED
    BY <2>1, TargetCount
<1>1. ASSUME UNCHANGED <<stage, running, nextUp>> PROVE TakenInOrder' /\ WorkersStay'
  BY <1>1 DEF TakenInOrder, WorkersStay, InHand
<1>2. ASSUME NEW t \in Target, stage[t] \in Working,
             NEW s \in Settled \cup {"dropped"}, stage' = [stage EXCEPT ![t] = s],
             running' \in {running, running - 1}, nextUp' = nextUp
      PROVE  TakenInOrder' /\ WorkersStay'
  <2>1. TakenInOrder'
    BY <1>2 DEF TakenInOrder, CardTypeOK, Working, Settled
  <2>2. W' = W \ {t} /\ t \in W
    BY <1>2 DEF InHand, CardTypeOK, Working, Settled
  <2> HIDE DEF W
  <2>3. Cardinality(W') = Cardinality(W) - 1
    BY <1>w, <2>2, TargetCount
  <2> QED
    BY <1>2, <1>w, <2>1, <2>3, WorkersNat DEF WorkersStay, CardTypeOK, W
<1>3. CASE TakeTarget
  <2>1. nextUp \in Target /\ stage[nextUp] = "queued" /\ nextUp' = nextUp + 1
    BY <1>3, CardAssumption DEF TakeTarget, TakenInOrder, CardTypeOK, Target
  <2>2. PICK s \in {"map", "failed"} : stage' = [stage EXCEPT ![nextUp] = s]
    BY <1>3 DEF TakeTarget
  <2>3. TakenInOrder'
    BY <2>1, <2>2, Finitely DEF TakenInOrder, CardTypeOK
  <2>4. CASE stage' = [stage EXCEPT ![nextUp] = "map"]
    <3>1. W' = W \cup {nextUp} /\ nextUp \notin W
      BY <2>1, <2>4 DEF InHand, CardTypeOK, Working
    <3> HIDE DEF W
    <3>2. Cardinality(W') = Cardinality(W) + 1
      BY <1>w, <3>1, TargetCount
    <3> QED
      BY <1>3, <1>w, <2>3, <3>2, WorkersNat
      DEF TakeTarget, SomeoneIdle, WorkersStay, CardTypeOK, W
  <2>5. CASE stage' = [stage EXCEPT ![nextUp] = "failed"]
    <3>1. W' = W
      BY <2>1, <2>5 DEF InHand, CardTypeOK, Working
    <3> QED
      BY <1>3, <2>3, <3>1 DEF TakeTarget, WorkersStay
  <2> QED
    BY <1>3, <2>4, <2>5 DEF TakeTarget
<1>4. CASE WorkerLeaves
  BY <1>4, <1>w, WorkersNat DEF WorkerLeaves, SomeoneIdle, TakenInOrder, WorkersStay, InHand, CardTypeOK
<1>5. ASSUME NEW t \in Target, StageEnds(t) PROVE TakenInOrder' /\ WorkersStay'
  <2>1. PICK s \in {"reduce", "extra", "save"} : stage' = [stage EXCEPT ![t] = s]
    BY <1>5 DEF StageEnds
  <2>2. stage[t] \in {"map", "reduce", "extra"} /\ UNCHANGED <<running, nextUp>>
    BY <1>5 DEF StageEnds
  <2>3. TakenInOrder'
    BY <2>1, <2>2 DEF TakenInOrder, CardTypeOK
  <2>4. W' = W
    BY <2>1, <2>2 DEF InHand, CardTypeOK, Working
  <2> QED
    BY <2>2, <2>3, <2>4 DEF WorkersStay
<1>6. ASSUME NEW t \in Target, SaveCard(t) \/ CatchError(t) PROVE TakenInOrder' /\ WorkersStay'
  <2>1. PICK s \in Settled \cup {"dropped"} : stage' = [stage EXCEPT ![t] = s]
    BY <1>6 DEF SaveCard, CatchError, Caught, Settled
  <2>2. running' \in {running, running - 1} /\ nextUp' = nextUp /\ stage[t] \in Working
    BY <1>6 DEF SaveCard, CatchError, Caught, Working
  <2> QED
    BY <1>2, <2>1, <2>2
<1>8. CASE \E c \in Call : CallStep(c)
  BY <1>1, <1>8 DEF CallStep, EnterGate, WaitAtGate, WokenEnters, CallReturns, AskAgain,
                    CallFails, LeaveGate, poolVars
<1>9. CASE UNCHANGED cardVars
  BY <1>1, <1>9 DEF cardVars, poolVars
<1> QED
  BY <1>3, <1>4, <1>5, <1>6, <1>8, <1>9 DEF CardNext, PoolStep, TargetStep

(* Every step keeps the calls with their stage, and errors away from saved *)
(* sessions.                                                               *)
LEMMA BelongStep ==
  CardTypeOK /\ GateQueues /\ TakenInOrder /\ CallsBelong /\ SavedWithoutError
    /\ [CardNext]_cardVars => CallsBelong' /\ SavedWithoutError'
<1> SUFFICES ASSUME CardTypeOK, GateQueues, TakenInOrder, CallsBelong, SavedWithoutError,
                    [CardNext]_cardVars
             PROVE  CallsBelong' /\ SavedWithoutError'
  OBVIOUS
<1> DEFINE Idle == {"off", "over"}
<1>1. ASSUME UNCHANGED <<stage, verdict>>,
             \A c \in Call : callPc'[c] \notin Idle =>
                               callPc[c] \notin Idle \/ c \in StageCalls(c[1])
      PROVE  CallsBelong' /\ SavedWithoutError'
  BY <1>1 DEF CallsBelong, SavedWithoutError, StageCalls
<1>2. ASSUME NEW c \in Call,
             EnterGate(c) \/ WaitAtGate(c) \/ WokenEnters(c) \/ CallReturns(c) \/ AskAgain(c)
               \/ CallFails(c)
      PROVE  CallsBelong' /\ SavedWithoutError'
  <2>1. UNCHANGED <<stage, verdict>>
    BY <1>2 DEF EnterGate, WaitAtGate, WokenEnters, CallReturns, AskAgain, CallFails, poolVars
  <2>2. callPc[c] \notin Idle \/ c \in StageCalls(c[1])
    BY <1>2 DEF EnterGate, WaitAtGate, WokenEnters, CallReturns, AskAgain, CallFails
  <2>3. \A d \in Call \ {c} : callPc'[d] = callPc[d]
    BY <1>2 DEF EnterGate, WaitAtGate, WokenEnters, CallReturns, AskAgain, CallFails, Admitted,
                CardTypeOK
  <2> QED
    BY <1>1, <2>1, <2>2, <2>3
<1>3. ASSUME NEW c \in Call, LeaveGate(c) PROVE CallsBelong' /\ SavedWithoutError'
  <2>1. c[1] \in Target
    BY CallParts
  <2>2. \A t \in Target : verdict[t] # "none" => verdict'[t] = verdict[t]
    BY <1>3, <2>1 DEF LeaveGate, CardTypeOK
  <2>3. \A t \in Target \ {c[1]} : verdict'[t] = verdict[t]
    BY <1>3 DEF LeaveGate, CardTypeOK
  <2>4. waiting # <<>> => Head(waiting) \in CallsAt({"waiting"})
    BY LeaveLine DEF GateQueues
  <2>5. ASSUME NEW d \in Call, callPc'[d] \notin Idle PROVE callPc[d] \notin Idle
    BY <1>3, <2>4, <2>5 DEF LeaveGate, CallsAt, CardTypeOK
  <2>6. \A t \in Target : StageCalls(t)' = StageCalls(t)
    BY <1>3 DEF LeaveGate, StageCalls
  <2>7. CallsBelong'
    <3> SUFFICES ASSUME NEW d \in Call, callPc'[d] \notin Idle
                 PROVE  d \in StageCalls(d[1])' \/ verdict'[d[1]] # "none"
      BY DEF CallsBelong
    <3>1. d[1] \in Target
      BY CallParts
    <3>2. d \in StageCalls(d[1]) \/ verdict[d[1]] # "none"
      BY <2>5 DEF CallsBelong
    <3> QED
      BY <2>2, <2>6, <3>1, <3>2
  <2>8. stage[c[1]] \in {"save", "carded"} => c \notin StageCalls(c[1])
    BY <2>1, StagesWithCalls
  <2>9. callPc[c] \notin Idle
    BY <1>3 DEF LeaveGate
  <2>10. stage[c[1]] \notin {"save", "carded"}
    BY <2>1, <2>8, <2>9 DEF CallsBelong, SavedWithoutError
  <2>11. SavedWithoutError'
    BY <1>3, <2>3, <2>10 DEF SavedWithoutError, LeaveGate
  <2> QED
    BY <2>7, <2>11
<1>4. ASSUME NEW t \in Target, NEW s, stage' = [stage EXCEPT ![t] = s], UNCHANGED <<callPc, verdict>>,
             s \in {"save", "carded"} => verdict[t] = "none",
             \/ StageCalls(t) = {}
             \/ verdict[t] # "none"
             \/ \A c \in StageCalls(t) : callPc[c] \in Idle
      PROVE  CallsBelong' /\ SavedWithoutError'
  <2>1. CallsBelong'
    <3> SUFFICES ASSUME NEW d \in Call, callPc[d] \notin Idle
                 PROVE  d \in StageCalls(d[1])' \/ verdict[d[1]] # "none"
      BY <1>4 DEF CallsBelong
    <3>1. d[1] \in Target /\ (d \in StageCalls(d[1]) \/ verdict[d[1]] # "none")
      BY CallParts DEF CallsBelong
    <3>2. CASE d[1] = t
      BY <1>4, <3>1, <3>2
    <3>3. CASE d[1] # t
      BY <1>4, <3>1, <3>3 DEF StageCalls, CardTypeOK
    <3> QED
      BY <3>2, <3>3
  <2>2. SavedWithoutError'
    BY <1>4 DEF SavedWithoutError, CardTypeOK
  <2> QED
    BY <2>1, <2>2
<1>5. CASE TakeTarget
  <2>1. nextUp \in Target /\ stage[nextUp] = "queued" /\ UNCHANGED <<callPc, verdict>>
    BY <1>5, CardAssumption DEF TakeTarget, TakenInOrder, CardTypeOK, Target, callState
  <2>2. PICK s \in {"map", "failed"} : stage' = [stage EXCEPT ![nextUp] = s]
    BY <1>5 DEF TakeTarget
  <2>3. StageCalls(nextUp) = {}
    BY <2>1 DEF StageCalls
  <2> QED
    BY <1>4, <2>1, <2>2, <2>3
<1>6. ASSUME NEW t \in Target, StageEnds(t) PROVE CallsBelong' /\ SavedWithoutError'
  <2>1. PICK s \in {"reduce", "extra", "save"} : stage' = [stage EXCEPT ![t] = s]
    BY <1>6 DEF StageEnds
  <2>2. UNCHANGED <<callPc, verdict>> /\ verdict[t] = "none"
        /\ \A c \in StageCalls(t) : callPc[c] \in Idle
    BY <1>6 DEF StageEnds, callState
  <2> QED
    BY <1>4, <2>1, <2>2
<1>7. ASSUME NEW t \in Target, SaveCard(t) PROVE CallsBelong' /\ SavedWithoutError'
  <2>1. PICK s \in {"carded", "failed", "dropped"} : stage' = [stage EXCEPT ![t] = s]
    BY <1>7 DEF SaveCard, Caught
  <2>2. UNCHANGED <<callPc, verdict>> /\ verdict[t] = "none" /\ StageCalls(t) = {}
    BY <1>7 DEF SaveCard, callState, SavedWithoutError, StageCalls
  <2> QED
    BY <1>4, <2>1, <2>2
<1>8. ASSUME NEW t \in Target, CatchError(t) PROVE CallsBelong' /\ SavedWithoutError'
  <2>1. PICK s \in {"dropped", "failed"} : stage' = [stage EXCEPT ![t] = s]
    BY <1>8 DEF CatchError, Caught
  <2>2. UNCHANGED <<callPc, verdict>> /\ verdict[t] # "none"
    BY <1>8 DEF CatchError, callState
  <2> QED
    BY <1>4, <2>1, <2>2
<1>9. ASSUME UNCHANGED <<callPc, stage, verdict>> PROVE CallsBelong' /\ SavedWithoutError'
  BY <1>1, <1>9
<1>10. CASE WorkerLeaves \/ UNCHANGED cardVars
  BY <1>9, <1>10 DEF WorkerLeaves, cardVars, callState, poolVars
<1> QED
  BY <1>2, <1>3, <1>5, <1>6, <1>7, <1>8, <1>10 DEF CardNext, CallStep, PoolStep, TargetStep

-----------------------------------------------------------------------------
(* The invariant.                                                          *)

(* It holds when a run starts, be it with nothing to card or nothing to    *)
(* spend.                                                                  *)
LEMMA CardInitInv == CardInit => CardInv
<1> SUFFICES ASSUME CardInit PROVE CardInv
  OBVIOUS
<1>1. CardTypeOK
  <2>1. waiting \in Seq(Call) /\ Workers \in Nat
    BY WorkersNat, EmptySeq DEF CardInit
  <2> QED
    BY <2>1 DEF CardInit, CardTypeOK
<1>2. \A S \in SUBSET (Inside \cup {"woken", "waiting"}) : CallsAt(S) = {}
  BY DEF CardInit, CallsAt, Inside
<1>3. CallsAt({"sent"}) = {} /\ CallsAt(Inside) = {} /\ CallsAt({"waiting"}) = {}
  BY <1>2 DEF Inside
<1>4. LedgerHolds /\ SpendWithinCap
  BY <1>3, FS_EmptySet, CardAssumption DEF CardInit, LedgerHolds, SpendWithinCap
<1>5. GateInv
  <2>1. InLine(waiting, {})
    BY EmptySeq DEF CardInit, InLine
  <2> QED
    BY <1>3, <2>1, FS_EmptySet DEF CardInit, GateInv, GateCounts, GateQueues, GateWakes
<1>6. PoolInv
  <2>1. TakenInOrder
    BY DEF CardInit, TakenInOrder, Target
  <2>2. InHand = {}
    BY DEF CardInit, InHand, Working
  <2>3. WorkersStay
    BY <2>2, FS_EmptySet, WorkersNat DEF CardInit, WorkersStay
  <2>4. CallsBelong /\ SavedWithoutError
    BY DEF CardInit, CallsBelong, SavedWithoutError
  <2> QED
    BY <2>1, <2>3, <2>4 DEF PoolInv
<1> QED
  BY <1>1, <1>4, <1>5, <1>6 DEF CardInv

(* Every step keeps it.                                                    *)
LEMMA CardNextInv == CardInv /\ [CardNext]_cardVars => CardInv'
BY TypeStep, BudgetStep, GateStep, CountStep, BelongStep DEF CardInv, GateInv, PoolInv

(* It always holds.                                                        *)
THEOREM CardInductive == CardSpec => []CardInv
BY CardInitInv, CardNextInv, PTL DEF CardSpec

(* The types of the card run's state.                                      *)
THEOREM CardTypeCorrect == CardSpec => []CardTypeOK
<1>1. CardInv => CardTypeOK
  BY DEF CardInv
<1> QED
  BY <1>1, CardInductive, PTL

(* The ceiling: whatever calls run side by side, what was paid and what is *)
(* promised never pass --max-usd but for what calls cost above their       *)
(* estimates (admit(), record() and release() of llm.ts).                  *)
THEOREM SpendStaysWithinCap == CardSpec => []SpendWithinCap
<1>1. CardInv => SpendWithinCap
  BY DEF CardInv
<1> QED
  BY <1>1, CardInductive, PTL

(* What was paid alone passes the ceiling at most by what calls cost above *)
(* their estimates, which nothing in the code bounds: admit() looks at the *)
(* estimate, record() books whatever was paid.  As long as no call has     *)
(* cost more, the ceiling is not passed at all.                            *)
THEOREM PaidWithinCap == CardSpec => [](spent <= Cap + overrun /\ (overrun = 0 => spent <= Cap))
<1>1. CardInv => spent <= Cap + overrun /\ (overrun = 0 => spent <= Cap)
  <2> SUFFICES ASSUME CardInv PROVE spent <= Cap + overrun /\ (overrun = 0 => spent <= Cap)
    OBVIOUS
  <2>1. Cardinality(live) \in Nat
    BY CallCount DEF CardInv, CardTypeOK
  <2>2. reserved >= 0
    BY <2>1, CardAssumption DEF CardInv, LedgerHolds
  <2> QED
    BY <2>2, CardAssumption DEF CardInv, SpendWithinCap, CardTypeOK
<1> QED
  BY <1>1, CardInductive, PTL

(* The budget holds exactly one estimate for each call that is out, so a   *)
(* call that ended, however it ended, leaves nothing held behind.          *)
THEOREM OnlySentCallsAreHeld ==
  CardSpec => [](/\ reserved = Estimate * Cardinality(CallsAt({"sent"}))
                 /\ CallsAt({"sent"}) = {} => reserved = 0)
<1>1. CardInv => /\ reserved = Estimate * Cardinality(CallsAt({"sent"}))
                 /\ CallsAt({"sent"}) = {} => reserved = 0
  <2> SUFFICES ASSUME CardInv
               PROVE  /\ reserved = Estimate * Cardinality(CallsAt({"sent"}))
                      /\ CallsAt({"sent"}) = {} => reserved = 0
    OBVIOUS
  <2>1. reserved = Estimate * Cardinality(CallsAt({"sent"}))
    BY DEF CardInv, LedgerHolds
  <2>2. CallsAt({"sent"}) = {} => Cardinality(CallsAt({"sent"})) = 0
    BY FS_EmptySet
  <2> QED
    BY <2>1, <2>2, CardAssumption
<1> QED
  BY <1>1, CardInductive, PTL

(* The gate loses no wakeup: while a call waits, another one is inside or  *)
(* has been woken and will wake the next when it leaves (gate.ts).  The    *)
(* count is that of the calls inside, and the line holds those that wait.  *)
THEOREM GateLosesNoWakeup == CardSpec => [](GateCounts /\ GateQueues /\ GateWakes)
<1>1. CardInv => GateCounts /\ GateQueues /\ GateWakes
  BY DEF CardInv, GateInv
<1> QED
  BY <1>1, CardInductive, PTL

(* A session has a card only if none of its calls failed or was refused,   *)
(* and none of them is still under way.                                    *)
THEOREM CardedWithoutError ==
  CardSpec => [](\A t \in Target : stage[t] = "carded" =>
                   /\ verdict[t] = "none"
                   /\ \A c \in Call : c[1] = t => callPc[c] \in {"off", "over"})
<1>1. CardInv => \A t \in Target : stage[t] = "carded" =>
                   /\ verdict[t] = "none"
                   /\ \A c \in Call : c[1] = t => callPc[c] \in {"off", "over"}
  <2> SUFFICES ASSUME CardInv, NEW t \in Target, stage[t] = "carded"
               PROVE  /\ verdict[t] = "none"
                      /\ \A c \in Call : c[1] = t => callPc[c] \in {"off", "over"}
    OBVIOUS
  <2>1. verdict[t] = "none"
    BY DEF CardInv, PoolInv, SavedWithoutError
  <2>2. StageCalls(t) = {}
    BY DEF StageCalls
  <2> QED
    BY <2>1, <2>2 DEF CardInv, PoolInv, CallsBelong
<1> QED
  BY <1>1, CardInductive, PTL

(* What the pool settled or dropped it never takes up again, so no session *)
(* is carded twice in a run.                                               *)
THEOREM SettledStays ==
  CardSpec => [][\A t \in Target : stage[t] \in Settled \cup {"dropped"} =>
                                     stage'[t] = stage[t]]_cardVars
<1>1. CardInv /\ [CardNext]_cardVars =>
        [\A t \in Target : stage[t] \in Settled \cup {"dropped"} => stage'[t] = stage[t]]_cardVars
  <2> SUFFICES ASSUME CardInv, CardNext, NEW t \in Target, stage[t] \in Settled \cup {"dropped"}
               PROVE  stage'[t] = stage[t]
    BY DEF cardVars
  <2> USE DEF CardInv
  <2>1. stage[t] \notin Working \cup {"queued"}
    BY DEF Settled, Working
  <2>2. CASE TakeTarget
    <3>1. stage[nextUp] = "queued" /\ nextUp # t
      BY <2>1, <2>2, CardAssumption
      DEF TakeTarget, PoolInv, TakenInOrder, CardTypeOK, Target
    <3> QED
      BY <2>2, <3>1 DEF TakeTarget, CardTypeOK
  <2>3. CASE WorkerLeaves
    BY <2>3 DEF WorkerLeaves
  <2>4. ASSUME NEW u \in Target, TargetStep(u) PROVE stage'[t] = stage[t]
    <3>1. u # t
      BY <2>1, <2>4 DEF TargetStep, StageEnds, SaveCard, CatchError, Working
    <3>2. PICK s : stage' = [stage EXCEPT ![u] = s]
      BY <2>4 DEF TargetStep, StageEnds, SaveCard, CatchError, Caught
    <3> QED
      BY <3>1, <3>2 DEF CardTypeOK
  <2>5. ASSUME NEW c \in Call, CallStep(c) PROVE stage'[t] = stage[t]
    BY <2>5 DEF CallStep, EnterGate, WaitAtGate, WokenEnters, CallReturns, AskAgain, CallFails,
                LeaveGate, poolVars
  <2> QED
    BY <2>2, <2>3, <2>4, <2>5 DEF CardNext, PoolStep
<1> QED
  BY <1>1, CardInductive, PTL DEF CardSpec

=============================================================================
