------------------------------- MODULE CardRun -------------------------------
(***************************************************************************)
(* `potsherd card`: runCards() (cards/run.ts) writes one card per session  *)
(* with model calls.  A pool of workers takes the sessions in order; the   *)
(* calls of all sessions pass one gate (cards/gate.ts) of Permits permits; *)
(* before it is sent each call reserves its estimate in the budget         *)
(* (llm.ts), and the first call the budget refuses ends the run.           *)
(*                                                                         *)
(* The chunks of a session are mapped by concurrent calls and merged by    *)
(* one more; at most one supplement follows (cards/extract.ts, pipeline.ts). *)
(* A step runs from one await to the next, except that the chunks of one   *)
(* session enter the gate in steps of their own.  Only the dollar ceiling  *)
(* is modelled; the one over tokens has the same code.                     *)
(***************************************************************************)
EXTENDS Integers, Sequences, FiniteSets

CONSTANTS
  Targets,   \* how many sessions are to be carded, in this order
  Chunks,     \* chunks of each
  Permits,    \* --concurrency
  Cap,        \* --max-usd
  Estimate,   \* what a call reserves
  Actual      \* what one may turn out to cost

Target == 1 .. Targets

ASSUME CardAssumption ==
  /\ Targets \in Nat /\ Permits \in Nat \ {0}
  /\ Chunks \in [Target -> Nat \ {0}]
  /\ Cap \in Nat /\ Estimate \in Nat /\ Actual \subseteq Nat

(* 0 merges the chunks, the last one is the supplement.                    *)
Calls(t) == {<<t, i>> : i \in 0 .. (Chunks[t] + 1)}
Call     == UNION {Calls(t) : t \in Target}

VARIABLES
  callPc,     \* where each call is; "sent" covers a second attempt after a
              \* deadline, which send() makes under the same reservation
  reasked,    \* calls whose first answer did not parse
  inFlight,   \* the gate's count of its callers
  waiting,    \* and those it keeps waiting, in order
  live,       \* calls with a reservation not yet released
  reserved,   \* the budget: held for them
  spent,      \* and recorded
  overrun,    \* what recorded calls cost above their estimates
  stage,      \* where each session is
  verdict,    \* the first error of its calls
  running,    \* workers that have not returned: runCards() waits for them
  nextUp,     \* the next session to take
  aborted     \* {TRUE} once a worker met a BudgetError

gateVars   == <<inFlight, waiting>>
budgetVars == <<live, reserved, spent, overrun>>
callState  == <<callPc, reasked>>
poolVars   == <<stage, verdict, running, nextUp, aborted>>
cardVars   == <<callState, gateVars, budgetVars, poolVars>>

Inside  == {"sent", "again", "parsed", "failed", "refused"}
Working == {"map", "reduce", "extra", "save"}
Settled == {"carded", "failed"}

CardTypeOK ==
  /\ callPc \in [Call -> Inside \cup {"off", "waiting", "woken", "over"}]
  /\ reasked \in SUBSET Call
  /\ inFlight \in Nat /\ waiting \in Seq(Call)
  /\ live \in SUBSET Call /\ reserved \in Int /\ spent \in Nat /\ overrun \in Nat
  /\ stage \in [Target -> Working \cup Settled \cup {"queued", "dropped"}]
  /\ verdict \in [Target -> {"none", "failed", "refused"}]
  /\ running \in Nat /\ nextUp \in Nat /\ aborted \in SUBSET {TRUE}

Workers == IF 2 * Permits < Targets THEN 2 * Permits ELSE Targets

CardInit ==
  /\ callPc = [c \in Call |-> "off"] /\ reasked = {}
  /\ inFlight = 0 /\ waiting = <<>>
  /\ live = {} /\ reserved = 0 /\ spent = 0 /\ overrun = 0
  /\ stage = [t \in Target |-> "queued"] /\ verdict = [t \in Target |-> "none"]
  /\ running = Workers /\ nextUp = 1 /\ aborted = {}

-----------------------------------------------------------------------------
(* The budget.                                                             *)

(* A variant that looks at what was spent only.                            *)
FitsSpent == spent + Estimate <= Cap

Fits == spent + reserved + Estimate <= Cap

(* admit() reserves or throws; what it refuses reserves nothing.           *)
Admitted(c) ==
  /\ callPc' = [callPc EXCEPT ![c] = IF Fits THEN "sent" ELSE "refused"]
  /\ reserved' = IF Fits THEN reserved + Estimate ELSE reserved
  /\ live' = IF Fits THEN live \cup {c} ELSE live
  /\ UNCHANGED <<spent, overrun>>

(* release() is idempotent: it gives back what is still held.              *)
Release(c) ==
  /\ reserved' = IF c \in live THEN reserved - Estimate ELSE reserved
  /\ live' = live \ {c}

(* record() releases and adds the actual cost in one step.                 *)
Record(c, usd) ==
  /\ Release(c)
  /\ spent' = spent + usd
  /\ overrun' = overrun + (IF usd > Estimate THEN usd - Estimate ELSE 0)

-----------------------------------------------------------------------------
(* The calls of the stage a session is in.                                 *)
StageCalls(t) ==
  CASE stage[t] = "map"    -> {<<t, i>> : i \in 1 .. Chunks[t]}
    [] stage[t] = "reduce" -> {<<t, 0>>}
    [] stage[t] = "extra"  -> {<<t, Chunks[t] + 1>>}
    [] OTHER               -> {}

EnterGate(c) ==
  /\ callPc[c] = "off" /\ c \in StageCalls(c[1])
  /\ inFlight < Permits /\ inFlight' = inFlight + 1
  /\ Admitted(c)
  /\ UNCHANGED <<reasked, waiting, poolVars>>

WaitAtGate(c) ==
  /\ callPc[c] = "off" /\ c \in StageCalls(c[1])
  /\ inFlight >= Permits
  /\ callPc' = [callPc EXCEPT ![c] = "waiting"] /\ waiting' = Append(waiting, c)
  /\ UNCHANGED <<reasked, inFlight, budgetVars, poolVars>>

(* A variant in which the one that leaves hands over its place uncounted.  *)
WokenUncounted(c) ==
  /\ callPc[c] = "woken" /\ Admitted(c)
  /\ UNCHANGED <<reasked, gateVars, poolVars>>

(* A caller that was woken does not look at the count again.               *)
WokenEnters(c) ==
  /\ callPc[c] = "woken" /\ inFlight' = inFlight + 1
  /\ Admitted(c)
  /\ UNCHANGED <<reasked, waiting, poolVars>>

(* json() asks once more when the first answer does not parse and takes    *)
(* the fallback when the second does not.                                  *)
CallReturns(c) ==
  /\ callPc[c] = "sent" /\ \E usd \in Actual : Record(c, usd)
  /\ \/ callPc' = [callPc EXCEPT ![c] = "parsed"] /\ UNCHANGED reasked
     \/ c \notin reasked /\ reasked' = reasked \cup {c}
        /\ callPc' = [callPc EXCEPT ![c] = "again"]
  /\ UNCHANGED <<gateVars, poolVars>>

AskAgain(c) ==
  /\ callPc[c] = "again" /\ Admitted(c)
  /\ UNCHANGED <<reasked, gateVars, poolVars>>

(* A variant that does not release in a finally.                           *)
CallFailsHolding(c) ==
  /\ callPc[c] = "sent" /\ callPc' = [callPc EXCEPT ![c] = "failed"]
  /\ UNCHANGED <<reasked, gateVars, budgetVars, poolVars>>

(* Any other error, an abort among them: released in the finally.          *)
CallFails(c) ==
  /\ callPc[c] = "sent" /\ Release(c)
  /\ callPc' = [callPc EXCEPT ![c] = "failed"]
  /\ UNCHANGED <<reasked, gateVars, spent, overrun, poolVars>>

(* The gate's finally wakes the first waiter.  Of the errors of a session  *)
(* only the first is looked at; its other calls go on regardless.          *)
LeaveGate(c) ==
  /\ callPc[c] \in {"parsed", "failed", "refused"}
  /\ inFlight' = inFlight - 1
  /\ LET woken == IF waiting = <<>> THEN {} ELSE {Head(waiting)}
     IN callPc' = [d \in Call |-> IF d = c THEN "over" ELSE IF d \in woken THEN "woken"
                                  ELSE callPc[d]]
  /\ waiting' = IF waiting = <<>> THEN waiting ELSE Tail(waiting)
  /\ verdict' = IF callPc[c] = "parsed" \/ verdict[c[1]] # "none" THEN verdict
                ELSE [verdict EXCEPT ![c[1]] = callPc[c]]
  /\ UNCHANGED <<reasked, budgetVars, stage, running, nextUp, aborted>>

-----------------------------------------------------------------------------
(* The pool.                                                               *)

(* The sessions in hand; some worker has none while they are fewer.        *)
InHand   == {t \in Target : stage[t] \in Working}
SomeoneIdle == Cardinality(InHand) < running

(* A session without a transcript fails at once and the worker goes on.    *)
TakeTarget ==
  /\ SomeoneIdle /\ aborted = {} /\ nextUp <= Targets
  /\ nextUp' = nextUp + 1
  /\ \E s \in {"map", "failed"} : stage' = [stage EXCEPT ![nextUp] = s]
  /\ UNCHANGED <<callState, gateVars, budgetVars, verdict, running, aborted>>

WorkerLeaves ==
  /\ SomeoneIdle /\ (aborted # {} \/ nextUp > Targets)
  /\ running' = running - 1
  /\ UNCHANGED <<callState, gateVars, budgetVars, stage, verdict, nextUp, aborted>>

(* All calls of the stage came back well: merge, supplement, or save.      *)
StageEnds(t) ==
  /\ stage[t] \in {"map", "reduce", "extra"} /\ verdict[t] = "none"
  /\ \A c \in StageCalls(t) : callPc[c] = "over"
  /\ \E s \in IF stage[t] = "map" /\ Chunks[t] > 1 THEN {"reduce"}
              ELSE IF stage[t] = "extra" THEN {"save"} ELSE {"extra", "save"} :
       stage' = [stage EXCEPT ![t] = s]
  /\ UNCHANGED <<callState, gateVars, budgetVars, verdict, running, nextUp, aborted>>

(* The worker's catch.  The first refusal ends the run; what fails after   *)
(* it was never attempted, and ends its worker too.                        *)
Caught(t, what) ==
  IF what = "refused" \/ aborted # {}
    THEN /\ stage' = [stage EXCEPT ![t] = "dropped"] /\ running' = running - 1
         /\ aborted' = IF what = "refused" THEN {TRUE} ELSE aborted
    ELSE stage' = [stage EXCEPT ![t] = "failed"] /\ UNCHANGED <<running, aborted>>

CatchError(t) ==
  /\ stage[t] \in Working /\ verdict[t] # "none" /\ Caught(t, verdict[t])
  /\ UNCHANGED <<callState, gateVars, budgetVars, verdict, nextUp>>

(* persist() stores the card, or throws.                                   *)
SaveCard(t) ==
  /\ stage[t] = "save"
  /\ \/ stage' = [stage EXCEPT ![t] = "carded"] /\ UNCHANGED <<running, aborted>>
     \/ Caught(t, "failed")
  /\ UNCHANGED <<callState, gateVars, budgetVars, verdict, nextUp>>

CallStep(c) ==
  \/ EnterGate(c) \/ WaitAtGate(c) \/ WokenEnters(c) \/ CallReturns(c)
  \/ AskAgain(c) \/ CallFails(c) \/ LeaveGate(c)
TargetStep(t) == StageEnds(t) \/ SaveCard(t) \/ CatchError(t)
PoolStep == TakeTarget \/ WorkerLeaves

CardNext ==
  \/ PoolStep \/ \E t \in Target : TargetStep(t)
  \/ \E c \in Call : CallStep(c)

CardSpec == CardInit /\ [][CardNext]_cardVars

-----------------------------------------------------------------------------
(* What was paid and what is promised stay under the ceiling, whatever     *)
(* runs concurrently, is asked again, fails or is aborted, except for what *)
(* calls cost above their estimates.                                       *)
SpendWithinCap == spent + reserved <= Cap + overrun

(* The run has returned, having dealt with every session unless the budget *)
(* ended it; no call waits at the gate, none is inside and nothing is held *)
(* against the budget.                                                     *)
RunRests ==
  /\ running = 0 /\ (aborted = {} => \A t \in Target : stage[t] \in Settled)
  /\ inFlight = 0 /\ waiting = <<>> /\ reserved = 0

=============================================================================
