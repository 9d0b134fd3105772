---------------------------- MODULE LocalEncoder ----------------------------
(***************************************************************************)
(* The encoder (memory/assets.ts): requests go one after the other to one  *)
(* worker thread, which is started when it is first needed, kept, and      *)
(* terminated by an abort, a timeout, an error or close().  A request has  *)
(* a promise in the chain and, if it carries a signal, one of its own that *)
(* the signal rejects at once.                                             *)
(***************************************************************************)
EXTENDS Naturals, Sequences

CONSTANTS
  Request,    \* encode calls; each is made once
  Limit,      \* requests the encoder takes at a time
  MaxDeaths   \* threads that exit by themselves

ASSUME EncoderAssumption == Limit \in Nat \ {0} /\ MaxDeaths \in Nat

VARIABLES
  encPc,      \* where each request is in the chain
  outcome,    \* what its caller has been told
  chain,      \* `busy`: the requests in order
  pending,    \* how many it counts
  worker,     \* `worker`: the thread in use, 0: none
  alive,      \* threads neither terminated nor dead
  started,    \* threads so far, numbered from 1
  served,     \* the thread of the request that computes
  unheard,    \* threads whose exit came when nobody listened
  closed,     \* {TRUE} once close() was called
  deaths

encoderVars == <<encPc, outcome, chain, pending, worker, alive, started, served, unheard,
                 closed, deaths>>

Told == {"vectors", "failed"}

EncoderTypeOK ==
  /\ encPc \in [Request -> {"off", "queued", "computing", "computed", "over"}]
  /\ outcome \in [Request -> Told \cup {"none"}]
  /\ chain \in Seq(Request) /\ pending \in 0 .. Limit
  /\ worker \in Nat /\ alive \in SUBSET (1 .. started) /\ started \in Nat /\ served \in Nat
  /\ unheard \in SUBSET (1 .. started)
  /\ closed \in SUBSET {TRUE} /\ deaths \in Nat

EncoderInit ==
  /\ encPc = [q \in Request |-> "off"] /\ outcome = [q \in Request |-> "none"]
  /\ chain = <<>> /\ pending = 0
  /\ worker = 0 /\ alive = {} /\ started = 0 /\ served = 0 /\ unheard = {}
  /\ closed = {} /\ deaths = 0

(* A caller is told once: by its own signal, or by the chain.              *)
Tell(q, what) == outcome' = [outcome EXCEPT ![q] = IF @ = "none" THEN what ELSE @]

(* A variant of finally() that counts down for those that succeed.         *)
CountDownOnSuccess(what) == what = "vectors"

CountsDown(what) == TRUE

(* The request leaves the chain and its slot.                              *)
Settle(q, what) ==
  /\ encPc' = [encPc EXCEPT ![q] = "over"] /\ chain' = Tail(chain)
  /\ pending' = IF CountsDown(what) THEN pending - 1 ELSE pending
  /\ Tell(q, what)

(* stop(): the thread is terminated and no longer in use.                  *)
Stop ==
  /\ alive' = alive \ {served}
  /\ worker' = IF worker = served THEN 0 ELSE worker

Encode(q) ==
  /\ encPc[q] = "off"
  /\ IF pending >= Limit
       THEN /\ encPc' = [encPc EXCEPT ![q] = "over"] /\ Tell(q, "failed")
            /\ UNCHANGED <<chain, pending>>
       ELSE /\ encPc' = [encPc EXCEPT ![q] = "queued"]
            /\ chain' = Append(chain, q) /\ pending' = pending + 1
            /\ UNCHANGED outcome
  /\ UNCHANGED <<worker, alive, started, served, unheard, closed, deaths>>

InFront(q) == chain # <<>> /\ Head(chain) = q

(* Its turn: refused if its signal has come, the encoder is closed or the  *)
(* assets are missing; else posted to the thread in use or to a new one,   *)
(* even to one that died while nobody listened.                            *)
TurnRefused(q) ==
  /\ InFront(q) /\ encPc[q] = "queued"
  /\ outcome[q] # "none" \/ closed # {} \/ worker = 0
  /\ Settle(q, "failed")
  /\ UNCHANGED <<worker, alive, started, served, unheard, closed, deaths>>

Turn(q) ==
  /\ InFront(q) /\ encPc[q] = "queued" /\ outcome[q] = "none" /\ closed = {}
  /\ encPc' = [encPc EXCEPT ![q] = "computing"]
  /\ IF worker # 0
       THEN served' = worker /\ UNCHANGED <<worker, alive, started>>
       ELSE /\ started' = started + 1 /\ worker' = started' /\ served' = started'
            /\ alive' = alive \cup {started'}
  /\ UNCHANGED <<outcome, chain, pending, unheard, closed, deaths>>

ThreadComputes(q) ==
  /\ encPc[q] = "computing" /\ served \in alive
  /\ encPc' = [encPc EXCEPT ![q] = "computed"]
  /\ UNCHANGED <<outcome, chain, pending, worker, alive, started, served, unheard, closed, deaths>>

(* The thread answers with vectors or with an error of its own; it stays.  *)
AnswerArrives(q) ==
  /\ encPc[q] = "computed"
  /\ \E what \in Told : Settle(q, what)
  /\ UNCHANGED <<worker, alive, started, served, unheard, closed, deaths>>

(* A thread may die at work or between two requests; only a request that   *)
(* computes on it listens for its exit.                                    *)
ThreadDies ==
  /\ worker \in alive /\ deaths < MaxDeaths /\ deaths' = deaths + 1
  /\ alive' = alive \ {worker}
  /\ UNCHANGED <<encPc, outcome, chain, pending, worker, started, served, unheard, closed>>

Computing(q) == encPc[q] \in {"computing", "computed"}

(* The 30 s timer of a request, whatever became of its thread.             *)
TimesOut(q) ==
  /\ Computing(q)
  /\ Stop /\ Settle(q, "failed")
  /\ UNCHANGED <<started, served, unheard, closed, deaths>>

ExitUnheard ==
  /\ worker # 0 /\ worker \notin alive \cup unheard
  /\ \A q \in Request : ~Computing(q)
  /\ unheard' = unheard \cup {worker}
  /\ UNCHANGED <<encPc, outcome, chain, pending, worker, alive, started, served, closed, deaths>>

ExitArrives(q) ==
  /\ Computing(q) /\ served \notin alive \cup unheard
  /\ Stop /\ Settle(q, "failed")
  /\ UNCHANGED <<started, served, unheard, closed, deaths>>

(* The signal: the caller is told at once, a request that waits keeps its  *)
(* place, one that computes takes its thread along.                        *)
SignalComes(q) ==
  /\ encPc[q] # "off" /\ outcome[q] = "none"
  /\ IF Computing(q)
       THEN Stop /\ Settle(q, "failed")
       ELSE Tell(q, "failed") /\ UNCHANGED <<encPc, chain, pending, worker, alive>>
  /\ UNCHANGED <<started, served, unheard, closed, deaths>>

CloseEncoder ==
  /\ closed = {} /\ closed' = {TRUE}
  /\ worker' = 0 /\ alive' = alive \ {worker}
  /\ UNCHANGED <<encPc, outcome, chain, pending, started, served, unheard, deaths>>

-----------------------------------------------------------------------------
EncodeStep ==
  \E q \in Request :
    Turn(q) \/ TurnRefused(q) \/ ThreadComputes(q) \/ AnswerArrives(q)
      \/ TimesOut(q) \/ ExitArrives(q)

EncoderNext ==
  \/ EncodeStep
  \/ ThreadDies \/ ExitUnheard \/ CloseEncoder
  \/ \E q \in Request : Encode(q) \/ SignalComes(q)

EncoderSpec == EncoderInit /\ [][EncoderNext]_encoderVars /\ WF_encoderVars(EncodeStep)

(* In the end every request that was made has left the chain and its       *)
(* caller is told, also behind one that was aborted or whose thread died   *)
(* unheard, and its slot is free again.                                    *)
EncoderRests ==
  /\ pending = 0
  /\ \A q \in Request : encPc[q] # "off" => encPc[q] = "over" /\ outcome[q] # "none"

=============================================================================
