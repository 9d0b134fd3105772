-------------------------------- MODULE AskRun --------------------------------
(***************************************************************************)
(* `potsherd ask` (ask.ts).  One reader per session of the shortlist looks *)
(* for quotes, at most Permits of them at a time; then one synthesizer     *)
(* proposes numbered evidence and sentences that cite it; what is printed  *)
(* is what filterAnswer() leaves of the proposal.  All calls share one     *)
(* budget.  A reader that fails contributes nothing; a synthesizer that    *)
(* the budget refuses makes the verb refuse.                               *)
(*                                                                         *)
(* A line of evidence is genuine when its quote stands, at the place it    *)
(* names, in an excerpt of the shortlist.  CardRun has more of the gate    *)
(* and of the budget, which are the same ones.                             *)
(***************************************************************************)
EXTENDS Integers, FiniteSets, SequencesExt

CONSTANTS
  Readers,      \* --k
  Permits,      \* --concurrency
  MaxUsd,
  Price,        \* what each call reserves
  Bill,         \* what a call may turn out to cost
  Replies,      \* what the synthesizer may propose
  MaxWords,     \* ANSWER_MAX_WORDS
  MinEvidence   \* STRICT_MIN_EVIDENCE

Reader     == 1 .. Readers
Synth      == 0
Confirm    == Readers + 1   \* the open threads, in one batch
AskCall    == 0 .. Confirm
NoReply    == [evidence |-> <<>>, answer |-> <<>>]

ASSUME AskAssumption ==
  /\ Readers \in Nat \ {0} /\ Permits \in Nat \ {0} /\ MaxUsd \in Nat
  /\ Price \in [AskCall -> Nat] /\ Bill \subseteq Nat
  /\ MaxWords \in Nat /\ MinEvidence \in Nat
  /\ NoReply \in Replies
  /\ Replies \subseteq [evidence : Seq([n : Int, session : Int, verbatim : BOOLEAN]),
                        answer : Seq([says : Int, cites : Seq(Int), words : Nat])]
  /\ \A r \in Replies : \A i, j \in DOMAIN r.answer :   \* sentences are told apart by their place
       i < j => r.answer[i].says < r.answer[j].says

VARIABLES
  strict,
  askPc,      \* how far the verb is
  callPc,     \* and each call
  retried,    \* calls whose first answer did not parse
  found,      \* readers that say they found something
  reserved, spent, overrun,   \* the budget, see CardRun
  reply,      \* the synthesizer's proposal
  result

askVars == <<strict, askPc, callPc, retried, found, reserved, spent, overrun, reply, result>>

NoResult == [refusal |-> "none", sentences |-> <<>>, evidence |-> <<>>]

AskTypeOK ==
  /\ strict \in BOOLEAN /\ askPc \in {"read", "synthesize", "threads", "done", "threw"}
  /\ callPc \in [AskCall -> {"off", "sent", "again", "over", "failed", "refused"}]
  /\ retried \subseteq AskCall /\ found \subseteq Reader
  /\ reserved \in Nat /\ spent \in Nat /\ overrun \in Nat
  /\ DOMAIN reply = {"evidence", "answer"}
  /\ result.refusal \in {"none", "no-answer", "budget", "strict"}

AskInit ==
  /\ strict \in BOOLEAN
  /\ askPc = "read" /\ callPc = [c \in AskCall |-> "off"] /\ retried = {} /\ found = {}
  /\ reserved = 0 /\ spent = 0 /\ overrun = 0
  /\ reply = NoReply /\ result = NoResult

-----------------------------------------------------------------------------
(* filterAnswer().                                                         *)

(* The numbers of a set in ascending order, and a sequence at some of its  *)
(* places.                                                                 *)
Ascending(places)   == [i \in 1 .. Cardinality(places) |->
                          CHOOSE p \in places : Cardinality({q \in places : q < p}) = i - 1]
Chosen(seq, places) == [i \in 1 .. Cardinality(places) |-> seq[Ascending(places)[i]]]

Distinct(seq) == Chosen(seq, {i \in DOMAIN seq : \A j \in 1 .. (i - 1) : seq[j] # seq[i]})

Genuine(line) == line.session \in Reader /\ line.verbatim

(* Of several lines with one number the first genuine one counts.          *)
Survivors(r) ==
  LET es == r.evidence
  IN {es[i] : i \in {k \in DOMAIN es : /\ Genuine(es[k])
                                       /\ \A j \in 1 .. (k - 1) : Genuine(es[j]) => es[j].n # es[k].n}}
LineOf(r, n) == CHOOSE line \in Survivors(r) : line.n = n

(* What a sentence cites that survives, and the sentences that still cite  *)
(* something.                                                              *)
Resolved(r, cites) ==
  Distinct(Chosen(cites, {j \in DOMAIN cites : \E line \in Survivors(r) : line.n = cites[j]}))
Backed(r) ==
  LET cut == [i \in DOMAIN r.answer |-> [r.answer[i] EXCEPT !.cites = Resolved(r, @)]]
  IN Chosen(cut, {i \in DOMAIN cut : cut[i].cites # <<>>})

(* trimToWordBudget(): drops a tail, but never the first sentence.         *)
Words(seq)  == SumFunction([i \in DOMAIN seq |-> seq[i].words])
Within(seq) == SubSeq(seq, 1, Max({n \in 1 .. Len(seq) : n = 1 \/ Words(SubSeq(seq, 1, n)) <= MaxWords}
                                    \cup {0}))

(* The numbers of the proposal in the order in which sentences use them.   *)
Order(seq) == Distinct(FlattenSeq([i \in DOMAIN seq |-> seq[i].cites]))

Renumbered(seq, order) ==
  [i \in DOMAIN seq |->
     [seq[i] EXCEPT !.cites = Ascending({m \in DOMAIN order : Contains(seq[i].cites, order[m])})]]

(* A variant that trims last.                                              *)
FilterTrimmedLast(r) ==
  LET order == Order(Backed(r))
  IN [sentences |-> Within(Renumbered(Backed(r), order)),
      evidence  |-> [i \in DOMAIN order |-> LineOf(r, order[i])]]

Filter(r) ==
  LET kept == Within(Backed(r))
      order == Order(kept)
  IN [sentences |-> Renumbered(kept, order),
      evidence  |-> [i \in DOMAIN order |-> LineOf(r, order[i])]]

-----------------------------------------------------------------------------
(* Calls.                                                                  *)

(* A variant with a budget per model.                                      *)
OwnFits(c) == (IF c \in Reader THEN spent + reserved ELSE 0) + Price[c] <= MaxUsd

(* A variant that does not count what calls in flight hold.                *)
FitsPaid(c) == spent + Price[c] <= MaxUsd

FitsBudget(c) == spent + reserved + Price[c] <= MaxUsd

Sends(c) ==
  /\ callPc' = [callPc EXCEPT ![c] = IF FitsBudget(c) THEN "sent" ELSE "refused"]
  /\ reserved' = IF FitsBudget(c) THEN reserved + Price[c] ELSE reserved
  /\ UNCHANGED <<strict, askPc, retried, found, spent, overrun, reply, result>>

InGate == {c \in Reader : callPc[c] \in {"sent", "again"}}

ReaderEnters(c) ==
  /\ c \in Reader /\ callPc[c] = "off" /\ \A d \in 1 .. (c - 1) : callPc[d] # "off"
  /\ Cardinality(InGate) < Permits
  /\ Sends(c)

SynthStarts   == askPc = "synthesize" /\ callPc[Synth] = "off" /\ Sends(Synth)
ConfirmStarts == askPc = "threads" /\ callPc[Confirm] = "off" /\ Sends(Confirm)
SendsAgain(c) == callPc[c] = "again" /\ Sends(c)

(* A variant in which the finally gives back what was given back already.  *)
TakenBackTwice(c) == 2 * Price[c]

(* record() or release(): the second of them has nothing more to release.  *)
TakenBack(c) == Price[c]

(* An answer that does not parse is asked for once more, and the second is *)
(* replaced by the fallback, an empty one.                                 *)
Answers(c) ==
  /\ callPc[c] = "sent" /\ reserved' = reserved - TakenBack(c)
  /\ \E usd \in Bill : /\ spent' = spent + usd
                       /\ overrun' = overrun + (IF usd > Price[c] THEN usd - Price[c] ELSE 0)
  /\ \/ /\ c \notin retried /\ retried' = retried \cup {c}
        /\ callPc' = [callPc EXCEPT ![c] = "again"]
        /\ UNCHANGED <<found, reply>>
     \/ /\ callPc' = [callPc EXCEPT ![c] = "over"] /\ UNCHANGED retried
        /\ found' \in IF c \in Reader THEN {found, found \cup {c}} ELSE {found}
        /\ reply' \in IF c = Synth THEN Replies ELSE {reply}
  /\ UNCHANGED <<strict, askPc, result>>

(* A variant that does not release in a finally.                           *)
FailsHolding(c) ==
  /\ callPc[c] = "sent" /\ callPc' = [callPc EXCEPT ![c] = "failed"]
  /\ UNCHANGED <<strict, askPc, retried, found, reserved, spent, overrun, reply, result>>

Fails(c) ==
  /\ callPc[c] = "sent" /\ callPc' = [callPc EXCEPT ![c] = "failed"]
  /\ reserved' = reserved - TakenBack(c)
  /\ UNCHANGED <<strict, askPc, retried, found, spent, overrun, reply, result>>

-----------------------------------------------------------------------------
(* The verb.                                                               *)
Over(c) == callPc[c] \in {"over", "failed", "refused"}
Goes(pc, res) ==
  /\ askPc' = pc /\ result' = res
  /\ UNCHANGED <<strict, callPc, retried, found, reserved, spent, overrun, reply>>

Refuses(why) == Goes("done", [NoResult EXCEPT !.refusal = why])

ReadersEnd ==
  /\ askPc = "read" /\ \A c \in Reader : Over(c)
  /\ IF found = {} THEN Refuses(IF strict THEN "no-answer" ELSE "none")
     ELSE IF spent >= MaxUsd THEN Refuses("budget")
     ELSE Goes("synthesize", NoResult)

Answered(f) == [refusal |-> "none", sentences |-> f.sentences, evidence |-> f.evidence]

(* A variant that counts what was proposed.                                *)
EnoughProposed(f) == Len(reply.evidence) >= MinEvidence

Enough(f) == Len(f.evidence) >= MinEvidence

SynthEnds ==
  /\ askPc = "synthesize" /\ Over(Synth)
  /\ \/ callPc[Synth] = "refused" /\ Refuses("budget")
     \/ callPc[Synth] = "failed" /\ Goes("threw", NoResult)
     \/ callPc[Synth] = "over" /\ strict /\ ~Enough(Filter(reply)) /\ Refuses("strict")
     \/ callPc[Synth] = "over" /\ (strict => Enough(Filter(reply)))
        /\ Goes("threads", Answered(Filter(reply)))

(* The open threads never fail the verb; there may be none to confirm.     *)
ThreadsEnd == askPc = "threads" /\ callPc[Confirm] \in {"off", "over", "failed", "refused"}
              /\ Goes("done", result)

AskStep ==
  \/ ReadersEnd \/ SynthStarts \/ SynthEnds \/ ConfirmStarts \/ ThreadsEnd
  \/ \E c \in AskCall : ReaderEnters(c) \/ SendsAgain(c) \/ Answers(c) \/ Fails(c)

-----------------------------------------------------------------------------
(* Of any proposal only what is backed is printed: every sentence cites a  *)
(* line below it, every line is cited and genuine and has the number that  *)
(* its first use gives it, the sentences are the proposal's in its order,  *)
(* with citations of the same lines, and they fit the budget of words      *)
(* unless there is one only.                                               *)
Grounded(r, out, lines) ==
  /\ \A i \in DOMAIN out :
       /\ out[i].cites # <<>> /\ ToSet(out[i].cites) \subseteq DOMAIN lines
       /\ \E p \in DOMAIN r.answer :
            /\ r.answer[p].says = out[i].says
            /\ \A m \in ToSet(out[i].cites) : Contains(r.answer[p].cites, lines[m].n)
  /\ \A i, j \in DOMAIN out : i < j => out[i].says < out[j].says
  /\ \A m \in DOMAIN lines :
       /\ Genuine(lines[m]) /\ Contains(r.evidence, lines[m])
       /\ \E i \in DOMAIN out : /\ Contains(out[i].cites, m)
                                /\ \A j \in 1 .. (i - 1) : \A n \in ToSet(out[j].cites) : n < m
  /\ \A m, n \in DOMAIN lines : m # n => lines[m].n # lines[n].n
  /\ Len(out) > 1 => Words(out) <= MaxWords

AnswerIsGrounded == Grounded(reply, result.sentences, result.evidence)

(* Something is printed only after a reader found something and the        *)
(* synthesizer answered, and under --strict never on fewer than            *)
(* MinEvidence genuine lines; a refusal prints nothing.                    *)
AnswerIsEarned ==
  result.sentences # <<>> =>
    /\ result.refusal = "none" /\ found # {} /\ callPc[Synth] = "over"
    /\ strict => Cardinality({m \in DOMAIN result.evidence : Genuine(result.evidence[m])}) >= MinEvidence

(* One ceiling holds for readers, synthesizer and confirmation together,   *)
(* except for what calls cost above their estimates, and exactly the calls *)
(* in flight hold a part of it: however they end, none is kept.            *)
InFlight == {c \in AskCall : callPc[c] = "sent"}
AskWithinCap ==
  /\ spent + reserved <= MaxUsd + overrun
  /\ reserved = FoldSet(LAMBDA c, sum : sum + Price[c], 0, InFlight)

(* What an ask promises, of any proposal and whichever calls fail.         *)
AskIsHonest == AnswerIsGrounded /\ AnswerIsEarned /\ AskWithinCap

=============================================================================
