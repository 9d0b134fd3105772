------------------------------- MODULE MCVerbs -------------------------------
(***************************************************************************)
(* The verbs that work on what is indexed, side by side: `part` says which *)
(* of them a behaviour is of, and the others stay where they start.        *)
(***************************************************************************)
EXTENDS SessionThreads, AskRun, CardShelf

CONSTANTS p1, p2

VARIABLE part

vars == <<part, threadVars, askVars, shelfVars>>

(* What a model may propose for readers of the sessions 1 and 2: lines     *)
(* with genuine quotes, false quotes and sessions nobody was given, and    *)
(* sentences that cite them, cite nothing or cite a line that is not there. *)
Line(n, s, v) == [n |-> n, session |-> s, verbatim |-> v]
Real(n)       == Line(n, 1, TRUE)
Proposals     == {<<Real(1)>>, <<Line(1, 1, FALSE), Line(2, 2, TRUE)>>, <<Real(1), Real(2)>>,
                  <<Real(1), Line(2, 3, TRUE), Real(3)>>, <<Line(1, 3, TRUE), Real(1), Real(3)>>}
Sentence(i)   == [says : {i}, cites : {<<>>, <<1>>, <<2, 1>>, <<3, 2>>}, words : {1, 2}]
Prose         == {<<a>> : a \in Sentence(1)} \cup {<<a, b>> : a \in Sentence(1), b \in Sentence(2)}
Proposed      == {NoReply} \cup {[evidence |-> e, answer |-> a] : e \in Proposals, a \in Prose}
Prices        == [c \in 0 .. 3 |-> IF c = 3 THEN 1 ELSE 2]
Bills         == {1, 2}

Init ==
  /\ part \in {"threads", "ask", "shelf"}
  /\ ThreadsInit /\ AskInit /\ ShelfInit
  /\ part # "ask" => ~strict

InThreads == part = "threads" /\ UNCHANGED <<part, askVars, shelfVars>>
InAsk     == part = "ask" /\ UNCHANGED <<part, threadVars, shelfVars>>
InShelf   == part = "shelf" /\ UNCHANGED <<part, threadVars, askVars>>

Next ==
  \/ InThreads /\ ThreadsNext
  \/ InAsk /\ AskStep
  \/ InShelf /\ ShelfNext

Spec == Init /\ [][Next]_vars

(* The type invariants of the components.                                  *)
VerbsTypeOK == ThreadsTypeOK /\ AskTypeOK /\ ShelfTypeOK

(* Bounds of the chains: one transcript is deleted, one record names an    *)
(* origin that it has nothing from or copies, one pass reads at a time.    *)
FewTroubles ==
  /\ Cardinality(gone) <= 1
  /\ Cardinality(UNION {{s} \X file[s].names : s \in Session}) <= 1
  /\ Cardinality({p \in Indexer : pass[p].at = "capture"}) <= 1

=============================================================================
