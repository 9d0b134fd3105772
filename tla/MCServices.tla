------------------------------ MODULE MCServices ------------------------------
(***************************************************************************)
(* Components that share no state, side by side: `part` says which of them *)
(* a behaviour is of, and the others stay where they start.                *)
(***************************************************************************)
EXTENDS IndexCommand, CardRun, EmbeddingWorkset, AuditRun, LocalEncoder, TLC

CONSTANTS c1, c2, k1, k2, srv, r1, r2, q1, q2, q3

VARIABLE part

Children  == c1 :> k1 @@ c2 :> k2
TwoAndOne == <<2, 1>>
Shared    == r1 :> {1, 2, 3} @@ r2 :> {2, 4}

vars == <<part, indexVars, cardVars, embedVars, auditVars, encoderVars>>

Init ==
  /\ part \in {"index", "cards", "embed", "audit", "encoder"}
  /\ IndexInit /\ CardInit /\ WorksetInit /\ AuditInit /\ EncoderInit
  /\ part # "audit" => host = "here"

InIndex   == part = "index" /\ UNCHANGED <<part, cardVars, embedVars, auditVars, encoderVars>>
InCards   == part = "cards" /\ UNCHANGED <<part, indexVars, embedVars, auditVars, encoderVars>>
InEmbed   == part = "embed" /\ UNCHANGED <<part, indexVars, cardVars, auditVars, encoderVars>>
InAudit   == part = "audit" /\ UNCHANGED <<part, indexVars, cardVars, embedVars, encoderVars>>
InEncoder == part = "encoder" /\ UNCHANGED <<part, indexVars, cardVars, embedVars, auditVars>>

Next ==
  \/ InIndex /\ IndexNext
  \/ InCards /\ CardNext
  \/ InEmbed /\ WorksetNext
  \/ InAudit /\ AuditNext
  \/ InEncoder /\ EncoderNext

(* What the schedulers give: a process that runs takes its next step, a    *)
(* timer fires, a model call ends, be it at its deadline.                  *)
Fairness ==
  /\ \A c \in Cmd : WF_indexVars(part = "index" /\ (CommandStep(c) \/ RetryFallsDue(c)))
  /\ \A w \in Worker : WF_indexVars(part = "index" /\ WorkerStep(w))
  /\ \A s \in Server : WF_indexVars(part = "index" /\ ServerTimer(s))
  /\ WF_cardVars(part = "cards" /\ CardNext)
  /\ WF_embedVars(part = "embed" /\ EmbedStep)
  /\ WF_embedVars(part = "embed" /\ ValidateVectors)
  /\ WF_auditVars(part = "audit" /\ AuditStep)
  /\ WF_encoderVars(part = "encoder" /\ EncodeStep)

Spec == Init /\ [][Next]_vars /\ Fairness

(* The type invariants of the components.                                  *)
ServicesTypeOK == IndexTypeOK /\ CardTypeOK /\ WorksetTypeOK /\ AuditTypeOK /\ EncoderTypeOK

(* Every request in the spool is carried out while a server runs.          *)
RequestsAreServed == part = "index" => ServedWhileServerRuns

(* What is handed out comes back in the end: a card run returns and leaves *)
(* the gate and the budget empty, run() of an audit settles and its child  *)
(* ends, an encode call settles and frees its slot, and a damaged vector   *)
(* is found and repaired.                                                  *)
HelpersAnswer ==
  <>[](/\ part = "cards" => RunRests
       /\ part = "audit" => AuditRests
       /\ part = "encoder" => EncoderRests
       /\ part = "embed" => VectorsAreGood)

=============================================================================
