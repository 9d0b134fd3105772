--------------------------- MODULE MCEvidenceStore ---------------------------
(* Small instances of EvidenceStore: `old` grows into `new`, `fork` is a   *)
(* rewrite that shares nothing with them.                                  *)
EXTENDS EvidenceStore, TLC

CONSTANTS s1, s2, old, new, fork

Growth  == old :> {} @@ new :> {old} @@ fork :> {}
OneFile == s1 :> {old, new, fork}
TwoStep == s1 :> {old, new}
Shared  == s1 :> {old} @@ s2 :> {old}

(* The bound of the first run: the lease passes to a second owner only     *)
(* where nothing failed and no rescue has begun.                           *)
OvertakenBeforeRescue ==
  lease > 1 => fails = 0 /\ resc = NoPass /\ \A s \in Source : arch[s] = None

=============================================================================
