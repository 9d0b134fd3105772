------------------------- MODULE MCMaintenanceQueue -------------------------
(* Small instances of MaintenanceQueue.                                    *)
EXTENDS MaintenanceQueue

CONSTANTS w1, w2, w3, w4, capture, embed, p1, p2

(* w1 and w2 compete on one host, where their ps print in different zones; *)
(* w3 is born there with w1's pid after w1 is gone and prints in w2's zone;*)
(* w4 is on another host.                                                  *)
Pids     == w1 :> 1 @@ w2 :> 2 @@ w3 :> 1 @@ w4 :> 1
OneHost  == [w \in Worker |-> "A"]
TwoHosts == w1 :> "A" @@ w2 :> "A" @@ w3 :> "A" @@ w4 :> "B"
OneZone  == [w \in Worker |-> "UTC"]
TwoZones == w1 :> "CET" @@ w2 :> "UTC" @@ w3 :> "UTC" @@ w4 :> "UTC"
Targets  == capture :> {p1} @@ embed :> {p1, p2}

=============================================================================
