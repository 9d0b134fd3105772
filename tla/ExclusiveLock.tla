---------------------------- MODULE ExclusiveLock ----------------------------
(***************************************************************************)
(* What lock.ts promises, without directories, records or pids: a lane     *)
(* that at most one client holds, each client at most once, granted only   *)
(* while nobody has it.  Incumbent are the clients that may hold the lane  *)
(* before the first call is made.                                          *)
(***************************************************************************)
CONSTANTS Client, Incumbent

VARIABLES
  holders,  \* who has the lane: at most one
  served    \* who has had it

vars == <<holders, served>>

Init ==
  /\ served = Incumbent
  /\ holders = {} \/ \E c \in Incumbent : holders = {c}

Grant(c) ==
  /\ holders = {}
  /\ c \notin served
  /\ holders' = {c}
  /\ served' = served \cup {c}

(* By release, or because the holder's process is gone.                    *)
Vacate(c) ==
  /\ holders = {c}
  /\ holders' = {}
  /\ UNCHANGED served

Next == \E c \in Client : Grant(c) \/ Vacate(c)

Spec == Init /\ [][Next]_vars
=============================================================================
