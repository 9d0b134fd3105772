----------------------------- MODULE MCLockSites -----------------------------
(***************************************************************************)
(* One lane at two sites, over every leftover of an earlier run.           *)
(*                                                                         *)
(*   shared  p1 and p2 call on two hosts that share the root and have the  *)
(*           same pid; p3 is an old build's process on p1's host.          *)
(*   local   p1 and p2 call on one host; p3 is an old build's process on   *)
(*           another host, with p1's pid.                                  *)
(*                                                                         *)
(* `site` says which one a behaviour is of.                                *)
(***************************************************************************)
EXTENDS FiniteSets, TLC

CONSTANTS p1, p2, p3, c1, c2, NoProc, NoFile

VARIABLES site, pc, seen, ident, birth, life, present, records, aged

Call       == {c1, c2}
Proc       == {p1, p2, p3}
ProcOf     == c1 :> p1 @@ c2 :> p2
LegacyProc == p3

SharedPid  == p1 :> 1 @@ p2 :> 1 @@ p3 :> 2
SharedHost == p1 :> "here" @@ p2 :> "there" @@ p3 :> "here"
LocalPid   == p1 :> 1 @@ p2 :> 2 @@ p3 :> 1
LocalHost  == p1 :> "here" @@ p2 :> "here" @@ p3 :> "there"

Shared == INSTANCE DirLock WITH Host <- SharedHost, Pid <- SharedPid
Local  == INSTANCE DirLock WITH Host <- LocalHost, Pid <- LocalPid

lane == <<pc, seen, ident, birth, life, present, records, aged>>
vars == <<site, lane>>

Init ==
  \/ site = "shared" /\ Shared!Init
  \/ site = "local" /\ Local!Init

Next ==
  /\ UNCHANGED site
  /\ \/ site = "shared" /\ Shared!Next
     \/ site = "local" /\ Local!Next

Progress(c) ==
  \/ site = "shared" /\ Shared!Progress(c)
  \/ site = "local" /\ Local!Progress(c)

(* DirLock's fairness at the site a behaviour is of.                       *)
Fairness ==
  /\ \A c \in Call : WF_lane(Progress(c)) /\ WF_lane(Local!Release(c))
  /\ WF_lane(Local!Age)

Spec == Init /\ [][Next]_vars /\ Fairness

(* No waiter is left standing at either site: of the local one, also not   *)
(* behind the record of a call that died on its own host.                  *)
WaitersAreServed ==
  /\ site = "shared" => Shared!WaitersAreServed
  /\ site = "local" => Local!WaitersAreServed

(* Across hosts and builds: a record is removed only by the rule, a file   *)
(* nobody knows closes the lane for good, and it is an exclusive lock.     *)
LaneIsHonoured ==
  /\ [][site = "shared" => Shared!RemovalsFollowTheRule]_lane
  /\ [][site = "local" => Local!RemovalsFollowTheRule]_lane
  /\ Local!UnknownFilesFailClosed
  /\ Local!ImplementsExclusiveLock
=============================================================================
