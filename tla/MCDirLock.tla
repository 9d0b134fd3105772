------------------------------ MODULE MCDirLock ------------------------------
(***************************************************************************)
(* Small instances of DirLock.  The processes and the calls they make are  *)
(* model values; the functions below say who makes which call and which    *)
(* incarnations share a pid.                                               *)
(***************************************************************************)
EXTENDS DirLock, TLC

CONSTANTS p1, p2, p3, c1, c2, c3

(* p1 and p2 compete; p3 is born with p1's pid after p1 is gone.           *)
ReuseProcOf == c1 :> p1 @@ c2 :> p2 @@ c3 :> p3
ReusePid    == p1 :> 1 @@ p2 :> 2 @@ p3 :> 1
OneHost     == p1 :> "here" @@ p2 :> "here" @@ p3 :> "here"

(* The lane does not exist yet; MCLockSites starts from every leftover.    *)
CleanInit == Init /\ ~present /\ ~aged
=============================================================================
