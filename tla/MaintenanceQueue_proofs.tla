------------------------ MODULE MaintenanceQueue_proofs ------------------------
(***************************************************************************)
(* MaintenanceQueue for every set of workers, jobs and parts, every order  *)
(* of pids and every placement of SQLITE_BUSY faults.                      *)
(***************************************************************************)
EXTENDS MaintenanceQueue, FiniteSetTheorems, SequenceTheorems, TLAPS

-----------------------------------------------------------------------------
(* The queue as a sequence without duplicates.                             *)

Exact(q, S) == q \in Seq(Job) /\ IsInjective(q) /\ Range(q) = S

(* Appending a job that is not queued keeps the queue without duplicates.  *)
LEMMA AppendExact ==
  ASSUME NEW q, NEW S, Exact(q, S), NEW j \in Job, j \notin S
  PROVE  Exact(Append(q, j), S \cup {j})
<1> DEFINE r == Append(q, j)
<1> q \in Seq(Job) BY DEF Exact
<1>1. /\ r \in Seq(Job) /\ Len(r) = Len(q) + 1
      /\ \A i \in 1 .. Len(q) : r[i] = q[i]
      /\ r[Len(q) + 1] = j
  BY AppendProperties
<1>2. DOMAIN r = 1 .. Len(q) + 1 /\ DOMAIN q = 1 .. Len(q) /\ Len(q) \in Nat
  BY <1>1, LenProperties
<1>3. \A i \in 1 .. Len(q) : q[i] \in S
  BY <1>2 DEF Exact, Range
<1>4. IsInjective(r)
  BY <1>1, <1>2, <1>3 DEF Exact, IsInjective
<1>5. Range(r) = S \cup {j}
  BY <1>1, <1>2 DEF Exact, Range
<1> QED
  BY <1>1, <1>4, <1>5 DEF Exact

(* So does appending, in any order, jobs none of which is queued.          *)
LEMMA ConcatExact ==
  ASSUME NEW q, NEW S, Exact(q, S), NEW J \in SUBSET Job, J \cap S = {},
         NEW order \in Orders(J)
  PROVE  Exact(q \o order, S \cup J)
<1> DEFINE r == q \o order
<1> q \in Seq(Job) BY DEF Exact
<1>1. IsFiniteSet(J)
  BY JobAssumption, FS_Subset
<1>2. Cardinality(J) \in Nat
  BY <1>1, FS_CardinalityType
<1>3. order \in [1 .. Cardinality(J) -> J] /\ IsInjective(order) /\ Range(order) = J
  BY DEF Orders, Bijection, Injection, Surjection, Range
<1>4. order \in Seq(Job) /\ Len(order) = Cardinality(J)
  BY <1>2, <1>3
<1>5. /\ r \in Seq(Job) /\ Len(r) = Len(q) + Len(order)
      /\ \A i \in 1 .. Len(q) + Len(order) :
            r[i] = IF i <= Len(q) THEN q[i] ELSE order[i - Len(q)]
  BY <1>4, ConcatProperties
<1>6. DOMAIN r = 1 .. Len(q) + Len(order) /\ DOMAIN q = 1 .. Len(q) /\ Len(q) \in Nat
      /\ DOMAIN order = 1 .. Len(order)
  BY <1>3, <1>4, <1>5, LenProperties
<1>7. \A i \in 1 .. Len(q) : q[i] \in S
  BY <1>6 DEF Exact, Range
<1>8. \A i \in 1 .. Len(order) : order[i] \in J
  BY <1>3, <1>6
<1>9. IsInjective(r)
  <2> SUFFICES ASSUME NEW a \in DOMAIN r, NEW b \in DOMAIN r, r[a] = r[b]
               PROVE  a = b
    BY DEF IsInjective
  <2>1. CASE a <= Len(q) /\ b <= Len(q)
    BY <2>1, <1>5, <1>6 DEF Exact, IsInjective
  <2>2. CASE a > Len(q) /\ b > Len(q)
    <3>1. a - Len(q) \in DOMAIN order /\ b - Len(q) \in DOMAIN order
      BY <2>2, <1>2, <1>4, <1>6
    <3> QED
      BY <3>1, <2>2, <1>2, <1>3, <1>4, <1>5, <1>6 DEF IsInjective
  <2>3. CASE (a <= Len(q) /\ b > Len(q)) \/ (a > Len(q) /\ b <= Len(q))
    BY <2>3, <1>2, <1>4, <1>5, <1>6, <1>7, <1>8
  <2> QED
    BY <2>1, <2>2, <2>3, <1>2, <1>4, <1>6
<1>10. Range(r) = S \cup J
  BY <1>3, <1>4, RangeConcatenation DEF Exact
<1> QED
  BY <1>5, <1>9, <1>10 DEF Exact

(* Removing one place removes that job and no other.                       *)
LEMMA RemoveExact ==
  ASSUME NEW q, NEW S, Exact(q, S), NEW i \in DOMAIN q
  PROVE  Exact(RemoveAt(q, i), S \ {q[i]})
<1> DEFINE r == RemoveAt(q, i)
           h == SubSeq(q, 1, i - 1)
           t == SubSeq(q, i + 1, Len(q))
<1> q \in Seq(Job) BY DEF Exact
<1>1. DOMAIN q = 1 .. Len(q) /\ Len(q) \in Nat /\ i \in 1 .. Len(q)
      /\ \A k \in 1 .. Len(q) : q[k] \in Job
  BY LenProperties, ElementOfSeq
<1>2. /\ h \in Seq(Job) /\ Len(h) = i - 1
      /\ \A k \in 1 .. i - 1 : h[k] = q[k]
  BY <1>1, SubSeqProperties
<1>3. /\ t \in Seq(Job) /\ Len(t) = Len(q) - i
      /\ \A k \in 1 .. Len(q) - i : t[k] = q[i + k]
  BY <1>1, SubSeqProperties
<1>4. r = h \o t
  BY DEF RemoveAt
<1>5. /\ r \in Seq(Job) /\ Len(r) = Len(q) - 1
      /\ \A k \in 1 .. Len(q) - 1 : r[k] = IF k <= i - 1 THEN q[k] ELSE q[k + 1]
  <2>1. /\ r \in Seq(Job) /\ Len(r) = Len(h) + Len(t)
        /\ \A k \in 1 .. Len(h) + Len(t) : r[k] = IF k <= Len(h) THEN h[k] ELSE t[k - Len(h)]
    <3> HIDE DEF h, t, r
    <3> QED BY <1>2, <1>3, <1>4, ConcatProperties
  <2>2. Len(h) + Len(t) = Len(q) - 1
    BY <1>1, <1>2, <1>3
  <2>3. ASSUME NEW k \in 1 .. Len(q) - 1
        PROVE  r[k] = IF k <= i - 1 THEN q[k] ELSE q[k + 1]
    <3> HIDE DEF h, t, r
    <3>1. CASE k <= i - 1
      BY <3>1, <2>1, <2>2, <1>1, <1>2
    <3>2. CASE k > i - 1
      <4>1. k - (i - 1) \in 1 .. Len(q) - i
        BY <3>2, <1>1
      <4>2. t[k - (i - 1)] = q[i + (k - (i - 1))] /\ i + (k - (i - 1)) = k + 1
        BY <4>1, <1>1, <1>3
      <4> QED
        BY <3>2, <4>2, <2>1, <2>2, <1>1, <1>2
    <3> QED
      BY <3>1, <3>2, <1>1
  <2> QED
    BY <2>1, <2>2, <2>3
<1> HIDE DEF r
<1>6. DOMAIN r = 1 .. Len(q) - 1
  BY <1>5, LenProperties
<1>7. IsInjective(r)
  <2> DEFINE at(k) == IF k <= i - 1 THEN k ELSE k + 1
  <2>1. \A k \in DOMAIN r : at(k) \in DOMAIN q /\ r[k] = q[at(k)]
    BY <1>1, <1>5, <1>6
  <2>2. \A k, l \in DOMAIN r : at(k) = at(l) => k = l
    BY <1>1, <1>6
  <2> HIDE DEF at
  <2> QED
    BY <2>1, <2>2 DEF Exact, IsInjective
<1>8. Range(r) = S \ {q[i]}
  <2>1. ASSUME NEW k \in DOMAIN r PROVE r[k] \in S \ {q[i]}
    BY <1>1, <1>5, <1>6 DEF Exact, IsInjective, Range
  <2>2. ASSUME NEW j \in S, j # q[i] PROVE j \in Range(r)
    <3>1. PICK k \in DOMAIN q : q[k] = j
      BY DEF Exact, Range
    <3>2. CASE k < i
      BY <3>1, <3>2, <1>1, <1>5, <1>6 DEF Range
    <3>3. CASE k > i
      <4>1. k - 1 \in DOMAIN r /\ r[k - 1] = j
        BY <3>1, <3>3, <1>1, <1>5, <1>6
      <4> QED
        BY <4>1 DEF Range
    <3> QED
      BY <3>1, <3>2, <3>3, <2>2, <1>1
  <2> QED
    BY <2>1, <2>2 DEF Range
<1> QED
  BY <1>5, <1>7, <1>8 DEF Exact, r

-----------------------------------------------------------------------------
(* What the queue operators of the module do to it.                        *)

Queued == Range(queue)
JobsTyped == state \in [Job -> States] /\ owner \in [Job -> Worker \cup {None}] /\ queue \in Seq(Job)

(* Taking a job out of an exact queue leaves it exact.                     *)
LEMMA WithoutExact ==
  ASSUME queue \in Seq(Job), IsInjective(queue), NEW j \in Job
  PROVE  Exact(Without(j), Queued \ {j})
<1>1. Exact(queue, Queued)
  BY DEF Exact, Queued
<1>2. CASE Claimable(j)
  <2> DEFINE i == CHOOSE i \in DOMAIN queue : queue[i] = j
  <2>1. i \in DOMAIN queue /\ queue[i] = j
    BY <1>2 DEF Claimable, Range
  <2>2. Without(j) = RemoveAt(queue, i)
    BY <1>2 DEF Without
  <2> HIDE DEF i
  <2> QED
    BY <1>1, <2>1, <2>2, RemoveExact
<1>3. CASE ~Claimable(j)
  <2>1. Without(j) = queue /\ Queued \ {j} = Queued
    BY <1>3 DEF Without, Claimable, Queued
  <2> QED
    BY <2>1, <1>1
<1> QED
  BY <1>2, <1>3

(* A recovery puts back jobs that are not queued yet.                      *)
LEMMA RequeueExact ==
  ASSUME JobsTyped, QueueIsExact, NEW J \in SUBSET Job, NEW to \in {"pending", "retry"},
         \A j \in J : state[j] \notin {"pending", "retry"},
         Requeue(J, to)
  PROVE  JobsTyped' /\ QueueIsExact'
<1>1. PICK order \in Orders(J) : queue' = queue \o order
  BY DEF Requeue
<1>2. Exact(queue, Queued) /\ J \cap Queued = {}
  BY DEF Exact, Queued, JobsTyped, QueueIsExact, Claimable
<1>3. Exact(queue', Queued \cup J)
  BY <1>1, <1>2, ConcatExact
<1>4. JobsTyped'
  BY <1>3 DEF JobsTyped, Requeue, Exact, States
<1>5. IsInjective(queue') /\ \A j \in Job : Claimable(j)' <=> Claimable(j) \/ j \in J
  BY <1>3 DEF Exact, Claimable, Queued
<1>6. QueueIsExact'
  BY <1>5 DEF QueueIsExact, Requeue, JobsTyped
<1> QED
  BY <1>4, <1>6

(* Finishing a row queues it again only when it is to run at once.         *)
LEMMA FinishRowExact ==
  ASSUME JobsTyped, QueueIsExact, NEW w \in Worker, cur[w] \in Job,
         NEW to \in {"done", "pending", "retry", "blocked"}, FinishRow(w, to)
  PROVE  JobsTyped' /\ QueueIsExact'
<1> DEFINE j == cur[w]
<1>1. CASE ~(state[j] = "running" /\ owner[j] = w)
  BY <1>1 DEF FinishRow, Mine, jobVars, JobsTyped, QueueIsExact, Claimable
<1>2. CASE state[j] = "running" /\ owner[j] = w
  <2>1. /\ state' = [state EXCEPT ![j] = to] /\ owner' = [owner EXCEPT ![j] = None]
        /\ queue' = IF to = "pending" THEN Append(queue, j) ELSE queue
    BY <1>2 DEF FinishRow, Mine
  <2>2. Exact(queue, Queued) /\ j \notin Queued
    BY <1>2 DEF Exact, Queued, JobsTyped, QueueIsExact, Claimable
  <2>3. Exact(queue', IF to = "pending" THEN Queued \cup {j} ELSE Queued)
    BY <2>1, <2>2, AppendExact
  <2>4. JobsTyped'
    BY <2>1, <2>3 DEF JobsTyped, Exact, States
  <2>5. IsInjective(queue') /\ \A k \in Job : Claimable(k)' <=> Claimable(k) \/ (to = "pending" /\ k = j)
    BY <2>3 DEF Exact, Claimable, Queued
  <2>6. QueueIsExact'
    BY <1>2, <2>1, <2>5 DEF QueueIsExact, JobsTyped
  <2> QED
    BY <2>4, <2>6
<1> QED
  BY <1>1, <1>2

-----------------------------------------------------------------------------
(* What makes the argument inductive: the lease row belongs to a process   *)
(* that has run, and while it is alive it holds the fence of the row's     *)
(* generation; a pass has the job it works on, the parts it took are parts *)
(* of that job, and it will call the job done only when nothing is missing.*)
HolderFenced ==
  holder # None => life[holder] # "unborn" /\ (Alive(holder) => fence[holder] = gen)
HasJob(w) == pc[w] \in {"work", "commit", "finish", "fail"} => cur[w] \in Job
FailsOpen(w) == pc[w] = "fail" => outcome[w] \in {"retry", "blocked"}
TookOwn(w) == pc[w] = "commit" =>
  took[w] \subseteq Target[cur[w]] /\ (outcome[w] = "done" => took[w] = Target[cur[w]])
NothingLeft(w) ==
  pc[w] = "finish" /\ outcome[w] = "done" /\ state[cur[w]] = "running" /\ owner[cur[w]] = w
    => vec[cur[w]] = Target[cur[w]]
PassInv == \A w \in Worker : HasJob(w) /\ FailsOpen(w) /\ TookOwn(w) /\ NothingLeft(w)
PartsOfJob == \A j \in Job :
  vec[j] \subseteq Target[j] /\ (state[j] = "cancelled" => vec[j] = {})

IInv == /\ TypeOK /\ QueueIsExact /\ HolderFenced /\ PassInv /\ PartsOfJob /\ DoneIsComplete

(* The initial states satisfy the invariant.                               *)
LEMMA InitIInv == Init => IInv
<1> SUFFICES ASSUME Init PROVE IInv
  OBVIOUS
<1> USE WorkerAssumption, JobAssumption DEF Init
<1>1. TypeOK BY DEF TypeOK, States, Labels
<1>2. QueueIsExact
  <2>1. DOMAIN queue = {}
    OBVIOUS
  <2> QED BY <2>1 DEF QueueIsExact, IsInjective, Claimable, Range
<1>3. HolderFenced /\ PassInv /\ PartsOfJob /\ DoneIsComplete
  BY DEF HolderFenced, PassInv, PartsOfJob, DoneIsComplete, HasJob, FailsOpen, TookOwn, NothingLeft
<1> QED BY <1>1, <1>2, <1>3 DEF IInv

(* A step keeps the types and the queue without duplicates.                *)
LEMMA TypeStep == TypeOK /\ QueueIsExact /\ PassInv /\ [Next]_vars => TypeOK' /\ QueueIsExact'
<1> SUFFICES ASSUME TypeOK, QueueIsExact, PassInv, [Next]_vars PROVE TypeOK' /\ QueueIsExact'
  OBVIOUS
<1> JobsTyped BY DEF JobsTyped, TypeOK
<1>f. ASSUME UNCHANGED jobVars PROVE JobsTyped' /\ QueueIsExact'
  BY <1>f DEF jobVars, JobsTyped, QueueIsExact, Claimable
<1>t. ASSUME JobsTyped', QueueIsExact',
             /\ life' \in [Worker -> {"unborn", "alive", "dead"}]
             /\ pc' \in [Worker -> Labels] /\ fence' \in [Worker -> Nat]
             /\ beating' \subseteq Worker /\ aborted' \subseteq Worker /\ stopped' \subseteq Worker
             /\ cur' \in [Worker -> Job \cup {None}] /\ took' \in [Worker -> SUBSET Part]
             /\ outcome' \in [Worker -> {"done", "pending", "retry", "blocked"}]
             /\ lastCapture' \subseteq Worker
             /\ holder' \in Worker \cup {None} /\ gen' \in Nat
             /\ vec' \in [Job -> SUBSET Part] /\ assets' \in BOOLEAN /\ faults' \in Nat
      PROVE  TypeOK' /\ QueueIsExact'
  BY <1>t DEF JobsTyped, TypeOK
<1> USE WorkerAssumption, JobAssumption
  DEF Labels, workVars, timerVars, leaseVars, Goto, Throws, Decide, LeaveJob
<1>1. ASSUME NEW w \in Worker, Spawn(w) PROVE TypeOK' /\ QueueIsExact'
  BY <1>1, <1>f, <1>t DEF TypeOK, Spawn
<1>2. ASSUME NEW w \in Worker, Die(w) PROVE TypeOK' /\ QueueIsExact'
  BY <1>2, <1>f, <1>t DEF TypeOK, Die
<1>3. ASSUME NEW w \in Worker, Resume(w) PROVE TypeOK' /\ QueueIsExact'
  BY <1>3, <1>f, <1>t DEF TypeOK, Resume
<1>4. ASSUME NEW w \in Worker, ClaimLease(w) PROVE TypeOK' /\ QueueIsExact'
  BY <1>4, <1>f, <1>t DEF TypeOK, ClaimLease
<1>5. ASSUME NEW w \in Worker, Recover(w) PROVE TypeOK' /\ QueueIsExact'
  <2> DEFINE J == Interrupted(w)
  <2>1. J \in SUBSET Job /\ \A j \in J : state[j] \notin {"pending", "retry"}
    BY DEF Interrupted
  <2>2. Requeue(J, "retry") \/ UNCHANGED jobVars
    BY <1>5 DEF Recover
  <2>3. JobsTyped' /\ QueueIsExact'
    <3> HIDE DEF J
    <3> QED BY <2>1, <2>2, <1>f, RequeueExact
  <2>4. faults' \in Nat /\ beating' \subseteq Worker /\ pc' \in [Worker -> Labels]
    <3>1. faults' = faults \/ faults' = faults + 1
      BY <1>5 DEF Recover
    <3>2. beating' = beating \/ beating' = beating \cup {w}
      BY <1>5 DEF Recover
    <3>3. Goto(w, "drain") \/ Goto(w, "idle")
      BY <1>5 DEF Recover
    <3>4. faults' \in Nat
      BY <3>1 DEF TypeOK
    <3>5. beating' \subseteq Worker
      BY <3>2 DEF TypeOK
    <3>6. pc' \in [Worker -> Labels]
      BY <3>3 DEF TypeOK
    <3> QED BY <3>4, <3>5, <3>6
  <2>5. UNCHANGED <<life, fence, aborted, stopped, workVars, leaseVars, vec, assets>>
    BY <1>5 DEF Recover
  <2> QED BY <2>3, <2>4, <2>5, <1>t DEF TypeOK
<1>6. ASSUME NEW w \in Worker, Drain(w) PROVE TypeOK' /\ QueueIsExact'
  <2>1. JobsTyped' /\ QueueIsExact'
    <3> DEFINE J == {j \in Job : assets /\ state[j] = "blocked"}
    <3>1. Requeue(J, "pending") /\ J \in SUBSET Job
          /\ \A j \in J : state[j] \notin {"pending", "retry"}
      BY <1>6 DEF Drain
    <3> HIDE DEF J
    <3> QED BY <3>1, RequeueExact
  <2> QED BY <1>6, <2>1, <1>t DEF TypeOK, Drain
<1>7. ASSUME NEW w \in Worker, ClaimJob(w) PROVE TypeOK' /\ QueueIsExact'
  <2>1. PICK i \in DOMAIN queue :
             /\ state' = [state EXCEPT ![queue[i]] = "running"]
             /\ owner' = [owner EXCEPT ![queue[i]] = w]
             /\ cur' = [cur EXCEPT ![w] = queue[i]]
             /\ lastCapture' = IF queue[i] \in EmbedJob THEN lastCapture \ {w}
                                                        ELSE lastCapture \cup {w}
             /\ queue' = RemoveAt(queue, i)
    BY <1>7 DEF ClaimJob
  <2>2. queue[i] \in Job
    BY ElementOfSeq, LenProperties DEF TypeOK
  <2>3. Exact(queue', Queued \ {queue[i]})
    BY <2>1, RemoveExact DEF Exact, Queued, TypeOK, QueueIsExact
  <2>4. JobsTyped' /\ QueueIsExact'
    BY <2>1, <2>2, <2>3 DEF Exact, Queued, Claimable, JobsTyped, QueueIsExact, States
  <2>5. cur' \in [Worker -> Job \cup {None}] /\ lastCapture' \subseteq Worker
    BY <2>1, <2>2 DEF TypeOK
  <2> QED BY <1>7, <2>4, <2>5, <1>t DEF TypeOK, ClaimJob
<1>8. ASSUME NEW w \in Worker, StopPass(w) PROVE TypeOK' /\ QueueIsExact'
  BY <1>8, <1>f, <1>t DEF TypeOK, StopPass, EndPass
<1>9. ASSUME NEW w \in Worker, Work(w) PROVE TypeOK' /\ QueueIsExact'
  <2>1. cur[w] \in Job
    BY <1>9 DEF PassInv, HasJob, Work, At
  <2>2. UNCHANGED <<jobVars, life, fence, timerVars, cur, lastCapture, leaseVars, vec, assets, faults>>
    BY <1>9 DEF Work
  <2>3. took' \in [Worker -> SUBSET Part]
    BY <1>9, <2>1 DEF Work, TypeOK
  <2>4. \E to \in {"done", "pending", "retry", "blocked"}, label \in Labels : Decide(w, to, label)
    <3> HIDE DEF Decide
    <3> QED BY <1>9 DEF Work, Outcome
  <2>5. outcome' \in [Worker -> {"done", "pending", "retry", "blocked"}] /\ pc' \in [Worker -> Labels]
    BY <2>4 DEF TypeOK
  <2> QED BY <2>2, <2>3, <2>5, <1>f, <1>t DEF TypeOK
<1>10. ASSUME NEW w \in Worker, Commit(w) PROVE TypeOK' /\ QueueIsExact'
  <2>1. vec' \in [Job -> SUBSET Part]
    <3>1. cur[w] \in Job /\ took[w] \in SUBSET Part
      BY <1>10 DEF PassInv, HasJob, Commit, At, TypeOK
    <3>2. vec' = vec \/ vec' = [vec EXCEPT ![cur[w]] = @ \cup took[w]]
      BY <1>10 DEF Commit
    <3>3. vec[cur[w]] \cup took[w] \in SUBSET Part /\ vec \in [Job -> SUBSET Part]
      BY <3>1 DEF TypeOK
    <3> QED BY <3>1, <3>2, <3>3
  <2>2. faults' \in Nat
    BY <1>10 DEF TypeOK, Commit
  <2>3. /\ outcome' \in [Worker -> {"done", "pending", "retry", "blocked"}]
        /\ pc' \in [Worker -> Labels]
    <3>1. (Goto(w, "finish") /\ UNCHANGED outcome) \/ Decide(w, "retry", "fail")
      BY <1>10 DEF Commit
    <3>2. pc' \in [Worker -> Labels]
      BY <3>1 DEF TypeOK
    <3>3. outcome' \in [Worker -> {"done", "pending", "retry", "blocked"}]
      BY <3>1 DEF TypeOK
    <3> QED BY <3>2, <3>3
  <2>4. UNCHANGED <<life, fence, timerVars, cur, took, lastCapture, leaseVars, jobVars, assets>>
    BY <1>10 DEF Commit
  <2> QED BY <2>1, <2>2, <2>3, <2>4, <1>f, <1>t DEF TypeOK
<1>11. ASSUME NEW w \in Worker, Finish(w) PROVE TypeOK' /\ QueueIsExact'
  <2>1. cur[w] \in Job /\ outcome[w] \in {"done", "pending", "retry", "blocked"}
    BY <1>11 DEF PassInv, HasJob, Finish, At, TypeOK
  <2>2. JobsTyped' /\ QueueIsExact'
    BY <1>11, <2>1, <1>f, FinishRowExact DEF Finish
  <2>4. faults' \in Nat
    BY <1>11 DEF TypeOK, Finish
  <2>5. /\ outcome' \in [Worker -> {"done", "pending", "retry", "blocked"}]
        /\ pc' \in [Worker -> Labels]
        /\ cur' \in [Worker -> Job \cup {None}] /\ took' \in [Worker -> SUBSET Part]
    <3>1. CASE Goto(w, "next") /\ LeaveJob(w)
      BY <3>1 DEF TypeOK
    <3>2. CASE Decide(w, "retry", "fail") /\ UNCHANGED <<cur, took>>
      BY <3>2 DEF TypeOK
    <3> HIDE DEF Goto, LeaveJob, Decide
    <3> QED BY <1>11, <3>1, <3>2 DEF Finish
  <2>6. UNCHANGED <<life, fence, timerVars, lastCapture, leaseVars, vec, assets>>
    BY <1>11 DEF Finish
  <2> QED BY <2>2, <2>4, <2>5, <2>6, <1>t DEF TypeOK
<1>12. ASSUME NEW w \in Worker, Fail(w) PROVE TypeOK' /\ QueueIsExact'
  <2> DEFINE to == IF w \in aborted THEN "retry" ELSE outcome[w]
  <2>1. cur[w] \in Job /\ to \in {"done", "pending", "retry", "blocked"}
    BY <1>12 DEF PassInv, HasJob, Fail, At, TypeOK
  <2>2. FinishRow(w, to) \/ UNCHANGED jobVars
    BY <1>12 DEF Fail
  <2> HIDE DEF to
  <2>3. JobsTyped' /\ QueueIsExact'
    BY <2>1, <2>2, <1>f, FinishRowExact
  <2>4. faults' \in Nat
    BY <1>12 DEF TypeOK, Fail
  <2>5. /\ outcome' \in [Worker -> {"done", "pending", "retry", "blocked"}]
        /\ pc' \in [Worker -> Labels]
        /\ cur' \in [Worker -> Job \cup {None}] /\ took' \in [Worker -> SUBSET Part]
    <3>1. LeaveJob(w) /\ (Goto(w, "idle") \/ Goto(w, "next"))
      BY <1>12 DEF Fail
    <3>2. pc' \in [Worker -> Labels]
      BY <3>1 DEF TypeOK, Goto, Labels
    <3> QED
      BY <3>1, <3>2 DEF TypeOK, LeaveJob
  <2>6. UNCHANGED <<life, fence, timerVars, lastCapture, leaseVars, vec, assets>>
    BY <1>12 DEF Fail
  <2> QED BY <2>3, <2>4, <2>5, <2>6, <1>t DEF TypeOK
<1>13. ASSUME NEW w \in Worker, FinishClose(w) PROVE TypeOK' /\ QueueIsExact'
  <2> DEFINE J == Own(w)
  <2>1. J \in SUBSET Job /\ \A j \in J : state[j] \notin {"pending", "retry"}
    BY DEF Own
  <2>2. Requeue(J, "retry") \/ UNCHANGED jobVars
    BY <1>13 DEF FinishClose
  <2>3. JobsTyped' /\ QueueIsExact'
    <3> HIDE DEF J
    <3> QED BY <2>1, <2>2, <1>f, RequeueExact
  <2>4. faults' \in Nat /\ holder' \in Worker \cup {None} /\ pc' \in [Worker -> Labels]
    BY <1>13 DEF TypeOK, FinishClose
  <2>5. UNCHANGED <<life, fence, timerVars, workVars, gen, vec, assets>>
    BY <1>13 DEF FinishClose
  <2> QED BY <2>3, <2>4, <2>5, <1>t DEF TypeOK
<1>14. ASSUME NEW w \in Worker, Heartbeat(w) PROVE TypeOK' /\ QueueIsExact'
  BY <1>14, <1>f, <1>t DEF TypeOK, Heartbeat
<1>15. ASSUME NEW w \in Worker, Close(w) PROVE TypeOK' /\ QueueIsExact'
  BY <1>15, <1>f, <1>t DEF TypeOK, Close
<1>16. ASSUME NEW j \in Job, Enqueue(j) PROVE TypeOK' /\ QueueIsExact'
  <2>1. Exact(queue, Queued) /\ j \notin Queued
    BY <1>16 DEF Exact, Queued, TypeOK, QueueIsExact, Claimable, Enqueue
  <2>2. Exact(queue', Queued \cup {j})
    BY <1>16, <2>1, AppendExact DEF Enqueue
  <2>3. JobsTyped' /\ QueueIsExact'
    BY <1>16, <2>2 DEF Enqueue, Exact, Queued, Claimable, JobsTyped, QueueIsExact, States
  <2> QED BY <1>16, <2>3, <1>t DEF TypeOK, Enqueue
<1>17. ASSUME NEW j \in Job, BackoffEnds(j) PROVE TypeOK' /\ QueueIsExact'
  <2>1. Exact(queue, Queued) /\ j \notin Queued
    BY <1>17 DEF Exact, Queued, TypeOK, QueueIsExact, Claimable, BackoffEnds
  <2>2. Exact(queue', Queued \cup {j})
    BY <1>17, <2>1, AppendExact DEF BackoffEnds
  <2>3. JobsTyped' /\ QueueIsExact'
    BY <1>17, <2>2 DEF BackoffEnds, Exact, Queued, Claimable, JobsTyped, QueueIsExact
  <2> QED BY <1>17, <2>3, <1>t DEF TypeOK, BackoffEnds
<1>18. ASSUME NEW j \in Job, Cancel(j) PROVE TypeOK' /\ QueueIsExact'
  <2>1. Exact(queue', Queued \ {j})
    BY <1>18, WithoutExact DEF Cancel, TypeOK, QueueIsExact
  <2>2. JobsTyped' /\ QueueIsExact'
    BY <1>18, <2>1 DEF Cancel, Exact, Queued, Claimable, JobsTyped, QueueIsExact, States
  <2> QED BY <1>18, <2>2, <1>t DEF TypeOK, Cancel
<1>19. CASE InstallAssets
  BY <1>19, <1>f, <1>t DEF TypeOK, InstallAssets
<1>20. CASE UNCHANGED vars
  BY <1>20, <1>f, <1>t DEF TypeOK, vars
<1> QED
  BY <1>1, <1>2, <1>3, <1>4, <1>5, <1>6, <1>7, <1>8, <1>9, <1>10, <1>11, <1>12, <1>13, <1>14,
     <1>15, <1>16, <1>17, <1>18, <1>19, <1>20 DEF Next, Pass

-----------------------------------------------------------------------------
(* How the rows move, whoever moves them.                                  *)
RowMoves(k) ==
  /\ state'[k] = "running" =>
        \/ state[k] = "running" /\ owner'[k] = owner[k]
        \/ \E w \in Worker : pc[w] = "next" /\ pc'[w] = "work" /\ owner'[k] = w
  /\ state'[k] = "done" =>
        \/ state[k] = "done"
        \/ \E w \in Worker : /\ pc[w] = "finish" /\ outcome[w] = "done" /\ cur[w] = k
                             /\ state[k] = "running" /\ owner[k] = w
  /\ vec[k] \subseteq vec'[k] \/ state'[k] = "cancelled"
  /\ vec'[k] \subseteq Target[k]
  /\ state[k] = "cancelled" => state'[k] = "cancelled"
  /\ state'[k] = "cancelled" => vec'[k] = {}

(* Every step moves each job's row in one of the ways above.               *)
LEMMA RowStep == IInv /\ [Next]_vars => \A k \in Job : RowMoves(k)
<1> SUFFICES ASSUME IInv, [Next]_vars, NEW k \in Job PROVE RowMoves(k)
  OBVIOUS
<1> TypeOK /\ QueueIsExact /\ PassInv /\ PartsOfJob
  BY DEF IInv
<1> USE WorkerAssumption, JobAssumption
<1>f. ASSUME UNCHANGED <<jobVars, vec>> PROVE RowMoves(k)
  BY <1>f DEF RowMoves, jobVars, PartsOfJob
<1>q. ASSUME NEW J \in SUBSET Job, NEW to \in {"pending", "retry"}, Requeue(J, to),
             \A j \in J : state[j] # "cancelled", UNCHANGED vec
      PROVE  RowMoves(k)
  BY <1>q DEF RowMoves, Requeue, PartsOfJob
<1>r. ASSUME NEW w \in Worker, NEW to \in {"done", "pending", "retry", "blocked"},
             FinishRow(w, to), cur[w] \in Job, UNCHANGED vec,
             to = "done" => pc[w] = "finish" /\ outcome[w] = "done"
      PROVE  RowMoves(k)
  BY <1>r DEF RowMoves, FinishRow, Mine, jobVars, PartsOfJob, TypeOK
<1>1. ASSUME NEW w \in Worker, Spawn(w) PROVE RowMoves(k)
  BY <1>1, <1>f DEF Spawn
<1>2. ASSUME NEW w \in Worker, Die(w) PROVE RowMoves(k)
  BY <1>2, <1>f DEF Die
<1>3. ASSUME NEW w \in Worker, Resume(w) PROVE RowMoves(k)
  BY <1>3, <1>f DEF Resume
<1>4. ASSUME NEW w \in Worker, ClaimLease(w) PROVE RowMoves(k)
  BY <1>4, <1>f DEF ClaimLease
<1>5. ASSUME NEW w \in Worker, Recover(w) PROVE RowMoves(k)
  <2> DEFINE J == Interrupted(w)
  <2>1. J \in SUBSET Job /\ \A j \in J : state[j] # "cancelled"
    BY DEF Interrupted
  <2>2. (Requeue(J, "retry") \/ UNCHANGED jobVars) /\ UNCHANGED vec
    BY <1>5 DEF Recover
  <2> HIDE DEF J
  <2> QED BY <2>1, <2>2, <1>f, <1>q
<1>6. ASSUME NEW w \in Worker, Drain(w) PROVE RowMoves(k)
  <2> DEFINE J == {j \in Job : assets /\ state[j] = "blocked"}
  <2>1. Requeue(J, "pending") /\ J \in SUBSET Job /\ UNCHANGED vec
        /\ \A j \in J : state[j] # "cancelled"
    BY <1>6 DEF Drain
  <2> HIDE DEF J
  <2> QED BY <2>1, <1>q
<1>7. ASSUME NEW w \in Worker, ClaimJob(w) PROVE RowMoves(k)
  <2>1. PICK i \in DOMAIN queue :
             /\ state' = [state EXCEPT ![queue[i]] = "running"]
             /\ owner' = [owner EXCEPT ![queue[i]] = w]
    BY <1>7 DEF ClaimJob
  <2>2. queue[i] \in Job /\ state[queue[i]] \in {"pending", "retry"}
    BY ElementOfSeq, LenProperties DEF TypeOK, QueueIsExact, Claimable, Range
  <2>3. pc[w] = "next" /\ pc'[w] = "work" /\ UNCHANGED vec
    BY <1>7 DEF ClaimJob, At, Goto, TypeOK
  <2> QED BY <2>1, <2>2, <2>3 DEF RowMoves, PartsOfJob, TypeOK
<1>8. ASSUME NEW w \in Worker, StopPass(w) PROVE RowMoves(k)
  BY <1>8, <1>f DEF StopPass, EndPass
<1>9. ASSUME NEW w \in Worker, Work(w) PROVE RowMoves(k)
  BY <1>9, <1>f DEF Work
<1>10. ASSUME NEW w \in Worker, Commit(w) PROVE RowMoves(k)
  <2>1. cur[w] \in Job /\ took[w] \subseteq Target[cur[w]]
    BY <1>10 DEF PassInv, HasJob, TookOwn, Commit, At
  <2>2. CASE vec' = vec
    BY <1>10, <2>2, <1>f DEF Commit
  <2>3. CASE vec' # vec
    <3>1. /\ vec' = [vec EXCEPT ![cur[w]] = @ \cup took[w]]
          /\ state[cur[w]] = "running"
      BY <1>10, <2>3 DEF Commit, Mine
    <3>2. state' = state /\ owner' = owner
      BY <1>10 DEF Commit, jobVars
    <3>3. vec[k] \subseteq vec'[k] /\ vec'[k] \subseteq Target[k]
      <4>1. vec'[k] = IF k = cur[w] THEN vec[k] \cup took[w] ELSE vec[k]
        BY <2>1, <3>1 DEF TypeOK
      <4> QED BY <2>1, <4>1 DEF PartsOfJob
    <3>4. state[k] = "cancelled" => vec'[k] = {}
      BY <2>1, <3>1 DEF TypeOK, PartsOfJob
    <3> QED BY <3>2, <3>3, <3>4 DEF RowMoves
  <2> QED BY <2>2, <2>3
<1>11. ASSUME NEW w \in Worker, Finish(w) PROVE RowMoves(k)
  <2>1. cur[w] \in Job /\ outcome[w] \in {"done", "pending", "retry", "blocked"} /\ pc[w] = "finish"
    BY <1>11 DEF PassInv, HasJob, Finish, At, TypeOK
  <2>2. (FinishRow(w, outcome[w]) \/ UNCHANGED jobVars) /\ UNCHANGED vec
    BY <1>11 DEF Finish
  <2> QED BY <2>1, <2>2, <1>f, <1>r
<1>12. ASSUME NEW w \in Worker, Fail(w) PROVE RowMoves(k)
  <2> DEFINE to == IF w \in aborted THEN "retry" ELSE outcome[w]
  <2>1. cur[w] \in Job /\ to \in {"retry", "blocked"}
    BY <1>12 DEF PassInv, HasJob, FailsOpen, Fail, At
  <2>2. (FinishRow(w, to) \/ UNCHANGED jobVars) /\ UNCHANGED vec
    BY <1>12 DEF Fail
  <2> HIDE DEF to
  <2> QED BY <2>1, <2>2, <1>f, <1>r
<1>13. ASSUME NEW w \in Worker, FinishClose(w) PROVE RowMoves(k)
  <2> DEFINE J == Own(w)
  <2>1. J \in SUBSET Job /\ \A j \in J : state[j] # "cancelled"
    BY DEF Own
  <2>2. (Requeue(J, "retry") \/ UNCHANGED jobVars) /\ UNCHANGED vec
    BY <1>13 DEF FinishClose
  <2> HIDE DEF J
  <2> QED BY <2>1, <2>2, <1>f, <1>q
<1>14. ASSUME NEW w \in Worker, Heartbeat(w) PROVE RowMoves(k)
  BY <1>14, <1>f DEF Heartbeat
<1>15. ASSUME NEW w \in Worker, Close(w) PROVE RowMoves(k)
  BY <1>15, <1>f DEF Close
<1>16. ASSUME NEW j \in Job, Enqueue(j) PROVE RowMoves(k)
  BY <1>16 DEF Enqueue, RowMoves, PartsOfJob, TypeOK
<1>17. ASSUME NEW j \in Job, BackoffEnds(j) PROVE RowMoves(k)
  BY <1>17 DEF BackoffEnds, RowMoves, PartsOfJob, TypeOK
<1>18. ASSUME NEW j \in Job, Cancel(j) PROVE RowMoves(k)
  BY <1>18 DEF Cancel, RowMoves, PartsOfJob, TypeOK
<1>19. CASE InstallAssets
  BY <1>19, <1>f DEF InstallAssets
<1>20. CASE UNCHANGED vars
  BY <1>20, <1>f DEF vars
<1> QED
  BY <1>1, <1>2, <1>3, <1>4, <1>5, <1>6, <1>7, <1>8, <1>9, <1>10,
     <1>11, <1>12, <1>13, <1>14, <1>15, <1>16, <1>17, <1>18, <1>19, <1>20 DEF Next, Pass

(* How one pass moves from label to label.                                 *)
PassMoves(v) ==
  /\ HasJob(v)' /\ FailsOpen(v)' /\ TookOwn(v)'
  /\ pc'[v] = "finish" /\ outcome'[v] = "done" =>
        /\ cur'[v] = cur[v] /\ cur[v] \in Job
        /\ \/ pc[v] = "finish" /\ outcome[v] = "done"
           \/ vec'[cur[v]] = Target[cur[v]]
           \/ state'[cur[v]] = "cancelled"

(* Every step moves each worker's pass in one of the ways above.           *)
LEMMA PassStep == IInv /\ TypeOK' /\ [Next]_vars => \A v \in Worker : PassMoves(v)
<1> SUFFICES ASSUME IInv, TypeOK', [Next]_vars, NEW v \in Worker PROVE PassMoves(v)
  OBVIOUS
<1> TypeOK /\ PassInv /\ PartsOfJob
  BY DEF IInv
<1> USE WorkerAssumption, JobAssumption
<1>f. ASSUME pc'[v] = pc[v], cur'[v] = cur[v], took'[v] = took[v], outcome'[v] = outcome[v]
      PROVE  PassMoves(v)
  BY <1>f DEF PassMoves, PassInv, HasJob, FailsOpen, TookOwn
<1>g. ASSUME pc'[v] \in {"idle", "recover", "drain", "next", "closed"}
      PROVE  PassMoves(v)
  BY <1>g DEF PassMoves, HasJob, FailsOpen, TookOwn
<1>1. ASSUME NEW w \in Worker, Spawn(w) PROVE PassMoves(v)
  BY <1>1, <1>f DEF Spawn, workVars
<1>2. ASSUME NEW w \in Worker, Die(w) PROVE PassMoves(v)
  <2>1. CASE v # w
    BY <1>2, <2>1, <1>f DEF Die, TypeOK, Goto, Decide, LeaveJob, workVars, EndPass
  <2>2. CASE v = w
    BY <1>2, <2>2, <1>g DEF Die, TypeOK, Goto, EndPass
  <2> QED BY <2>1, <2>2
<1>3. ASSUME NEW w \in Worker, Resume(w) PROVE PassMoves(v)
  <2>1. CASE v # w
    BY <1>3, <2>1, <1>f DEF Resume, TypeOK, Goto, Decide, LeaveJob, workVars, EndPass
  <2>2. CASE v = w
    BY <1>3, <2>2, <1>g DEF Resume, TypeOK, Goto, EndPass
  <2> QED BY <2>1, <2>2
<1>4. ASSUME NEW w \in Worker, ClaimLease(w) PROVE PassMoves(v)
  <2>1. CASE v # w
    BY <1>4, <2>1, <1>f DEF ClaimLease, TypeOK, Goto, Decide, LeaveJob, workVars, EndPass
  <2>2. CASE v = w
    BY <1>4, <2>2, <1>g DEF ClaimLease, TypeOK, Goto, EndPass
  <2> QED BY <2>1, <2>2
<1>5. ASSUME NEW w \in Worker, Recover(w) PROVE PassMoves(v)
  <2>1. CASE v # w
    BY <1>5, <2>1, <1>f DEF Recover, TypeOK, Goto, Decide, LeaveJob, workVars, EndPass
  <2>2. CASE v = w
    <3>1. Goto(w, "drain") \/ Goto(w, "idle")
      BY <1>5 DEF Recover
    <3> QED BY <2>2, <3>1, <1>g DEF TypeOK, Goto
  <2> QED BY <2>1, <2>2
<1>6. ASSUME NEW w \in Worker, Drain(w) PROVE PassMoves(v)
  <2>1. CASE v # w
    BY <1>6, <2>1, <1>f DEF Drain, TypeOK, Goto, Decide, LeaveJob, workVars, EndPass
  <2>2. CASE v = w
    BY <1>6, <2>2, <1>g DEF Drain, TypeOK, Goto, EndPass
  <2> QED BY <2>1, <2>2
<1>7. ASSUME NEW w \in Worker, ClaimJob(w) PROVE PassMoves(v)
  <2>1. CASE v # w
    BY <1>7, <2>1, <1>f DEF ClaimJob, TypeOK, Goto, Decide, LeaveJob, workVars, EndPass
  <2>2. CASE v = w
    <3>1. PICK i \in DOMAIN queue : cur' = [cur EXCEPT ![w] = queue[i]]
      BY <1>7 DEF ClaimJob
    <3>2. queue[i] \in Job
      BY ElementOfSeq, LenProperties DEF TypeOK
    <3>3. pc'[w] = "work" /\ cur'[w] = queue[i]
      BY <1>7, <3>1 DEF ClaimJob, Goto, TypeOK
    <3> QED BY <2>2, <3>2, <3>3 DEF PassMoves, HasJob, FailsOpen, TookOwn
  <2> QED BY <2>1, <2>2
<1>8. ASSUME NEW w \in Worker, StopPass(w) PROVE PassMoves(v)
  <2>1. CASE v # w
    BY <1>8, <2>1, <1>f DEF StopPass, TypeOK, Goto, Decide, LeaveJob, workVars, EndPass
  <2>2. CASE v = w
    BY <1>8, <2>2, <1>g DEF StopPass, TypeOK, Goto, EndPass
  <2> QED BY <2>1, <2>2
<1>9. ASSUME NEW w \in Worker, Work(w) PROVE PassMoves(v)
  <2>1. CASE v # w
    BY <1>9, <2>1, <1>f DEF Work, TypeOK, Goto, Decide, LeaveJob, workVars, EndPass
  <2>2. CASE v = w
    <3> DEFINE j == cur[w]
    <3>1. cur'[w] = j /\ j \in Job /\ Target[j] \in SUBSET Part
      BY <1>9 DEF Work, At, PassInv, HasJob, workVars
    <3>2. CASE Decide(w, "retry", "fail") \/ Decide(w, "blocked", "fail")
      <4>1. pc'[w] = "fail" /\ outcome'[w] \in {"retry", "blocked"}
        BY <3>2 DEF Decide, Goto, TypeOK
      <4> QED BY <2>2, <3>1, <4>1 DEF PassMoves, HasJob, FailsOpen, TookOwn
    <3>3. CASE Decide(w, "done", "finish") /\ (Target[j] \ vec[j] = {} \/ state[j] = "cancelled")
      <4>1. pc'[w] = "finish" /\ outcome'[w] = "done"
        BY <3>3 DEF Decide, Goto, TypeOK
      <4>2. vec'[j] = vec[j] /\ state'[j] = state[j]
        BY <1>9 DEF Work, jobVars
      <4>3. vec'[j] = Target[j] \/ state'[j] = "cancelled"
        BY <3>1, <3>3, <4>2 DEF PartsOfJob
      <4> QED BY <2>2, <3>1, <4>1, <4>3 DEF PassMoves, HasJob, FailsOpen, TookOwn
    <3>4. CASE /\ Decide(w, Outcome(j), "commit")
               /\ j \in EmbedJob
               /\ \E P \in SUBSET (Target[j] \ vec[j]) : took' = [took EXCEPT ![w] = P]
      <4>1. pc'[w] = "commit" /\ outcome'[w] = "pending" /\ took'[w] \subseteq Target[j]
        BY <3>4 DEF Decide, Goto, TypeOK, Outcome
      <4> QED BY <2>2, <3>1, <4>1 DEF PassMoves, HasJob, FailsOpen, TookOwn
    <3>5. CASE /\ Decide(w, Outcome(j), "commit")
               /\ took' = [took EXCEPT ![w] = Target[j]]
      <4>1. pc'[w] = "commit" /\ took'[w] = Target[j]
        BY <3>5 DEF Decide, Goto, TypeOK
      <4> QED BY <2>2, <3>1, <4>1 DEF PassMoves, HasJob, FailsOpen, TookOwn
    <3> HIDE DEF j
    <3> QED BY <1>9, <3>2, <3>3, <3>4, <3>5 DEF Work, j
  <2> QED BY <2>1, <2>2
<1>10. ASSUME NEW w \in Worker, Commit(w) PROVE PassMoves(v)
  <2>1. CASE v # w
    BY <1>10, <2>1, <1>f DEF Commit, TypeOK, Goto, Decide, LeaveJob, workVars, EndPass
  <2>2. CASE v = w
    <3>1. cur'[w] = cur[w] /\ took'[w] = took[w] /\ cur[w] \in Job /\ pc[w] = "commit"
      BY <1>10 DEF Commit, At, PassInv, HasJob
    <3>2. CASE /\ vec' = [vec EXCEPT ![cur[w]] = @ \cup took[w]]
               /\ Goto(w, "finish") /\ UNCHANGED outcome
      <4>1. pc'[w] = "finish" /\ outcome'[w] = outcome[w]
        BY <3>2 DEF Goto, TypeOK
      <4>3. vec'[cur[w]] = vec[cur[w]] \cup took[w]
        BY <3>1, <3>2 DEF TypeOK
      <4>2. outcome[w] = "done" => vec'[cur[w]] = Target[cur[w]]
        BY <3>1, <4>1, <4>3 DEF PassInv, TookOwn, PartsOfJob
      <4> QED BY <2>2, <3>1, <4>1, <4>2 DEF PassMoves, HasJob, FailsOpen, TookOwn
    <3>3. CASE Decide(w, "retry", "fail")
      <4>1. pc'[w] = "fail" /\ outcome'[w] = "retry"
        BY <3>3 DEF Decide, Goto, TypeOK
      <4> QED BY <2>2, <3>1, <4>1 DEF PassMoves, HasJob, FailsOpen, TookOwn
    <3> HIDE DEF Goto, Decide
    <3> QED BY <1>10, <3>2, <3>3 DEF Commit
  <2> QED BY <2>1, <2>2
<1>11. ASSUME NEW w \in Worker, Finish(w) PROVE PassMoves(v)
  <2>1. CASE v # w
    BY <1>11, <2>1, <1>f DEF Finish, TypeOK, Goto, Decide, LeaveJob, workVars, EndPass
  <2>2. CASE v = w
    <3>1. CASE Goto(w, "next")
      BY <2>2, <3>1, <1>g DEF TypeOK, Goto
    <3>2. CASE Decide(w, "retry", "fail") /\ UNCHANGED cur
      <4>1. pc'[w] = "fail" /\ outcome'[w] = "retry" /\ cur'[w] = cur[w] /\ cur[w] \in Job
        BY <1>11, <3>2 DEF Decide, Goto, TypeOK, Finish, At, PassInv, HasJob
      <4> QED BY <2>2, <4>1 DEF PassMoves, HasJob, FailsOpen, TookOwn
    <3> QED BY <1>11, <3>1, <3>2 DEF Finish
  <2> QED BY <2>1, <2>2
<1>12. ASSUME NEW w \in Worker, Fail(w) PROVE PassMoves(v)
  <2>1. CASE v # w
    BY <1>12, <2>1, <1>f DEF Fail, TypeOK, Goto, Decide, LeaveJob, workVars, EndPass
  <2>2. CASE v = w
    <3>1. Goto(w, "next") \/ Goto(w, "idle")
      BY <1>12 DEF Fail
    <3> QED BY <2>2, <3>1, <1>g DEF TypeOK, Goto
  <2> QED BY <2>1, <2>2
<1>13. ASSUME NEW w \in Worker, FinishClose(w) PROVE PassMoves(v)
  <2>1. CASE v # w
    BY <1>13, <2>1, <1>f DEF FinishClose, TypeOK, Goto, Decide, LeaveJob, workVars, EndPass
  <2>2. CASE v = w
    BY <1>13, <2>2, <1>g DEF FinishClose, TypeOK, Goto, EndPass
  <2> QED BY <2>1, <2>2
<1>14. ASSUME NEW w \in Worker, Heartbeat(w) PROVE PassMoves(v)
  BY <1>14, <1>f DEF Heartbeat, workVars
<1>15. ASSUME NEW w \in Worker, Close(w) PROVE PassMoves(v)
  BY <1>15, <1>f DEF Close, workVars
<1>16. ASSUME NEW j \in Job, Enqueue(j) PROVE PassMoves(v)
  BY <1>16, <1>f DEF Enqueue, workVars
<1>17. ASSUME NEW j \in Job, BackoffEnds(j) PROVE PassMoves(v)
  BY <1>17, <1>f DEF BackoffEnds, workVars
<1>18. ASSUME NEW j \in Job, Cancel(j) PROVE PassMoves(v)
  BY <1>18, <1>f DEF Cancel, workVars
<1>19. CASE InstallAssets
  BY <1>19, <1>f DEF InstallAssets, workVars
<1>20. CASE UNCHANGED vars
  BY <1>20, <1>f DEF vars, workVars
<1> QED
  BY <1>1, <1>2, <1>3, <1>4, <1>5, <1>6, <1>7, <1>8, <1>9, <1>10,
     <1>11, <1>12, <1>13, <1>14, <1>15, <1>16, <1>17, <1>18, <1>19, <1>20 DEF Next, Pass

(* A step keeps the lease row with a process that has run and is fenced.   *)
LEMMA HolderStep == IInv /\ TypeOK' /\ [Next]_vars => HolderFenced'
<1> SUFFICES ASSUME IInv, TypeOK', [Next]_vars PROVE HolderFenced'
  OBVIOUS
<1> TypeOK /\ HolderFenced
  BY DEF IInv
<1> USE WorkerAssumption
<1>f. ASSUME UNCHANGED <<life, fence, leaseVars>> PROVE HolderFenced'
  BY <1>f DEF HolderFenced, Alive, leaseVars
<1>1. ASSUME NEW w \in Worker, Spawn(w) PROVE HolderFenced'
  BY <1>1 DEF Spawn, HolderFenced, Alive, leaseVars, TypeOK
<1>2. ASSUME NEW w \in Worker, Die(w) PROVE HolderFenced'
  BY <1>2 DEF Die, HolderFenced, Alive, leaseVars, TypeOK
<1>3. ASSUME NEW w \in Worker, ClaimLease(w) PROVE HolderFenced'
  BY <1>3 DEF ClaimLease, HolderFenced, Alive, At, TypeOK
<1>4. ASSUME NEW w \in Worker, FinishClose(w) PROVE HolderFenced'
  BY <1>4 DEF FinishClose, HolderFenced, Alive, TypeOK
<1>5. ASSUME NEW w \in Worker,
             \/ Resume(w) \/ Recover(w) \/ Drain(w) \/ ClaimJob(w) \/ StopPass(w) \/ Work(w)
             \/ Commit(w) \/ Finish(w) \/ Fail(w) \/ Heartbeat(w) \/ Close(w)
      PROVE  HolderFenced'
  BY <1>5, <1>f DEF Resume, Recover, Drain, ClaimJob, StopPass, EndPass, Work, Commit, Finish,
                    Fail, Heartbeat, Close
<1>6. ASSUME NEW j \in Job, Enqueue(j) \/ BackoffEnds(j) \/ Cancel(j) PROVE HolderFenced'
  BY <1>6, <1>f DEF Enqueue, BackoffEnds, Cancel
<1>7. CASE InstallAssets \/ UNCHANGED vars
  BY <1>7, <1>f DEF InstallAssets, vars
<1> QED
  BY <1>1, <1>2, <1>3, <1>4, <1>5, <1>6, <1>7 DEF Next, Pass

-----------------------------------------------------------------------------
(* The invariant is inductive.                                             *)
LEMMA NextIInv == IInv /\ [Next]_vars => IInv'
<1> SUFFICES ASSUME IInv, [Next]_vars PROVE IInv'
  OBVIOUS
<1>1. TypeOK' /\ QueueIsExact'
  BY TypeStep DEF IInv
<1>2. HolderFenced'
  BY <1>1, HolderStep
<1>3. \A k \in Job : RowMoves(k)
  BY RowStep
<1>4. \A v \in Worker : PassMoves(v)
  BY <1>1, PassStep
<1>5. PartsOfJob'
  BY <1>3 DEF PartsOfJob, RowMoves
<1>6. PassInv'
  <2> SUFFICES ASSUME NEW v \in Worker PROVE (HasJob(v) /\ FailsOpen(v) /\ TookOwn(v) /\ NothingLeft(v))'
    BY DEF PassInv
  <2>1. HasJob(v)' /\ FailsOpen(v)' /\ TookOwn(v)'
    BY <1>4 DEF PassMoves
  <2>2. ASSUME pc'[v] = "finish", outcome'[v] = "done",
               state'[cur'[v]] = "running", owner'[cur'[v]] = v
        PROVE  vec'[cur'[v]] = Target[cur'[v]]
    <3> DEFINE j == cur[v]
    <3>1. /\ cur'[v] = j /\ j \in Job
          /\ \/ pc[v] = "finish" /\ outcome[v] = "done"
             \/ vec'[j] = Target[j]
             \/ state'[j] = "cancelled"
      BY <1>4, <2>2 DEF PassMoves
    <3>2. CASE pc[v] = "finish" /\ outcome[v] = "done"
      <4>1. state[j] = "running" /\ owner[j] = v
        BY <1>3, <2>2, <3>1 DEF RowMoves
      <4>2. vec[j] = Target[j]
        BY <3>2, <4>1 DEF IInv, PassInv, NothingLeft
      <4>3. vec[j] \subseteq vec'[j] /\ vec'[j] \subseteq Target[j]
        BY <1>3, <2>2, <3>1 DEF RowMoves
      <4>4. vec'[j] = Target[j]
        BY <4>2, <4>3
      <4> QED
        BY <3>1, <4>4
    <3> QED
      BY <2>2, <3>1, <3>2
  <2> QED
    BY <2>1, <2>2 DEF NothingLeft
<1>7. DoneIsComplete'
  <2> SUFFICES ASSUME NEW k \in Job, state'[k] = "done" PROVE vec'[k] = Target[k]
    BY DEF DoneIsComplete
  <2>1. vec[k] = Target[k]
    BY <1>3 DEF RowMoves, IInv, DoneIsComplete, PassInv, NothingLeft
  <2>2. vec[k] \subseteq vec'[k] /\ vec'[k] \subseteq Target[k]
    BY <1>3 DEF RowMoves
  <2> QED
    BY <2>1, <2>2
<1> QED
  BY <1>1, <1>2, <1>5, <1>6, <1>7 DEF IInv

(* The invariant holds in every reachable state.                           *)
THEOREM Inductive == Spec => []IInv
<1>1. Init => IInv
  BY InitIInv
<1>2. IInv /\ [Next]_vars => IInv'
  BY NextIInv
<1> QED
  BY <1>1, <1>2, PTL DEF Spec

(* The variables keep their types.                                         *)
THEOREM TypeCorrect == Spec => []TypeOK
<1>1. IInv => TypeOK
  BY DEF IInv
<1> QED
  BY <1>1, Inductive, PTL

(* A job that is done has committed everything.                            *)
THEOREM DoneComplete == Spec => []DoneIsComplete
<1>1. IInv => DoneIsComplete
  BY DEF IInv
<1> QED
  BY <1>1, Inductive, PTL

(* No job is queued twice, and only jobs that wait are.                    *)
THEOREM QueueExact == Spec => []QueueIsExact
<1>1. IInv => QueueIsExact
  BY DEF IInv
<1> QED
  BY <1>1, Inductive, PTL

(* Work of a forgotten source is neither requeued nor written again.       *)
THEOREM CancelledStaysGone == Spec => CancelledWorkStaysGone
<1>1. IInv /\ [Next]_vars => [Gone]_vars
  BY RowStep DEF RowMoves, Gone
<1> QED
  BY <1>1, Inductive, PTL DEF Spec, CancelledWorkStaysGone

-----------------------------------------------------------------------------
(* Only the commit of the current lease holder makes a job's parts grow.   *)
THEOREM EffectsAreFenced == Spec => FencedEffects
<1>1. ASSUME IInv, Next PROVE Effect
  <2> SUFFICES ASSUME NEW j \in Job, NEW p \in vec'[j] \ vec[j]
               PROVE  /\ holder # None /\ pc[holder] = "commit" /\ cur[holder] = j
                      /\ state[j] = "running" /\ owner[j] = holder
                      /\ holder \notin aborted
    BY DEF Effect
  <2> TypeOK BY <1>1 DEF IInv
  <2>1. PICK w \in Worker : Commit(w)
    <3>1. ASSUME NEW k \in Job, Cancel(k) PROVE FALSE
      BY <3>1 DEF Cancel, TypeOK
    <3>2. vec' # vec
      OBVIOUS
    <3>3. ASSUME NEW w \in Worker, Pass(w) PROVE Commit(w) \/ UNCHANGED vec
      BY <3>3 DEF Pass, Resume, ClaimLease, Recover, Drain, ClaimJob, StopPass, EndPass, Work,
                  Finish, Fail, FinishClose
    <3>4. ASSUME NEW w \in Worker, Heartbeat(w) \/ Close(w) \/ Spawn(w) \/ Die(w)
          PROVE  UNCHANGED vec
      BY <3>4 DEF Heartbeat, Close, Spawn, Die
    <3>5. ASSUME NEW k \in Job, Enqueue(k) \/ BackoffEnds(k) PROVE UNCHANGED vec
      BY <3>5 DEF Enqueue, BackoffEnds
    <3>6. ASSUME InstallAssets PROVE UNCHANGED vec
      BY <3>6 DEF InstallAssets
    <3> QED
      BY <1>1, <3>1, <3>2, <3>3, <3>4, <3>5, <3>6 DEF Next
  <2>2. /\ Fenced(w) /\ w \notin aborted /\ Mine(w) /\ At(w, "commit")
        /\ vec' = [vec EXCEPT ![cur[w]] = @ \cup took[w]]
    BY <2>1 DEF Commit
  <2>3. cur[w] = j
    BY <2>2 DEF TypeOK
  <2> QED
    BY <2>2, <2>3, WorkerAssumption DEF Fenced, Mine, At
<1>2. IInv /\ [Next]_vars => [Effect]_vars
  BY <1>1
<1> QED
  BY <1>2, Inductive, PTL DEF Spec, FencedEffects

-----------------------------------------------------------------------------
(* A live owner loses the lease only by its own close(), or to a process   *)
(* of its host which prints its start in another zone: when the zones are  *)
(* the same ps prints what the owner recorded, and an owner that recorded  *)
(* no start is kept as long as its pid is in use.                          *)
THEOREM LiveOwnerKeeps == Spec => LiveOwnerYieldsOnlyAcrossZones
<1>1. ASSUME TypeOK, Next PROVE LeaseMove
  <2> SUFFICES ASSUME holder # None, holder' # holder, Alive(holder)
               PROVE  \/ holder' = None /\ holder \in stopped
                      \/ /\ holder' # None /\ Host[holder'] = Host[holder]
                         /\ holder \in KnownStart /\ Zone[holder'] # Zone[holder]
    BY DEF LeaseMove
  <2> holder \in Worker
    BY <1>1 DEF TypeOK
  <2>1. ASSUME NEW w \in Worker, ClaimLease(w)
        PROVE  /\ holder' # None /\ Host[holder'] = Host[holder]
               /\ holder \in KnownStart /\ Zone[holder'] # Zone[holder]
    <3>1. MayReplace(w, holder) /\ holder' = w /\ w # None
      BY <2>1, WorkerAssumption DEF ClaimLease
    <3>2. holder \in PidUsers(holder)
      BY DEF PidUsers
    <3>3. holder \in KnownStart
      BY <3>1, <3>2 DEF MayReplace
    <3>4. StartAs(holder, w) # StartAs(holder, holder)
      BY <3>1, <3>2, <3>3 DEF MayReplace
    <3> QED
      BY <3>1, <3>3, <3>4 DEF MayReplace, StartAs
  <2>2. ASSUME NEW w \in Worker, FinishClose(w) PROVE holder' = None /\ holder \in stopped
    BY <2>2 DEF FinishClose, Fenced
  <2> QED
    BY <1>1, <2>1, <2>2 DEF Next, Pass, Spawn, Die, Resume, Recover, Drain, ClaimJob,
       StopPass, EndPass, Work, Commit, Finish, Fail, Heartbeat, Close, Enqueue, Cancel,
       BackoffEnds, InstallAssets, leaseVars
<1>2. TypeOK /\ [Next]_vars => [LeaseMove]_vars
  BY <1>1
<1> QED
  BY <1>2, TypeCorrect, PTL DEF Spec, LiveOwnerYieldsOnlyAcrossZones

-----------------------------------------------------------------------------
(* When recoverJobs() itself never fails, a running job always has an      *)
(* owner: the current one, or one that the current owner is to recover     *)
(* from, or will be once the dead one is replaced.                         *)
THEOREM RunningOwned ==
  ASSUME "recover" \notin FaultAt
  PROVE  Spec => []RunningHasOwner
<1>0. "recover" \notin FaultAt
  OBVIOUS
<1>1. Init => RunningHasOwner
  BY DEF Init, RunningHasOwner
<1>2. ASSUME IInv, TypeOK', RunningHasOwner, [Next]_vars PROVE RunningHasOwner'
  <2> TypeOK /\ HolderFenced BY <1>2 DEF IInv
  <2> USE WorkerAssumption
  <2>f. ASSUME UNCHANGED <<life, pc, leaseVars>>,
               \A j \in Job : state'[j] = "running" => state[j] = "running" /\ owner'[j] = owner[j]
        PROVE  RunningHasOwner'
    BY <1>2, <2>f DEF RunningHasOwner, Alive, leaseVars
  <2>g. ASSUME NEW w \in Worker, NEW l \in Labels, pc[w] # "recover", Goto(w, l),
               UNCHANGED <<life, leaseVars>>,
               \A j \in Job : state'[j] = "running" => state[j] = "running" /\ owner'[j] = owner[j]
        PROVE  RunningHasOwner'
    BY <1>2, <2>g DEF RunningHasOwner, Alive, leaseVars, Goto, TypeOK
  <2>r. ASSUME NEW w \in Worker, NEW to, FinishRow(w, to), cur[w] \in Job, to # "running",
               NEW j \in Job, state'[j] = "running"
        PROVE  state[j] = "running" /\ owner'[j] = owner[j]
    BY <2>r DEF FinishRow, jobVars, TypeOK
  <2>q. ASSUME NEW J \in SUBSET Job, NEW to \in {"pending", "retry"}, Requeue(J, to),
               NEW j \in Job, state'[j] = "running"
        PROVE  j \notin J /\ state[j] = "running" /\ owner'[j] = owner[j]
    BY <2>q DEF Requeue
  <2>1. ASSUME NEW w \in Worker, Spawn(w) PROVE RunningHasOwner'
    BY <1>2, <2>1 DEF Spawn, RunningHasOwner, Alive, HolderFenced, leaseVars, jobVars, TypeOK
  <2>2. ASSUME NEW w \in Worker, Die(w) PROVE RunningHasOwner'
    BY <1>2, <2>2 DEF Die, RunningHasOwner, Alive, leaseVars, jobVars, TypeOK
  <2>3. ASSUME NEW w \in Worker, Resume(w) PROVE RunningHasOwner'
    BY <2>3, <2>g DEF Resume, At, jobVars, Labels
  <2>4. ASSUME NEW w \in Worker, ClaimLease(w) PROVE RunningHasOwner'
    BY <1>2, <2>4 DEF ClaimLease, RunningHasOwner, Goto, TypeOK
  <2>5. ASSUME NEW w \in Worker, Recover(w) PROVE RunningHasOwner'
    <3>1. CASE Requeue(Interrupted(w), "retry") /\ Fenced(w)
      <4> DEFINE J == Interrupted(w)
      <4>1. J \in SUBSET Job /\ \A j \in Job : j \notin J /\ state[j] = "running" => owner[j] = w
        BY DEF Interrupted
      <4>2. Requeue(J, "retry")
        BY <3>1
      <4> HIDE DEF J
      <4>3. \A j \in Job : state'[j] = "running" => owner'[j] = w
        BY <2>q, <4>1, <4>2
      <4>4. holder' = w
        BY <2>5, <3>1 DEF Recover, Fenced, leaseVars
      <4> QED BY <4>3, <4>4 DEF RunningHasOwner
    <3>2. CASE ~Fenced(w) /\ UNCHANGED jobVars /\ Goto(w, "idle")
      <4>1. holder # w
        BY <2>5, <3>2 DEF Recover, At, Fenced, HolderFenced
      <4> QED BY <1>2, <2>5, <3>2, <4>1 DEF Recover, RunningHasOwner, Alive, Goto, leaseVars, jobVars, TypeOK
    <3> HIDE DEF Goto
    <3> QED BY <1>0, <2>5, <3>1, <3>2 DEF Recover, Throws
  <2>6. ASSUME NEW w \in Worker, Drain(w) PROVE RunningHasOwner'
    <3> DEFINE J == {j \in Job : assets /\ state[j] = "blocked"}
    <3>1. Requeue(J, "pending") /\ J \in SUBSET Job /\ Goto(w, "next") /\ pc[w] # "recover"
          /\ UNCHANGED <<life, leaseVars>>
      BY <2>6 DEF Drain, At
    <3> HIDE DEF J
    <3> QED BY <3>1, <2>q, <2>g DEF Labels
  <2>7. ASSUME NEW w \in Worker, ClaimJob(w) PROVE RunningHasOwner'
    <3>1. PICK i \in DOMAIN queue :
               /\ state' = [state EXCEPT ![queue[i]] = "running"]
               /\ owner' = [owner EXCEPT ![queue[i]] = w]
      BY <2>7 DEF ClaimJob
    <3>2. holder = w /\ holder' = w /\ pc[w] = "next" /\ Alive(w)
      BY <2>7 DEF ClaimJob, At, Fenced, leaseVars
    <3>3. \A j \in Job : state[j] = "running" => owner[j] = w
      BY <1>2, <3>2 DEF RunningHasOwner
    <3>4. \A j \in Job : state'[j] = "running" => owner'[j] = w
      BY <3>1, <3>3 DEF TypeOK
    <3> QED BY <3>2, <3>4 DEF RunningHasOwner
  <2>8. ASSUME NEW w \in Worker, StopPass(w) PROVE RunningHasOwner'
    BY <2>8, <2>g DEF StopPass, EndPass, At, jobVars, Labels
  <2>9. ASSUME NEW w \in Worker, Work(w) PROVE RunningHasOwner'
    <3>1. \E l \in Labels : Goto(w, l)
      BY <2>9 DEF Work, Decide, Labels
    <3> QED BY <2>9, <3>1, <2>g DEF Work, At, jobVars
  <2>10. ASSUME NEW w \in Worker, Commit(w) PROVE RunningHasOwner'
    <3>1. \E l \in Labels : Goto(w, l)
      BY <2>10 DEF Commit, Decide, Labels
    <3> QED BY <2>10, <3>1, <2>g DEF Commit, At, jobVars
  <2>11. ASSUME NEW w \in Worker, Finish(w) PROVE RunningHasOwner'
    <3>1. \E l \in Labels : Goto(w, l)
      BY <2>11 DEF Finish, Decide, Labels
    <3>2. /\ pc[w] # "recover" /\ UNCHANGED <<life, leaseVars>>
          /\ FinishRow(w, outcome[w]) \/ UNCHANGED jobVars
      BY <2>11 DEF Finish, At
    <3>3. cur[w] \in Job /\ outcome[w] # "running"
      BY <1>2, <2>11 DEF Finish, At, IInv, PassInv, HasJob, TypeOK
    <3>4. \A j \in Job : state'[j] = "running" => state[j] = "running" /\ owner'[j] = owner[j]
      BY <3>2, <3>3, <2>r DEF jobVars
    <3> QED BY <3>1, <3>2, <3>4, <2>g
  <2>12. ASSUME NEW w \in Worker, Fail(w) PROVE RunningHasOwner'
    <3> DEFINE to == IF w \in aborted THEN "retry" ELSE outcome[w]
    <3>1. \E l \in Labels : Goto(w, l)
      BY <2>12 DEF Fail, Labels
    <3>2. /\ pc[w] # "recover" /\ UNCHANGED <<life, leaseVars>>
          /\ FinishRow(w, to) \/ UNCHANGED jobVars
      BY <2>12 DEF Fail, At
    <3>3. cur[w] \in Job /\ to # "running"
      BY <1>2, <2>12 DEF Fail, At, IInv, PassInv, HasJob, TypeOK
    <3> HIDE DEF to
    <3>4. \A j \in Job : state'[j] = "running" => state[j] = "running" /\ owner'[j] = owner[j]
      BY <3>2, <3>3, <2>r DEF jobVars
    <3> QED BY <3>1, <3>2, <3>4, <2>g
  <2>13. ASSUME NEW w \in Worker, FinishClose(w) PROVE RunningHasOwner'
    <3>1. pc[w] = "idle" /\ Alive(w) /\ Goto(w, "closed") /\ UNCHANGED <<life, gen>>
      BY <2>13 DEF FinishClose, At
    <3>2. CASE Fenced(w) /\ Requeue(Own(w), "retry")
      <4> DEFINE J == Own(w)
      <4>1. J \in SUBSET Job /\ \A j \in Job : j \notin J /\ state[j] = "running" => owner[j] # w
        BY DEF Own
      <4>2. Requeue(J, "retry")
        BY <3>2
      <4> HIDE DEF J
      <4>3. \A j \in Job : state[j] = "running" => owner[j] = w
        BY <1>2, <3>1, <3>2 DEF RunningHasOwner, Fenced
      <4>4. \A j \in Job : state'[j] # "running"
        BY <2>q, <4>1, <4>2, <4>3
      <4> QED BY <4>4 DEF RunningHasOwner
    <3>3. CASE UNCHANGED <<jobVars, holder>>
      BY <3>1, <3>3, <2>g DEF jobVars, leaseVars, Labels
    <3> HIDE DEF Goto
    <3> QED BY <2>13, <3>2, <3>3 DEF FinishClose
  <2>14. ASSUME NEW w \in Worker, Heartbeat(w) PROVE RunningHasOwner'
    BY <2>14, <2>f DEF Heartbeat, jobVars
  <2>15. ASSUME NEW w \in Worker, Close(w) PROVE RunningHasOwner'
    BY <2>15, <2>f DEF Close, jobVars
  <2>16. ASSUME NEW j \in Job, Enqueue(j) PROVE RunningHasOwner'
    BY <2>16, <2>f DEF Enqueue, TypeOK
  <2>17. ASSUME NEW j \in Job, BackoffEnds(j) PROVE RunningHasOwner'
    BY <2>17, <2>f DEF BackoffEnds
  <2>18. ASSUME NEW j \in Job, Cancel(j) PROVE RunningHasOwner'
    BY <2>18, <2>f DEF Cancel, TypeOK
  <2>19. CASE InstallAssets
    BY <2>19, <2>f DEF InstallAssets, jobVars
  <2>20. CASE UNCHANGED vars
    BY <2>20, <2>f DEF vars, jobVars
  <2> QED
    BY <1>2, <2>1, <2>2, <2>3, <2>4, <2>5, <2>6, <2>7, <2>8, <2>9, <2>10,
       <2>11, <2>12, <2>13, <2>14, <2>15, <2>16, <2>17, <2>18, <2>19, <2>20 DEF Next, Pass
<1>3. IInv /\ IInv' /\ RunningHasOwner /\ [Next]_vars => RunningHasOwner'
  BY <1>2 DEF IInv
<1> QED
  BY <1>1, <1>3, Inductive, PTL DEF Spec

=============================================================================
