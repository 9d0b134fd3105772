--------------------------- MODULE AuditRun_proofs ---------------------------
(***************************************************************************)
(* AuditRun for any number of files, threads and crashes.                  *)
(***************************************************************************)
EXTENDS AuditRun, SequenceTheorems, TLAPS

-----------------------------------------------------------------------------
(* What is true between two steps.                                         *)

Queued(f)    == \E i \in DOMAIN unread : unread[i] = f
BeingRead(f) == \E t \in Thread : reading[t] = f

(* While a scan goes on, each file is in the queue once, or with one       *)
(* thread, or counted, and never two of these.                             *)
EachFileOnePlace ==
  /\ \A i, j \in DOMAIN unread : unread[i] = unread[j] => i = j
  /\ \A s, t \in Thread : reading[s] = reading[t] /\ reading[s] # 0 => s = t
  /\ \A f \in HistoryFile :
       /\ ~(Queued(f) /\ BeingRead(f))
       /\ reported[f] = IF Queued(f) \/ BeingRead(f) THEN 0 ELSE 1

AllCounted == \A f \in HistoryFile : reported[f] = 1

(* A session that has not begun has touched nothing.                       *)
Untouched ==
  sessPc = "off" => /\ pool = {} /\ posted = {} /\ fallen = {} /\ scanDone = {} /\ sessErr = {}
                    /\ \A f \in HistoryFile : reported[f] = 0

(* A scan that ended uncancelled counted every file; what follows it, and  *)
(* what tells the caller of it, only comes after.                          *)
ScanCounts ==
  /\ sessPc # "off" /\ scanDone = {} => EachFileOnePlace
  /\ \A f \in HistoryFile : reported[f] \in {0, 1}
  /\ scanDone # {} /\ ~Aborted => AllCounted
EndFollowsScan ==
  /\ sessPc = "scan" => sessErr = {}
  /\ sessPc \in {"models", "close", "over"} /\ sessErr = {} => scanDone # {}
  /\ sessPc = "models" => scanDone # {} /\ AllCounted
  /\ runPc = "answered" => scanDone # {} /\ AllCounted
  /\ \A i \in DOMAIN toRenderer : toRenderer[i] = "result" => scanDone # {} /\ AllCounted

(* The one request: made before the session begins, under way at most once.*)
AskedOnce ==
  /\ host = "here" => toChild = <<>> /\ toRenderer = <<>> /\ child = "none"
  /\ host = "here" => (runPc = "pending" <=> sessPc \in {"scan", "models", "close"})
  /\ host = "here" /\ runPc = "idle" => sessPc = "off"
  /\ host = "child" /\ runPc \in {"idle", "starting"} =>
       sessPc = "off" /\ \A i \in DOMAIN toChild : toChild[i] # "run"
  /\ \A i \in DOMAIN toChild : toChild[i] = "run" => sessPc = "off"
  /\ \A i, j \in DOMAIN toChild : toChild[i] = "run" /\ toChild[j] = "run" => i = j

AuditInv == AuditTypeOK /\ Untouched /\ ScanCounts /\ EndFollowsScan /\ AskedOnce

-----------------------------------------------------------------------------
(* Sequences, and what the flags and the counts do.                        *)

(* Appending keeps what was there; taking the head shifts the rest.        *)
LEMMA Queues ==
  ASSUME NEW S, NEW s \in Seq(S)
  PROVE  /\ \A x \in S :
              /\ Append(s, x) \in Seq(S)
              /\ \A i \in DOMAIN Append(s, x) :
                   \/ i \in DOMAIN s /\ Append(s, x)[i] = s[i]
                   \/ i = Len(s) + 1 /\ i \notin DOMAIN s /\ Append(s, x)[i] = x
         /\ s # <<>> =>
              /\ Tail(s) \in Seq(S) /\ Head(s) \in S
              /\ 1 \in DOMAIN s /\ Head(s) = s[1]
              /\ \A i \in DOMAIN Tail(s) : i + 1 \in DOMAIN s /\ i + 1 # 1 /\ Tail(s)[i] = s[i + 1]
              /\ \A i \in DOMAIN s : i # 1 => i - 1 \in DOMAIN Tail(s) /\ Tail(s)[i - 1] = s[i]
              /\ \A i, j \in DOMAIN Tail(s) : i + 1 = j + 1 => i = j
<1>1. DOMAIN s = 1 .. Len(s) /\ Len(s) \in Nat
  OBVIOUS
<1>2. ASSUME NEW x \in S
      PROVE  /\ Append(s, x) \in Seq(S)
             /\ \A i \in DOMAIN Append(s, x) :
                  \/ i \in DOMAIN s /\ Append(s, x)[i] = s[i]
                  \/ i = Len(s) + 1 /\ i \notin DOMAIN s /\ Append(s, x)[i] = x
  BY <1>1
<1>3. ASSUME s # <<>>
      PROVE  /\ Tail(s) \in Seq(S) /\ Head(s) \in S
             /\ 1 \in DOMAIN s /\ Head(s) = s[1]
             /\ \A i \in DOMAIN Tail(s) : i + 1 \in DOMAIN s /\ i + 1 # 1 /\ Tail(s)[i] = s[i + 1]
             /\ \A i \in DOMAIN s : i # 1 => i - 1 \in DOMAIN Tail(s) /\ Tail(s)[i - 1] = s[i]
             /\ \A i, j \in DOMAIN Tail(s) : i + 1 = j + 1 => i = j
  BY <1>1, <1>3
<1> QED
  BY <1>2, <1>3

(* Counting a set of files, while the scan goes on.                        *)
LEMMA Counting ==
  ASSUME reported \in [HistoryFile -> Nat], NEW fs
  PROVE  /\ Count(fs) => \A f \in HistoryFile : reported'[f] = reported[f] + (IF f \in fs THEN 1 ELSE 0)
         /\ Count(fs) => reported' \in [HistoryFile -> Nat]
         /\ Count({}) => reported' = reported
BY DEF Count

(* The first files go to the threads, the others to the queue.             *)
LEMMA Begin ==
  ASSUME reported \in [HistoryFile -> Nat], BeginScan
  PROVE  /\ unread' \in Seq(HistoryFile) /\ pool' \in SUBSET Thread
         /\ reading' \in [Thread -> HistoryFile \cup {0}] /\ reported' \in [HistoryFile -> Nat]
         /\ UNCHANGED <<posted, fallen>>
         /\ sessPc' \in {"scan", "close"} /\ (sessPc' = "scan" => sessErr' = sessErr)
         /\ sessPc' = "close" => sessErr' # {}
         /\ (\A f \in HistoryFile : reported[f] = 0) =>
              EachFileOnePlace' /\ (scanDone' # {} => AllCounted')
<1>1. PICK n \in 0 .. Files :
        LET busy == {t \in Thread : t <= n} IN
        /\ unread' = [i \in 1 .. (IF n > Threads THEN n - Threads ELSE 0) |-> i + Threads]
        /\ pool' = busy
        /\ reading' = [t \in Thread |-> IF t \in busy THEN t ELSE 0]
        /\ (n = 0) = (scanDone' # {})
        /\ Count((n + 1) .. Files)
        /\ (sessPc' = "scan" /\ UNCHANGED sessErr) \/ (sessPc' = "close" /\ sessErr' # {})
        /\ UNCHANGED <<posted, fallen>>
  BY Zenon DEF BeginScan
<1>2. n \in Nat /\ n <= Files /\ Files \in Nat /\ Threads \in Nat /\ Threads > 0
  BY AuditAssumption
<1>3. /\ pool' \in SUBSET Thread
      /\ reading' \in [Thread -> HistoryFile \cup {0}]
      /\ \A t \in Thread : reading'[t] = IF t <= n THEN t ELSE 0
  BY <1>1, <1>2 DEF Thread, HistoryFile
<1>4. /\ unread' \in Seq(HistoryFile)
      /\ \A i \in DOMAIN unread' : i \in Nat /\ i > 0 /\ unread'[i] = i + Threads /\ i + Threads <= n
      /\ \A f \in HistoryFile : f > Threads /\ f <= n =>
           f - Threads \in DOMAIN unread' /\ unread'[f - Threads] = f
  <2> DEFINE len == IF n > Threads THEN n - Threads ELSE 0
  <2>1. len \in Nat /\ \A i \in 1 .. len : i + Threads \in HistoryFile /\ i + Threads <= n
    BY <1>2 DEF HistoryFile
  <2>2. unread' = [i \in 1 .. len |-> i + Threads]
    BY <1>1
  <2> HIDE DEF len
  <2>3. unread' \in Seq(HistoryFile) /\ DOMAIN unread' = 1 .. len
        /\ \A i \in 1 .. len : unread'[i] = i + Threads
    BY <2>1, <2>2
  <2>4. \A f \in HistoryFile : f > Threads /\ f <= n => f - Threads \in 1 .. len
    BY <1>2 DEF HistoryFile, len
  <2>5. \A i \in 1 .. len : i \in Nat /\ i > 0
    BY <2>1
  <2>6. \A f \in HistoryFile : f > Threads /\ f <= n => (f - Threads) + Threads = f
    BY <1>2 DEF HistoryFile
  <2> QED
    BY <2>1, <2>3, <2>4, <2>5, <2>6
<1>5. /\ reported' \in [HistoryFile -> Nat]
      /\ \A f \in HistoryFile : reported'[f] = reported[f] + (IF f > n THEN 1 ELSE 0)
  <2>1. Count((n + 1) .. Files)
    BY <1>1
  <2>2. \A f \in HistoryFile : f \in (n + 1) .. Files <=> f > n
    BY <1>2 DEF HistoryFile
  <2>3. /\ reported' \in [HistoryFile -> Nat]
        /\ \A f \in HistoryFile :
             reported'[f] = reported[f] + (IF f \in (n + 1) .. Files THEN 1 ELSE 0)
    BY <2>1, Counting, Zenon
  <2> QED
    BY <2>2, <2>3
<1>6. /\ UNCHANGED <<posted, fallen>> /\ sessPc' \in {"scan", "close"}
      /\ sessPc' = "scan" => sessErr' = sessErr
      /\ sessPc' = "close" => sessErr' # {}
  BY <1>1
<1>7. ASSUME \A f \in HistoryFile : reported[f] = 0
      PROVE  EachFileOnePlace' /\ (scanDone' # {} => AllCounted')
  <2>1. \A f \in HistoryFile : reported'[f] = IF f > n THEN 1 ELSE 0
    BY <1>5, <1>7
  <2>2. \A i, j \in DOMAIN unread' : unread'[i] = unread'[j] => i = j
    BY <1>2, <1>4
  <2>3. \A r, t \in Thread : reading'[r] = reading'[t] /\ reading'[r] # 0 => r = t
    BY <1>3
  <2>4. ASSUME NEW f \in HistoryFile
        PROVE  /\ Queued(f)' <=> f > Threads /\ f <= n
               /\ BeingRead(f)' <=> f <= Threads /\ f <= n
    <3>1. Queued(f)' <=> f > Threads /\ f <= n
      <4>1. ASSUME NEW i \in DOMAIN unread', unread'[i] = f PROVE f > Threads /\ f <= n
        BY <1>2, <1>4, <4>1
      <4>2. ASSUME f > Threads, f <= n PROVE \E i \in DOMAIN unread' : unread'[i] = f
        BY <1>4, <4>2
      <4> QED
        BY <4>1, <4>2 DEF Queued
    <3>2. BeingRead(f)' <=> f <= Threads /\ f <= n
      BY <1>2, <1>3 DEF BeingRead, HistoryFile, Thread
    <3> QED
      BY <3>1, <3>2
  <2>5. ASSUME NEW f \in HistoryFile
        PROVE  /\ ~(Queued(f)' /\ BeingRead(f)')
               /\ reported'[f] = IF Queued(f)' \/ BeingRead(f)' THEN 0 ELSE 1
    BY <1>2, <2>1, <2>4 DEF HistoryFile
  <2>6. EachFileOnePlace'
    BY <2>2, <2>3, <2>5 DEF EachFileOnePlace
  <2>7. scanDone' # {} => AllCounted'
    BY <1>1, <2>1 DEF AllCounted, HistoryFile
  <2> QED
    BY <2>6, <2>7
<1> QED
  BY <1>3, <1>4, <1>5, <1>6, <1>7

(* What is neither queued nor read was counted.                            *)
LEMMA NothingLeft ==
  ASSUME EachFileOnePlace', unread' = <<>>, NoneActive(reading') PROVE AllCounted'
<1>1. \A f \in HistoryFile : ~Queued(f)'
  BY DEF Queued
<1>2. \A f \in HistoryFile : f # 0
  BY AuditAssumption DEF HistoryFile
<1>3. \A f \in HistoryFile : ~BeingRead(f)'
  BY <1>2 DEF BeingRead, NoneActive
<1> QED
  BY <1>1, <1>3 DEF EachFileOnePlace, AllCounted

(* An answer counts its file and takes the next from the queue; an error   *)
(* counts its file, and all of the queue when no thread is left: each file *)
(* is still in one place, and the scan ends with none to count.            *)
LEMMA ThreadStep ==
  ASSUME AuditTypeOK, scanDone = {} => EachFileOnePlace,
         NEW t \in Thread, ThreadAnswers(t) \/ ThreadFails(t)
  PROVE  /\ unread' \in Seq(HistoryFile) /\ pool' \in SUBSET Thread
         /\ reading' \in [Thread -> HistoryFile \cup {0}] /\ reported' \in [HistoryFile -> Nat]
         /\ scanDone # {} => scanDone' # {} /\ reported' = reported
         /\ scanDone = {} => EachFileOnePlace' /\ (scanDone' # {} => AllCounted')
<1>t. /\ unread \in Seq(HistoryFile) /\ pool \in SUBSET Thread
      /\ reading \in [Thread -> HistoryFile \cup {0}] /\ reported \in [HistoryFile -> Nat]
  BY DEF AuditTypeOK
<1>0. \A f \in HistoryFile : f # 0
  BY AuditAssumption DEF HistoryFile
<1> DEFINE Other(f) == \E s \in Thread \ {t} : reading[s] = f
<1>1. \A f \in HistoryFile : BeingRead(f) <=> Other(f) \/ reading[t] = f
  BY DEF BeingRead
<1>2. scanDone = {} =>
        /\ \A f \in HistoryFile : ~(Other(f) /\ reading[t] = f)
        /\ \A r, s \in Thread \ {t} : reading[r] = reading[s] /\ reading[r] # 0 => r = s
  BY <1>0 DEF EachFileOnePlace
<1>3. ASSUME NEW reads PROVE Finished(reads) => scanDone' = scanDone \/ (scanDone' # {} /\ NoneActive(reads))
  BY Zenon DEF Finished
<1>4. CASE ThreadAnswers(t)
  <2>1. /\ Report({reading[t]}) /\ pool' = pool
        /\ \/ /\ scanDone = {} /\ unread # <<>> /\ scanDone' = scanDone
              /\ reading' = [reading EXCEPT ![t] = Head(unread)] /\ unread' = Tail(unread)
           \/ /\ ~(scanDone = {} /\ unread # <<>>) /\ Finished(reading')
              /\ reading' = [reading EXCEPT ![t] = 0] /\ unread' = unread
    BY <1>4 DEF ThreadAnswers
  <2>2. /\ reported' \in [HistoryFile -> Nat]
        /\ scanDone = {} => \A f \in HistoryFile :
                              reported'[f] = reported[f] + (IF f = reading[t] THEN 1 ELSE 0)
        /\ scanDone # {} => reported' = reported
    <3>1. CASE scanDone = {}
      <4>1. Count({reading[t]})
        BY <2>1, <3>1 DEF Report
      <4>2. /\ reported' \in [HistoryFile -> Nat]
            /\ \A f \in HistoryFile :
                 reported'[f] = reported[f] + (IF f \in {reading[t]} THEN 1 ELSE 0)
        BY <1>t, <4>1, Counting, ZenonT(40)
      <4> QED
        BY <3>1, <4>2
    <3>2. CASE scanDone # {}
      BY <1>t, <2>1, <3>2, Counting DEF Report
    <3> QED
      BY <3>1, <3>2
  <2>3. CASE scanDone = {} /\ unread # <<>>
    <3> DEFINE h == Head(unread)
    <3>1. /\ unread' \in Seq(HistoryFile) /\ h \in HistoryFile /\ 1 \in DOMAIN unread /\ h = unread[1]
          /\ \A i \in DOMAIN unread' : i + 1 \in DOMAIN unread /\ i + 1 # 1 /\ unread'[i] = unread[i + 1]
          /\ \A i \in DOMAIN unread : i # 1 => i - 1 \in DOMAIN unread' /\ unread'[i - 1] = unread[i]
          /\ \A i, j \in DOMAIN unread' : i + 1 = j + 1 => i = j
      <4>1. unread' = Tail(unread)
        BY <2>1, <2>3
      <4> QED
        BY <1>t, <2>3, <4>1, Queues, Zenon
    <3>2. /\ reading' \in [Thread -> HistoryFile \cup {0}] /\ reading'[t] = h
          /\ \A s \in Thread \ {t} : reading'[s] = reading[s]
      BY <1>t, <2>1, <2>3, <3>1
    <3>3. ASSUME NEW f \in HistoryFile
          PROVE  /\ Queued(f)' <=> Queued(f) /\ f # h
                 /\ BeingRead(f)' <=> Other(f) \/ f = h
                 /\ Queued(h) /\ ~BeingRead(h)
      <4>1. Queued(f)' => Queued(f) /\ f # h
        BY <2>3, <3>1 DEF Queued, EachFileOnePlace
      <4>2. Queued(f) /\ f # h => Queued(f)'
        BY <3>1 DEF Queued
      <4>3. BeingRead(f)' <=> Other(f) \/ f = h
        BY <3>2 DEF BeingRead
      <4>4. Queued(h) /\ ~BeingRead(h)
        BY <2>3, <3>1 DEF Queued, EachFileOnePlace
      <4> QED
        BY <4>1, <4>2, <4>3, <4>4
    <3>4. \A i, j \in DOMAIN unread' : unread'[i] = unread'[j] => i = j
      BY <2>3, <3>1 DEF EachFileOnePlace
    <3>5. \A r, s \in Thread : reading'[r] = reading'[s] /\ reading'[r] # 0 => r = s
      <4>1. ~Other(h)
        BY <1>1, <3>1, <3>3
      <4> QED
        BY <1>2, <2>3, <3>2, <4>1
    <3>6. ASSUME NEW f \in HistoryFile
          PROVE  /\ ~(Queued(f)' /\ BeingRead(f)')
                 /\ reported'[f] = IF Queued(f)' \/ BeingRead(f)' THEN 0 ELSE 1
      <4>1. ~(Queued(f) /\ BeingRead(f)) /\ reported[f] = IF Queued(f) \/ BeingRead(f) THEN 0 ELSE 1
        BY <2>3 DEF EachFileOnePlace
      <4>2. reported'[f] = reported[f] + (IF f = reading[t] THEN 1 ELSE 0)
        BY <2>2, <2>3
      <4>3. ~(Other(f) /\ reading[t] = f) /\ (BeingRead(f) <=> Other(f) \/ reading[t] = f)
        BY <1>1, <1>2, <2>3
      <4> HIDE DEF Other, h
      <4> QED
        BY <3>3, <4>1, <4>2, <4>3
    <3>7. EachFileOnePlace'
      BY <3>4, <3>5, <3>6 DEF EachFileOnePlace
    <3> QED
      BY <1>t, <2>1, <2>2, <2>3, <3>1, <3>2, <3>7
  <2>4. CASE ~(scanDone = {} /\ unread # <<>>)
    <3>1. /\ reading' \in [Thread -> HistoryFile \cup {0}] /\ reading'[t] = 0
          /\ \A s \in Thread \ {t} : reading'[s] = reading[s]
          /\ unread' = unread /\ Finished(reading')
      BY <1>t, <2>1, <2>4
    <3>2. ASSUME scanDone = {} PROVE EachFileOnePlace' /\ (scanDone' # {} => AllCounted')
      <4>1. \A f \in HistoryFile : ~Queued(f)' /\ ~Queued(f) /\ (BeingRead(f)' <=> Other(f))
        BY <1>0, <2>4, <3>1, <3>2 DEF Queued, BeingRead
      <4>2. ASSUME NEW f \in HistoryFile PROVE reported'[f] = IF Other(f) THEN 0 ELSE 1
        <5>1. reported[f] = IF BeingRead(f) THEN 0 ELSE 1
          BY <3>2, <4>1 DEF EachFileOnePlace
        <5>2. reported'[f] = reported[f] + (IF f = reading[t] THEN 1 ELSE 0)
          BY <2>2, <3>2
        <5>3. ~(Other(f) /\ reading[t] = f) /\ (BeingRead(f) <=> Other(f) \/ reading[t] = f)
          BY <1>1, <1>2, <3>2
        <5> HIDE DEF Other
        <5> QED
          BY <5>1, <5>2, <5>3
      <4>3. \A r, s \in Thread : reading'[r] = reading'[s] /\ reading'[r] # 0 => r = s
        BY <1>2, <3>1, <3>2
      <4>4. EachFileOnePlace'
        BY <2>4, <3>1, <3>2, <4>1, <4>2, <4>3 DEF EachFileOnePlace
      <4>5. scanDone' # {} => NoneActive(reading')
        BY <1>3, <3>1, <3>2
      <4> QED
        BY <2>4, <3>1, <3>2, <4>4, <4>5, NothingLeft
    <3>3. scanDone # {} => scanDone' # {}
      BY <1>3, <3>1
    <3> QED
      BY <1>t, <2>1, <2>2, <3>1, <3>2, <3>3
  <2> QED
    BY <2>3, <2>4
<1>5. CASE ThreadFails(t)
  <2> DEFINE whole == {unread[i] : i \in DOMAIN unread}
  <2>1. /\ pool' = pool \ {t} /\ reading' = [reading EXCEPT ![t] = 0]
        /\ Report({reading[t]} \cup NobodyReads(t))
        /\ unread' = IF NobodyReads(t) = {} THEN unread ELSE <<>>
        /\ (unread' = <<>> /\ Finished(reading')) \/ (unread' # <<>> /\ scanDone' = scanDone)
    BY <1>5 DEF ThreadFails
  <2>2. /\ reading' \in [Thread -> HistoryFile \cup {0}] /\ reading'[t] = 0
        /\ \A s \in Thread \ {t} : reading'[s] = reading[s]
        /\ pool' \in SUBSET Thread
    BY <1>t, <2>1
  <2>3. \/ unread' = unread /\ NobodyReads(t) = {}
        \/ unread' = <<>> /\ NobodyReads(t) = whole
    <3>1. NobodyReads(t) \in {{}, whole}
      BY DEF NobodyReads
    <3>2. NobodyReads(t) = {} => unread' = unread
      BY <2>1
    <3>3. NobodyReads(t) # {} => unread' = <<>>
      BY <2>1
    <3> HIDE DEF whole
    <3> QED
      BY <3>1, <3>2, <3>3
  <2>4. unread' \in Seq(HistoryFile)
    <3>1. <<>> \in Seq(HistoryFile)
      OBVIOUS
    <3> QED
      BY <1>t, <2>3, <3>1, Zenon
  <2>5. /\ reported' \in [HistoryFile -> Nat]
        /\ scanDone = {} => \A f \in HistoryFile :
             reported'[f] = reported[f] + (IF f = reading[t] \/ f \in NobodyReads(t) THEN 1 ELSE 0)
        /\ scanDone # {} => reported' = reported
    <3>1. CASE scanDone = {}
      <4>1. Count({reading[t]} \cup NobodyReads(t))
        BY <2>1, <3>1 DEF Report
      <4>2. /\ reported' \in [HistoryFile -> Nat]
            /\ \A f \in HistoryFile :
                 reported'[f] = reported[f] + (IF f \in {reading[t]} \cup NobodyReads(t) THEN 1 ELSE 0)
        BY <1>t, <4>1, Counting, ZenonT(40)
      <4> QED
        BY <3>1, <4>2
    <3>2. CASE scanDone # {}
      BY <1>t, <2>1, <3>2, Counting DEF Report
    <3> QED
      BY <3>1, <3>2
  <2>6. ASSUME scanDone = {} PROVE EachFileOnePlace' /\ (scanDone' # {} => AllCounted')
    <3>1. ASSUME NEW f \in HistoryFile
          PROVE  /\ BeingRead(f)' <=> Other(f)
                 /\ Queued(f)' <=> Queued(f) /\ f \notin NobodyReads(t)
                 /\ f \in NobodyReads(t) => Queued(f)
      <4>1. BeingRead(f)' <=> Other(f)
        BY <1>0, <2>2 DEF BeingRead
      <4>2. f \in whole <=> Queued(f)
        BY DEF Queued
      <4>3. CASE unread' = unread /\ NobodyReads(t) = {}
        BY <4>1, <4>3 DEF Queued
      <4>4. CASE unread' = <<>> /\ NobodyReads(t) = whole
        <5>1. ~Queued(f)'
          BY <4>4 DEF Queued
        <5> QED
          BY <4>1, <4>2, <4>4, <5>1
      <4> QED
        BY <2>3, <4>3, <4>4
    <3>2. ASSUME NEW f \in HistoryFile
          PROVE  /\ ~(Queued(f)' /\ BeingRead(f)')
                 /\ reported'[f] = IF Queued(f)' \/ BeingRead(f)' THEN 0 ELSE 1
      <4>1. ~(Queued(f) /\ BeingRead(f)) /\ reported[f] = IF Queued(f) \/ BeingRead(f) THEN 0 ELSE 1
        BY <2>6 DEF EachFileOnePlace
      <4>2. reported'[f] = reported[f] + (IF f = reading[t] \/ f \in NobodyReads(t) THEN 1 ELSE 0)
        BY <2>5, <2>6
      <4>3. ~(Other(f) /\ reading[t] = f) /\ (BeingRead(f) <=> Other(f) \/ reading[t] = f)
        BY <1>1, <1>2, <2>6
      <4> HIDE DEF Other
      <4> QED
        BY <3>1, <4>1, <4>2, <4>3
    <3>3. \A r, s \in Thread : reading'[r] = reading'[s] /\ reading'[r] # 0 => r = s
      BY <1>2, <2>2, <2>6
    <3>4. \A i, j \in DOMAIN unread' : unread'[i] = unread'[j] => i = j
      BY <2>3, <2>6 DEF EachFileOnePlace
    <3>5. EachFileOnePlace'
      BY <3>2, <3>3, <3>4 DEF EachFileOnePlace
    <3>6. scanDone' # {} => unread' = <<>> /\ NoneActive(reading')
      BY <1>3, <2>1, <2>6
    <3> QED
      BY <3>5, <3>6, NothingLeft
  <2>7. scanDone # {} => scanDone' # {}
    BY <1>3, <2>1
  <2> QED
    BY <2>2, <2>4, <2>5, <2>6, <2>7
<1> QED
  BY <1>4, <1>5

-----------------------------------------------------------------------------
(* The types, in parts.                                                    *)

FlagsOK == /\ stopped \in SUBSET {TRUE} /\ left \in SUBSET {TRUE}
           /\ sessErr \in SUBSET {TRUE} /\ scanDone \in SUBSET {TRUE}
PlacesOK == /\ host \in {"here", "child"}
            /\ runPc \in RunEnds \cup {"idle", "starting", "pending"}
            /\ child \in {"none", "up", "down", "reaped"}
            /\ notice \in {"none", "sent", "shown", "acked", "given"}
            /\ sessPc \in {"off", "scan", "models", "close", "over"}
            /\ crashes \in Nat
ChildMessage    == {"init", "run", "ack", "cancel"}
RendererMessage == {"ready", "transfer", "result", "error"}
MessagesOK == toChild \in Seq(ChildMessage) /\ toRenderer \in Seq(RendererMessage)
ScanOK == /\ unread \in Seq(HistoryFile)
          /\ pool \in SUBSET Thread /\ reading \in [Thread -> HistoryFile \cup {0}]
          /\ posted \in SUBSET Thread /\ fallen \in SUBSET Thread
          /\ reported \in [HistoryFile -> Nat]

(* The flags are only ever set, but for scan() that begins.                *)
LEMMA FlagStep == FlagsOK /\ [AuditNext]_auditVars => FlagsOK'
<1> SUFFICES ASSUME FlagsOK, [AuditNext]_auditVars PROVE FlagsOK'
  OBVIOUS
<1> USE DEF FlagsOK
<1>1. ASSUME NEW t \in Thread, ThreadReads(t) \/ ThreadAnswers(t) \/ ThreadFails(t) \/ ThreadCrashes(t)
      PROVE  FlagsOK'
  BY <1>1, Zenon DEF ThreadReads, ThreadAnswers, ThreadFails, ThreadCrashes, Finished, callerVars,
                     sessionVars, poolState
<1>2. CASE ScanReturns \/ AnnounceTransfer \/ ModelsEnd \/ SessionReturns
  BY <1>2, Zenon DEF ScanReturns, AnnounceTransfer, ModelsEnd, SessionReturns, callerVars,
                     sessionVars, poolState
<1>3. BeginScan => sessErr' \in SUBSET {TRUE} /\ scanDone' \in SUBSET {TRUE}
  BY Zenon DEF BeginScan
<1>4. CASE RendererReceives \/ Acknowledge \/ ExitNoticed \/ KillChild \/ ChildDisconnects
             \/ ChildCrashes
  BY <1>4, Zenon DEF RendererReceives, Acknowledge, ExitNoticed, KillChild, ChildDisconnects,
                     ChildCrashes, callerVars, sessionVars, poolState
<1>5. CASE ChildReceives \/ StartRun
  BY <1>3, <1>5, Zenon DEF ChildReceives, StartRun, callerVars, sessionVars, poolState
<1>6. CASE Cancel \/ RendererLeaves
  BY <1>6, Zenon DEF Cancel, RendererLeaves, ClosePool, callerVars, sessionVars, poolState
<1>7. CASE UNCHANGED auditVars
  BY <1>7, Zenon DEF auditVars, callerVars, sessionVars, poolState
<1> QED
  BY <1>1, <1>2, <1>4, <1>5, <1>6, <1>7, Zenon DEF AuditNext, AuditStep

(* What Cancel does, in the process and for a child.                       *)
LEMMA CancelDoes ==
  ASSUME Cancel
  PROVE  /\ stopped = {} /\ stopped' # {}
         /\ UNCHANGED <<host, left, child, toRenderer, notice, sessPc, sessErr, crashes>>
         /\ host = "here" => /\ runPc # "idle" /\ ClosePool /\ UNCHANGED <<runPc, toChild>>
                             /\ scanDone' = scanDone \/ (sessPc = "scan" /\ scanDone' # {})
         /\ host # "here" =>
              /\ UNCHANGED <<unread, pool, reading, posted, fallen, scanDone, reported>>
              /\ toChild' = Kept(toChild, "cancel")
              /\ runPc' = IF runPc \in {"starting", "pending"} THEN "cancelled" ELSE runPc
BY Zenon DEF Cancel, sessionVars, poolState

(* What ScanReturns does.                                                  *)
LEMMA ScanReturnsDoes ==
  ASSUME ScanReturns
  PROVE  /\ sessPc = "scan" /\ scanDone # {}
         /\ UNCHANGED <<callerVars, ipcVars, poolState, crashes>>
         /\ \/ sessPc' = "close" /\ (sessErr' = sessErr \/ sessErr' # {})
            \/ sessPc' = "models" /\ ~Aborted
BY Zenon DEF ScanReturns

(* Every step keeps the places typed ..                                    *)
LEMMA PlaceStep == AuditTypeOK /\ [AuditNext]_auditVars => PlacesOK'
<1> SUFFICES ASSUME AuditTypeOK, [AuditNext]_auditVars PROVE PlacesOK'
  OBVIOUS
<1>t. PlacesOK /\ reported \in [HistoryFile -> Nat]
  BY Zenon DEF AuditTypeOK, PlacesOK
<1> USE DEF PlacesOK, RunEnds
<1>1. ASSUME NEW t \in Thread, ThreadReads(t) \/ ThreadAnswers(t) \/ ThreadFails(t) \/ ThreadCrashes(t)
      PROVE  PlacesOK'
  <2>1. UNCHANGED <<host, runPc, child, notice, sessPc>> /\ (crashes' = crashes \/ crashes' = crashes + 1)
    BY <1>1 DEF ThreadReads, ThreadAnswers, ThreadFails, ThreadCrashes, callerVars, ipcVars, sessionVars
  <2> QED
    BY <1>t, <2>1
<1>2. CASE ScanReturns
  BY <1>2, <1>t, ScanReturnsDoes DEF callerVars, ipcVars
<1>3. CASE AnnounceTransfer \/ ModelsEnd \/ SessionReturns
  <2>1. /\ UNCHANGED <<host, child, crashes>> /\ runPc' \in {runPc, "failed", "cancelled", "answered"}
        /\ notice' \in {notice, "given", "sent"} /\ sessPc' \in {sessPc, "close", "over"}
    BY <1>3 DEF AnnounceTransfer, ModelsEnd, SessionReturns, callerVars, ipcVars, sessionVars
  <2> QED
    BY <1>t, <2>1
<1>4. CASE RendererReceives
  <2>1. runPc' \in {runPc, "pending", "answered", "failed"} /\ notice' \in {notice, "shown"}
        /\ UNCHANGED <<host, child, sessPc, crashes>>
    BY <1>4 DEF RendererReceives, sessionVars
  <2> QED
    BY <1>t, <2>1
<1>5. CASE Acknowledge \/ ExitNoticed \/ KillChild \/ ChildDisconnects \/ ChildCrashes
  BY <1>5, <1>t DEF Acknowledge, ExitNoticed, KillChild, ChildDisconnects, ChildCrashes, callerVars,
                    sessionVars
<1>6. CASE ChildReceives
  <2>1. /\ UNCHANGED <<host, runPc, crashes>> /\ child' \in {child, "down"} /\ notice' \in {notice, "given"}
        /\ sessPc' = sessPc \/ BeginScan
    BY <1>6 DEF ChildReceives, callerVars, sessionVars
  <2> QED
    BY <1>t, <2>1, Begin
<1>7. CASE StartRun
  <2>1. /\ UNCHANGED <<host, notice, crashes>> /\ runPc' \in {"pending", "cancelled", "starting"}
        /\ child' \in {child, "up"} /\ (sessPc' = sessPc \/ BeginScan)
    BY <1>7 DEF StartRun, sessionVars
  <2> QED
    BY <1>t, <2>1, Begin
<1>8. CASE Cancel
  <2>1. UNCHANGED <<host, child, notice, sessPc, crashes>> /\ runPc' \in {runPc, "cancelled"}
    BY <1>8, <1>t, CancelDoes DEF Cancel
  <2> QED
    BY <1>t, <2>1
<1>9. CASE RendererLeaves \/ UNCHANGED auditVars
  <2>1. UNCHANGED <<host, runPc, child, notice, sessPc, crashes>>
    BY <1>9, Zenon DEF RendererLeaves, auditVars, callerVars, ipcVars, sessionVars
  <2> QED
    BY <1>t, <2>1
<1> QED
  BY <1>1, <1>2, <1>3, <1>4, <1>5, <1>6, <1>7, <1>8, <1>9 DEF AuditNext, AuditStep

(* .. and the messages.                                                    *)
LEMMA MessageStep == AuditTypeOK /\ [AuditNext]_auditVars => MessagesOK'
<1> SUFFICES ASSUME AuditTypeOK, [AuditNext]_auditVars PROVE MessagesOK'
  OBVIOUS
<1>t. toChild \in Seq(ChildMessage) /\ toRenderer \in Seq(RendererMessage)
  BY DEF AuditTypeOK, ChildMessage, RendererMessage
<1> DEFINE Moves(s, q, M) == s = q \/ (q # <<>> /\ s = Tail(q)) \/ \E m \in M : s = Append(q, m)
<1>0. ASSUME NEW M, NEW q \in Seq(M), NEW s, Moves(s, q, M) PROVE s \in Seq(M)
  <2>1. CASE s = q
    BY <2>1
  <2>2. CASE q # <<>> /\ s = Tail(q)
    BY <2>2, Queues
  <2>3. CASE \E m \in M : s = Append(q, m)
    BY <2>3, Queues
  <2> QED
    BY <1>0, <2>1, <2>2, <2>3
<1>1. ASSUME Moves(toChild', toChild, ChildMessage) \/ toChild' = <<"init">>,
             Moves(toRenderer', toRenderer, RendererMessage)
      PROVE  MessagesOK'
  <2>1. toRenderer' \in Seq(RendererMessage)
    BY <1>t, <1>0, <1>1
  <2>2. CASE Moves(toChild', toChild, ChildMessage)
    <3>1. toChild' \in Seq(ChildMessage)
      BY <1>t, <1>0, <2>2
    <3> QED
      BY <2>1, <3>1 DEF MessagesOK
  <2>3. CASE toChild' = <<"init">>
    BY <2>1, <2>3 DEF MessagesOK, ChildMessage
  <2> QED
    BY <1>1, <2>2, <2>3
<1>2. ASSUME UNCHANGED <<toChild, toRenderer>> PROVE MessagesOK'
  BY <1>1, <1>2
<1> USE DEF ChildMessage, RendererMessage, Kept
<1>3. ASSUME NEW t \in Thread, ThreadReads(t) \/ ThreadAnswers(t) \/ ThreadFails(t) \/ ThreadCrashes(t)
      PROVE  MessagesOK'
  BY <1>2, <1>3 DEF ThreadReads, ThreadAnswers, ThreadFails, ThreadCrashes, ipcVars
<1>4. CASE ScanReturns \/ ModelsEnd \/ ExitNoticed \/ KillChild \/ ChildDisconnects \/ ChildCrashes
  BY <1>2, <1>4, ScanReturnsDoes DEF ModelsEnd, ExitNoticed, KillChild, ChildDisconnects, ChildCrashes,
                                     ipcVars
<1>5. CASE AnnounceTransfer \/ SessionReturns
  <2>1. toChild' = toChild /\ \E m \in RendererMessage : toRenderer' = toRenderer
                                                      \/ toRenderer' = Append(toRenderer, m)
    BY <1>5 DEF AnnounceTransfer, SessionReturns
  <2> QED
    BY <1>1, <2>1
<1>6. CASE RendererReceives
  <2>1. /\ toRenderer # <<>> /\ toRenderer' = Tail(toRenderer)
        /\ toChild' = toChild \/ toChild' = Append(toChild, "run")
    BY <1>6 DEF RendererReceives
  <2> QED
    BY <1>1, <2>1
<1>7. CASE Acknowledge \/ ChildReceives
  <2>1. /\ Moves(toChild', toChild, ChildMessage)
        /\ toRenderer' = toRenderer \/ toRenderer' = Append(toRenderer, "ready")
    BY <1>7 DEF Acknowledge, ChildReceives
  <2> QED
    BY <1>1, <2>1
<1>8. CASE StartRun
  BY <1>1, <1>8 DEF StartRun
<1>9. CASE Cancel
  <2>1. toRenderer' = toRenderer /\ (toChild' = toChild \/ toChild' = Append(toChild, "cancel"))
    BY <1>9, CancelDoes
  <2> QED
    BY <1>1, <2>1
<1>10. CASE RendererLeaves \/ UNCHANGED auditVars
  <2>1. UNCHANGED <<toChild, toRenderer>>
    BY <1>10, Zenon DEF RendererLeaves, auditVars, ipcVars
  <2> QED
    BY <1>2, <2>1
<1> QED
  BY <1>3, <1>4, <1>5, <1>6, <1>7, <1>8, <1>9, <1>10 DEF AuditNext, AuditStep

ScanInv == Untouched /\ ScanCounts /\ EndFollowsScan

(* What happens outside of the pool keeps the counts, if the scan is not   *)
(* begun by it and what follows the scan follows it.                       *)
LEMMA Elsewhere ==
  ASSUME AuditInv, UNCHANGED <<unread, reading, posted, reported, host>>,
         UNCHANGED <<pool, fallen>> \/ (pool' = {} /\ fallen' = {}),
         scanDone' = scanDone \/ (scanDone' # {} /\ Aborted'), stopped # {} => stopped' # {},
         sessPc' = "off" <=> sessPc = "off", sessPc = "off" => sessErr' = sessErr /\ scanDone' = scanDone,
         sessPc' = "scan" => sessPc = "scan" /\ sessErr' = sessErr,
         sessPc' \in {"models", "close", "over"} /\ sessErr' = {} =>
           \/ sessPc \in {"models", "close", "over"} /\ sessErr' = sessErr
           \/ scanDone # {},
         sessPc' = "models" => sessPc = "models" \/ (scanDone # {} /\ AllCounted),
         runPc' = "answered" => runPc = "answered" \/ (scanDone # {} /\ AllCounted),
         \A i \in DOMAIN toRenderer' : toRenderer'[i] = "result" =>
           (\E j \in DOMAIN toRenderer : toRenderer[j] = "result") \/ (scanDone # {} /\ AllCounted)
  PROVE  ScanOK' /\ ScanInv'
<1>t. /\ unread \in Seq(HistoryFile) /\ pool \in SUBSET Thread
      /\ reading \in [Thread -> HistoryFile \cup {0}] /\ reported \in [HistoryFile -> Nat]
      /\ posted \in SUBSET Thread /\ fallen \in SUBSET Thread
  BY Zenon DEF AuditInv, AuditTypeOK
<1>i. Untouched /\ ScanCounts /\ EndFollowsScan
  BY DEF AuditInv
<1>1. ScanOK'
  BY <1>t DEF ScanOK
<1>2. Untouched'
  BY <1>i DEF Untouched
<1>3. /\ EachFileOnePlace' <=> EachFileOnePlace
      /\ AllCounted' <=> AllCounted
      /\ Aborted => Aborted'
  BY DEF EachFileOnePlace, AllCounted, Aborted, Queued, BeingRead
<1>4. ScanCounts'
  BY <1>i, <1>3 DEF ScanCounts
<1>5. scanDone # {} => scanDone' # {}
  OBVIOUS
<1>6. EndFollowsScan'
  <2>1. sessPc' = "scan" => sessErr' = {}
    BY <1>i DEF EndFollowsScan
  <2>2. sessPc' \in {"models", "close", "over"} /\ sessErr' = {} => scanDone' # {}
    BY <1>i, <1>5 DEF EndFollowsScan
  <2>3. sessPc' = "models" => scanDone' # {} /\ AllCounted'
    BY <1>i, <1>3, <1>5 DEF EndFollowsScan
  <2>4. runPc' = "answered" => scanDone' # {} /\ AllCounted'
    BY <1>i, <1>3, <1>5 DEF EndFollowsScan
  <2>5. \A i \in DOMAIN toRenderer' : toRenderer'[i] = "result" => scanDone' # {} /\ AllCounted'
    BY <1>i, <1>3, <1>5 DEF EndFollowsScan
  <2> QED
    BY <2>1, <2>2, <2>3, <2>4, <2>5 DEF EndFollowsScan
<1> QED
  BY <1>1, <1>2, <1>4, <1>6 DEF ScanInv

(* A session that begins, begins with nothing counted.                     *)
LEMMA Beginning ==
  ASSUME AuditInv, BeginScan, sessPc = "off", UNCHANGED <<host, stopped>>,
         runPc' = "answered" => runPc = "answered", UNCHANGED toRenderer
  PROVE  ScanOK' /\ ScanInv'
<1>t. /\ reported \in [HistoryFile -> Nat] /\ posted \in SUBSET Thread /\ fallen \in SUBSET Thread
  BY Zenon DEF AuditInv, AuditTypeOK
<1>1. /\ pool = {} /\ posted = {} /\ fallen = {} /\ scanDone = {} /\ sessErr = {}
      /\ \A f \in HistoryFile : reported[f] = 0
  BY DEF AuditInv, Untouched
<1>2. /\ unread' \in Seq(HistoryFile) /\ pool' \in SUBSET Thread
      /\ reading' \in [Thread -> HistoryFile \cup {0}] /\ reported' \in [HistoryFile -> Nat]
      /\ UNCHANGED <<posted, fallen>>
      /\ sessPc' \in {"scan", "close"} /\ (sessPc' = "scan" => sessErr' = {})
      /\ sessPc' = "close" => sessErr' # {}
      /\ EachFileOnePlace' /\ (scanDone' # {} => AllCounted')
  BY <1>t, <1>1, Begin
<1>3. ScanOK'
  BY <1>t, <1>2 DEF ScanOK
<1>4. Untouched' /\ ScanCounts'
  BY <1>2 DEF Untouched, ScanCounts, EachFileOnePlace
<1>5. runPc # "answered" /\ \A i \in DOMAIN toRenderer : toRenderer[i] # "result"
  BY <1>1 DEF AuditInv, EndFollowsScan
<1>6. EndFollowsScan'
  BY <1>2, <1>5 DEF EndFollowsScan
<1> QED
  BY <1>3, <1>4, <1>6 DEF ScanInv

(* Every step keeps the counts.                                            *)
LEMMA ScanStep == AuditInv /\ [AuditNext]_auditVars => ScanOK' /\ ScanInv'
<1> SUFFICES ASSUME AuditInv, [AuditNext]_auditVars PROVE ScanOK' /\ ScanInv'
  OBVIOUS
<1>t. /\ unread \in Seq(HistoryFile) /\ pool \in SUBSET Thread
      /\ reading \in [Thread -> HistoryFile \cup {0}] /\ reported \in [HistoryFile -> Nat]
      /\ posted \in SUBSET Thread /\ fallen \in SUBSET Thread
      /\ toRenderer \in Seq(RendererMessage)
  BY Zenon DEF AuditInv, AuditTypeOK, RendererMessage
<1>i. Untouched /\ ScanCounts /\ EndFollowsScan /\ AskedOnce
  BY DEF AuditInv
<1>a. \A m \in RendererMessage : \A i \in DOMAIN Append(toRenderer, m) :
        \/ i \in DOMAIN toRenderer /\ Append(toRenderer, m)[i] = toRenderer[i]
        \/ Append(toRenderer, m)[i] = m
  <2> SUFFICES ASSUME NEW m \in RendererMessage, NEW i \in DOMAIN Append(toRenderer, m)
               PROVE  \/ i \in DOMAIN toRenderer /\ Append(toRenderer, m)[i] = toRenderer[i]
                      \/ Append(toRenderer, m)[i] = m
    OBVIOUS
  <2> QED
    BY <1>t, Queues
<1>1. ASSUME NEW t \in Thread, ThreadReads(t) \/ ThreadCrashes(t) PROVE ScanOK' /\ ScanInv'
  <2>1. /\ UNCHANGED <<unread, pool, reading, scanDone, reported, host, stopped, sessPc, sessErr, runPc,
                       toRenderer>>
        /\ posted' \in SUBSET Thread /\ fallen' \in SUBSET Thread /\ t \in pool
    BY <1>1, <1>t DEF ThreadReads, ThreadCrashes, callerVars, ipcVars, sessionVars
  <2>2. sessPc # "off"
    BY <1>i, <2>1 DEF Untouched
  <2>3. ScanOK'
    BY <1>t, <2>1 DEF ScanOK
  <2>4. ScanInv'
    BY <1>i, <2>1, <2>2 DEF ScanInv, Untouched, ScanCounts, EndFollowsScan, EachFileOnePlace, AllCounted,
                            Aborted, Queued, BeingRead
  <2> QED
    BY <2>3, <2>4
<1>2. ASSUME NEW t \in Thread, ThreadAnswers(t) \/ ThreadFails(t) PROVE ScanOK' /\ ScanInv'
  <2>1. /\ UNCHANGED <<host, stopped, sessPc, sessErr, runPc, toRenderer>>
        /\ posted' \in SUBSET Thread /\ fallen' \in SUBSET Thread /\ (t \in posted \/ t \in fallen)
    BY <1>2, <1>t DEF ThreadAnswers, ThreadFails, callerVars, ipcVars, sessionVars
  <2>2. sessPc # "off"
    BY <1>i, <2>1 DEF Untouched
  <2>3. /\ unread' \in Seq(HistoryFile) /\ pool' \in SUBSET Thread
        /\ reading' \in [Thread -> HistoryFile \cup {0}] /\ reported' \in [HistoryFile -> Nat]
        /\ scanDone # {} => scanDone' # {} /\ reported' = reported
        /\ scanDone = {} => EachFileOnePlace' /\ (scanDone' # {} => AllCounted')
    BY <1>2, <1>i, <2>2, ThreadStep DEF AuditInv, ScanCounts
  <2>4. ScanOK'
    BY <2>1, <2>3 DEF ScanOK
  <2>5. Untouched'
    BY <2>1, <2>2 DEF Untouched
  <2>6. ScanCounts'
    <3>1. CASE scanDone = {}
      BY <2>1, <2>3, <3>1 DEF ScanCounts, EachFileOnePlace
    <3>2. CASE scanDone # {}
      BY <1>i, <2>1, <2>3, <3>2 DEF ScanCounts, AllCounted, Aborted
    <3> QED
      BY <3>1, <3>2
  <2>7. EndFollowsScan'
    BY <1>i, <2>1, <2>3 DEF EndFollowsScan, AllCounted
  <2> QED
    BY <2>4, <2>5, <2>6, <2>7 DEF ScanInv
<1>3. CASE ScanReturns
  <2>1. ~Aborted => AllCounted
    BY <1>3, <1>i, ScanReturnsDoes DEF ScanCounts
  <2>2. UNCHANGED <<unread, pool, reading, posted, fallen, scanDone, reported, host, stopped, runPc,
                    toRenderer>>
    BY <1>3, ScanReturnsDoes DEF callerVars, ipcVars, poolState
  <2> QED
    BY <1>3, <2>1, <2>2, ScanReturnsDoes, Elsewhere
<1>4. CASE AnnounceTransfer
  <2>1. /\ UNCHANGED <<unread, pool, reading, posted, fallen, scanDone, reported, host, stopped, runPc,
                       sessPc, sessErr>>
        /\ toRenderer' = toRenderer \/ toRenderer' = Append(toRenderer, "transfer")
    BY <1>4 DEF AnnounceTransfer, callerVars, sessionVars, poolState
  <2>2. \A i \in DOMAIN toRenderer' : toRenderer'[i] = "result" =>
          \E j \in DOMAIN toRenderer : toRenderer[j] = "result"
    BY <1>a, <2>1 DEF RendererMessage
  <2> QED
    BY <2>1, <2>2, Elsewhere
<1>5. CASE ModelsEnd
  <2>1. /\ UNCHANGED <<unread, pool, reading, posted, fallen, scanDone, reported, host, stopped, runPc,
                       sessErr, toRenderer>>
        /\ sessPc = "models" /\ sessPc' = "close"
    BY <1>5 DEF ModelsEnd, callerVars, ipcVars, poolState
  <2> QED
    BY <2>1, Elsewhere
<1>6. CASE SessionReturns
  <2>1. /\ UNCHANGED <<unread, reading, posted, scanDone, reported, host, stopped, sessErr>>
        /\ pool' = {} /\ fallen' = {} /\ sessPc = "close" /\ sessPc' = "over"
    BY <1>6 DEF SessionReturns, ClosePool
  <2>2. runPc' = "answered" => runPc = "answered" \/ (sessErr = {} /\ ~Aborted)
    BY <1>6 DEF SessionReturns, Aborted
  <2>3. toRenderer' = toRenderer \/ \E m \in RendererMessage :
          toRenderer' = Append(toRenderer, m) /\ (m = "result" => sessErr = {} /\ ~Aborted)
    BY <1>6 DEF SessionReturns, Aborted, RendererMessage
  <2>4. sessErr = {} /\ ~Aborted => scanDone # {} /\ AllCounted
    BY <1>i, <2>1 DEF EndFollowsScan, ScanCounts
  <2>5. \A i \in DOMAIN toRenderer' : toRenderer'[i] = "result" =>
          (\E j \in DOMAIN toRenderer : toRenderer[j] = "result") \/ (scanDone # {} /\ AllCounted)
    BY <1>a, <2>3, <2>4
  <2> QED
    BY <2>1, <2>2, <2>4, <2>5, Elsewhere
<1>7. CASE RendererReceives
  <2>1. /\ UNCHANGED <<unread, pool, reading, posted, fallen, scanDone, reported, host, stopped, sessPc,
                       sessErr>>
        /\ toRenderer # <<>> /\ toRenderer' = Tail(toRenderer)
    BY <1>7 DEF RendererReceives, sessionVars, poolState
  <2>2. runPc' = "answered" => runPc = "answered" \/ Head(toRenderer) = "result"
    BY <1>7 DEF RendererReceives
  <2>3. /\ 1 \in DOMAIN toRenderer /\ Head(toRenderer) = toRenderer[1]
        /\ \A i \in DOMAIN toRenderer' : i + 1 \in DOMAIN toRenderer /\ toRenderer'[i] = toRenderer[i + 1]
    BY <1>t, <2>1, Queues
  <2>4. runPc' = "answered" => runPc = "answered" \/ (scanDone # {} /\ AllCounted)
    BY <1>i, <2>2, <2>3 DEF EndFollowsScan
  <2>5. \A i \in DOMAIN toRenderer' : toRenderer'[i] = "result" =>
          \E j \in DOMAIN toRenderer : toRenderer[j] = "result"
    BY <2>3
  <2> QED
    BY <2>1, <2>4, <2>5, Elsewhere
<1>8. CASE Acknowledge \/ ExitNoticed \/ KillChild \/ ChildDisconnects \/ ChildCrashes
  <2>1. /\ UNCHANGED <<unread, pool, reading, posted, fallen, scanDone, reported, host, stopped, sessPc,
                       sessErr, toRenderer>>
        /\ runPc' = runPc \/ runPc' = "failed"
    BY <1>8 DEF Acknowledge, ExitNoticed, KillChild, ChildDisconnects, ChildCrashes, callerVars,
                sessionVars, poolState
  <2> QED
    BY <2>1, Elsewhere
<1>9. CASE ChildReceives
  <2>1. /\ toChild # <<>> /\ UNCHANGED <<host, runPc, stopped>>
        /\ toRenderer' = IF Head(toChild) = "init" THEN Append(toRenderer, "ready") ELSE toRenderer
        /\ IF Head(toChild) = "run" THEN BeginScan
           ELSE UNCHANGED <<unread, pool, reading, posted, fallen, scanDone, reported, sessPc, sessErr>>
    BY <1>9 DEF ChildReceives, callerVars, sessionVars, poolState
  <2>2. CASE Head(toChild) = "run"
    <3>1. toChild \in Seq(ChildMessage)
      BY Zenon DEF AuditInv, AuditTypeOK, ChildMessage
    <3>2. 1 \in DOMAIN toChild /\ toChild[1] = "run"
      BY <2>1, <2>2, <3>1, Queues
    <3>3. sessPc = "off"
      BY <1>i, <3>2 DEF AskedOnce
    <3> QED
      BY <2>1, <2>2, <3>3, Beginning
  <2>3. CASE Head(toChild) # "run"
    <3>1. \A i \in DOMAIN toRenderer' : toRenderer'[i] = "result" =>
            \E j \in DOMAIN toRenderer : toRenderer[j] = "result"
      BY <1>a, <2>1 DEF RendererMessage
    <3> QED
      BY <2>1, <2>3, <3>1, Elsewhere
  <2> QED
    BY <2>2, <2>3
<1>10. CASE StartRun
  <2>1. /\ runPc = "idle" /\ UNCHANGED <<host, stopped, toRenderer>>
        /\ runPc' # "answered"
        /\ \/ host = "here" /\ BeginScan
           \/ UNCHANGED <<unread, pool, reading, posted, fallen, scanDone, reported, sessPc, sessErr>>
    BY <1>10 DEF StartRun, sessionVars, poolState
  <2>2. CASE host = "here" /\ BeginScan
    <3>1. sessPc = "off"
      BY <1>i, <2>1, <2>2 DEF AskedOnce
    <3> QED
      BY <2>1, <2>2, <3>1, Beginning
  <2>3. CASE UNCHANGED <<unread, pool, reading, posted, fallen, scanDone, reported, sessPc, sessErr>>
    BY <2>1, <2>3, Elsewhere
  <2> QED
    BY <2>1, <2>2, <2>3
<1>11. CASE Cancel
  <2>1. /\ UNCHANGED <<unread, reading, posted, reported, host, sessPc, sessErr, toRenderer>>
        /\ stopped' # {} /\ (runPc' = "answered" => runPc = "answered")
        /\ UNCHANGED <<pool, fallen>> \/ (pool' = {} /\ fallen' = {})
    BY <1>11, CancelDoes DEF ClosePool
  <2>2. scanDone' = scanDone \/ (scanDone' # {} /\ Aborted' /\ sessPc = "scan")
    BY <1>11, <2>1, CancelDoes DEF Aborted
  <2> QED
    BY <2>1, <2>2, Elsewhere
<1>12. CASE RendererLeaves \/ UNCHANGED auditVars
  <2>1. UNCHANGED <<unread, pool, reading, posted, fallen, scanDone, reported, host, stopped, runPc,
                    sessPc, sessErr, toRenderer>>
    BY <1>12, Zenon DEF RendererLeaves, auditVars, callerVars, ipcVars, sessionVars, poolState
  <2> QED
    BY <2>1, Elsewhere
<1> QED
  BY <1>1, <1>2, <1>3, <1>4, <1>5, <1>6, <1>7, <1>8, <1>9, <1>10, <1>11, <1>12 DEF AuditNext, AuditStep

(* Every step keeps: the session begins at most once, for the one request. *)
LEMMA AskedOnceStep == AuditInv /\ [AuditNext]_auditVars => AskedOnce'
<1> SUFFICES ASSUME AuditInv, [AuditNext]_auditVars PROVE AskedOnce'
  OBVIOUS
<1>t. toChild \in Seq(ChildMessage) /\ reported \in [HistoryFile -> Nat]
      /\ host \in {"here", "child"} /\ runPc \in RunEnds \cup {"idle", "starting", "pending"}
  BY Zenon DEF AuditInv, AuditTypeOK, ChildMessage
<1>i. AskedOnce
  BY DEF AuditInv
<1>a. \A m \in ChildMessage : \A i \in DOMAIN Append(toChild, m) :
        \/ i \in DOMAIN toChild /\ Append(toChild, m)[i] = toChild[i]
        \/ i = Len(toChild) + 1 /\ i \notin DOMAIN toChild /\ Append(toChild, m)[i] = m
  <2> SUFFICES ASSUME NEW m \in ChildMessage, NEW i \in DOMAIN Append(toChild, m)
               PROVE  \/ i \in DOMAIN toChild /\ Append(toChild, m)[i] = toChild[i]
                      \/ i = Len(toChild) + 1 /\ i \notin DOMAIN toChild /\ Append(toChild, m)[i] = m
    OBVIOUS
  <2> QED
    BY <1>t, Queues
<1>0. ASSUME host = "here" => toChild' = <<>> /\ toRenderer' = <<>> /\ child' = "none",
             host = "here" => (runPc' = "pending" <=> sessPc' \in {"scan", "models", "close"}),
             host = "here" /\ runPc' = "idle" => sessPc' = "off",
             UNCHANGED host,
             host = "child" /\ runPc' \in {"idle", "starting"} =>
               runPc \in {"idle", "starting"} /\ \A i \in DOMAIN toChild' : toChild'[i] # "run",
             sessPc = "off" => sessPc' = "off",
             \/ UNCHANGED toChild
             \/ \E m \in ChildMessage \ {"run"} : toChild' = Append(toChild, m)
             \/ \A i \in DOMAIN toChild' : toChild'[i] # "run"
      PROVE  AskedOnce'
  <2>1. \A i \in DOMAIN toChild' : toChild'[i] = "run" => i \in DOMAIN toChild /\ toChild[i] = "run"
    BY <1>0, <1>a
  <2> QED
    BY <1>0, <1>i, <2>1 DEF AskedOnce
<1>1. ASSUME UNCHANGED <<host, toChild, toRenderer, child, runPc>>,
             sessPc' = sessPc \/ {sessPc, sessPc'} \subseteq {"scan", "models", "close"}
      PROVE  AskedOnce'
  BY <1>0, <1>1, <1>i DEF AskedOnce
<1>2. ASSUME NEW t \in Thread, ThreadReads(t) \/ ThreadAnswers(t) \/ ThreadFails(t) \/ ThreadCrashes(t)
      PROVE  AskedOnce'
  BY <1>1, <1>2 DEF ThreadReads, ThreadAnswers, ThreadFails, ThreadCrashes, callerVars, ipcVars,
                    sessionVars
<1>3. CASE ScanReturns \/ ModelsEnd
  <2>1. /\ UNCHANGED <<host, toChild, toRenderer, child, runPc>>
        /\ {sessPc, sessPc'} \subseteq {"scan", "models", "close"}
    BY <1>3, ScanReturnsDoes DEF ModelsEnd, callerVars, ipcVars
  <2> QED
    BY <1>1, <2>1
<1>4. CASE AnnounceTransfer
  BY <1>0, <1>4, <1>i DEF AnnounceTransfer, AskedOnce, callerVars, sessionVars
<1>5. CASE SessionReturns
  <2>1. /\ sessPc = "close" /\ sessPc' = "over" /\ UNCHANGED <<host, toChild, child>>
        /\ host = "here" => runPc' \in {"failed", "cancelled", "answered"} /\ UNCHANGED toRenderer
        /\ host # "here" => UNCHANGED runPc
    BY <1>5 DEF SessionReturns
  <2> QED
    BY <1>0, <1>i, <2>1 DEF AskedOnce
<1>6. CASE RendererReceives
  <2>1. /\ UNCHANGED <<host, child, sessPc>> /\ toRenderer # <<>>
        /\ \/ UNCHANGED toChild /\ (runPc' \in {"idle", "starting"} => runPc' = runPc)
           \/ /\ runPc = "starting" /\ runPc' = "pending"
              /\ toChild' \in {toChild, Append(toChild, "run")}
    BY <1>6 DEF RendererReceives, sessionVars, Kept
  <2>2. host = "child"
    BY <1>i, <1>t, <2>1 DEF AskedOnce
  <2>3. CASE UNCHANGED toChild /\ (runPc' \in {"idle", "starting"} => runPc' = runPc)
    BY <1>0, <1>i, <2>1, <2>2, <2>3 DEF AskedOnce
  <2>4. CASE runPc = "starting" /\ runPc' = "pending" /\ toChild' \in {toChild, Append(toChild, "run")}
    <3>1. sessPc = "off" /\ \A i \in DOMAIN toChild : toChild[i] # "run"
      BY <1>i, <2>2, <2>4 DEF AskedOnce
    <3>2. \A i \in DOMAIN toChild' : toChild'[i] = "run" => i = Len(toChild) + 1
      BY <1>a, <2>4, <3>1 DEF ChildMessage
    <3> QED
      BY <2>1, <2>2, <2>4, <3>1, <3>2 DEF AskedOnce
  <2> QED
    BY <2>1, <2>3, <2>4
<1>7. CASE Acknowledge \/ ExitNoticed \/ KillChild \/ ChildDisconnects \/ ChildCrashes
  <2>1. /\ UNCHANGED <<host, toRenderer, sessPc>> /\ child \in {"up", "down"}
        /\ \/ UNCHANGED toChild
           \/ toChild' = Append(toChild, "ack")
        /\ runPc' \in {runPc, "failed"}
    BY <1>7 DEF Acknowledge, ExitNoticed, KillChild, ChildDisconnects, ChildCrashes, callerVars,
                sessionVars
  <2>2. host = "child"
    BY <1>i, <1>t, <2>1 DEF AskedOnce
  <2>3. runPc' \in {"idle", "starting"} =>
          runPc \in {"idle", "starting"} /\ \A i \in DOMAIN toChild' : toChild'[i] # "run"
    BY <1>a, <1>i, <2>1, <2>2 DEF AskedOnce, ChildMessage
  <2> QED
    BY <1>0, <2>1, <2>2, <2>3 DEF ChildMessage
<1>8. CASE ChildReceives
  <2>1. /\ child = "up" /\ toChild # <<>> /\ toChild' = Tail(toChild) /\ UNCHANGED <<host, runPc>>
        /\ IF Head(toChild) = "run" THEN BeginScan ELSE UNCHANGED sessPc
    BY <1>8 DEF ChildReceives, callerVars, sessionVars
  <2>2. host = "child"
    BY <1>i, <1>t, <2>1 DEF AskedOnce
  <2>3. /\ 1 \in DOMAIN toChild /\ Head(toChild) = toChild[1]
        /\ \A i \in DOMAIN toChild' : i + 1 \in DOMAIN toChild /\ i + 1 # 1 /\ toChild'[i] = toChild[i + 1]
        /\ \A i, j \in DOMAIN toChild' : i + 1 = j + 1 => i = j
    BY <1>t, <2>1, Queues
  <2>4. CASE Head(toChild) = "run"
    <3>1. \A i \in DOMAIN toChild' : toChild'[i] # "run"
      BY <1>i, <2>3, <2>4 DEF AskedOnce
    <3>2. runPc \notin {"idle", "starting"}
      BY <1>i, <2>2, <2>3, <2>4 DEF AskedOnce
    <3> QED
      BY <2>1, <2>2, <3>1, <3>2 DEF AskedOnce
  <2>5. CASE Head(toChild) # "run"
    BY <1>i, <2>1, <2>2, <2>3, <2>5 DEF AskedOnce
  <2> QED
    BY <2>4, <2>5
<1>9. CASE StartRun
  <2>1. CASE host = "here"
    <3>1. /\ runPc' = "pending" /\ BeginScan /\ UNCHANGED <<host, child, toChild, toRenderer>>
      BY <1>9, <2>1 DEF StartRun
    <3>2. sessPc' \in {"scan", "close"}
      BY <1>t, <3>1, Begin
    <3> QED
      BY <1>i, <2>1, <3>1, <3>2 DEF AskedOnce
  <2>2. CASE host # "here"
    <3>1. /\ UNCHANGED <<host, sessPc>> /\ runPc = "idle"
          /\ \/ runPc' = "cancelled" /\ UNCHANGED toChild
             \/ runPc' = "starting" /\ toChild' = <<"init">>
      BY <1>9, <2>2 DEF StartRun, sessionVars
    <3>2. \A i \in DOMAIN toChild' : toChild'[i] # "run"
      <4>1. \A i \in DOMAIN toChild : toChild[i] # "run"
        BY <1>i, <1>t, <2>2, <3>1 DEF AskedOnce
      <4>2. \A i \in DOMAIN <<"init">> : <<"init">>[i] # "run"
        OBVIOUS
      <4> QED
        BY <3>1, <4>1, <4>2
    <3> QED
      BY <1>0, <2>2, <3>1, <3>2
  <2> QED
    BY <2>1, <2>2
<1>10. CASE Cancel
  <2>1. UNCHANGED <<host, child, toRenderer, sessPc>>
    BY <1>10, CancelDoes
  <2>2. CASE host = "here"
    BY <1>1, <1>10, <2>1, <2>2, CancelDoes
  <2>3. CASE host # "here"
    <3>1. /\ toChild' = toChild \/ toChild' = Append(toChild, "cancel")
          /\ runPc' \in {"idle", "starting"} => runPc' = runPc
      BY <1>10, <2>3, CancelDoes DEF Kept
    <3>2. runPc' \in {"idle", "starting"} => \A i \in DOMAIN toChild' : toChild'[i] # "run"
      BY <1>a, <1>i, <1>t, <2>3, <3>1 DEF AskedOnce, ChildMessage
    <3> QED
      BY <1>0, <2>1, <2>3, <3>1, <3>2 DEF ChildMessage
  <2> QED
    BY <2>2, <2>3
<1>11. CASE RendererLeaves \/ UNCHANGED auditVars
  <2>1. UNCHANGED <<host, toChild, toRenderer, child, runPc, sessPc>>
    BY <1>11, Zenon DEF RendererLeaves, auditVars, callerVars, ipcVars, sessionVars
  <2> QED
    BY <1>1, <2>1
<1> QED
  BY <1>2, <1>3, <1>4, <1>5, <1>6, <1>7, <1>8, <1>9, <1>10, <1>11 DEF AuditNext, AuditStep

-----------------------------------------------------------------------------
(* The theorems.                                                           *)

(* An audit begins with nothing counted.                                   *)
LEMMA AuditInitInv == AuditInit => AuditInv
<1> SUFFICES ASSUME AuditInit PROVE AuditInv
  OBVIOUS
<1>1. AuditTypeOK
  <2>1. FlagsOK
    BY Zenon DEF AuditInit, FlagsOK
  <2>2. PlacesOK /\ MessagesOK /\ ScanOK
    BY DEF AuditInit, PlacesOK, MessagesOK, ScanOK, RunEnds
  <2> QED
    BY <2>1, <2>2, Zenon DEF AuditTypeOK, FlagsOK, PlacesOK, MessagesOK, ScanOK, ChildMessage,
                             RendererMessage
<1>2. Untouched /\ ScanCounts /\ EndFollowsScan
  BY DEF AuditInit, Untouched, ScanCounts, EndFollowsScan
<1>3. AskedOnce
  BY DEF AuditInit, AskedOnce
<1> QED
  BY <1>1, <1>2, <1>3 DEF AuditInv

(* Every step keeps the inductive invariant.                               *)
LEMMA AuditNextInv == AuditInv /\ [AuditNext]_auditVars => AuditInv'
<1> SUFFICES ASSUME AuditInv, [AuditNext]_auditVars PROVE AuditInv'
  OBVIOUS
<1>1. AuditTypeOK
  BY DEF AuditInv
<1>2. FlagsOK'
  <2>1. FlagsOK
    BY <1>1, Zenon DEF AuditTypeOK, FlagsOK
  <2> QED
    BY <2>1, FlagStep
<1>3. PlacesOK' /\ MessagesOK' /\ ScanOK'
  BY <1>1, PlaceStep, MessageStep, ScanStep
<1>4. AuditTypeOK'
  BY <1>2, <1>3, Zenon DEF AuditTypeOK, FlagsOK, PlacesOK, MessagesOK, ScanOK, ChildMessage,
                           RendererMessage
<1>5. Untouched' /\ ScanCounts' /\ EndFollowsScan' /\ AskedOnce'
  BY ScanStep, AskedOnceStep DEF ScanInv
<1> QED
  BY <1>4, <1>5 DEF AuditInv

(* The types of the audit hold.                                            *)
THEOREM AuditTypeCorrect == AuditSpec => []AuditTypeOK
<1>1. AuditInv => AuditTypeOK
  BY DEF AuditInv
<1> QED
  BY <1>1, AuditInitInv, AuditNextInv, PTL DEF AuditSpec

(* analytics/scan-pool.ts counts each history file at most once, whatever  *)
(* threads crash, and an audit that goes on to models or is answered has   *)
(* counted every one.                                                      *)
THEOREM FilesAreCountedOnce == AuditSpec => []EveryFileOnce
<1>1. AuditInv => EveryFileOnce
  BY DEF AuditInv, EveryFileOnce, ScanCounts, EndFollowsScan, AllCounted
<1> QED
  BY <1>1, AuditInitInv, AuditNextInv, PTL DEF AuditSpec

(* run() settles once: what its caller was told does not change, whatever  *)
(* message or exit comes late.                                             *)
THEOREM RunSettlesOnce == AuditSpec => [][(runPc \in RunEnds) => runPc' = runPc]_auditVars
<1>1. AuditInv /\ [AuditNext]_auditVars => [(runPc \in RunEnds) => runPc' = runPc]_auditVars
  <2> SUFFICES ASSUME AuditInv, AuditNext, runPc \in RunEnds PROVE runPc' = runPc
    BY Zenon DEF auditVars, callerVars
  <2>0. runPc \notin {"idle", "starting", "pending"}
    BY DEF RunEnds
  <2>1. ASSUME NEW t \in Thread,
               ThreadReads(t) \/ ThreadAnswers(t) \/ ThreadFails(t) \/ ThreadCrashes(t)
        PROVE  runPc' = runPc
    BY <2>1 DEF ThreadReads, ThreadAnswers, ThreadFails, ThreadCrashes, callerVars
  <2>2. CASE ScanReturns \/ AnnounceTransfer \/ ModelsEnd
    BY <2>2, ScanReturnsDoes DEF AnnounceTransfer, ModelsEnd, callerVars
  <2>3. CASE SessionReturns
    <3>1. sessPc = "close" /\ (host # "here" => runPc' = runPc)
      BY <2>3 DEF SessionReturns
    <3> QED
      BY <2>0, <3>1 DEF AuditInv, AskedOnce
  <2>4. CASE RendererReceives \/ Acknowledge \/ ChildReceives \/ ExitNoticed \/ KillChild
               \/ ChildDisconnects \/ ChildCrashes
    BY <2>0, <2>4 DEF RendererReceives, Acknowledge, ChildReceives, ExitNoticed, KillChild,
                      ChildDisconnects, ChildCrashes, callerVars
  <2>5. CASE StartRun
    BY <2>0, <2>5 DEF StartRun
  <2>6. CASE Cancel
    BY <2>0, <2>6, CancelDoes
  <2>7. CASE RendererLeaves
    BY <2>7, Zenon DEF RendererLeaves
  <2> QED
    BY <2>1, <2>2, <2>3, <2>4, <2>5, <2>6, <2>7 DEF AuditNext, AuditStep
<1> QED
  BY <1>1, AuditInitInv, AuditNextInv, PTL DEF AuditSpec

=============================================================================
