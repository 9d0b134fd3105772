----------------------------- MODULE Verbs_proofs -----------------------------
(***************************************************************************)
(* The verbs that work on what is indexed, for every value of the          *)
(* constants: SessionThreads, CardShelf and AskRun one by one, then side   *)
(* by side (MCVerbs).                                                      *)
(***************************************************************************)
EXTENDS MCVerbs, FiniteSetTheorems, SequenceTheorems, TLAPS

-----------------------------------------------------------------------------
(* Finite sets with a strict total order.                                  *)

(* A relation that puts the elements of a set in a row.                    *)
Ordered(S, R) ==
  /\ \A x \in S : <<x, x>> \notin R
  /\ \A x, y \in S : x # y => <<x, y>> \in R \/ <<y, x>> \in R
  /\ \A x, y, z \in S : <<x, y>> \in R /\ <<y, z>> \in R => <<x, z>> \in R

Rank(S, R, x) == Cardinality({t \in S : <<t, x>> \in R})

(* Every place in the row is that of an element.                           *)
LEMMA RankIsOnto ==
  ASSUME NEW S, IsFiniteSet(S), NEW R, Ordered(S, R)
  PROVE  \A k \in 0 .. (Cardinality(S) - 1) : \E x \in S : Rank(S, R, x) = k
<1> USE DEF Ordered
<1> DEFINE n        == Cardinality(S)
           Below(x) == {t \in S : <<t, x>> \in R}
           rank     == [x \in S |-> Cardinality(Below(x))]
<1>1. n \in Nat
  BY FS_CardinalityType
<1>2. ASSUME NEW x \in S
      PROVE  IsFiniteSet(Below(x)) /\ Cardinality(Below(x)) \in 0 .. (n - 1)
  <2>1. Below(x) \in SUBSET (S \ {x})
    OBVIOUS
  <2>2. IsFiniteSet(S \ {x}) /\ Cardinality(S \ {x}) = n - 1
    BY FS_RemoveElement
  <2> HIDE DEF Below
  <2>3. IsFiniteSet(Below(x)) /\ Cardinality(Below(x)) <= Cardinality(S \ {x})
    BY <2>1, <2>2, FS_Subset
  <2> QED
    BY <1>1, <2>2, <2>3, FS_CardinalityType
<1>3. ASSUME NEW x \in S, NEW y \in S, <<x, y>> \in R
      PROVE  Cardinality(Below(x)) # Cardinality(Below(y))
  <2>1. Below(x) \in SUBSET Below(y) /\ x \in Below(y) /\ x \notin Below(x)
    BY <1>3
  <2> QED
    BY <1>2, <2>1, FS_Subset
<1>4. rank \in Injection(S, 0 .. (n - 1))
  <2>1. rank \in [S -> 0 .. (n - 1)]
    BY <1>2
  <2>2. \A x, y \in S : x # y => Cardinality(Below(x)) # Cardinality(Below(y))
    <3> HIDE DEF Below
    <3> QED
      BY <1>3
  <2>3. \A x, y \in S : rank[x] = rank[y] => x = y
    BY <2>2
  <2> QED
    BY <2>1, <2>3 DEF Injection, IsInjective
<1>5. IsFiniteSet(0 .. (n - 1)) /\ Cardinality(0 .. (n - 1)) = n
  <2> HIDE DEF n
  <2> QED
    BY <1>1, FS_Interval
<1>6. rank \in Surjection(S, 0 .. (n - 1))
  BY <1>4, <1>5, FS_Injection
<1> QED
  BY <1>6 DEF Surjection, Rank

(* So a finite set of integers has a greatest element.                     *)
LEMMA MaxOf ==
  ASSUME NEW S \in SUBSET Int, IsFiniteSet(S), S # {}
  PROVE  Max(S) \in S /\ \A x \in S : Max(S) >= x
<1> DEFINE R == {p \in S \X S : p[1] > p[2]}
<1>1. Cardinality(S) \in Nat \ {0}
  BY FS_CardinalityType, FS_EmptySet
<1>2. \A x, y \in S : <<x, y>> \in R <=> x > y
  OBVIOUS
<1>3. PICK m \in S : Rank(S, R, m) = 0
  <2>1. 0 \in 0 .. (Cardinality(S) - 1)
    BY <1>1
  <2>2. Ordered(S, R)
    BY <1>2 DEF Ordered
  <2> HIDE DEF R
  <2> QED
    BY <2>1, <2>2, RankIsOnto
<1>4. {t \in S : <<t, m>> \in R} = {}
  BY <1>3, FS_Subset, FS_EmptySet DEF Rank
<1>5. ASSUME NEW x \in S PROVE m >= x
  <2>1. <<x, m>> \notin R
    BY <1>4
  <2> QED
    BY <1>2, <2>1
<1> QED
  BY <1>5 DEF Max

(* ... and a least one.                                                    *)
LEMMA MinOf ==
  ASSUME NEW S \in SUBSET Int, IsFiniteSet(S), S # {}
  PROVE  Min(S) \in S /\ \A x \in S : Min(S) <= x
<1> DEFINE R == {p \in S \X S : p[1] < p[2]}
<1>1. Cardinality(S) \in Nat \ {0}
  BY FS_CardinalityType, FS_EmptySet
<1>2. \A x, y \in S : <<x, y>> \in R <=> x < y
  OBVIOUS
<1>3. PICK m \in S : Rank(S, R, m) = 0
  <2>1. 0 \in 0 .. (Cardinality(S) - 1)
    BY <1>1
  <2>2. Ordered(S, R)
    BY <1>2 DEF Ordered
  <2> HIDE DEF R
  <2> QED
    BY <2>1, <2>2, RankIsOnto
<1>4. {t \in S : <<t, m>> \in R} = {}
  BY <1>3, FS_Subset, FS_EmptySet DEF Rank
<1>5. ASSUME NEW x \in S PROVE m <= x
  <2>1. <<x, m>> \notin R
    BY <1>4
  <2> QED
    BY <1>2, <2>1
<1> QED
  BY <1>5 DEF Min

(* The smaller of two numbers.                                             *)
LEMMA MinOfTwo ==
  ASSUME NEW m \in Int, NEW n \in Int PROVE Min({m, n}) \in {m, n} /\ Min({m, n}) <= n
<1>1. \E x \in {m, n} : \A y \in {m, n} : x =< y
  OBVIOUS
<1> QED
  BY <1>1 DEF Min

(* A finite set has a smallest bad subset, if it has any.                  *)
LEMMA SmallestSet ==
  ASSUME NEW S, IsFiniteSet(S), NEW Bad \in SUBSET (SUBSET S), Bad # {}
  PROVE  \E T \in Bad : \A U \in (SUBSET T) \ {T} : U \notin Bad
<1>1. Bad \subseteq FiniteSubsetsOf(S)
  BY FS_Subset DEF FiniteSubsetsOf
<1>2. PICK T \in Bad : \A U \in Bad : ~ (<<U, T>> \in StrictSubsetOrdering(S))
  BY <1>1, FS_StrictSubsetOrderingWellFounded, WFMin
<1>3. ASSUME NEW U \in (SUBSET T) \ {T}, U \in Bad PROVE FALSE
  BY <1>2, <1>3 DEF StrictSubsetOrdering
<1> QED
  BY <1>2, <1>3

-----------------------------------------------------------------------------
(* SessionThreads.                                                         *)

(* A table of chains in which no two heads are of one chain.               *)
OneHead(tab) ==
  /\ tab = [s \in Session |-> tab[s]]
  /\ \A s, t \in Session :
       tab[s].head /\ tab[t].head /\ tab[s].root = tab[t].root => s = t

(* The records of a session are a finite set of numbers.                   *)
LEMMA EndIsNumber ==
  ASSUME NEW r \in [Session -> Content], NEW s \in Session
  PROVE  Max(r[s].recs \cup {0}) \in Int
<1>1. r[s].recs \cup {0} \in SUBSET (0 .. MaxRecords)
  BY ThreadAssumption DEF Content
<1>2. IsFiniteSet(0 .. MaxRecords)
  BY ThreadAssumption, FS_Interval
<1>3. IsFiniteSet(r[s].recs \cup {0})
  BY <1>1, <1>2, FS_Subset
<1>4. Max(r[s].recs \cup {0}) \in r[s].recs \cup {0}
  BY <1>1, <1>3, MaxOf
<1> QED
  BY <1>1, <1>4

(* The values of a function on an interval are counted by a number.        *)
LEMMA CountIsNumber ==
  ASSUME NEW f, NEW n \in Nat
  PROVE  Cardinality({f[i] : i \in 0 .. n}) \in Int
<1> DEFINE g == [i \in 0 .. n |-> f[i]]
           T == {f[i] : i \in 0 .. n}
<1>1. g \in Surjection(0 .. n, T)
  BY DEF Surjection
<1>2. IsFiniteSet(0 .. n)
  BY FS_Interval
<1>3. IsFiniteSet(T)
  <2> HIDE DEF g, T
  <2> QED
    BY <1>1, <1>2, FS_Surjection
<1> QED
  BY <1>3, FS_CardinalityType

(* deriveThreads() orders the links of each chain strictly, by depth, end  *)
(* and id, so it marks one of them at most.                                *)
LEMMA ChainsHaveOneHead ==
  ASSUME NEW r \in [Session -> Content]
  PROVE  OneHead(Chains(r))
<1> DEFINE par     == Parents(r)
           linked  == {s \in Session : par[s] # 0 \/ \E t \in Session : par[t] = s}
           walk    == [s \in linked |-> Walk(par, s)]
           root(s) == walk[s][Sessions]
           depth(s) == Cardinality({walk[s][n] : n \in 0 .. Sessions}) - 1
           end(s)  == Max(r[s].recs \cup {0})
           before(s, t) == \/ depth(s) < depth(t)
                           \/ depth(s) = depth(t)
                              /\ (end(s) < end(t) \/ (end(s) = end(t) /\ s < t))
           tab == [s \in Session |->
                     IF s \notin linked THEN NoRow
                     ELSE [root |-> root(s), parent |-> par[s], depth |-> depth(s),
                           head |-> \A t \in linked \ {s} : root(t) = root(s) => before(t, s)]]
<1>1. Chains(r) = tab
  BY DEF Chains
<1>2. ASSUME NEW s \in Session PROVE depth(s) \in Int /\ end(s) \in Int /\ s \in Int
  <2>1. Cardinality({walk[s][n] : n \in 0 .. Sessions}) \in Int
    <3> HIDE DEF walk
    <3> QED
      BY CountIsNumber, ThreadAssumption
  <2> QED
    BY <2>1, EndIsNumber, ThreadAssumption DEF Session
<1> HIDE DEF par, walk, depth, end, root
<1>3. ASSUME NEW s \in Session, NEW t \in Session, before(s, t), before(t, s) PROVE FALSE
  BY <1>2, <1>3
<1> HIDE DEF before
<1>4. ASSUME NEW s \in Session, NEW t \in Session, s # t,
             tab[s].head, tab[t].head, tab[s].root = tab[t].root
      PROVE  FALSE
  <2>1. s \in linked /\ t \in linked
    BY <1>4, Zenon DEF NoRow
  <2>2. tab[s].root = root(s) /\ tab[t].root = root(t)
    BY <2>1
  <2>3. before(t, s) /\ before(s, t)
    BY <1>4, <2>1, <2>2
  <2> QED
    BY <1>3, <2>3
<1>5. tab = [s \in Session |-> tab[s]]
  OBVIOUS
<1> HIDE DEF tab
<1> QED
  BY <1>1, <1>4, <1>5 DEF OneHead

(* What the passes have derived has no chain with two heads either.        *)
PassesFit ==
  /\ pass = [p \in Indexer |-> pass[p]]
  /\ \A p \in Indexer :
       /\ pass[p] = [at |-> pass[p].at, todo |-> pass[p].todo, found |-> pass[p].found]
       /\ OneHead(pass[p].found)

ThreadsInv ==
  /\ file \in [Session -> Content] /\ clock \in 0 .. MaxRecords
  /\ row \in [Session -> Content]
  /\ OneHead(threads)
  /\ PassesFit

(* At the start there are no chains.                                       *)
LEMMA NoTableIsOne == OneHead(NoTable)
BY DEF OneHead, NoTable, NoRow

(* All components are as they should at the start.                         *)
LEMMA ThreadsInitInv == ThreadsInit => ThreadsInv
<1> SUFFICES ASSUME ThreadsInit PROVE ThreadsInv
  OBVIOUS
<1>1. Nothing \in Content
  BY DEF Nothing, Content
<1>2. /\ file \in [Session -> Content] /\ row \in [Session -> Content]
      /\ clock \in 0 .. MaxRecords
  BY <1>1, ThreadAssumption DEF ThreadsInit
<1>3. OneHead(threads)
  BY NoTableIsOne DEF ThreadsInit
<1>4. pass = [p \in Indexer |-> pass[p]]
  BY DEF ThreadsInit
<1>5. ASSUME NEW p \in Indexer
      PROVE  /\ pass[p] = [at |-> pass[p].at, todo |-> pass[p].todo, found |-> pass[p].found]
             /\ OneHead(pass[p].found)
  <2>1. pass[p] = [at |-> "idle", todo |-> {}, found |-> NoTable]
    BY DEF ThreadsInit, NoPass
  <2> QED
    BY <2>1, NoTableIsOne
<1> QED
  BY <1>2, <1>3, <1>4, <1>5 DEF ThreadsInv, PassesFit

(* The one pass that takes a step ends with one head per chain.            *)
PassStep(p) ==
  \E at, todo, tab :
    OneHead(tab) /\ pass' = [pass EXCEPT ![p] = [at |-> at, todo |-> todo, found |-> tab]]

(* Then all have one.                                                      *)
LEMMA PassSteps == ASSUME PassesFit, NEW p \in Indexer, PassStep(p) PROVE PassesFit'
<1> PICK at, todo, tab : OneHead(tab)
                         /\ pass' = [pass EXCEPT ![p] = [at |-> at, todo |-> todo, found |-> tab]]
  BY Zenon DEF PassStep
<1>1. pass' = [q \in Indexer |-> pass'[q]]
  BY DEF PassesFit
<1>2. ASSUME NEW q \in Indexer
      PROVE  /\ pass'[q] = [at |-> pass'[q].at, todo |-> pass'[q].todo, found |-> pass'[q].found]
             /\ OneHead(pass'[q].found)
  <2>1. CASE q = p
    <3>1. pass'[q] = [at |-> at, todo |-> todo, found |-> tab]
      BY <2>1 DEF PassesFit
    <3> QED
      BY <3>1
  <2>2. CASE q # p
    <3>1. pass'[q] = pass[q]
      BY <2>2 DEF PassesFit
    <3> QED
      BY <3>1 DEF PassesFit
  <2> QED
    BY <2>1, <2>2
<1> QED
  BY <1>1, <1>2 DEF PassesFit

(* Records replaced part by part: a pass moves to another place, ...       *)
LEMMA PassMoves ==
  ASSUME PassesFit, NEW p \in Indexer, NEW at, NEW todo,
         pass' = [pass EXCEPT ![p].at = at, ![p].todo = todo]
  PROVE  PassesFit'
<1>1. PICK a, b, c : pass[p] = [at |-> a, todo |-> b, found |-> c]
  BY DEF PassesFit
<1>2. pass = [q \in Indexer |-> pass[q]]
  BY DEF PassesFit
<1>3. [[at |-> a, todo |-> b, found |-> c] EXCEPT !.at = at] = [at |-> at, todo |-> b, found |-> c]
  OBVIOUS
<1>4. [[at |-> at, todo |-> b, found |-> c] EXCEPT !.todo = todo] = [at |-> at, todo |-> todo, found |-> c]
  OBVIOUS
<1>5. [pass EXCEPT ![p].at = at] = [pass EXCEPT ![p] = [at |-> at, todo |-> b, found |-> c]]
  BY <1>1, <1>3
<1>6. pass' = [pass EXCEPT ![p] = [at |-> at, todo |-> todo, found |-> c]]
  BY <1>2, <1>4, <1>5
<1>7. OneHead(c)
  BY <1>1 DEF PassesFit
<1>8. PassStep(p)
  BY <1>6, <1>7, Zenon DEF PassStep
<1> QED
  BY <1>8, PassSteps

(* ... goes on with the other transcripts, ...                             *)
LEMMA PassReads ==
  ASSUME PassesFit, NEW p \in Indexer, NEW todo,
         pass' = [pass EXCEPT ![p].todo = todo]
  PROVE  PassesFit'
<1>1. PICK a, b, c : pass[p] = [at |-> a, todo |-> b, found |-> c]
  BY DEF PassesFit
<1>2. OneHead(c)
  BY <1>1 DEF PassesFit
<1>3. [[at |-> a, todo |-> b, found |-> c] EXCEPT !.todo = todo] = [at |-> a, todo |-> todo, found |-> c]
  OBVIOUS
<1>4. pass' = [pass EXCEPT ![p] = [at |-> a, todo |-> todo, found |-> c]]
  BY <1>1, <1>3
<1>7. PassStep(p)
  BY <1>2, <1>4, Zenon DEF PassStep
<1> QED
  BY <1>7, PassSteps

(* ... or derives the chains.                                              *)
LEMMA PassDerives ==
  ASSUME PassesFit, NEW p \in Indexer, NEW at, NEW tab, OneHead(tab),
         pass' = [pass EXCEPT ![p].at = at, ![p].found = tab]
  PROVE  PassesFit'
<1>1. PICK a, b, c : pass[p] = [at |-> a, todo |-> b, found |-> c]
  BY DEF PassesFit
<1>2. pass = [q \in Indexer |-> pass[q]]
  BY DEF PassesFit
<1>3. [[at |-> a, todo |-> b, found |-> c] EXCEPT !.at = at] = [at |-> at, todo |-> b, found |-> c]
  OBVIOUS
<1>4. [[at |-> at, todo |-> b, found |-> c] EXCEPT !.found = tab] = [at |-> at, todo |-> b, found |-> tab]
  OBVIOUS
<1>5. [pass EXCEPT ![p].at = at] = [pass EXCEPT ![p] = [at |-> at, todo |-> b, found |-> c]]
  BY <1>1, <1>3
<1>6. pass' = [pass EXCEPT ![p] = [at |-> at, todo |-> b, found |-> tab]]
  BY <1>2, <1>4, <1>5
<1>7. PassStep(p)
  BY <1>6, Zenon DEF PassStep
<1> QED
  BY <1>7, PassSteps

(* Steps of the harness and forgets change what is stored, not a pass.     *)
LEMMA FilesGrow ==
  ASSUME ThreadsInv, NEW s \in Session, NEW recs \in SUBSET (1 .. MaxRecords),
         NEW names \in SUBSET Session, Writes(s, recs, names)
  PROVE  ThreadsInv'
<1>1. clock + 1 \in 1 .. MaxRecords /\ clock' \in 0 .. MaxRecords
  BY ThreadAssumption DEF Writes, ThreadsInv
<1>2. [recs |-> recs \cup {clock + 1}, names |-> names \ {s}] \in Content
  BY <1>1 DEF Content
<1>3. file' \in [Session -> Content]
  BY <1>2 DEF Writes, ThreadsInv
<1> QED
  BY <1>1, <1>3 DEF Writes, ThreadsInv, PassesFit, indexState

(* Forgetting takes rows out of the table.                                 *)
LEMMA ForgetKeepsOneHead ==
  ASSUME OneHead(threads), NEW s \in Session, threads' = [threads EXCEPT ![s] = NoRow]
  PROVE  OneHead(threads')
<1>1. NoRow.head = FALSE
  BY DEF NoRow
<1>2. \A t \in Session : threads'[t] = IF t = s THEN NoRow ELSE threads[t]
  BY DEF OneHead
<1>3. threads' = [t \in Session |-> threads'[t]]
  BY DEF OneHead
<1>4. ASSUME NEW t \in Session, NEW u \in Session, threads'[t].head, threads'[u].head,
             threads'[t].root = threads'[u].root
      PROVE  t = u
  <2>1. t # s /\ u # s
    BY <1>1, <1>2, <1>4
  <2> QED
    BY <1>2, <1>4, <2>1 DEF OneHead
<1> QED
  BY <1>3, <1>4 DEF OneHead

(* Every step keeps the invariant.                                         *)
LEMMA ThreadsNextInv == ThreadsInv /\ [ThreadsNext]_threadVars => ThreadsInv'
<1> SUFFICES ASSUME ThreadsInv, [ThreadsNext]_threadVars PROVE ThreadsInv'
  OBVIOUS
<1>1. CASE UNCHANGED threadVars
  BY <1>1 DEF threadVars, fileState, indexState, ThreadsInv, PassesFit
<1>2. ASSUME NEW s \in Session, WriteRecord(s) PROVE ThreadsInv'
  <2>1. PICK n \in {{}} \cup {{t} : t \in {u \in Session : file[u] # Nothing}} :
          Writes(s, file[s].recs, file[s].names \cup n)
    BY <1>2 DEF WriteRecord
  <2>2. file[s].recs \in SUBSET (1 .. MaxRecords) /\ file[s].names \cup n \in SUBSET Session
    BY DEF ThreadsInv, Content
  <2> QED
    BY <2>1, <2>2, FilesGrow
<1>3. ASSUME NEW s \in Session, NEW t \in Session, ResumeAs(s, t) PROVE ThreadsInv'
  <2>1. PICK n \in {{}, {s}} : Writes(t, file[s].recs, file[s].names \cup n)
    BY <1>3 DEF ResumeAs
  <2>2. file[s].recs \in SUBSET (1 .. MaxRecords) /\ file[s].names \cup n \in SUBSET Session
    BY DEF ThreadsInv, Content
  <2> QED
    BY <2>1, <2>2, FilesGrow
<1>4. ASSUME NEW s \in Session, Sweep(s) PROVE ThreadsInv'
  BY <1>4 DEF Sweep, indexState, ThreadsInv, PassesFit
<1>5. ASSUME NEW s \in Session, ForgetSession(s) PROVE ThreadsInv'
  <2>1. row' \in [Session -> Content]
    BY <1>5 DEF ForgetSession, ThreadsInv, Nothing, Content
  <2>2. OneHead(threads')
    BY <1>5, ForgetKeepsOneHead DEF ForgetSession, ThreadsInv
  <2> QED
    BY <1>5, <2>1, <2>2 DEF ForgetSession, fileState, ThreadsInv, PassesFit
<1>6. ASSUME NEW p \in Indexer, Overtake(p) PROVE ThreadsInv'
  BY <1>6 DEF Overtake, fileState, indexState, ThreadsInv, PassesFit
<1>7. ASSUME NEW p \in Indexer, Discover(p) PROVE ThreadsInv'
  <2> DEFINE todo == {s \in Session : file[s] # Nothing /\ s \notin gone}
  <2>1. pass' = [pass EXCEPT ![p].at = "capture", ![p].todo = todo]
    BY <1>7 DEF Discover
  <2> HIDE DEF todo
  <2>2. PassesFit'
    BY <2>1, PassMoves DEF ThreadsInv
  <2> QED
    BY <1>7, <2>2 DEF Discover, fileState, indexState, ThreadsInv
<1>8. ASSUME NEW p \in Indexer, NEW s \in Session, IndexFile(p, s) \/ IndexFails(p, s)
      PROVE  ThreadsInv'
  <2>1. pass' = [pass EXCEPT ![p].todo = pass[p].todo \ {s}]
    BY <1>8 DEF IndexFile, IndexFails
  <2>2. PassesFit'
    BY <2>1, PassReads DEF ThreadsInv
  <2>3. row' \in [Session -> Content] /\ UNCHANGED <<file, clock, threads>>
    BY <1>8 DEF IndexFile, IndexFails, fileState, indexState, ThreadsInv
  <2> QED
    BY <2>2, <2>3 DEF ThreadsInv
<1>9. ASSUME NEW p \in Indexer, Derive(p) PROVE ThreadsInv'
  <2>1. OneHead(Chains(row))
    BY ChainsHaveOneHead DEF ThreadsInv
  <2>2. pass' = [pass EXCEPT ![p].at = "derived", ![p].found = Chains(row)]
    BY <1>9 DEF Derive
  <2>3. PassesFit'
    BY <2>1, <2>2, PassDerives DEF ThreadsInv
  <2> QED
    BY <1>9, <2>3 DEF Derive, fileState, indexState, ThreadsInv
<1>10. ASSUME NEW p \in Indexer, WriteThreads(p) \/ AbandonPass(p) PROVE ThreadsInv'
  <2>1. pass' = [pass EXCEPT ![p] = [at |-> "idle", todo |-> {}, found |-> NoTable]]
    BY <1>10 DEF WriteThreads, AbandonPass, NoPass
  <2>2. PassesFit'
    BY <2>1, NoTableIsOne, PassSteps, Zenon DEF ThreadsInv, PassStep
  <2>3. threads' \in {threads, pass[p].found} /\ UNCHANGED <<file, clock, row>>
    BY <1>10 DEF WriteThreads, AbandonPass, fileState, indexState
  <2>4. OneHead(threads')
    BY <2>3 DEF ThreadsInv, PassesFit
  <2> QED
    BY <2>2, <2>3, <2>4 DEF ThreadsInv
<1> QED
  BY <1>1, <1>2, <1>3, <1>4, <1>5, <1>6, <1>7, <1>8, <1>9, <1>10, ThreadAssumption
  DEF ThreadsNext

(* A row that is folded away is counted on the head of its chain, which is *)
(* the only one of its chain that can be one.                              *)
LEMMA OneHeadHidesNothing == ThreadsInv => NothingHidden
<1> SUFFICES ASSUME ThreadsInv, NEW shown \in SUBSET Indexed, NEW s \in shown
             PROVE  \E t \in Listed(shown) : s \in StandsFor(t)
  BY DEF NothingHidden
<1>1. s \in Session
  BY DEF Indexed
<1>2. s \in Links(s)
  BY <1>1 DEF Links
<1>3. CASE ~Folded(shown, s)
  <2>1. s \in StandsFor(s)
    BY <1>2 DEF StandsFor
  <2> QED
    BY <1>3, <2>1 DEF Listed
<1>4. CASE Folded(shown, s)
  <2>1. PICK t \in shown : threads[t].root = threads[s].root /\ threads[t].head
    BY <1>4 DEF Folded
  <2>2. t \in Session /\ t \in Listed(shown)
    BY <2>1 DEF Indexed, Listed, Folded
  <2>3. threads[t] # NoRow
    BY <2>1 DEF NoRow
  <2>4. s \in Links(t) /\ t \in Links(t)
    BY <1>1, <2>1, <2>2, <2>3 DEF Links
  <2>5. \A u \in Links(t) : threads[u].head => u = t
    BY <2>1, <2>2, <2>3 DEF Links, ThreadsInv, OneHead
  <2>6. HeadOf(t) = t
    BY <2>1, <2>4, <2>5 DEF HeadOf
  <2>7. s \in StandsFor(t)
    BY <2>4, <2>6 DEF StandsFor
  <2> QED
    BY <2>2, <2>7
<1> QED
  BY <1>3, <1>4

-----------------------------------------------------------------------------
(* SessionThreads: every link has its parent.                              *)

(* Two sessions with enough in common have both something; one of them is  *)
(* the older one.                                                          *)
LEMMA AlikeHaveRecords ==
  ASSUME NEW r \in [Session -> Content], NEW pair \in Pairs, Alike(r, pair)
  PROVE  /\ Shared(r, pair) \in SUBSET Nat /\ IsFiniteSet(Shared(r, pair))
         /\ Shared(r, pair) # {} /\ Cardinality(Shared(r, pair)) \in Nat \ {0}
         /\ \A s \in pair : /\ r[s] # Nothing /\ IsFiniteSet(r[s].recs)
                            /\ Max(r[s].recs) \in Nat
                            /\ Cardinality(r[s].recs) \in Nat \ {0}
<1> USE ThreadAssumption
<1>1. IsFiniteSet(1 .. MaxRecords) /\ 1 .. MaxRecords \subseteq Nat
  BY FS_Interval
<1>2. Shared(r, pair) \subseteq 1 .. MaxRecords
  BY DEF Shared
<1>3. IsFiniteSet(Shared(r, pair))
  BY <1>1, <1>2, FS_Subset
<1>4. Cardinality(Shared(r, pair)) \in Nat \ {0}
  <2>1. Cardinality(Shared(r, pair)) >= MinShared
    BY DEF Alike
  <2> QED
    BY <1>3, <2>1, FS_CardinalityType
<1>5. Shared(r, pair) # {}
  BY <1>4, FS_EmptySet
<1>6. ASSUME NEW s \in pair
      PROVE  /\ r[s] # Nothing /\ IsFiniteSet(r[s].recs)
             /\ Max(r[s].recs) \in Nat /\ Cardinality(r[s].recs) \in Nat \ {0}
  <2>1. s \in Session
    BY DEF Pairs
  <2>2. r[s].recs \subseteq 1 .. MaxRecords
    BY <2>1 DEF Content
  <2>3. r[s].recs # {}
    BY <1>5 DEF Shared
  <2>4. IsFiniteSet(r[s].recs) /\ r[s].recs \in SUBSET Int
    BY <1>1, <2>2, FS_Subset
  <2>5. Max(r[s].recs) \in r[s].recs
    BY <2>3, <2>4, MaxOf
  <2>6. Cardinality(r[s].recs) \in Nat \ {0}
    BY <2>3, <2>4, FS_CardinalityType, FS_EmptySet
  <2>7. r[s] # Nothing
    BY <2>3 DEF Nothing
  <2> QED
    BY <1>1, <2>2, <2>4, <2>5, <2>6, <2>7
<1> QED
  BY <1>1, <1>2, <1>3, <1>4, <1>5, <1>6

(* What two sessions are.                                                  *)
LEMMA PairOfTwo ==
  ASSUME NEW pair \in Pairs
  PROVE  \E a, b \in Session : /\ a # b /\ pair = {a, b}
                               /\ Other(pair, a) = b /\ Other(pair, b) = a
<1>1. PICK a, b \in Session : pair = {a, b}
  BY DEF Pairs
<1>2. a # b
  BY <1>1 DEF Pairs
<1>3. Other(pair, a) = b /\ Other(pair, b) = a
  BY <1>1, <1>2 DEF Other
<1> QED
  BY <1>1, <1>2, <1>3

(* An edge joins the two sessions of its pair.                             *)
LEMMA EdgeJoins ==
  ASSUME NEW r \in [Session -> Content], NEW pair \in Pairs, Alike(r, pair)
  PROVE  LET e == Edge(r, pair) IN
         /\ e.child # e.parent /\ pair = {e.child, e.parent}
         /\ e.child \in Session /\ e.parent \in Session
         /\ e.shared = Shared(r, pair) /\ e.of \in Nat \ {0}
         /\ e.named \in BOOLEAN
<1>1. PICK a, b \in Session : /\ a # b /\ pair = {a, b}
                              /\ Other(pair, a) = b /\ Other(pair, b) = a
  BY PairOfTwo
<1>2. /\ Max(r[a].recs) \in Nat /\ Max(r[b].recs) \in Nat
      /\ Cardinality(r[a].recs) \in Nat \ {0} /\ Cardinality(r[b].recs) \in Nat \ {0}
  BY <1>1, AlikeHaveRecords
<1>3. a \in Int /\ b \in Int
  BY ThreadAssumption DEF Session
<1>4. Older(r, a, b) \/ Older(r, b, a)
  BY <1>1, <1>2, <1>3 DEF Older
<1> DEFINE late  == CHOOSE s \in pair : Older(r, Other(pair, s), s)
           early == Other(pair, late)
           child == IF late \in r[early].names /\ early \notin r[late].names THEN early ELSE late
           named == late \in r[early].names \/ early \in r[late].names
<1>5. Edge(r, pair) = [child |-> child, parent |-> Other(pair, child), named |-> named,
                       shared |-> Shared(r, pair), of |-> Smaller(r, pair)]
  BY DEF Edge
<1>6. late \in {a, b}
  <2>1. \E s \in pair : Older(r, Other(pair, s), s)
    BY <1>1, <1>4
  <2>2. late \in pair
    BY <2>1
  <2> QED
    BY <1>1, <2>2
<1> HIDE DEF late
<1>7. early \in {a, b}
  BY <1>1, <1>6
<1>8. child \in {a, b}
  BY <1>6, <1>7
<1>9. Smaller(r, pair) \in Nat \ {0}
  <2> DEFINE m == Cardinality(r[a].recs)
             n == Cardinality(r[b].recs)
  <2>1. {Cardinality(r[s].recs) : s \in pair} = {m, n}
    BY <1>1
  <2>2. m \in Nat \ {0} /\ n \in Nat \ {0}
    BY <1>2
  <2> HIDE DEF m, n
  <2>3. Min({m, n}) \in {m, n}
    BY <2>2, MinOfTwo
  <2> QED
    BY <2>1, <2>2, <2>3 DEF Smaller
<1>10. named \in BOOLEAN
  OBVIOUS
<1> HIDE DEF child, early, named
<1> QED
  BY <1>1, <1>5, <1>8, <1>9, <1>10

(* Fractions are in a row.                                                 *)
LEMMA FractionsInRow ==
  ASSUME NEW a \in Nat, NEW b \in Nat, NEW c \in Nat,
         NEW x \in Nat \ {0}, NEW y \in Nat \ {0}, NEW z \in Nat \ {0}
  PROVE  /\ a * y > b * x /\ b * z >= c * y => a * z > c * x
         /\ a * y >= b * x /\ b * z > c * y => a * z > c * x
         /\ a * y = b * x /\ b * z = c * y => a * z = c * x
<1>1. /\ (a * y) * z = (a * z) * y /\ (b * x) * z = (b * z) * x /\ (c * y) * x = (c * x) * y
      /\ a * y \in Nat /\ b * x \in Nat /\ b * z \in Nat /\ c * y \in Nat /\ a * z \in Nat
      /\ c * x \in Nat
  BY SMT
<1>2. \A m, n \in Nat, k \in Nat \ {0} : (m > n <=> m * k > n * k) /\ (m = n <=> m * k = n * k)
  BY SMTT(30)
<1> QED
  BY <1>1, <1>2

(* Of the candidates for a child none ties with another.                   *)
Candidates(r, s) == {e \in {Edge(r, pair) : pair \in {p \in Pairs : Alike(r, p)}} : e.child = s}
Better(r, s)     == {p \in Candidates(r, s) \X Candidates(r, s) : Stronger(p[1], p[2])}

(* The three places in which equal candidates are compared.                *)
LEMMA Lexicographic ==
  ASSUME NEW a1 \in Int, NEW a2 \in Int, NEW a3 \in Int,
         NEW b1 \in Int, NEW b2 \in Int, NEW b3 \in Int
  PROVE  (\E i \in 1 .. 3 : <<a1, a2, a3>>[i] < <<b1, b2, b3>>[i]
                            /\ \A j \in 1 .. (i - 1) : <<a1, a2, a3>>[j] = <<b1, b2, b3>>[j])
         <=> \/ a1 < b1
             \/ a1 = b1 /\ a2 < b2
             \/ a1 = b1 /\ a2 = b2 /\ a3 < b3
<1> DEFINE a == <<a1, a2, a3>>
           b == <<b1, b2, b3>>
           Differ(i) == a[i] < b[i] /\ \A j \in 1 .. (i - 1) : a[j] = b[j]
<1>1. /\ a[1] = a1 /\ a[2] = a2 /\ a[3] = a3
      /\ b[1] = b1 /\ b[2] = b2 /\ b[3] = b3
  OBVIOUS
<1> HIDE DEF a, b
<1>2. Differ(1) <=> a1 < b1
  BY <1>1
<1>3. Differ(2) <=> a1 = b1 /\ a2 < b2
  <2>1. 1 .. (2 - 1) = {1}
    OBVIOUS
  <2> QED
    BY <1>1, <2>1
<1>4. Differ(3) <=> a1 = b1 /\ a2 = b2 /\ a3 < b3
  <2>1. 1 .. (3 - 1) = {1, 2}
    OBVIOUS
  <2> QED
    BY <1>1, <2>1
<1> HIDE DEF Differ
<1>5. (\E i \in 1 .. 3 : Differ(i)) <=> Differ(1) \/ Differ(2) \/ Differ(3)
  <2>1. 1 .. 3 = {1, 2, 3}
    OBVIOUS
  <2> QED
    BY <2>1
<1>6. (\E i \in 1 .. 3 : Differ(i)) <=> \/ a1 < b1
                                        \/ a1 = b1 /\ a2 < b2
                                        \/ a1 = b1 /\ a2 = b2 /\ a3 < b3
  BY <1>2, <1>3, <1>4, <1>5
<1> QED
  BY <1>6 DEF Differ, a, b

(* What a candidate is.                                                    *)
LEMMA CandidateIs ==
  ASSUME NEW r \in [Session -> Content], NEW s \in Session, NEW c \in Candidates(r, s)
  PROVE  /\ c.child = s /\ c.parent \in Session \ {s}
         /\ r[s] # Nothing /\ r[c.parent] # Nothing
         /\ Cardinality(c.shared) \in Nat \ {0} /\ Min(c.shared) \in Int
         /\ c.of \in Nat \ {0} /\ c.named \in BOOLEAN
<1>1. PICK pair \in Pairs : Alike(r, pair) /\ c = Edge(r, pair) /\ c.child = s
  BY DEF Candidates
<1>2. /\ c.child # c.parent /\ pair = {c.child, c.parent} /\ c.parent \in Session
      /\ c.shared = Shared(r, pair) /\ c.of \in Nat \ {0} /\ c.named \in BOOLEAN
  BY <1>1, EdgeJoins
<1>3. /\ Shared(r, pair) \in SUBSET Nat /\ IsFiniteSet(Shared(r, pair))
      /\ Shared(r, pair) # {} /\ Cardinality(Shared(r, pair)) \in Nat \ {0}
      /\ \A t \in pair : r[t] # Nothing
  BY <1>1, AlikeHaveRecords
<1>4. Min(Shared(r, pair)) \in Shared(r, pair)
  <2>1. Shared(r, pair) \in SUBSET Int
    BY <1>3
  <2> QED
    BY <1>3, <2>1, MinOf
<1>5. pair = {s, c.parent}
  BY <1>1, <1>2
<1>6. r[s] # Nothing /\ r[c.parent] # Nothing
  BY <1>3, <1>5
<1> QED
  BY <1>1, <1>2, <1>3, <1>4, <1>6

(* Its parent tells it.                                                    *)
LEMMA CandidateEdge ==
  ASSUME NEW r \in [Session -> Content], NEW s \in Session, NEW c \in Candidates(r, s)
  PROVE  c = Edge(r, {s, c.parent})
<1>1. PICK pair \in Pairs : Alike(r, pair) /\ c = Edge(r, pair) /\ c.child = s
  BY DEF Candidates
<1>2. pair = {c.child, c.parent}
  BY <1>1, EdgeJoins
<1>3. pair = {s, c.parent}
  BY <1>1, <1>2
<1> QED
  BY <1>1, <1>3

(* The names of two sessions, smaller first, tell them.                    *)
LEMMA TwoInRow ==
  ASSUME NEW a \in Int, NEW b \in Int
  PROVE  /\ Min({a, b}) = IF a <= b THEN a ELSE b
         /\ Max({a, b}) = IF a <= b THEN b ELSE a
<1>1. {a, b} \in SUBSET Int /\ IsFiniteSet({a, b}) /\ {a, b} # {}
  <2>1. IsFiniteSet({a}) /\ {a, b} = {a} \cup {b}
    BY FS_Singleton
  <2> QED
    BY <2>1, FS_AddElement
<1>2. /\ Min({a, b}) \in {a, b} /\ \A x \in {a, b} : Min({a, b}) <= x
      /\ Max({a, b}) \in {a, b} /\ \A x \in {a, b} : Max({a, b}) >= x
  BY <1>1, MinOf, MaxOf
<1> QED
  BY <1>2

(* Which of two candidates is stronger.                                    *)
LEMMA StrongerIs ==
  ASSUME NEW r \in [Session -> Content], NEW s \in Session,
         NEW e \in Candidates(r, s), NEW f \in Candidates(r, s)
  PROVE  LET share(x, y) == Cardinality(x.shared) * y.of
             low(x)  == Min({x.child, x.parent})
             high(x) == Max({x.child, x.parent})
             first(x) == Min(x.shared)
         IN Stronger(e, f) <=>
              \/ e.named /\ ~f.named
              \/ e.named = f.named /\ share(e, f) > share(f, e)
              \/ /\ e.named = f.named /\ share(e, f) = share(f, e)
                 /\ \/ first(e) < first(f)
                    \/ first(e) = first(f) /\ low(e) < low(f)
                    \/ first(e) = first(f) /\ low(e) = low(f) /\ high(e) < high(f)
<1> DEFINE low(x)  == Min({x.child, x.parent})
           high(x) == Max({x.child, x.parent})
           first(x) == Min(x.shared)
           Earlier == \E i \in 1 .. 3 :
             <<first(e), low(e), high(e)>>[i] < <<first(f), low(f), high(f)>>[i]
             /\ \A j \in 1 .. (i - 1) :
                  <<first(e), low(e), high(e)>>[j] = <<first(f), low(f), high(f)>>[j]
<1>1. ASSUME NEW d \in Candidates(r, s) PROVE first(d) \in Int /\ low(d) \in Int /\ high(d) \in Int
  <2>1. d.child = s /\ d.parent \in Session \ {s} /\ Min(d.shared) \in Int
    BY CandidateIs
  <2>2. d.child \in Int /\ d.parent \in Int /\ first(d) \in Int
    BY <2>1, ThreadAssumption DEF Session
  <2> QED
    BY <2>2, TwoInRow
<1>2. Earlier <=> \/ first(e) < first(f)
                  \/ first(e) = first(f) /\ low(e) < low(f)
                  \/ first(e) = first(f) /\ low(e) = low(f) /\ high(e) < high(f)
  <2>1. /\ first(e) \in Int /\ low(e) \in Int /\ high(e) \in Int
        /\ first(f) \in Int /\ low(f) \in Int /\ high(f) \in Int
    BY <1>1
  <2> HIDE DEF first, low, high
  <2> QED
    BY <2>1, Lexicographic
<1>3. Stronger(e, f) <=>
        \/ e.named /\ ~f.named
        \/ e.named = f.named /\ Cardinality(e.shared) * f.of > Cardinality(f.shared) * e.of
        \/ /\ e.named = f.named /\ Cardinality(e.shared) * f.of = Cardinality(f.shared) * e.of
           /\ Earlier
  BY Zenon DEF Stronger
<1> HIDE DEF Earlier
<1> QED
  BY <1>2, <1>3, Zenon

(* So one is the strongest.                                                *)
LEMMA CandidatesOrdered ==
  ASSUME NEW r \in [Session -> Content], NEW s \in Session
  PROVE  IsFiniteSet(Candidates(r, s)) /\ Ordered(Candidates(r, s), Better(r, s))
<1> DEFINE C == Candidates(r, s)
           n(e) == Cardinality(e.shared)
           low(x)  == Min({x.child, x.parent})
           high(x) == Max({x.child, x.parent})
           first(x) == Min(x.shared)
           Earlier(e, f) == \/ first(e) < first(f)
                            \/ first(e) = first(f) /\ low(e) < low(f)
                            \/ first(e) = first(f) /\ low(e) = low(f) /\ high(e) < high(f)
<1>1. IsFiniteSet(C)
  <2> DEFINE P == {p \in Pairs : Alike(r, p)}
             E == {Edge(r, pair) : pair \in P}
             f == [pair \in P |-> Edge(r, pair)]
  <2>1. IsFiniteSet(Session)
    BY ThreadAssumption, FS_Interval DEF Session
  <2>2. P \subseteq SUBSET Session
    BY DEF Pairs
  <2>3. IsFiniteSet(P)
    <3>1. IsFiniteSet(SUBSET Session)
      BY <2>1, FS_SUBSET
    <3> QED
      BY <2>2, <3>1, FS_Subset
  <2>4. f \in Surjection(P, E)
    BY DEF Surjection
  <2>5. IsFiniteSet(E)
    <3> HIDE DEF P, E, f
    <3> QED
      BY <2>3, <2>4, FS_Surjection
  <2>6. C \subseteq E
    BY DEF Candidates
  <2> QED
    BY <2>5, <2>6, FS_Subset
<1>2. ASSUME NEW e \in C
      PROVE  /\ n(e) \in Nat \ {0} /\ e.of \in Nat \ {0} /\ e.named \in BOOLEAN
             /\ first(e) \in Int /\ low(e) \in Int /\ high(e) \in Int
             /\ e.child = s /\ e.parent \in Int /\ s \in Int /\ e = Edge(r, {s, e.parent})
             /\ low(e) = IF s <= e.parent THEN s ELSE e.parent
             /\ high(e) = IF s <= e.parent THEN e.parent ELSE s
  <2>1. e.child = s /\ e.parent \in Int /\ s \in Int
    BY CandidateIs, ThreadAssumption DEF Session
  <2>3. e = Edge(r, {s, e.parent})
    BY CandidateEdge
  <2>2. /\ low(e) = IF s <= e.parent THEN s ELSE e.parent
        /\ high(e) = IF s <= e.parent THEN e.parent ELSE s
    BY <2>1, TwoInRow
  <2> HIDE DEF low, high
  <2> QED
    BY <2>1, <2>2, <2>3, CandidateIs
<1>3. ASSUME NEW e \in C, NEW f \in C
      PROVE  <<e, f>> \in Better(r, s) <=>
              \/ e.named /\ ~f.named
              \/ e.named = f.named /\ n(e) * f.of > n(f) * e.of
              \/ e.named = f.named /\ n(e) * f.of = n(f) * e.of /\ Earlier(e, f)
  <2>1. <<e, f>> \in Better(r, s) <=> Stronger(e, f)
    BY DEF Better
  <2> QED
    BY <2>1, StrongerIs
<1>4. ASSUME NEW e \in C, NEW f \in C, e # f PROVE Earlier(e, f) \/ Earlier(f, e)
  <2>1. e.parent # f.parent
    BY <1>2, <1>4
  <2>2. low(e) # low(f) \/ high(e) # high(f)
    <3> HIDE DEF low, high
    <3> QED
      BY <1>2, <2>1
  <2>3. /\ first(e) \in Int /\ low(e) \in Int /\ high(e) \in Int
        /\ first(f) \in Int /\ low(f) \in Int /\ high(f) \in Int
    BY <1>2
  <2> HIDE DEF low, high, first
  <2> QED
    BY <2>2, <2>3
<1>5. ASSUME NEW e \in C, NEW f \in C, NEW g \in C, Earlier(e, f), Earlier(f, g)
      PROVE  Earlier(e, g)
  <2>1. \A x \in {e, f, g} : first(x) \in Int /\ low(x) \in Int /\ high(x) \in Int
    BY <1>2
  <2> HIDE DEF low, high, first
  <2> QED
    BY <1>5, <2>1
<1>6. ASSUME NEW e \in C PROVE ~Earlier(e, e)
  <2>1. first(e) \in Int /\ low(e) \in Int /\ high(e) \in Int
    BY <1>2
  <2> HIDE DEF low, high, first
  <2> QED
    BY <2>1
<1> HIDE DEF low, high, first, Earlier
<1>7. ASSUME NEW e \in C PROVE <<e, e>> \notin Better(r, s)
  <2>1. n(e) \in Nat /\ e.of \in Nat
    BY <1>2
  <2> HIDE DEF n
  <2>2. ~(n(e) * e.of > n(e) * e.of)
    BY <2>1
  <2> QED
    BY <1>3, <1>6, <2>2, Zenon
<1>8. ASSUME NEW e \in C, NEW f \in C, e # f
      PROVE  <<e, f>> \in Better(r, s) \/ <<f, e>> \in Better(r, s)
  <2>0. n(e) \in Nat /\ n(f) \in Nat /\ e.of \in Nat /\ f.of \in Nat
    BY <1>2
  <2> HIDE DEF n
  <2>1. n(e) * f.of \in Nat /\ n(f) * e.of \in Nat
    BY <2>0
  <2>2. e.named \in BOOLEAN /\ f.named \in BOOLEAN
    BY <1>2
  <2>3. n(e) * f.of > n(f) * e.of \/ n(f) * e.of > n(e) * f.of \/ n(e) * f.of = n(f) * e.of
    BY <2>1
  <2> QED
    BY <1>3, <1>4, <1>8, <2>2, <2>3, Zenon
<1>9. ASSUME NEW e \in C, NEW f \in C, NEW g \in C,
             <<e, f>> \in Better(r, s), <<f, g>> \in Better(r, s)
      PROVE  <<e, g>> \in Better(r, s)
  <2>1. /\ n(e) \in Nat /\ n(f) \in Nat /\ n(g) \in Nat
        /\ e.of \in Nat \ {0} /\ f.of \in Nat \ {0} /\ g.of \in Nat \ {0}
        /\ e.named \in BOOLEAN /\ f.named \in BOOLEAN /\ g.named \in BOOLEAN
    BY <1>2
  <2> HIDE DEF n
  <2> DEFINE a == n(e)  b == n(f)  c == n(g)  x == e.of  y == f.of  z == g.of
  <2>2. /\ n(e) * f.of > n(f) * e.of /\ n(f) * g.of >= n(g) * f.of => n(e) * g.of > n(g) * e.of
        /\ n(e) * f.of >= n(f) * e.of /\ n(f) * g.of > n(g) * f.of => n(e) * g.of > n(g) * e.of
        /\ n(e) * f.of = n(f) * e.of /\ n(f) * g.of = n(g) * f.of => n(e) * g.of = n(g) * e.of
    <3>1. /\ a \in Nat /\ b \in Nat /\ c \in Nat
          /\ x \in Nat \ {0} /\ y \in Nat \ {0} /\ z \in Nat \ {0}
      BY <2>1
    <3> HIDE DEF a, b, c, x, y, z
    <3>2. /\ a * y > b * x /\ b * z >= c * y => a * z > c * x
          /\ a * y >= b * x /\ b * z > c * y => a * z > c * x
          /\ a * y = b * x /\ b * z = c * y => a * z = c * x
      BY <3>1, FractionsInRow
    <3> QED
      BY <3>2 DEF a, b, c, x, y, z
  <2>3. /\ n(e) * f.of \in Nat /\ n(f) * e.of \in Nat /\ n(f) * g.of \in Nat /\ n(g) * f.of \in Nat
    BY <2>1
  <2>4. /\ n(e) * f.of = n(f) * e.of => n(e) * f.of >= n(f) * e.of
        /\ n(e) * f.of > n(f) * e.of => n(e) * f.of >= n(f) * e.of
        /\ n(f) * g.of = n(g) * f.of => n(f) * g.of >= n(g) * f.of
        /\ n(f) * g.of > n(g) * f.of => n(f) * g.of >= n(g) * f.of
    BY <2>3
  <2> QED
    BY <1>3, <1>5, <1>9, <2>1, <2>2, <2>4, Zenon
<1> HIDE DEF C
<1> QED
  BY <1>1, <1>7, <1>8, <1>9 DEF Ordered, C

(* Who has candidates gets the strongest one's other session for parent:   *)
(* both are sessions of the index.                                         *)
LEMMA ParentIs ==
  ASSUME NEW r \in [Session -> Content], NEW s \in Session, Parents(r)[s] # 0
  PROVE  /\ Parents(r)[s] \in Session \ {s}
         /\ r[s] # Nothing /\ r[Parents(r)[s]] # Nothing
<1> DEFINE edges   == {Edge(r, pair) : pair \in {p \in Pairs : Alike(r, p)}}
           Best(e) == e.child = s /\ \A f \in edges \ {e} : f.child = s => Stronger(e, f)
           best    == CHOOSE e \in edges : Best(e)
           C       == Candidates(r, s)
<1>1. Parents(r)[s] = IF \E e \in edges : e.child = s THEN best.parent ELSE 0
  BY DEF Parents
<1>2. C = {e \in edges : e.child = s}
  BY DEF Candidates
<1>3. C # {}
  BY <1>1, <1>2
<1>4. PICK m \in C : Rank(C, Better(r, s), m) = 0
  <2>1. IsFiniteSet(C) /\ Ordered(C, Better(r, s))
    BY CandidatesOrdered
  <2> HIDE DEF C
  <2>2. 0 \in 0 .. (Cardinality(C) - 1)
    BY <1>3, <2>1, FS_CardinalityType, FS_EmptySet
  <2> QED
    BY <2>1, <2>2, RankIsOnto
<1>5. {f \in C : <<f, m>> \in Better(r, s)} = {}
  <2>1. IsFiniteSet(C)
    BY CandidatesOrdered
  <2> HIDE DEF C
  <2> QED
    BY <1>4, <2>1, FS_Subset, FS_EmptySet DEF Rank
<1>6. ASSUME NEW f \in C, f # m PROVE Stronger(m, f)
  <2>1. <<m, f>> \in Better(r, s)
    BY <1>5, <1>6, CandidatesOrdered DEF Ordered
  <2> QED
    BY <2>1 DEF Better
<1>7. m \in edges /\ Best(m)
  BY <1>2, <1>6
<1>8. best \in edges /\ Best(best)
  <2> HIDE DEF edges, Best
  <2> QED
    BY <1>7
<1>9. best \in C
  BY <1>2, <1>8
<1>10. best.parent \in Session \ {s} /\ r[s] # Nothing /\ r[best.parent] # Nothing
  <2> HIDE DEF best
  <2> QED
    BY <1>9, CandidateIs
<1>11. Parents(r)[s] = best.parent
  BY <1>1, <1>8
<1> HIDE DEF best
<1> QED
  BY <1>10, <1>11

(* So only sessions of the index are in chains, and what was derived from  *)
(* the index can be stored.                                                *)
LEMMA LinksAreIndexed ==
  ASSUME NEW r \in [Session -> Content], NEW s \in Session, Chains(r)[s] # NoRow
  PROVE  r[s] # Nothing
<1> DEFINE par == Parents(r)
<1>1. par[s] # 0 \/ \E t \in Session : par[t] = s
  BY DEF Chains
<1>2. s # 0
  BY ThreadAssumption DEF Session
<1> HIDE DEF par
<1>3. CASE par[s] # 0
  BY <1>3, ParentIs DEF par
<1>4. ASSUME NEW t \in Session, par[t] = s PROVE r[s] # Nothing
  BY <1>2, <1>4, ParentIs DEF par
<1> QED
  BY <1>1, <1>3, <1>4

(* What a cold index of the transcripts would have of a session.           *)
Fresh(s) == IF s \in forgotten THEN Nothing ELSE IF s \in gone THEN row[s] ELSE file[s]

(* Rows come from transcripts and go with a tombstone; a pass that nothing *)
(* has disturbed since its start owns the lease, has brought up to date    *)
(* what it has behind it, and derives from that.                           *)
RowsFollow ==
  /\ gone \subseteq Session /\ calm \subseteq Indexer
  /\ \A s \in Session : (s \in forgotten => row[s] = Nothing) /\ (row[s] # Nothing => file[s] # Nothing)

CalmPass ==
  \A p \in calm :
    /\ p = owner
    /\ pass[p].at = "capture" => \A s \in Session \ pass[p].todo : row[s] = Fresh(s)
    /\ pass[p].at = "derived" => /\ pass[p].found = Chains(row)
                                 /\ \A s \in Session : row[s] = Fresh(s)

HealInv == RowsFollow /\ CalmPass

(* Nothing is indexed and no pass has begun.                               *)
LEMMA HealInit == ThreadsInit => HealInv
BY DEF ThreadsInit, HealInv, RowsFollow, CalmPass

(* Steps that disturb all passes leave no claim about one.                 *)
LEMMA NothingCalm == calm' = {} => CalmPass'
BY DEF CalmPass

(* Of passes only that of the owner stays undisturbed.                     *)
LEMMA HealNext == ThreadsInv /\ HealInv /\ [ThreadsNext]_threadVars => HealInv'
<1> SUFFICES ASSUME ThreadsInv, HealInv, [ThreadsNext]_threadVars PROVE HealInv'
  OBVIOUS
<1> USE DEF HealInv
<1>0. /\ pass = [p \in Indexer |-> pass[p]]
      /\ \A p \in Indexer :
           pass[p] = [at |-> pass[p].at, todo |-> pass[p].todo, found |-> pass[p].found]
      /\ row \in [Session -> Content] /\ file \in [Session -> Content]
  BY DEF ThreadsInv, PassesFit
<1>1. CASE UNCHANGED threadVars
  BY <1>1 DEF threadVars, fileState, indexState, RowsFollow, CalmPass, Fresh
<1>2. ASSUME NEW s \in Session, NEW recs, NEW names, Writes(s, recs, names) PROVE HealInv'
  <2>1. [recs |-> recs \cup {clock + 1}, names |-> names \ {s}] # Nothing
    <3>1. recs \cup {clock + 1} # {}
      OBVIOUS
    <3> QED
      BY <3>1 DEF Nothing
  <2>2. \A t \in Session : file[t] # Nothing => file'[t] # Nothing
    BY <1>0, <1>2, <2>1 DEF Writes
  <2>3. calm' = {} /\ UNCHANGED <<gone, row, forgotten>>
    BY <1>2 DEF Writes, indexState
  <2> QED
    BY <2>2, <2>3, NothingCalm DEF RowsFollow
<1>3. ASSUME NEW s \in Session, WriteRecord(s) \/ \E t \in Session : ResumeAs(s, t)
      PROVE  HealInv'
  BY <1>2, <1>3, Zenon DEF WriteRecord, ResumeAs
<1>4. ASSUME NEW s \in Session, Sweep(s) PROVE HealInv'
  BY <1>4, NothingCalm DEF Sweep, indexState, RowsFollow
<1>5. ASSUME NEW s \in Session, ForgetSession(s) PROVE HealInv'
  <2>1. RowsFollow'
    BY <1>0, <1>5 DEF ForgetSession, fileState, RowsFollow
  <2> QED
    BY <1>5, <2>1, NothingCalm DEF ForgetSession
<1>6. ASSUME NEW p \in Indexer, Overtake(p) PROVE HealInv'
  BY <1>6, NothingCalm DEF Overtake, fileState, indexState, RowsFollow
<1>7. ASSUME NEW p \in Indexer, Discover(p) PROVE HealInv'
  <2> DEFINE todo == {s \in Session : file[s] # Nothing /\ s \notin gone}
  <2>1. /\ calm' = {p} /\ p = owner /\ UNCHANGED <<file, gone, row, forgotten, owner>>
        /\ pass' = [pass EXCEPT ![p].at = "capture", ![p].todo = todo]
    BY <1>7 DEF Discover, fileState, indexState
  <2>2. pass'[p].at = "capture" /\ pass'[p].todo = todo
    <3>1. PICK a, b, c : pass[p] = [at |-> a, todo |-> b, found |-> c]
      BY <1>0
    <3> HIDE DEF todo
    <3> QED
      BY <1>0, <2>1, <3>1
  <2>3. \A s \in Session \ todo : row[s] = Fresh(s)
    BY DEF RowsFollow, Fresh
  <2>4. \A s \in Session : Fresh(s)' = Fresh(s)
    BY <2>1 DEF Fresh
  <2> QED
    BY <2>1, <2>2, <2>3, <2>4 DEF RowsFollow, CalmPass
<1>8. ASSUME NEW p \in Indexer, NEW s \in Session, IndexFile(p, s) PROVE HealInv'
  <2>1. /\ pass[p].at = "capture" /\ pass' = [pass EXCEPT ![p].todo = pass[p].todo \ {s}]
        /\ row' = IF s \in forgotten \cup gone \/ p # owner THEN row
                  ELSE [row EXCEPT ![s] = file[s]]
        /\ calm' = calm \cap {p} /\ UNCHANGED <<file, gone, forgotten, owner>>
    BY <1>8 DEF IndexFile, UpTo, fileState
  <2>2. RowsFollow'
    BY <1>0, <2>1 DEF RowsFollow
  <2>3. ASSUME p \in calm PROVE CalmPass'
    <3>1. pass'[p].at = "capture" /\ pass'[p].todo = pass[p].todo \ {s}
      <4>1. PICK a, b, c : pass[p] = [at |-> a, todo |-> b, found |-> c]
        BY <1>0
      <4> QED
        BY <1>0, <2>1, <4>1
    <3>2. p = owner /\ \A t \in Session \ pass[p].todo : row[t] = Fresh(t)
      BY <2>1, <2>3 DEF CalmPass
    <3>3. \A t \in Session : row'[t] = IF t = s /\ s \notin forgotten \cup gone THEN file[s] ELSE row[t]
      BY <1>0, <2>1, <3>2
    <3>4. \A t \in Session \ pass'[p].todo : row'[t] = Fresh(t)'
      <4> SUFFICES ASSUME NEW t \in Session, t \notin pass[p].todo \/ t = s
                   PROVE  row'[t] = Fresh(t)'
        BY <3>1
      <4>1. CASE t = s
        BY <2>1, <3>3, <4>1 DEF Fresh, RowsFollow
      <4>2. CASE t # s
        BY <2>1, <3>2, <3>3, <4>2 DEF Fresh
      <4> QED
        BY <4>1, <4>2
    <3> QED
      BY <2>1, <3>1, <3>2, <3>4 DEF CalmPass
  <2>4. ASSUME p \notin calm PROVE CalmPass'
    BY <2>1, <2>4, NothingCalm
  <2> QED
    BY <2>2, <2>3, <2>4
<1>9. ASSUME NEW p \in Indexer, NEW s \in Session, IndexFails(p, s) PROVE HealInv'
  BY <1>9, NothingCalm DEF IndexFails, fileState, indexState, RowsFollow
<1>10. ASSUME NEW p \in Indexer, Derive(p) PROVE HealInv'
  <2>1. /\ pass[p].at = "capture" /\ pass[p].todo = {}
        /\ pass' = [pass EXCEPT ![p].at = "derived", ![p].found = Chains(row)]
        /\ calm' = calm \cap {p} /\ UNCHANGED <<file, gone, row, forgotten, owner>>
    BY <1>10 DEF Derive, fileState, indexState
  <2>2. pass'[p].at = "derived" /\ pass'[p].found = Chains(row)
    <3>1. PICK a, b, c : pass[p] = [at |-> a, todo |-> b, found |-> c]
      BY <1>0
    <3> DEFINE tab == Chains(row)
    <3>2. pass' = [pass EXCEPT ![p].at = "derived", ![p].found = tab]
      BY <2>1
    <3> HIDE DEF tab
    <3>3. pass'[p].at = "derived" /\ pass'[p].found = tab
      BY <1>0, <3>1, <3>2
    <3> QED
      BY <3>3 DEF tab
  <2>3. RowsFollow'
    BY <2>1 DEF RowsFollow
  <2>4. ASSUME p \in calm PROVE CalmPass'
    <3>1. p = owner /\ \A t \in Session : row[t] = Fresh(t)
      BY <2>1, <2>4 DEF CalmPass
    <3>2. \A t \in Session : Fresh(t)' = Fresh(t)
      BY <2>1 DEF Fresh
    <3>3. row' = row
      BY <2>1
    <3>4. Chains(row)' = Chains(row)
      BY <3>3, Zenon
    <3> HIDE DEF Fresh
    <3> QED
      BY <2>1, <2>2, <3>1, <3>2, <3>3, <3>4 DEF CalmPass
  <2>5. ASSUME p \notin calm PROVE CalmPass'
    BY <2>1, <2>5, NothingCalm
  <2> QED
    BY <2>3, <2>4, <2>5
<1>11. ASSUME NEW p \in Indexer, WriteThreads(p) PROVE HealInv'
  <2>1. /\ pass' = [pass EXCEPT ![p] = NoPass]
        /\ calm' = calm \cap {p} /\ UNCHANGED <<file, gone, row, forgotten, owner>>
    BY <1>11 DEF WriteThreads, fileState
  <2>2. pass'[p].at = "idle" \/ p \notin Indexer
    BY <1>0, <2>1 DEF NoPass
  <2> QED
    BY <2>1, <2>2 DEF RowsFollow, CalmPass
<1>12. ASSUME NEW p \in Indexer, AbandonPass(p) PROVE HealInv'
  BY <1>12, NothingCalm DEF AbandonPass, fileState, indexState, RowsFollow
<1> QED
  BY <1>1, <1>3, <1>4, <1>5, <1>6, <1>7, <1>8, <1>9, <1>10, <1>11, <1>12, ThreadAssumption
  DEF ThreadsNext

(* Whoever writes undisturbed writes the chains of what is there.          *)
LEMMA HealStep ==
  ASSUME ThreadsInv, HealInv, ThreadsNext, NEW p \in Indexer, pass[p].at = "derived",
         p \in calm, p \in calm'
  PROVE  threads' = Chains([s \in Session |-> Fresh(s)])
<1>1. WriteThreads(p)
  <2>1. ASSUME NEW q \in Indexer, WriteThreads(q) PROVE q = p
    BY <2>1 DEF WriteThreads
  <2>2. ASSUME NEW q \in Indexer, Discover(q) PROVE FALSE
    BY <2>2 DEF Discover
  <2>3. ASSUME NEW q \in Indexer, Derive(q) \/ \E s \in Session : IndexFile(q, s) PROVE FALSE
    BY <2>3 DEF Derive, IndexFile, UpTo
  <2>4. ASSUME NEW s \in Session, WriteRecord(s) \/ Sweep(s) \/ \E t \in Session : ResumeAs(s, t)
        PROVE  FALSE
    BY <2>4 DEF WriteRecord, Sweep, ResumeAs, Writes
  <2>5. ASSUME NEW s \in Forgettable, ForgetSession(s) PROVE FALSE
    BY <2>5 DEF ForgetSession
  <2>6. ASSUME NEW q \in Indexer, Overtake(q) \/ AbandonPass(q) \/ \E s \in Session : IndexFails(q, s)
        PROVE  FALSE
    BY <2>6 DEF Overtake, AbandonPass, IndexFails
  <2> QED
    BY <2>1, <2>2, <2>3, <2>4, <2>5, <2>6 DEF ThreadsNext
<1>2. pass[p].found = Chains(row) /\ \A s \in Session : row[s] = Fresh(s)
  BY DEF HealInv, CalmPass
<1>3. row \in [Session -> Content]
  BY DEF ThreadsInv
<1>4. \A s \in Session : pass[p].found[s] # NoRow => row[s] # Nothing
  BY <1>2, <1>3, LinksAreIndexed
<1>5. threads' = Chains(row)
  BY <1>1, <1>2, <1>4 DEF WriteThreads
<1>6. row = [s \in Session |-> Fresh(s)]
  BY <1>2, <1>3
<1> QED
  BY <1>5, <1>6, Zenon

(* rootOf(), link by link: a function that takes these steps up to the     *)
(* m-th one.                                                               *)
NextLink(par, s, f, n) ==
  IF n = 0 THEN s
  ELSE IF par[f[n - 1]] \in {0} \cup {f[k] : k \in 0 .. (n - 1)} THEN f[n - 1]
  ELSE par[f[n - 1]]
IsWalk(par, s, f, m) == f = [n \in 0 .. m |-> NextLink(par, s, f, n)]

(* There is one, because each link depends on earlier ones only.           *)
LEMMA WalkExists ==
  ASSUME NEW par, NEW s, NEW m \in Nat
  PROVE  \E f : IsWalk(par, s, f, m)
<1> DEFINE Bad == {n \in 0 .. m : ~ \E f : IsWalk(par, s, f, n)}
<1>1. SUFFICES ASSUME Bad # {} PROVE FALSE
  OBVIOUS
<1>2. PICK n \in Bad : \A k \in Bad : n <= k
  <2>1. IsFiniteSet(0 .. m) /\ Bad \in SUBSET (0 .. m)
    BY FS_Interval
  <2>2. Bad \in SUBSET Int /\ IsFiniteSet(Bad)
    BY <2>1, FS_Subset
  <2> HIDE DEF Bad
  <2> QED
    BY <1>1, <2>2, MinOf
<1>3. n \in 0 .. m /\ ~ \E f : IsWalk(par, s, f, n)
  BY <1>2
<1>4. \E f : n = 0 \/ IsWalk(par, s, f, n - 1)
  <2>1. n # 0 => n - 1 \in 0 .. m /\ n - 1 \notin Bad
    BY <1>2, <1>3
  <2> QED
    BY <1>3, <2>1
<1>5. PICK f : n = 0 \/ IsWalk(par, s, f, n - 1)
  BY <1>4
<1> DEFINE g == [k \in 0 .. n |-> NextLink(par, s, f, k)]
<1> HIDE DEF Bad
<1>6. ASSUME NEW k \in 0 .. (n - 1) PROVE g[k] = f[k]
  <2>1. n # 0 /\ k \in 0 .. n
    BY <1>3
  <2>2. f[k] = NextLink(par, s, f, k)
    BY <1>5, <2>1 DEF IsWalk
  <2> QED
    BY <2>1, <2>2
<1>7. ASSUME NEW k \in 0 .. n PROVE NextLink(par, s, g, k) = NextLink(par, s, f, k)
  <2> HIDE DEF g
  <2>1. CASE k = 0
    BY <2>1 DEF NextLink
  <2>2. CASE k # 0
    <3>1. k - 1 \in 0 .. (n - 1) /\ \A i \in 0 .. (k - 1) : i \in 0 .. (n - 1)
      BY <1>3, <2>2
    <3>2. {g[i] : i \in 0 .. (k - 1)} = {f[i] : i \in 0 .. (k - 1)}
      BY <1>6, <3>1
    <3>3. g[k - 1] = f[k - 1]
      BY <1>6, <3>1
    <3> QED
      BY <3>2, <3>3 DEF NextLink
  <2> QED
    BY <2>1, <2>2
<1>8. IsWalk(par, s, g, n)
  BY <1>7 DEF IsWalk
<1> QED
  BY <1>3, <1>8

(* Walking up from a session never leaves the sessions.                    *)
LEMMA WalkStays ==
  ASSUME NEW par, \A t \in Session : par[t] \in {0} \cup Session, NEW s \in Session
  PROVE  \A n \in 0 .. Sessions : Walk(par, s)[n] \in Session
<1> DEFINE at == Walk(par, s)
<1>1. Sessions \in Nat
  BY ThreadAssumption
<1>2. at = CHOOSE f : IsWalk(par, s, f, Sessions)
  BY DEF Walk, IsWalk, NextLink
<1>3. IsWalk(par, s, at, Sessions)
  <2> HIDE DEF at
  <2> QED
    BY <1>1, <1>2, WalkExists
<1> HIDE DEF at
<1> DEFINE Bad == {n \in 0 .. Sessions : at[n] \notin Session}
<1>4. SUFFICES ASSUME Bad # {} PROVE FALSE
  BY DEF at
<1>5. PICK n \in Bad : \A k \in Bad : n <= k
  <2>1. IsFiniteSet(0 .. Sessions) /\ Bad \in SUBSET (0 .. Sessions)
    BY <1>1, FS_Interval
  <2>2. Bad \in SUBSET Int /\ IsFiniteSet(Bad)
    BY <1>1, <2>1, FS_Subset
  <2> HIDE DEF Bad
  <2> QED
    BY <1>4, <2>2, MinOf
<1>6. at[n] = NextLink(par, s, at, n)
  BY <1>3, <1>5 DEF IsWalk
<1>7. n # 0
  BY <1>5, <1>6 DEF NextLink
<1>8. n - 1 \in 0 .. Sessions /\ n - 1 \notin Bad
  BY <1>1, <1>5, <1>7
<1>9. at[n - 1] \in Session
  BY <1>8
<1>10. at[n] \in Session
  BY <1>6, <1>7, <1>9 DEF NextLink
<1> QED
  BY <1>5, <1>10

(* So there are no more links in a chain than sessions.                    *)
LEMMA FewLinks ==
  ASSUME NEW f, NEW n \in Nat
  PROVE  Cardinality({f[i] : i \in 0 .. n}) \in 1 .. (n + 1)
<1> DEFINE g == [i \in 0 .. n |-> f[i]]
           T == {f[i] : i \in 0 .. n}
<1>1. g \in Surjection(0 .. n, T)
  BY DEF Surjection
<1>2. IsFiniteSet(0 .. n) /\ Cardinality(0 .. n) = n + 1
  BY FS_Interval
<1>3. T # {}
  <2>1. 0 \in 0 .. n
    OBVIOUS
  <2> QED
    BY <2>1
<1> HIDE DEF g, T
<1>4. IsFiniteSet(T) /\ Cardinality(T) <= n + 1
  BY <1>1, <1>2, FS_Surjection
<1>5. Cardinality(T) \in Nat \ {0}
  BY <1>3, <1>4, FS_CardinalityType, FS_EmptySet
<1> QED
  BY <1>4, <1>5 DEF T

(* What deriveThreads() stores is a table of chains of sessions.           *)
LEMMA ChainsAreTables ==
  ASSUME NEW r \in [Session -> Content] PROVE Chains(r) \in Table
<1> DEFINE par     == Parents(r)
           linked  == {s \in Session : par[s] # 0 \/ \E t \in Session : par[t] = s}
           walk    == [s \in linked |-> Walk(par, s)]
           root(s) == walk[s][Sessions]
           depth(s) == Cardinality({walk[s][n] : n \in 0 .. Sessions}) - 1
           end(s)  == Max(r[s].recs \cup {0})
           before(s, t) == \/ depth(s) < depth(t)
                           \/ depth(s) = depth(t)
                              /\ (end(s) < end(t) \/ (end(s) = end(t) /\ s < t))
           head(s) == \A t \in linked \ {s} : root(t) = root(s) => before(t, s)
           tab == [s \in Session |->
                     IF s \notin linked THEN NoRow
                     ELSE [root |-> root(s), parent |-> par[s], depth |-> depth(s),
                           head |-> head(s)]]
           Row  == [root : 0 .. Sessions, parent : 0 .. Sessions,
                       depth : 0 .. Sessions, head : BOOLEAN]
<1>1. Chains(r) = tab
  BY DEF Chains
<1>2. Sessions \in Nat /\ Session \subseteq 0 .. Sessions
  BY ThreadAssumption DEF Session
<1>3. ASSUME NEW s \in Session PROVE par[s] \in {0} \cup Session
  BY ParentIs
<1>4. ASSUME NEW s \in linked PROVE root(s) \in Session /\ depth(s) \in 0 .. Sessions
  <2>1. walk[s] = Walk(par, s) /\ s \in Session
    BY <1>4
  <2>2. Sessions \in 0 .. Sessions
    BY <1>2
  <2>3. root(s) \in Session
    <3> HIDE DEF par, walk
    <3> QED
      BY <1>3, <2>1, <2>2, WalkStays
  <2>4. Cardinality({walk[s][n] : n \in 0 .. Sessions}) \in 1 .. (Sessions + 1)
    <3> HIDE DEF walk
    <3> QED
      BY <1>2, FewLinks
  <2> HIDE DEF walk
  <2> QED
    BY <1>2, <2>3, <2>4
<1>5. ASSUME NEW s \in Session PROVE head(s) \in BOOLEAN
  OBVIOUS
<1> HIDE DEF par, walk, root, depth, head
<1>6. ASSUME NEW s \in Session PROVE tab[s] \in Row
  <2>1. CASE s \in linked
    <3>1. tab[s] = [root |-> root(s), parent |-> par[s], depth |-> depth(s), head |-> head(s)]
      BY <2>1
    <3>2. root(s) \in 0 .. Sessions /\ par[s] \in 0 .. Sessions
      <4>1. root(s) \in Session /\ par[s] \in {0} \cup Session /\ 0 \in 0 .. Sessions
        BY <1>2, <1>3, <1>4, <2>1
      <4> HIDE DEF linked
      <4> QED
        BY <1>2, <4>1
    <3>3. \A a, b, c \in 0 .. Sessions : \A h \in BOOLEAN :
            [root |-> a, parent |-> b, depth |-> c, head |-> h] \in Row
      OBVIOUS
    <3> HIDE DEF Row
    <3> QED
      BY <1>4, <1>5, <2>1, <3>1, <3>2, <3>3, Zenon
  <2>2. CASE s \notin linked
    BY <1>2, <2>2 DEF NoRow
  <2> QED
    BY <2>1, <2>2
<1> HIDE DEF linked
<1>7. tab \in [Session -> Row]
  BY <1>6
<1> HIDE DEF tab
<1> QED
  BY <1>1, <1>7 DEF Table

(* A pass has one of three places and sessions to go through.              *)
Passes == [at : {"idle", "capture", "derived"}, todo : SUBSET Session, found : Table]

ThreadsTyped ==
  /\ owner \in Indexer /\ forgotten \subseteq Forgettable
  /\ threads \in Table /\ pass \in [Indexer -> Passes]

(* At the start there are no chains.                                       *)
LEMMA ThreadsInitTyped == ThreadsInit => ThreadsTyped
<1> SUFFICES ASSUME ThreadsInit PROVE ThreadsTyped
  OBVIOUS
<1>1. NoTable \in Table
  BY ThreadAssumption DEF NoTable, NoRow, Table
<1>2. NoPass \in Passes
  BY <1>1 DEF NoPass, Passes
<1> QED
  BY <1>1, <1>2, ThreadAssumption DEF ThreadsInit, ThreadsTyped

(* Every step keeps the types.                                             *)
LEMMA ThreadsNextTyped ==
  ThreadsInv /\ ThreadsTyped /\ [ThreadsNext]_threadVars => ThreadsTyped'
<1> SUFFICES ASSUME ThreadsInv, ThreadsTyped, [ThreadsNext]_threadVars PROVE ThreadsTyped'
  OBVIOUS
<1> USE DEF ThreadsTyped
<1>1. CASE UNCHANGED threadVars
  BY <1>1 DEF threadVars, indexState
<1>2. ASSUME NEW s \in Session, WriteRecord(s) \/ Sweep(s) \/ \E t \in Session : ResumeAs(s, t)
      PROVE  ThreadsTyped'
  BY <1>2 DEF WriteRecord, Sweep, ResumeAs, Writes, indexState
<1>3. ASSUME NEW s \in Forgettable, ForgetSession(s) PROVE ThreadsTyped'
  <2>1. NoRow \in [root : 0 .. Sessions, parent : 0 .. Sessions, depth : 0 .. Sessions, head : BOOLEAN]
    BY ThreadAssumption DEF NoRow
  <2>2. threads' \in Table
    BY <1>3, <2>1 DEF ForgetSession, Table
  <2> QED
    BY <1>3, <2>2 DEF ForgetSession
<1>4. ASSUME NEW p \in Indexer, Overtake(p) PROVE ThreadsTyped'
  BY <1>4 DEF Overtake, indexState
<1>5. ASSUME NEW p \in Indexer, Discover(p) PROVE ThreadsTyped'
  <2> DEFINE todo == {s \in Session : file[s] # Nothing /\ s \notin gone}
  <2>1. pass' = [pass EXCEPT ![p].at = "capture", ![p].todo = todo] /\ todo \in SUBSET Session
    BY <1>5 DEF Discover
  <2> HIDE DEF todo
  <2>2. pass' \in [Indexer -> Passes]
    BY <2>1 DEF Passes
  <2> QED
    BY <1>5, <2>2 DEF Discover, indexState
<1>6. ASSUME NEW p \in Indexer, NEW s \in Session, IndexFile(p, s) \/ IndexFails(p, s)
      PROVE  ThreadsTyped'
  <2>1. pass' = [pass EXCEPT ![p].todo = pass[p].todo \ {s}]
    BY <1>6 DEF IndexFile, IndexFails
  <2>2. pass' \in [Indexer -> Passes]
    BY <2>1 DEF Passes
  <2> QED
    BY <1>6, <2>2 DEF IndexFile, IndexFails, indexState
<1>7. ASSUME NEW p \in Indexer, Derive(p) PROVE ThreadsTyped'
  <2> DEFINE tab == Chains(row)
  <2>1. pass' = [pass EXCEPT ![p].at = "derived", ![p].found = tab] /\ tab \in Table
    BY <1>7, ChainsAreTables DEF Derive, ThreadsInv
  <2> HIDE DEF tab
  <2>2. pass' \in [Indexer -> Passes]
    BY <2>1 DEF Passes
  <2> QED
    BY <1>7, <2>2 DEF Derive, indexState
<1>8. ASSUME NEW p \in Indexer, WriteThreads(p) \/ AbandonPass(p) PROVE ThreadsTyped'
  <2>1. NoPass \in Passes
    BY ThreadAssumption DEF NoPass, NoTable, NoRow, Table, Passes
  <2>2. pass' \in [Indexer -> Passes]
    BY <1>8, <2>1 DEF WriteThreads, AbandonPass
  <2>3. pass[p].found \in Table
    BY DEF Passes
  <2> QED
    BY <1>8, <2>2, <2>3 DEF WriteThreads, AbandonPass, indexState
<1> QED
  BY <1>1, <1>2, <1>3, <1>4, <1>5, <1>6, <1>7, <1>8, ThreadAssumption DEF ThreadsNext

-----------------------------------------------------------------------------
(* CardShelf.                                                              *)

(* No clock is ahead; a card is of an older text than what was written     *)
(* after it, and the same goes for what was listed and what is indexed.    *)
ShelfAges ==
  \A s \in Shelved :
    /\ mtime[s] <= now /\ seen[s].at <= now /\ indexed[s].at <= now /\ card[s].at <= now
    /\ seen[s].of <= text[s] /\ indexed[s].of <= text[s] /\ card[s].of <= text[s]
    /\ (mtime[s] > 0 => text[s] > 0) /\ (seen[s].at > 0 => seen[s].of > 0)
    /\ mtime[s] > card[s].at => card[s].of < text[s]
    /\ seen[s].at > card[s].at => card[s].of < seen[s].of
    /\ indexed[s].at > card[s].at => card[s].of < indexed[s].of

(* A command has something to do, and has loaded no later text than there  *)
(* is.                                                                     *)
CommandsFit ==
  \A p \in Cmds :
    /\ run[p].pc # "idle" => run[p].todo # <<>>
    /\ run[p].pc = "calls" => run[p].ver <= text[Current(p)]

(* What is forgotten is indexed no more; only commands that had it loaded  *)
(* still do, and only they, or one that failed to card it since, can leave *)
(* a card or a file.                                                       *)
ForgottenStays ==
  /\ \A s \in tombs : indexed[s] = None
  /\ \A p \in Cmds : run[p].pc \in {"calls", "mirror"} /\ Current(p) \in tombs
                       => Current(p) \in inHand
  /\ \A s \in tombs \ (inHand \cup Ghostly) :
       card[s] = None /\ (s \notin owed => mirror[s] = "none")

ShelfInv == ShelfTypeOK /\ ShelfAges /\ CommandsFit /\ ForgottenStays

Runs == [pc : {"idle", "next", "calls", "mirror"}, todo : Seq(Shelved), ver : 0 .. MaxEdits]

(* There is nothing but ghosts at the start, as there should be; a prompt  *)
(* counts as the one text of a ghost.                                      *)
LEMMA ShelfInitInv == ShelfInit => ShelfInv
<1> SUFFICES ASSUME ShelfInit PROVE ShelfInv
  OBVIOUS
<1> USE ShelfAssumption DEF ShelfInit
<1>1. None \in Record /\ Held \in Record /\ Idle \in Runs
  BY DEF None, Held, Idle, Record, Runs
<1>2. ShelfTypeOK
  <2>1. /\ now \in 0 .. MaxNow
        /\ text \in [Shelved -> 0 .. MaxEdits] /\ mtime \in [Shelved -> 0 .. MaxNow]
        /\ mirror \in [Shelved -> {"none", "card", "error"}]
    OBVIOUS
  <2>2. seen \in [Shelved -> Record] /\ indexed \in [Shelved -> Record] /\ card \in [Shelved -> Record]
    BY <1>1
  <2>3. run \in [Cmds -> Runs]
    BY <1>1
  <2> QED
    BY <2>1, <2>2, <2>3 DEF ShelfTypeOK, Runs
<1>3. ShelfAges
  BY DEF ShelfAges, None, Held
<1>4. CommandsFit
  BY DEF CommandsFit, Idle
<1>5. ForgottenStays
  BY DEF ForgottenStays, Idle
<1> QED
  BY <1>2, <1>3, <1>4, <1>5 DEF ShelfInv


(* The plan.                                                               *)

Newest == {p \in Eligible \X Eligible : Before(p[1], p[2])}

(* The eligible sessions are finitely many, newest first.                  *)
LEMMA EligibleOrdered == ASSUME ShelfTypeOK PROVE IsFiniteSet(Eligible) /\ Ordered(Eligible, Newest)
<1>1. Eligible \in SUBSET Shelved
  BY DEF Eligible
<1>2. \A s \in Shelved : s \in Int /\ indexed[s].at \in Int
  BY ShelfAssumption DEF ShelfTypeOK, Record
<1>3. \A s, t \in Eligible : <<s, t>> \in Newest <=> Before(s, t)
  BY DEF Newest
<1>4. Ordered(Eligible, Newest)
  BY <1>1, <1>2, <1>3 DEF Ordered, Before
<1> QED
  BY <1>1, <1>4, FS_Subset, ShelfAssumption

(* Sorted() lists each place of that row.                                  *)
LEMMA SortedListsEligible ==
  ASSUME ShelfTypeOK, NEW i \in 1 .. Cardinality(Eligible)
  PROVE  Sorted(Eligible)[i] \in Eligible
<1>1. Cardinality(Eligible) \in Nat
  BY EligibleOrdered, FS_CardinalityType
<1>2. PICK s \in Eligible : Rank(Eligible, Newest, s) = i - 1
  <2>1. i - 1 \in 0 .. (Cardinality(Eligible) - 1)
    BY <1>1
  <2> QED
    BY <2>1, EligibleOrdered, RankIsOnto
<1>3. {t \in Eligible : Before(t, s)} = {t \in Eligible : <<t, s>> \in Newest}
  BY DEF Newest
<1>4. Cardinality({t \in Eligible : Before(t, s)}) = i - 1
  BY <1>2, <1>3 DEF Rank
<1> HIDE DEF Eligible
<1> QED
  BY <1>4 DEF Sorted

(* A plan is a list of eligible sessions, and not empty.                   *)
LEMMA PlanIsEligible ==
  ASSUME ShelfTypeOK, NEW p \in Cmds, PlanCards(p)
  PROVE  /\ run' \in [Cmds -> Runs]
         /\ run'[p].pc = "next" /\ \A q \in Cmds \ {p} : run'[q] = run[q]
         /\ run'[p].todo # <<>>
         /\ \A i \in DOMAIN run'[p].todo : run'[p].todo[i] \in Eligible
<1> DEFINE n    == Cardinality(Eligible)
           m    == Min({Limit, n})
           todo == SubSeq(Sorted(Eligible), 1, m)
<1>1. n \in Nat \ {0}
  <2>1. Eligible # {}
    BY DEF PlanCards
  <2> QED
    BY <2>1, EligibleOrdered, FS_CardinalityType, FS_EmptySet
<1>2. m \in 1 .. n
  <2> HIDE DEF n
  <2> QED
    BY <1>1, MinOfTwo, ShelfAssumption
<1>3. \A i \in 1 .. n : Sorted(Eligible)[i] \in Eligible
  BY SortedListsEligible
<1>4. todo = [i \in 1 .. m |-> Sorted(Eligible)[i]]
  <2> HIDE DEF m
  <2> QED
    BY <1>1, <1>2
<1>5. run' = [run EXCEPT ![p] = [pc |-> "next", ver |-> 0, todo |-> todo]]
  BY DEF PlanCards
<1> HIDE DEF n, m, todo
<1>6. \A i \in 1 .. m : todo[i] \in Eligible
  BY <1>1, <1>2, <1>3, <1>4
<1>7. todo \in Seq(Eligible) /\ DOMAIN todo = 1 .. m /\ todo # <<>>
  <2>1. todo \in [1 .. m -> Eligible]
    BY <1>4, <1>6
  <2>2. m \in Nat \ {0}
    BY <1>1, <1>2
  <2> QED
    BY <2>1, <2>2
<1>8. todo \in Seq(Shelved)
  BY <1>7 DEF Eligible
<1>9. [pc |-> "next", ver |-> 0, todo |-> todo] \in Runs
  BY <1>8, ShelfAssumption DEF Runs
<1>10. run \in [Cmds -> Runs]
  BY DEF ShelfTypeOK, Runs
<1> QED
  BY <1>5, <1>6, <1>7, <1>9, <1>10


(* A command that ends, or is done with one session, has another to do or  *)
(* nothing loaded.                                                         *)
LEMMA RunGoesOn ==
  ASSUME ShelfInv, NEW p \in Cmds, run[p].pc # "idle", NEW next \in {Done(p), Idle},
         run' = [run EXCEPT ![p] = next]
  PROVE  /\ run' \in [Cmds -> Runs] /\ \A q \in Cmds \ {p} : run'[q] = run[q]
         /\ run'[p].pc \in {"idle", "next"} /\ (run'[p].pc = "next" => run'[p].todo # <<>>)
<1>1. run \in [Cmds -> Runs] /\ run[p] \in Runs /\ run[p].todo \in Seq(Shelved)
      /\ run[p].todo # <<>>
  BY DEF ShelfInv, ShelfTypeOK, Runs, CommandsFit
<1>2. Idle \in Runs
  BY ShelfAssumption DEF Idle, Runs
<1>3. CASE next = Idle
  <2>1. run'[p] = Idle
    BY <1>1, <1>3
  <2> QED
    BY <1>1, <1>2, <1>3, <2>1 DEF Idle
<1>4. CASE Len(run[p].todo) # 1
              /\ next = [pc |-> "next", todo |-> Tail(run[p].todo), ver |-> 0]
  <2>1. Tail(run[p].todo) \in Seq(Shelved) /\ Tail(run[p].todo) # <<>>
    <3> DEFINE todo == run[p].todo
    <3>1. todo \in Seq(Shelved) /\ todo # <<>> /\ Len(todo) # 1
      BY <1>1, <1>4
    <3> HIDE DEF todo
    <3>2. Len(todo) \in Nat \ {0}
      BY <3>1, EmptySeq
    <3>3. Tail(todo) \in Seq(Shelved) /\ Len(Tail(todo)) = Len(todo) - 1
      BY <3>1, HeadTailProperties
    <3>4. Len(Tail(todo)) # 0
      BY <3>1, <3>2, <3>3
    <3>5. Tail(todo) # <<>>
      BY <3>4, EmptySeq
    <3> QED
      BY <3>3, <3>5 DEF todo
  <2>2. next \in Runs
    BY <1>4, <2>1, ShelfAssumption DEF Runs
  <2> QED
    BY <1>1, <1>4, <2>1, <2>2
<1> QED
  BY <1>3, <1>4 DEF Done

(* The session at the head of the plan is one of the shelf.                *)
LEMMA CurrentShelved ==
  ASSUME ShelfInv, NEW p \in Cmds, run[p].pc # "idle"
  PROVE  Current(p) \in Shelved
<1>1. run[p].todo \in Seq(Shelved) /\ run[p].todo # <<>>
  BY DEF ShelfInv, ShelfTypeOK, CommandsFit
<1> QED
  BY <1>1 DEF Current

(* A command may change the card and the file of what it has in hand, as   *)
(* long as the ages stay right.                                            *)
LEMMA OnlyCommandsMove ==
  ASSUME ShelfInv, NEW p \in Cmds, run' \in [Cmds -> Runs],
         \A q \in Cmds \ {p} : run'[q] = run[q],
         run'[p].pc # "idle" => run'[p].todo # <<>>,
         run'[p].pc = "calls" => run'[p].ver <= text[Head(run'[p].todo)],
         run'[p].pc \in {"calls", "mirror"}
           => Head(run'[p].todo) \in inHand' \/ Head(run'[p].todo) \notin tombs,
         card' \in [Shelved -> Record], ShelfAges',
         mirror' \in [Shelved -> {"none", "card", "error"}],
         inHand \subseteq inHand', inHand' \subseteq tombs,
         \A s \in tombs \ inHand' : card'[s] = card[s] /\ mirror'[s] = mirror[s],
         UNCHANGED <<now, text, mtime, seen, indexed, tombs, owed>>
  PROVE  ShelfInv'
<1>1. ShelfTypeOK'
  BY DEF ShelfInv, ShelfTypeOK, Runs
<1>2. CommandsFit'
  BY DEF ShelfInv, CommandsFit, Current
<1>3. ForgottenStays'
  BY DEF ShelfInv, ForgottenStays, Current
<1> QED
  BY <1>1, <1>2, <1>3 DEF ShelfInv

(* The clock and the harness.                                              *)
LEMMA WorldKeepsShelf ==
  ASSUME ShelfInv, Tick \/ \E s \in Shelved : EditTranscript(s)
  PROVE  ShelfInv'
<1> USE ShelfAssumption
<1>1. CASE Tick
  <2>1. ShelfTypeOK'
    BY <1>1 DEF Tick, ShelfInv, ShelfTypeOK
  <2>2. ShelfAges'
    BY <1>1 DEF Tick, ShelfInv, ShelfAges, ShelfTypeOK, Record
  <2>3. CommandsFit' /\ ForgottenStays'
    BY <1>1 DEF Tick, ShelfInv, CommandsFit, ForgottenStays, Current
  <2> QED
    BY <2>1, <2>2, <2>3 DEF ShelfInv
<1>2. ASSUME NEW s \in Shelved, EditTranscript(s) PROVE ShelfInv'
  <2>1. ShelfTypeOK'
    BY <1>2 DEF EditTranscript, ShelfInv, ShelfTypeOK
  <2>2. \A t \in Shelved : /\ text'[t] = IF t = s THEN text[t] + 1 ELSE text[t]
                           /\ mtime'[t] = IF t = s THEN now ELSE mtime[t]
    BY <1>2 DEF EditTranscript, ShelfInv, ShelfTypeOK
  <2>3. \A t \in Shelved : /\ text[t] \in Nat /\ mtime[t] \in Int /\ now \in Int
                           /\ card[t].of \in Int /\ card[t].at \in Int
                           /\ indexed[t].of \in Int /\ indexed[t].at \in Int
                           /\ seen[t].of \in Int /\ seen[t].at \in Int
    BY DEF ShelfInv, ShelfTypeOK, Record
  <2>4. UNCHANGED <<now, seen, indexed, card, mirror, tombs, owed, run, inHand>>
    BY <1>2 DEF EditTranscript
  <2>5. ShelfAges'
    <3>1. \A t \in Shelved \ {s} : text'[t] = text[t] /\ mtime'[t] = mtime[t]
      BY <2>2
    <3>2. /\ text'[s] = text[s] + 1 /\ mtime'[s] = now
          /\ seen[s].at <= now /\ indexed[s].at <= now /\ card[s].at <= now
          /\ seen[s].of <= text[s] + 1 /\ indexed[s].of <= text[s] + 1
          /\ card[s].of < text[s] + 1 /\ text[s] + 1 > 0
      <4>1. text[s] \in Nat /\ card[s].of \in Int /\ indexed[s].of \in Int /\ seen[s].of \in Int
            /\ seen[s].at <= now /\ indexed[s].at <= now /\ card[s].at <= now
            /\ seen[s].of <= text[s] /\ indexed[s].of <= text[s] /\ card[s].of <= text[s]
        BY <2>3 DEF ShelfInv, ShelfAges
      <4>2. text'[s] = text[s] + 1 /\ mtime'[s] = now
        BY <2>2
      <4> QED
        BY <4>1, <4>2
    <3> QED
      BY <2>3, <2>4, <3>1, <3>2 DEF ShelfInv, ShelfAges
  <2>6. CommandsFit'
    <3>1. ASSUME NEW p \in Cmds, run[p].pc = "calls" PROVE run[p].ver <= text'[Current(p)]
      <4>1. Current(p) \in Shelved /\ run[p].ver <= text[Current(p)] /\ run[p].ver \in Int
        <5>1. Current(p) \in Shelved
          BY <3>1, CurrentShelved
        <5>2. run[p].ver <= text[Current(p)]
          BY <3>1 DEF ShelfInv, CommandsFit
        <5>3. run[p].ver \in Int
          BY DEF ShelfInv, ShelfTypeOK
        <5> QED
          BY <5>1, <5>2, <5>3
      <4>2. text[Current(p)] <= text'[Current(p)] /\ text[Current(p)] \in Int /\ text'[Current(p)] \in Int
        <5>1. \A t \in Shelved : text[t] \in Int /\ text'[t] \in {text[t], text[t] + 1}
          BY <2>2, <2>3
        <5>2. text[Current(p)] \in Int /\ text'[Current(p)] \in {text[Current(p)], text[Current(p)] + 1}
          BY <4>1, <5>1
        <5> QED
          BY <5>2
      <4> QED
        BY <4>1, <4>2
    <3>2. \A p \in Cmds : Current(p)' = Current(p)
      BY <2>4 DEF Current
    <3> QED
      BY <2>4, <3>1, <3>2 DEF ShelfInv, CommandsFit
  <2>7. ForgottenStays'
    BY <2>4 DEF ShelfInv, ForgottenStays, Current
  <2> QED
    BY <2>1, <2>5, <2>6, <2>7 DEF ShelfInv
<1> QED
  BY <1>1, <1>2

(* A pass publishes no less than it saw, under the mtime that it saw, and  *)
(* nothing that has a tombstone.                                           *)
LEMMA IndexKeepsShelf ==
  ASSUME ShelfInv, NEW s \in Shelved, ListTranscript(s) \/ IndexTranscript(s) PROVE ShelfInv'
<1> USE ShelfAssumption
<1>1. None \in Record /\ None.of = 0 /\ None.at = 0
  BY DEF None, Record
<1>2. \A t \in Shelved : /\ text[t] \in 0 .. MaxEdits /\ mtime[t] \in 0 .. MaxNow
                         /\ seen[t].of \in 0 .. MaxEdits /\ seen[t].at \in 0 .. MaxNow
                         /\ card[t].of \in Nat /\ card[t].at \in Nat /\ now \in Nat
  BY DEF ShelfInv, ShelfTypeOK, Record
<1>3. CASE ListTranscript(s)
  <2>1. /\ seen' = [seen EXCEPT ![s] = [of |-> text[s], at |-> mtime[s]]]
        /\ UNCHANGED <<now, text, mtime, indexed, card, mirror, tombs, owed, run, inHand>>
    BY <1>3 DEF ListTranscript
  <2>2. [of |-> text[s], at |-> mtime[s]] \in Record
    BY <1>2 DEF Record
  <2>3. ShelfTypeOK'
    BY <2>1, <2>2 DEF ShelfInv, ShelfTypeOK
  <2>4. \A t \in Shelved : seen'[t] = IF t = s THEN [of |-> text[s], at |-> mtime[s]] ELSE seen[t]
    BY <2>1 DEF ShelfInv, ShelfTypeOK
  <2>5. ShelfAges'
    BY <1>2, <1>3, <2>1, <2>4 DEF ListTranscript, ShelfInv, ShelfAges
  <2>6. CommandsFit' /\ ForgottenStays'
    BY <2>1 DEF ShelfInv, CommandsFit, ForgottenStays, Current
  <2> QED
    BY <2>3, <2>5, <2>6 DEF ShelfInv
<1>4. CASE IndexTranscript(s)
  <2>1. /\ s \notin tombs /\ seen' = [seen EXCEPT ![s] = None]
        /\ UNCHANGED <<now, text, mtime, card, mirror, tombs, owed, run, inHand>>
    BY <1>4 DEF IndexTranscript
  <2>2. PICK k \in seen[s].of .. text[s] : indexed' = [indexed EXCEPT ![s] = [of |-> k, at |-> seen[s].at]]
    BY <1>4 DEF IndexTranscript
  <2>3. k \in 0 .. MaxEdits /\ seen[s].of <= k /\ k <= text[s]
    BY <1>2, <2>2
  <2>4. [of |-> k, at |-> seen[s].at] \in Record
    BY <1>2, <2>3 DEF Record
  <2>5. ShelfTypeOK'
    BY <1>1, <2>1, <2>2, <2>4 DEF ShelfInv, ShelfTypeOK
  <2>6. \A t \in Shelved : /\ seen'[t] = IF t = s THEN None ELSE seen[t]
                           /\ indexed'[t] = IF t = s THEN [of |-> k, at |-> seen[s].at] ELSE indexed[t]
    BY <2>1, <2>2 DEF ShelfInv, ShelfTypeOK
  <2>7. ShelfAges'
    <3>1. /\ seen[s].at <= now /\ seen[s].at > card[s].at => card[s].of < k
      BY <1>2, <2>3 DEF ShelfInv, ShelfAges
    <3>2. /\ seen'[s] = None /\ indexed'[s].of = k /\ indexed'[s].at = seen[s].at
          /\ \A t \in Shelved \ {s} : seen'[t] = seen[t] /\ indexed'[t] = indexed[t]
      BY <2>6
    <3> QED
      BY <1>1, <1>2, <2>1, <2>3, <3>1, <3>2 DEF ShelfInv, ShelfAges
  <2>8. CommandsFit'
    BY <2>1 DEF ShelfInv, CommandsFit, Current
  <2>9. ForgottenStays'
    <3>1. tombs \subseteq Shelved
      BY DEF ShelfInv, ShelfTypeOK
    <3> QED
      BY <2>1, <2>6, <3>1 DEF ShelfInv, ForgottenStays, Current
  <2> QED
    BY <2>5, <2>7, <2>8, <2>9 DEF ShelfInv
<1> QED
  BY <1>3, <1>4


(* What a command has loaded is not forgotten, or known to be in hand.     *)
LEMMA CurrentInHand ==
  ASSUME ShelfInv, NEW p \in Cmds, run[p].pc \in {"calls", "mirror"}
  PROVE  Current(p) \in Shelved /\ (Current(p) \in tombs => Current(p) \in inHand)
BY CurrentShelved DEF ShelfInv, ForgottenStays

(* The ages stay when neither clocks nor texts nor cards change.           *)
LEMMA AgesStay ==
  ASSUME ShelfInv, UNCHANGED <<now, text, mtime, seen, indexed, card>> PROVE ShelfAges'
BY DEF ShelfInv, ShelfAges

(* Each step of a command.                                                 *)
LEMMA CommandKeepsShelf ==
  ASSUME ShelfInv, NEW p \in Cmds, Carding(p) \/ EndEarly(p) PROVE ShelfInv'
<1> USE ShelfAssumption
<1>0. inHand \subseteq tombs
  BY DEF ShelfInv, ShelfTypeOK
<1>1. CASE PlanCards(p)
  <2>1. UNCHANGED <<now, text, mtime, seen, indexed, card, mirror, tombs, owed, inHand>>
    BY <1>1 DEF PlanCards
  <2>2. /\ run' \in [Cmds -> Runs] /\ run'[p].pc = "next"
        /\ \A q \in Cmds \ {p} : run'[q] = run[q]
        /\ run'[p].todo # <<>>
    BY <1>1, PlanIsEligible DEF ShelfInv
  <2>3. card' \in [Shelved -> Record] /\ mirror' \in [Shelved -> {"none", "card", "error"}]
    BY <2>1 DEF ShelfInv, ShelfTypeOK
  <2> QED
    BY <1>0, <2>1, <2>2, <2>3, AgesStay, OnlyCommandsMove
<1>2. CASE LoadTranscript(p)
  <2>1. UNCHANGED <<now, text, mtime, seen, indexed, card, mirror, tombs, owed, inHand>>
    BY <1>2 DEF LoadTranscript
  <2>2. run[p].pc = "next"
    BY <1>2 DEF LoadTranscript
  <2>3. card' \in [Shelved -> Record] /\ mirror' \in [Shelved -> {"none", "card", "error"}]
    BY <2>1 DEF ShelfInv, ShelfTypeOK
  <2>4. CASE run' = [run EXCEPT ![p] = Done(p)]
    <3>1. /\ run' \in [Cmds -> Runs] /\ \A q \in Cmds \ {p} : run'[q] = run[q]
          /\ run'[p].pc \in {"idle", "next"} /\ (run'[p].pc = "next" => run'[p].todo # <<>>)
      BY <2>2, <2>4, RunGoesOn
    <3> QED
      BY <1>0, <2>1, <2>3, <3>1, AgesStay, OnlyCommandsMove
  <2>5. CASE /\ indexed[Current(p)] # None
             /\ run' = [run EXCEPT ![p].pc = "calls", ![p].ver = indexed[Current(p)].of]
    <3>1. Current(p) \in Shelved
      BY <2>2, CurrentShelved
    <3>2. run \in [Cmds -> Runs] /\ run[p].todo # <<>>
      BY <2>2 DEF ShelfInv, ShelfTypeOK, CommandsFit, Runs
    <3>3. indexed[Current(p)].of \in 0 .. MaxEdits
      BY <3>1 DEF ShelfInv, ShelfTypeOK, Record
    <3>4. /\ run' \in [Cmds -> Runs] /\ \A q \in Cmds \ {p} : run'[q] = run[q]
          /\ run'[p].pc = "calls" /\ run'[p].todo = run[p].todo
          /\ run'[p].ver = indexed[Current(p)].of
      BY <2>5, <3>2, <3>3 DEF Runs
    <3>5. indexed[Current(p)].of <= text[Current(p)] /\ Current(p) \notin tombs
      BY <2>5, <3>1 DEF ShelfInv, ShelfAges, ForgottenStays
    <3> QED
      BY <1>0, <2>1, <2>3, <3>2, <3>4, <3>5, AgesStay, OnlyCommandsMove DEF Current
  <2> QED
    BY <1>2, <2>4, <2>5 DEF LoadTranscript
<1>3. CASE SaveRows(p)
  <2> DEFINE s == Current(p)
  <2>1. UNCHANGED <<now, text, mtime, seen, indexed, mirror, tombs, owed, inHand>>
        /\ run[p].pc = "calls" /\ run' = [run EXCEPT ![p].pc = "mirror"]
        /\ card' = [card EXCEPT ![s] = [of |-> run[p].ver, at |-> now]]
    BY <1>3 DEF SaveRows
  <2>2. s \in Shelved /\ (s \in tombs => s \in inHand)
    BY <2>1, CurrentInHand
  <2>3. run \in [Cmds -> Runs] /\ run[p].todo # <<>> /\ run[p].ver <= text[s]
        /\ run[p].ver \in 0 .. MaxEdits /\ now \in 0 .. MaxNow
    BY <2>1 DEF ShelfInv, ShelfTypeOK, CommandsFit, Runs
  <2>4. /\ run' \in [Cmds -> Runs] /\ \A q \in Cmds \ {p} : run'[q] = run[q]
        /\ run'[p].pc = "mirror" /\ run'[p].todo = run[p].todo
    BY <2>1, <2>3 DEF Runs
  <2> HIDE DEF s
  <2>5. \A t \in Shelved : card'[t] = IF t = s THEN [of |-> run[p].ver, at |-> now] ELSE card[t]
    BY <2>1 DEF ShelfInv, ShelfTypeOK
  <2>6. card' \in [Shelved -> Record] /\ mirror' \in [Shelved -> {"none", "card", "error"}]
    BY <2>1, <2>3 DEF ShelfInv, ShelfTypeOK, Record
  <2>7. ShelfAges'
    <3>1. ASSUME NEW t \in Shelved
          PROVE  /\ mtime[t] <= now /\ seen[t].at <= now /\ indexed[t].at <= now /\ card'[t].at <= now
                 /\ seen[t].of <= text[t] /\ indexed[t].of <= text[t] /\ card'[t].of <= text[t]
                 /\ (mtime[t] > 0 => text[t] > 0) /\ (seen[t].at > 0 => seen[t].of > 0)
                 /\ mtime[t] > card'[t].at => card'[t].of < text[t]
                 /\ seen[t].at > card'[t].at => card'[t].of < seen[t].of
                 /\ indexed[t].at > card'[t].at => card'[t].of < indexed[t].of
      <4>1. /\ mtime[t] <= now /\ seen[t].at <= now /\ indexed[t].at <= now
            /\ seen[t].of <= text[t] /\ indexed[t].of <= text[t]
            /\ (mtime[t] > 0 => text[t] > 0) /\ (seen[t].at > 0 => seen[t].of > 0)
            /\ mtime[t] \in Int /\ seen[t].at \in Int /\ indexed[t].at \in Int /\ now \in Int
        BY DEF ShelfInv, ShelfAges, ShelfTypeOK, Record
      <4>2. CASE t = s
        <5>1. card'[t].of = run[p].ver /\ card'[t].at = now /\ run[p].ver <= text[t]
          BY <2>3, <2>5, <4>2
        <5> QED
          BY <4>1, <5>1
      <4>3. CASE t # s
        BY <2>5, <4>3 DEF ShelfInv, ShelfAges
      <4> QED
        BY <4>2, <4>3
    <3> QED
      BY <2>1, <3>1 DEF ShelfAges
  <2>8. \A t \in tombs \ inHand : card'[t] = card[t] /\ mirror'[t] = mirror[t]
    <3>1. tombs \subseteq Shelved
      BY DEF ShelfInv, ShelfTypeOK
    <3> QED
      BY <2>1, <2>2, <2>5, <3>1
  <2>9. Head(run'[p].todo) = s
    BY <2>4 DEF s, Current
  <2> QED
    BY <1>0, <2>1, <2>2, <2>3, <2>4, <2>6, <2>7, <2>8, <2>9, OnlyCommandsMove
<1>4. CASE SaveMirror(p) \/ CardFails(p)
  <2> DEFINE s == Current(p)
  <2>1. /\ run[p].pc # "idle" /\ run' = [run EXCEPT ![p] = Done(p)]
        /\ UNCHANGED <<now, text, mtime, seen, indexed, card, tombs, owed>>
    BY <1>4 DEF SaveMirror, CardFails
  <2>2. mirror' \in {mirror, [mirror EXCEPT ![s] = "card"], [mirror EXCEPT ![s] = "error"]}
    BY <1>4 DEF SaveMirror, CardFails
  <2>3. s \in Shelved
    BY <2>1, CurrentShelved
  <2>4. inHand \subseteq inHand' /\ inHand' \subseteq tombs /\ (s \in tombs => s \in inHand')
    BY <1>0, <1>4, CurrentInHand DEF SaveMirror, CardFails
  <2>5. /\ run' \in [Cmds -> Runs] /\ \A q \in Cmds \ {p} : run'[q] = run[q]
        /\ run'[p].pc \in {"idle", "next"} /\ (run'[p].pc = "next" => run'[p].todo # <<>>)
    BY <2>1, RunGoesOn
  <2> HIDE DEF s
  <2>6. /\ mirror' \in [Shelved -> {"none", "card", "error"}]
        /\ \A t \in Shelved \ {s} : mirror'[t] = mirror[t]
    BY <2>2 DEF ShelfInv, ShelfTypeOK
  <2>7. card' \in [Shelved -> Record]
    BY <2>1 DEF ShelfInv, ShelfTypeOK
  <2>8. \A t \in tombs \ inHand' : card'[t] = card[t] /\ mirror'[t] = mirror[t]
    <3>1. tombs \subseteq Shelved
      BY DEF ShelfInv, ShelfTypeOK
    <3> QED
      BY <2>1, <2>4, <2>6, <3>1
  <2> QED
    BY <2>1, <2>4, <2>5, <2>6, <2>7, <2>8, AgesStay, OnlyCommandsMove
<1>5. CASE EndEarly(p)
  <2>1. /\ run[p].pc # "idle" /\ run' = [run EXCEPT ![p] = Idle]
        /\ UNCHANGED <<now, text, mtime, seen, indexed, card, mirror, tombs, owed, inHand>>
    BY <1>5 DEF EndEarly
  <2>2. /\ run' \in [Cmds -> Runs] /\ \A q \in Cmds \ {p} : run'[q] = run[q]
        /\ run'[p].pc \in {"idle", "next"} /\ (run'[p].pc = "next" => run'[p].todo # <<>>)
    BY <2>1, RunGoesOn
  <2>3. card' \in [Shelved -> Record] /\ mirror' \in [Shelved -> {"none", "card", "error"}]
    BY <2>1 DEF ShelfInv, ShelfTypeOK
  <2> QED
    BY <1>0, <2>1, <2>2, <2>3, AgesStay, OnlyCommandsMove
<1> QED
  BY <1>1, <1>2, <1>3, <1>4, <1>5 DEF Carding


(* A forget takes the card with the row, and remembers who has it in hand; *)
(* the file goes last.                                                     *)
LEMMA ForgetKeepsShelf ==
  ASSUME ShelfInv, NEW s \in Shelved, ForgetCarded(s) \/ UnlinkCard(s) PROVE ShelfInv'
<1> USE ShelfAssumption
<1>0. tombs \subseteq Shelved /\ Ghostly \subseteq Shelved /\ owed \subseteq tombs
  BY DEF ShelfInv, ShelfTypeOK
<1>1. CASE ForgetCarded(s)
  <2>1. /\ tombs' = tombs \cup {s} /\ owed' = owed \cup ({s} \ Ghostly)
        /\ inHand' = inHand \cup (Loaded \cap {s})
        /\ indexed' = [indexed EXCEPT ![s] = None]
        /\ card' = IF s \in Ghostly THEN card ELSE [card EXCEPT ![s] = None]
        /\ UNCHANGED <<now, text, mtime, seen, mirror, run>>
    BY <1>1 DEF ForgetCarded
  <2>2. None \in Record /\ None.of = 0 /\ None.at = 0
    BY DEF None, Record
  <2>3. ShelfTypeOK'
    <3>1. indexed' \in [Shelved -> Record] /\ card' \in [Shelved -> Record]
      BY <2>1, <2>2 DEF ShelfInv, ShelfTypeOK
    <3> QED
      BY <2>1, <3>1 DEF ShelfInv, ShelfTypeOK
  <2>4. \A t \in Shelved : /\ indexed'[t] = IF t = s THEN None ELSE indexed[t]
                           /\ card'[t] = IF t = s /\ s \notin Ghostly THEN None ELSE card[t]
    BY <2>1 DEF ShelfInv, ShelfTypeOK
  <2>5. \A t \in Shelved : /\ card[t].of \in Nat /\ card[t].at \in Nat
                           /\ text[t] \in Nat /\ mtime[t] \in Nat /\ now \in Nat
                           /\ seen[t].of \in Nat /\ seen[t].at \in Nat
    BY DEF ShelfInv, ShelfTypeOK, Record
  <2>6. ShelfAges'
    <3>1. ASSUME NEW t \in Shelved
          PROVE  /\ mtime[t] <= now /\ seen[t].at <= now /\ indexed'[t].at <= now /\ card'[t].at <= now
                 /\ seen[t].of <= text[t] /\ indexed'[t].of <= text[t] /\ card'[t].of <= text[t]
                 /\ (mtime[t] > 0 => text[t] > 0) /\ (seen[t].at > 0 => seen[t].of > 0)
                 /\ mtime[t] > card'[t].at => card'[t].of < text[t]
                 /\ seen[t].at > card'[t].at => card'[t].of < seen[t].of
                 /\ indexed'[t].at > card'[t].at => card'[t].of < indexed'[t].of
      <4>1. /\ mtime[t] <= now /\ seen[t].at <= now /\ indexed[t].at <= now /\ card[t].at <= now
            /\ seen[t].of <= text[t] /\ indexed[t].of <= text[t] /\ card[t].of <= text[t]
            /\ (mtime[t] > 0 => text[t] > 0) /\ (seen[t].at > 0 => seen[t].of > 0)
            /\ mtime[t] > card[t].at => card[t].of < text[t]
            /\ seen[t].at > card[t].at => card[t].of < seen[t].of
            /\ indexed[t].at > card[t].at => card[t].of < indexed[t].of
        BY DEF ShelfInv, ShelfAges
      <4>2. CASE t # s
        BY <2>4, <4>1, <4>2
      <4>3. CASE t = s /\ s \in Ghostly
        BY <2>2, <2>4, <2>5, <4>1, <4>3
      <4>4. CASE t = s /\ s \notin Ghostly
        BY <2>2, <2>4, <2>5, <4>1, <4>4
      <4> QED
        BY <4>2, <4>3, <4>4
    <3> QED
      BY <2>1, <3>1 DEF ShelfAges
  <2>7. CommandsFit'
    BY <2>1 DEF ShelfInv, CommandsFit, Current
  <2>8. ForgottenStays'
    <3>1. \A t \in tombs' : indexed'[t] = None
      BY <1>0, <2>1, <2>4 DEF ShelfInv, ForgottenStays
    <3>2. ASSUME NEW p \in Cmds, run[p].pc \in {"calls", "mirror"}, Current(p) \in tombs'
          PROVE  Current(p) \in inHand'
      BY <2>1, <3>2 DEF ShelfInv, ForgottenStays, Loaded
    <3>3. ASSUME NEW t \in tombs' \ (inHand' \cup Ghostly)
          PROVE  card'[t] = None /\ (t \notin owed' => mirror[t] = "none")
      BY <1>0, <2>1, <2>4, <3>3 DEF ShelfInv, ForgottenStays
    <3> QED
      BY <2>1, <3>1, <3>2, <3>3 DEF ForgottenStays, Current
  <2> QED
    BY <2>3, <2>6, <2>7, <2>8 DEF ShelfInv
<1>2. CASE UnlinkCard(s)
  <2>1. /\ owed' = owed \ {s} /\ mirror' = [mirror EXCEPT ![s] = "none"]
        /\ UNCHANGED <<now, text, mtime, seen, indexed, card, tombs, run, inHand>>
    BY <1>2 DEF UnlinkCard
  <2>2. ShelfTypeOK'
    BY <2>1 DEF ShelfInv, ShelfTypeOK
  <2>3. ShelfAges' /\ CommandsFit'
    BY <2>1 DEF ShelfInv, ShelfAges, CommandsFit, Current
  <2>4. \A t \in Shelved : mirror'[t] = IF t = s THEN "none" ELSE mirror[t]
    BY <2>1 DEF ShelfInv, ShelfTypeOK
  <2>5. ForgottenStays'
    BY <1>0, <2>1, <2>4 DEF ShelfInv, ForgottenStays, Current
  <2> QED
    BY <2>2, <2>3, <2>5 DEF ShelfInv
<1> QED
  BY <1>1, <1>2

(* So every step keeps the invariant.                                      *)
LEMMA ShelfNextInv == ShelfInv /\ [ShelfNext]_shelfVars => ShelfInv'
<1> SUFFICES ASSUME ShelfInv, [ShelfNext]_shelfVars PROVE ShelfInv'
  OBVIOUS
<1>1. CASE UNCHANGED shelfVars
  BY <1>1 DEF shelfVars, ShelfInv, ShelfTypeOK, ShelfAges, CommandsFit, ForgottenStays, Current
<1> QED
  BY <1>1, WorldKeepsShelf, IndexKeepsShelf, ForgetKeepsShelf, CommandKeepsShelf DEF ShelfNext

(* What is planned has no card, or one of an older text than is indexed.   *)
LEMMA PlanStep ==
  ASSUME ShelfInv, [ShelfNext]_shelfVars, NEW p \in Cmds, run[p].pc = "idle", run'[p].pc # "idle",
         NEW i \in DOMAIN run'[p].todo, card[run'[p].todo[i]] # None
  PROVE  card[run'[p].todo[i]].of < indexed[run'[p].todo[i]].of
<1> DEFINE s == run'[p].todo[i]
<1>1. \A q \in Cmds : run'[q] # run[q] => PlanCards(q) \/ run[q].pc # "idle"
  <2>1. run \in [Cmds -> Runs]
    BY DEF ShelfInv, ShelfTypeOK, Runs
  <2> QED
    BY <2>1 DEF ShelfNext, shelfVars, Carding, Tick, EditTranscript, ListTranscript, IndexTranscript,
                ForgetCarded, UnlinkCard, LoadTranscript, SaveRows, SaveMirror, CardFails, EndEarly, PlanCards
<1>2. PlanCards(p)
  BY <1>1
<1>3. s \in Eligible
  BY <1>2, PlanIsEligible DEF ShelfInv
<1> HIDE DEF s
<1>4. s \in Shelved /\ (card[s] # None => indexed[s].at > card[s].at)
  BY <1>3 DEF Eligible, Stale
<1>5. card[s] # None => card[s].of < indexed[s].of
  BY <1>4 DEF ShelfInv, ShelfAges
<1> QED
  BY <1>5 DEF s


-----------------------------------------------------------------------------
(* AskRun: filterAnswer().                                                 *)

(* Ascending() lists the numbers of a finite set, all of them, in order.   *)
LEMMA AscendingIs ==
  ASSUME NEW S \in SUBSET Int, IsFiniteSet(S)
  PROVE  /\ Cardinality(S) \in Nat /\ (Cardinality(S) = 0 <=> S = {})
         /\ Ascending(S) \in [1 .. Cardinality(S) -> S]
         /\ \A i, j \in 1 .. Cardinality(S) : i < j => Ascending(S)[i] < Ascending(S)[j]
         /\ \A x \in S : \E i \in 1 .. Cardinality(S) : Ascending(S)[i] = x
<1> DEFINE n == Cardinality(S)
           Below(x) == {q \in S : q < x}
           R == {p \in S \X S : p[1] < p[2]}
           asc == Ascending(S)
<1>1. n \in Nat /\ (n = 0 <=> S = {})
  BY FS_CardinalityType, FS_EmptySet
<1>2. ASSUME NEW i \in 1 .. n PROVE asc[i] \in S /\ Cardinality(Below(asc[i])) = i - 1
  <2>1. \A x, y \in S : <<x, y>> \in R <=> x < y
    OBVIOUS
  <2>2. Ordered(S, R)
    BY <2>1 DEF Ordered
  <2>3. i - 1 \in 0 .. (n - 1)
    BY <1>1
  <2>4. \E x \in S : Rank(S, R, x) = i - 1
    <3> HIDE DEF R
    <3> QED
      BY <2>2, <2>3, RankIsOnto
  <2>5. \E x \in S : Cardinality(Below(x)) = i - 1
    <3>1. ASSUME NEW x \in S PROVE Below(x) = {t \in S : <<t, x>> \in R}
      BY <2>1
    <3> HIDE DEF R, Below
    <3> QED
      BY <2>4, <3>1 DEF Rank
  <2>6. asc[i] = CHOOSE x \in S : Cardinality(Below(x)) = i - 1
    BY DEF Ascending
  <2> HIDE DEF Below, asc
  <2> QED
    BY <2>5, <2>6
<1>3. ASSUME NEW x \in S PROVE IsFiniteSet(Below(x)) /\ Cardinality(Below(x)) \in 0 .. (n - 1)
  <2>1. Below(x) \in SUBSET (S \ {x})
    OBVIOUS
  <2>2. IsFiniteSet(S \ {x}) /\ Cardinality(S \ {x}) = n - 1
    BY FS_RemoveElement
  <2> HIDE DEF Below
  <2>3. IsFiniteSet(Below(x)) /\ Cardinality(Below(x)) <= Cardinality(S \ {x})
    BY <2>1, <2>2, FS_Subset
  <2> QED
    BY <1>1, <2>2, <2>3, FS_CardinalityType
<1>4. ASSUME NEW x \in S, NEW y \in S, x < y
      PROVE  Cardinality(Below(x)) < Cardinality(Below(y))
  <2>1. x \in Int /\ y \in Int /\ \A q \in S : q \in Int
    OBVIOUS
  <2>2. \A q \in S : q < x => q < y
    BY <1>4, <2>1
  <2>3. Below(x) \in SUBSET Below(y) /\ x \in Below(y) /\ x \notin Below(x)
    <3>1. ~(x < x)
      BY <2>1
    <3> QED
      BY <1>4, <2>2, <3>1
  <2>4. Cardinality(Below(x)) <= Cardinality(Below(y)) /\ Cardinality(Below(x)) # Cardinality(Below(y))
    BY <1>3, <2>3, FS_Subset
  <2> HIDE DEF Below
  <2> QED
    BY <1>3, <2>4
<1> HIDE DEF Below, R, n
<1>5. ASSUME NEW i \in 1 .. n, NEW j \in 1 .. n, i < j PROVE asc[i] < asc[j]
  <2>1. /\ asc[i] \in S /\ Cardinality(Below(asc[i])) = i - 1
        /\ asc[j] \in S /\ Cardinality(Below(asc[j])) = j - 1
    BY <1>2
  <2> HIDE DEF asc
  <2>2. asc[j] < asc[i] => j - 1 < i - 1
    BY <1>4, <2>1
  <2>3. asc[i] = asc[j] => i - 1 = j - 1
    BY <2>1
  <2>4. asc[i] \in Int /\ asc[j] \in Int
    BY <2>1
  <2>5. i \in Int /\ j \in Int
    OBVIOUS
  <2> QED
    BY <1>5, <2>2, <2>3, <2>4, <2>5
<1>6. ASSUME NEW x \in S PROVE \E i \in 1 .. n : asc[i] = x
  <2> DEFINE i == Cardinality(Below(x)) + 1
  <2>1. i \in 1 .. n /\ i - 1 = Cardinality(Below(x))
    BY <1>1, <1>3
  <2>2. asc[i] \in S /\ Cardinality(Below(asc[i])) = Cardinality(Below(x))
    BY <1>2, <2>1
  <2>3. asc[i] = x
    <3> HIDE DEF i
    <3>1. asc[i] \in Int /\ x \in Int
      BY <2>2
    <3>2. asc[i] < x => Cardinality(Below(x)) < Cardinality(Below(x))
      BY <1>4, <2>2
    <3>3. x < asc[i] => Cardinality(Below(x)) < Cardinality(Below(x))
      BY <1>4, <2>2
    <3>4. Cardinality(Below(x)) \in Int
      BY <1>3
    <3> HIDE DEF asc
    <3> QED
      BY <3>1, <3>2, <3>3, <3>4
  <2> QED
    BY <2>1, <2>3
<1>7. asc \in [1 .. n -> S]
  <2> DEFINE c(i) == CHOOSE p \in S : Cardinality({q \in S : q < p}) = i - 1
  <2>1. asc = [i \in 1 .. n |-> c(i)]
    BY DEF Ascending, n
  <2> HIDE DEF c, asc, n
  <2> QED
    BY <1>2, <2>1
<1> QED
  BY <1>1, <1>5, <1>6, <1>7 DEF n

(* Firsts are the places at which something is met for the first time.     *)
Firsts(seq) == {i \in DOMAIN seq : \A j \in 1 .. (i - 1) : seq[j] # seq[i]}

(* Some place of every element is the first.                               *)
LEMMA FirstExists ==
  ASSUME NEW T, NEW seq \in Seq(T), NEW k \in DOMAIN seq
  PROVE  \E i \in Firsts(seq) : i <= k /\ seq[i] = seq[k]
<1> DEFINE Same == {i \in 1 .. k : seq[i] = seq[k]}
<1>1. k \in 1 .. Len(seq) /\ Len(seq) \in Nat /\ DOMAIN seq = 1 .. Len(seq)
  BY LenProperties
<1>2. IsFiniteSet(1 .. k) /\ Same \in SUBSET (1 .. k) /\ k \in Same
  <2>1. k \in Int /\ k \in 1 .. k
    BY <1>1
  <2> QED
    BY <2>1, FS_Interval
<1>3. Same \in SUBSET Int /\ IsFiniteSet(Same) /\ Same # {}
  BY <1>2, FS_Subset
<1>4. PICK i \in Same : \A j \in Same : i <= j
  <2> HIDE DEF Same
  <2> QED
    BY <1>3, MinOf
<1>5. ASSUME NEW j \in 1 .. (i - 1) PROVE seq[j] # seq[i]
  <2>1. j \in 1 .. k /\ ~(i <= j)
    BY <1>1, <1>4
  <2> QED
    BY <1>4, <2>1
<1>6. i \in DOMAIN seq /\ i <= k
  BY <1>1, <1>4
<1> QED
  BY <1>4, <1>5, <1>6 DEF Firsts

(* `d` has each element of `seq` once, in the order of their first places. *)
Once(seq, d) ==
  /\ Len(d) = 0 <=> seq = <<>>
  /\ \A i, j \in 1 .. Len(d) : i # j => d[i] # d[j]
  /\ \A i \in 1 .. Len(d) : \E k \in DOMAIN seq :
       /\ d[i] = seq[k]
       /\ \A l \in DOMAIN seq : l < k => \E j \in 1 .. Len(d) : j < i /\ d[j] = seq[l]
  /\ \A k \in DOMAIN seq : \E i \in 1 .. Len(d) : d[i] = seq[k]

(* Distinct() leaves that.                                                 *)
LEMMA DistinctIs ==
  ASSUME NEW T, NEW seq \in Seq(T)
  PROVE  Distinct(seq) \in Seq(T) /\ Once(seq, Distinct(seq))
<1> DEFINE F == Firsts(seq)
           n == Cardinality(F)
           asc == Ascending(F)
           D == Distinct(seq)
<1>1. Len(seq) \in Nat /\ DOMAIN seq = 1 .. Len(seq) /\ \A i \in DOMAIN seq : seq[i] \in T
  BY LenProperties, ElementOfSeq
<1>2. IsFiniteSet(1 .. Len(seq)) /\ F \in SUBSET (1 .. Len(seq))
  BY <1>1, FS_Interval DEF Firsts
<1>3. F \in SUBSET Int /\ IsFiniteSet(F)
  BY <1>1, <1>2, FS_Subset
<1> HIDE DEF F
<1>4. /\ n \in Nat /\ (n = 0 <=> F = {})
      /\ asc \in [1 .. n -> F]
      /\ \A i, j \in 1 .. n : i < j => asc[i] < asc[j]
      /\ \A x \in F : \E i \in 1 .. n : asc[i] = x
  BY <1>3, AscendingIs
<1>5. D = [i \in 1 .. n |-> seq[asc[i]]]
  BY DEF Distinct, Chosen, Firsts, F
<1> HIDE DEF n, asc, D
<1>6. D \in [1 .. n -> T]
  BY <1>1, <1>2, <1>4, <1>5
<1>7. n = 0 <=> seq = <<>>
  <2>1. CASE seq = <<>>
    BY <1>1, <1>2, <1>4, <2>1, EmptySeq
  <2>2. CASE seq # <<>>
    <3>1. Len(seq) # 0
      BY <2>2, EmptySeq
    <3>2. 1 \in DOMAIN seq
      BY <1>1, <3>1
    <3>3. 1 \in F
      BY <3>2 DEF F, Firsts
    <3> QED
      BY <1>4, <2>2, <3>3
  <2> QED
    BY <2>1, <2>2
<1>8. ASSUME NEW i \in 1 .. n, NEW j \in 1 .. n, i < j PROVE D[i] # D[j]
  <2>1. asc[i] \in F /\ asc[j] \in F /\ asc[i] < asc[j]
    BY <1>4, <1>8
  <2>2. asc[i] \in 1 .. (asc[j] - 1)
    <3>1. asc[i] \in 1 .. Len(seq) /\ asc[j] \in 1 .. Len(seq)
      BY <1>2, <2>1
    <3> QED
      BY <2>1, <3>1
  <2>3. seq[asc[i]] # seq[asc[j]]
    BY <2>1, <2>2 DEF F, Firsts
  <2> QED
    BY <1>5, <2>3
<1>9. \A i, j \in 1 .. n : i # j => D[i] # D[j]
  <2> SUFFICES ASSUME NEW i \in 1 .. n, NEW j \in 1 .. n, i # j PROVE D[i] # D[j]
    OBVIOUS
  <2>1. i < j \/ j < i
    BY <1>4
  <2> QED
    BY <1>8, <2>1
<1>10. ASSUME NEW k \in DOMAIN seq
       PROVE  \E i \in 1 .. n : asc[i] <= k /\ D[i] = seq[k]
  <2>1. PICK f \in F : f <= k /\ seq[f] = seq[k]
    BY FirstExists DEF F
  <2>2. PICK i \in 1 .. n : asc[i] = f
    BY <1>4, <2>1
  <2> QED
    BY <1>5, <2>1, <2>2
<1>11. ASSUME NEW i \in 1 .. n
       PROVE  \E k \in DOMAIN seq :
                /\ D[i] = seq[k]
                /\ \A l \in DOMAIN seq : l < k => \E j \in 1 .. n : j < i /\ D[j] = seq[l]
  <2>1. asc[i] \in DOMAIN seq /\ D[i] = seq[asc[i]]
    BY <1>1, <1>2, <1>4, <1>5
  <2>2. ASSUME NEW l \in DOMAIN seq, l < asc[i]
        PROVE  \E j \in 1 .. n : j < i /\ D[j] = seq[l]
    <3>1. PICK j \in 1 .. n : asc[j] <= l /\ D[j] = seq[l]
      BY <1>10
    <3>2. asc[i] \in Int /\ asc[j] \in Int /\ l \in Int
      <4>1. asc[i] \in F /\ asc[j] \in F
        BY <1>4
      <4>2. l \in Int
        BY <1>1
      <4> QED
        BY <1>3, <4>1, <4>2
    <3>3. asc[j] < asc[i]
      BY <2>2, <3>1, <3>2
    <3>4. ~(i <= j)
      BY <1>4, <3>2, <3>3
    <3>5. j < i
      BY <1>4, <3>4
    <3> QED
      BY <3>1, <3>5
  <2> QED
    BY <2>1, <2>2
<1>12. \A k \in DOMAIN seq : \E i \in 1 .. n : D[i] = seq[k]
  BY <1>10
<1>13. D \in Seq(T) /\ Len(D) = n
  BY <1>4, <1>6
<1>14. Once(seq, D)
  BY <1>7, <1>9, <1>11, <1>12, <1>13, ZenonT(40) DEF Once
<1> QED
  BY <1>13, <1>14 DEF D

(* Chosen() takes the elements at the given places, in their order.        *)
LEMMA ChosenIs ==
  ASSUME NEW T, NEW seq \in Seq(T), NEW K \in SUBSET DOMAIN seq
  PROVE  /\ Chosen(seq, K) \in Seq(T)
         /\ \E a \in [1 .. Len(Chosen(seq, K)) -> K] :
              /\ \A i \in 1 .. Len(Chosen(seq, K)) : Chosen(seq, K)[i] = seq[a[i]]
              /\ \A i, j \in 1 .. Len(Chosen(seq, K)) : i < j => a[i] < a[j]
<1> DEFINE n == Cardinality(K)
           a == Ascending(K)
           C == Chosen(seq, K)
<1>1. Len(seq) \in Nat /\ DOMAIN seq = 1 .. Len(seq) /\ \A i \in DOMAIN seq : seq[i] \in T
  BY LenProperties, ElementOfSeq
<1>2. IsFiniteSet(1 .. Len(seq)) /\ K \in SUBSET (1 .. Len(seq))
  BY <1>1, FS_Interval
<1>3. K \in SUBSET Int /\ IsFiniteSet(K)
  BY <1>1, <1>2, FS_Subset
<1>4. n \in Nat /\ a \in [1 .. n -> K] /\ \A i, j \in 1 .. n : i < j => a[i] < a[j]
  BY <1>3, AscendingIs
<1>5. C = [i \in 1 .. n |-> seq[a[i]]]
  BY DEF Chosen
<1> HIDE DEF n, a, C
<1>6. \A i \in 1 .. n : seq[a[i]] \in T
  BY <1>1, <1>4
<1>7. C \in Seq(T) /\ Len(C) = n
  BY <1>4, <1>5, <1>6
<1>8. \A i \in 1 .. Len(C) : C[i] = seq[a[i]]
  BY <1>5, <1>7
<1> QED
  BY <1>4, <1>7, <1>8 DEF C

ProposedLine     == [n : Int, session : Int, verbatim : BOOLEAN]
ProposedSentence == [says : Int, cites : Seq(Int), words : Nat]

(* What a proposal is made of.                                             *)
LEMMA ReplyParts ==
  ASSUME NEW r \in Replies
  PROVE  /\ r.evidence \in Seq(ProposedLine) /\ r.answer \in Seq(ProposedSentence)
         /\ \A i, j \in DOMAIN r.answer : i < j => r.answer[i].says < r.answer[j].says
BY AskAssumption DEF ProposedLine, ProposedSentence

(* A number that survives is that of a genuine line of the proposal.       *)
Survives(r, n) == \E line \in Survivors(r) : line.n = n

(* The line that has a surviving number is a genuine line of the proposal. *)
LEMMA LineIs ==
  ASSUME NEW r \in Replies, NEW n, Survives(r, n)
  PROVE  /\ LineOf(r, n).n = n /\ Genuine(LineOf(r, n)) /\ Contains(r.evidence, LineOf(r, n))
<1>1. LineOf(r, n) \in Survivors(r) /\ LineOf(r, n).n = n
  BY DEF LineOf, Survives
<1>2. DOMAIN r.evidence = 1 .. Len(r.evidence)
  BY ReplyParts, LenProperties
<1>3. PICK i \in DOMAIN r.evidence : r.evidence[i] = LineOf(r, n) /\ Genuine(r.evidence[i])
  BY <1>1 DEF Survivors
<1> QED
  BY <1>1, <1>2, <1>3 DEF Contains

(* What is left of a sentence's citations are some of them, which survive. *)
LEMMA ResolvedIs ==
  ASSUME NEW r \in Replies, NEW cites \in Seq(Int)
  PROVE  /\ Resolved(r, cites) \in Seq(Int)
         /\ \A c \in ToSet(Resolved(r, cites)) : Contains(cites, c) /\ Survives(r, c)
<1> DEFINE K == {j \in DOMAIN cites : \E line \in Survivors(r) : line.n = cites[j]}
           C == Chosen(cites, K)
           D == Distinct(C)
<1>1. C \in Seq(Int)
      /\ \E a \in [1 .. Len(C) -> K] : \A i \in 1 .. Len(C) : C[i] = cites[a[i]]
  <2>1. K \in SUBSET DOMAIN cites
    OBVIOUS
  <2> HIDE DEF K
  <2>2. C \in Seq(Int)
    BY <2>1, ChosenIs
  <2>3. \E a \in [1 .. Len(C) -> K] : /\ \A i \in 1 .. Len(C) : C[i] = cites[a[i]]
                                     /\ \A i, j \in 1 .. Len(C) : i < j => a[i] < a[j]
    BY <2>1, ChosenIs
  <2> QED
    BY <2>2, <2>3
<1>2. D = Resolved(r, cites)
  BY DEF Resolved
<1>3. \A j \in K : j \in DOMAIN cites /\ Survives(r, cites[j])
  BY DEF Survives
<1> HIDE DEF K, C, D
<1>4. PICK a \in [1 .. Len(C) -> K] : \A i \in 1 .. Len(C) : C[i] = cites[a[i]]
  BY <1>1
<1>5. D \in Seq(Int) /\ Once(C, D)
  BY <1>1, DistinctIs DEF D
<1>6. DOMAIN C = 1 .. Len(C) /\ DOMAIN cites = 1 .. Len(cites) /\ DOMAIN D = 1 .. Len(D)
  BY <1>1, <1>5, LenProperties
<1>7. ASSUME NEW i \in 1 .. Len(D) PROVE Contains(cites, D[i]) /\ Survives(r, D[i])
  <2>1. PICK k \in 1 .. Len(C) : D[i] = C[k]
    BY <1>5, <1>6 DEF Once
  <2>2. a[k] \in K /\ D[i] = cites[a[k]]
    BY <1>4, <2>1
  <2> QED
    BY <1>3, <1>6, <2>2 DEF Contains
<1> QED
  BY <1>2, <1>5, <1>6, <1>7 DEF ToSet

(* Sentences of the proposal in its order, each of which cites something   *)
(* and cites nothing that it did not cite and that does not survive.       *)
Cut(r, seq, a) ==
  /\ seq \in Seq(ProposedSentence)
  /\ a \in [1 .. Len(seq) -> DOMAIN r.answer]
  /\ \A i, j \in 1 .. Len(seq) : i < j => a[i] < a[j]
  /\ \A i \in 1 .. Len(seq) :
       /\ seq[i].says = r.answer[a[i]].says /\ seq[i].cites # <<>>
       /\ \A c \in ToSet(seq[i].cites) : Contains(r.answer[a[i]].cites, c) /\ Survives(r, c)

(* Those that are backed are such sentences, ...                           *)
LEMMA BackedIs == ASSUME NEW r \in Replies PROVE \E a : Cut(r, Backed(r), a)
<1> DEFINE Of(s) == [s EXCEPT !.cites = Resolved(r, s.cites)]
           cut == [i \in DOMAIN r.answer |-> Of(r.answer[i])]
           K == {i \in DOMAIN cut : cut[i].cites # <<>>}
           B == Chosen(cut, K)
<1>1. B = Backed(r)
  BY DEF Backed
<1>2. Len(r.answer) \in Nat /\ DOMAIN r.answer = 1 .. Len(r.answer)
      /\ \A i \in DOMAIN r.answer : r.answer[i] \in ProposedSentence
  BY ReplyParts, LenProperties, ElementOfSeq
<1>3. ASSUME NEW s \in ProposedSentence
      PROVE  /\ Of(s) \in ProposedSentence
             /\ Of(s).says = s.says /\ Of(s).cites = Resolved(r, s.cites)
  <2>1. s.cites \in Seq(Int)
    BY DEF ProposedSentence
  <2>2. Resolved(r, s.cites) \in Seq(Int)
    BY <2>1, ResolvedIs
  <2> QED
    BY <2>2 DEF ProposedSentence
<1> HIDE DEF Of
<1>4. cut \in Seq(ProposedSentence) /\ DOMAIN cut = DOMAIN r.answer
  <2>1. \A i \in 1 .. Len(r.answer) : Of(r.answer[i]) \in ProposedSentence
    BY <1>2, <1>3
  <2> QED
    BY <1>2, <2>1
<1>5. \A i \in DOMAIN r.answer : cut[i] = Of(r.answer[i])
  OBVIOUS
<1>6. K \in SUBSET DOMAIN cut /\ \A i \in K : i \in DOMAIN r.answer /\ cut[i].cites # <<>>
  BY <1>4
<1> HIDE DEF cut, K
<1>7. /\ B \in Seq(ProposedSentence)
      /\ \E a \in [1 .. Len(B) -> K] : /\ \A i \in 1 .. Len(B) : B[i] = cut[a[i]]
                                       /\ \A i, j \in 1 .. Len(B) : i < j => a[i] < a[j]
  BY <1>4, <1>6, ChosenIs
<1> HIDE DEF B
<1>8. PICK a \in [1 .. Len(B) -> K] : /\ \A i \in 1 .. Len(B) : B[i] = cut[a[i]]
                                      /\ \A i, j \in 1 .. Len(B) : i < j => a[i] < a[j]
  BY <1>7
<1>9. a \in [1 .. Len(B) -> DOMAIN r.answer]
  BY <1>6
<1>10. ASSUME NEW i \in 1 .. Len(B)
       PROVE  /\ B[i].says = r.answer[a[i]].says /\ B[i].cites # <<>>
              /\ \A c \in ToSet(B[i].cites) : Contains(r.answer[a[i]].cites, c) /\ Survives(r, c)
  <2>1. a[i] \in K /\ a[i] \in DOMAIN r.answer
    BY <1>6, <1>8
  <2>2. r.answer[a[i]] \in ProposedSentence /\ B[i] = Of(r.answer[a[i]]) /\ B[i].cites # <<>>
    BY <1>2, <1>5, <1>6, <1>8, <2>1
  <2>3. B[i].says = r.answer[a[i]].says /\ B[i].cites = Resolved(r, r.answer[a[i]].cites)
    BY <1>3, <2>2
  <2>4. r.answer[a[i]].cites \in Seq(Int)
    BY <2>2 DEF ProposedSentence
  <2> QED
    BY <2>2, <2>3, <2>4, ResolvedIs
<1>11. Cut(r, B, a)
  BY <1>7, <1>8, <1>9, <1>10 DEF Cut
<1> QED
  BY <1>1, <1>11

(* ... and so are the first of them, which fit the budget of words unless  *)
(* there is one only.                                                      *)
LEMMA WithinIs ==
  ASSUME NEW r, NEW seq, NEW a, Cut(r, seq, a)
  PROVE  /\ \E b : Cut(r, Within(seq), b)
         /\ Len(Within(seq)) > 1 => Words(Within(seq)) <= MaxWords
<1> DEFINE fit == {n \in 1 .. Len(seq) : n = 1 \/ Words(SubSeq(seq, 1, n)) <= MaxWords}
           n == Max(fit \cup {0})
           W == SubSeq(seq, 1, n)
<1>1. seq \in Seq(ProposedSentence) /\ Len(seq) \in Nat
      /\ \A i \in 1 .. Len(seq) : seq[i] \in ProposedSentence
  BY LenProperties, ElementOfSeq DEF Cut
<1>2. IsFiniteSet(0 .. Len(seq)) /\ fit \cup {0} \in SUBSET (0 .. Len(seq)) /\ fit \cup {0} # {}
  BY <1>1, FS_Interval
<1>3. fit \cup {0} \in SUBSET Int /\ IsFiniteSet(fit \cup {0})
  <2> HIDE DEF fit
  <2> QED
    BY <1>1, <1>2, FS_Subset
<1>4. n \in fit \cup {0}
  <2> HIDE DEF fit
  <2> QED
    BY <1>2, <1>3, MaxOf
<1>5. W = Within(seq)
  BY DEF Within
<1>6. n \in 0 .. Len(seq) /\ (n > 1 => Words(W) <= MaxWords)
  <2> HIDE DEF n
  <2> QED
    BY <1>1, <1>4
<1> HIDE DEF n, fit
<1>7. /\ W \in Seq(ProposedSentence) /\ Len(W) = n
      /\ \A i \in 1 .. n : W[i] = seq[i] /\ i \in 1 .. Len(seq)
  BY <1>1, <1>6
<1> HIDE DEF W
<1> DEFINE b == [i \in 1 .. n |-> a[i]]
<1>8. Cut(r, W, b)
  BY <1>7 DEF Cut
<1> QED
  BY <1>5, <1>6, <1>7, <1>8

(* `flat` goes through the first m sequences of `cs`, and b says from      *)
(* which one of them each element is.                                      *)
Through(cs, m, flat, b) ==
  /\ flat \in Seq(Int) /\ b \in [1 .. Len(flat) -> 1 .. m]
  /\ \A j, k \in 1 .. Len(flat) : j < k => b[j] <= b[k]
  /\ \A j \in 1 .. Len(flat) : \E k \in 1 .. Len(cs[b[j]]) : flat[j] = cs[b[j]][k]
  /\ \A i \in 1 .. m : \A k \in 1 .. Len(cs[i]) :
       \E j \in 1 .. Len(flat) : b[j] = i /\ flat[j] = cs[i][k]

(* FlattenSeq(), sequence by sequence.                                     *)
NextFlat(cs, f, i)  == IF i = 1 THEN cs[i] ELSE f[i - 1] \o cs[i]
Flattens(cs, f, m)  == f = [i \in 1 .. m |-> NextFlat(cs, f, i)]

(* There is such a function, because each step depends on the one before.  *)
LEMMA FlattensExists ==
  ASSUME NEW cs, NEW m \in Nat
  PROVE  \E f : Flattens(cs, f, m)
<1> DEFINE Bad == {n \in 0 .. m : ~ \E f : Flattens(cs, f, n)}
<1>1. SUFFICES ASSUME Bad # {} PROVE FALSE
  OBVIOUS
<1>2. PICK n \in Bad : \A k \in Bad : n <= k
  <2>1. IsFiniteSet(0 .. m) /\ Bad \in SUBSET (0 .. m)
    BY FS_Interval
  <2>2. Bad \in SUBSET Int /\ IsFiniteSet(Bad)
    BY <2>1, FS_Subset
  <2> HIDE DEF Bad
  <2> QED
    BY <1>1, <2>2, MinOf
<1>3. n \in 0 .. m /\ ~ \E f : Flattens(cs, f, n)
  BY <1>2
<1>4. \E f : n = 0 \/ Flattens(cs, f, n - 1)
  <2>1. n # 0 => n - 1 \in 0 .. m /\ n - 1 \notin Bad
    BY <1>2, <1>3
  <2> QED
    BY <1>3, <2>1
<1>5. PICK f : n = 0 \/ Flattens(cs, f, n - 1)
  BY <1>4
<1> DEFINE g == [k \in 1 .. n |-> NextFlat(cs, f, k)]
<1> HIDE DEF Bad
<1>6. ASSUME NEW k \in 1 .. (n - 1) PROVE g[k] = f[k]
  <2>1. n # 0 /\ k \in 1 .. n
    BY <1>3
  <2>2. f[k] = NextFlat(cs, f, k)
    BY <1>5, <2>1 DEF Flattens
  <2> QED
    BY <2>1, <2>2
<1>7. ASSUME NEW k \in 1 .. n PROVE NextFlat(cs, g, k) = NextFlat(cs, f, k)
  <2> HIDE DEF g
  <2>1. k = 1 \/ k - 1 \in 1 .. (n - 1)
    BY <1>3
  <2> QED
    BY <1>6, <2>1 DEF NextFlat
<1>8. Flattens(cs, g, n)
  BY <1>7 DEF Flattens
<1> QED
  BY <1>3, <1>8

(* One more sequence goes behind the others.                               *)
LEMMA FlatGrows ==
  ASSUME NEW cs \in Seq(Seq(Int)), NEW m \in 0 .. (Len(cs) - 1), NEW flat, NEW b,
         Through(cs, m, flat, b)
  PROVE  \E c : Through(cs, m + 1, flat \o cs[m + 1], c)
<1> DEFINE x   == cs[m + 1]
           new == flat \o x
           L   == Len(flat)
           X   == Len(x)
           N   == Len(new)
           c   == [j \in 1 .. N |-> IF j <= L THEN b[j] ELSE m + 1]
<1>1. Len(cs) \in Nat /\ m \in Nat /\ m + 1 \in 1 .. Len(cs)
  BY LenProperties
<1>2. x \in Seq(Int)
  BY <1>1, ElementOfSeq
<1>3. flat \in Seq(Int) /\ L \in Nat /\ X \in Nat
  BY <1>2, LenProperties DEF Through
<1> HIDE DEF x
<1>4. /\ new \in Seq(Int) /\ N = L + X
      /\ \A i \in 1 .. (L + X) : new[i] = IF i <= L THEN flat[i] ELSE x[i - L]
  BY <1>2, <1>3, ConcatProperties
<1>5. /\ \A j \in 1 .. L : b[j] \in 1 .. m
      /\ \A j, k \in 1 .. L : j < k => b[j] <= b[k]
      /\ \A j \in 1 .. L : \E k \in 1 .. Len(cs[b[j]]) : flat[j] = cs[b[j]][k]
      /\ \A i \in 1 .. m : \A k \in 1 .. Len(cs[i]) : \E j \in 1 .. L : b[j] = i /\ flat[j] = cs[i][k]
  BY DEF Through
<1> HIDE DEF new, L, N
<1>6. \A j \in 1 .. N : c[j] = IF j <= L THEN b[j] ELSE m + 1
  OBVIOUS
<1>7. c = [j \in 1 .. N |-> c[j]]
  OBVIOUS
<1> HIDE DEF c
<1>8. ASSUME NEW j \in 1 .. N
      PROVE  \/ j \in 1 .. L /\ c[j] = b[j] /\ new[j] = flat[j]
             \/ /\ j \notin 1 .. L /\ j - L \in 1 .. X
                /\ c[j] = m + 1 /\ new[j] = x[j - L]
  <2> HIDE DEF X
  <2>1. j \in 1 .. (L + X) /\ j \in Int
    BY <1>4
  <2>2. CASE j <= L
    <3>1. j \in 1 .. L
      BY <1>3, <2>1, <2>2
    <3> QED
      BY <1>4, <1>6, <2>1, <2>2, <3>1
  <2>3. CASE ~(j <= L)
    <3>1. j \notin 1 .. L /\ j - L \in 1 .. X
      BY <1>3, <2>1, <2>3
    <3> QED
      BY <1>4, <1>6, <2>1, <2>3, <3>1
  <2> QED
    BY <2>2, <2>3
<1>9. ASSUME NEW j \in 1 .. N PROVE c[j] \in 1 .. (m + 1)
  <2>1. CASE j \in 1 .. L /\ c[j] = b[j]
    <3>1. c[j] \in 1 .. m
      BY <1>5, <2>1
    <3> QED
      BY <1>1, <3>1
  <2>2. CASE c[j] = m + 1
    BY <1>1, <2>2
  <2> QED
    BY <1>8, <2>1, <2>2
<1>10. ASSUME NEW j \in 1 .. N, NEW k \in 1 .. N, j < k PROVE c[j] <= c[k]
  <2>1. CASE k \in 1 .. L
    <3>1. j \in 1 .. L
      BY <1>3, <1>10, <2>1
    <3> QED
      BY <1>5, <1>8, <1>10, <2>1, <3>1
  <2>2. CASE k \notin 1 .. L
    <3>1. c[k] = m + 1 /\ c[j] \in 1 .. (m + 1)
      BY <1>8, <1>9, <2>2
    <3> QED
      BY <1>1, <3>1
  <2> QED
    BY <2>1, <2>2
<1>11. ASSUME NEW j \in 1 .. N
       PROVE  \E k \in 1 .. Len(cs[c[j]]) : new[j] = cs[c[j]][k]
  <2>1. CASE j \in 1 .. L /\ c[j] = b[j] /\ new[j] = flat[j]
    <3>1. PICK k \in 1 .. Len(cs[b[j]]) : flat[j] = cs[b[j]][k]
      BY <1>5, <2>1
    <3> QED
      BY <2>1, <3>1
  <2>2. CASE j - L \in 1 .. X /\ c[j] = m + 1 /\ new[j] = x[j - L]
    BY <2>2 DEF x
  <2> QED
    BY <1>8, <2>1, <2>2
<1>12. ASSUME NEW i \in 1 .. (m + 1), NEW k \in 1 .. Len(cs[i])
       PROVE  \E j \in 1 .. N : c[j] = i /\ new[j] = cs[i][k]
  <2>1. CASE i = m + 1
    <3>1. k \in 1 .. X
      BY <2>1 DEF x
    <3> HIDE DEF X
    <3>2. L + k \in 1 .. N /\ L + k \notin 1 .. L /\ (L + k) - L = k
      BY <1>3, <1>4, <3>1
    <3>3. c[L + k] = i /\ new[L + k] = x[k]
      BY <1>8, <2>1, <3>2
    <3> QED
      BY <2>1, <3>2, <3>3 DEF x
  <2>2. CASE i # m + 1
    <3>1. i \in 1 .. m
      BY <1>1, <2>2
    <3>2. PICK j \in 1 .. L : b[j] = i /\ flat[j] = cs[i][k]
      BY <1>5, <3>1
    <3>3. j \in 1 .. N
      <4> HIDE DEF X
      <4> QED
        BY <1>3, <1>4
    <3> QED
      BY <1>8, <3>2, <3>3
  <2> QED
    BY <2>1, <2>2
<1>13. Through(cs, m + 1, new, c)
  BY <1>4, <1>7, <1>9, <1>10, <1>11, <1>12 DEF Through, N
<1> QED
  BY <1>13 DEF new, x

(* So FlattenSeq() goes through all of them.                               *)
LEMMA FlattenIs ==
  ASSUME NEW cs \in Seq(Seq(Int))
  PROVE  \E b : Through(cs, Len(cs), FlattenSeq(cs), b)
<1> DEFINE n == Len(cs)
           f == CHOOSE g : Flattens(cs, g, n)
<1>1. n \in Nat /\ DOMAIN cs = 1 .. n
  BY LenProperties
<1>2. FlattenSeq(cs) = IF n = 0 THEN cs ELSE f[n]
  BY DEF FlattenSeq, Flattens, NextFlat
<1>3. Flattens(cs, f, n)
  <2> HIDE DEF n
  <2> QED
    BY <1>1, FlattensExists
<1> HIDE DEF n, f
<1>4. Through(cs, 0, <<>>, <<>>)
  BY DEF Through
<1>5. ASSUME n # 0 PROVE \E b : Through(cs, n, f[n], b)
  <2> DEFINE Bad == {m \in 1 .. n : ~ \E b : Through(cs, m, f[m], b)}
  <2>1. SUFFICES ASSUME Bad # {} PROVE FALSE
    <3>1. n \in 1 .. n
      BY <1>1, <1>5
    <3> QED
      BY <3>1
  <2>2. PICK m \in Bad : \A k \in Bad : m <= k
    <3>1. IsFiniteSet(1 .. n) /\ Bad \in SUBSET (1 .. n)
      BY <1>1, FS_Interval
    <3>2. Bad \in SUBSET Int /\ IsFiniteSet(Bad)
      BY <1>1, <3>1, FS_Subset
    <3> HIDE DEF Bad
    <3> QED
      BY <2>1, <3>2, MinOf
  <2>3. m \in 1 .. n /\ ~ \E b : Through(cs, m, f[m], b)
    BY <2>2
  <2>4. f[m] = NextFlat(cs, f, m)
    BY <1>3, <2>3 DEF Flattens
  <2>5. m - 1 \in 0 .. (Len(cs) - 1) /\ (m - 1) + 1 = m
    BY <1>1, <2>3 DEF n
  <2>6. CASE m = 1
    <3>1. cs[m] \in Seq(Int)
      BY <1>1, <2>3, ElementOfSeq DEF n
    <3>2. <<>> \o cs[m] = cs[m]
      BY <3>1, ConcatEmptySeq
    <3>3. \E b : Through(cs, 0 + 1, <<>> \o cs[0 + 1], b)
      <4>1. 0 \in 0 .. (Len(cs) - 1)
        BY <2>5, <2>6
      <4> QED
        BY <1>4, <4>1, FlatGrows
    <3>4. f[m] = cs[m]
      BY <2>4, <2>6 DEF NextFlat
    <3>5. 0 + 1 = m
      BY <2>6
    <3> QED
      BY <2>3, <3>2, <3>3, <3>4, <3>5
  <2>7. CASE m # 1
    <3>1. m - 1 \in 1 .. n /\ ~(m <= m - 1)
      BY <1>1, <2>3, <2>7
    <3>2. PICK b : Through(cs, m - 1, f[m - 1], b)
      BY <2>2, <3>1
    <3>3. \E c : Through(cs, (m - 1) + 1, f[m - 1] \o cs[(m - 1) + 1], c)
      BY <2>5, <3>2, FlatGrows
    <3>4. f[m] = f[m - 1] \o cs[m]
      BY <2>4, <2>7 DEF NextFlat
    <3> QED
      BY <2>3, <2>5, <3>3, <3>4
  <2> QED
    BY <2>6, <2>7
<1>6. ASSUME n = 0 PROVE cs = <<>>
  BY <1>6, EmptySeq DEF n
<1> QED
  BY <1>2, <1>4, <1>5, <1>6 DEF n

(* The numbers that sentences cite, each once and in the order of their    *)
(* first use: before it comes all that earlier sentences cite than the one *)
(* that uses it first.                                                     *)
FirstUses(r, seq, ord) ==
  /\ \A m, n \in 1 .. Len(ord) : m # n => ord[m] # ord[n]
  /\ \A m \in 1 .. Len(ord) : Survives(r, ord[m])
  /\ \A i \in 1 .. Len(seq) : \A c \in ToSet(seq[i].cites) : \E m \in 1 .. Len(ord) : ord[m] = c
  /\ \A m \in 1 .. Len(ord) : \E i \in 1 .. Len(seq) :
       /\ ord[m] \in ToSet(seq[i].cites)
       /\ \A j \in 1 .. (i - 1) : \A c \in ToSet(seq[j].cites) :
            \E n \in 1 .. Len(ord) : n < m /\ ord[n] = c

(* Order() lists these.                                                    *)
LEMMA OrderIs ==
  ASSUME NEW r, NEW seq, NEW a, Cut(r, seq, a)
  PROVE  Order(seq) \in Seq(Int) /\ FirstUses(r, seq, Order(seq))
<1> DEFINE N == Len(seq)
           cs == [i \in DOMAIN seq |-> seq[i].cites]
           flat == FlattenSeq(cs)
           ord == Distinct(flat)
<1>1. /\ N \in Nat /\ DOMAIN seq = 1 .. N
      /\ \A i \in 1 .. N : seq[i].cites \in Seq(Int)
  <2>1. seq \in Seq(ProposedSentence)
    BY DEF Cut
  <2>2. \A i \in 1 .. N : seq[i] \in ProposedSentence
    BY <2>1, ElementOfSeq
  <2> QED
    BY <2>1, <2>2, LenProperties DEF ProposedSentence
<1>2. ord = Order(seq)
  BY DEF Order
<1> HIDE DEF N
<1>3. cs \in Seq(Seq(Int)) /\ Len(cs) = N /\ \A i \in 1 .. N : cs[i] = seq[i].cites
  BY <1>1
<1> HIDE DEF cs
<1>4. PICK b : Through(cs, N, flat, b)
  BY <1>3, FlattenIs
<1> HIDE DEF flat
<1>5. flat \in Seq(Int) /\ DOMAIN flat = 1 .. Len(flat) /\ Len(flat) \in Nat
  BY <1>4, LenProperties DEF Through
<1>6. ord \in Seq(Int) /\ Once(flat, ord)
  BY <1>5, DistinctIs
<1> HIDE DEF ord
<1>7. \A i \in 1 .. N : ToSet(seq[i].cites) = {cs[i][k] : k \in 1 .. Len(cs[i])}
  BY <1>1, <1>3, LenProperties DEF ToSet
<1>8. ASSUME NEW k \in 1 .. Len(flat)
      PROVE  b[k] \in 1 .. N /\ flat[k] \in ToSet(seq[b[k]].cites)
  <2>1. b[k] \in 1 .. N /\ \E l \in 1 .. Len(cs[b[k]]) : flat[k] = cs[b[k]][l]
    BY <1>4 DEF Through
  <2> QED
    BY <1>7, <2>1
<1>9. ASSUME NEW i \in 1 .. N, NEW c \in ToSet(seq[i].cites)
      PROVE  \E k \in 1 .. Len(flat) : b[k] = i /\ flat[k] = c
  <2>1. PICK l \in 1 .. Len(cs[i]) : c = cs[i][l]
    BY <1>7
  <2> QED
    BY <1>4, <2>1 DEF Through
<1>10. /\ \A m, n \in 1 .. Len(ord) : m # n => ord[m] # ord[n]
       /\ \A k \in 1 .. Len(flat) : \E m \in 1 .. Len(ord) : ord[m] = flat[k]
       /\ \A m \in 1 .. Len(ord) : \E k \in 1 .. Len(flat) :
            /\ ord[m] = flat[k]
            /\ \A l \in 1 .. Len(flat) : l < k => \E n \in 1 .. Len(ord) : n < m /\ ord[n] = flat[l]
  <2>1. 1 .. Len(flat) = DOMAIN flat
    BY <1>5
  <2>2. \A m, n \in 1 .. Len(ord) : m # n => ord[m] # ord[n]
    BY <1>6, Zenon DEF Once
  <2>3. \A k \in DOMAIN flat : \E m \in 1 .. Len(ord) : ord[m] = flat[k]
    BY <1>6, Zenon DEF Once
  <2>4. \A m \in 1 .. Len(ord) : \E k \in DOMAIN flat :
          /\ ord[m] = flat[k]
          /\ \A l \in DOMAIN flat : l < k => \E n \in 1 .. Len(ord) : n < m /\ ord[n] = flat[l]
    BY <1>6, Zenon DEF Once
  <2>5. \A k \in 1 .. Len(flat) : \E m \in 1 .. Len(ord) : ord[m] = flat[k]
    BY <2>1, <2>3
  <2>6. \A m \in 1 .. Len(ord) : \E k \in 1 .. Len(flat) :
          /\ ord[m] = flat[k]
          /\ \A l \in 1 .. Len(flat) : l < k => \E n \in 1 .. Len(ord) : n < m /\ ord[n] = flat[l]
    <3> DEFINE First(k, m) == /\ ord[m] = flat[k]
                              /\ \A l \in 1 .. Len(flat) : l < k =>
                                   \E n \in 1 .. Len(ord) : n < m /\ ord[n] = flat[l]
    <3>1. ASSUME NEW m \in 1 .. Len(ord) PROVE \E k \in 1 .. Len(flat) : First(k, m)
      <4>1. PICK k \in DOMAIN flat :
              /\ ord[m] = flat[k]
              /\ \A l \in DOMAIN flat : l < k => \E n \in 1 .. Len(ord) : n < m /\ ord[n] = flat[l]
        BY <2>4, Zenon
      <4>2. k \in 1 .. Len(flat)
        BY <2>1
      <4>3. \A l \in 1 .. Len(flat) : l < k => \E n \in 1 .. Len(ord) : n < m /\ ord[n] = flat[l]
        BY <2>1, <4>1, Zenon
      <4> QED
        BY <4>1, <4>2, <4>3, Zenon
    <3> QED
      BY <3>1, Zenon
  <2> QED
    BY <2>2, <2>5, <2>6
<1>11. ASSUME NEW i \in 1 .. N, NEW c \in ToSet(seq[i].cites)
       PROVE  \E m \in 1 .. Len(ord) : ord[m] = c
  <2>1. PICK k \in 1 .. Len(flat) : flat[k] = c
    BY <1>9
  <2> QED
    BY <1>10, <2>1
<1>12. ASSUME NEW m \in 1 .. Len(ord)
       PROVE  /\ Survives(r, ord[m])
              /\ \E i \in 1 .. N :
                   /\ ord[m] \in ToSet(seq[i].cites)
                   /\ \A j \in 1 .. (i - 1) : \A c \in ToSet(seq[j].cites) :
                        \E n \in 1 .. Len(ord) : n < m /\ ord[n] = c
  <2>1. PICK k \in 1 .. Len(flat) :
          /\ ord[m] = flat[k]
          /\ \A l \in 1 .. Len(flat) : l < k => \E n \in 1 .. Len(ord) : n < m /\ ord[n] = flat[l]
    BY <1>10
  <2>2. b[k] \in 1 .. N /\ ord[m] \in ToSet(seq[b[k]].cites)
    BY <1>8, <2>1
  <2>3. Survives(r, ord[m])
    BY <2>2 DEF Cut, N
  <2>4. ASSUME NEW j \in 1 .. (b[k] - 1), NEW c \in ToSet(seq[j].cites)
        PROVE  \E n \in 1 .. Len(ord) : n < m /\ ord[n] = c
    <3>1. j \in 1 .. N /\ j < b[k] /\ j \in Int /\ b[k] \in Int
      BY <1>1, <2>2
    <3>2. PICK l \in 1 .. Len(flat) : b[l] = j /\ flat[l] = c
      BY <1>9, <3>1
    <3>3. k < l => b[k] <= b[l]
      BY <1>4 DEF Through
    <3>4. l < k
      BY <1>5, <3>1, <3>2, <3>3
    <3> QED
      BY <2>1, <3>2, <3>4
  <2> QED
    BY <2>2, <2>3, <2>4
<1>13. FirstUses(r, seq, ord)
  BY <1>10, <1>11, <1>12, Zenon DEF FirstUses, N
<1> QED
  BY <1>2, <1>6, <1>13

(* A set of numbers as a sequence.                                         *)
LEMMA AscendingHas ==
  ASSUME NEW n \in Nat, NEW S \in SUBSET (1 .. n)
  PROVE  /\ ToSet(Ascending(S)) = S /\ (S # {} => Ascending(S) # <<>>)
         /\ \A m \in S : Contains(Ascending(S), m)
<1> DEFINE asc == Ascending(S)
           k == Cardinality(S)
<1>1. IsFiniteSet(1 .. n) /\ S \in SUBSET Int
  BY FS_Interval
<1>2. IsFiniteSet(S)
  BY <1>1, FS_Subset
<1>3. /\ k \in Nat /\ (k = 0 <=> S = {}) /\ asc \in [1 .. k -> S]
      /\ \A x \in S : \E i \in 1 .. k : asc[i] = x
  BY <1>1, <1>2, AscendingIs
<1> HIDE DEF asc, k
<1>4. asc \in Seq(S) /\ Len(asc) = k
  BY <1>3
<1>5. ToSet(asc) = S
  BY <1>3 DEF ToSet
<1>6. S # {} => asc # <<>>
  BY <1>3, <1>4
<1>7. \A m \in S : Contains(asc, m)
  BY <1>3, <1>4 DEF Contains
<1> QED
  BY <1>5, <1>6, <1>7 DEF asc

(* What filterAnswer() leaves of a proposal is grounded in it.             *)
LEMMA FilterIsGrounded ==
  ASSUME NEW r \in Replies
  PROVE  /\ Grounded(r, Filter(r).sentences, Filter(r).evidence)
         /\ Filter(r).evidence = [m \in 1 .. Len(Order(Within(Backed(r)))) |->
                                    LineOf(r, Order(Within(Backed(r)))[m])]
         /\ Len(Order(Within(Backed(r)))) \in Nat
<1> DEFINE kept == Within(Backed(r))
           ord == Order(kept)
           N == Len(kept)
           M == Len(ord)
           used(i) == {m \in DOMAIN ord : Contains(kept[i].cites, ord[m])}
           Of(s, S) == [s EXCEPT !.cites = Ascending(S)]
           out == [i \in DOMAIN kept |-> Of(kept[i], used(i))]
           lines == [m \in DOMAIN ord |-> LineOf(r, ord[m])]
<1>1. Filter(r).sentences = out /\ Filter(r).evidence = lines
  BY DEF Filter, Renumbered
<1>2. PICK a : Cut(r, kept, a)
  BY BackedIs, WithinIs
<1>3. N > 1 => Words(kept) <= MaxWords
  BY BackedIs, WithinIs
<1> HIDE DEF kept
<1>4. /\ ord \in Seq(Int)
      /\ \A m, n \in 1 .. M : m # n => ord[m] # ord[n]
      /\ \A m \in 1 .. M : Survives(r, ord[m])
      /\ \A i \in 1 .. N : \A c \in ToSet(kept[i].cites) : \E m \in 1 .. M : ord[m] = c
      /\ \A m \in 1 .. M : \E i \in 1 .. N :
           /\ ord[m] \in ToSet(kept[i].cites)
           /\ \A j \in 1 .. (i - 1) : \A c \in ToSet(kept[j].cites) :
                \E n \in 1 .. M : n < m /\ ord[n] = c
  <2>1. ord \in Seq(Int) /\ FirstUses(r, kept, ord)
    BY <1>2, OrderIs
  <2> HIDE DEF ord
  <2> QED
    BY <2>1 DEF FirstUses
<1> HIDE DEF ord
<1>5. M \in Nat /\ DOMAIN ord = 1 .. M
  BY <1>4, LenProperties
<1>6. /\ kept \in Seq(ProposedSentence) /\ N \in Nat /\ DOMAIN kept = 1 .. N
      /\ \A i \in 1 .. N : kept[i] \in ProposedSentence
  BY <1>2, LenProperties, ElementOfSeq DEF Cut
<1> HIDE DEF M, N
<1>7. ASSUME NEW i \in 1 .. N
      PROVE  /\ kept[i].cites # <<>>
             /\ \A c : Contains(kept[i].cites, c) <=> c \in ToSet(kept[i].cites)
             /\ \E c : c \in ToSet(kept[i].cites)
  <2>1. kept[i].cites \in Seq(Int) /\ kept[i].cites # <<>>
    BY <1>2, <1>6 DEF Cut, ProposedSentence, N
  <2>2. DOMAIN kept[i].cites = 1 .. Len(kept[i].cites) /\ Len(kept[i].cites) \in Nat \ {0}
    BY <2>1, LenProperties, EmptySeq
  <2>3. 1 \in 1 .. Len(kept[i].cites)
    BY <2>2
  <2> QED
    BY <2>1, <2>2, <2>3 DEF Contains, ToSet
<1>8. ASSUME NEW i \in 1 .. N
      PROVE  /\ used(i) \in SUBSET (1 .. M)
             /\ \A m \in 1 .. M : m \in used(i) <=> ord[m] \in ToSet(kept[i].cites)
             /\ used(i) # {}
  <2>1. /\ used(i) \in SUBSET (1 .. M)
        /\ \A m \in 1 .. M : m \in used(i) <=> ord[m] \in ToSet(kept[i].cites)
    BY <1>5, <1>7
  <2>2. PICK c : c \in ToSet(kept[i].cites)
    BY <1>7
  <2>3. PICK m \in 1 .. M : ord[m] = c
    BY <1>4, <2>2
  <2> HIDE DEF used
  <2> QED
    BY <2>1, <2>2, <2>3
<1> HIDE DEF used
<1>9. ASSUME NEW i \in 1 .. N
      PROVE  /\ out[i].says = kept[i].says /\ out[i].words = kept[i].words
             /\ out[i].cites = Ascending(used(i))
  <2>1. out[i] = [kept[i] EXCEPT !.cites = Ascending(used(i))]
    BY <1>6
  <2>2. kept[i] \in ProposedSentence
    BY <1>6
  <2> HIDE DEF out
  <2> QED
    BY <2>1, <2>2 DEF ProposedSentence
<1>10. DOMAIN out = 1 .. N /\ DOMAIN lines = 1 .. M
  BY <1>5, <1>6
<1>11. \A m \in 1 .. M : lines[m] = LineOf(r, ord[m])
  BY <1>5
<1> HIDE DEF out, lines
<1>12. ASSUME NEW i \in 1 .. N
       PROVE  /\ out[i].cites # <<>> /\ ToSet(out[i].cites) = used(i)
              /\ \A m \in used(i) : Contains(out[i].cites, m)
  BY <1>5, <1>8, <1>9, AscendingHas
<1>13. ASSUME NEW m \in 1 .. M
       PROVE  lines[m].n = ord[m] /\ Genuine(lines[m]) /\ Contains(r.evidence, lines[m])
  BY <1>4, <1>11, LineIs
<1>14. ASSUME NEW i \in 1 .. N
       PROVE  \E p \in DOMAIN r.answer :
                /\ r.answer[p].says = out[i].says
                /\ \A m \in ToSet(out[i].cites) : Contains(r.answer[p].cites, lines[m].n)
  <2>1. /\ a[i] \in DOMAIN r.answer /\ kept[i].says = r.answer[a[i]].says
        /\ \A c \in ToSet(kept[i].cites) : Contains(r.answer[a[i]].cites, c)
    BY <1>2 DEF Cut, N
  <2>2. ASSUME NEW m \in ToSet(out[i].cites) PROVE Contains(r.answer[a[i]].cites, lines[m].n)
    BY <1>8, <1>12, <1>13, <2>1
  <2> QED
    BY <1>9, <2>1, <2>2
<1>15. ASSUME NEW i \in 1 .. N, NEW j \in 1 .. N, i < j PROVE out[i].says < out[j].says
  <2>1. /\ a[i] \in DOMAIN r.answer /\ a[j] \in DOMAIN r.answer /\ a[i] < a[j]
        /\ kept[i].says = r.answer[a[i]].says /\ kept[j].says = r.answer[a[j]].says
    BY <1>2, <1>15 DEF Cut, N
  <2> QED
    BY <1>9, <2>1, ReplyParts
<1>16. ASSUME NEW m \in 1 .. M
       PROVE  \E i \in 1 .. N : /\ Contains(out[i].cites, m)
                                /\ \A j \in 1 .. (i - 1) : \A n \in ToSet(out[j].cites) : n < m
  <2>1. PICK i \in 1 .. N :
          /\ ord[m] \in ToSet(kept[i].cites)
          /\ \A j \in 1 .. (i - 1) : \A c \in ToSet(kept[j].cites) :
               \E n \in 1 .. M : n < m /\ ord[n] = c
    BY <1>4
  <2>2. Contains(out[i].cites, m)
    BY <1>8, <1>12, <2>1
  <2>3. ASSUME NEW j \in 1 .. (i - 1), NEW n \in ToSet(out[j].cites) PROVE n < m
    <3>1. j \in 1 .. N
      BY <1>6
    <3>2. n \in 1 .. M /\ ord[n] \in ToSet(kept[j].cites)
      BY <1>8, <1>12, <3>1
    <3>3. PICK k \in 1 .. M : k < m /\ ord[k] = ord[n]
      BY <2>1, <3>2
    <3>4. k = n
      BY <1>4, <3>2, <3>3
    <3> QED
      BY <3>3, <3>4
  <2> QED
    BY <2>2, <2>3
<1>17. \A m, n \in 1 .. M : m # n => lines[m].n # lines[n].n
  BY <1>4, <1>13
<1>18. Len(out) > 1 => Words(out) <= MaxWords
  <2>1. [i \in DOMAIN out |-> out[i].words] = [i \in DOMAIN kept |-> kept[i].words]
    BY <1>6, <1>9, <1>10
  <2>2. Words(out) = Words(kept)
    BY <2>1, Zenon DEF Words
  <2>3. Len(out) = N
    BY <1>6, <1>10
  <2> QED
    BY <1>3, <2>2, <2>3
<1>19. Grounded(r, out, lines)
  BY <1>10, <1>12, <1>8, <1>13, <1>14, <1>15, <1>16, <1>17, <1>18 DEF Grounded
<1>20. lines = [m \in 1 .. M |-> LineOf(r, ord[m])]
  BY <1>5 DEF lines
<1> QED
  BY <1>1, <1>5, <1>19, <1>20 DEF M, ord, kept

-----------------------------------------------------------------------------
(* AskRun.                                                                 *)

(* The sum of what calls reserve, and how FoldSet computes it: from the    *)
(* sums of smaller sets.                                                   *)
Pick(T)   == CHOOSE x \in T : TRUE
IsSums(g, S) ==
  g = [T \in SUBSET S |-> IF T = {} THEN 0 ELSE g[T \ {Pick(T)}] + Price[Pick(T)]]
Sums(S)   == CHOOSE g : IsSums(g, S)
Total(S)  == FoldSet(LAMBDA c, sum : sum + Price[c], 0, S)

(* FoldSet() takes such sums.                                              *)
LEMMA TotalUnfolds == ASSUME NEW S PROVE Total(S) = Sums(S)[S]
BY DEF Total, FoldSet, MapThenFoldSet, Sums, IsSums, Pick

(* A set without one of its elements is smaller.                           *)
LEMMA Picked == ASSUME NEW T, T # {} PROVE Pick(T) \in T /\ T \ {Pick(T)} \in (SUBSET T) \ {T}
BY DEF Pick

(* Sums of the same set are the same.                                      *)
LEMMA SumsAgree ==
  ASSUME NEW S, IsFiniteSet(S), NEW f, NEW g, NEW X, NEW Y, IsSums(f, X), IsSums(g, Y),
         S \subseteq X, S \subseteq Y
  PROVE  f[S] = g[S]
<1> DEFINE Bad == {T \in SUBSET S : f[T] # g[T]}
<1>1. SUFFICES ASSUME Bad # {} PROVE FALSE
  OBVIOUS
<1>2. PICK T \in Bad : \A U \in (SUBSET T) \ {T} : U \notin Bad
  <2>1. Bad \in SUBSET (SUBSET S)
    OBVIOUS
  <2> HIDE DEF Bad
  <2> QED
    BY <1>1, <2>1, SmallestSet
<1>3. T \subseteq S /\ f[T] # g[T]
  BY <1>2
<1>4. /\ f[T] = IF T = {} THEN 0 ELSE f[T \ {Pick(T)}] + Price[Pick(T)]
      /\ g[T] = IF T = {} THEN 0 ELSE g[T \ {Pick(T)}] + Price[Pick(T)]
  <2>1. T \in SUBSET X /\ T \in SUBSET Y
    BY <1>3
  <2> QED
    BY <2>1 DEF IsSums
<1>5. T # {}
  BY <1>3, <1>4
<1>6. f[T \ {Pick(T)}] = g[T \ {Pick(T)}]
  BY <1>2, <1>3, <1>5, Picked
<1> QED
  BY <1>3, <1>4, <1>5, <1>6

(* There are such sums.                                                    *)
LEMMA SumsExist == ASSUME NEW S, IsFiniteSet(S) PROVE IsSums(Sums(S), S)
<1> DEFINE Bad == {T \in SUBSET S : ~ \E g : IsSums(g, T)}
<1>1. SUFFICES ASSUME Bad # {} PROVE FALSE
  BY DEF Sums
<1>2. PICK T \in Bad : \A U \in (SUBSET T) \ {T} : U \notin Bad
  <2>1. Bad \in SUBSET (SUBSET S)
    OBVIOUS
  <2> HIDE DEF Bad
  <2> QED
    BY <1>1, <2>1, SmallestSet
<1>3. IsFiniteSet(T) /\ T \in SUBSET S /\ ~ \E g : IsSums(g, T)
  BY <1>2, FS_Subset
<1>4. ASSUME NEW U \in (SUBSET T) \ {T} PROVE IsSums(Sums(U), U) /\ IsFiniteSet(U)
  BY <1>2, <1>3, FS_Subset DEF Sums
<1> DEFINE at(U) == Sums(U)[U]
           g == [U \in SUBSET T |-> IF U = {} THEN 0 ELSE at(U \ {Pick(U)}) + Price[Pick(U)]]
<1> HIDE DEF Bad
<1>5. ASSUME NEW U \in (SUBSET T) \ {T} PROVE g[U] = at(U)
  <2>1. at(U) = IF U = {} THEN 0 ELSE Sums(U)[U \ {Pick(U)}] + Price[Pick(U)]
    <3>1. U \in SUBSET U
      OBVIOUS
    <3> QED
      BY <1>4, <3>1 DEF IsSums
  <2>2. CASE U = {}
    BY <2>1, <2>2
  <2>3. CASE U # {}
    <3>1. U \ {Pick(U)} \in (SUBSET T) \ {T} /\ U \ {Pick(U)} \subseteq U
      BY <2>3, Picked
    <3>2. Sums(U)[U \ {Pick(U)}] = Sums(U \ {Pick(U)})[U \ {Pick(U)}]
      <4> DEFINE V == U \ {Pick(U)}
      <4>1. IsSums(Sums(U), U) /\ IsSums(Sums(V), V) /\ IsFiniteSet(V) /\ V \subseteq U
        BY <1>4, <3>1
      <4> HIDE DEF V
      <4>2. Sums(U)[V] = Sums(V)[V]
        BY <4>1, SumsAgree
      <4> QED
        BY <4>2 DEF V
    <3> QED
      BY <2>1, <2>3, <3>2
  <2> QED
    BY <2>2, <2>3
<1>6. g = [U \in SUBSET T |-> IF U = {} THEN 0 ELSE g[U \ {Pick(U)}] + Price[Pick(U)]]
  <2>1. ASSUME NEW U \in SUBSET T, U # {} PROVE g[U \ {Pick(U)}] = at(U \ {Pick(U)})
    <3>1. U \ {Pick(U)} \in (SUBSET T) \ {T}
      BY <2>1, Picked
    <3> HIDE DEF g, at
    <3> QED
      BY <1>5, <3>1
  <2> QED
    BY <2>1
<1>7. IsSums(g, T)
  BY <1>6 DEF IsSums
<1> QED
  BY <1>3, <1>7

(* So a total has a last summand, ...                                      *)
LEMMA TotalPicks ==
  ASSUME NEW S, IsFiniteSet(S)
  PROVE  Total(S) = IF S = {} THEN 0 ELSE Total(S \ {Pick(S)}) + Price[Pick(S)]
<1>1. Total(S) = IF S = {} THEN 0 ELSE Sums(S)[S \ {Pick(S)}] + Price[Pick(S)]
  <2>1. S \in SUBSET S /\ IsSums(Sums(S), S)
    BY SumsExist
  <2> HIDE DEF Sums
  <2> QED
    BY <2>1, TotalUnfolds DEF IsSums
<1>2. ASSUME S # {} PROVE Sums(S)[S \ {Pick(S)}] = Total(S \ {Pick(S)})
  <2> DEFINE V == S \ {Pick(S)}
  <2>1. V \subseteq S /\ IsFiniteSet(V)
    BY FS_Subset
  <2> HIDE DEF V
  <2>2. IsSums(Sums(S), S) /\ IsSums(Sums(V), V)
    BY <2>1, SumsExist
  <2>3. Sums(S)[V] = Sums(V)[V]
    BY <2>1, <2>2, SumsAgree
  <2>4. Sums(S)[V] = Total(V)
    BY <2>3, TotalUnfolds
  <2> QED
    BY <2>4 DEF V
<1> QED
  BY <1>1, <1>2

(* ... is a natural number, ...                                            *)
LEMMA TotalIsNat ==
  ASSUME NEW S \in SUBSET AskCall, IsFiniteSet(S)
  PROVE  Total(S) \in Nat
<1> DEFINE Bad == {T \in SUBSET S : Total(T) \notin Nat}
<1>1. SUFFICES ASSUME Bad # {} PROVE FALSE
  <2>1. S \in SUBSET S
    OBVIOUS
  <2> QED
    BY <2>1
<1>2. PICK T \in Bad : \A U \in (SUBSET T) \ {T} : U \notin Bad
  <2>1. Bad \in SUBSET (SUBSET S)
    OBVIOUS
  <2> HIDE DEF Bad
  <2> QED
    BY <1>1, <2>1, SmallestSet
<1>3. T \subseteq S /\ Total(T) \notin Nat /\ IsFiniteSet(T)
  BY <1>2, FS_Subset
<1>4. T # {}
  BY <1>3, TotalPicks
<1>5. Pick(T) \in AskCall /\ T \ {Pick(T)} \in (SUBSET T) \ {T}
  BY <1>3, <1>4, Picked
<1>6. Total(T \ {Pick(T)}) \in Nat
  BY <1>2, <1>3, <1>5
<1>7. Price[Pick(T)] \in Nat
  BY <1>5, AskAssumption
<1>8. Total(T) = Total(T \ {Pick(T)}) + Price[Pick(T)]
  BY <1>3, <1>4, TotalPicks
<1> QED
  BY <1>3, <1>6, <1>7, <1>8

(* ... and does not depend on which summand is the last.                   *)
LEMMA TotalWithout ==
  ASSUME NEW S \in SUBSET AskCall, IsFiniteSet(S), NEW x \in S
  PROVE  Total(S) = Total(S \ {x}) + Price[x]
<1> DEFINE Bad == {T \in SUBSET S : \E y \in T : Total(T) # Total(T \ {y}) + Price[y]}
<1>1. SUFFICES ASSUME Bad # {} PROVE FALSE
  <2>1. S \in SUBSET S
    OBVIOUS
  <2> QED
    BY <2>1
<1>2. PICK T \in Bad : \A U \in (SUBSET T) \ {T} : U \notin Bad
  <2>1. Bad \in SUBSET (SUBSET S)
    OBVIOUS
  <2> HIDE DEF Bad
  <2> QED
    BY <1>1, <2>1, SmallestSet
<1>3. PICK y \in T : Total(T) # Total(T \ {y}) + Price[y]
  BY <1>2
<1> DEFINE z == Pick(T)
<1>4. T \subseteq S /\ IsFiniteSet(T) /\ z \in T
  BY <1>2, <1>3, FS_Subset, Picked
<1>5. Total(T) = Total(T \ {z}) + Price[z]
  BY <1>3, <1>4, TotalPicks
<1> HIDE DEF z
<1>6. y # z
  BY <1>3, <1>5
<1>7. T \ {z} \notin Bad /\ T \ {y} \notin Bad
  BY <1>2, <1>4
<1>8. /\ T \ {z} \in SUBSET S /\ T \ {y} \in SUBSET S /\ y \in T \ {z} /\ z \in T \ {y}
      /\ (T \ {z}) \ {y} = (T \ {y}) \ {z}
  BY <1>4, <1>6
<1>9. /\ Total(T \ {z}) = Total((T \ {z}) \ {y}) + Price[y]
      /\ Total(T \ {y}) = Total((T \ {z}) \ {y}) + Price[z]
  BY <1>7, <1>8
<1>10. Price[y] \in Nat /\ Price[z] \in Nat
  BY <1>4, AskAssumption
<1>11. Total((T \ {z}) \ {y}) \in Nat
  <2> DEFINE V == (T \ {z}) \ {y}
  <2>1. V \in SUBSET AskCall /\ IsFiniteSet(V)
    BY <1>4, FS_Subset
  <2> HIDE DEF V
  <2>2. Total(V) \in Nat
    BY <2>1, TotalIsNat
  <2> QED
    BY <2>2 DEF V
<1> QED
  BY <1>3, <1>5, <1>9, <1>10, <1>11

(* Nothing is synthesized unless a reader found something.                 *)
AskProgress ==
  /\ callPc \in [AskCall -> {"off", "sent", "again", "over", "failed", "refused"}]
  /\ askPc \in {"synthesize", "threads"} => found # {}

(* The calls together stay below the ceiling, and those in flight hold     *)
(* what the budget has reserved.                                           *)
UnderCeiling ==
  /\ spent \in Nat /\ overrun \in Nat
  /\ spent + reserved <= MaxUsd + overrun
  /\ reserved = Total(InFlight)

(* What is printed is what is left of the synthesizer's one reply, when a  *)
(* reader had found something, and under --strict it is enough.            *)
PrintsTheReply ==
  result.sentences # <<>> \/ result.evidence # <<>> =>
    /\ askPc \in {"threads", "done"} /\ found # {} /\ callPc[Synth] = "over"
    /\ result = Answered(Filter(reply))
    /\ strict => Enough(Filter(reply))

AskInv == AskProgress /\ UnderCeiling /\ PrintsTheReply

(* The numbers of the calls, of which finitely many are in flight.         *)
LEMMA AskCalls ==
  /\ AskCall \subseteq Int /\ Synth \in AskCall /\ Confirm \in AskCall /\ Reader \subseteq AskCall
  /\ IsFiniteSet(AskCall)
<1>1. Readers \in Nat \ {0}
  BY AskAssumption
<1> QED
  BY <1>1, FS_Interval DEF AskCall, Synth, Confirm, Reader

(* They hold an amount.                                                    *)
LEMMA InFlightTotal ==
  /\ InFlight \in SUBSET AskCall /\ IsFiniteSet(InFlight) /\ Total(InFlight) \in Nat
<1>1. InFlight \in SUBSET AskCall
  BY DEF InFlight
<1>2. IsFiniteSet(InFlight)
  BY <1>1, AskCalls, FS_Subset
<1> QED
  BY <1>1, <1>2, TotalIsNat

Places == {"off", "sent", "again", "over", "failed", "refused"}

(* Nothing is sent, held or printed yet.                                   *)
LEMMA AskInitInv == AskInit => AskInv
<1> SUFFICES ASSUME AskInit PROVE AskInv
  OBVIOUS
<1>1. InFlight = {}
  BY DEF AskInit, InFlight
<1>2. Total(InFlight) = 0
  BY <1>1, FS_EmptySet, TotalPicks
<1>3. UnderCeiling
  BY <1>2, AskAssumption DEF AskInit, UnderCeiling
<1> QED
  BY <1>3 DEF AskInit, AskInv, AskProgress, PrintsTheReply, NoResult

(* A call that leaves holds its estimate no more.                          *)
LEMMA CallLeaves ==
  ASSUME AskProgress, NEW c \in AskCall, callPc[c] = "sent",
         NEW pc \in Places \ {"sent"}, callPc' = [callPc EXCEPT ![c] = pc]
  PROVE  Total(InFlight') = Total(InFlight) - Price[c]
<1>1. InFlight' = InFlight \ {c} /\ c \in InFlight
  BY DEF InFlight, AskProgress
<1>2. Total(InFlight) = Total(InFlight \ {c}) + Price[c]
  BY <1>1, InFlightTotal, TotalWithout
<1>3. InFlight \ {c} \in SUBSET AskCall /\ IsFiniteSet(InFlight \ {c})
  BY InFlightTotal, FS_Subset
<1> HIDE DEF InFlight
<1>4. Total(InFlight \ {c}) \in Nat /\ Price[c] \in Nat
  BY <1>3, TotalIsNat, AskAssumption
<1> QED
  BY <1>1, <1>2, <1>4

(* One that is sent holds it.                                              *)
LEMMA CallEnters ==
  ASSUME AskProgress, NEW c \in AskCall, callPc[c] # "sent",
         callPc' = [callPc EXCEPT ![c] = "sent"]
  PROVE  Total(InFlight') = Total(InFlight) + Price[c]
<1>1. InFlight' = InFlight \cup {c} /\ c \notin InFlight
  BY DEF InFlight, AskProgress
<1>2. InFlight' \in SUBSET AskCall /\ IsFiniteSet(InFlight')
  <2>1. InFlight' \in SUBSET AskCall
    BY DEF InFlight
  <2> QED
    BY <2>1, AskCalls, FS_Subset
<1>3. Total(InFlight') = Total(InFlight' \ {c}) + Price[c]
  BY <1>1, <1>2, TotalWithout
<1>4. InFlight' \ {c} = InFlight
  BY <1>1
<1> QED
  BY <1>3, <1>4

(* A call is sent only while its estimate fits.                            *)
LEMMA SendsKeeps ==
  ASSUME AskInv, NEW c \in AskCall, callPc[c] \in {"off", "again"}, Sends(c) PROVE AskInv'
<1>1. /\ callPc' \in [AskCall -> Places]
      /\ callPc[Synth] = "over" => callPc'[Synth] = "over"
      /\ UNCHANGED <<strict, askPc, retried, found, spent, overrun, reply, result>>
  BY DEF Sends, AskInv, AskProgress, Places
<1>2. Price[c] \in Nat /\ MaxUsd \in Nat /\ Total(InFlight) \in Nat
  BY AskAssumption, InFlightTotal
<1>3. UnderCeiling'
  <2>1. CASE FitsBudget(c)
    <3>1. reserved' = reserved + Price[c] /\ callPc' = [callPc EXCEPT ![c] = "sent"]
      BY <2>1 DEF Sends
    <3>2. Total(InFlight') = Total(InFlight) + Price[c]
      BY <3>1, CallEnters DEF AskInv
    <3> QED
      BY <1>1, <1>2, <2>1, <3>1, <3>2 DEF FitsBudget, AskInv, UnderCeiling
  <2>2. CASE ~FitsBudget(c)
    <3>1. reserved' = reserved /\ callPc' = [callPc EXCEPT ![c] = "refused"]
      BY <2>2 DEF Sends
    <3>2. InFlight' = InFlight
      BY <3>1 DEF InFlight, AskInv, AskProgress
    <3> QED
      BY <1>1, <3>1, <3>2 DEF AskInv, UnderCeiling
  <2> QED
    BY <2>1, <2>2
<1>4. PrintsTheReply'
  BY <1>1 DEF AskInv, PrintsTheReply, Answered, Filter, Enough
<1> QED
  BY <1>1, <1>3, <1>4 DEF AskInv, AskProgress, Places

(* What a call turns out to cost replaces what it held.                    *)
LEMMA AnswersKeeps ==
  ASSUME AskInv, NEW c \in AskCall, Answers(c) PROVE AskInv'
<1>1. /\ callPc[c] = "sent" /\ UNCHANGED <<strict, askPc, result>>
      /\ callPc' \in {[callPc EXCEPT ![c] = "again"], [callPc EXCEPT ![c] = "over"]}
      /\ found \subseteq found' /\ (c # Synth => reply' = reply)
  BY DEF Answers
<1>2. /\ callPc' \in [AskCall -> Places]
      /\ callPc[Synth] = "over" => callPc'[Synth] = "over" /\ c # Synth
  BY <1>1, AskCalls DEF AskInv, AskProgress, Places
<1>3. UnderCeiling'
  <2>1. PICK usd \in Bill : spent' = spent + usd
                            /\ overrun' = overrun + (IF usd > Price[c] THEN usd - Price[c] ELSE 0)
    BY DEF Answers
  <2>2. /\ reserved' = reserved - Price[c] /\ Price[c] \in Nat /\ usd \in Nat /\ MaxUsd \in Nat
        /\ Total(InFlight) \in Nat
    BY AskAssumption, InFlightTotal DEF Answers, TakenBack
  <2>3. Total(InFlight') = Total(InFlight) - Price[c]
    BY <1>1, CallLeaves DEF AskInv, Places
  <2> QED
    BY <2>1, <2>2, <2>3 DEF AskInv, UnderCeiling
<1>4. PrintsTheReply'
  BY <1>1, <1>2 DEF AskInv, PrintsTheReply, Answered, Filter, Enough
<1>5. AskProgress'
  BY <1>1, <1>2 DEF AskInv, AskProgress, Places
<1> QED
  BY <1>3, <1>4, <1>5 DEF AskInv

(* A call that fails holds nothing any more.                               *)
LEMMA FailsKeeps == ASSUME AskInv, NEW c \in AskCall, Fails(c) PROVE AskInv'
<1>1. /\ callPc[c] = "sent" /\ callPc' = [callPc EXCEPT ![c] = "failed"]
      /\ UNCHANGED <<strict, askPc, retried, found, spent, overrun, reply, result>>
  BY DEF Fails
<1>2. /\ callPc' \in [AskCall -> Places]
      /\ callPc[Synth] = "over" => callPc'[Synth] = "over"
  BY <1>1, AskCalls DEF AskInv, AskProgress, Places
<1>3. UnderCeiling'
  <2>1. /\ reserved' = reserved - Price[c] /\ Price[c] \in Nat /\ MaxUsd \in Nat
        /\ Total(InFlight) \in Nat
    BY AskAssumption, InFlightTotal DEF Fails, TakenBack
  <2>2. Total(InFlight') = Total(InFlight) - Price[c]
    BY <1>1, CallLeaves DEF AskInv, Places
  <2> QED
    BY <1>1, <2>1, <2>2 DEF AskInv, UnderCeiling
<1>4. PrintsTheReply'
  BY <1>1, <1>2 DEF AskInv, PrintsTheReply, Answered, Filter, Enough
<1> QED
  BY <1>1, <1>2, <1>3, <1>4 DEF AskInv, AskProgress, Places

(* The verb itself.                                                        *)
LEMMA VerbKeeps ==
  ASSUME AskInv, ReadersEnd \/ SynthEnds \/ ThreadsEnd PROVE AskInv'
<1>1. /\ UNCHANGED <<strict, callPc, retried, found, reserved, spent, overrun, reply>>
      /\ askPc' \in {"done", "threw", "synthesize", "threads"}
      /\ askPc' \in {"synthesize", "threads"} => found # {}
      /\ \/ result'.sentences = <<>> /\ result'.evidence = <<>>
         \/ /\ askPc' = "threads" /\ callPc[Synth] = "over" /\ result' = Answered(Filter(reply))
            /\ strict => Enough(Filter(reply))
         \/ askPc = "threads" /\ askPc' = "done" /\ result' = result
  <2>1. CASE ReadersEnd
    BY <2>1 DEF ReadersEnd, Refuses, Goes, NoResult
  <2>2. CASE SynthEnds
    <3>1. found # {}
      BY <2>2 DEF SynthEnds, AskInv, AskProgress
    <3>2. \A why : /\ [NoResult EXCEPT !.refusal = why].sentences = <<>>
                   /\ [NoResult EXCEPT !.refusal = why].evidence = <<>>
      BY DEF NoResult
    <3>3. NoResult.sentences = <<>> /\ NoResult.evidence = <<>>
      BY DEF NoResult
    <3>4. CASE Refuses("budget") \/ Refuses("strict")
      BY <3>2, <3>4, Zenon DEF Refuses, Goes
    <3>5. CASE Goes("threw", NoResult)
      BY <3>3, <3>5, Zenon DEF Goes
    <3>6. CASE /\ callPc[Synth] = "over" /\ (strict => Enough(Filter(reply)))
               /\ Goes("threads", Answered(Filter(reply)))
      BY <3>1, <3>6, Zenon DEF Goes
    <3> QED
      BY <2>2, <3>4, <3>5, <3>6, Zenon DEF SynthEnds
  <2>3. CASE ThreadsEnd
    BY <2>3 DEF ThreadsEnd, Goes, AskInv, AskProgress
  <2> QED
    BY <2>1, <2>2, <2>3
<1>2. UnderCeiling'
  <2>1. InFlight' = InFlight
    BY <1>1 DEF InFlight
  <2> QED
    BY <1>1, <2>1 DEF AskInv, UnderCeiling
<1>3. PrintsTheReply'
  BY <1>1 DEF AskInv, AskProgress, PrintsTheReply, Answered, Filter, Enough
<1> QED
  BY <1>1, <1>2, <1>3 DEF AskInv, AskProgress

(* Every step of an ask keeps the invariant.                               *)
LEMMA AskNextInv == AskInv /\ [AskStep]_askVars => AskInv'
<1> SUFFICES ASSUME AskInv, [AskStep]_askVars PROVE AskInv'
  OBVIOUS
<1>1. CASE UNCHANGED askVars
  <2>1. InFlight' = InFlight
    BY <1>1 DEF askVars, InFlight
  <2> QED
    BY <1>1, <2>1 DEF askVars, AskInv, AskProgress, UnderCeiling, PrintsTheReply, Answered, Filter, Enough
<1>2. CASE SynthStarts \/ ConfirmStarts
  BY <1>2, AskCalls, SendsKeeps DEF SynthStarts, ConfirmStarts
<1>3. ASSUME NEW c \in AskCall, ReaderEnters(c) \/ SendsAgain(c) PROVE AskInv'
  BY <1>3, SendsKeeps DEF ReaderEnters, SendsAgain
<1> QED
  BY <1>1, <1>2, <1>3, AnswersKeeps, FailsKeeps, VerbKeeps DEF AskStep

(* What an ask keeps besides its calls and its budget.                     *)
AskTyped ==
  /\ strict \in BOOLEAN /\ askPc \in {"read", "synthesize", "threads", "done", "threw"}
  /\ retried \subseteq AskCall /\ found \subseteq Reader /\ reply \in Replies
  /\ result.refusal \in {"none", "no-answer", "budget", "strict"}

(* It has nothing at the start.                                            *)
LEMMA AskInitTyped == AskInit => AskTyped
BY AskAssumption DEF AskInit, AskTyped, NoResult

(* Every step keeps the types.                                             *)
LEMMA AskNextTyped == AskTyped /\ [AskStep]_askVars => AskTyped'
<1> SUFFICES ASSUME AskTyped, [AskStep]_askVars PROVE AskTyped'
  OBVIOUS
<1> USE DEF AskTyped
<1>1. CASE UNCHANGED askVars
  BY <1>1 DEF askVars
<1>2. ASSUME NEW c \in AskCall, Sends(c) PROVE AskTyped'
  BY <1>2 DEF Sends
<1>3. ASSUME NEW c \in AskCall, Answers(c) PROVE AskTyped'
  <2>1. UNCHANGED <<strict, askPc, result>> /\ retried' \subseteq retried \cup {c}
    BY <1>3 DEF Answers
  <2>2. found' \subseteq Reader /\ reply' \in Replies
    BY <1>3 DEF Answers
  <2> QED
    BY <2>1, <2>2
<1>4. ASSUME NEW c \in AskCall, Fails(c) PROVE AskTyped'
  BY <1>4 DEF Fails
<1>5. ASSUME NEW pc \in {"read", "synthesize", "threads", "done", "threw"}, NEW res, Goes(pc, res),
             res.refusal \in {"none", "no-answer", "budget", "strict"}
      PROVE  AskTyped'
  BY <1>5 DEF Goes
<1>6. ASSUME NEW why \in {"none", "no-answer", "budget", "strict"}, Refuses(why) PROVE AskTyped'
  BY <1>6, <1>5 DEF Refuses, NoResult
<1>7. \A f : Answered(f).refusal = "none"
  BY DEF Answered
<1>8. CASE ReadersEnd
  BY <1>5, <1>6, <1>8 DEF ReadersEnd, NoResult
<1>9. CASE SynthEnds
  <2>1. NoResult.refusal = "none"
    BY DEF NoResult
  <2> QED
    BY <1>5, <1>6, <1>7, <1>9, <2>1, Zenon DEF SynthEnds
<1>10. CASE ThreadsEnd
  BY <1>5, <1>10 DEF ThreadsEnd
<1>11. CASE SynthStarts \/ ConfirmStarts
  BY <1>2, <1>11, AskCalls DEF SynthStarts, ConfirmStarts
<1>12. ASSUME NEW c \in AskCall, ReaderEnters(c) \/ SendsAgain(c) PROVE AskTyped'
  BY <1>2, <1>12 DEF ReaderEnters, SendsAgain
<1> QED
  BY <1>1, <1>3, <1>4, <1>8, <1>9, <1>10, <1>11, <1>12 DEF AskStep

-----------------------------------------------------------------------------
(* All of them side by side.                                               *)

VerbsInv == ThreadsInv /\ ShelfInv /\ AskInv

(* Each starts in one of its initial states.                               *)
LEMMA VerbsInitInv == Init => VerbsInv
BY ThreadsInitInv, ShelfInitInv, AskInitInv, Zenon DEF Init, VerbsInv

(* A step of all is a step of one and leaves the others alone.             *)
LEMMA EachVerbSteps ==
  ASSUME [Next]_vars
  PROVE  [ThreadsNext]_threadVars /\ [ShelfNext]_shelfVars /\ [AskStep]_askVars
BY Zenon DEF Next, InThreads, InShelf, InAsk, vars

(* So every step keeps the three invariants.                               *)
LEMMA VerbsNextInv == VerbsInv /\ [Next]_vars => VerbsInv'
BY EachVerbSteps, ThreadsNextInv, ShelfNextInv, AskNextInv, Zenon DEF VerbsInv

(* Whatever runs side by side, the index's rows, the chains derived from   *)
(* them, the cards and their commands, and the calls of an ask stay what   *)
(* they are declared to be; above all a chain that deriveThreads() stores  *)
(* consists of sessions of the index and ends, so its depth is a number    *)
(* below theirs.                                                           *)
THEOREM VerbsTyped == Spec => []VerbsTypeOK
<1>1. Init => HealInv /\ ThreadsTyped /\ AskTyped
  BY HealInit, ThreadsInitTyped, AskInitTyped, Zenon DEF Init
<1>2. VerbsInv /\ HealInv /\ ThreadsTyped /\ AskTyped /\ [Next]_vars
        => (HealInv /\ ThreadsTyped /\ AskTyped)'
  BY EachVerbSteps, HealNext, ThreadsNextTyped, AskNextTyped, Zenon DEF VerbsInv
<1>3. ThreadsInv /\ HealInv /\ ThreadsTyped => ThreadsTypeOK
  BY DEF ThreadsInv, HealInv, RowsFollow, ThreadsTyped, Passes, ThreadsTypeOK
<1>4. AskInv /\ AskTyped => AskTypeOK
  <2> SUFFICES ASSUME AskInv, AskTyped PROVE AskTypeOK
    OBVIOUS
  <2>1. reserved \in Nat
    BY InFlightTotal DEF AskInv, UnderCeiling
  <2>2. DOMAIN reply = {"evidence", "answer"}
    BY AskAssumption DEF AskTyped
  <2> QED
    BY <2>1, <2>2 DEF AskInv, AskProgress, UnderCeiling, AskTyped, AskTypeOK
<1>5. VerbsInv /\ HealInv /\ ThreadsTyped /\ AskTyped => VerbsTypeOK
  BY <1>3, <1>4 DEF VerbsInv, ShelfInv, VerbsTypeOK
<1> QED
  BY <1>1, <1>2, <1>5, VerbsInitInv, VerbsNextInv, PTL DEF Spec

(* `ls` hides no session, whatever passes, forgets and filters do: of each *)
(* chain that deriveThreads() stores one link at most is the head, and it  *)
(* stands for all the others.                                              *)
THEOREM LsHidesNothing == Spec => []NothingHidden
BY VerbsInitInv, VerbsNextInv, OneHeadHidesNothing, PTL DEF Spec, VerbsInv

(* Whatever was overtaken, failed or forgotten before, an index pass that  *)
(* nothing disturbs stores the chains that a cold index would derive: the  *)
(* rows it has behind it are those a cold index would have, and of these   *)
(* only sessions are linked that have a row, so no foreign key refuses it. *)
THEOREM ChainsAlwaysHeal == Spec => ChainsHealInOnePass
<1>1. Init => HealInv
  BY HealInit DEF Init
<1>2. VerbsInv /\ HealInv /\ [Next]_vars => HealInv'
  BY EachVerbSteps, HealNext, Zenon DEF VerbsInv
<1>3. VerbsInv /\ HealInv /\ [Next]_vars =>
        [\A p \in Indexer :
           pass[p].at = "derived" /\ p \in calm \cap calm' =>
             threads' = Chains([s \in Session |->
                                  IF s \in forgotten THEN Nothing
                                  ELSE IF s \in gone THEN row[s] ELSE file[s]])]_threadVars
  <2> SUFFICES ASSUME VerbsInv, HealInv, [Next]_vars, ThreadsNext,
                      NEW p \in Indexer, pass[p].at = "derived", p \in calm, p \in calm'
               PROVE  threads' = Chains([s \in Session |-> Fresh(s)])
    BY EachVerbSteps, Zenon DEF Fresh
  <2> QED
    BY HealStep DEF VerbsInv
<1> QED
  BY <1>1, <1>2, <1>3, VerbsInitInv, VerbsNextInv, PTL DEF Spec, ChainsHealInOnePass

(* Cards, in the two halves that hold.  `potsherd card` plans calls only   *)
(* for a session of which something is indexed that its card has not seen  *)
(* (it may miss one: plan.ts compares times).  And a complete forget       *)
(* leaves neither card nor file of a session with a transcript, unless a   *)
(* command had it loaded, or failed to card it since; a ghost keeps both.  *)
THEOREM CardsAlwaysFollow == Spec => CardsFollowSessions
<1>1. VerbsInv => QuietForgetIsComplete
  BY DEF VerbsInv, ShelfInv, ForgottenStays, QuietForgetIsComplete
<1>2. VerbsInv /\ [Next]_vars =>
        [\A p \in Cmds : run[p].pc = "idle" /\ run'[p].pc # "idle" =>
           \A i \in DOMAIN run'[p].todo :
             LET s == run'[p].todo[i] IN card[s] # None => card[s].of < indexed[s].of]_shelfVars
  BY EachVerbSteps, PlanStep, Zenon DEF VerbsInv
<1> QED
  BY <1>1, <1>2, VerbsInitInv, VerbsNextInv, PTL DEF Spec, CardsFollowSessions, PlansOnlyChanges

(* What is printed is what filterAnswer() leaves of the one reply of the   *)
(* synthesizer, asked after a reader had found something, and enough of it *)
(* under --strict.                                                         *)
THEOREM AskPrintsOneReply == Spec => []PrintsTheReply
BY VerbsInitInv, VerbsNextInv, PTL DEF Spec, VerbsInv, AskInv

(* `ask` is honest.  Whatever is proposed, only sentences are printed that *)
(* cite genuine lines printed below them, numbered by their first use;     *)
(* nothing is printed that no reader and no synthesizer answered for, and  *)
(* under --strict nothing on fewer genuine lines than it demands; readers, *)
(* synthesizer and confirmation share one ceiling, which only the part of  *)
(* a bill that is above its estimate exceeds, and exactly the calls in     *)
(* flight hold a part of it, however they end.                             *)
THEOREM AskAlwaysHonest == Spec => []AskIsHonest
<1>1. AskInv => AskWithinCap
  BY DEF AskInv, UnderCeiling, AskWithinCap, Total
<1>2. AskInv /\ AskTyped => AnswerIsGrounded /\ AnswerIsEarned
  <2> SUFFICES ASSUME AskInv, AskTyped PROVE AnswerIsGrounded /\ AnswerIsEarned
    OBVIOUS
  <2>1. CASE result.sentences = <<>> /\ result.evidence = <<>>
    <3>1. DOMAIN result.sentences = {} /\ DOMAIN result.evidence = {} /\ Len(result.sentences) = 0
      BY <2>1
    <3> QED
      BY <2>1, <3>1 DEF AnswerIsGrounded, Grounded, AnswerIsEarned
  <2>2. CASE result.sentences # <<>> \/ result.evidence # <<>>
    <3>1. /\ found # {} /\ callPc[Synth] = "over" /\ result = Answered(Filter(reply))
          /\ strict => Enough(Filter(reply))
      BY <2>2 DEF AskInv, PrintsTheReply
    <3>2. /\ result.sentences = Filter(reply).sentences /\ result.evidence = Filter(reply).evidence
          /\ result.refusal = "none"
      BY <3>1 DEF Answered
    <3>3. AnswerIsGrounded
      BY <3>2, FilterIsGrounded DEF AskTyped, AnswerIsGrounded
    <3> DEFINE M     == Len(Order(Within(Backed(reply))))
               lines == result.evidence
    <3>4. M \in Nat /\ lines = [m \in 1 .. M |-> LineOf(reply, Order(Within(Backed(reply)))[m])]
      BY <3>2, FilterIsGrounded DEF AskTyped
    <3> HIDE DEF M
    <3>5. DOMAIN lines = 1 .. M /\ Len(lines) = M
      BY <3>4
    <3>6. \A m \in DOMAIN lines : Genuine(lines[m])
      BY <3>3 DEF AnswerIsGrounded, Grounded
    <3>7. {m \in DOMAIN lines : Genuine(lines[m])} = 1 .. M
      BY <3>5, <3>6
    <3>8. Cardinality(1 .. M) = M
      BY <3>4, FS_Interval
    <3>9. strict => M >= MinEvidence
      BY <3>1, <3>2, <3>5 DEF Enough
    <3>10. AnswerIsEarned
      BY <3>1, <3>2, <3>7, <3>8, <3>9 DEF AnswerIsEarned
    <3> QED
      BY <3>3, <3>10
  <2> QED
    BY <2>1, <2>2
<1>3. VerbsInv /\ AskTyped => AskIsHonest
  BY <1>1, <1>2 DEF VerbsInv, AskIsHonest
<1>4. Init => AskTyped
  BY AskInitTyped DEF Init
<1>5. VerbsInv /\ AskTyped /\ [Next]_vars => AskTyped'
  BY EachVerbSteps, AskNextTyped, Zenon
<1> QED
  BY <1>3, <1>4, <1>5, VerbsInitInv, VerbsNextInv, PTL DEF Spec

=============================================================================
